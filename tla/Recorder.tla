------------------------------ MODULE Recorder ------------------------------
(***************************************************************************)
(* The capture side of the browser extension: which call is live, who      *)
(* records it, and how a recording row gets from `recording` to `closing`. *)
(*                                                                         *)
(* Three parties run concurrently and share one IndexedDB: the service     *)
(* worker (background/{calls,recording,runtime}.ts), the offscreen         *)
(* document that records (entrypoints/offscreen/main.ts), and the worker's *)
(* sweep of orphans (services/recording-lock.ts).  A transaction is one    *)
(* step; two awaits of one handler are two steps.  What is sent to the     *)
(* server afterwards is module ExtensionSync.                              *)
(***************************************************************************)
EXTENDS Naturals

CONSTANTS
  MaxCalls,   \* bound: calls handed over, numbered in order of receipt
  MaxChunks,  \* bound: chunks of one recording
  MaxFaults,  \* bound: crashes, failed captures and failed writes, together
  Starts,     \* start requests the worker and the document may be handling
  None,       \* no recorder, no call: a free lock
  Sweeper     \* the worker, as the holder of a lock

Calls == 1..MaxCalls

ASSUME BoundsAssumption == MaxCalls \in Nat /\ MaxChunks \in Nat /\ MaxFaults \in Nat
ASSUME NamesAssumption ==
  /\ None \notin Starts /\ Sweeper \notin Starts /\ None # Sweeper
  /\ None \notin Calls

VARIABLES
  current,     \* the newest call, 0 before the first handoff
  phase,       \* [Calls -> the call's phase]
  row,         \* [Calls -> status of the call's recording row]
  interrupted, \* [Calls -> the flag of that row and of its close job]
  chunks,      \* [Calls -> chunk rows stored, numbered 0..n-1]
  lock,        \* [Calls -> holder of the Web Lock `recording:{callId}`]
  doc,         \* the offscreen document exists
  active,      \* the document's `active` recorder
  start,       \* [Starts -> the start request or the recorder it became]
  stopDue,     \* a worker handler is about to send `offscreen.recording.stop`
  sweep,       \* the worker's pass over orphaned recordings
  awake,       \* the worker's `ready` has resolved
  lost,        \* history: [Calls -> a chunk was not stored, and no stop came since]
  faults

rows == <<row, interrupted, chunks, lost>>
calls == <<current, phase>>
worker == <<stopDue, sweep, awake>>
vars == <<calls, rows, lock, doc, active, start, worker, faults>>

Phases == {"none", "ready", "dialing", "active", "ended"}

\* Where a start request is.  The first two steps run in the worker, the rest
\* in the document; `failed` and `finished` are messages to the worker.
InDocument == {"capturing", "locked", "begun", "recording", "stopping", "closed"}
Steps == {"idle", "opening", "stream", "failed", "finished"} \cup InDocument

\* Between its row and the end of its writes a recorder may store chunks.
Running == {"begun", "recording", "stopping"}
HoldsLock == Running \cup {"locked", "closed"}

StartRecords ==
  [at     : Steps,
   call   : Calls \cup {None},
   asked  : BOOLEAN,  \* a worker handler awaits the answer
   stop   : BOOLEAN,  \* stopRequested
   failed : BOOLEAN]  \* writeFailed

Idle == [at |-> "idle", call |-> None, asked |-> FALSE, stop |-> FALSE, failed |-> FALSE]

TypeOK ==
  /\ current \in 0..MaxCalls
  /\ phase \in [Calls -> Phases]
  /\ row \in [Calls -> {"none", "recording", "closing"}]
  /\ interrupted \in [Calls -> BOOLEAN]
  /\ chunks \in [Calls -> 0..MaxChunks]
  /\ lock \in [Calls -> Starts \cup {None, Sweeper}]
  /\ doc \in BOOLEAN
  /\ active \in Starts \cup {None}
  /\ start \in [Starts -> StartRecords]
  /\ stopDue \in BOOLEAN
  /\ sweep \in [on : BOOLEAN, todo : SUBSET Calls, holds : Calls \cup {None}]
  /\ awake \in BOOLEAN
  /\ lost \in [Calls -> BOOLEAN]
  /\ faults \in 0..MaxFaults

NoSweep == [on |-> FALSE, todo |-> {}, holds |-> None]

Init ==
  /\ current = 0
  /\ phase = [c \in Calls |-> "none"]
  /\ row = [c \in Calls |-> "none"]
  /\ interrupted = [c \in Calls |-> FALSE]
  /\ chunks = [c \in Calls |-> 0]
  /\ lock = [c \in Calls |-> None]
  /\ doc = FALSE
  /\ active = None
  /\ start = [s \in Starts |-> Idle]
  /\ stopDue = FALSE
  /\ sweep = NoSweep
  /\ awake = FALSE
  /\ lost = [c \in Calls |-> FALSE]
  /\ faults = 0

Fault == faults < MaxFaults /\ faults' = faults + 1

At(s, step) == start[s].at = step
GoTo(s, step) == start' = [start EXCEPT ![s].at = step]

-----------------------------------------------------------------------------
(* The call                                                                *)

IsLive(c) == phase[c] \in {"dialing", "active"}
LiveCall == current # 0 /\ IsLive(current)

\* receiveHandoff: refused while a call is live.
ReceiveHandoff ==
  /\ awake /\ ~LiveCall /\ current < MaxCalls
  /\ current' = current + 1
  /\ phase' = [phase EXCEPT ![current + 1] = "ready"]
  /\ UNCHANGED <<rows, lock, doc, active, start, worker, faults>>

Advance(from, to) ==
  /\ awake /\ current # 0 /\ phase[current] = from
  /\ phase' = [phase EXCEPT ![current] = to]
  /\ UNCHANGED <<current, rows, lock, doc, active, start, worker, faults>>

StartCall == Advance("ready", "dialing")
ConnectCall == Advance("dialing", "active")

\* endCallAndRecording: the call ends in a commit, the stop goes out later.
EndCall ==
  /\ awake /\ LiveCall
  /\ phase' = [phase EXCEPT ![current] = "ended"]
  /\ stopDue' = TRUE
  /\ UNCHANGED <<current, rows, lock, doc, active, start, sweep, awake, faults>>

-----------------------------------------------------------------------------
(* startRecording, in the worker                                           *)

\* recordingBlocker: one recording per call, and only while it is live.
Recordable(c) == IsLive(c) /\ row[c] = "none"

\* Passes recordableCallId; a refusal there changes nothing.
StartRecording(s) ==
  /\ awake /\ At(s, "idle")
  /\ current # 0 /\ Recordable(current)
  /\ start' = [start EXCEPT ![s] = [Idle EXCEPT !.at = "opening", !.call = current, !.asked = TRUE]]
  /\ UNCHANGED <<calls, rows, lock, doc, active, worker, faults>>

EnsureOffscreenDocument(s) ==
  /\ At(s, "opening")
  /\ doc' = TRUE
  /\ GoTo(s, "stream")
  /\ UNCHANGED <<calls, rows, lock, active, worker, faults>>

\* `offscreen.recording.start` arrives: no document, or one that already runs a
\* recorder, answers with an error.
SendStart(s) ==
  /\ At(s, "stream")
  /\ GoTo(s, IF doc /\ active = None THEN "capturing" ELSE "failed")
  /\ UNCHANGED <<calls, rows, lock, doc, active, worker, faults>>

\* The stream id or the microphone is refused.
CaptureFails(s) ==
  /\ Fault /\ start[s].at \in {"stream", "capturing"}
  /\ GoTo(s, "failed")
  /\ UNCHANGED <<calls, rows, lock, doc, active, worker>>

\* What dies with the document: its recorders, their locks, and the answers
\* that worker handlers were waiting for.
DocumentGone(s) ==
  /\ doc' = FALSE
  /\ active' = None
  /\ lock' = [c \in Calls |-> IF lock[c] \in Starts THEN None ELSE lock[c]]
  /\ start' = [t \in Starts |->
                 IF t = s THEN Idle
                 ELSE IF start[t].at \notin InDocument THEN start[t]
                 ELSE IF start[t].asked THEN [start[t] EXCEPT !.at = "failed"]
                 ELSE Idle]

\* A failed start closes the document, if a worker still waits for the answer.
CloseAfterFailure(s) ==
  /\ At(s, "failed")
  /\ IF start[s].asked
       THEN DocumentGone(s)
       ELSE start' = [start EXCEPT ![s] = Idle] /\ UNCHANGED <<lock, doc, active>>
  /\ UNCHANGED <<calls, rows, worker, faults>>

-----------------------------------------------------------------------------
(* startRecorder, in the document                                          *)

\* Mutant: the lock is taken whoever holds it.
IsAvailable_Steal(c) == TRUE

IsAvailable(c) == lock[c] = None

\* holdRecordingLock, with ifAvailable.
HoldRecordingLock(s) ==
  /\ At(s, "capturing")
  /\ LET c == start[s].call
     IN  IF IsAvailable(c)
           THEN lock' = [lock EXCEPT ![c] = s] /\ GoTo(s, "locked")
           ELSE GoTo(s, "failed") /\ UNCHANGED lock
  /\ UNCHANGED <<calls, rows, doc, active, worker, faults>>

\* The transaction asks again what the call is doing.  A refusal clears `active`,
\* whichever recorder that is.
BeginRecording(s) ==
  /\ At(s, "locked")
  /\ LET c == start[s].call
     IN  IF Recordable(c)
           THEN /\ row' = [row EXCEPT ![c] = "recording"]
                /\ GoTo(s, "begun")
                /\ UNCHANGED <<lock, active>>
           ELSE /\ GoTo(s, "failed")
                /\ active' = None
                /\ lock' = [lock EXCEPT ![c] = None]
                /\ UNCHANGED row
  /\ UNCHANGED <<calls, interrupted, chunks, lost, doc, worker, faults>>

\* The commit of beginRecording resolves, and the recorder runs.
Activate(s) ==
  /\ At(s, "begun")
  /\ active' = s
  /\ start' = [start EXCEPT ![s].at = "recording", ![s].asked = FALSE]
  /\ UNCHANGED <<calls, rows, lock, doc, worker, faults>>

\* Mutant: a recording without audio is not closed.
FinishRecording_Audible(c, flag) ==
  IF row[c] = "recording" /\ chunks[c] > 0
    THEN /\ row' = [row EXCEPT ![c] = "closing"]
         /\ interrupted' = [interrupted EXCEPT ![c] = flag]
    ELSE UNCHANGED <<row, interrupted>>

\* finishRecording acts on a `recording` row only.
FinishRecording(c, flag) ==
  IF row[c] = "recording"
    THEN /\ row' = [row EXCEPT ![c] = "closing"]
         /\ interrupted' = [interrupted EXCEPT ![c] = flag]
    ELSE UNCHANGED <<row, interrupted>>

\* MediaRecorder throws after the row was written.
StartThrows(s) ==
  /\ Fault /\ At(s, "begun")
  /\ active' = None
  /\ FinishRecording(start[s].call, TRUE)
  /\ lock' = [lock EXCEPT ![start[s].call] = None]
  /\ GoTo(s, "failed")
  /\ UNCHANGED <<calls, chunks, lost, doc, worker>>

-----------------------------------------------------------------------------
(* wireRecorder: the running recorder                                      *)

StoreChunk(s) ==
  /\ start[s].at \in {"recording", "stopping"} /\ ~start[s].failed
  /\ chunks[start[s].call] < MaxChunks
  /\ chunks' = [chunks EXCEPT ![start[s].call] = @ + 1]
  /\ UNCHANGED <<calls, row, interrupted, lost, lock, doc, active, start, worker, faults>>

\* Mutant: an interruption does not take back an earlier stop request.
Interrupt_AfterStop(s) == [start[s] EXCEPT !.at = "stopping"]

\* `interrupt`: the recorder stops, and no longer because it was asked to.
Interrupt(s) == [start[s] EXCEPT !.at = "stopping", !.stop = FALSE]

WriteFails(s) ==
  /\ Fault /\ start[s].at \in {"recording", "stopping"} /\ ~start[s].failed
  /\ start' = [start EXCEPT ![s] = [Interrupt(s) EXCEPT !.failed = TRUE]]
  /\ lost' = [lost EXCEPT ![start[s].call] = TRUE]
  /\ UNCHANGED <<calls, row, interrupted, chunks, lock, doc, active, worker>>

\* The tab's track ends, or MediaRecorder reports an error.
StreamEnds(s) ==
  /\ Fault /\ At(s, "recording")
  /\ start' = [start EXCEPT ![s] = Interrupt(s)]
  /\ UNCHANGED <<calls, rows, lock, doc, active, worker>>

\* stopRecording and stopRecorder: no document or no recorder is a success.
SendStop ==
  /\ stopDue
  /\ stopDue' = FALSE
  /\ start' = [s \in Starts |->
                 IF doc /\ s = active
                   THEN [start[s] EXCEPT !.stop = TRUE, !.at = IF @ = "recording" THEN "stopping" ELSE @]
                   ELSE start[s]]
  /\ lost' = [c \in Calls |-> lost[c] /\ ~(doc /\ active # None /\ start[active].call = c)]
  /\ UNCHANGED <<calls, row, interrupted, chunks, lock, doc, active, sweep, awake, faults>>

\* onstop, once the writes are through; a failed commit is only logged.
StoreClose(s) ==
  /\ At(s, "stopping")
  /\ FinishRecording(start[s].call, ~start[s].stop)
  /\ GoTo(s, "closed")
  /\ UNCHANGED <<calls, chunks, lost, lock, doc, active, worker, faults>>

CloseFails(s) ==
  /\ Fault /\ At(s, "stopping")
  /\ GoTo(s, "closed")
  /\ UNCHANGED <<calls, rows, lock, doc, active, worker>>

ReleaseLock(s) ==
  /\ At(s, "closed")
  /\ active' = None
  /\ lock' = [lock EXCEPT ![start[s].call] = None]
  /\ GoTo(s, "finished")
  /\ UNCHANGED <<calls, rows, doc, worker, faults>>

\* `recording.finished` reaches the worker, which closes the document.
RecordingFinished(s) ==
  /\ awake /\ At(s, "finished")
  /\ DocumentGone(s)
  /\ UNCHANGED <<calls, rows, worker, faults>>

-----------------------------------------------------------------------------
(* interruptOrphanedRecordings: on every wake and every alarm              *)

SweepReads ==
  /\ ~sweep.on
  /\ sweep' = [NoSweep EXCEPT !.on = TRUE, !.todo = {c \in Calls : row[c] = "recording"}]
  /\ UNCHANGED <<calls, rows, lock, doc, active, start, stopDue, awake, faults>>

\* Mutant: the sweep does not look at the lock.
IsOrphan_Any(c) == TRUE

IsOrphan(c) == lock[c] = None

SweepLocks(c) ==
  /\ c \in sweep.todo /\ sweep.holds = None
  /\ IF IsOrphan(c)
       THEN /\ lock' = [lock EXCEPT ![c] = Sweeper]
            /\ sweep' = [sweep EXCEPT !.todo = @ \ {c}, !.holds = c]
       ELSE /\ sweep' = [sweep EXCEPT !.todo = @ \ {c}]
            /\ UNCHANGED lock
  /\ UNCHANGED <<calls, rows, doc, active, start, stopDue, awake, faults>>

SweepCloses ==
  /\ sweep.holds # None
  /\ FinishRecording(sweep.holds, TRUE)
  /\ lock' = [lock EXCEPT ![sweep.holds] = None]
  /\ sweep' = [sweep EXCEPT !.holds = None]
  /\ UNCHANGED <<calls, chunks, lost, doc, active, start, stopDue, awake, faults>>

\* The sweep of a wake is what `ready` waits for.
SweepEnds ==
  /\ sweep.on /\ sweep.todo = {} /\ sweep.holds = None
  /\ sweep' = NoSweep
  /\ awake' = TRUE
  /\ UNCHANGED <<calls, rows, lock, doc, active, start, stopDue, faults>>

-----------------------------------------------------------------------------
(* Crashes                                                                 *)

\* The document crashes or is closed; the worker may be waiting for an answer.
DocumentDies ==
  /\ Fault /\ doc
  /\ DocumentGone(None)
  /\ UNCHANGED <<calls, rows, worker>>

\* The worker is shut down in the middle of its handlers; the document lives.
WorkerDies ==
  /\ Fault
  /\ start' = [s \in Starts |->
                 IF start[s].at \in {"opening", "stream"} THEN Idle
                 ELSE [start[s] EXCEPT !.asked = FALSE]]
  /\ lock' = [c \in Calls |-> IF lock[c] = Sweeper THEN None ELSE lock[c]]
  /\ stopDue' = FALSE
  /\ sweep' = NoSweep
  /\ awake' = FALSE
  /\ UNCHANGED <<calls, rows, doc, active>>

-----------------------------------------------------------------------------
StartStep(s) ==
  \/ EnsureOffscreenDocument(s)
  \/ SendStart(s)
  \/ CloseAfterFailure(s)
  \/ HoldRecordingLock(s)
  \/ BeginRecording(s)
  \/ Activate(s)

StopStep(s) ==
  \/ StoreClose(s)
  \/ ReleaseLock(s)
  \/ RecordingFinished(s)

SweepStep ==
  \/ SweepReads
  \/ \E c \in Calls : SweepLocks(c)
  \/ SweepCloses
  \/ SweepEnds

FaultStep(s) ==
  \/ CaptureFails(s)
  \/ StartThrows(s)
  \/ WriteFails(s)
  \/ StreamEnds(s)
  \/ CloseFails(s)

CallStep == ReceiveHandoff \/ StartCall \/ ConnectCall \/ EndCall

Next ==
  \/ CallStep
  \/ SendStop
  \/ \E s \in Starts :
       StartRecording(s) \/ StartStep(s) \/ StoreChunk(s) \/ StopStep(s) \/ FaultStep(s)
  \/ SweepStep
  \/ DocumentDies
  \/ WorkerDies

Spec == Init /\ [][Next]_vars

\* Every await resolves, an alarm fires every minute, and a call that is live is
\* hung up in the end.  Nobody has to call or to record.
Fairness ==
  /\ WF_vars(SweepStep)
  /\ WF_vars(SendStop)
  /\ WF_vars(EndCall)
  /\ \A s \in Starts : WF_vars(StartStep(s)) /\ WF_vars(StopStep(s))

FairSpec == Spec /\ Fairness

-----------------------------------------------------------------------------
(* Properties                                                              *)

\* A recorder that may still write owns the lock of its call, and its row says
\* `recording`: nobody closed the recording under it.
RecorderOwnsItsRow ==
  \A s \in Starts :
    start[s].at \in Running => lock[start[s].call] = s /\ row[start[s].call] = "recording"

\* Once the close is queued the audio is final: no chunk comes after the
\* manifest, and the row does not return to `recording`.
ClosedAudioIsFinal ==
  [][\A c \in Calls : row[c] = "closing" => chunks'[c] = chunks[c] /\ row'[c] = "closing"]_vars

\* Whoever closes a recording that misses a chunk marks it as interrupted: the
\* recorder itself, the sweep, the start that failed.  Only a stop sent to that
\* recorder after the write failed can hide the loss, never one sent before it.
LossIsReported ==
  [][\A c \in Calls : row[c] = "recording" /\ row'[c] = "closing" /\ lost[c] => interrupted'[c]]_vars

\* A recording whose recorder is gone does not stay `recording`.
Orphaned(c) == row[c] = "recording" /\ \A s \in Starts : start[s].call # c \/ start[s].at \notin Running
OrphansAreClosed == \A c \in Calls : Orphaned(c) ~> row[c] = "closing"

\* docs: the document sets `interrupted` "when the media stream ends by itself
\* (for example when the tab closes) or a chunk cannot be written", and the
\* worker when the recorder died: without a fault no close is interrupted.
InterruptedHasCause == faults = 0 => \A c \in Calls : ~interrupted[c]

=============================================================================
