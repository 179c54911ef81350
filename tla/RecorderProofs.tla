--------------------------- MODULE RecorderProofs ---------------------------
(***************************************************************************)
(* The safety of Recorder for every number of calls, chunks, faults and    *)
(* start requests.                                                         *)
(***************************************************************************)
EXTENDS Recorder, TLAPS

\* A request that is not idle names its call.
RequestHasCall == \A s \in Starts : start[s].at # "idle" => start[s].call \in Calls

\* From the grant to the release, the lock names its recorder.
HolderHasLock == \A s \in Starts : start[s].at \in HoldsLock => lock[start[s].call] = s

\* From the commit of its row to its close, a recorder's row says `recording`.
RunnerHasRow == \A s \in Starts : start[s].at \in Running => row[start[s].call] = "recording"

\* What the sweep closes, it holds the lock of.
SweeperHasLock == sweep.holds # None => lock[sweep.holds] = Sweeper

IInv == TypeOK /\ RequestHasCall /\ HolderHasLock /\ RunnerHasRow /\ SweeperHasLock

USE DEF At, GoTo, rows, calls, worker

-----------------------------------------------------------------------------
LEMMA InitInv == Init => IInv
<1> SUFFICES ASSUME Init PROVE IInv
  OBVIOUS
<1>1. Idle \in StartRecords /\ start = [s \in Starts |-> Idle]
  BY DEF Init, Idle, StartRecords, Steps
<1>2. start \in [Starts -> StartRecords] /\ \A s \in Starts : start[s].at = "idle"
  BY <1>1 DEF Idle
<1>3. sweep = NoSweep /\ NoSweep \in [on : BOOLEAN, todo : SUBSET Calls, holds : Calls \cup {None}]
  BY DEF Init, NoSweep
<1>4. /\ current \in 0..MaxCalls /\ faults \in 0..MaxFaults
      /\ chunks \in [Calls -> 0..MaxChunks] /\ phase \in [Calls -> Phases]
  BY BoundsAssumption DEF Init, Phases
<1>5. TypeOK
  BY <1>2, <1>3, <1>4 DEF Init, TypeOK
<1> QED
  BY <1>2, <1>3, <1>5
  DEF IInv, RequestHasCall, HolderHasLock, RunnerHasRow, SweeperHasLock, NoSweep, HoldsLock, Running

\* A step of a request changes where it is, and nothing else of it.
LEMMA GoToEffect ==
  ASSUME TypeOK, NEW s \in Starts, NEW step \in Steps, GoTo(s, step)
  PROVE  /\ start' \in [Starts -> StartRecords]
         /\ start'[s].at = step /\ start'[s].call = start[s].call
         /\ \A t \in Starts \ {s} : start'[t] = start[t]
<1>1. [start[s] EXCEPT !.at = step] \in StartRecords
  BY DEF TypeOK, StartRecords
<1>2. start' = [start EXCEPT ![s] = [start[s] EXCEPT !.at = step]]
  BY DEF TypeOK
<1> QED
  BY <1>1, <1>2 DEF TypeOK, StartRecords

\* Two recorders never hold one lock.
LEMMA OneHolder ==
  ASSUME IInv, NEW s \in Starts, NEW t \in Starts,
         start[s].at \in HoldsLock, start[t].at \in HoldsLock, start[s].call = start[t].call
  PROVE  s = t
  BY DEF IInv, HolderHasLock

\* The call of a recorder that holds a lock is not the one the sweep holds.
LEMMA SweeperIsApart ==
  ASSUME IInv, NEW s \in Starts, start[s].at \in HoldsLock, sweep.holds # None
  PROVE  start[s].call # sweep.holds
  BY NamesAssumption DEF IInv, HolderHasLock, SweeperHasLock

LEMMA FaultType ==
  ASSUME TypeOK, Fault
  PROVE  faults' \in 0..MaxFaults
  BY BoundsAssumption DEF TypeOK, Fault

\* What finishRecording writes, and to which row.
LEMMA FinishEffect ==
  ASSUME TypeOK, NEW c \in Calls, NEW flag \in BOOLEAN, FinishRecording(c, flag)
  PROVE  /\ row' \in [Calls -> {"none", "recording", "closing"}]
         /\ interrupted' \in [Calls -> BOOLEAN]
         /\ \A d \in Calls : d # c => row'[d] = row[d]
  BY DEF FinishRecording, TypeOK

-----------------------------------------------------------------------------
(* The call, and the steps of a start                                      *)

LEMMA CallInv ==
  ASSUME IInv, CallStep
  PROVE  IInv'
<1>1. current' \in 0..MaxCalls
  BY BoundsAssumption
  DEF IInv, TypeOK, CallStep, ReceiveHandoff, StartCall, ConnectCall, Advance, EndCall
<1>3. phase' \in [Calls -> Phases]
  BY DEF IInv, TypeOK, CallStep, ReceiveHandoff, StartCall, ConnectCall, Advance, EndCall, Phases
<1>4. stopDue' \in BOOLEAN /\ UNCHANGED <<rows, lock, doc, active, start, sweep, awake, faults>>
  BY DEF IInv, TypeOK, CallStep, ReceiveHandoff, StartCall, ConnectCall, Advance, EndCall
<1>5. TypeOK'
  BY <1>1, <1>3, <1>4 DEF IInv, TypeOK
<1>2. UNCHANGED <<row, lock, start, sweep>>
  BY DEF CallStep, ReceiveHandoff, StartCall, ConnectCall, Advance, EndCall
<1> QED
  BY <1>5, <1>2 DEF IInv, RequestHasCall, HolderHasLock, RunnerHasRow, SweeperHasLock

LEMMA StartRecordingInv ==
  ASSUME IInv, NEW s \in Starts, StartRecording(s)
  PROVE  IInv'
<1>1. current \in Calls
  BY BoundsAssumption DEF IInv, TypeOK, StartRecording, Calls
<1>2. start' \in [Starts -> StartRecords]
  BY <1>1 DEF IInv, TypeOK, StartRecording, StartRecords, Idle, Steps, InDocument
<1>3. start'[s].at = "opening" /\ start'[s].call \in Calls /\ \A t \in Starts \ {s} : start'[t] = start[t]
  BY <1>1 DEF IInv, TypeOK, StartRecording, Idle
<1> QED
  BY <1>2, <1>3
  DEF IInv, TypeOK, StartRecording, RequestHasCall, HolderHasLock, RunnerHasRow, SweeperHasLock,
      HoldsLock, Running

\* A request that only moves to a step without a lock.
LEMMA MoveInv ==
  ASSUME IInv, NEW s \in Starts, NEW step \in Steps \ HoldsLock,
         start[s].at # "idle", GoTo(s, step),
         doc' \in BOOLEAN, faults' \in 0..MaxFaults,
         UNCHANGED <<calls, rows, lock, active, worker>>
  PROVE  IInv'
<1>1. /\ start' \in [Starts -> StartRecords]
      /\ start'[s].at = step /\ start'[s].call = start[s].call
      /\ \A t \in Starts \ {s} : start'[t] = start[t]
  BY GoToEffect DEF IInv
<1> QED
  BY <1>1
  DEF IInv, TypeOK, RequestHasCall, HolderHasLock, RunnerHasRow, SweeperHasLock, HoldsLock, Running

LEMMA GoneInv ==
  ASSUME IInv, NEW s, s \in Starts \/ s = None, DocumentGone(s), faults' \in 0..MaxFaults,
         UNCHANGED <<calls, rows, worker>>
  PROVE  IInv'
<1>1. start' \in [Starts -> StartRecords]
  BY DEF IInv, TypeOK, DocumentGone, StartRecords, Idle, Steps, InDocument
<1>2. \A t \in Starts : start'[t].at \notin InDocument
  BY DEF IInv, TypeOK, DocumentGone, StartRecords, Idle, InDocument
<1>3. \A t \in Starts : start'[t].at # "idle" => start'[t].call = start[t].call /\ start[t].at # "idle"
  BY DEF IInv, TypeOK, DocumentGone, StartRecords, Idle, InDocument
<1>4. lock' \in [Calls -> Starts \cup {None, Sweeper}]
  BY DEF IInv, TypeOK, DocumentGone
<1>5. SweeperHasLock'
  BY NamesAssumption DEF IInv, TypeOK, DocumentGone, SweeperHasLock
<1> QED
  BY <1>1, <1>2, <1>3, <1>4, <1>5
  DEF IInv, TypeOK, DocumentGone, RequestHasCall, HolderHasLock, RunnerHasRow, InDocument, HoldsLock, Running

LEMMA HoldInv ==
  ASSUME IInv, NEW s \in Starts, HoldRecordingLock(s)
  PROVE  IInv'
<1> DEFINE c == start[s].call
<1>1. c \in Calls
  BY DEF IInv, HoldRecordingLock, RequestHasCall
<1>2. CASE IsAvailable(c)
  <2>1. lock' = [lock EXCEPT ![c] = s] /\ start' = [start EXCEPT ![s].at = "locked"]
    BY <1>2 DEF HoldRecordingLock
  <2>2. lock' \in [Calls -> Starts \cup {None, Sweeper}]
    BY <2>1 DEF IInv, TypeOK
  <2>3. /\ start' \in [Starts -> StartRecords]
        /\ start'[s].at = "locked" /\ start'[s].call = c
        /\ \A t \in Starts \ {s} : start'[t] = start[t]
    BY <2>1, GoToEffect DEF IInv, Steps, InDocument
  <2>4. lock'[c] = s /\ \A d \in Calls \ {c} : lock'[d] = lock[d]
    BY <2>1, <1>1 DEF IInv, TypeOK
  <2>5. \A t \in Starts : start[t].at \in HoldsLock => start[t].call # c
    BY <1>2, NamesAssumption DEF IsAvailable, IInv, HolderHasLock
  <2>6. sweep.holds # c
    BY <1>1, <1>2, NamesAssumption DEF IsAvailable, IInv, SweeperHasLock
  <2>7. TypeOK' /\ RequestHasCall'
    BY <2>2, <2>3, <1>1 DEF IInv, TypeOK, RequestHasCall, HoldRecordingLock
  <2>8. HolderHasLock'
    BY <2>3, <2>4, <2>5, <1>1 DEF IInv, HolderHasLock, RequestHasCall, HoldsLock, Running
  <2>9. RunnerHasRow' /\ SweeperHasLock'
    BY <2>3, <2>4, <2>6 DEF IInv, TypeOK, RunnerHasRow, SweeperHasLock, Running, HoldRecordingLock
  <2> QED
    BY <2>7, <2>8, <2>9 DEF IInv
<1>3. CASE ~IsAvailable(c)
  <2>1. "failed" \in Steps \ HoldsLock
    BY DEF Steps, HoldsLock, Running
  <2> QED
    BY <1>3, <2>1, MoveInv DEF HoldRecordingLock, IInv, TypeOK
<1> QED
  BY <1>2, <1>3

\* A request gives up its lock, and its call is free of recorders.
LEMMA ReleaseInv ==
  ASSUME IInv, NEW s \in Starts, start[s].at \in HoldsLock, NEW step \in Steps \ HoldsLock,
         GoTo(s, step), step # "idle",
         lock' = [lock EXCEPT ![start[s].call] = None],
         row' \in [Calls -> {"none", "recording", "closing"}],
         interrupted' \in [Calls -> BOOLEAN],
         \A d \in Calls : d # start[s].call => row'[d] = row[d],
         faults' \in 0..MaxFaults,
         active' \in Starts \cup {None},
         UNCHANGED <<calls, chunks, lost, doc, worker>>
  PROVE  IInv'
<1>1. start[s].call \in Calls
  BY DEF IInv, RequestHasCall, HoldsLock, Running
<1>2. lock' \in [Calls -> Starts \cup {None, Sweeper}]
  BY DEF IInv, TypeOK
<1>3. /\ start' \in [Starts -> StartRecords]
      /\ start'[s].at = step /\ start'[s].call = start[s].call
      /\ \A t \in Starts \ {s} : start'[t] = start[t]
  BY GoToEffect DEF IInv
<1>4. \A d \in Calls : d # start[s].call => lock'[d] = lock[d]
  BY DEF IInv, TypeOK
<1>5. \A t \in Starts : t # s /\ start[t].at \in HoldsLock => start[t].call \in Calls /\ start[t].call # start[s].call
  BY OneHolder DEF IInv, RequestHasCall, HoldsLock, Running
<1>6. sweep.holds # start[s].call
  BY SweeperIsApart, <1>1, NamesAssumption
<1>7. TypeOK' /\ RequestHasCall'
  BY <1>1, <1>2, <1>3 DEF IInv, TypeOK, RequestHasCall
<1>8. HolderHasLock' /\ RunnerHasRow'
  BY <1>3, <1>4, <1>5 DEF IInv, HolderHasLock, RunnerHasRow, HoldsLock
<1>9. SweeperHasLock'
  BY <1>4, <1>6 DEF IInv, TypeOK, SweeperHasLock
<1> QED
  BY <1>7, <1>8, <1>9 DEF IInv

LEMMA BeginInv ==
  ASSUME IInv, NEW s \in Starts, BeginRecording(s)
  PROVE  IInv'
<1> DEFINE c == start[s].call
<1>1. c \in Calls /\ start[s].at \in HoldsLock
  BY DEF IInv, BeginRecording, RequestHasCall, HoldsLock
<1>2. CASE Recordable(c)
  <2>1. row' = [row EXCEPT ![c] = "recording"] /\ start' = [start EXCEPT ![s].at = "begun"]
        /\ lock' = lock /\ active' = active
    BY <1>2 DEF BeginRecording
  <2>2. row' \in [Calls -> {"none", "recording", "closing"}]
    BY <2>1 DEF IInv, TypeOK
  <2>3. /\ start' \in [Starts -> StartRecords]
        /\ start'[s].at = "begun" /\ start'[s].call = c
        /\ \A t \in Starts \ {s} : start'[t] = start[t]
    BY <2>1, GoToEffect DEF IInv, Steps, InDocument
  <2>4. row'[c] = "recording" /\ \A d \in Calls \ {c} : row'[d] = row[d]
    BY <2>1, <1>1 DEF IInv, TypeOK
  <2>5. TypeOK'
    BY <2>2, <2>3, <2>1 DEF IInv, TypeOK, BeginRecording
  <2>6. RequestHasCall' /\ HolderHasLock' /\ RunnerHasRow'
    BY <2>1, <2>3, <2>4, <1>1 DEF IInv, RequestHasCall, HolderHasLock, RunnerHasRow, HoldsLock, Running
  <2>7. SweeperHasLock'
    BY <2>1 DEF BeginRecording, IInv, SweeperHasLock
  <2> QED
    BY <2>5, <2>6, <2>7 DEF IInv
<1>3. CASE ~Recordable(c)
  <2>1. "failed" \in Steps \ HoldsLock
    BY DEF Steps, HoldsLock, Running
  <2> QED
    BY <1>1, <1>3, <2>1, ReleaseInv DEF BeginRecording, IInv, TypeOK
<1> QED
  BY <1>2, <1>3

\* A recorder stays where it owns lock and row, whatever its flags.
LEMMA RunInv ==
  ASSUME IInv, NEW s \in Starts, start[s].at \in Running,
         NEW flags \in StartRecords, flags.at \in Running, flags.call = start[s].call,
         start' = [start EXCEPT ![s] = flags],
         lost' \in [Calls -> BOOLEAN], chunks' \in [Calls -> 0..MaxChunks],
         active' \in Starts \cup {None}, faults' \in 0..MaxFaults, stopDue' \in BOOLEAN,
         UNCHANGED <<calls, row, interrupted, lock, doc, sweep, awake>>
  PROVE  IInv'
<1>1. start' \in [Starts -> StartRecords]
  BY DEF IInv, TypeOK
<1>2. start'[s] = flags /\ \A t \in Starts \ {s} : start'[t] = start[t]
  BY DEF IInv, TypeOK
<1> QED
  BY <1>1, <1>2
  DEF IInv, TypeOK, RequestHasCall, HolderHasLock, RunnerHasRow, SweeperHasLock, HoldsLock, Running

LEMMA ActivateInv ==
  ASSUME IInv, NEW s \in Starts, Activate(s)
  PROVE  IInv'
<1> DEFINE flags == [start[s] EXCEPT !.at = "recording", !.asked = FALSE]
<1>1. flags \in StartRecords /\ flags.at = "recording" /\ flags.call = start[s].call
  BY DEF IInv, TypeOK, StartRecords, Steps, InDocument
<1>2. start' = [start EXCEPT ![s] = flags]
  BY DEF Activate, IInv, TypeOK
<1> QED
  BY <1>1, <1>2, RunInv DEF Activate, Running, IInv, TypeOK

LEMMA StartStepInv ==
  ASSUME IInv, NEW s \in Starts, StartStep(s)
  PROVE  IInv'
<1>1. {"stream", "capturing", "failed"} \subseteq Steps \ HoldsLock
  BY DEF Steps, InDocument, HoldsLock, Running
<1>2. CASE EnsureOffscreenDocument(s)
  BY <1>1, <1>2, MoveInv DEF EnsureOffscreenDocument, IInv, TypeOK
<1>3. CASE SendStart(s)
  BY <1>1, <1>3, MoveInv DEF SendStart, IInv, TypeOK
<1>4. CASE CloseAfterFailure(s)
  <2>1. CASE start[s].asked
    BY <1>4, <2>1, GoneInv DEF CloseAfterFailure, IInv, TypeOK
  <2>2. CASE ~start[s].asked
    <3>1. start' = [start EXCEPT ![s] = Idle] /\ UNCHANGED <<calls, rows, lock, doc, active, worker, faults>>
      BY <1>4, <2>2 DEF CloseAfterFailure
    <3>2. start' \in [Starts -> StartRecords]
      BY <3>1 DEF IInv, TypeOK, Idle, StartRecords, Steps
    <3>3. start'[s].at = "idle" /\ \A t \in Starts \ {s} : start'[t] = start[t]
      BY <3>1 DEF IInv, TypeOK, Idle
    <3> QED
      BY <3>1, <3>2, <3>3
      DEF IInv, TypeOK, RequestHasCall, HolderHasLock, RunnerHasRow, SweeperHasLock, HoldsLock, Running
  <2> QED
    BY <2>1, <2>2
<1>5. CASE HoldRecordingLock(s)
  BY <1>5, HoldInv
<1>6. CASE BeginRecording(s)
  BY <1>6, BeginInv
<1>7. CASE Activate(s)
  BY <1>7, ActivateInv
<1> QED
  BY <1>2, <1>3, <1>4, <1>5, <1>6, <1>7 DEF StartStep

-----------------------------------------------------------------------------
(* The running recorder, its end, and the faults                           *)

LEMMA InterruptIsRunning ==
  ASSUME TypeOK, NEW s \in Starts
  PROVE  /\ Interrupt(s) \in StartRecords
         /\ [Interrupt(s) EXCEPT !.failed = TRUE] \in StartRecords
         /\ Interrupt(s).at = "stopping" /\ Interrupt(s).call = start[s].call
         /\ [Interrupt(s) EXCEPT !.failed = TRUE].at = "stopping"
         /\ [Interrupt(s) EXCEPT !.failed = TRUE].call = start[s].call
  BY DEF TypeOK, StartRecords, Steps, InDocument, Interrupt

LEMMA StoreChunkInv ==
  ASSUME IInv, NEW s \in Starts, StoreChunk(s)
  PROVE  IInv'
<1>1. start[s].call \in Calls
  BY DEF IInv, RequestHasCall, StoreChunk
<1>2. chunks' \in [Calls -> 0..MaxChunks]
  BY <1>1, BoundsAssumption DEF IInv, TypeOK, StoreChunk
<1> QED
  BY <1>2
  DEF IInv, TypeOK, StoreChunk, RequestHasCall, HolderHasLock, RunnerHasRow, SweeperHasLock

LEMMA StopStepInv ==
  ASSUME IInv, NEW s \in Starts, StopStep(s)
  PROVE  IInv'
<1>1. CASE StoreClose(s)
  <2> DEFINE c == start[s].call
  <2>1. c \in Calls /\ start[s].at \in HoldsLock /\ start[s].stop \in BOOLEAN
    BY <1>1 DEF IInv, TypeOK, StartRecords, RequestHasCall, StoreClose, HoldsLock, Running
  <2>2. FinishRecording(c, ~start[s].stop) /\ start' = [start EXCEPT ![s].at = "closed"]
    BY <1>1 DEF StoreClose
  <2>3. /\ row' \in [Calls -> {"none", "recording", "closing"}]
        /\ interrupted' \in [Calls -> BOOLEAN]
        /\ \A d \in Calls : d # c => row'[d] = row[d]
    BY <2>1, <2>2, FinishEffect DEF IInv
  <2>5. /\ start' \in [Starts -> StartRecords]
        /\ start'[s].at = "closed" /\ start'[s].call = c
        /\ \A t \in Starts \ {s} : start'[t] = start[t]
    BY <2>2, GoToEffect DEF IInv, Steps, InDocument
  <2>6. \A t \in Starts : t # s /\ start[t].at \in HoldsLock => start[t].call \in Calls /\ start[t].call # c
    BY <2>1, OneHolder DEF IInv, RequestHasCall, HoldsLock, Running
  <2>7. TypeOK'
    BY <1>1, <2>3, <2>5 DEF IInv, TypeOK, StoreClose
  <2>8. RequestHasCall' /\ HolderHasLock' /\ SweeperHasLock'
    BY <1>1, <2>1, <2>5 DEF StoreClose, IInv, RequestHasCall, HolderHasLock, SweeperHasLock
  <2>9. RunnerHasRow'
    BY <2>3, <2>5, <2>6 DEF IInv, RunnerHasRow, HoldsLock, Running
  <2> QED
    BY <2>7, <2>8, <2>9 DEF IInv
<1>2. CASE ReleaseLock(s)
  <2>1. "finished" \in Steps \ HoldsLock /\ start[s].at \in HoldsLock
    BY <1>2 DEF ReleaseLock, Steps, HoldsLock, Running
  <2> QED
    BY <1>2, <2>1, ReleaseInv DEF ReleaseLock, IInv, TypeOK
<1>3. CASE RecordingFinished(s)
  BY <1>3, GoneInv DEF RecordingFinished, IInv, TypeOK
<1> QED
  BY <1>1, <1>2, <1>3 DEF StopStep

LEMMA FaultStepInv ==
  ASSUME IInv, NEW s \in Starts, FaultStep(s)
  PROVE  IInv'
<1>1. CASE CaptureFails(s)
  <2>1. "failed" \in Steps \ HoldsLock
    BY DEF Steps, HoldsLock, Running
  <2> QED
    BY <1>1, <2>1, MoveInv, FaultType DEF CaptureFails, IInv, TypeOK
<1>2. CASE StartThrows(s)
  <2>1. "failed" \in Steps \ HoldsLock /\ start[s].at \in HoldsLock /\ start[s].call \in Calls
    BY <1>2 DEF StartThrows, Steps, HoldsLock, Running, IInv, RequestHasCall
  <2>2. /\ row' \in [Calls -> {"none", "recording", "closing"}]
        /\ interrupted' \in [Calls -> BOOLEAN]
        /\ \A d \in Calls : d # start[s].call => row'[d] = row[d]
    BY <1>2, <2>1, FinishEffect DEF StartThrows, IInv
  <2> QED
    BY <1>2, <2>1, <2>2, ReleaseInv, FaultType DEF StartThrows, IInv, TypeOK
<1>3. CASE WriteFails(s)
  <2>1. lost' \in [Calls -> BOOLEAN]
    BY <1>3 DEF WriteFails, IInv, TypeOK
  <2> QED
    BY <1>3, <2>1, RunInv, InterruptIsRunning, FaultType DEF WriteFails, IInv, TypeOK, Running
<1>4. CASE StreamEnds(s)
  BY <1>4, RunInv, InterruptIsRunning, FaultType DEF StreamEnds, IInv, TypeOK, Running
<1>5. CASE CloseFails(s)
  <2>1. start' = [start EXCEPT ![s].at = "closed"] /\ UNCHANGED <<calls, rows, lock, doc, active, worker>>
    BY <1>5 DEF CloseFails
  <2>2. /\ start' \in [Starts -> StartRecords]
        /\ start'[s].at = "closed" /\ start'[s].call = start[s].call
        /\ \A t \in Starts \ {s} : start'[t] = start[t]
    BY <2>1, GoToEffect DEF IInv, Steps, InDocument
  <2>4. start[s].at = "stopping" /\ faults' \in 0..MaxFaults
    BY <1>5, FaultType DEF CloseFails, IInv
  <2> QED
    BY <2>1, <2>2, <2>4
    DEF IInv, TypeOK, RequestHasCall, HolderHasLock, RunnerHasRow, SweeperHasLock, HoldsLock, Running
<1> QED
  BY <1>1, <1>2, <1>3, <1>4, <1>5 DEF FaultStep

LEMMA SendStopInv ==
  ASSUME IInv, SendStop
  PROVE  IInv'
<1> DEFINE stopped(t) == [start[t] EXCEPT !.stop = TRUE, !.at = IF @ = "recording" THEN "stopping" ELSE @]
<1>1. ASSUME NEW t \in Starts
      PROVE  /\ stopped(t) \in StartRecords
             /\ stopped(t).call = start[t].call
             /\ stopped(t).at = IF start[t].at = "recording" THEN "stopping" ELSE start[t].at
  BY DEF IInv, TypeOK, StartRecords, Steps, InDocument
<1>2. start' = [t \in Starts |-> IF doc /\ t = active THEN stopped(t) ELSE start[t]]
  BY DEF SendStop
<1> HIDE DEF stopped
<1>3. start' \in [Starts -> StartRecords]
  BY <1>1, <1>2 DEF IInv, TypeOK
<1>4. \A t \in Starts :
        /\ start'[t].call = start[t].call
        /\ start'[t].at = start[t].at \/ (start[t].at = "recording" /\ start'[t].at = "stopping")
  BY <1>1, <1>2
<1>a. lost' \in [Calls -> BOOLEAN]
  BY DEF SendStop
<1>5. TypeOK'
  BY <1>3, <1>a DEF IInv, TypeOK, SendStop
<1>6. RequestHasCall' /\ SweeperHasLock'
  BY <1>4 DEF IInv, SendStop, RequestHasCall, SweeperHasLock
<1>7. HolderHasLock' /\ RunnerHasRow'
  BY <1>4 DEF IInv, SendStop, HolderHasLock, RunnerHasRow, HoldsLock, Running
<1> QED
  BY <1>5, <1>6, <1>7 DEF IInv

-----------------------------------------------------------------------------
(* The sweep and the crashes                                               *)

LEMMA SweepInv ==
  ASSUME IInv, SweepStep
  PROVE  IInv'
<1>1. CASE SweepReads
  BY <1>1, NamesAssumption
  DEF SweepReads, NoSweep, IInv, TypeOK, RequestHasCall, HolderHasLock, RunnerHasRow, SweeperHasLock
<1>2. ASSUME NEW c \in Calls, SweepLocks(c)
      PROVE  IInv'
  <2>1. CASE IsOrphan(c)
    <3>1. lock' = [lock EXCEPT ![c] = Sweeper]
          /\ sweep' = [sweep EXCEPT !.todo = @ \ {c}, !.holds = c]
      BY <1>2, <2>1 DEF SweepLocks
    <3>2. TypeOK'
      BY <1>2, <3>1 DEF SweepLocks, IInv, TypeOK
    <3>3. lock'[c] = Sweeper /\ sweep'.holds = c /\ \A d \in Calls \ {c} : lock'[d] = lock[d]
      BY <3>1 DEF IInv, TypeOK
    <3>4. \A t \in Starts : start[t].at \in HoldsLock => start[t].call \in Calls /\ start[t].call # c
      BY <2>1, NamesAssumption DEF IsOrphan, IInv, HolderHasLock, RequestHasCall, HoldsLock, Running
    <3> QED
      BY <1>2, <3>2, <3>3, <3>4
      DEF SweepLocks, IInv, RequestHasCall, HolderHasLock, RunnerHasRow, SweeperHasLock
  <2>2. CASE ~IsOrphan(c)
    <3>1. sweep' = [sweep EXCEPT !.todo = @ \ {c}] /\ UNCHANGED <<calls, rows, lock, doc, active, start, stopDue, awake, faults>>
      BY <1>2, <2>2 DEF SweepLocks
    <3> QED
      BY <3>1 DEF IInv, TypeOK, RequestHasCall, HolderHasLock, RunnerHasRow, SweeperHasLock
  <2> QED
    BY <2>1, <2>2
<1>3. CASE SweepCloses
  <2> DEFINE c == sweep.holds
  <2>1. c \in Calls /\ FinishRecording(c, TRUE)
    BY <1>3 DEF SweepCloses, IInv, TypeOK
  <2>2. /\ row' \in [Calls -> {"none", "recording", "closing"}]
        /\ interrupted' \in [Calls -> BOOLEAN]
        /\ \A d \in Calls : d # c => row'[d] = row[d]
    BY <2>1, FinishEffect DEF IInv
  <2>3. lock' \in [Calls -> Starts \cup {None, Sweeper}] /\ \A d \in Calls : d # c => lock'[d] = lock[d]
    BY <1>3, <2>1 DEF SweepCloses, IInv, TypeOK
  <2>4. sweep' \in [on : BOOLEAN, todo : SUBSET Calls, holds : Calls \cup {None}] /\ sweep'.holds = None
    BY <1>3 DEF SweepCloses, IInv, TypeOK
  <2>5. \A t \in Starts : start[t].at \in HoldsLock => start[t].call \in Calls /\ start[t].call # c
    BY <1>3, SweeperIsApart DEF SweepCloses, IInv, RequestHasCall, HoldsLock, Running
  <2>6. TypeOK'
    BY <1>3, <2>2, <2>3, <2>4 DEF SweepCloses, IInv, TypeOK
  <2> QED
    BY <1>3, <2>2, <2>3, <2>4, <2>5, <2>6
    DEF SweepCloses, IInv, RequestHasCall, HolderHasLock, RunnerHasRow, SweeperHasLock, HoldsLock
<1>4. CASE SweepEnds
  BY <1>4, NamesAssumption
  DEF SweepEnds, NoSweep, IInv, TypeOK, RequestHasCall, HolderHasLock, RunnerHasRow, SweeperHasLock
<1> QED
  BY <1>1, <1>2, <1>3, <1>4 DEF SweepStep

LEMMA UnaskedType ==
  ASSUME NEW r \in StartRecords
  PROVE  [r EXCEPT !.asked = FALSE] \in StartRecords
  BY DEF StartRecords

LEMMA WorkerDiesInv ==
  ASSUME IInv, WorkerDies
  PROVE  IInv'
<1>a. Idle \in StartRecords
  BY DEF StartRecords, Idle, Steps
<1>b. \A t \in Starts : [start[t] EXCEPT !.asked = FALSE] \in StartRecords
  BY UnaskedType DEF IInv, TypeOK
<1>1. start' \in [Starts -> StartRecords]
  BY <1>a, <1>b DEF WorkerDies
<1>2. \A t \in Starts :
        \/ start'[t].at = "idle"
        \/ start'[t].at = start[t].at /\ start'[t].call = start[t].call
  BY DEF IInv, TypeOK, WorkerDies, StartRecords, Idle
<1>3. /\ lock' \in [Calls -> Starts \cup {None, Sweeper}]
      /\ \A c \in Calls : lock[c] \in Starts => lock'[c] = lock[c]
  BY NamesAssumption DEF IInv, TypeOK, WorkerDies
<1>4. TypeOK'
  BY <1>1, <1>3, FaultType DEF IInv, TypeOK, WorkerDies, NoSweep
<1>5. RequestHasCall' /\ RunnerHasRow' /\ SweeperHasLock'
  BY <1>2 DEF IInv, RequestHasCall, RunnerHasRow, SweeperHasLock, WorkerDies, NoSweep, Running
<1>6. HolderHasLock'
  BY <1>2, <1>3 DEF IInv, HolderHasLock, RequestHasCall, HoldsLock, Running
<1> QED
  BY <1>4, <1>5, <1>6 DEF IInv

-----------------------------------------------------------------------------
LEMMA NextInv == IInv /\ [Next]_vars => IInv'
<1> SUFFICES ASSUME IInv, [Next]_vars PROVE IInv'
  OBVIOUS
<1>1. CASE CallStep
  BY <1>1, CallInv
<1>2. CASE SendStop
  BY <1>2, SendStopInv
<1>3. ASSUME NEW s \in Starts,
             StartRecording(s) \/ StartStep(s) \/ StoreChunk(s) \/ StopStep(s) \/ FaultStep(s)
      PROVE  IInv'
  BY <1>3, StartRecordingInv, StartStepInv, StoreChunkInv, StopStepInv, FaultStepInv
<1>4. CASE SweepStep
  BY <1>4, SweepInv
<1>5. CASE DocumentDies
  BY <1>5, GoneInv, FaultType DEF DocumentDies, IInv
<1>6. CASE WorkerDies
  BY <1>6, WorkerDiesInv
<1>7. CASE UNCHANGED vars
  BY <1>7 DEF vars, IInv, TypeOK, RequestHasCall, HolderHasLock, RunnerHasRow, SweeperHasLock
<1> QED
  BY <1>1, <1>2, <1>3, <1>4, <1>5, <1>6, <1>7 DEF Next

\* The strengthened invariant holds in every reachable state of the extension.
THEOREM Inductive == Spec => []IInv
  BY InitInv, NextInv, PTL DEF Spec

\* The variables of the capture side keep their types through every interleaving
\* of the worker, the document and the sweep.
THEOREM TypeCorrect == Spec => []TypeOK
<1>1. IInv => TypeOK
  BY DEF IInv
<1> QED
  BY Inductive, <1>1, PTL

\* No sweep, second start or crash of the worker closes a recording under a live
\* recorder: the lock taken before the row and released after the close suffices.
THEOREM RecordersAreSafe == Spec => []RecorderOwnsItsRow
<1>1. IInv => RecorderOwnsItsRow
  BY DEF IInv, RecorderOwnsItsRow, HolderHasLock, RunnerHasRow, HoldsLock
<1> QED
  BY Inductive, <1>1, PTL

-----------------------------------------------------------------------------
\* The rows and chunks change where a recorder or the sweep writes them.
LEMMA WritersAreKnown ==
  ASSUME IInv, [Next]_vars, NEW c \in Calls
  PROVE  /\ row'[c] # row[c] =>
              \/ row[c] = "recording" /\ row'[c] = "closing"
              \/ row[c] = "none" /\ row'[c] = "recording"
         /\ chunks'[c] # chunks[c] => row[c] = "recording"
<1>1. ASSUME NEW d \in Calls \cup {None}, NEW flag \in BOOLEAN, FinishRecording(d, flag), UNCHANGED chunks
      PROVE  /\ row'[c] # row[c] => row[c] = "recording" /\ row'[c] = "closing"
             /\ chunks'[c] = chunks[c]
  BY <1>1 DEF FinishRecording, IInv, TypeOK
<1>2. CASE CallStep \/ SendStop \/ DocumentDies \/ WorkerDies \/ UNCHANGED vars
  BY <1>2
  DEF CallStep, ReceiveHandoff, StartCall, ConnectCall, Advance, EndCall, SendStop, DocumentDies, WorkerDies, vars
<1>3. CASE SweepStep
  BY <1>1, <1>3 DEF SweepStep, SweepReads, SweepLocks, SweepCloses, SweepEnds, IInv, TypeOK
<1>4. ASSUME NEW s \in Starts, StartRecording(s) \/ StartStep(s)
      PROVE  /\ row'[c] # row[c] => row[c] = "none" /\ row'[c] = "recording"
             /\ chunks'[c] = chunks[c]
  BY <1>4
  DEF StartRecording, StartStep, EnsureOffscreenDocument, SendStart, CloseAfterFailure, HoldRecordingLock,
      BeginRecording, Recordable, Activate, IInv, TypeOK
<1>5. ASSUME NEW s \in Starts, StoreChunk(s)
      PROVE  /\ row'[c] = row[c]
             /\ chunks'[c] # chunks[c] => row[c] = "recording"
  BY <1>5 DEF StoreChunk, IInv, TypeOK, RunnerHasRow, Running
<1>6. ASSUME NEW s \in Starts, StopStep(s) \/ FaultStep(s)
      PROVE  /\ row'[c] # row[c] => row[c] = "recording" /\ row'[c] = "closing"
             /\ chunks'[c] = chunks[c]
  <2>1. start[s].call \in Calls \cup {None} /\ start[s].stop \in BOOLEAN
    BY DEF IInv, TypeOK, StartRecords
  <2> QED
    BY <1>1, <1>6, <2>1
    DEF StopStep, StoreClose, ReleaseLock, RecordingFinished,
        FaultStep, CaptureFails, StartThrows, WriteFails, StreamEnds, CloseFails
<1> QED
  BY <1>2, <1>3, <1>4, <1>5, <1>6 DEF Next

\* The manifest a close sends describes audio that no longer grows.
THEOREM AudioIsFinal == Spec => ClosedAudioIsFinal
<1>1. IInv /\ [Next]_vars =>
        [\A c \in Calls : row[c] = "closing" => chunks'[c] = chunks[c] /\ row'[c] = "closing"]_vars
  BY WritersAreKnown DEF IInv, TypeOK
<1> QED
  BY Inductive, <1>1, PTL DEF Spec, ClosedAudioIsFinal

-----------------------------------------------------------------------------
(* What a close reports                                                    *)

\* A chunk is lost only from a recording that has a row.
LossHasRow == \A c \in Calls : lost[c] => row[c] # "none"

\* A recorder that lost a chunk, and was not asked to stop since, does not
\* believe that it was asked to.
LossUnstopped == \A s \in Starts : start[s].at \in Running /\ lost[start[s].call] => ~start[s].stop

LossInv == LossHasRow /\ LossUnstopped

\* A step that loses nothing, and asks no recorder to stop.
LEMMA LossFrame ==
  ASSUME IInv, LossInv, UNCHANGED lost,
         \A c \in Calls : row[c] # "none" => row'[c] # "none",
         \A t \in Starts : start'[t].at \in Running =>
           /\ start[t].at \in Running /\ start'[t].call = start[t].call
           /\ start'[t].stop => start[t].stop
  PROVE  LossInv'
<1>1. LossHasRow'
  BY DEF LossInv, LossHasRow
<1>2. LossUnstopped'
  BY DEF LossInv, LossUnstopped
<1> QED
  BY <1>1, <1>2 DEF LossInv

\* A request that moves without becoming a recorder, or stays one.
LEMMA LossMove ==
  ASSUME IInv, LossInv, NEW s \in Starts, NEW step \in Steps, GoTo(s, step), UNCHANGED lost,
         step \in Running => start[s].at \in Running,
         \A c \in Calls : row[c] # "none" => row'[c] # "none"
  PROVE  LossInv'
<1>1. start'[s].stop = start[s].stop
  BY DEF IInv, TypeOK, StartRecords
<1>2. start'[s].at = step /\ start'[s].call = start[s].call /\ \A t \in Starts \ {s} : start'[t] = start[t]
  BY GoToEffect DEF IInv
<1> QED
  BY <1>1, <1>2, LossFrame

LEMMA LossGone ==
  ASSUME IInv, LossInv, NEW s, DocumentGone(s), UNCHANGED rows
  PROVE  LossInv'
<1>1. \A t \in Starts : start'[t].at \notin Running
  BY DEF IInv, TypeOK, DocumentGone, StartRecords, Idle, InDocument, Running
<1> QED
  BY <1>1, LossFrame

\* The row of a recording that begins is new, so nothing of it is lost yet.
LEMMA LossBegin ==
  ASSUME IInv, LossInv, NEW s \in Starts, BeginRecording(s)
  PROVE  LossInv'
<1> DEFINE c == start[s].call
<1>1. c \in Calls /\ "failed" \in Steps /\ "begun" \in Steps
  BY DEF IInv, RequestHasCall, BeginRecording, Steps, InDocument
<1>2. CASE Recordable(c)
  <2>1. /\ row' = [row EXCEPT ![c] = "recording"] /\ lost' = lost
        /\ GoTo(s, "begun")
    BY <1>2 DEF BeginRecording
  <2>2. start'[s].call = c /\ \A t \in Starts \ {s} : start'[t] = start[t]
    BY <1>1, <2>1, GoToEffect DEF IInv
  <2>3. ~lost[c]
    BY <1>1, <1>2 DEF LossInv, LossHasRow, Recordable
  <2>4. LossHasRow'
    BY <2>1 DEF LossInv, LossHasRow, IInv, TypeOK
  <2>5. LossUnstopped'
    BY <2>1, <2>2, <2>3 DEF LossInv, LossUnstopped
  <2> QED
    BY <2>4, <2>5 DEF LossInv
<1>3. CASE ~Recordable(c)
  <2>1. GoTo(s, "failed") /\ UNCHANGED <<row, lost>> /\ "failed" \notin Running
    BY <1>3 DEF BeginRecording, Running
  <2> QED
    BY <1>1, <2>1, LossMove
<1> QED
  BY <1>2, <1>3

LEMMA LossStart ==
  ASSUME IInv, LossInv, NEW s \in Starts, StartRecording(s) \/ StartStep(s)
  PROVE  LossInv'
<1>1. CASE StartRecording(s)
  <2>1. start'[s].at = "opening" /\ \A t \in Starts \ {s} : start'[t] = start[t]
    BY <1>1 DEF StartRecording, IInv, TypeOK, Idle
  <2> QED
    BY <1>1, <2>1, LossFrame DEF StartRecording, Running
<1>2. CASE EnsureOffscreenDocument(s) \/ SendStart(s) \/ HoldRecordingLock(s)
  <2>1. \E step \in {"stream", "capturing", "failed", "locked"} : GoTo(s, step)
    BY <1>2 DEF EnsureOffscreenDocument, SendStart, HoldRecordingLock
  <2>2. UNCHANGED <<row, lost>>
    BY <1>2 DEF EnsureOffscreenDocument, SendStart, HoldRecordingLock
  <2>3. {"stream", "capturing", "failed", "locked"} \subseteq Steps \ Running
    BY DEF Steps, InDocument, Running
  <2> QED
    BY <2>1, <2>2, <2>3, LossMove
<1>3. CASE CloseAfterFailure(s)
  <2>1. CASE start[s].asked
    BY <1>3, <2>1, LossGone DEF CloseAfterFailure
  <2>2. CASE ~start[s].asked
    <3>1. start' = [start EXCEPT ![s] = Idle] /\ UNCHANGED <<row, lost>>
      BY <1>3, <2>2 DEF CloseAfterFailure
    <3>2. start'[s].at = "idle" /\ \A t \in Starts \ {s} : start'[t] = start[t]
      BY <3>1 DEF IInv, TypeOK, Idle
    <3> QED
      BY <3>1, <3>2, LossFrame DEF Running
  <2> QED
    BY <2>1, <2>2
<1>4. CASE BeginRecording(s)
  BY <1>4, LossBegin
<1>5. CASE Activate(s)
  <2> DEFINE flags == [start[s] EXCEPT !.at = "recording", !.asked = FALSE]
  <2>1. flags.call = start[s].call /\ flags.stop = start[s].stop
    BY DEF IInv, TypeOK, StartRecords
  <2>2. start' = [start EXCEPT ![s] = flags]
    BY <1>5 DEF Activate, IInv, TypeOK
  <2> HIDE DEF flags
  <2>3. start'[s] = flags /\ \A t \in Starts \ {s} : start'[t] = start[t]
    BY <2>2 DEF IInv, TypeOK
  <2>4. start[s].at \in Running /\ UNCHANGED <<row, lost>>
    BY <1>5 DEF Activate, Running
  <2> QED
    BY <2>1, <2>3, <2>4, LossFrame
<1> QED
  BY <1>1, <1>2, <1>3, <1>4, <1>5 DEF StartStep

LEMMA LossStop ==
  ASSUME IInv, LossInv, NEW s \in Starts, StoreChunk(s) \/ StopStep(s)
  PROVE  LossInv'
<1>1. {"closed", "finished"} \subseteq Steps \ Running
  BY DEF Steps, InDocument, Running
<1>2. CASE StoreChunk(s)
  BY <1>2, LossFrame DEF StoreChunk
<1>3. CASE StoreClose(s)
  <2>1. \A c \in Calls : row[c] # "none" => row'[c] # "none"
    BY <1>3 DEF StoreClose, FinishRecording, IInv, TypeOK
  <2> QED
    BY <1>1, <1>3, <2>1, LossMove DEF StoreClose
<1>4. CASE ReleaseLock(s)
  BY <1>1, <1>4, LossMove DEF ReleaseLock
<1>5. CASE RecordingFinished(s)
  BY <1>5, LossGone DEF RecordingFinished
<1> QED
  BY <1>2, <1>3, <1>4, <1>5 DEF StopStep

\* A write that fails after a stop takes the stop back.
LEMMA LossFault ==
  ASSUME IInv, LossInv, NEW s \in Starts, FaultStep(s)
  PROVE  LossInv'
<1>1. {"closed", "failed"} \subseteq Steps \ Running
  BY DEF Steps, InDocument, Running
<1>2. CASE CaptureFails(s) \/ CloseFails(s)
  BY <1>1, <1>2, LossMove DEF CaptureFails, CloseFails
<1>3. CASE StartThrows(s)
  <2>1. \A c \in Calls : row[c] # "none" => row'[c] # "none"
    BY <1>3 DEF StartThrows, FinishRecording, IInv, TypeOK
  <2> QED
    BY <1>1, <1>3, <2>1, LossMove DEF StartThrows
<1> DEFINE stopped == Interrupt(s)
           failed == [Interrupt(s) EXCEPT !.failed = TRUE]
<1>4. /\ ~stopped.stop /\ ~failed.stop
      /\ stopped.call = start[s].call /\ failed.call = start[s].call
  BY DEF Interrupt, StartRecords, IInv, TypeOK
<1>5. CASE WriteFails(s)
  <2>1. start' = [start EXCEPT ![s] = failed]
    BY <1>5 DEF WriteFails
  <2> HIDE DEF stopped, failed
  <2>2. start'[s] = failed /\ \A t \in Starts \ {s} : start'[t] = start[t]
    BY <2>1 DEF IInv, TypeOK
  <2>3. start[s].at \in Running /\ start[s].call \in Calls /\ row[start[s].call] # "none"
    BY <1>5 DEF WriteFails, Running, IInv, RequestHasCall, RunnerHasRow
  <2>4. row' = row /\ \A c \in Calls : c # start[s].call => lost'[c] = lost[c]
    BY <1>5 DEF WriteFails, IInv, TypeOK
  <2>5. \A t \in Starts \ {s} : start[t].at \in Running => start[t].call \in Calls \ {start[s].call}
    BY <2>3, OneHolder DEF IInv, RequestHasCall, HoldsLock, Running
  <2>6. LossHasRow'
    BY <2>3, <2>4 DEF LossInv, LossHasRow
  <2>7. LossUnstopped'
    BY <1>4, <2>2, <2>4, <2>5 DEF LossInv, LossUnstopped
  <2> QED
    BY <2>6, <2>7 DEF LossInv
<1>6. CASE StreamEnds(s)
  <2>1. start' = [start EXCEPT ![s] = stopped] /\ start[s].at \in Running /\ UNCHANGED <<row, lost>>
    BY <1>6 DEF StreamEnds, Running
  <2> HIDE DEF stopped, failed
  <2>2. start'[s] = stopped /\ \A t \in Starts \ {s} : start'[t] = start[t]
    BY <2>1 DEF IInv, TypeOK
  <2> QED
    BY <1>4, <2>1, <2>2, LossFrame
<1> QED
  BY <1>2, <1>3, <1>5, <1>6 DEF FaultStep

LEMMA LossSendStop ==
  ASSUME IInv, LossInv, SendStop
  PROVE  LossInv'
<1>1. LossHasRow'
  BY DEF SendStop, LossInv, LossHasRow
<1> DEFINE stopped(t) == [start[t] EXCEPT !.stop = TRUE, !.at = IF @ = "recording" THEN "stopping" ELSE @]
<1>2. ASSUME NEW t \in Starts
      PROVE  /\ stopped(t).call = start[t].call
             /\ stopped(t).at = IF start[t].at = "recording" THEN "stopping" ELSE start[t].at
  BY DEF IInv, TypeOK, StartRecords
<1>3. start' = [t \in Starts |-> IF doc /\ t = active THEN stopped(t) ELSE start[t]]
  BY DEF SendStop
<1> HIDE DEF stopped
<1>4. ASSUME NEW t \in Starts, start'[t].at \in Running, lost'[start'[t].call]
      PROVE  ~start'[t].stop
  <2>1. start'[t].call = start[t].call /\ start[t].at \in Running
    BY <1>2, <1>3, <1>4 DEF Running
  <2>2. start[t].call \in Calls
    BY <2>1 DEF IInv, RequestHasCall, Running
  <2>3. lost[start[t].call] /\ ~(doc /\ t = active)
    BY <1>4, <2>1, <2>2, NamesAssumption DEF SendStop
  <2>4. start'[t] = start[t]
    BY <1>3, <2>3
  <2> QED
    BY <2>1, <2>3, <2>4 DEF LossInv, LossUnstopped
<1>5. LossUnstopped'
  BY <1>4 DEF LossUnstopped
<1> QED
  BY <1>1, <1>5 DEF LossInv

LEMMA LossKept == IInv /\ LossInv /\ [Next]_vars => LossInv'
<1> SUFFICES ASSUME IInv, LossInv, [Next]_vars PROVE LossInv'
  OBVIOUS
<1>1. CASE CallStep
  BY <1>1, LossFrame DEF CallStep, ReceiveHandoff, StartCall, ConnectCall, Advance, EndCall
<1>2. CASE SendStop
  BY <1>2, LossSendStop
<1>3. ASSUME NEW s \in Starts,
             StartRecording(s) \/ StartStep(s) \/ StoreChunk(s) \/ StopStep(s) \/ FaultStep(s)
      PROVE  LossInv'
  BY <1>3, LossStart, LossStop, LossFault
<1>4. CASE SweepStep
  <2>1. \A c \in Calls : row[c] # "none" => row'[c] # "none"
    BY <1>4
    DEF SweepStep, SweepReads, SweepLocks, SweepCloses, SweepEnds, FinishRecording, IInv, TypeOK
  <2>2. UNCHANGED <<lost, start>>
    BY <1>4 DEF SweepStep, SweepReads, SweepLocks, SweepCloses, SweepEnds
  <2> QED
    BY <2>1, <2>2, LossFrame
<1>5. CASE DocumentDies
  BY <1>5, LossGone DEF DocumentDies
<1>6. CASE WorkerDies
  <2>1. UNCHANGED <<row, lost>>
    BY <1>6 DEF WorkerDies
  <2>2. \A t \in Starts : start'[t].at \in Running =>
          /\ start[t].at \in Running /\ start'[t].call = start[t].call
          /\ start'[t].stop => start[t].stop
    BY <1>6 DEF WorkerDies, IInv, TypeOK, StartRecords, Idle, Running
  <2> QED
    BY <2>1, <2>2, LossFrame
<1>7. CASE UNCHANGED vars
  BY <1>7, LossFrame DEF vars
<1> QED
  BY <1>1, <1>2, <1>3, <1>4, <1>5, <1>6, <1>7 DEF Next

\* Whoever closes a recording that misses a chunk marks it.
LEMMA ClosesAreMarked ==
  ASSUME IInv, LossInv, Next,
         NEW c \in Calls, row[c] = "recording", row'[c] = "closing", lost[c]
  PROVE  interrupted'[c]
<1>1. /\ row \in [Calls -> {"none", "recording", "closing"}]
      /\ interrupted \in [Calls -> BOOLEAN]
  BY DEF IInv, TypeOK
<1>2. ASSUME NEW d \in Calls \cup {None}, NEW flag \in BOOLEAN, d = c => flag,
             FinishRecording(d, flag)
      PROVE  interrupted'[c]
  BY <1>1, <1>2 DEF FinishRecording
<1>3. CASE CallStep \/ SendStop \/ DocumentDies \/ WorkerDies
  BY <1>3
  DEF CallStep, ReceiveHandoff, StartCall, ConnectCall, Advance, EndCall, SendStop, DocumentDies,
      WorkerDies
<1>4. CASE SweepStep
  BY <1>2, <1>4 DEF SweepStep, SweepReads, SweepLocks, SweepCloses, SweepEnds, IInv, TypeOK
<1>5. ASSUME NEW s \in Starts, StartRecording(s) \/ StartStep(s) \/ StoreChunk(s)
      PROVE  FALSE
  <2>1. row'[c] = row[c] \/ row'[c] = "recording"
    BY <1>1, <1>5
    DEF StartRecording, StartStep, EnsureOffscreenDocument, SendStart, CloseAfterFailure,
        HoldRecordingLock, BeginRecording, Activate, StoreChunk
  <2> QED
    BY <2>1
<1>6. ASSUME NEW s \in Starts, StopStep(s) \/ FaultStep(s)
      PROVE  interrupted'[c]
  <2>1. start[s].call \in Calls \cup {None} /\ start[s].stop \in BOOLEAN
    BY DEF IInv, TypeOK, StartRecords
  <2>2. CASE StoreClose(s)
    <3>1. start[s].call = c => ~start[s].stop
      BY <2>2 DEF StoreClose, LossInv, LossUnstopped, Running
    <3>2. (~start[s].stop) \in BOOLEAN /\ FinishRecording(start[s].call, ~start[s].stop)
      BY <2>2 DEF StoreClose
    <3> QED
      BY <1>2, <2>1, <3>1, <3>2
  <2>3. CASE StartThrows(s)
    BY <1>2, <2>1, <2>3 DEF StartThrows
  <2>4. CASE ~(StoreClose(s) \/ StartThrows(s))
    BY <1>6, <2>4
    DEF StopStep, ReleaseLock, RecordingFinished, FaultStep, CaptureFails, WriteFails, StreamEnds,
        CloseFails
  <2> QED
    BY <2>2, <2>3, <2>4
<1> QED
  BY <1>3, <1>4, <1>5, <1>6 DEF Next

\* A recording that misses a chunk is not passed off as complete: the flag of the
\* recorder says that it was asked to stop only if the stop came after the loss.
THEOREM LossesAreReported == Spec => LossIsReported
<1>1. Init => LossInv
  BY DEF Init, LossInv, LossHasRow, LossUnstopped, Idle, Running
<1>2. Spec => [](IInv /\ LossInv)
  BY <1>1, InitInv, NextInv, LossKept, PTL DEF Spec
<1>3. IInv /\ LossInv /\ [Next]_vars =>
        [\A c \in Calls :
           row[c] = "recording" /\ row'[c] = "closing" /\ lost[c] => interrupted'[c]]_vars
  BY ClosesAreMarked
<1> QED
  BY <1>2, <1>3, PTL DEF Spec, LossIsReported
=============================================================================
