--------------------------- MODULE ExtensionSync ---------------------------
(***************************************************************************)
(* How recorded audio leaves the extension: the job queue in IndexedDB     *)
(* (services/outbox.ts), the delivery of one job (services/deliver.ts),    *)
(* and the server's answers.                                               *)
(*                                                                         *)
(* The offscreen document writes rows, chunks and jobs, each write one     *)
(* transaction.  The service worker runs passes over the queue, one at a   *)
(* time, and may die at any await; a request it sent may then still reach  *)
(* the server.  How a recording starts and ends is module Recorder, what   *)
(* the server does inside one request is module RecordingServer.           *)
(***************************************************************************)
EXTENDS Naturals, FiniteSets

CONSTANTS
  Recordings,
  MaxChunks,    \* bound: chunks of one recording
  MaxAttempts,  \* MAX_ATTEMPTS of the outbox
  MaxFaults,    \* bound: lost calls, refusals, dead workers, lost segments
  Nothing       \* no request in flight, no manifest

Chunks == 0..(MaxChunks - 1)
Totals == 0..MaxChunks

ASSUME BoundsAssumption ==
  MaxChunks \in Nat /\ MaxAttempts \in Nat \ {0} /\ MaxFaults \in Nat

VARIABLES
  status,   \* [Recordings -> status of the local row]
  remote,   \* [Recordings -> the row has its remoteId]
  chunks,   \* [Recordings -> chunk rows on the device]
  taken,    \* history: [Recordings -> chunks ever stored]
  queue,    \* the rows of the queue store
  sequence, \* meta `nextSequence`
  pass,     \* the pass over the queue that the worker runs
  call,     \* the request it awaits
  wire,     \* requests nobody awaits any more, which may still arrive
  server,   \* [Recordings -> status of the server's row]
  segments, \* [Recordings -> segments the server has]
  manifest, \* [Recordings -> total of the close the server completed]
  faults

device == <<status, remote, chunks, taken>>
outbox == <<queue, sequence>>
remoteVars == <<server, segments, manifest>>
vars == <<device, outbox, pass, call, wire, remoteVars, faults>>

Jobs ==
  [kind : {"create", "close"}, rec : Recordings, seq : {0}]
    \cup [kind : {"segment"}, rec : Recordings, seq : Chunks]

Rows == [no : Nat, job : Jobs, attempts : 0..MaxAttempts, due : BOOLEAN, dead : BOOLEAN]

\* A close carries the number of segments, any other request 0.
Requests == [job : Jobs, total : Totals]
Answers  == {"none", "ok", "missing", "rejected", "retry"}
Calls    == [no : Nat, req : Requests, answer : Answers, missing : SUBSET Chunks]
Passes   == [on : BOOLEAN, force : BOOLEAN, todo : SUBSET Nat, held : SUBSET Recordings]

ASSUME NothingAssumption == Nothing \notin Calls /\ Nothing \notin Totals

TypeOK ==
  /\ status \in [Recordings -> {"none", "recording", "closing", "complete"}]
  /\ remote \in [Recordings -> BOOLEAN]
  /\ chunks \in [Recordings -> SUBSET Chunks]
  /\ taken \in [Recordings -> Totals]
  /\ queue \subseteq Rows
  /\ sequence \in Nat
  /\ pass \in Passes
  /\ call \in Calls \cup {Nothing}
  /\ wire \subseteq Requests
  /\ server \in [Recordings -> {"absent", "open", "complete"}]
  /\ segments \in [Recordings -> SUBSET Chunks]
  /\ manifest \in [Recordings -> Totals \cup {Nothing}]
  /\ faults \in 0..MaxFaults

NoPass == [on |-> FALSE, force |-> FALSE, todo |-> {}, held |-> {}]

Init ==
  /\ status = [r \in Recordings |-> "none"]
  /\ remote = [r \in Recordings |-> FALSE]
  /\ chunks = [r \in Recordings |-> {}]
  /\ taken = [r \in Recordings |-> 0]
  /\ queue = {}
  /\ sequence = 1
  /\ pass = NoPass
  /\ call = Nothing
  /\ wire = {}
  /\ server = [r \in Recordings |-> "absent"]
  /\ segments = [r \in Recordings |-> {}]
  /\ manifest = [r \in Recordings |-> Nothing]
  /\ faults = 0

Fault == faults < MaxFaults /\ faults' = faults + 1

-----------------------------------------------------------------------------
(* The queue                                                               *)

Job(kind, r, s) == [kind |-> kind, rec |-> r, seq |-> s]
Row(n, job, due) == [no |-> n, job |-> job, attempts |-> 0, due |-> due, dead |-> FALSE]

\* Transaction.enqueue
Enqueue(job) ==
  /\ queue' = queue \cup {Row(sequence, job, TRUE)}
  /\ sequence' = sequence + 1

Without(n) == {x \in queue : x.no # n}
Queued(kind, r) == \E x \in queue : x.job.kind = kind /\ x.job.rec = r

-----------------------------------------------------------------------------
(* The offscreen document                                                  *)

BeginRecording(r) ==
  /\ status[r] = "none"
  /\ status' = [status EXCEPT ![r] = "recording"]
  /\ Enqueue(Job("create", r, 0))
  /\ UNCHANGED <<remote, chunks, taken, pass, call, wire, remoteVars, faults>>

\* The next sequence number is taken only after this write succeeded.
StoreChunk(r) ==
  /\ status[r] = "recording" /\ taken[r] < MaxChunks
  /\ chunks' = [chunks EXCEPT ![r] = @ \cup {taken[r]}]
  /\ taken' = [taken EXCEPT ![r] = @ + 1]
  /\ Enqueue(Job("segment", r, taken[r]))
  /\ UNCHANGED <<status, remote, pass, call, wire, remoteVars, faults>>

FinishRecording(r) ==
  /\ status[r] = "recording"
  /\ status' = [status EXCEPT ![r] = "closing"]
  /\ Enqueue(Job("close", r, 0))
  /\ UNCHANGED <<remote, chunks, taken, pass, call, wire, remoteVars, faults>>

-----------------------------------------------------------------------------
(* runPass                                                                 *)

\* A pass takes the living rows of one snapshot.  flushDue honours backoff,
\* flushNow does not; a pass that progressed is followed by another.
StartPass(force) ==
  /\ ~pass.on
  /\ pass' = [on |-> TRUE, force |-> force, todo |-> {x.no : x \in {y \in queue : ~y.dead}}, held |-> {}]
  /\ UNCHANGED <<device, outbox, call, wire, remoteVars, faults>>

EndPass ==
  /\ pass.on /\ pass.todo = {} /\ call = Nothing
  /\ pass' = NoPass
  /\ UNCHANGED <<device, outbox, call, wire, remoteVars, faults>>

\* The pass is at row n: jobs go in sequence order, one at a time.  The row is
\* still there, since only the pass itself removes rows of its snapshot.
AtRow(n) == pass.on /\ call = Nothing /\ n \in pass.todo /\ \A m \in pass.todo : n <= m

Advance(n) == pass' = [pass EXCEPT !.todo = @ \ {n}]

\* isBlockedByBackoff
Blocked(x) == ~pass.force /\ ~x.due

Live(x) == AtRow(x.no) /\ x.job.rec \notin pass.held /\ ~Blocked(x)

\* A lane that failed or is backing off is held for the rest of the pass.
SkipHeld(x) ==
  /\ AtRow(x.no) /\ (x.job.rec \in pass.held \/ Blocked(x))
  /\ pass' = [pass EXCEPT !.todo = @ \ {x.no}, !.held = @ \cup {x.job.rec}]
  /\ UNCHANGED <<device, outbox, call, wire, remoteVars, faults>>

-----------------------------------------------------------------------------
(* deliver: what one row comes to before anything is sent                  *)

\* totalsOf; a chunk is written once, so its bytes follow from its number.
TotalOf(r) == IF chunks[r] = {} THEN 0 ELSE 1 + CHOOSE s \in chunks[r] : \A t \in chunks[r] : t <= s

\* Mutant: a recording that never had audio needs no close.
Moot_Silent(job) ==
  CASE job.kind = "create"  -> remote[job.rec]
    [] job.kind = "segment" -> job.seq \notin chunks[job.rec]
    [] job.kind = "close"   -> status[job.rec] = "complete" \/ chunks[job.rec] = {}

\* Nothing is left to do for this job.
Moot(job) ==
  CASE job.kind = "create"  -> remote[job.rec]
    [] job.kind = "segment" -> job.seq \notin chunks[job.rec]
    [] job.kind = "close"   -> status[job.rec] = "complete"

\* Mutant: the close does not wait for parked segments.
SegmentsLeft_Living(r) ==
  \E x \in queue : x.job.kind = "segment" /\ x.job.rec = r /\ ~x.dead

SegmentsLeft(r) == Queued("segment", r)

\* A job that waits for another counts no attempt and holds no lane.
Waits(job) ==
  CASE job.kind = "create"  -> FALSE
    [] job.kind = "segment" -> ~remote[job.rec]
    [] job.kind = "close"   -> ~remote[job.rec] \/ SegmentsLeft(job.rec)

DropMoot(x) ==
  /\ Live(x) /\ Moot(x.job)
  /\ queue' = Without(x.no)
  /\ Advance(x.no)
  /\ UNCHANGED <<device, sequence, call, wire, remoteVars, faults>>

LetWait(x) ==
  /\ Live(x) /\ ~Moot(x.job) /\ Waits(x.job)
  /\ Advance(x.no)
  /\ UNCHANGED <<device, outbox, call, wire, remoteVars, faults>>

Send(x) ==
  /\ Live(x) /\ ~Moot(x.job) /\ ~Waits(x.job)
  /\ call' = [no      |-> x.no,
              req     |-> [job |-> x.job, total |-> IF x.job.kind = "close" THEN TotalOf(x.job.rec) ELSE 0],
              answer  |-> "none",
              missing |-> {}]
  /\ UNCHANGED <<device, outbox, pass, wire, remoteVars, faults>>

-----------------------------------------------------------------------------
(* The server, one request at a time                                       *)

Lacks(req) == {s \in Chunks : s < req.total} \ segments[req.job.rec]

Accepts(req) ==
  LET r == req.job.rec
  IN  CASE req.job.kind = "create"  -> TRUE
        [] req.job.kind = "segment" -> server[r] = "open"
        [] req.job.kind = "close"   -> server[r] = "open" \/ manifest[r] = req.total

AnswerTo(req) ==
  IF ~Accepts(req) THEN "rejected"
  ELSE IF req.job.kind = "close" /\ server[req.job.rec] = "open" /\ Lacks(req) # {} THEN "missing"
  ELSE "ok"

\* createRecording, putSegment and closeRecording
Handle(req) ==
  LET r == req.job.rec
      takes(kind) == req.job.kind = kind /\ AnswerTo(req) = "ok" /\ server[r] # "complete"
  IN  /\ server' = [server EXCEPT ![r] =
                      IF takes("close") THEN "complete" ELSE IF takes("create") THEN "open" ELSE @]
      /\ segments' = [segments EXCEPT ![r] = IF takes("segment") THEN @ \cup {req.job.seq} ELSE @]
      /\ manifest' = [manifest EXCEPT ![r] = IF takes("close") THEN req.total ELSE @]

Unanswered == call # Nothing /\ call.answer = "none"

ServerAnswers ==
  /\ Unanswered
  /\ Handle(call.req)
  /\ call' = [call EXCEPT !.answer = AnswerTo(call.req),
                          !.missing = IF AnswerTo(call.req) = "missing" THEN Lacks(call.req) ELSE {}]
  /\ UNCHANGED <<device, outbox, pass, wire, faults>>

\* A lost connection, a 408, 425, 429 or 5xx: the request may still take effect.
AnswerLost ==
  /\ Fault /\ Unanswered
  /\ call' = [call EXCEPT !.answer = "retry"]
  /\ wire' = wire \cup {call.req}
  /\ UNCHANGED <<device, outbox, pass, remoteVars>>

\* A 4xx for a reason the extension cannot see: another user's session, a limit.
ServerRefuses ==
  /\ Fault /\ Unanswered
  /\ call' = [call EXCEPT !.answer = "rejected"]
  /\ UNCHANGED <<device, outbox, pass, wire, remoteVars>>

ArrivesLate(req) ==
  /\ req \in wire
  /\ Handle(req)
  /\ wire' = wire \ {req}
  /\ UNCHANGED <<device, outbox, pass, call, faults>>

\* "A 2xx is not proof of storage": a segment of an unfinished recording is gone.
ServerForgets(r) ==
  /\ Fault /\ server[r] = "open"
  /\ \E s \in segments[r] : segments' = [segments EXCEPT ![r] = @ \ {s}]
  /\ UNCHANGED <<device, outbox, pass, call, wire, server, manifest>>

-----------------------------------------------------------------------------
(* settle: the answer is written back                                      *)

Answered(answer) == call # Nothing /\ call.answer = answer

\* The row is done with, and the pass goes on.
Leave == call' = Nothing /\ Advance(call.no)

\* deliverCreate stores the remoteId and drops the row in one commit.
CreateDone ==
  /\ Answered("ok") /\ call.req.job.kind = "create"
  /\ remote' = [remote EXCEPT ![call.req.job.rec] = TRUE]
  /\ queue' = Without(call.no)
  /\ Leave
  /\ UNCHANGED <<status, chunks, taken, sequence, wire, remoteVars, faults>>

\* The audio stays until the close answers `complete`.
AfterSegment(job) == UNCHANGED chunks

SegmentDone ==
  /\ Answered("ok") /\ call.req.job.kind = "segment"
  /\ AfterSegment(call.req.job)
  /\ queue' = Without(call.no)
  /\ Leave
  /\ UNCHANGED <<status, remote, taken, sequence, wire, remoteVars, faults>>

\* Mutant: the audio of a recording is deleted on any answer to its close.
Confirmed_Any == call # Nothing /\ call.answer \in {"ok", "missing"}

Confirmed == Answered("ok")

\* completeRecording: only what the server confirmed is deleted, and local audio
\* that changed after the close was sent is a failure.
CompleteRecording ==
  LET r == call.req.job.rec
  IN  /\ Confirmed /\ call.req.job.kind = "close"
      /\ IF TotalOf(r) = call.req.total
           THEN /\ chunks' = [chunks EXCEPT ![r] = {}]
                /\ status' = [status EXCEPT ![r] = "complete"]
                /\ queue' = Without(call.no)
                /\ Leave
           ELSE /\ call' = [call EXCEPT !.answer = "retry"]
                /\ UNCHANGED <<chunks, status, queue, pass>>
      /\ UNCHANGED <<remote, taken, sequence, wire, remoteVars, faults>>

\* requeueMissing: the segments are queued again, behind the backoff of the
\* close, and the close counts a failure.  A chunk that is gone is an error only.
RequeueMissing ==
  LET r == call.req.job.rec
      before(s) == Cardinality({t \in call.missing : t < s})
  IN  /\ Answered("missing")
      /\ IF call.missing \subseteq chunks[r]
           THEN /\ queue' = queue \cup {Row(sequence + before(s), Job("segment", r, s), FALSE) : s \in call.missing}
                /\ sequence' = sequence + Cardinality(call.missing)
           ELSE UNCHANGED outbox
      /\ call' = [call EXCEPT !.answer = "retry", !.missing = {}]
      /\ UNCHANGED <<device, pass, wire, remoteVars, faults>>

Retries(x) == call.answer = "retry" /\ x.attempts + 1 < MaxAttempts

\* A parked job keeps its row as a dead letter.
Parked(x) == {[x EXCEPT !.attempts = @ + 1, !.dead = TRUE]}

\* recordFailure, and a failure holds the rest of its lane.
RecordFailure(x) ==
  /\ call # Nothing /\ call.answer \in {"retry", "rejected"} /\ x.no = call.no
  /\ queue' = Without(x.no) \cup
                IF Retries(x) THEN {[x EXCEPT !.attempts = @ + 1, !.due = FALSE]} ELSE Parked(x)
  /\ call' = Nothing
  /\ pass' = [pass EXCEPT !.todo = @ \ {x.no},
                          !.held = IF Retries(x) THEN @ \cup {x.job.rec} ELSE @]
  /\ UNCHANGED <<device, sequence, wire, remoteVars, faults>>

\* The session could not be refreshed: the pass stops, no attempt is counted.
PassStops ==
  /\ Fault /\ Unanswered
  /\ pass' = NoPass
  /\ call' = Nothing
  /\ UNCHANGED <<device, outbox, wire, remoteVars>>

-----------------------------------------------------------------------------
(* Time, the agent, and the death of the worker                            *)

BackoffEnds(x) ==
  /\ ~x.due /\ ~x.dead
  /\ queue' = Without(x.no) \cup {[x EXCEPT !.due = TRUE]}
  /\ UNCHANGED <<device, sequence, pass, call, wire, remoteVars, faults>>

RequeueDeadLetters ==
  /\ \E x \in queue : x.dead
  /\ queue' = {IF x.dead THEN Row(x.no, x.job, TRUE) ELSE x : x \in queue}
  /\ UNCHANGED <<device, sequence, pass, call, wire, remoteVars, faults>>

WorkerDies ==
  /\ Fault /\ pass.on
  /\ pass' = NoPass
  /\ call' = Nothing
  /\ wire' = IF Unanswered THEN wire \cup {call.req} ELSE wire
  /\ UNCHANGED <<device, outbox, remoteVars>>

-----------------------------------------------------------------------------
RecorderStep(r) == BeginRecording(r) \/ StoreChunk(r) \/ FinishRecording(r)

DeliverStep ==
  \/ EndPass
  \/ \E x \in queue : SkipHeld(x) \/ DropMoot(x) \/ LetWait(x) \/ Send(x) \/ RecordFailure(x)
  \/ CreateDone
  \/ SegmentDone
  \/ CompleteRecording
  \/ RequeueMissing

Next ==
  \/ \E r \in Recordings : RecorderStep(r) \/ ServerForgets(r)
  \/ \E force \in BOOLEAN : StartPass(force)
  \/ DeliverStep
  \/ ServerAnswers
  \/ AnswerLost
  \/ ServerRefuses
  \/ PassStops
  \/ \E req \in wire : ArrivesLate(req)
  \/ \E x \in queue : BackoffEnds(x)
  \/ RequeueDeadLetters
  \/ WorkerDies

Spec == Init /\ [][Next]_vars

\* An alarm starts a pass every minute, the worker runs it, the server answers,
\* and backoffs end.  The agent owes no retry, and no recording has to start.
Fairness ==
  /\ WF_vars(StartPass(FALSE))
  /\ WF_vars(DeliverStep)
  /\ WF_vars(ServerAnswers)
  /\ WF_vars(\E x \in queue : BackoffEnds(x))

FairSpec == Spec /\ Fairness

-----------------------------------------------------------------------------
(* Properties                                                              *)

Custody ==
  INSTANCE AudioCustody
  WITH device <- chunks,
       kept   <- [r \in Recordings |-> IF server[r] = "complete" THEN segments[r] ELSE Nothing]

\* Whatever is lost, repeated or late, the pipeline keeps custody of the audio:
\* the server completes whole recordings only, and the device deletes the audio
\* of completed ones only.
KeepsCustody == Custody!Spec

\* Every captured chunk is on the device or in a completed server recording.
NothingLost == Custody!NothingLost

\* The way to `complete` stays queued: a closing recording has its close job,
\* and until the server's id is known it has its create job, parked or not.
UnfinishedIsQueued ==
  \A r \in Recordings :
    /\ status[r] = "closing" => Queued("close", r)
    /\ status[r] # "none" /\ ~remote[r] => Queued("create", r)

\* A complete recording leaves no job behind, pending or parked.
CompleteIsSettled ==
  \A r \in Recordings : status[r] = "complete" => \A x \in queue : x.job.rec # r

\* No job is queued twice, however often the server reports segments missing.
JobsAreUnique == \A x, y \in queue : x.job = y.job => x = y

\* After any loss, repetition and death every chunk is somewhere, and the queue
\* agrees with the recordings: what a recording needs to become complete is
\* queued, once, and nothing of a complete one is.
SyncInv ==
  TypeOK /\ NothingLost /\ UnfinishedIsQueued /\ CompleteIsSettled /\ JobsAreUnique

\* A closed recording is delivered in the end, or waits for the agent with a
\* dead letter to show for it.
ClosedIsDelivered ==
  \A r \in Recordings :
    status[r] = "closing" ~> status[r] = "complete" \/ \E x \in queue : x.job.rec = r /\ x.dead

=============================================================================
