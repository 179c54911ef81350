------------------------- MODULE ExtensionSyncProofs -------------------------
(***************************************************************************)
(* What ExtensionSync promises for any number of recordings, chunks,       *)
(* attempts and faults, and that it keeps custody of the audio.            *)
(***************************************************************************)
EXTENDS ExtensionSync, FiniteSetTheorems, TLAPS

\* The chunks a recording ever had.
Had(r) == {s \in Chunks : s < taken[r]}

\* A job of a recording that is there to do it for.
Fits(job) ==
  /\ status[job.rec] # "none"
  /\ job.kind = "segment" => job.seq < taken[job.rec]
  /\ job.kind = "close" => status[job.rec] \in {"closing", "complete"}

\* A close names all the chunks its recording ever had.
Tells(req) == Fits(req.job) /\ (req.job.kind = "close" => req.total = taken[req.job.rec])

DeviceInv ==
  \A r \in Recordings :
    /\ status[r] = "none" => taken[r] = 0 /\ ~remote[r]
    /\ status[r] = "complete" => chunks[r] = {} /\ server[r] = "complete"
    /\ status[r] # "complete" => chunks[r] = Had(r)

ServerInv ==
  \A r \in Recordings :
    /\ segments[r] \subseteq Had(r)
    /\ server[r] = "complete" => segments[r] = Had(r) /\ status[r] \in {"closing", "complete"}
    /\ manifest[r] # Nothing => server[r] = "complete"

JobsFit == \A x \in queue : Fits(x.job)

RequestsTell == (\A req \in wire : Tells(req)) /\ (call # Nothing => Tells(call.req))

\* An answer the worker has not used yet is true.
AnswerInv ==
  call # Nothing =>
    /\ call.answer = "ok" /\ call.req.job.kind = "close" => server[call.req.job.rec] = "complete"
    /\ call.answer = "missing" => call.req.job.kind = "close"

CustodyInv == TypeOK /\ DeviceInv /\ ServerInv /\ JobsFit /\ RequestsTell /\ AnswerInv

Numbered ==
  /\ \A x \in queue : x.no < sequence
  /\ \A x, y \in queue : x.no = y.no => x = y

\* The request that is awaited belongs to a living row of the pass.
CallHasRow ==
  call # Nothing =>
    /\ pass.on /\ call.no \in pass.todo
    /\ \E x \in queue : x.no = call.no /\ x.job = call.req.job

LivingRows ==
  /\ \A x \in queue : ~x.dead => x.attempts < MaxAttempts
  /\ \A x \in queue : x.no \in pass.todo => ~x.dead

\* A close is sent after everything else of its recording is settled.
CloseIsLast ==
  call # Nothing /\ call.req.job.kind = "close" =>
    /\ status[call.req.job.rec] = "closing"
    /\ call.answer \in {"none", "ok", "missing"} =>
         remote[call.req.job.rec] /\ ~SegmentsLeft(call.req.job.rec)

CreatedOnce == \A r \in Recordings : remote[r] => ~Queued("create", r)

QueueInv ==
  /\ Numbered /\ CallHasRow /\ LivingRows /\ CloseIsLast /\ CreatedOnce
  /\ UnfinishedIsQueued /\ CompleteIsSettled /\ JobsAreUnique

IInv == CustodyInv /\ QueueInv

-----------------------------------------------------------------------------
(* Types.                                                                  *)

LEMMA JobTypes ==
  ASSUME TypeOK, NEW r \in Recordings
  PROVE  /\ Job("create", r, 0) \in Jobs /\ Job("close", r, 0) \in Jobs
         /\ \A s \in Chunks : Job("segment", r, s) \in Jobs
  BY DEF Job, Jobs

LEMMA JobFields ==
  ASSUME NEW job \in Jobs
  PROVE  /\ job.rec \in Recordings /\ job.kind \in {"create", "segment", "close"}
         /\ job.kind = "segment" => job.seq \in Chunks
         /\ job.kind # "segment" => job = [kind |-> job.kind, rec |-> job.rec, seq |-> 0]
         /\ job = [kind |-> job.kind, rec |-> job.rec, seq |-> job.seq]
  BY DEF Jobs

LEMMA CallTypes ==
  ASSUME TypeOK, call # Nothing
  PROVE  /\ call \in Calls /\ call.req \in Requests /\ call.req.job \in Jobs
         /\ call.req.job.rec \in Recordings /\ call.no \in Nat
         /\ call.missing \subseteq Chunks /\ call.req.total \in Totals
         /\ call.req.job.kind \in {"create", "segment", "close"}
  BY JobFields DEF TypeOK, Calls, Requests

LEMMA TotalTypes ==
  ASSUME TypeOK, NEW r \in Recordings, chunks[r] = Had(r)
  PROVE  TotalOf(r) = taken[r]
<1>1. taken[r] \in Nat /\ taken[r] <= MaxChunks /\ MaxChunks \in Nat
  BY BoundsAssumption DEF TypeOK, Totals
<1>2. CASE taken[r] = 0
  <2>1. Had(r) = {}
    BY <1>2 DEF Had, Chunks
  <2> QED
    BY <1>2, <2>1 DEF TotalOf
<1>3. CASE taken[r] # 0
  <2> DEFINE last == taken[r] - 1
             Last(s) == s \in chunks[r] /\ \A t \in chunks[r] : t <= s
  <2>1. Last(last)
    BY <1>1, <1>3 DEF Had, Chunks
  <2>2. \A s : Last(s) => s = last
    BY <1>1, <1>3, <2>1 DEF Had, Chunks
  <2> DEFINE most == CHOOSE s \in chunks[r] : \A t \in chunks[r] : t <= s
    <2>3. most = last
    <3>1. \E s \in chunks[r] : \A t \in chunks[r] : t <= s
      BY <2>1
    <3>2. Last(most)
      BY <3>1
    <3> HIDE DEF most, Last, last
    <3> QED
      BY <2>2, <3>2
  <2>4. chunks[r] # {}
    BY <2>1
  <2> QED
    <3>1. TotalOf(r) = 1 + most
      BY <2>4 DEF TotalOf
    <3> HIDE DEF most
    <3> QED
      BY <1>1, <2>3, <3>1
<1> QED
  BY <1>2, <1>3

\* What a request does at the server.
LEMMA HandleTypes ==
  ASSUME TypeOK, NEW req \in Requests, Handle(req)
  PROVE  /\ server' \in [Recordings -> {"absent", "open", "complete"}]
         /\ segments' \in [Recordings -> SUBSET Chunks]
         /\ manifest' \in [Recordings -> Totals \cup {Nothing}]
         /\ \A r \in Recordings \ {req.job.rec} :
              server'[r] = server[r] /\ segments'[r] = segments[r] /\ manifest'[r] = manifest[r]
<1>1. req.job.rec \in Recordings /\ (req.job.kind = "segment" => req.job.seq \in Chunks)
      /\ req.total \in Totals
  BY JobFields DEF Requests
<1> DEFINE r == req.job.rec
<1>2. PICK sv \in {"absent", "open", "complete"} : server' = [server EXCEPT ![r] = sv]
  BY <1>1 DEF Handle, TypeOK
<1>3. PICK sg \in SUBSET Chunks : segments' = [segments EXCEPT ![r] = sg]
  <2>1. segments[r] \subseteq Chunks
    BY <1>1 DEF TypeOK
  <2>2. CASE req.job.kind = "segment"
    BY <1>1, <2>1, <2>2 DEF Handle
  <2>3. CASE req.job.kind # "segment"
    BY <1>1, <2>1, <2>3 DEF Handle
  <2> QED
    BY <2>2, <2>3
<1>4. PICK mf \in Totals \cup {Nothing} : manifest' = [manifest EXCEPT ![r] = mf]
  <2>1. manifest' = [manifest EXCEPT ![r] = req.total] \/ manifest' = [manifest EXCEPT ![r] = @]
    BY DEF Handle
  <2>2. manifest[r] \in Totals \cup {Nothing}
    BY <1>1 DEF TypeOK
  <2> QED
    BY <1>1, <2>1, <2>2
<1> QED
  BY <1>1, <1>2, <1>3, <1>4 DEF TypeOK

\* A row that is new in the queue.
New(x, n, job) == x \in Rows /\ x.no = n /\ x.job = job /\ x.attempts = 0 /\ ~x.dead

LEMMA EnqueueAdds ==
  ASSUME TypeOK, NEW job \in Jobs, Enqueue(job)
  PROVE  /\ \E x \in Rows : New(x, sequence, job) /\ queue' = queue \cup {x}
         /\ sequence' = sequence + 1 /\ sequence' \in Nat /\ queue' \subseteq Rows
<1> DEFINE x == [no |-> sequence, job |-> job, attempts |-> 0, due |-> TRUE, dead |-> FALSE]
<1>1. queue \subseteq Rows /\ sequence \in Nat
  BY DEF TypeOK
<1>2. New(x, sequence, job)
  BY <1>1, BoundsAssumption DEF New, Rows
<1>3. queue' = queue \cup {x} /\ sequence' = sequence + 1
  BY DEF Enqueue, Row
<1> HIDE DEF x
<1> QED
  BY <1>1, <1>2, <1>3 DEF New

LEMMA MissingFinite ==
  ASSUME NEW S \in SUBSET Chunks
  PROVE  IsFiniteSet(S) /\ Cardinality(S) \in Nat
<1>1. IsFiniteSet(Chunks)
  BY FS_Interval, BoundsAssumption DEF Chunks
<1>2. IsFiniteSet(S)
  BY <1>1, FS_Subset
<1> QED
  BY <1>2, FS_CardinalityType

\* What is left of the queue without a row.
LEMMA WithoutTypes ==
  ASSUME TypeOK, NEW n
  PROVE  Without(n) \subseteq Rows /\ Without(n) \subseteq queue
  BY DEF TypeOK, Without

\* The rows that ask for missing segments again, one number each.
Before(s) == Cardinality({t \in call.missing : t < s})
Again(s) == Row(sequence + Before(s), Job("segment", call.req.job.rec, s), FALSE)
Requeued == {Again(s) : s \in call.missing}

LEMMA BeforeCounts ==
  ASSUME TypeOK, call # Nothing, NEW s \in call.missing
  PROVE  /\ Before(s) \in Nat /\ Cardinality(call.missing) \in Nat
         /\ Before(s) < Cardinality(call.missing)
         /\ \A t \in call.missing : s < t => Before(s) < Before(t)
<1>1. call.missing \subseteq Chunks
  BY CallTypes
<1>2. \A t \in call.missing : t \in Nat
  BY <1>1, BoundsAssumption DEF Chunks
<1> DEFINE less(t) == {u \in call.missing : u < t}
<1>3. IsFiniteSet(call.missing) /\ \A t : IsFiniteSet(less(t))
  BY <1>1, MissingFinite
<1>4. \A t : Cardinality(less(t)) \in Nat /\ Cardinality(call.missing) \in Nat
  BY <1>3, FS_CardinalityType
<1>5. less(s) \subseteq call.missing /\ s \notin less(s)
  BY <1>2
<1>6. Cardinality(less(s)) <= Cardinality(call.missing)
      /\ (Cardinality(less(s)) = Cardinality(call.missing) => less(s) = call.missing)
  BY <1>3, <1>5, FS_Subset
<1>7. ASSUME NEW t \in call.missing, s < t
      PROVE  Cardinality(less(s)) < Cardinality(less(t))
  <2>1. less(s) \subseteq less(t) /\ s \in less(t)
    BY <1>2, <1>7
  <2>2. Cardinality(less(s)) <= Cardinality(less(t))
        /\ (Cardinality(less(s)) = Cardinality(less(t)) => less(s) = less(t))
    BY <1>3, <2>1, FS_Subset
  <2>3. Cardinality(less(s)) # Cardinality(less(t))
    BY <1>5, <2>1, <2>2
  <2> HIDE DEF less
  <2> QED
    BY <1>4, <2>2, <2>3
<1>8. Cardinality(less(s)) # Cardinality(call.missing)
  BY <1>5, <1>6
<1>9. \A t : Before(t) = Cardinality(less(t))
  BY DEF Before
<1> HIDE DEF less
<1> QED
  BY <1>4, <1>6, <1>7, <1>8, <1>9

LEMMA RequeuedRow ==
  ASSUME TypeOK, call # Nothing, NEW s \in call.missing
  PROVE  /\ Again(s) \in Rows
         /\ New(Again(s), sequence + Before(s),
                [kind |-> "segment", rec |-> call.req.job.rec, seq |-> s])
<1> DEFINE n == sequence + Before(s)
           job == [kind |-> "segment", rec |-> call.req.job.rec, seq |-> s]
<1>1. call.req.job.rec \in Recordings /\ call.missing \subseteq Chunks
  BY CallTypes
<1>2. n \in Nat
  BY BeforeCounts DEF TypeOK
<1>3. job \in Jobs
  BY <1>1 DEF Jobs
<1>4. Again(s) = [no |-> n, job |-> job, attempts |-> 0, due |-> FALSE, dead |-> FALSE]
  BY DEF Again, Row, Job
<1> HIDE DEF n, job
<1>5. New(Again(s), n, job)
  BY <1>2, <1>3, <1>4, BoundsAssumption DEF New, Rows
<1> QED
  BY <1>5 DEF New, n, job

\* Requeued rows have numbers of their own and jobs of their own.
LEMMA RequeuedRows ==
  ASSUME TypeOK, call # Nothing
  PROVE  /\ Requeued \subseteq Rows /\ Cardinality(call.missing) \in Nat
         /\ \A x \in Requeued : \E s \in call.missing :
              /\ x = Again(s) /\ x.no = sequence + Before(s) /\ x.attempts = 0 /\ ~x.dead
              /\ x.job = [kind |-> "segment", rec |-> call.req.job.rec, seq |-> s]
         /\ \A x, y \in Requeued : x.no = y.no \/ x.job = y.job => x = y
<1>1. Cardinality(call.missing) \in Nat /\ call.missing \subseteq Chunks
  BY MissingFinite, CallTypes
<1>2. ASSUME NEW x \in Requeued
      PROVE  /\ x \in Rows
             /\ \E s \in call.missing :
                  /\ x = Again(s) /\ x.no = sequence + Before(s) /\ x.attempts = 0 /\ ~x.dead
                  /\ x.job = [kind |-> "segment", rec |-> call.req.job.rec, seq |-> s]
  <2>1. PICK s \in call.missing : x = Again(s)
    BY DEF Requeued
  <2> QED
    BY <2>1, RequeuedRow DEF New
<1>3. ASSUME NEW x \in Requeued, NEW y \in Requeued, x.no = y.no \/ x.job = y.job
      PROVE  x = y
  <2>1. PICK s \in call.missing :
          /\ x = Again(s) /\ x.no = sequence + Before(s)
          /\ x.job = [kind |-> "segment", rec |-> call.req.job.rec, seq |-> s]
    BY <1>2
  <2>2. PICK t \in call.missing :
          /\ y = Again(t) /\ y.no = sequence + Before(t)
          /\ y.job = [kind |-> "segment", rec |-> call.req.job.rec, seq |-> t]
    BY <1>2
  <2>3. s \in Nat /\ t \in Nat /\ sequence \in Nat
    BY <1>1, BoundsAssumption DEF TypeOK, Chunks
  <2>4. Before(s) \in Nat /\ Before(t) \in Nat
        /\ (s < t => Before(s) < Before(t)) /\ (t < s => Before(t) < Before(s))
    BY BeforeCounts
  <2>5. s = t
    BY <1>3, <2>1, <2>2, <2>3, <2>4
  <2> QED
    BY <2>1, <2>2, <2>5
<1> QED
  BY <1>1, <1>2, <1>3

\* The row of a failure has an attempt left.
LEMMA FailedRow ==
  ASSUME IInv, NEW x \in queue, RecordFailure(x)
  PROVE  /\ call # Nothing /\ x.job = call.req.job /\ ~x.dead
         /\ x.attempts + 1 \in 0..MaxAttempts /\ x \in Rows
         /\ \E y \in Rows : /\ queue' = Without(x.no) \cup {y}
                            /\ y.no = x.no /\ y.job = x.job
                            /\ ~y.dead => y.attempts < MaxAttempts
<1>1. call # Nothing /\ x.no = call.no
  BY DEF RecordFailure
<1>2. x \in Rows /\ x.attempts \in Nat /\ MaxAttempts \in Nat
  BY BoundsAssumption DEF IInv, CustodyInv, TypeOK, Rows
<1>3. x.job = call.req.job
  BY <1>1 DEF IInv, QueueInv, CallHasRow, Numbered
<1>4. ~x.dead /\ x.attempts < MaxAttempts
  BY <1>1 DEF IInv, QueueInv, CallHasRow, LivingRows
<1>5. x.attempts + 1 \in 0..MaxAttempts
  BY <1>2, <1>4
<1> DEFINE again == [x EXCEPT !.attempts = @ + 1, !.due = FALSE]
           parked == [x EXCEPT !.attempts = @ + 1, !.dead = TRUE]
<1>6. /\ again \in Rows /\ again.no = x.no /\ again.job = x.job
      /\ again.attempts = x.attempts + 1
  BY <1>2, <1>5 DEF Rows
<1>7. parked \in Rows /\ parked.no = x.no /\ parked.job = x.job /\ parked.dead
  BY <1>2, <1>5 DEF Rows
<1>8. \/ queue' = Without(x.no) \cup {again} /\ x.attempts + 1 < MaxAttempts
      \/ queue' = Without(x.no) \cup {parked}
  BY DEF RecordFailure, Parked, Retries
<1> HIDE DEF again, parked
<1> QED
  BY <1>1, <1>2, <1>3, <1>4, <1>5, <1>6, <1>7, <1>8

-----------------------------------------------------------------------------
(* The steps, by what they write.                                          *)
Recording == \E r \in Recordings : RecorderStep(r)

\* Only the pass moves.
Passing ==
  \/ \E force \in BOOLEAN : StartPass(force)
  \/ EndPass
  \/ \E x \in queue : SkipHeld(x) \/ LetWait(x)

Serving == ServerAnswers \/ \E req \in wire : ArrivesLate(req)

\* The worker loses what it waits for.
Losing == AnswerLost \/ ServerRefuses \/ PassStops \/ WorkerDies

\* A row that stays, with what it counts.
Counting == (\E x \in queue : RecordFailure(x) \/ BackoffEnds(x)) \/ RequeueDeadLetters

Forgetting == \E r \in Recordings : ServerForgets(r)

LEMMA NextSplit ==
  ASSUME Next
  PROVE  \/ Recording \/ Passing \/ Serving \/ Losing \/ Counting \/ Forgetting
         \/ \E x \in queue : DropMoot(x) \/ Send(x)
         \/ CreateDone \/ SegmentDone \/ CompleteRecording \/ RequeueMissing
  BY DEF Next, DeliverStep, Recording, Passing, Serving, Losing, Counting, Forgetting

\* A queue whose rows are the same jobs under the same numbers.
SameRows(q) ==
  /\ q \subseteq Rows
  /\ \A y \in q : \E x \in queue : /\ x.no = y.no /\ x.job = y.job
                                   /\ y.dead => x.dead \/ (call # Nothing /\ call.no = x.no)
                                   /\ ~y.dead => y.attempts < MaxAttempts
  /\ \A x \in queue : \E y \in q : y.no = x.no /\ y.job = x.job
  /\ \A y, z \in q : y.no = z.no => y = z

\* One row is written again.
LEMMA RowKeepsRows ==
  ASSUME IInv, NEW x \in queue, NEW y \in Rows, y.no = x.no, y.job = x.job,
         ~y.dead => y.attempts < MaxAttempts,
         y.dead => x.dead \/ (call # Nothing /\ call.no = x.no),
         NEW q, q = Without(x.no) \cup {y}
  PROVE  SameRows(q)
<1>1. queue \subseteq Rows
  BY DEF IInv, CustodyInv, TypeOK
<1>2. \A u, v \in queue : u.no = v.no => u = v
  BY DEF IInv, QueueInv, Numbered
<1>3. \A u \in queue : ~u.dead => u.attempts < MaxAttempts
  BY DEF IInv, QueueInv, LivingRows
<1>4. \A u \in q : u = y \/ (u \in queue /\ u.no # x.no)
  BY DEF Without
<1>5. \A u \in queue : u.no # x.no => u \in q
  BY DEF Without
<1>6. q \subseteq Rows
  BY <1>1, <1>4
<1>7. ASSUME NEW u \in q
      PROVE  \E v \in queue : /\ v.no = u.no /\ v.job = u.job
                              /\ u.dead => v.dead \/ (call # Nothing /\ call.no = v.no)
                              /\ ~u.dead => u.attempts < MaxAttempts
  <2>1. CASE u = y
    BY <2>1
  <2>2. CASE u \in queue
    BY <2>2, <1>3
  <2> QED
    BY <1>4, <2>1, <2>2
<1>8. \A u \in queue : \E v \in q : v.no = u.no /\ v.job = u.job
  BY <1>2, <1>5
<1>9. \A u, v \in q : u.no = v.no => u = v
  BY <1>2, <1>4
<1> QED
  BY <1>6, <1>7, <1>8, <1>9 DEF SameRows

LEMMA BackoffKeepsRows ==
  ASSUME IInv, NEW x \in queue, BackoffEnds(x)
  PROVE  /\ SameRows(queue')
         /\ \A u \in queue' : \E v \in queue : v.no = u.no /\ (u.dead => v.dead)
<1> DEFINE y == [x EXCEPT !.due = TRUE]
<1>1. x \in Rows /\ ~x.dead /\ x.attempts < MaxAttempts
  BY DEF IInv, CustodyInv, TypeOK, QueueInv, LivingRows, BackoffEnds
<1>2. y \in Rows /\ y.no = x.no /\ y.job = x.job /\ ~y.dead /\ y.attempts = x.attempts
  BY <1>1 DEF Rows
<1>4. queue' = Without(x.no) \cup {y}
  BY DEF BackoffEnds
<1> HIDE DEF y
<1>5. SameRows(queue')
  BY <1>1, <1>2, <1>4, RowKeepsRows
<1>6. \A u \in queue' : u = y \/ u \in queue
  BY <1>4 DEF Without
<1> QED
  BY <1>2, <1>5, <1>6

LEMMA FailureKeepsRows ==
  ASSUME IInv, NEW x \in queue, RecordFailure(x)
  PROVE  SameRows(queue')
<1>1. PICK y \in Rows : /\ queue' = Without(x.no) \cup {y}
                        /\ y.no = x.no /\ y.job = x.job
                        /\ ~y.dead => y.attempts < MaxAttempts
  BY FailedRow
<1>2. call # Nothing /\ call.no = x.no
  BY DEF RecordFailure
<1> QED
  BY <1>1, <1>2, RowKeepsRows

LEMMA RequeueKeepsRows ==
  ASSUME IInv, RequeueDeadLetters
  PROVE  SameRows(queue')
<1> DEFINE Revived(x) == IF x.dead THEN [no |-> x.no, job |-> x.job, attempts |-> 0,
                                       due |-> TRUE, dead |-> FALSE]
                                 ELSE x
<1>1. queue' = {Revived(x) : x \in queue}
  BY DEF RequeueDeadLetters, Row
<1>2. ASSUME NEW x \in queue
      PROVE  /\ Revived(x) \in Rows /\ Revived(x).no = x.no /\ Revived(x).job = x.job
             /\ ~Revived(x).dead /\ Revived(x).attempts < MaxAttempts
  <2>1. x \in Rows /\ (~x.dead => x.attempts < MaxAttempts) /\ MaxAttempts \in Nat \ {0}
    BY BoundsAssumption DEF IInv, CustodyInv, TypeOK, QueueInv, LivingRows
  <2>2. CASE x.dead
    BY <2>1, <2>2 DEF Rows
  <2>3. CASE ~x.dead
    BY <2>1, <2>3
  <2> QED
    BY <2>2, <2>3
<1>3. \A u, v \in queue : u.no = v.no => u = v
  BY DEF IInv, QueueInv, Numbered
<1> HIDE DEF Revived
<1> QED
  BY <1>1, <1>2, <1>3 DEF SameRows

LEMMA CountingKeeps ==
  ASSUME IInv, Counting
  PROVE  /\ SameRows(queue')
         /\ UNCHANGED <<device, sequence, wire, remoteVars, faults>>
         /\ \/ UNCHANGED <<pass, call>> /\ \A y \in queue' : \E x \in queue :
                                              x.no = y.no /\ (y.dead => x.dead)
            \/ /\ call' = Nothing /\ pass' \in Passes
               /\ pass'.on = pass.on /\ pass'.todo = pass.todo \ {call.no}
<1>1. CASE \E x \in queue : RecordFailure(x)
  <2>1. PICK x \in queue : RecordFailure(x)
    BY <1>1
  <2>2. SameRows(queue') /\ UNCHANGED <<device, sequence, wire, remoteVars, faults>>
    BY <2>1, FailureKeepsRows DEF RecordFailure
  <2>3. x.job.rec \in Recordings /\ pass \in Passes /\ x.no = call.no
    BY <2>1, JobFields DEF RecordFailure, IInv, CustodyInv, TypeOK, Rows
  <2>4. /\ call' = Nothing /\ pass' \in Passes
        /\ pass'.on = pass.on /\ pass'.todo = pass.todo \ {call.no}
    <3> DEFINE held == IF Retries(x) THEN pass.held \cup {x.job.rec} ELSE pass.held
    <3>1. pass' = [pass EXCEPT !.todo = pass.todo \ {x.no}, !.held = held]
      BY <2>1, <2>3 DEF RecordFailure, Passes
    <3>2. held \subseteq Recordings /\ pass.todo \ {x.no} \subseteq Nat
      BY <2>3 DEF Passes
    <3> HIDE DEF held
    <3> QED
      BY <2>1, <2>3, <3>1, <3>2 DEF RecordFailure, Passes
  <2> QED
    BY <2>2, <2>4
<1>2. CASE \E x \in queue : BackoffEnds(x)
  <2>1. PICK x \in queue : BackoffEnds(x)
    BY <1>2
  <2> QED
    BY <2>1, BackoffKeepsRows DEF BackoffEnds
<1>3. CASE RequeueDeadLetters
  <2>1. SameRows(queue')
    BY <1>3, RequeueKeepsRows
  <2>2. ASSUME NEW y \in queue'
        PROVE  ~y.dead
    BY <1>3 DEF RequeueDeadLetters, Row
  <2>3. \A y \in queue' : \E x \in queue : x.no = y.no /\ (y.dead => x.dead)
    BY <2>1, <2>2 DEF SameRows
  <2> QED
    BY <1>3, <2>1, <2>3 DEF RequeueDeadLetters
<1> QED
  BY <1>1, <1>2, <1>3 DEF Counting


-----------------------------------------------------------------------------
(* Types are kept.                                                         *)

LEMMA RecordingTypes ==
  ASSUME TypeOK, Recording
  PROVE  TypeOK'
<1>1. PICK r \in Recordings : RecorderStep(r)
  BY DEF Recording
<1>2. CASE BeginRecording(r)
  <2>1. sequence' \in Nat /\ queue' \subseteq Rows
    BY <1>2, JobTypes, EnqueueAdds DEF BeginRecording
  <2> QED
    BY <1>2, <2>1 DEF BeginRecording, TypeOK, remoteVars
<1>3. CASE StoreChunk(r)
  <2>1. taken[r] \in Chunks /\ taken[r] + 1 \in Totals
    BY <1>3, BoundsAssumption DEF StoreChunk, TypeOK, Chunks, Totals
  <2>2. sequence' \in Nat /\ queue' \subseteq Rows
    BY <1>3, <2>1, JobTypes, EnqueueAdds DEF StoreChunk
  <2>3. /\ chunks' \in [Recordings -> SUBSET Chunks]
        /\ taken' \in [Recordings -> Totals]
    BY <1>3, <2>1 DEF StoreChunk, TypeOK
  <2> QED
    BY <1>3, <2>2, <2>3 DEF StoreChunk, TypeOK, remoteVars
<1>4. CASE FinishRecording(r)
  <2>1. sequence' \in Nat /\ queue' \subseteq Rows
    BY <1>4, JobTypes, EnqueueAdds DEF FinishRecording
  <2> QED
    BY <1>4, <2>1 DEF FinishRecording, TypeOK, remoteVars
<1> QED
  BY <1>1, <1>2, <1>3, <1>4 DEF RecorderStep

\* A step that moves the pass only is one between two requests.
LEMMA PassingKeeps ==
  ASSUME IInv, Passing
  PROVE  /\ UNCHANGED <<device, outbox, call, wire, remoteVars, faults>>
         /\ call = Nothing /\ pass' \in Passes
         /\ \A x \in queue : x.no \in pass'.todo => ~x.dead
<1>1. pass \in Passes /\ queue \subseteq Rows
  BY DEF IInv, CustodyInv, TypeOK
<1>2. \A x \in queue : x.no \in pass.todo => ~x.dead
  BY DEF IInv, QueueInv, LivingRows
<1>3. CASE \E force \in BOOLEAN : StartPass(force)
  <2>1. PICK force \in BOOLEAN : StartPass(force)
    BY <1>3
  <2> DEFINE living == {x.no : x \in {y \in queue : ~y.dead}}
  <2>2. pass' = [on |-> TRUE, force |-> force, todo |-> living, held |-> {}]
    BY <2>1 DEF StartPass
  <2>3. living \subseteq Nat
    BY <1>1 DEF Rows
  <2>4. ASSUME NEW x \in queue, x.no \in living
        PROVE  ~x.dead
    <3>1. PICK y \in queue : ~y.dead /\ y.no = x.no
      BY <2>4
    <3> QED
      BY <3>1 DEF IInv, QueueInv, Numbered
  <2>5. call = Nothing
    BY <2>1 DEF StartPass, IInv, QueueInv, CallHasRow
  <2> HIDE DEF living
  <2>6. pass' \in Passes /\ pass'.todo = living
    BY <2>1, <2>2, <2>3 DEF Passes
  <2> QED
    BY <2>1, <2>4, <2>5, <2>6 DEF StartPass
<1>4. CASE EndPass
  BY <1>4 DEF EndPass, NoPass, Passes
<1>5. CASE \E x \in queue : SkipHeld(x)
  <2>1. PICK x \in queue : SkipHeld(x)
    BY <1>5
  <2>2. x.job.rec \in Recordings
    BY <1>1, JobFields DEF Rows
  <2>3. pass' \in Passes /\ pass'.todo = pass.todo \ {x.no}
    BY <1>1, <2>1, <2>2 DEF SkipHeld, Passes
  <2> QED
    BY <1>2, <2>1, <2>3 DEF SkipHeld, AtRow
<1>6. CASE \E x \in queue : LetWait(x)
  <2>1. PICK x \in queue : LetWait(x)
    BY <1>6
  <2>3. pass' \in Passes /\ pass'.todo = pass.todo \ {x.no}
    BY <1>1, <2>1 DEF LetWait, Advance, Passes
  <2> QED
    BY <1>2, <2>1, <2>3 DEF LetWait, Live, AtRow
<1> QED
  BY <1>3, <1>4, <1>5, <1>6 DEF Passing

\* The server handles a request that tells the truth.
LEMMA ServingKeeps ==
  ASSUME IInv, Serving
  PROVE  /\ UNCHANGED <<device, outbox, pass, faults>>
         /\ \E req \in Requests : /\ Handle(req) /\ Tells(req)
                                  /\ wire' \in SUBSET wire
                                  /\ \/ call' = call
                                     \/ /\ call # Nothing /\ call.answer = "none" /\ req = call.req
                                        /\ call' \in Calls /\ call'.no = call.no
                                        /\ call'.req = call.req /\ call'.answer = AnswerTo(req)
<1>1. CASE ServerAnswers
  <2>1. call # Nothing /\ call.answer = "none" /\ call \in Calls /\ call.req \in Requests
    BY <1>1, CallTypes DEF ServerAnswers, Unanswered, IInv, CustodyInv
  <2>2. AnswerTo(call.req) \in Answers
    BY DEF AnswerTo, Answers
  <2>3. Lacks(call.req) \subseteq Chunks
    BY DEF Lacks
  <2> DEFINE miss == IF AnswerTo(call.req) = "missing" THEN Lacks(call.req) ELSE {}
  <2>4. call' = [call EXCEPT !.answer = AnswerTo(call.req), !.missing = miss]
    BY <1>1 DEF ServerAnswers
  <2>5. miss \subseteq Chunks
    BY <2>3
  <2> HIDE DEF miss
  <2>6. /\ call' \in Calls /\ call'.no = call.no
        /\ call'.req = call.req /\ call'.answer = AnswerTo(call.req)
    BY <2>1, <2>2, <2>4, <2>5 DEF Calls
  <2>7. Tells(call.req)
    BY <2>1 DEF IInv, CustodyInv, RequestsTell
  <2> QED
    BY <1>1, <2>1, <2>6, <2>7 DEF ServerAnswers
<1>2. CASE \E req \in wire : ArrivesLate(req)
  <2>1. PICK req \in wire : ArrivesLate(req)
    BY <1>2
  <2>2. req \in Requests /\ Tells(req)
    BY DEF IInv, CustodyInv, TypeOK, RequestsTell
  <2> QED
    BY <2>1, <2>2 DEF ArrivesLate
<1> QED
  BY <1>1, <1>2 DEF Serving

\* What the worker awaited is on the wire, refused, or not known to have failed.
LEMMA LosingKeeps ==
  ASSUME IInv, Losing
  PROVE  /\ UNCHANGED <<device, outbox, remoteVars>>
         /\ faults' \in 0..MaxFaults
         /\ wire' \subseteq Requests
         /\ \A req \in wire' : req \in wire \/ (call # Nothing /\ req = call.req)
         /\ \/ call' = Nothing /\ pass' = NoPass
            \/ /\ pass' = pass
               /\ call # Nothing /\ call' \in Calls /\ call'.no = call.no /\ call'.req = call.req
               /\ call'.answer \in {"retry", "rejected"}
<1>1. wire \subseteq Requests /\ (call # Nothing => call \in Calls /\ call.req \in Requests)
  BY CallTypes DEF IInv, CustodyInv, TypeOK
<1>2. faults \in 0..MaxFaults /\ (Fault => faults' \in 0..MaxFaults)
  BY BoundsAssumption DEF IInv, CustodyInv, TypeOK, Fault
<1>3. CASE AnswerLost
  <2>1. call # Nothing /\ call \in Calls
    BY <1>1, <1>3 DEF AnswerLost, Unanswered
  <2>2. /\ call' \in Calls /\ call'.no = call.no /\ call'.req = call.req
        /\ call'.answer = "retry"
    BY <1>3, <2>1 DEF AnswerLost, Calls, Answers
  <2> QED
    BY <1>1, <1>2, <1>3, <2>1, <2>2 DEF AnswerLost
<1>4. CASE ServerRefuses
  <2>1. call # Nothing /\ call \in Calls
    BY <1>1, <1>4 DEF ServerRefuses, Unanswered
  <2>2. /\ call' \in Calls /\ call'.no = call.no /\ call'.req = call.req
        /\ call'.answer = "rejected"
    BY <1>4, <2>1 DEF ServerRefuses, Calls, Answers
  <2> QED
    BY <1>1, <1>2, <1>4, <2>1, <2>2 DEF ServerRefuses
<1>5. CASE PassStops
  BY <1>1, <1>2, <1>5 DEF PassStops
<1>6. CASE WorkerDies
  BY <1>1, <1>2, <1>6 DEF WorkerDies, Unanswered
<1> QED
  BY <1>3, <1>4, <1>5, <1>6 DEF Losing

\* The steps that settle a row.
Dropping == (\E x \in queue : DropMoot(x)) \/ CreateDone \/ SegmentDone \/ CompleteRecording

\* What a confirmed close leaves.
Completes(r) ==
  /\ status[r] = "closing" /\ server[r] = "complete" /\ remote[r] /\ ~SegmentsLeft(r)
  /\ chunks' = [chunks EXCEPT ![r] = {}]
  /\ status' = [status EXCEPT ![r] = "complete"]
  /\ UNCHANGED remote

\* What a settled job did, or that it was moot.
Settles(job) ==
  \/ UNCHANGED device /\ Moot(job)
  \/ /\ job.kind = "create" /\ remote' = [remote EXCEPT ![job.rec] = TRUE]
     /\ UNCHANGED <<status, chunks>>
  \/ job.kind = "segment" /\ UNCHANGED <<status, chunks, remote>>
  \/ job.kind = "close" /\ Completes(job.rec)

\* The row of the awaited request, after an answer that settles it.
LEMMA CalledRow ==
  ASSUME IInv, call # Nothing
  PROVE  \E x \in queue : x.no = call.no /\ x.job = call.req.job
  BY DEF IInv, QueueInv, CallHasRow

LEMMA AdvanceKeeps ==
  ASSUME IInv, NEW n, Advance(n)
  PROVE  pass' \in Passes /\ pass'.on = pass.on /\ pass'.todo = pass.todo \ {n}
<1>1. pass \in Passes
  BY DEF IInv, CustodyInv, TypeOK
<1> QED
  BY <1>1 DEF Advance, Passes

\* Nothing changes on the device between a close and its answer.
LEMMA CloseConfirms ==
  ASSUME IInv, CompleteRecording
  PROVE  /\ call # Nothing /\ call.req.job.kind = "close" /\ Completes(call.req.job.rec)
         /\ queue' = Without(call.no) /\ Leave
<1> DEFINE r == call.req.job.rec
<1>1. call # Nothing /\ call.answer = "ok" /\ call.req.job.kind = "close"
  BY DEF CompleteRecording, Confirmed, Answered
<1>2. r \in Recordings /\ TypeOK
  BY <1>1, CallTypes DEF IInv, CustodyInv
<1>3. status[r] = "closing" /\ remote[r] /\ ~SegmentsLeft(r)
  BY <1>1 DEF IInv, QueueInv, CloseIsLast
<1>4. server[r] = "complete"
  BY <1>1 DEF IInv, CustodyInv, AnswerInv
<1>5. TotalOf(r) = taken[r]
  BY <1>2, <1>3, TotalTypes DEF IInv, CustodyInv, DeviceInv
<1>6. call.req.total = taken[r]
  BY <1>1 DEF IInv, CustodyInv, RequestsTell, Tells
<1> QED
  BY <1>1, <1>3, <1>4, <1>5, <1>6 DEF CompleteRecording, Completes

LEMMA DroppingKeeps ==
  ASSUME IInv, Dropping
  PROVE  /\ UNCHANGED <<sequence, taken, wire, remoteVars, faults>>
         /\ call' = Nothing /\ pass' \in Passes /\ pass'.on = pass.on
         /\ \E x \in queue : /\ queue' = Without(x.no) /\ Settles(x.job)
                             /\ pass'.todo = pass.todo \ {x.no}
                             /\ call # Nothing => x.no = call.no
<1>1. CASE \E x \in queue : DropMoot(x)
  <2>1. PICK x \in queue : DropMoot(x)
    BY <1>1
  <2>2. pass' \in Passes /\ pass'.on = pass.on /\ pass'.todo = pass.todo \ {x.no}
    BY <2>1, AdvanceKeeps DEF DropMoot
  <2> QED
    BY <2>1, <2>2 DEF DropMoot, Settles, Live, AtRow, device
<1>2. CASE CreateDone
  <2>1. call # Nothing /\ call.req.job.kind = "create"
    BY <1>2 DEF CreateDone, Answered
  <2>2. PICK x \in queue : x.no = call.no /\ x.job = call.req.job
    BY <2>1, CalledRow
  <2>3. pass' \in Passes /\ pass'.on = pass.on /\ pass'.todo = pass.todo \ {x.no}
    BY <1>2, <2>2, AdvanceKeeps DEF CreateDone, Leave
  <2> QED
    BY <1>2, <2>1, <2>2, <2>3 DEF CreateDone, Leave, Settles
<1>3. CASE SegmentDone
  <2>1. call # Nothing /\ call.req.job.kind = "segment"
    BY <1>3 DEF SegmentDone, Answered
  <2>2. PICK x \in queue : x.no = call.no /\ x.job = call.req.job
    BY <2>1, CalledRow
  <2>3. pass' \in Passes /\ pass'.on = pass.on /\ pass'.todo = pass.todo \ {x.no}
    BY <1>3, <2>2, AdvanceKeeps DEF SegmentDone, Leave
  <2> QED
    BY <1>3, <2>1, <2>2, <2>3 DEF SegmentDone, AfterSegment, Leave, Settles
<1>4. CASE CompleteRecording
  <2>1. /\ call # Nothing /\ call.req.job.kind = "close" /\ Completes(call.req.job.rec)
        /\ queue' = Without(call.no) /\ Leave
    BY <1>4, CloseConfirms
  <2>2. PICK x \in queue : x.no = call.no /\ x.job = call.req.job
    BY <2>1, CalledRow
  <2>3. pass' \in Passes /\ pass'.on = pass.on /\ pass'.todo = pass.todo \ {x.no}
    BY <2>1, <2>2, AdvanceKeeps DEF Leave
  <2> QED
    BY <1>4, <2>1, <2>2, <2>3 DEF CompleteRecording, Leave, Settles
<1> QED
  BY <1>1, <1>2, <1>3, <1>4 DEF Dropping

\* A request is sent when nothing else of its recording has to come first.
LEMMA SendKeeps ==
  ASSUME IInv, NEW x \in queue, Send(x)
  PROVE  /\ UNCHANGED <<device, outbox, pass, wire, remoteVars, faults>>
         /\ call' \in Calls /\ call'.no = x.no /\ call'.answer = "none"
         /\ call'.req \in Requests /\ call'.req.job = x.job /\ Tells(call'.req)
         /\ call = Nothing /\ pass.on /\ x.no \in pass.todo
         /\ x.job.kind = "close" =>
              status[x.job.rec] = "closing" /\ remote[x.job.rec] /\ ~SegmentsLeft(x.job.rec)
<1> DEFINE r == x.job.rec
           total == IF x.job.kind = "close" THEN TotalOf(r) ELSE 0
           req == [job |-> x.job, total |-> total]
<1>1. TypeOK /\ x \in Rows /\ Fits(x.job)
  BY DEF IInv, CustodyInv, TypeOK, JobsFit
<1>2. x.no \in Nat /\ x.job \in Jobs /\ r \in Recordings
  BY <1>1, JobFields DEF Rows
<1>3. x.job.kind = "close" => status[r] = "closing" /\ remote[r] /\ ~SegmentsLeft(r)
  BY <1>1 DEF Send, Moot, Waits, Fits
<1>4. total \in Totals /\ (x.job.kind = "close" => total = taken[r])
  <2>1. CASE x.job.kind = "close"
    <3>1. TotalOf(r) = taken[r]
      BY <1>1, <1>2, <1>3, <2>1, TotalTypes DEF IInv, CustodyInv, DeviceInv
    <3>2. taken[r] \in Totals
      BY <1>1, <1>2 DEF TypeOK
    <3> QED
      BY <2>1, <3>1, <3>2
  <2>2. CASE x.job.kind # "close"
    BY <2>2, BoundsAssumption DEF Totals
  <2> QED
    BY <2>1, <2>2
<1>5. call' = [no |-> x.no, req |-> req, answer |-> "none", missing |-> {}]
  BY DEF Send
<1> HIDE DEF total
<1>6. req \in Requests /\ req.job = x.job /\ req.total = total
  BY <1>2, <1>4 DEF Requests
<1>7. Tells(req)
  BY <1>1, <1>4, <1>6 DEF Tells
<1> HIDE DEF req
<1>8. call' \in Calls /\ call'.no = x.no /\ call'.answer = "none" /\ call'.req = req
  BY <1>2, <1>5, <1>6 DEF Calls, Answers
<1>9. call = Nothing /\ pass.on /\ x.no \in pass.todo
  BY DEF Send, Live, AtRow
<1>10. UNCHANGED <<device, outbox, pass, wire, remoteVars, faults>>
  BY DEF Send
<1> QED
  BY <1>3, <1>6, <1>7, <1>8, <1>9, <1>10

\* Segments are asked for again when no job of them is left in the queue.
LEMMA RequeueKeeps ==
  ASSUME IInv, RequeueMissing
  PROVE  /\ UNCHANGED <<device, pass, wire, remoteVars, faults>>
         /\ call # Nothing /\ call' \in Calls /\ call'.no = call.no /\ call'.req = call.req
         /\ call'.answer = "retry"
         /\ call.req.job.kind = "close" /\ status[call.req.job.rec] = "closing"
         /\ ~SegmentsLeft(call.req.job.rec)
         /\ \/ UNCHANGED outbox
            \/ /\ call.missing \subseteq Had(call.req.job.rec)
               /\ queue' = queue \cup Requeued
               /\ sequence' = sequence + Cardinality(call.missing)
<1>1. call # Nothing /\ call.answer = "missing"
  BY DEF RequeueMissing, Answered
<1>2. call \in Calls
  BY <1>1, CallTypes DEF IInv, CustodyInv
<1>3. call.req.job.kind = "close"
  BY <1>1 DEF IInv, CustodyInv, AnswerInv
<1>4. status[call.req.job.rec] = "closing" /\ ~SegmentsLeft(call.req.job.rec)
  BY <1>1, <1>3 DEF IInv, QueueInv, CloseIsLast
<1>5. /\ call' \in Calls /\ call'.no = call.no /\ call'.req = call.req
      /\ call'.answer = "retry"
  BY <1>2 DEF RequeueMissing, Calls, Answers
<1>6. UNCHANGED <<device, pass, wire, remoteVars, faults>>
  BY DEF RequeueMissing
<1>7. call.req.job.rec \in Recordings
  BY <1>1, CallTypes DEF IInv, CustodyInv
<1>8. chunks[call.req.job.rec] = Had(call.req.job.rec)
  BY <1>4, <1>7 DEF IInv, CustodyInv, DeviceInv
<1>9. \/ UNCHANGED outbox
      \/ /\ call.missing \subseteq Had(call.req.job.rec)
         /\ queue' = queue \cup Requeued
         /\ sequence' = sequence + Cardinality(call.missing)
  BY <1>8 DEF RequeueMissing, Requeued, Again, Before
<1> QED
  BY <1>1, <1>3, <1>4, <1>5, <1>6, <1>9

LEMMA StepSplit ==
  ASSUME Next
  PROVE  \/ Recording \/ Passing \/ Serving \/ Losing \/ Counting \/ Forgetting \/ Dropping
         \/ \E x \in queue : Send(x)
         \/ RequeueMissing
  BY NextSplit DEF Dropping

LEMMA DroppingTypes ==
  ASSUME IInv, Dropping
  PROVE  TypeOK'
<1>1. PICK x \in queue : queue' = Without(x.no) /\ Settles(x.job)
  BY DroppingKeeps
<1>2. TypeOK /\ x.job.rec \in Recordings /\ queue' \subseteq Rows
  <2>1. TypeOK /\ x \in Rows
    BY DEF IInv, CustodyInv, TypeOK
  <2> QED
    BY <1>1, <2>1, WithoutTypes, JobFields DEF Rows
<1>3. /\ status' \in [Recordings -> {"none", "recording", "closing", "complete"}]
      /\ remote' \in [Recordings -> BOOLEAN]
      /\ chunks' \in [Recordings -> SUBSET Chunks]
  <2>1. CASE UNCHANGED <<status, remote, chunks>>
    BY <1>2, <2>1 DEF TypeOK
  <2>2. CASE remote' = [remote EXCEPT ![x.job.rec] = TRUE] /\ UNCHANGED <<status, chunks>>
    BY <1>2, <2>2 DEF TypeOK
  <2>3. CASE Completes(x.job.rec)
    BY <1>2, <2>3 DEF Completes, TypeOK
  <2> QED
    BY <1>1, <2>1, <2>2, <2>3 DEF Settles, device
<1> QED
  BY <1>2, <1>3, DroppingKeeps DEF TypeOK, remoteVars

LEMMA NextTypes ==
  ASSUME IInv, Next
  PROVE  TypeOK'
<1>1. TypeOK
  BY DEF IInv, CustodyInv
<1>2. CASE Recording
  BY <1>1, <1>2, RecordingTypes
<1>3. CASE Passing
  BY <1>1, <1>3, PassingKeeps DEF TypeOK, device, outbox, remoteVars
<1>4. CASE Serving
  <2>1. PICK req \in Requests : /\ Handle(req)
                                /\ wire' \in SUBSET wire
                                /\ call' = call \/ call' \in Calls
    BY <1>4, ServingKeeps
  <2>2. /\ server' \in [Recordings -> {"absent", "open", "complete"}]
        /\ segments' \in [Recordings -> SUBSET Chunks]
        /\ manifest' \in [Recordings -> Totals \cup {Nothing}]
    BY <1>1, <2>1, HandleTypes
  <2>3. UNCHANGED <<device, outbox, pass, faults>>
    BY <1>4, ServingKeeps
  <2> QED
    BY <1>1, <2>1, <2>2, <2>3 DEF TypeOK, device, outbox
<1>5. CASE Losing
  <2>1. /\ UNCHANGED <<device, outbox, remoteVars>> /\ faults' \in 0..MaxFaults
        /\ wire' \subseteq Requests
        /\ call' \in Calls \cup {Nothing} /\ pass' \in {pass, NoPass}
    BY <1>5, LosingKeeps
  <2>2. NoPass \in Passes
    BY DEF NoPass, Passes
  <2> QED
    BY <1>1, <2>1, <2>2 DEF TypeOK, device, outbox, remoteVars
<1>6. CASE Counting
  <2>1. /\ UNCHANGED <<device, sequence, wire, remoteVars, faults>>
        /\ call' \in {call, Nothing} /\ (pass' = pass \/ pass' \in Passes)
        /\ queue' \subseteq Rows
    BY <1>6, CountingKeeps DEF SameRows
  <2> QED
    BY <1>1, <2>1 DEF TypeOK, device, remoteVars
<1>7. CASE Forgetting
  <2>1. PICK r \in Recordings : ServerForgets(r)
    BY <1>7 DEF Forgetting
  <2>2. PICK s \in segments[r] : segments' = [segments EXCEPT ![r] = @ \ {s}]
    BY <2>1 DEF ServerForgets
  <2>3. segments' \in [Recordings -> SUBSET Chunks]
    BY <1>1, <2>2 DEF TypeOK
  <2>4. faults' \in 0..MaxFaults
    BY <1>1, <2>1, BoundsAssumption DEF TypeOK, ServerForgets, Fault
  <2> QED
    BY <1>1, <2>1, <2>3, <2>4 DEF ServerForgets, TypeOK, device, outbox
<1>8. CASE Dropping
  BY <1>8, DroppingTypes
<1>9. CASE \E x \in queue : Send(x)
  <2>1. PICK x \in queue : Send(x)
    BY <1>9
  <2>2. UNCHANGED <<device, outbox, pass, wire, remoteVars, faults>> /\ call' \in Calls
    BY <2>1, SendKeeps
  <2> QED
    BY <1>1, <2>2 DEF TypeOK, device, outbox, remoteVars
<1>10. CASE RequeueMissing
  <2>1. /\ UNCHANGED <<device, pass, wire, remoteVars, faults>>
        /\ call # Nothing /\ call' \in Calls
        /\ \/ UNCHANGED outbox
           \/ /\ queue' = queue \cup Requeued
              /\ sequence' = sequence + Cardinality(call.missing)
    BY <1>10, RequeueKeeps
  <2>2. Requeued \subseteq Rows /\ Cardinality(call.missing) \in Nat
    BY <1>1, <2>1, RequeuedRows
  <2>3. queue' \subseteq Rows /\ sequence' \in Nat
    BY <1>1, <2>1, <2>2 DEF TypeOK, outbox
  <2> QED
    BY <1>1, <2>1, <2>3 DEF TypeOK, device, remoteVars
<1> QED
  BY <1>2, <1>3, <1>4, <1>5, <1>6, <1>7, <1>8, <1>9, <1>10, StepSplit

-----------------------------------------------------------------------------
(* The device and the server agree.                                        *)

\* What the device does to its recordings in one step.
LEMMA DeviceSteps ==
  ASSUME IInv, Next
  PROVE  \/ UNCHANGED device
         \/ \E r \in Recordings : RecorderStep(r)
         \/ Dropping /\ \E r \in Recordings : remote' = [remote EXCEPT ![r] = TRUE]
                                              /\ status[r] # "none" /\ UNCHANGED <<status, chunks, taken>>
         \/ Dropping /\ \E r \in Recordings : Completes(r) /\ UNCHANGED <<taken, remoteVars>>
<1>1. CASE Dropping
  <2>1. UNCHANGED <<taken, remoteVars>>
    BY <1>1, DroppingKeeps
  <2>2. PICK x \in queue : Settles(x.job)
    BY <1>1, DroppingKeeps
  <2>3. x.job.rec \in Recordings /\ status[x.job.rec] # "none"
    <3>1. x \in Rows /\ Fits(x.job)
      BY DEF IInv, CustodyInv, TypeOK, JobsFit
    <3> QED
      BY <3>1, JobFields DEF Rows, Fits
  <2> QED
    BY <1>1, <2>1, <2>2, <2>3 DEF Settles, device
<1>2. CASE Recording
  BY <1>2 DEF Recording
<1>3. CASE Passing \/ Serving
  BY <1>3, PassingKeeps, ServingKeeps
<1>4. CASE Losing \/ Counting
  BY <1>4, LosingKeeps, CountingKeeps
<1>5. CASE Forgetting
  BY <1>5 DEF Forgetting, ServerForgets
<1>6. CASE (\E x \in queue : Send(x)) \/ RequeueMissing
  BY <1>6, SendKeeps, RequeueKeeps
<1> QED
  BY <1>1, <1>2, <1>3, <1>4, <1>5, <1>6, StepSplit

\* A job that fits its recording goes on to, and a close keeps its total.
LEMMA FitsStays ==
  ASSUME IInv, Next, NEW job \in Jobs, Fits(job)
  PROVE  /\ Fits(job)'
         /\ job.kind = "close" => taken'[job.rec] = taken[job.rec]
<1>1. job.rec \in Recordings /\ TypeOK
  BY JobFields DEF IInv, CustodyInv
<1>2. CASE UNCHANGED <<status, taken>>
  BY <1>2 DEF Fits
<1>3. CASE \E r \in Recordings : RecorderStep(r)
  <2>1. PICK r \in Recordings : RecorderStep(r)
    BY <1>3
  <2>2. CASE BeginRecording(r)
    BY <1>1, <2>2 DEF BeginRecording, Fits, TypeOK
  <2>3. CASE StoreChunk(r)
    <3>1. job.kind = "segment" => job.seq \in Nat
      BY JobFields, BoundsAssumption DEF Chunks
    <3>2. taken' = [taken EXCEPT ![r] = taken[r] + 1] /\ taken[job.rec] \in Nat /\ status' = status
          /\ status[r] = "recording"
      BY <1>1, <2>3, BoundsAssumption DEF StoreChunk, TypeOK, Totals
    <3>3. taken'[job.rec] \in {taken[job.rec], taken[job.rec] + 1}
      BY <1>1, <3>2 DEF TypeOK
    <3>4. job.kind = "close" => job.rec # r
      BY <3>2 DEF Fits
    <3> QED
      BY <1>1, <3>1, <3>2, <3>3, <3>4 DEF Fits, TypeOK
  <2>4. CASE FinishRecording(r)
    BY <1>1, <2>4 DEF FinishRecording, Fits, TypeOK
  <2> QED
    BY <2>1, <2>2, <2>3, <2>4 DEF RecorderStep
<1>4. CASE \E r \in Recordings : Completes(r) /\ UNCHANGED taken
  BY <1>1, <1>4 DEF Completes, Fits, TypeOK
<1> QED
  BY <1>2, <1>3, <1>4, DeviceSteps DEF device

LEMMA TellsStays ==
  ASSUME IInv, Next, NEW req \in Requests, Tells(req)
  PROVE  Tells(req)'
<1>1. req.job \in Jobs
  BY DEF Requests
<1> QED
  BY <1>1, FitsStays DEF Tells

\* The server completes a recording only when it has all of it.
LEMMA HandleServes ==
  ASSUME CustodyInv, NEW req \in Requests, Tells(req), Handle(req)
  PROVE  /\ \A r \in Recordings :
              /\ server[r] = "complete" => server'[r] = "complete" /\ segments'[r] = segments[r]
              /\ server'[r] = "complete" /\ server[r] # "complete" =>
                   /\ req.job.kind = "close" /\ req.job.rec = r /\ AnswerTo(req) = "ok"
                   /\ segments'[r] = Had(r) /\ status[r] \in {"closing", "complete"}
              /\ segments'[r] \subseteq Had(r)
              /\ manifest'[r] # Nothing => server'[r] = "complete"
         /\ req.job.kind = "close" /\ AnswerTo(req) = "ok" => server'[req.job.rec] = "complete"
<1> DEFINE rr == req.job.rec
<1>1. TypeOK /\ req.job \in Jobs /\ rr \in Recordings /\ req.total \in Totals
  BY JobFields DEF CustodyInv, Requests
<1>2. \A r \in Recordings \ {rr} :
        server'[r] = server[r] /\ segments'[r] = segments[r] /\ manifest'[r] = manifest[r]
  BY <1>1, HandleTypes
<1>3. /\ segments[rr] \subseteq Had(rr)
      /\ server[rr] = "complete" => segments[rr] = Had(rr)
      /\ manifest[rr] # Nothing => server[rr] = "complete"
  BY <1>1 DEF CustodyInv, ServerInv
<1>4. /\ server \in [Recordings -> {"absent", "open", "complete"}]
      /\ segments \in [Recordings -> SUBSET Chunks]
      /\ manifest \in [Recordings -> Totals \cup {Nothing}]
  BY <1>1 DEF TypeOK
<1>5. CASE req.job.kind = "close" /\ AnswerTo(req) = "ok" /\ server[rr] # "complete"
  <2>1. manifest[rr] # req.total
    BY <1>1, <1>3, <1>5, NothingAssumption
  <2>2. server[rr] = "open" /\ Lacks(req) = {}
    BY <1>5, <2>1 DEF AnswerTo, Accepts
  <2>3. req.total = taken[rr] /\ status[rr] \in {"closing", "complete"}
    BY <1>5 DEF Tells, Fits
  <2>4. Had(rr) \subseteq segments[rr]
    BY <2>2, <2>3 DEF Lacks, Had
  <2>5. /\ server' = [server EXCEPT ![rr] = "complete"]
        /\ segments'[rr] = segments[rr]
    BY <1>1, <1>4, <1>5 DEF Handle
  <2>6. server'[rr] = "complete" /\ segments'[rr] = Had(rr)
    BY <1>1, <1>3, <1>4, <2>4, <2>5
  <2> QED
    BY <1>1, <1>2, <1>5, <2>3, <2>6 DEF CustodyInv, ServerInv
<1>6. CASE req.job.kind = "segment" /\ AnswerTo(req) = "ok" /\ server[rr] # "complete"
  <2>1. req.job.seq \in Chunks /\ req.job.seq < taken[rr]
    BY <1>1, <1>6, JobFields DEF Tells, Fits
  <2>2. segments'[rr] = segments[rr] \cup {req.job.seq}
    BY <1>1, <1>4, <1>6 DEF Handle
  <2>3. segments'[rr] \subseteq Had(rr)
    BY <1>3, <2>1, <2>2 DEF Had
  <2>4. server'[rr] = server[rr] /\ manifest'[rr] = manifest[rr]
    BY <1>1, <1>4, <1>6 DEF Handle
  <2> QED
    BY <1>1, <1>2, <1>3, <1>6, <2>3, <2>4 DEF CustodyInv, ServerInv
<1>7. CASE req.job.kind = "create" \/ AnswerTo(req) # "ok" \/ server[rr] = "complete"
  <2>1. segments'[rr] = segments[rr] /\ manifest'[rr] = manifest[rr]
    BY <1>1, <1>4, <1>7 DEF Handle
  <2>2. server'[rr] = server[rr] \/ (server[rr] # "complete" /\ server'[rr] = "open")
    BY <1>1, <1>4, <1>7 DEF Handle
  <2> QED
    BY <1>1, <1>2, <1>3, <1>7, <2>1, <2>2 DEF CustodyInv, ServerInv
<1>8. req.job.kind \in {"create", "segment", "close"}
  BY <1>1, JobFields
<1> QED
  BY <1>5, <1>6, <1>7, <1>8

\* What a step leaves of the server's rows.
LEMMA ServerSteps ==
  ASSUME IInv, Next
  PROVE  \A r \in Recordings :
           /\ server[r] = "complete" => server'[r] = "complete" /\ segments'[r] = segments[r]
           /\ server'[r] = "complete" /\ server[r] # "complete" =>
                segments'[r] = Had(r) /\ status[r] \in {"closing", "complete"} /\ UNCHANGED device
           /\ segments'[r] \subseteq Had(r)
           /\ manifest'[r] # Nothing => server'[r] = "complete"
<1>1. CASE UNCHANGED remoteVars
  BY <1>1 DEF remoteVars, IInv, CustodyInv, ServerInv
<1>2. CASE Serving
  <2>1. PICK req \in Requests : Handle(req) /\ Tells(req)
    BY <1>2, ServingKeeps
  <2>2. UNCHANGED device
    BY <1>2, ServingKeeps
  <2> QED
    BY <2>1, <2>2, HandleServes DEF IInv
<1>3. CASE Forgetting
  <2>1. PICK r \in Recordings : ServerForgets(r)
    BY <1>3 DEF Forgetting
  <2>2. PICK s \in segments[r] : segments' = [segments EXCEPT ![r] = @ \ {s}]
    BY <2>1 DEF ServerForgets
  <2>3. server' = server /\ manifest' = manifest /\ server[r] = "open"
    BY <2>1 DEF ServerForgets
  <2>4. segments'[r] \subseteq segments[r]
        /\ \A t \in Recordings \ {r} : segments'[t] = segments[t]
    BY <2>2 DEF IInv, CustodyInv, TypeOK
  <2> QED
    BY <2>3, <2>4 DEF IInv, CustodyInv, ServerInv
<1>4. CASE Recording
  <2>1. UNCHANGED remoteVars
    BY <1>4 DEF Recording, RecorderStep, BeginRecording, StoreChunk, FinishRecording
  <2> QED
    BY <1>1, <2>1
<1> QED
  BY <1>1, <1>2, <1>3, <1>4, StepSplit, PassingKeeps, LosingKeeps, CountingKeeps, DroppingKeeps,
     SendKeeps, RequeueKeeps

LEMMA DeviceStays ==
  ASSUME IInv, Next
  PROVE  DeviceInv' /\ ServerInv'
<1>1. TypeOK /\ DeviceInv /\ ServerInv
  BY DEF IInv, CustodyInv
<1>2. CASE UNCHANGED device
  <2>1. \A r \in Recordings : Had(r)' = Had(r)
    BY <1>2 DEF Had, device
  <2> QED
    BY <1>1, <1>2, <2>1, ServerSteps DEF DeviceInv, ServerInv, device
<1>3. CASE \E r \in Recordings : RecorderStep(r)
  <2>1. PICK r \in Recordings : RecorderStep(r)
    BY <1>3
  <2>2. UNCHANGED remoteVars
    BY <2>1 DEF RecorderStep, BeginRecording, StoreChunk, FinishRecording
  <2>3. server[r] # "complete" \/ status[r] \notin {"none", "recording"}
    BY <1>1, <2>1 DEF ServerInv
  <2>4. CASE BeginRecording(r) \/ FinishRecording(r)
    <3>1. \A t \in Recordings : Had(t)' = Had(t)
      BY <2>4 DEF BeginRecording, FinishRecording, Had
    <3>2. /\ status[r] \in {"none", "recording"} /\ UNCHANGED <<remote, chunks, taken>>
          /\ \E s \in {"recording", "closing"} : status' = [status EXCEPT ![r] = s]
      BY <2>4 DEF BeginRecording, FinishRecording
    <3> QED
      BY <1>1, <2>2, <2>3, <3>1, <3>2 DEF DeviceInv, ServerInv, TypeOK, remoteVars
  <2>5. CASE StoreChunk(r)
    <3>1. /\ status[r] = "recording" /\ UNCHANGED <<status, remote>>
          /\ chunks' = [chunks EXCEPT ![r] = chunks[r] \cup {taken[r]}]
          /\ taken' = [taken EXCEPT ![r] = taken[r] + 1]
          /\ taken[r] < MaxChunks /\ taken[r] \in Nat
      BY <1>1, <2>5, BoundsAssumption DEF StoreChunk, TypeOK, Totals
    <3>2. \A t \in Recordings \ {r} : Had(t)' = Had(t)
      BY <1>1, <3>1 DEF Had, TypeOK
    <3>3. Had(r)' = Had(r) \cup {taken[r]}
      <4>1. taken'[r] = taken[r] + 1
        BY <1>1, <3>1 DEF TypeOK
      <4> QED
        BY <3>1, <4>1, BoundsAssumption DEF Had, Chunks
    <3>4. chunks'[r] = Had(r)' /\ \A t \in Recordings \ {r} : chunks'[t] = chunks[t] /\ taken'[t] = taken[t]
      BY <1>1, <3>1, <3>3 DEF DeviceInv, TypeOK
    <3>5. DeviceInv'
      BY <1>1, <2>2, <3>1, <3>2, <3>4 DEF DeviceInv, remoteVars
    <3>6. ASSUME NEW t \in Recordings
          PROVE  Had(t) \subseteq Had(t)' /\ (t # r => Had(t)' = Had(t))
      BY <3>2, <3>3
    <3>7. ServerInv'
      BY <1>1, <2>2, <2>3, <3>1, <3>6 DEF ServerInv, remoteVars
    <3> QED
      BY <3>5, <3>7
  <2> QED
    BY <2>1, <2>4, <2>5 DEF RecorderStep
<1>4. CASE \E r \in Recordings : remote' = [remote EXCEPT ![r] = TRUE]
                                 /\ status[r] # "none" /\ UNCHANGED <<status, chunks, taken>>
  <2>1. \A r \in Recordings : Had(r)' = Had(r)
    BY <1>4 DEF Had
  <2>2. \A r \in Recordings : status[r] = "none" => remote'[r] = remote[r]
    BY <1>1, <1>4 DEF TypeOK
  <2>3. UNCHANGED <<status, chunks, taken>>
    BY <1>4
  <2> QED
    BY <1>1, <2>1, <2>2, <2>3, ServerSteps DEF DeviceInv, ServerInv
<1>5. CASE \E r \in Recordings : Completes(r) /\ UNCHANGED <<taken, remoteVars>>
  <2>1. PICK r \in Recordings : Completes(r) /\ UNCHANGED <<taken, remoteVars>>
    BY <1>5
  <2>2. \A t \in Recordings : Had(t)' = Had(t)
    BY <2>1 DEF Had
  <2>3. /\ server[r] = "complete" /\ status'[r] = "complete" /\ chunks'[r] = {}
        /\ \A t \in Recordings \ {r} : status'[t] = status[t] /\ chunks'[t] = chunks[t]
        /\ remote' = remote
    BY <1>1, <2>1 DEF Completes, TypeOK
  <2> QED
    BY <1>1, <2>1, <2>2, <2>3 DEF DeviceInv, ServerInv, remoteVars
<1> QED
  BY <1>2, <1>3, <1>4, <1>5, DeviceSteps

-----------------------------------------------------------------------------
(* The queue agrees with the recordings.                                   *)

\* The job that comes with a step of the recorder.
Starts(r, job) ==
  \/ job = Job("create", r, 0) /\ status[r] = "none" /\ status' = [status EXCEPT ![r] = "recording"]
                               /\ UNCHANGED taken
  \/ job = Job("segment", r, taken[r]) /\ status[r] = "recording" /\ taken[r] < MaxChunks
                               /\ UNCHANGED status /\ taken' = [taken EXCEPT ![r] = taken[r] + 1]
  \/ job = Job("close", r, 0) /\ status[r] = "recording" /\ status' = [status EXCEPT ![r] = "closing"]
                              /\ UNCHANGED taken

LEMMA RecordingKeeps ==
  ASSUME IInv, Recording
  PROVE  /\ UNCHANGED <<remote, pass, call, wire, remoteVars, faults>>
         /\ sequence' = sequence + 1
         /\ \E r \in Recordings, job \in Jobs, x \in Rows :
              Starts(r, job) /\ New(x, sequence, job) /\ queue' = queue \cup {x}
<1>1. TypeOK
  BY DEF IInv, CustodyInv
<1>2. PICK r \in Recordings : RecorderStep(r)
  BY DEF Recording
<1>3. CASE BeginRecording(r)
  <2> DEFINE job == Job("create", r, 0)
  <2>1. job \in Jobs /\ Enqueue(job)
    BY <1>1, <1>3, JobTypes DEF BeginRecording
  <2>2. Starts(r, job)
    BY <1>3 DEF Starts, BeginRecording
  <2> HIDE DEF job
  <2> QED
    BY <1>1, <1>3, <2>1, <2>2, EnqueueAdds DEF BeginRecording
<1>4. CASE StoreChunk(r)
  <2> DEFINE job == Job("segment", r, taken[r])
  <2>1. taken[r] \in Chunks
    BY <1>1, <1>4, BoundsAssumption DEF StoreChunk, TypeOK, Chunks, Totals
  <2>2. job \in Jobs /\ Enqueue(job)
    BY <1>1, <1>4, <2>1, JobTypes DEF StoreChunk
  <2>3. Starts(r, job)
    BY <1>4 DEF Starts, StoreChunk
  <2> HIDE DEF job
  <2> QED
    BY <1>1, <1>4, <2>2, <2>3, EnqueueAdds DEF StoreChunk
<1>5. CASE FinishRecording(r)
  <2> DEFINE job == Job("close", r, 0)
  <2>1. job \in Jobs /\ Enqueue(job)
    BY <1>1, <1>5, JobTypes DEF FinishRecording
  <2>2. Starts(r, job)
    BY <1>5 DEF Starts, FinishRecording
  <2> HIDE DEF job
  <2> QED
    BY <1>1, <1>5, <2>1, <2>2, EnqueueAdds DEF FinishRecording
<1> QED
  BY <1>2, <1>3, <1>4, <1>5 DEF RecorderStep

\* No row of the queue has the job that a step of the recorder adds.
LEMMA StartsFits ==
  ASSUME IInv, NEW r \in Recordings, NEW job \in Jobs, Starts(r, job)
  PROVE  /\ Fits(job)' /\ job.rec = r /\ status[r] \in {"none", "recording"}
         /\ \A x \in queue : x.job # job
<1>1. TypeOK /\ \A x \in queue : Fits(x.job)
  BY DEF IInv, CustodyInv, JobsFit
<1>2. taken[r] \in Nat
  BY <1>1, BoundsAssumption DEF TypeOK, Totals
<1>3. CASE job = Job("create", r, 0) /\ status[r] = "none" /\ status' = [status EXCEPT ![r] = "recording"]
           /\ UNCHANGED taken
  <2>1. job.rec = r /\ job.kind = "create"
    BY <1>3 DEF Job
  <2> QED
    BY <1>1, <1>3, <2>1 DEF Fits, TypeOK
<1>4. CASE job = Job("segment", r, taken[r]) /\ status[r] = "recording" /\ taken[r] < MaxChunks
           /\ UNCHANGED status /\ taken' = [taken EXCEPT ![r] = taken[r] + 1]
  <2>1. job.rec = r /\ job.kind = "segment" /\ job.seq = taken[r]
    BY <1>4 DEF Job
  <2> QED
    BY <1>1, <1>2, <1>4, <2>1 DEF Fits, TypeOK
<1>5. CASE job = Job("close", r, 0) /\ status[r] = "recording" /\ status' = [status EXCEPT ![r] = "closing"]
           /\ UNCHANGED taken
  <2>1. job.rec = r /\ job.kind = "close"
    BY <1>5 DEF Job
  <2> QED
    BY <1>1, <1>5, <2>1 DEF Fits, TypeOK
<1> QED
  BY <1>3, <1>4, <1>5 DEF Starts

\* The steps, by what they do to the queue.
LEMMA QueueSteps ==
  ASSUME IInv, Next
  PROVE  \/ UNCHANGED outbox
         \/ Recording
         \/ Counting /\ SameRows(queue') /\ UNCHANGED <<sequence, device>>
         \/ /\ Dropping /\ UNCHANGED sequence
            /\ \E x \in queue : queue' = Without(x.no) /\ Settles(x.job)
         \/ /\ RequeueMissing /\ call.missing \subseteq Had(call.req.job.rec)
            /\ queue' = queue \cup Requeued
            /\ sequence' = sequence + Cardinality(call.missing)
<1>1. CASE Passing \/ Serving \/ Losing
  BY <1>1, PassingKeeps, ServingKeeps, LosingKeeps
<1>2. CASE Forgetting \/ \E x \in queue : Send(x)
  BY <1>2, SendKeeps DEF Forgetting, ServerForgets
<1>3. CASE Dropping
  BY <1>3, DroppingKeeps
<1>4. CASE Counting
  BY <1>4, CountingKeeps
<1>5. CASE RequeueMissing
  BY <1>5, RequeueKeeps
<1> QED
  BY <1>1, <1>2, <1>3, <1>4, <1>5, StepSplit

LEMMA QueueFits ==
  ASSUME IInv, Next
  PROVE  JobsFit'
<1>1. TypeOK /\ queue \subseteq Rows /\ \A x \in queue : Fits(x.job)
  BY DEF IInv, CustodyInv, TypeOK, JobsFit
<1>2. \A x \in queue : Fits(x.job)'
  BY <1>1, FitsStays DEF Rows
<1>3. CASE queue' \subseteq queue
  BY <1>2, <1>3 DEF JobsFit
<1>4. CASE Recording
  <2>1. PICK r \in Recordings, job \in Jobs, x \in Rows :
          Starts(r, job) /\ New(x, sequence, job) /\ queue' = queue \cup {x}
    BY <1>4, RecordingKeeps
  <2>2. Fits(job)' /\ x.job = job
    BY <2>1, StartsFits DEF New
  <2> QED
    BY <1>2, <2>1, <2>2 DEF JobsFit
<1>5. CASE SameRows(queue')
  BY <1>2, <1>5 DEF SameRows, JobsFit
<1>6. CASE RequeueMissing /\ call.missing \subseteq Had(call.req.job.rec) /\ queue' = queue \cup Requeued
  <2>1. /\ call # Nothing /\ status[call.req.job.rec] = "closing" /\ UNCHANGED device
    BY <1>6, RequeueKeeps
  <2>2. ASSUME NEW x \in Requeued
        PROVE  Fits(x.job)'
    <3>1. PICK s \in call.missing :
            x.job = [kind |-> "segment", rec |-> call.req.job.rec, seq |-> s]
      BY <1>1, <2>1, RequeuedRows
    <3>2. s < taken[call.req.job.rec]
      BY <1>6 DEF Had
    <3> QED
      BY <2>1, <3>1, <3>2 DEF Fits, device
  <2> QED
    BY <1>2, <1>6, <2>2 DEF JobsFit
<1> QED
  BY <1>3, <1>4, <1>5, <1>6, QueueSteps DEF outbox, Without

LEMMA RequestsStay ==
  ASSUME IInv, Next
  PROVE  RequestsTell'
<1>1. /\ TypeOK /\ \A req \in wire : req \in Requests /\ Tells(req)
      /\ call # Nothing => call.req \in Requests /\ Tells(call.req)
  BY CallTypes DEF IInv, CustodyInv, TypeOK, RequestsTell
<1>2. \A req \in Requests : Tells(req) => Tells(req)'
  BY TellsStays
<1>3. CASE wire' \subseteq wire /\ (call' = Nothing \/ (call # Nothing /\ call'.req = call.req))
  BY <1>1, <1>2, <1>3 DEF RequestsTell
<1>4. CASE Losing
  <2>1. /\ \A req \in wire' : req \in wire \/ (call # Nothing /\ req = call.req)
        /\ call' = Nothing \/ (call # Nothing /\ call'.req = call.req)
    BY <1>4, LosingKeeps
  <2> QED
    BY <1>1, <1>2, <2>1 DEF RequestsTell
<1>5. CASE \E x \in queue : Send(x)
  <2>1. wire' = wire /\ call'.req \in Requests /\ Tells(call'.req)
    BY <1>5, SendKeeps
  <2> QED
    BY <1>1, <1>2, <2>1 DEF RequestsTell
<1>6. CASE UNCHANGED <<wire, call>>
  BY <1>1, <1>2, <1>6 DEF RequestsTell
<1>7. CASE Serving
  BY <1>1, <1>2, <1>7, ServingKeeps DEF RequestsTell
<1>8. CASE Counting
  <2>1. wire' = wire /\ (call' = Nothing \/ call' = call)
    BY <1>8, CountingKeeps
  <2> QED
    BY <1>1, <1>2, <2>1 DEF RequestsTell
<1>9. CASE Recording \/ Passing \/ Forgetting
  BY <1>6, <1>9, RecordingKeeps, PassingKeeps DEF Forgetting, ServerForgets
<1>10. CASE Dropping \/ RequeueMissing
  BY <1>3, <1>10, DroppingKeeps, RequeueKeeps
<1> QED
  BY <1>4, <1>5, <1>7, <1>8, <1>9, <1>10, StepSplit

\* What becomes of the request that is awaited.
LEMMA CallSteps ==
  ASSUME IInv, Next, call' # Nothing
  PROVE  \/ call' = call
         \/ /\ call # Nothing /\ call'.no = call.no /\ call'.req = call.req
            /\ call'.answer \in {"retry", "rejected"}
         \/ /\ call # Nothing /\ call'.no = call.no /\ call'.req = call.req
            /\ call.answer = "none" /\ call'.answer = AnswerTo(call.req)
            /\ Handle(call.req) /\ UNCHANGED <<device, outbox, pass>>
         \/ \E x \in queue : Send(x)
<1>1. CASE Recording \/ Passing \/ Forgetting
  BY <1>1, RecordingKeeps, PassingKeeps DEF Forgetting, ServerForgets
<1>2. CASE Serving
  BY <1>2, ServingKeeps
<1>3. CASE Losing
  BY <1>3, LosingKeeps
<1>4. CASE Counting
  BY <1>4, CountingKeeps
<1>5. CASE Dropping
  BY <1>5, DroppingKeeps
<1>6. CASE RequeueMissing
  BY <1>6, RequeueKeeps
<1> QED
  BY <1>1, <1>2, <1>3, <1>4, <1>5, <1>6, StepSplit

LEMMA AnswersStay ==
  ASSUME IInv, Next
  PROVE  AnswerInv'
<1> SUFFICES ASSUME call' # Nothing
             PROVE  /\ call'.answer = "ok" /\ call'.req.job.kind = "close" =>
                         server'[call'.req.job.rec] = "complete"
                    /\ call'.answer = "missing" => call'.req.job.kind = "close"
  BY DEF AnswerInv
<1>1. CASE call' = call
  <2>1. call.req.job.rec \in Recordings
    BY <1>1, CallTypes DEF IInv, CustodyInv
  <2> QED
    BY <1>1, <2>1, ServerSteps DEF IInv, CustodyInv, AnswerInv
<1>2. CASE call'.answer \in {"retry", "rejected"}
  BY <1>2
<1>3. CASE /\ call # Nothing /\ call'.req = call.req /\ call'.answer = AnswerTo(call.req)
           /\ Handle(call.req)
  <2>1. call.req \in Requests /\ Tells(call.req)
    BY <1>3, CallTypes DEF IInv, CustodyInv, RequestsTell
  <2>2. AnswerTo(call.req) = "missing" => call.req.job.kind = "close"
    BY DEF AnswerTo
  <2> QED
    BY <1>3, <2>1, <2>2, HandleServes DEF IInv
<1>4. CASE \E x \in queue : Send(x)
  BY <1>4, SendKeeps
<1> QED
  BY <1>1, <1>2, <1>3, <1>4, CallSteps

\* Numbers are given once.
LEMMA NumbersStay ==
  ASSUME IInv, Next
  PROVE  Numbered'
<1>1. TypeOK /\ queue \subseteq Rows /\ sequence \in Nat /\ \A x \in queue : x.no \in Nat /\ x.no < sequence
  BY DEF IInv, CustodyInv, TypeOK, QueueInv, Numbered, Rows
<1>2. \A x, y \in queue : x.no = y.no => x = y
  BY DEF IInv, QueueInv, Numbered
<1>3. CASE queue' \subseteq queue /\ sequence' = sequence
  BY <1>1, <1>2, <1>3 DEF Numbered
<1>4. CASE Recording
  <2>1. PICK x \in Rows : x.no = sequence /\ queue' = queue \cup {x}
    BY <1>4, RecordingKeeps DEF New
  <2>2. sequence' = sequence + 1
    BY <1>4, RecordingKeeps
  <2>3. \A y \in queue' : y = x \/ y \in queue
    BY <2>1
  <2>4. \A y \in queue' : y.no < sequence'
    BY <1>1, <2>1, <2>2, <2>3
  <2>5. \A y \in queue : y.no # x.no
    BY <1>1, <2>1
  <2>6. \A y, z \in queue' : y.no = z.no => y = z
    BY <1>2, <2>3, <2>5
  <2> QED
    BY <2>4, <2>6 DEF Numbered
<1>5. CASE SameRows(queue') /\ sequence' = sequence
  <2>1. \A y \in queue' : y.no < sequence
    BY <1>1, <1>5 DEF SameRows
  <2> QED
    BY <1>5, <2>1 DEF SameRows, Numbered
<1>6. CASE /\ RequeueMissing /\ queue' = queue \cup Requeued
           /\ sequence' = sequence + Cardinality(call.missing)
  <2>1. call # Nothing
    BY <1>6, RequeueKeeps
  <2>2. ASSUME NEW x \in Requeued
        PROVE  x.no \in Nat /\ sequence <= x.no /\ x.no < sequence'
    <3>1. PICK s \in call.missing : x.no = sequence + Before(s)
      BY <1>1, <2>1, RequeuedRows
    <3>2. /\ Before(s) \in Nat /\ Cardinality(call.missing) \in Nat
          /\ Before(s) < Cardinality(call.missing)
      BY <1>1, <2>1, BeforeCounts
    <3> QED
      BY <1>1, <1>6, <3>1, <3>2
  <2>3. Cardinality(call.missing) \in Nat /\ \A x, y \in Requeued : x.no = y.no => x = y
    BY <1>1, <2>1, RequeuedRows
  <2>4. \A x \in queue' : x \in queue \/ x \in Requeued
    BY <1>6
  <2>5. \A x \in queue : x.no < sequence'
    BY <1>1, <1>6, <2>3
  <2>6. \A x \in queue, y \in Requeued : x.no # y.no
    BY <1>1, <2>2
  <2>7. \A x, y \in queue' : x.no = y.no => x = y
    BY <1>2, <2>3, <2>4, <2>6
  <2> QED
    BY <2>2, <2>4, <2>5, <2>7 DEF Numbered
<1> QED
  BY <1>3, <1>4, <1>5, <1>6, QueueSteps DEF outbox, Without

\* The jobs of the next queue: those of the old one, and what the step adds.
LEMMA JobSteps ==
  ASSUME IInv, Next
  PROVE  \A y \in queue' :
           \/ \E x \in queue : x.no = y.no /\ x.job = y.job
           \/ /\ Recording /\ \E r \in Recordings, job \in Jobs :
                                Starts(r, job) /\ y.job = job /\ queue' = queue \cup {y}
              /\ UNCHANGED <<remote, pass, call>>
           \/ /\ RequeueMissing /\ y \in Requeued /\ y.job.kind = "segment"
              /\ y.job.rec = call.req.job.rec
<1> SUFFICES ASSUME NEW y \in queue'
             PROVE  \/ \E x \in queue : x.no = y.no /\ x.job = y.job
                    \/ /\ Recording /\ \E r \in Recordings, job \in Jobs :
                                         Starts(r, job) /\ y.job = job /\ queue' = queue \cup {y}
                       /\ UNCHANGED <<remote, pass, call>>
                    \/ /\ RequeueMissing /\ y \in Requeued /\ y.job.kind = "segment"
                       /\ y.job.rec = call.req.job.rec
  OBVIOUS
<1>1. CASE queue' \subseteq queue
  BY <1>1
<1>2. CASE Recording
  BY <1>2, RecordingKeeps DEF New
<1>3. CASE SameRows(queue')
  BY <1>3 DEF SameRows
<1>4. CASE RequeueMissing /\ queue' = queue \cup Requeued
  <2>1. call # Nothing /\ TypeOK
    BY <1>4, RequeueKeeps DEF IInv, CustodyInv
  <2>2. ASSUME y \in Requeued
        PROVE  y.job.kind = "segment" /\ y.job.rec = call.req.job.rec
    <3>1. PICK s \in call.missing : y.job = [kind |-> "segment", rec |-> call.req.job.rec, seq |-> s]
      BY <2>1, <2>2, RequeuedRows
    <3> QED
      BY <3>1
  <2>3. y \in queue \/ y \in Requeued
    BY <1>4
  <2> QED
    BY <1>4, <2>2, <2>3
<1> QED
  BY <1>1, <1>2, <1>3, <1>4, QueueSteps DEF outbox, Without

\* A row of the old queue leaves it only when its job is settled.
LEMMA RowSteps ==
  ASSUME IInv, Next, NEW x \in queue
  PROVE  \/ \E y \in queue' : y.no = x.no /\ y.job = x.job
         \/ Dropping /\ queue' = Without(x.no) /\ Settles(x.job)
<1>1. CASE queue \subseteq queue'
  BY <1>1
<1>2. CASE Dropping
  <2>1. PICK z \in queue : queue' = Without(z.no) /\ Settles(z.job)
    BY <1>2, DroppingKeeps
  <2>2. CASE x.no = z.no
    <3>1. x = z
      BY <2>2 DEF IInv, QueueInv, Numbered
    <3> QED
      BY <1>2, <2>1, <3>1
  <2>3. CASE x.no # z.no
    BY <2>1, <2>3 DEF Without
  <2> QED
    BY <2>2, <2>3
<1>3. CASE SameRows(queue')
  BY <1>3 DEF SameRows
<1>4. CASE Recording
  BY <1>4, RecordingKeeps
<1> QED
  BY <1>1, <1>2, <1>3, <1>4, QueueSteps DEF outbox

LEMMA CallsStay ==
  ASSUME IInv, Next
  PROVE  CallHasRow'
<1> SUFFICES ASSUME call' # Nothing
             PROVE  /\ pass'.on /\ call'.no \in pass'.todo
                    /\ \E x \in queue' : x.no = call'.no /\ x.job = call'.req.job
  BY DEF CallHasRow
<1>1. CASE \E x \in queue : Send(x)
  <2>1. PICK x \in queue : Send(x)
    BY <1>1
  <2> QED
    BY <2>1, SendKeeps DEF outbox
<1>2. CASE call # Nothing /\ call'.no = call.no /\ call'.req = call.req
  <2>1. pass' = pass
    <3>1. ~Passing
      BY <1>2, PassingKeeps
    <3>2. ~Dropping
      BY DroppingKeeps
    <3>3. CASE Losing
      BY <3>3, LosingKeeps
    <3>4. CASE Counting
      BY <3>4, CountingKeeps
    <3>5. CASE Recording \/ Serving \/ Forgetting \/ RequeueMissing
      BY <3>5, RecordingKeeps, ServingKeeps, RequeueKeeps DEF Forgetting, ServerForgets
    <3>6. CASE \E x \in queue : Send(x)
      BY <3>6, SendKeeps
    <3> QED
      BY <3>1, <3>2, <3>3, <3>4, <3>5, <3>6, StepSplit
  <2>2. PICK x \in queue : x.no = call.no /\ x.job = call.req.job
    BY <1>2, CalledRow
  <2>3. ~Dropping
    BY DroppingKeeps
  <2>4. \E y \in queue' : y.no = x.no /\ y.job = x.job
    BY <2>3, RowSteps
  <2>5. pass.on /\ call.no \in pass.todo
    BY <1>2 DEF IInv, QueueInv, CallHasRow
  <2> QED
    BY <1>2, <2>1, <2>2, <2>4, <2>5
<1>3. CASE call' = call
  BY <1>2, <1>3
<1> QED
  BY <1>1, <1>2, <1>3, CallSteps

LEMMA RowsLive ==
  ASSUME IInv, Next
  PROVE  LivingRows'
<1>1. /\ \A x \in queue : ~x.dead => x.attempts < MaxAttempts
      /\ \A x \in queue : x.no \in pass.todo => ~x.dead
      /\ 0 < MaxAttempts
  BY BoundsAssumption DEF IInv, QueueInv, LivingRows
<1>2. CASE queue' \subseteq queue /\ \A n \in pass'.todo : n \in pass.todo
  BY <1>1, <1>2 DEF LivingRows
<1>3. CASE Recording
  <2>1. PICK x : x.attempts = 0 /\ ~x.dead /\ queue' = queue \cup {x}
    BY <1>3, RecordingKeeps DEF New
  <2>2. pass' = pass
    BY <1>3, RecordingKeeps
  <2> QED
    BY <1>1, <2>1, <2>2 DEF LivingRows
<1>4. CASE Passing
  BY <1>1, <1>4, PassingKeeps DEF LivingRows, outbox
<1>5. CASE Serving \/ Forgetting \/ \E x \in queue : Send(x)
  <2>1. UNCHANGED <<outbox, pass>>
    BY <1>5, ServingKeeps, SendKeeps DEF Forgetting, ServerForgets
  <2> QED
    BY <1>2, <2>1 DEF outbox
<1>6. CASE Losing
  <2>1. queue' = queue /\ (pass' = pass \/ pass' = NoPass)
    BY <1>6, LosingKeeps DEF outbox
  <2> QED
    BY <1>2, <2>1 DEF NoPass
<1>7. CASE Counting
  <2>1. SameRows(queue')
    BY <1>7, CountingKeeps
  <2>2. ASSUME NEW y \in queue', y.no \in pass'.todo
        PROVE  ~y.dead
    <3>1. CASE /\ pass' = pass
               /\ \A u \in queue' : \E v \in queue : v.no = u.no /\ (u.dead => v.dead)
      BY <1>1, <2>2, <3>1
    <3>2. CASE pass'.todo = pass.todo \ {call.no}
      BY <1>1, <2>1, <2>2, <3>2 DEF SameRows
    <3> QED
      BY <1>7, <3>1, <3>2, CountingKeeps
  <2> QED
    BY <2>1, <2>2 DEF SameRows, LivingRows
<1>8. CASE Dropping
  <2>1. PICK x \in queue : queue' = Without(x.no) /\ pass'.todo = pass.todo \ {x.no}
    BY <1>8, DroppingKeeps
  <2> QED
    BY <1>2, <2>1 DEF Without
<1>9. CASE RequeueMissing
  <2>1. pass' = pass /\ call # Nothing /\ TypeOK
    BY <1>9, RequeueKeeps DEF IInv, CustodyInv
  <2>2. \A x \in Requeued : x.attempts = 0 /\ ~x.dead
    BY <2>1, RequeuedRows
  <2>3. queue' = queue \/ queue' = queue \cup Requeued
    BY <1>9, RequeueKeeps DEF outbox
  <2> QED
    BY <1>1, <2>1, <2>2, <2>3 DEF LivingRows
<1> QED
  BY <1>3, <1>4, <1>5, <1>6, <1>7, <1>8, <1>9, StepSplit

HasSegment(q, r) == \E x \in q : x.job.kind = "segment" /\ x.job.rec = r

\* Nothing joins a recording that waits for its close.
LEMMA ClosingStays ==
  ASSUME IInv, Next, NEW r \in Recordings, status[r] = "closing"
  PROVE  /\ remote[r] => remote'[r]
         /\ ~Dropping => status'[r] = "closing"
         /\ ~SegmentsLeft(r) /\ HasSegment(queue', r) => RequeueMissing
<1>1. TypeOK
  BY DEF IInv, CustodyInv
<1>2. ASSUME NEW t \in Recordings, RecorderStep(t)
      PROVE  t # r /\ status'[r] = status[r] /\ remote' = remote
  BY <1>1, <1>2 DEF RecorderStep, BeginRecording, StoreChunk, FinishRecording, TypeOK
<1>3. remote[r] => remote'[r]
  BY <1>1, <1>2, DeviceSteps DEF Completes, TypeOK, device
<1>4. ~Dropping => status'[r] = "closing"
  BY <1>2, DeviceSteps DEF device
<1>5. ASSUME ~SegmentsLeft(r), NEW y \in queue', y.job.kind = "segment", y.job.rec = r, ~RequeueMissing
      PROVE  FALSE
  <2>1. \A x \in queue : x.job # y.job
    BY <1>5 DEF SegmentsLeft, Queued
  <2>2. PICK t \in Recordings, job \in Jobs : Starts(t, job) /\ y.job = job
    BY <1>5, <2>1, JobSteps
  <2> QED
    BY <1>5, <2>2, StartsFits
<1> QED
  BY <1>3, <1>4, <1>5 DEF HasSegment

LEMMA ClosesStayLast ==
  ASSUME IInv, Next
  PROVE  CloseIsLast'
<1> SUFFICES ASSUME call' # Nothing, call'.req.job.kind = "close"
             PROVE  /\ status'[call'.req.job.rec] = "closing"
                    /\ call'.answer \in {"none", "ok", "missing"} =>
                         remote'[call'.req.job.rec] /\ ~HasSegment(queue', call'.req.job.rec)
  BY DEF CloseIsLast, SegmentsLeft, Queued, HasSegment
<1>1. CASE \E x \in queue : Send(x)
  <2>1. PICK x \in queue : Send(x)
    BY <1>1
  <2> QED
    BY <2>1, SendKeeps DEF device, outbox, SegmentsLeft, Queued, HasSegment
<1>2. CASE call # Nothing /\ call'.req = call.req
  <2> DEFINE r == call.req.job.rec
  <2>1. r \in Recordings /\ status[r] = "closing"
        /\ (call.answer \in {"none", "ok", "missing"} => remote[r] /\ ~SegmentsLeft(r))
    BY <1>2, CallTypes DEF IInv, CustodyInv, QueueInv, CloseIsLast
  <2>2. ~Dropping
    BY DroppingKeeps
  <2>3. status'[r] = "closing" /\ (remote[r] => remote'[r])
        /\ (~SegmentsLeft(r) /\ HasSegment(queue', r) => RequeueMissing)
    BY <2>1, <2>2, ClosingStays
  <2>4. RequeueMissing => call'.answer = "retry"
    BY RequeueKeeps
  <2>5. call'.answer \in {"none", "ok", "missing"} => call.answer \in {"none", "ok", "missing"}
    <3>1. CASE \E x \in queue : Send(x)
      BY <1>2, <3>1, SendKeeps
    <3> QED
      BY <3>1, CallSteps
  <2> QED
    BY <1>2, <2>1, <2>3, <2>4, <2>5
<1> QED
  BY <1>1, <1>2, CallSteps

\* Two create jobs, or two close jobs, of one recording are the same job.
LEMMA SameJob ==
  ASSUME NEW a \in Jobs, NEW b \in Jobs, a.kind = b.kind, a.rec = b.rec, a.kind # "segment"
  PROVE  a = b
  BY DEF Jobs

LEMMA CreatedStays ==
  ASSUME IInv, Next
  PROVE  CreatedOnce'
<1>1. TypeOK /\ queue \subseteq Rows /\ (\A x \in queue : x.job \in Jobs)
  BY DEF IInv, CustodyInv, TypeOK, Rows
<1> SUFFICES ASSUME NEW r \in Recordings, remote'[r],
                    NEW y \in queue', y.job.kind = "create", y.job.rec = r
             PROVE  FALSE
  BY DEF CreatedOnce, Queued
<1>2. remote[r] => \A x \in queue : ~(x.job.kind = "create" /\ x.job.rec = r)
  BY DEF IInv, QueueInv, CreatedOnce, Queued
<1>3. CASE Dropping
  <2>1. PICK x \in queue : queue' = Without(x.no) /\ Settles(x.job)
    BY <1>3, DroppingKeeps
  <2>2. y \in queue /\ y.no # x.no
    BY <2>1 DEF Without
  <2>3. ~remote[r]
    BY <1>2, <2>2
  <2>4. x.job.kind = "create" /\ x.job.rec = r
    BY <1>1, <2>1, <2>3 DEF Settles, Completes, device, TypeOK
  <2>5. x.job = y.job
    BY <1>1, <2>2, <2>4, SameJob
  <2> QED
    BY <2>2, <2>5 DEF IInv, QueueInv, JobsAreUnique
<1>4. CASE ~Dropping
  <2>1. remote' = remote
    BY <1>4, DeviceSteps DEF device, RecorderStep, BeginRecording, StoreChunk, FinishRecording
  <2>2. \A x \in queue : x.job # y.job
    BY <1>2, <2>1
  <2>3. PICK t \in Recordings, job \in Jobs : Starts(t, job) /\ y.job = job
    BY <2>2, JobSteps
  <2>4. y.job = Job("create", t, 0) /\ status[t] = "none"
    BY <2>3 DEF Starts, Job
  <2>5. t = r
    BY <2>4 DEF Job
  <2> QED
    BY <2>1, <2>4, <2>5 DEF IInv, CustodyInv, DeviceInv
<1> QED
  BY <1>3, <1>4

LEMMA UnfinishedStays ==
  ASSUME IInv, Next
  PROVE  UnfinishedIsQueued'
<1>1. TypeOK
  BY DEF IInv, CustodyInv
<1> SUFFICES ASSUME NEW r \in Recordings
             PROVE  /\ status'[r] = "closing" =>
                         \E y \in queue' : y.job.kind = "close" /\ y.job.rec = r
                    /\ status'[r] # "none" /\ ~remote'[r] =>
                         \E y \in queue' : y.job.kind = "create" /\ y.job.rec = r
  BY DEF UnfinishedIsQueued, Queued
\* Rows that are there stay there.
<1>2. ASSUME NEW x \in queue, x.job.rec = r, ~\E y \in queue' : y.no = x.no /\ y.job = x.job
      PROVE  Settles(x.job) /\ Dropping
  BY <1>2, RowSteps
<1>3. status'[r] = status[r] \/ Dropping \/ \E t \in Recordings : RecorderStep(t)
  BY DeviceSteps DEF device
<1>4. ASSUME status[r] = "closing", status'[r] = "closing"
      PROVE  \E y \in queue' : y.job.kind = "close" /\ y.job.rec = r
  <2>1. PICK x \in queue : x.job.kind = "close" /\ x.job.rec = r
    BY <1>4 DEF IInv, QueueInv, UnfinishedIsQueued, Queued
  <2>2. ~Settles(x.job)
    BY <1>1, <1>4, <2>1 DEF Settles, Moot, Completes, TypeOK
  <2> QED
    BY <1>2, <2>1, <2>2
<1>5. ASSUME status[r] # "none", ~remote'[r]
      PROVE  \E y \in queue' : y.job.kind = "create" /\ y.job.rec = r
  <2>1. ~remote[r]
    BY <1>1, <1>5, DeviceSteps DEF device, Completes, TypeOK, RecorderStep, BeginRecording,
       StoreChunk, FinishRecording
  <2>2. PICK x \in queue : x.job.kind = "create" /\ x.job.rec = r
    BY <1>5, <2>1 DEF IInv, QueueInv, UnfinishedIsQueued, Queued
  <2>3. ~Settles(x.job)
    BY <1>1, <1>5, <2>1, <2>2 DEF Settles, Moot, TypeOK
  <2> QED
    BY <1>2, <2>2, <2>3
\* A step of the recorder queues what its recording needs.
<1>6. ASSUME NEW t \in Recordings, RecorderStep(t), status'[r] # status[r]
      PROVE  \/ /\ status[r] = "none" /\ status'[r] = "recording"
                /\ \E y \in queue' : y.job.kind = "create" /\ y.job.rec = r
             \/ /\ status[r] = "recording" /\ status'[r] = "closing"
                /\ \E y \in queue' : y.job.kind = "close" /\ y.job.rec = r
  <2>1. PICK u \in Recordings, job \in Jobs, x \in Rows :
          Starts(u, job) /\ New(x, sequence, job) /\ queue' = queue \cup {x}
    BY <1>6, RecordingKeeps DEF Recording
  <2>2. x \in queue' /\ x.job = job
    BY <2>1 DEF New
  <2>3. CASE job = Job("create", u, 0) /\ status[u] = "none" /\ status' = [status EXCEPT ![u] = "recording"]
    <3>1. u = r
      BY <1>1, <1>6, <2>3 DEF TypeOK
    <3> QED
      BY <1>1, <2>2, <2>3, <3>1 DEF TypeOK, Job
  <2>4. CASE job = Job("close", u, 0) /\ status[u] = "recording" /\ status' = [status EXCEPT ![u] = "closing"]
    <3>1. u = r
      BY <1>1, <1>6, <2>4 DEF TypeOK
    <3> QED
      BY <1>1, <2>2, <2>4, <3>1 DEF TypeOK, Job
  <2> QED
    BY <1>6, <2>1, <2>3, <2>4 DEF Starts
<1>7. ASSUME Dropping
      PROVE  status'[r] = status[r] \/ status'[r] = "complete"
  <2>1. PICK x \in queue : Settles(x.job)
    BY <1>7, DroppingKeeps
  <2> QED
    BY <1>1, <2>1 DEF Settles, Completes, device, TypeOK
<1>8. remote[r] => remote'[r]
  BY <1>1, DeviceSteps DEF device, Completes, TypeOK, RecorderStep, BeginRecording, StoreChunk,
     FinishRecording
<1>9. ASSUME status'[r] = "closing"
      PROVE  \E y \in queue' : y.job.kind = "close" /\ y.job.rec = r
  BY <1>3, <1>4, <1>6, <1>7, <1>9
<1>10. ASSUME status'[r] # "none", ~remote'[r]
       PROVE  \E y \in queue' : y.job.kind = "create" /\ y.job.rec = r
  <2>1. CASE status[r] # "none"
    BY <1>5, <1>10, <2>1
  <2>2. CASE status[r] = "none"
    <3>1. CASE Dropping
      <4>1. PICK x \in queue : Settles(x.job)
        BY <3>1, DroppingKeeps
      <4>2. status'[r] = "none"
        BY <1>1, <2>2, <4>1 DEF Settles, Completes, device, TypeOK
      <4> QED
        BY <1>10, <4>2
    <3> QED
      BY <1>3, <1>6, <1>10, <2>2, <3>1
  <2> QED
    BY <2>1, <2>2
<1> QED
  BY <1>9, <1>10

LEMMA OneAtATime ==
  ASSUME IInv, Recording
  PROVE  ~RequeueMissing
<1>1. call' = call
  BY RecordingKeeps
<1>2. RequeueMissing => call'.answer = "retry" /\ call.answer = "missing"
  BY RequeueKeeps DEF RequeueMissing, Answered
<1> QED
  BY <1>1, <1>2

LEMMA SettledStays ==
  ASSUME IInv, Next
  PROVE  CompleteIsSettled'
<1>1. TypeOK /\ (\A x \in queue : x.job \in Jobs)
  BY DEF IInv, CustodyInv, TypeOK, Rows
<1> SUFFICES ASSUME NEW r \in Recordings, status'[r] = "complete",
                    NEW y \in queue', y.job.rec = r
             PROVE  FALSE
  BY DEF CompleteIsSettled
<1>2. CASE status[r] = "complete"
  <2>1. \A x \in queue : x.job.rec # r
    BY <1>2 DEF IInv, QueueInv, CompleteIsSettled
  <2>2. CASE Recording
    <3>1. PICK t \in Recordings, job \in Jobs : Starts(t, job) /\ y.job = job
      BY <2>1, <2>2, JobSteps, OneAtATime
    <3> QED
      BY <1>2, <3>1, StartsFits
  <2>3. CASE RequeueMissing
    <3>1. y.job.rec = call.req.job.rec /\ status[call.req.job.rec] = "closing"
      BY <2>1, <2>2, <2>3, JobSteps, RequeueKeeps
    <3> QED
      BY <1>2, <3>1
  <2> QED
    BY <2>1, <2>2, <2>3, JobSteps
<1>3. CASE status[r] # "complete"
  <2>1. ~\E t \in Recordings : RecorderStep(t)
    BY <1>1, <1>3 DEF RecorderStep, BeginRecording, StoreChunk, FinishRecording, TypeOK
  <2>2. Dropping
    BY <1>3, <2>1, DeviceSteps DEF device
  <2>3. PICK x \in queue : queue' = Without(x.no) /\ Settles(x.job)
    BY <2>2, DroppingKeeps
  <2>4. y \in queue /\ y.no # x.no
    BY <2>3 DEF Without
  <2>5. x.job.kind = "close" /\ x.job.rec = r /\ Completes(r)
    BY <1>1, <1>3, <2>3 DEF Settles, Completes, device, TypeOK
  <2>6. remote[r] /\ ~SegmentsLeft(r)
    BY <2>5 DEF Completes
  <2>7. y.job.kind # "segment"
    BY <2>4, <2>6 DEF SegmentsLeft, Queued
  <2>8. y.job.kind # "create"
    BY <2>4, <2>6 DEF IInv, QueueInv, CreatedOnce, Queued
  <2>9. y.job = x.job
    <3>1. y.job.kind = "close"
      BY <1>1, <2>4, <2>7, <2>8, JobFields
    <3> QED
      BY <1>1, <2>4, <2>5, <3>1, SameJob
  <2> QED
    BY <2>4, <2>9 DEF IInv, QueueInv, JobsAreUnique
<1> QED
  BY <1>2, <1>3

LEMMA UniqueStays ==
  ASSUME IInv, Next
  PROVE  JobsAreUnique'
<1>1. TypeOK /\ (call # Nothing => call.req.job.rec \in Recordings)
  BY CallTypes DEF IInv, CustodyInv
<1> SUFFICES ASSUME NEW y \in queue', NEW z \in queue', y.job = z.job
             PROVE  y = z
  BY DEF JobsAreUnique
<1> DEFINE Old(w) == \E x \in queue : x.no = w.no /\ x.job = w.job
<1>2. CASE Old(y) /\ Old(z)
  <2>1. y.no = z.no
    BY <1>2 DEF IInv, QueueInv, JobsAreUnique
  <2> QED
    BY <2>1, NumbersStay DEF Numbered
<1>3. CASE RequeueMissing /\ ~(Old(y) /\ Old(z))
  <2>1. call # Nothing /\ ~SegmentsLeft(call.req.job.rec)
    BY <1>3, RequeueKeeps
  <2>2. \A w \in queue' : Old(w) \/ (w \in Requeued /\ w.job.kind = "segment"
                                       /\ w.job.rec = call.req.job.rec)
    BY <1>3, OneAtATime, JobSteps
  <2>3. \A w \in queue' : Old(w) => ~(w.job.kind = "segment" /\ w.job.rec = call.req.job.rec)
    BY <2>1 DEF SegmentsLeft, Queued
  <2>4. y \in Requeued /\ z \in Requeued
    BY <1>3, <2>2, <2>3
  <2> QED
    BY <1>1, <2>1, <2>4, RequeuedRows
<1>4. CASE ~RequeueMissing /\ ~(Old(y) /\ Old(z))
  <2>1. PICK u \in queue' : u \in {y, z} /\ ~Old(u)
    BY <1>4
  <2>2. PICK t \in Recordings, job \in Jobs :
          Starts(t, job) /\ u.job = job /\ queue' = queue \cup {u}
    BY <1>4, <2>1, JobSteps
  <2>3. \A x \in queue : x.job # u.job
    BY <2>2, StartsFits
  <2>4. y = u /\ z = u
    BY <2>1, <2>2, <2>3
  <2> QED
    BY <2>4
<1> QED
  BY <1>2, <1>3, <1>4

-----------------------------------------------------------------------------
(* The invariant.                                                          *)

LEMMA InitInv ==
  ASSUME Init
  PROVE  IInv
<1>1. TypeOK
  BY BoundsAssumption DEF Init, TypeOK, NoPass, Passes, Totals
<1>2. \A r \in Recordings : Had(r) = {}
  BY BoundsAssumption DEF Init, Had, Chunks
<1>3. DeviceInv /\ ServerInv
  BY <1>2 DEF Init, DeviceInv, ServerInv
<1>4. JobsFit /\ RequestsTell /\ AnswerInv
  BY DEF Init, JobsFit, RequestsTell, AnswerInv
<1>5. Numbered /\ CallHasRow /\ LivingRows /\ CloseIsLast
  BY DEF Init, Numbered, CallHasRow, LivingRows, CloseIsLast
<1>6. CreatedOnce /\ UnfinishedIsQueued /\ CompleteIsSettled /\ JobsAreUnique
  BY DEF Init, CreatedOnce, UnfinishedIsQueued, CompleteIsSettled, JobsAreUnique
<1> QED
  BY <1>1, <1>3, <1>4, <1>5, <1>6 DEF IInv, CustodyInv, QueueInv

LEMMA NextInv ==
  ASSUME IInv, Next
  PROVE  IInv'
<1>1. CustodyInv'
  BY NextTypes, DeviceStays, QueueFits, RequestsStay, AnswersStay DEF CustodyInv
<1>2. QueueInv'
  BY NumbersStay, CallsStay, RowsLive, ClosesStayLast, CreatedStays, UnfinishedStays, SettledStays,
     UniqueStays DEF QueueInv
<1> QED
  BY <1>1, <1>2 DEF IInv

LEMMA StutterInv ==
  ASSUME IInv, UNCHANGED vars
  PROVE  IInv'
<1>1. CustodyInv'
  BY DEF IInv, CustodyInv, TypeOK, DeviceInv, ServerInv, JobsFit, RequestsTell, AnswerInv, Had,
     Tells, Fits, vars, device, outbox, remoteVars
<1>2. QueueInv'
  BY DEF IInv, QueueInv, Numbered, CallHasRow, LivingRows, CloseIsLast, CreatedOnce, SegmentsLeft,
     UnfinishedIsQueued, CompleteIsSettled, JobsAreUnique, Queued, vars, device, outbox, remoteVars
<1> QED
  BY <1>1, <1>2 DEF IInv

LEMMA Invariance == Spec => []IInv
<1>1. Init => IInv
  BY InitInv
<1>2. IInv /\ [Next]_vars => IInv'
  BY NextInv, StutterInv
<1> QED
  BY <1>1, <1>2, PTL DEF Spec

-----------------------------------------------------------------------------
(* The theorems.                                                           *)

\* In every reachable state each captured chunk is on the device or in a
\* completed server recording, a recording that is not complete has the jobs it
\* needs queued, a complete one has none, and no job is queued twice.
THEOREM QueueAgrees == Spec => []SyncInv
<1>1. IInv => SyncInv
  <2> SUFFICES ASSUME IInv
               PROVE  SyncInv
    OBVIOUS
  <2>1. NothingLost
    <3>1. ASSUME NEW r \in Recordings
          PROVE  chunks[r] = Had(r) \/ (server[r] = "complete" /\ segments[r] = Had(r))
      BY DEF IInv, CustodyInv, DeviceInv, ServerInv
    <3>2. \A r \in Recordings : Had(r) = {s \in 0..(MaxChunks - 1) : s < taken[r]}
      BY DEF Had, Chunks
    <3> QED
      BY <3>1, <3>2 DEF NothingLost, Custody!NothingLost, Custody!Taken, Custody!Chunks
  <2> QED
    BY <2>1 DEF IInv, CustodyInv, QueueInv, SyncInv
<1> QED
  BY <1>1, Invariance, PTL

Kept == [r \in Recordings |-> IF server[r] = "complete" THEN segments[r] ELSE Nothing]

\* What a step comes to for the audio.
LEMMA CustodySteps ==
  ASSUME IInv, [Next]_vars
  PROVE  [Custody!Next]_<<taken, chunks, Kept>>
<1>1. TypeOK
  BY DEF IInv, CustodyInv
<1>2. \A r \in Recordings : Custody!Taken(r) = Had(r)
  BY DEF Custody!Taken, Custody!Chunks, Had, Chunks
<1>3. CASE UNCHANGED <<taken, chunks>> /\ Kept' = Kept
  BY <1>3
<1>4. CASE UNCHANGED vars
  BY <1>3, <1>4 DEF vars, device, remoteVars, Kept
<1>5. CASE Next /\ UNCHANGED <<taken, chunks>> /\ Kept' # Kept
  <2>1. PICK r \in Recordings : Kept'[r] # Kept[r]
    BY <1>5 DEF Kept
  <2>2. server'[r] = "complete" /\ server[r] # "complete"
    BY <1>5, <2>1, ServerSteps DEF Kept
  <2>3. segments'[r] = Had(r) /\ UNCHANGED device
    BY <1>5, <2>2, ServerSteps
  <2>4. Kept[r] = Nothing /\ Kept'[r] = Had(r)
    BY <2>2, <2>3 DEF Kept
  <2>5. \A t \in Recordings \ {r} : Kept'[t] = Kept[t]
    <3>1. CASE Serving
      <4>1. PICK req \in Requests : Handle(req) /\ Tells(req)
        BY <3>1, ServingKeeps
      <4>2. req.job.rec = r
        BY <2>2, <4>1, HandleServes DEF IInv
      <4> QED
        BY <1>1, <4>1, <4>2, HandleTypes DEF Kept
    <3>2. CASE ~Serving
      <4>1. server' = server
        BY <1>5, <3>2, StepSplit, RecordingKeeps, PassingKeeps, LosingKeeps, CountingKeeps, DroppingKeeps,
           SendKeeps, RequeueKeeps DEF remoteVars, Forgetting, ServerForgets
      <4> QED
        BY <2>2, <4>1
    <3> QED
      BY <3>1, <3>2
  <2>6. Kept' = [Kept EXCEPT ![r] = Had(r)]
    BY <2>4, <2>5 DEF Kept
  <2>7. Custody!TakeOver(r)
    BY <1>2, <1>5, <2>4, <2>6 DEF Custody!TakeOver, Kept
  <2> QED
    BY <2>7 DEF Custody!Next
<1>6. CASE Next /\ ~UNCHANGED <<taken, chunks>>
  <2>1. CASE \E r \in Recordings : RecorderStep(r)
    <3>1. PICK r \in Recordings : StoreChunk(r)
      BY <1>6, <2>1 DEF RecorderStep, BeginRecording, FinishRecording
    <3>2. Kept' = Kept
      BY <3>1 DEF StoreChunk, Kept, remoteVars
    <3>3. server[r] # "complete"
      BY <3>1 DEF StoreChunk, IInv, CustodyInv, ServerInv
    <3>4. Kept[r] = Nothing
      BY <3>3 DEF Kept
    <3>5. Custody!Capture(r)
      BY <3>1, <3>2, <3>4 DEF StoreChunk, Custody!Capture, Kept
    <3> QED
      BY <3>5 DEF Custody!Next
  <2>2. CASE \E r \in Recordings : Completes(r) /\ UNCHANGED <<taken, remoteVars>>
    <3>1. PICK r \in Recordings : Completes(r) /\ UNCHANGED <<taken, remoteVars>>
      BY <2>2
    <3>2. Kept' = Kept
      BY <3>1 DEF Kept, remoteVars
    <3>3. Kept[r] = Had(r)
      BY <3>1 DEF Completes, Kept, IInv, CustodyInv, ServerInv
    <3>4. Custody!LetGo(r)
      BY <1>2, <3>1, <3>2, <3>3 DEF Completes, Custody!LetGo, Kept
    <3> QED
      BY <3>4 DEF Custody!Next
  <2> QED
    BY <1>6, <2>1, <2>2, DeviceSteps DEF device
<1> QED
  BY <1>3, <1>4, <1>5, <1>6

\* The pipeline implements AudioCustody: chunks are added one by one while the
\* server has not taken over, the server takes over whole recordings only, and
\* the device lets go of a recording the server keeps in full.
THEOREM AudioIsKept == Spec => KeepsCustody
<1>1. Init => Custody!Init
  BY DEF Init, Custody!Init
<1>2. IInv /\ [Next]_vars => [Custody!Next]_<<taken, chunks, Kept>>
  BY CustodySteps
<1> QED
  BY <1>1, <1>2, Invariance, PTL DEF Spec, KeepsCustody, Custody!Spec, Kept
=============================================================================
