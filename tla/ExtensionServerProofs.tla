------------------------ MODULE ExtensionServerProofs -----------------------
(***************************************************************************)
(* What the server promises the extension, for any number of recordings,   *)
(* uploads, claims and refreshes. First what RecordingServer promises,     *)
(* then what ExtensionSession does: two components without a variable in   *)
(* common, which is why the names of the second carry a prefix.            *)
(***************************************************************************)
EXTENDS RecordingServer, ExtensionSession, FiniteSetTheorems, TLAPS

\* A success that is on its way names the bytes of the row.
AnswerIsStored ==
  \A q \in Requests :
    req[q] # None /\ req[q].answer = "ok" => At(q, "answered") /\ RowOf(q) = req[q].body

\* A complete recording holds the segments and the bytes of its manifest.
CompleteIsWhole ==
  \A r \in Recordings :
    status[r] = "complete" => expected[r] \in Manifests /\ Whole(r, expected[r])

GrantedMatches ==
  \A g \in granted : status[g[1]] = "complete" /\ expected[g[1]] = g[2]

IInv ==
  /\ TypeOK
  /\ AckedIsStored /\ AnswerIsStored
  /\ CompleteIsWhole /\ GrantedMatches
  /\ FinishedCallEnded

\* No step of a request changes a row, except the one that writes its segment.
ReadStep(q) ==
  \/ \E r \in Recordings, s \in Seqs, b \in Bodies : PutSegment(q, r, s, b)
  \/ FindSegment(q) \/ PutBlob(q) \/ InsertRefused(q) \/ InsertLoses(q) \/ FindWinner(q)
  \/ LookupRow(q) \/ DeleteBlob(q) \/ Respond(q) \/ RequestDies(q)

-----------------------------------------------------------------------------
\* Moving a request to another step, and answering it, keep its type.
LEMMA RequestTypes ==
  ASSUME TypeOK, NEW q \in Requests, req[q] # None,
         NEW step \in Steps, NEW answer \in Answers,
         GoTo(q, step) \/ Reply(q, answer) \/ Discard(q, answer)
  PROVE  req' \in [Requests -> Uploads \cup {None}]
<1>1. req[q] \in Uploads
  BY DEF TypeOK
<1>2. req'[q] \in Uploads /\ req' = [req EXCEPT ![q] = req'[q]]
  <2>1. CASE GoTo(q, step)
    BY <1>1, <2>1 DEF TypeOK, Uploads, GoTo
  <2>2. CASE Reply(q, answer)
    BY <1>1, <2>2 DEF TypeOK, Uploads, Reply, Steps
  <2>3. CASE Discard(q, answer)
    BY <1>1, <2>3 DEF TypeOK, Uploads, Discard, Steps
  <2> QED
    BY <2>1, <2>2, <2>3
<1> QED
  BY <1>2 DEF TypeOK

LEMMA ReadStepTypes ==
  ASSUME TypeOK, NEW q \in Requests, ReadStep(q)
  PROVE  TypeOK'
<1> USE DEF Steps, Answers
<1>1. ASSUME NEW r \in Recordings, NEW s \in Seqs, NEW b \in Bodies, PutSegment(q, r, s, b)
      PROVE  TypeOK'
  <2> DEFINE closed == status[r] = "complete"
             u == [at |-> IF closed THEN "answered" ELSE "find", rec |-> r, seq |-> s,
                   body |-> b, answer |-> IF closed THEN "closed" ELSE "none"]
  <2>1. u \in Uploads
    BY DEF Uploads
  <2>2. req' = [req EXCEPT ![q] = u]
    BY <1>1 DEF PutSegment
  <2> HIDE DEF u
  <2> QED
    BY <1>1, <2>1, <2>2 DEF TypeOK, PutSegment, rows
<1>2. CASE FindSegment(q)
  <2>1. Acknowledge(q) \in Answers
    BY DEF Acknowledge
  <2>2. req' \in [Requests -> Uploads \cup {None}]
    BY <1>2, <2>1, RequestTypes DEF FindSegment, At
  <2>3. idle' \in [Recordings -> BOOLEAN]
    BY <1>2 DEF TypeOK, FindSegment
  <2> QED
    BY <1>2, <2>2, <2>3 DEF TypeOK, FindSegment
<1>3. CASE PutBlob(q)
  <2>1. req' \in [Requests -> Uploads \cup {None}]
    BY <1>3, RequestTypes DEF PutBlob, At
  <2>2. KeyOf(q) \in Keys
    BY <1>3 DEF TypeOK, PutBlob, At, Uploads, Keys, KeyOf
  <2> QED
    BY <1>3, <2>1, <2>2 DEF TypeOK, PutBlob, rows
<1>4. CASE InsertRefused(q) \/ InsertLoses(q) \/ FindWinner(q) \/ LookupRow(q)
  <2>1. \/ Discard(q, "closed") \/ Discard(q, "conflict") \/ Reply(q, "ok")
        \/ GoTo(q, "winner") \/ GoTo(q, "answered") \/ GoTo(q, "delete")
    BY <1>4 DEF InsertRefused, InsertLoses, FindWinner, LookupRow
  <2>2. req[q] # None
    BY <1>4 DEF InsertRefused, InsertLoses, FindWinner, LookupRow, At
  <2>3. req' \in [Requests -> Uploads \cup {None}]
    BY <2>1, <2>2, RequestTypes
  <2> QED
    BY <1>4, <2>3 DEF TypeOK, InsertRefused, InsertLoses, FindWinner, LookupRow, rows
<1>5. CASE DeleteBlob(q)
  <2>1. req' \in [Requests -> Uploads \cup {None}]
    BY <1>5, RequestTypes DEF DeleteBlob, At
  <2> QED
    BY <1>5, <2>1 DEF TypeOK, DeleteBlob, rows
<1>6. CASE Respond(q) \/ RequestDies(q)
  <2>1. At(q, "answered") => KeyOf(q) \in Keys
    BY DEF TypeOK, At, Uploads, Keys, KeyOf
  <2>2. req' = [req EXCEPT ![q] = None] /\ acked' \subseteq Keys
    BY <1>6, <2>1 DEF TypeOK, Respond, RequestDies
  <2>3. UNCHANGED <<status, callEnded, idle, expected, stored, blobs, granted, errors>>
    BY <1>6 DEF Respond, RequestDies, rows
  <2> QED
    BY <2>2, <2>3 DEF TypeOK
<1> QED
  BY <1>1, <1>2, <1>3, <1>4, <1>5, <1>6 DEF ReadStep

LEMMA WriteTypes ==
  ASSUME TypeOK, NEW q \in Requests, req[q] # None, WriteSegment(q)
  PROVE  /\ stored' \in [Recordings -> [Seqs -> Bodies \cup {None}]]
         /\ idle' \in [Recordings -> BOOLEAN]
<1>1. req[q].rec \in Recordings /\ req[q].seq \in Seqs /\ req[q].body \in Bodies
  BY DEF TypeOK, Uploads
<1> QED
  BY <1>1 DEF TypeOK, WriteSegment

LEMMA SentAreManifests == Sent \subseteq Manifests
  BY DEF Sent, Manifests

\* Every other step: the two ways an insert writes, and the whole transactions.
OtherStep ==
  \/ \E q \in Requests : InsertSegment(q) \/ InsertThrows(q)
  \/ \E r \in Recordings :
       \/ CreateRecording(r) \/ GoesIdle(r)
       \/ \E m \in Sent : CloseRecording(r, m) \/ RepeatClose(r, m)
  \/ Sweep

LEMMA NextSplit ==
  ASSUME Next
  PROVE  OtherStep \/ \E q \in Requests : ReadStep(q)
  BY DEF Next, UploadStep, OtherStep, ReadStep

LEMMA OtherStepTypes ==
  ASSUME TypeOK, OtherStep
  PROVE  TypeOK'
<1>1. ASSUME NEW q \in Requests, InsertSegment(q)
      PROVE  TypeOK'
  <2>1. req' \in [Requests -> Uploads \cup {None}]
    BY <1>1, RequestTypes DEF InsertSegment, At, Answers, Steps
  <2>2. req[q] # None /\ WriteSegment(q)
    BY <1>1 DEF InsertSegment, At
  <2>3. UNCHANGED <<status, callEnded, expected, blobs, acked, granted, errors>>
    BY <1>1 DEF InsertSegment, WriteSegment
  <2> QED
    BY <2>1, <2>2, <2>3, WriteTypes DEF TypeOK
<1>2. ASSUME NEW q \in Requests, InsertThrows(q)
      PROVE  TypeOK'
  <2>1. req' \in [Requests -> Uploads \cup {None}]
    BY <1>2, RequestTypes DEF InsertThrows, At, Answers, Steps
  <2>2. req[q] # None /\ (WriteSegment(q) \/ UNCHANGED rows)
    BY <1>2 DEF InsertThrows, At
  <2>3. /\ stored' \in [Recordings -> [Seqs -> Bodies \cup {None}]]
        /\ idle' \in [Recordings -> BOOLEAN]
    BY <2>2, WriteTypes DEF TypeOK, rows
  <2>4. UNCHANGED <<status, callEnded, expected, blobs, acked, granted>>
    BY <1>2, <2>2 DEF InsertThrows, WriteSegment, rows
  <2>5. errors' \in 0..MaxErrors
    BY <1>2, MaxErrorsAssumption DEF TypeOK, InsertThrows
  <2> QED
    BY <2>1, <2>3, <2>4, <2>5 DEF TypeOK
<1>3. ASSUME NEW r \in Recordings, CreateRecording(r) \/ GoesIdle(r)
      PROVE  TypeOK'
  <2>1. status' \in [Recordings -> Statuses] /\ idle' \in [Recordings -> BOOLEAN]
    BY <1>3 DEF TypeOK, CreateRecording, GoesIdle, Statuses
  <2> QED
    BY <1>3, <2>1 DEF TypeOK, CreateRecording, GoesIdle
<1>4. ASSUME NEW r \in Recordings, NEW m \in Sent, CloseRecording(r, m)
      PROVE  TypeOK'
  <2>1. m \in Manifests
    BY SentAreManifests
  <2>2. /\ status' \in [Recordings -> Statuses] /\ idle' \in [Recordings -> BOOLEAN]
        /\ callEnded' \in [Recordings -> BOOLEAN]
    BY <1>4 DEF TypeOK, CloseRecording, Statuses
  <2>3. /\ expected' \in [Recordings -> Manifests \cup {None}]
        /\ granted' \subseteq Recordings \X Manifests
    BY <1>4, <2>1 DEF TypeOK, CloseRecording, Grant
  <2> QED
    BY <1>4, <2>2, <2>3 DEF TypeOK, CloseRecording
<1>5. ASSUME NEW r \in Recordings, NEW m \in Sent, RepeatClose(r, m)
      PROVE  TypeOK'
  <2>1. granted' \subseteq Recordings \X Manifests
    BY <1>5, SentAreManifests DEF TypeOK, RepeatClose, Grant
  <2> QED
    BY <1>5, <2>1 DEF TypeOK, RepeatClose, rows
<1>6. CASE Sweep
  <2>1. status' \in [Recordings -> Statuses]
    BY <1>6 DEF TypeOK, Sweep, Statuses
  <2>2. callEnded' \in [Recordings -> BOOLEAN]
    BY <1>6 DEF TypeOK, Sweep
  <2> QED
    BY <1>6, <2>1, <2>2 DEF TypeOK, Sweep
<1> QED
  BY <1>1, <1>2, <1>3, <1>4, <1>5, <1>6 DEF OtherStep

LEMMA NextTypes ==
  ASSUME TypeOK, [Next]_vars
  PROVE  TypeOK'
<1>1. CASE UNCHANGED vars
  BY <1>1 DEF TypeOK, vars, rows
<1> QED
  BY <1>1, NextSplit, ReadStepTypes, OtherStepTypes

-----------------------------------------------------------------------------
(* What a step may do to the rows.                                         *)

LEMMA ReadStepRows ==
  ASSUME NEW q \in Requests, ReadStep(q)
  PROVE  UNCHANGED <<status, callEnded, expected, stored, granted>>
  BY DEF ReadStep, PutSegment, FindSegment, PutBlob, InsertRefused, InsertLoses, FindWinner,
     LookupRow, DeleteBlob, Respond, RequestDies, rows

\* A segment row is written once, and only while its recording is not complete.
LEMMA WriteOnce ==
  ASSUME TypeOK, NEW q \in Requests, req[q] # None, WriteSegment(q)
  PROVE  /\ UNCHANGED <<status, callEnded, expected>>
         /\ \A r \in Recordings : status[r] = "complete" => stored'[r] = stored[r]
         /\ \A r \in Recordings, s \in Seqs :
              stored[r][s] # None => stored'[r][s] = stored[r][s]
<1>1. req[q].rec \in Recordings /\ req[q].seq \in Seqs /\ req[q].body \in Bodies
  BY DEF TypeOK, Uploads
<1>2. stored[req[q].rec][req[q].seq] = None /\ status[req[q].rec] # "complete"
  BY DEF WriteSegment, MayInsert, RowOf
<1>3. \A r \in Recordings : r # req[q].rec => stored'[r] = stored[r]
  BY DEF TypeOK, WriteSegment
<1>4. \A s \in Seqs : s # req[q].seq => stored'[req[q].rec][s] = stored[req[q].rec][s]
  BY <1>1 DEF TypeOK, WriteSegment
<1> QED
  BY <1>1, <1>2, <1>3, <1>4 DEF WriteSegment

Frozen ==
  \A r \in Recordings :
    status[r] = "complete" =>
      status'[r] = "complete" /\ expected'[r] = expected[r] /\ stored'[r] = stored[r]

Written ==
  \A r \in Recordings, s \in Seqs : stored[r][s] # None => stored'[r][s] = stored[r][s]

LEMMA NextFreezes ==
  ASSUME TypeOK, [Next]_vars
  PROVE  Frozen /\ Written
<1>1. ASSUME NEW q \in Requests, ReadStep(q)
      PROVE  Frozen /\ Written
  BY <1>1, ReadStepRows DEF Frozen, Written
<1>2. ASSUME NEW q \in Requests, InsertSegment(q) \/ InsertThrows(q)
      PROVE  Frozen /\ Written
  <2>1. req[q] # None /\ (WriteSegment(q) \/ UNCHANGED rows)
    BY <1>2 DEF InsertSegment, InsertThrows, At
  <2> QED
    BY <2>1, WriteOnce DEF Frozen, Written, rows
<1>3. ASSUME NEW r \in Recordings, CreateRecording(r) \/ GoesIdle(r)
      PROVE  Frozen /\ Written
  BY <1>3 DEF TypeOK, CreateRecording, GoesIdle, Frozen, Written
<1>4. ASSUME NEW r \in Recordings, NEW m \in Sent, CloseRecording(r, m) \/ RepeatClose(r, m)
      PROVE  Frozen /\ Written
  BY <1>4 DEF TypeOK, CloseRecording, RepeatClose, Frozen, Written, rows
<1>5. CASE Sweep
  BY <1>5 DEF TypeOK, Sweep, Sweepable, Frozen, Written
<1>6. CASE UNCHANGED vars
  BY <1>6 DEF vars, rows, Frozen, Written
<1> QED
  BY <1>1, <1>2, <1>3, <1>4, <1>5, <1>6, NextSplit DEF OtherStep

-----------------------------------------------------------------------------
(* Answers that are on their way.                                          *)

\* A request that is not moved keeps its answer; the one moved to a success
\* names the row.
LEMMA MovedTo ==
  ASSUME TypeOK, NEW q \in Requests, req[q] # None, NEW step, NEW answer,
         GoTo(q, step) \/ Reply(q, answer) \/ Discard(q, answer)
  PROVE  /\ \A p \in Requests : p # q => req'[p] = req[p]
         /\ req'[q] # None => /\ req'[q].rec = req[q].rec /\ req'[q].seq = req[q].seq
                              /\ req'[q].body = req[q].body
         /\ GoTo(q, step) => req'[q].at = step /\ req'[q].answer = req[q].answer
         /\ Reply(q, answer) => req'[q].at = "answered" /\ req'[q].answer = answer
         /\ Discard(q, answer) => req'[q].at = "lookup" /\ req'[q].answer = answer
<1>1. req[q] \in Uploads
  BY DEF TypeOK
<1> QED
  BY <1>1 DEF TypeOK, Uploads, GoTo, Reply, Discard

\* Which moves a step of an upload makes.
LEMMA StepMoves ==
  ASSUME NEW q \in Requests,
         ReadStep(q) \/ InsertSegment(q) \/ InsertThrows(q)
  PROVE  \/ \E r \in Recordings, s \in Seqs, b \in Bodies : PutSegment(q, r, s, b)
         \/ req' = [req EXCEPT ![q] = None]
         \/ /\ req[q] # None
            /\ \/ Reply(q, "ok") /\ (Acknowledge(q) = "ok" \/ InsertSegment(q))
               \/ Reply(q, "conflict")
               \/ \E answer \in Answers \ {"ok"} : Discard(q, answer)
               \/ \E step \in Steps : GoTo(q, step) /\ ~At(q, "answered")
<1> USE DEF Steps, Answers, At
<1>1. CASE FindSegment(q) \/ FindWinner(q)
  BY <1>1 DEF FindSegment, FindWinner, Acknowledge
<1>2. CASE PutBlob(q) \/ InsertRefused(q) \/ InsertLoses(q) \/ LookupRow(q) \/ DeleteBlob(q)
  BY <1>2 DEF PutBlob, InsertRefused, InsertLoses, LookupRow, DeleteBlob
<1>3. CASE InsertSegment(q) \/ InsertThrows(q)
  BY <1>3 DEF InsertSegment, InsertThrows
<1>4. CASE Respond(q) \/ RequestDies(q)
  BY <1>4 DEF Respond, RequestDies
<1> QED
  BY <1>1, <1>2, <1>3, <1>4 DEF ReadStep

LEMMA AnswersStored ==
  ASSUME TypeOK, AnswerIsStored, [Next]_vars
  PROVE  AnswerIsStored'
<1>1. Written
  BY NextFreezes
<1>2. \A p \in Requests : req[p] # None =>
        req[p].rec \in Recordings /\ req[p].seq \in Seqs /\ req[p].body \in Bodies
  BY DEF TypeOK, Uploads
<1>3. ASSUME NEW p \in Requests, req'[p] = req[p],
             req'[p] # None, req'[p].answer = "ok"
      PROVE  At(p, "answered")' /\ RowOf(p)' = req'[p].body
  BY <1>1, <1>2, <1>3, BodiesAssumption DEF AnswerIsStored, Written, RowOf, At
<1>4. ASSUME NEW q \in Requests, ReadStep(q) \/ InsertSegment(q) \/ InsertThrows(q)
      PROVE  AnswerIsStored'
  <2>1. ASSUME NEW r \in Recordings, NEW s \in Seqs, NEW b \in Bodies, PutSegment(q, r, s, b)
        PROVE  AnswerIsStored'
    <3>1. \A p \in Requests : p # q => req'[p] = req[p]
      BY <2>1 DEF TypeOK, PutSegment
    <3>2. req'[q].answer # "ok"
      BY <2>1 DEF TypeOK, PutSegment
    <3> QED
      BY <3>1, <3>2, <1>3 DEF AnswerIsStored
  <2>2. CASE req' = [req EXCEPT ![q] = None]
    <3>1. \A p \in Requests : p # q => req'[p] = req[p]
      BY <2>2 DEF TypeOK
    <3>2. req'[q] = None
      BY <2>2 DEF TypeOK
    <3> QED
      BY <3>1, <3>2, <1>3 DEF AnswerIsStored
  <2>3. CASE req[q] # None /\ Reply(q, "ok") /\ (Acknowledge(q) = "ok" \/ InsertSegment(q))
    <3>1. \A p \in Requests : p # q => req'[p] = req[p]
      BY <2>3, MovedTo
    <3>2. /\ req'[q].at = "answered" /\ req'[q].rec = req[q].rec
          /\ req'[q].seq = req[q].seq /\ req'[q].body = req[q].body
      <4>1. req'[q].at = "answered"
        BY <2>3, MovedTo
      <4>2. req[q] \in Uploads
        BY <2>3 DEF TypeOK
      <4> QED
        BY <2>3, <4>1, <4>2 DEF TypeOK, Reply, Uploads
    <3>3. stored'[req[q].rec][req[q].seq] = req[q].body
      <4>1. CASE Acknowledge(q) = "ok"
        BY <4>1, <1>1, <1>2, <2>3, BodiesAssumption DEF Acknowledge, RowOf, Written
      <4>2. CASE InsertSegment(q)
        BY <4>2, <1>2, <2>3 DEF InsertSegment, WriteSegment, TypeOK
      <4> QED
        BY <4>1, <4>2, <2>3
    <3>4. req'[q] # None
      <4>1. req'[q] \in Uploads
        <5>1. req[q] \in Uploads
          BY <2>3 DEF TypeOK
        <5> QED
          BY <2>3, <5>1 DEF TypeOK, Uploads, Reply, Steps, Answers
      <4> QED
        BY <4>1, NoneAssumption
    <3> QED
      BY <3>1, <3>2, <3>3, <3>4, <1>3 DEF AnswerIsStored, At, RowOf
  <2>4. CASE req[q] # None /\ (Reply(q, "conflict") \/ \E a \in Answers \ {"ok"} : Discard(q, a))
    <3>1. \A p \in Requests : p # q => req'[p] = req[p]
      BY <2>4, MovedTo
    <3>2. req'[q].answer # "ok"
      BY <2>4, MovedTo
    <3> QED
      BY <3>1, <3>2, <1>3 DEF AnswerIsStored
  <2>5. CASE req[q] # None /\ \E step \in Steps : GoTo(q, step) /\ ~At(q, "answered")
    <3>1. \A p \in Requests : p # q => req'[p] = req[p]
      BY <2>5, MovedTo
    <3>2. req'[q].answer = req[q].answer
      BY <2>5, MovedTo
    <3>3. req[q].answer # "ok"
      BY <2>5 DEF AnswerIsStored
    <3> QED
      BY <3>1, <3>2, <3>3, <1>3 DEF AnswerIsStored
  <2> QED
    BY <1>4, <2>1, <2>2, <2>3, <2>4, <2>5, StepMoves
<1>5. CASE UNCHANGED req
  BY <1>5, <1>3 DEF AnswerIsStored
<1>6. OtherStep => (\E q \in Requests : InsertSegment(q) \/ InsertThrows(q)) \/ UNCHANGED req
  BY DEF OtherStep, CreateRecording, GoesIdle, CloseRecording, RepeatClose, Sweep, rows
<1> QED
  BY <1>4, <1>5, <1>6, NextSplit DEF vars

\* Acknowledged bytes stay the bytes of the row.
LEMMA AcksStored ==
  ASSUME TypeOK, AnswerIsStored, AckedIsStored, [Next]_vars
  PROVE  AckedIsStored'
<1>1. Written
  BY NextFreezes
<1>2. acked' = acked \/ \E q \in Requests : Respond(q)
  BY DEF Next, UploadStep, vars, PutSegment, FindSegment, PutBlob, InsertRefused, InsertSegment,
     InsertLoses, InsertThrows, FindWinner, LookupRow, DeleteBlob, RequestDies,
     CreateRecording, GoesIdle, CloseRecording, RepeatClose, Sweep
<1>3. \A k \in acked : k[1] \in Recordings /\ k[2] \in Seqs /\ k[3] \in Bodies
  BY DEF TypeOK, Keys
<1>4. \A k \in acked : stored'[k[1]][k[2]] = k[3]
  BY <1>1, <1>3, BodiesAssumption DEF AckedIsStored, Written
<1>5. ASSUME NEW q \in Requests, Respond(q), req[q].answer = "ok"
      PROVE  stored'[KeyOf(q)[1]][KeyOf(q)[2]] = KeyOf(q)[3]
  BY <1>5 DEF AnswerIsStored, Respond, At, KeyOf, RowOf, rows
<1>6. ASSUME NEW q \in Requests, Respond(q)
      PROVE  AckedIsStored'
  BY <1>4, <1>5, <1>6 DEF AckedIsStored, Respond
<1> QED
  BY <1>2, <1>4, <1>6 DEF AckedIsStored

\* A complete recording stays whole, and a close completes only a whole one.
LEMMA WholeKept ==
  ASSUME TypeOK, CompleteIsWhole, [Next]_vars
  PROVE  CompleteIsWhole'
<1>1. Frozen
  BY NextFreezes
<1>2. ASSUME NEW r \in Recordings, status'[r] = "complete", status[r] # "complete"
      PROVE  \E m \in Sent : CloseRecording(r, m)
  <2>1. ~ \E q \in Requests : ReadStep(q)
    BY <1>2, ReadStepRows
  <2>2. OtherStep
    BY <1>2, <2>1, NextSplit DEF vars, rows
  <2>3. ~ \E q \in Requests : InsertSegment(q) \/ InsertThrows(q)
    BY <1>2 DEF InsertSegment, InsertThrows, WriteSegment, rows
  <2>4. ~Sweep
    BY <1>2 DEF TypeOK, Sweep
  <2>5. \A t \in Recordings :
          (CreateRecording(t) \/ GoesIdle(t) \/ \E m \in Sent : RepeatClose(t, m)) => FALSE
    BY <1>2 DEF TypeOK, CreateRecording, GoesIdle, RepeatClose, rows
  <2>6. PICK t \in Recordings, m \in Sent : CloseRecording(t, m)
    BY <2>2, <2>3, <2>4, <2>5 DEF OtherStep
  <2>7. t = r
    BY <1>2, <2>6 DEF TypeOK, CloseRecording
  <2> QED
    BY <2>6, <2>7
<1>3. ASSUME NEW r \in Recordings, NEW m \in Sent, CloseRecording(r, m)
      PROVE  (expected[r] \in Manifests /\ Whole(r, expected[r]))'
  <2>1. expected'[r] = m /\ m \in Manifests /\ UNCHANGED stored /\ Whole(r, m)
    BY <1>3, SentAreManifests DEF TypeOK, CloseRecording
  <2> QED
    BY <2>1 DEF Whole, Missing
<1>4. ASSUME NEW r \in Recordings, status[r] = "complete"
      PROVE  (expected[r] \in Manifests /\ Whole(r, expected[r]))'
  <2>1. expected'[r] = expected[r] /\ stored'[r] = stored[r]
    BY <1>1, <1>4 DEF Frozen
  <2>2. expected[r] \in Manifests /\ Whole(r, expected[r])
    BY <1>4 DEF CompleteIsWhole
  <2> QED
    BY <2>1, <2>2 DEF Whole, Missing
<1> QED
  BY <1>2, <1>3, <1>4 DEF CompleteIsWhole

LEMMA GrantsKept ==
  ASSUME TypeOK, GrantedMatches, [Next]_vars
  PROVE  GrantedMatches'
<1>1. Frozen
  BY NextFreezes
<1>2. \A g \in granted : g[1] \in Recordings
  BY DEF TypeOK
<1>3. \A g \in granted : status'[g[1]] = "complete" /\ expected'[g[1]] = g[2]
  BY <1>1, <1>2 DEF GrantedMatches, Frozen
<1>4. ASSUME NEW r \in Recordings, NEW m \in Sent, CloseRecording(r, m) \/ RepeatClose(r, m)
      PROVE  GrantedMatches'
  <2>1. status'[r] = "complete" /\ expected'[r] = m /\ granted' = granted \cup {<<r, m>>}
    BY <1>4 DEF TypeOK, CloseRecording, RepeatClose, SameManifest, Grant, rows
  <2> QED
    BY <2>1, <1>3 DEF GrantedMatches
<1>5. \/ granted' = granted
      \/ \E r \in Recordings, m \in Sent : CloseRecording(r, m) \/ RepeatClose(r, m)
  <2>1. ASSUME NEW q \in Requests, ReadStep(q) PROVE granted' = granted
    BY <2>1, ReadStepRows
  <2>2. ASSUME OtherStep
        PROVE  \/ granted' = granted
               \/ \E r \in Recordings, m \in Sent : CloseRecording(r, m) \/ RepeatClose(r, m)
    BY <2>2 DEF OtherStep, InsertSegment, InsertThrows, CreateRecording, GoesIdle, Sweep
  <2> QED
    BY <2>1, <2>2, NextSplit DEF vars
<1> QED
  BY <1>3, <1>4, <1>5 DEF GrantedMatches

LEMMA CallsKept ==
  ASSUME TypeOK, FinishedCallEnded, [Next]_vars
  PROVE  FinishedCallEnded'
<1>1. ASSUME NEW q \in Requests, ReadStep(q)
      PROVE  FinishedCallEnded'
  BY <1>1, ReadStepRows DEF FinishedCallEnded
<1>2. ASSUME NEW q \in Requests, InsertSegment(q) \/ InsertThrows(q)
      PROVE  FinishedCallEnded'
  BY <1>2 DEF FinishedCallEnded, InsertSegment, InsertThrows, WriteSegment, rows
<1>3. ASSUME NEW r \in Recordings, CreateRecording(r) \/ GoesIdle(r)
      PROVE  FinishedCallEnded'
  BY <1>3 DEF TypeOK, FinishedCallEnded, CreateRecording, GoesIdle
<1>4. ASSUME NEW r \in Recordings, NEW m \in Sent, CloseRecording(r, m) \/ RepeatClose(r, m)
      PROVE  FinishedCallEnded'
  BY <1>4 DEF TypeOK, FinishedCallEnded, CloseRecording, RepeatClose, rows
<1>5. CASE Sweep
  BY <1>5 DEF TypeOK, FinishedCallEnded, Sweep, EndsCall
<1>6. CASE UNCHANGED vars
  BY <1>6 DEF FinishedCallEnded, vars, rows
<1> QED
  BY <1>1, <1>2, <1>3, <1>4, <1>5, <1>6, NextSplit DEF OtherStep

-----------------------------------------------------------------------------
LEMMA InitIInv == Init => IInv
<1> SUFFICES ASSUME Init PROVE IInv
  OBVIOUS
<1>1. TypeOK
  BY MaxErrorsAssumption DEF Init, TypeOK, Statuses
<1> QED
  BY <1>1 DEF Init, IInv, AckedIsStored, AnswerIsStored, CompleteIsWhole, GrantedMatches,
     FinishedCallEnded

\* The inductive invariant: answers, manifests and rows agree.
THEOREM Inductive == Spec => []IInv
<1>1. Init => IInv
  BY InitIInv
<1>2. IInv /\ [Next]_vars => IInv'
  BY NextTypes, AnswersStored, AcksStored, WholeKept, GrantsKept, CallsKept DEF IInv
<1> QED
  BY <1>1, <1>2, PTL DEF Spec

\* Type correctness of the rows, the blobs and the requests.
THEOREM TypeCorrect == Spec => []TypeOK
<1>1. IInv => TypeOK
  BY DEF IInv
<1> QED
  BY <1>1, Inductive, PTL

\* An acknowledged segment is the stored one, whatever uploads race for it and
\* whatever inserts throw.
THEOREM AcksAreTrue == Spec => []AckedIsStored
<1>1. IInv => AckedIsStored
  BY DEF IInv
<1> QED
  BY <1>1, Inductive, PTL

\* The answer that lets the extension delete its audio stands for good.
THEOREM GrantsAreWhole == Spec => []GrantedIsWhole
<1>1. ASSUME IInv
      PROVE  GrantedIsWhole
  <2> SUFFICES ASSUME NEW g \in granted
               PROVE  /\ status[g[1]] = "complete" /\ expected[g[1]] = g[2]
                      /\ \A s \in Below(g[2].segments) : stored[g[1]][s] # None
                      /\ StoredBytes(stored[g[1]], g[2].segments) = g[2].bytes
    BY DEF GrantedIsWhole
  <2>1. g[1] \in Recordings
    BY <1>1 DEF IInv, TypeOK
  <2>2. status[g[1]] = "complete" /\ expected[g[1]] = g[2]
    BY <1>1 DEF IInv, GrantedMatches
  <2>3. Whole(g[1], g[2])
    BY <1>1, <2>1, <2>2 DEF IInv, CompleteIsWhole
  <2> QED
    BY <2>2, <2>3 DEF Whole, Missing
<1> QED
  BY <1>1, Inductive, PTL

\* A recording that left `open` has its call ended.
THEOREM FinishedCallsEnd == Spec => []FinishedCallEnded
<1>1. IInv => FinishedCallEnded
  BY DEF IInv
<1> QED
  BY <1>1, Inductive, PTL

\* `complete` is final: the row lock and the status conditions serialize the
\* uploads, the closes and the sweep.
THEOREM CompleteStaysFrozen == Spec => CompleteIsFrozen
<1>1. TypeOK /\ [Next]_vars => [Frozen]_vars
  BY NextFreezes
<1> QED
  BY <1>1, TypeCorrect, PTL DEF Spec, CompleteIsFrozen, Frozen

-----------------------------------------------------------------------------
(* Rows and blobs, when no insert transaction throws.                      *)

\* No insert of this request's seq will succeed any more.
Decided(q) == status[req[q].rec] = "complete" \/ RowOf(q) # None

\* What a request knows of its blob: it is there when the row is inserted, and
\* it is deleted only if no row names it and none will.
BlobKnown(q) ==
  /\ At(q, "insert") => KeyOf(q) \in blobs \/ Decided(q)
  /\ At(q, "winner") \/ At(q, "lookup") => Decided(q)
  /\ At(q, "delete") => Decided(q) /\ RowOf(q) # req[q].body

BlobInv == RowsHaveBlobs /\ \A q \in Requests : BlobKnown(q)

LEMMA RequestFields ==
  ASSUME TypeOK, NEW q \in Requests, req[q] # None
  PROVE  req[q].rec \in Recordings /\ req[q].seq \in Seqs /\ req[q].body \in Bodies
  BY DEF TypeOK, Uploads

LEMMA DecidedStays ==
  ASSUME TypeOK, [Next]_vars, NEW q \in Requests, req[q] # None, Decided(q),
         req'[q].rec = req[q].rec, req'[q].seq = req[q].seq, req'[q].body = req[q].body
  PROVE  Decided(q)' /\ (RowOf(q) # req[q].body => RowOf(q)' # req'[q].body)
<1>1. Frozen /\ Written
  BY NextFreezes
<1> QED
  BY <1>1, RequestFields DEF Frozen, Written, Decided, RowOf

\* A request that does not move keeps what it knows, unless its blob goes.
LEMMA UnmovedKnows ==
  ASSUME TypeOK, [Next]_vars, BlobInv, NEW q \in Requests, req'[q] = req[q],
         blobs \subseteq blobs' \/ (At(q, "insert") => KeyOf(q) \in blobs' \/ Decided(q))
  PROVE  BlobKnown(q)'
<1>1. BlobKnown(q)
  BY DEF BlobInv
<1>2. CASE req[q] = None
  BY <1>2 DEF BlobKnown, At
<1>3. CASE req[q] # None /\ Decided(q)
  <2>1. Decided(q)' /\ (RowOf(q) # req[q].body => RowOf(q)' # req'[q].body)
    BY <1>3, DecidedStays
  <2> QED
    BY <1>1, <2>1 DEF BlobKnown, At
<1>4. CASE req[q] # None /\ ~Decided(q)
  <2>1. At(q, "insert") => KeyOf(q) \in blobs'
    BY <1>1, <1>4 DEF BlobKnown
  <2> QED
    BY <1>1, <1>4, <2>1 DEF BlobKnown, At, KeyOf
<1> QED
  BY <1>2, <1>3, <1>4

LEMMA ReadStepBlobs ==
  ASSUME TypeOK, [Next]_vars, BlobInv, NEW q \in Requests, ReadStep(q), ~DeleteBlob(q)
  PROVE  BlobInv'
<1>1. UNCHANGED stored /\ UNCHANGED status
  BY ReadStepRows
<1>2. blobs \subseteq blobs'
  BY DEF ReadStep, PutSegment, FindSegment, PutBlob, InsertRefused, InsertLoses, FindWinner,
     LookupRow, Respond, RequestDies
<1>3. RowsHaveBlobs'
  BY <1>1, <1>2 DEF BlobInv, RowsHaveBlobs
<1>4. \A p \in Requests : p # q => req'[p] = req[p]
  BY StepMoves, MovedTo DEF TypeOK, PutSegment
<1>5. \A p \in Requests : p # q => BlobKnown(p)'
  BY <1>2, <1>4, UnmovedKnows
<1>6. BlobKnown(q)'
  <2>1. ASSUME NEW r \in Recordings, NEW s \in Seqs, NEW b \in Bodies, PutSegment(q, r, s, b)
        PROVE  BlobKnown(q)'
    BY <2>1 DEF TypeOK, PutSegment, BlobKnown, At
  <2>2. CASE Respond(q) \/ RequestDies(q)
    <3>1. req'[q] = None
      BY <2>2 DEF TypeOK, Respond, RequestDies
    <3> QED
      BY <3>1 DEF BlobKnown, At
  <2>3. ASSUME req[q] # None, NEW step, GoTo(q, step),
               step = "insert" => KeyOf(q) \in blobs',
               step \in {"winner", "lookup"} => Decided(q),
               step = "delete" => Decided(q) /\ RowOf(q) # req[q].body
        PROVE  BlobKnown(q)'
    <3>1. req'[q] = [req[q] EXCEPT !.at = step] /\ req[q] \in Uploads
      BY <2>3 DEF TypeOK, GoTo
    <3>2. /\ req'[q].at = step /\ req'[q].rec = req[q].rec
          /\ req'[q].seq = req[q].seq /\ req'[q].body = req[q].body
      BY <3>1 DEF Uploads
    <3> QED
      BY <2>3, <3>2, <1>1 DEF BlobKnown, At, KeyOf, RowOf, Decided
  <2>4. ASSUME req[q] # None, NEW answer, Discard(q, answer), Decided(q)
        PROVE  BlobKnown(q)'
    <3>1. req[q] \in Uploads
      BY <2>4 DEF TypeOK
    <3>2. /\ req'[q].at = "lookup" /\ req'[q].rec = req[q].rec
          /\ req'[q].seq = req[q].seq /\ req'[q].body = req[q].body
      BY <2>4, <3>1 DEF TypeOK, Discard, Uploads
    <3> QED
      BY <2>4, <3>2, <1>1 DEF BlobKnown, At, RowOf, Decided
  <2>5. ASSUME req[q] # None, NEW answer, Reply(q, answer)
        PROVE  BlobKnown(q)'
    <3>1. req'[q].at = "answered"
      BY <2>5, MovedTo
    <3> QED
      BY <3>1 DEF BlobKnown, At
  <2>6. CASE FindSegment(q)
    BY <2>6, <2>3, <2>5 DEF FindSegment, At
  <2>7. CASE PutBlob(q)
    BY <2>7, <2>3 DEF PutBlob, At
  <2>8. CASE InsertRefused(q)
    BY <2>8, <2>4 DEF InsertRefused, At, MayInsert, Decided
  <2>9. CASE InsertLoses(q)
    BY <2>9, <2>3 DEF InsertLoses, At, Decided
  <2>10. CASE FindWinner(q)
    <3>1. Decided(q) /\ req[q] # None
      BY <2>10 DEF BlobInv, BlobKnown, FindWinner, At
    <3> QED
      BY <2>10, <3>1, <2>4, <2>5 DEF FindWinner
  <2>11. CASE LookupRow(q)
    <3>1. Decided(q) /\ req[q] # None
      BY <2>11 DEF BlobInv, BlobKnown, LookupRow, At
    <3> QED
      BY <2>11, <3>1, <2>3 DEF LookupRow, Referenced
  <2> QED
    BY <2>1, <2>2, <2>6, <2>7, <2>8, <2>9, <2>10, <2>11 DEF ReadStep
<1> QED
  BY <1>3, <1>5, <1>6 DEF BlobInv

LEMMA DeleteBlobs ==
  ASSUME TypeOK, [Next]_vars, BlobInv, NEW q \in Requests, DeleteBlob(q)
  PROVE  BlobInv'
<1>1. /\ req[q] # None /\ Decided(q) /\ RowOf(q) # req[q].body
      /\ UNCHANGED stored /\ blobs' = blobs \ {KeyOf(q)} /\ GoTo(q, "answered")
  BY DEF BlobInv, BlobKnown, DeleteBlob, At, rows
<1>2. RowsHaveBlobs'
  BY <1>1 DEF BlobInv, RowsHaveBlobs, RowOf, KeyOf
<1>3. ASSUME NEW p \in Requests, p # q
      PROVE  BlobKnown(p)'
  <2>1. req'[p] = req[p]
    BY <1>1, <1>3, MovedTo
  <2>2. ASSUME At(p, "insert"), KeyOf(p) \notin blobs'
        PROVE  Decided(p)
    <3>1. CASE KeyOf(p) = KeyOf(q)
      BY <1>1, <3>1 DEF KeyOf, Decided, RowOf
    <3>2. CASE KeyOf(p) # KeyOf(q)
      BY <1>1, <2>2, <3>2 DEF BlobInv, BlobKnown
    <3> QED
      BY <3>1, <3>2
  <2> QED
    BY <2>1, <2>2, UnmovedKnows
<1>4. BlobKnown(q)'
  <2>1. req'[q].at = "answered"
    BY <1>1, MovedTo
  <2> QED
    BY <2>1 DEF BlobKnown, At
<1> QED
  BY <1>2, <1>3, <1>4 DEF BlobInv

LEMMA InsertBlobs ==
  ASSUME TypeOK, [Next]_vars, BlobInv, NEW q \in Requests, InsertSegment(q)
  PROVE  BlobInv'
<1>1. /\ At(q, "insert") /\ req[q] # None /\ Reply(q, "ok") /\ UNCHANGED blobs
      /\ status[req[q].rec] # "complete" /\ RowOf(q) = None
      /\ stored' = [stored EXCEPT ![req[q].rec][req[q].seq] = req[q].body]
  BY DEF InsertSegment, WriteSegment, MayInsert, At
<1>2. KeyOf(q) \in blobs
  BY <1>1 DEF BlobInv, BlobKnown, Decided
<1>3. RowsHaveBlobs'
  <2> SUFFICES ASSUME NEW r \in Recordings, NEW s \in Seqs, stored'[r][s] # None
               PROVE  <<r, s, stored'[r][s]>> \in blobs
    BY <1>1 DEF RowsHaveBlobs
  <2>1. CASE r = req[q].rec /\ s = req[q].seq
    BY <1>1, <1>2, <2>1 DEF TypeOK, KeyOf
  <2>2. CASE ~(r = req[q].rec /\ s = req[q].seq)
    <3>1. stored'[r][s] = stored[r][s]
      BY <1>1, <2>2 DEF TypeOK
    <3> QED
      BY <3>1 DEF BlobInv, RowsHaveBlobs
  <2> QED
    BY <2>1, <2>2
<1>4. \A p \in Requests : p # q => BlobKnown(p)'
  BY <1>1, MovedTo, UnmovedKnows
<1>5. BlobKnown(q)'
  <2>1. req'[q].at = "answered"
    BY <1>1, MovedTo
  <2> QED
    BY <2>1 DEF BlobKnown, At
<1> QED
  BY <1>3, <1>4, <1>5 DEF BlobInv

\* Only a throwing insert counts an error.
LEMMA ErrorsCount ==
  ASSUME TypeOK, [Next]_vars, errors' = 0
  PROVE  errors = 0 /\ \A q \in Requests : ~InsertThrows(q)
<1>1. errors \in Nat
  BY MaxErrorsAssumption DEF TypeOK
<1>2. ASSUME NEW q \in Requests PROVE ~InsertThrows(q)
  BY <1>1 DEF InsertThrows
<1>3. UNCHANGED errors
  BY <1>2, NextSplit DEF ReadStep, OtherStep, PutSegment, FindSegment, PutBlob, InsertRefused,
     InsertLoses, FindWinner, LookupRow, DeleteBlob, Respond, RequestDies, InsertSegment,
     CreateRecording, GoesIdle, CloseRecording, RepeatClose, Sweep, vars
<1> QED
  BY <1>2, <1>3

LEMMA BlobsKept ==
  ASSUME TypeOK, errors = 0 => BlobInv, [Next]_vars, errors' = 0
  PROVE  BlobInv'
<1>1. BlobInv /\ \A q \in Requests : ~InsertThrows(q)
  BY ErrorsCount
<1>2. ASSUME UNCHANGED <<stored, blobs, req>>
      PROVE  BlobInv'
  BY <1>1, <1>2, UnmovedKnows DEF BlobInv, RowsHaveBlobs
<1>3. \/ \E q \in Requests : ReadStep(q) \/ InsertSegment(q)
      \/ UNCHANGED <<stored, blobs, req>>
  BY <1>1, NextSplit DEF OtherStep, CreateRecording, GoesIdle, CloseRecording, RepeatClose,
     Sweep, vars, rows
<1> QED
  BY <1>1, <1>2, <1>3, ReadStepBlobs, DeleteBlobs, InsertBlobs

\* Until an insert transaction throws, no row points at a missing blob: the order
\* blob first, row second, and the lookup before a delete suffice.
THEOREM BlobsAreKept == Spec => []BlobsSurviveRaces
<1> DEFINE Kept == errors = 0 => BlobInv
<1>1. Init => Kept
  BY DEF Init, BlobInv, RowsHaveBlobs, BlobKnown, At
<1>2. TypeOK /\ Kept /\ [Next]_vars => Kept'
  BY BlobsKept
<1>3. Kept => BlobsSurviveRaces
  BY DEF BlobInv, BlobsSurviveRaces
<1> HIDE DEF Kept
<1> QED
  BY <1>1, <1>2, <1>3, TypeCorrect, PTL DEF Spec

\* Both answers of the server are true and stay true.
THEOREM AnswersStayTrue == Spec => []AnswersAreTrue
<1>1. AckedIsStored /\ GrantedIsWhole => AnswersAreTrue
  BY DEF AnswersAreTrue
<1> QED
  BY <1>1, AcksAreTrue, GrantsAreWhole, PTL


-----------------------------------------------------------------------------
(* ExtensionSession.                                                           *)

\* The session of these tokens exists, under one of the browser's ids.
Holds(table, creds, i) ==
  creds # SignedOut =>
    /\ creds.session \in DOMAIN table
    /\ BrowserOf[table[creds.session].installation] = i

\* The browser has consumed the handoff, under one of its ids.
Has(hs, h, i) ==
  hs[h].session # 0 /\ hs[h].installation \in Claims /\ BrowserOf[hs[h].installation] = i

\* A refresh that has no answer yet presents a token.
AsksWithToken == \A r \in refreshes : r.at # "answer" => r.creds # SignedOut

Opened == Credentials \cup {SignedOut}

-----------------------------------------------------------------------------
\* Tokens that are overtaken stay those of their session.
LEMMA OvertakeKeeps ==
  ASSUME NEW creds \in Opened, NEW s \in Nat \ {0}
  PROVE  /\ Overtake(s, creds) \in Opened
         /\ Overtake(s, creds).session = creds.session
         /\ Overtake(s, creds) = SignedOut <=> creds = SignedOut
         /\ creds \in Credentials <=> creds # SignedOut
         /\ creds \in Credentials => Overtake(s, creds) \in Credentials
         /\ creds.session # s => Overtake(s, creds) = creds
<1>1. CASE creds = SignedOut
  BY <1>1 DEF Opened, Overtake, SignedOut, Credentials
<1>2. CASE creds \in Credentials
  <2>1. creds.session \in Nat \ {0} /\ creds # SignedOut
    BY <1>2 DEF Credentials, SignedOut
  <2>2. Overtake(s, creds) \in Credentials /\ Overtake(s, creds).session = creds.session
    BY <1>2 DEF Credentials, Overtake
  <2>3. Overtake(s, creds) # SignedOut
    BY <2>2 DEF Credentials, SignedOut
  <2>4. creds.session # s => Overtake(s, creds) = creds
    BY DEF Overtake
  <2> QED
    BY <1>2, <2>1, <2>2, <2>3, <2>4 DEF Opened
<1> QED
  BY <1>1, <1>2 DEF Opened

LEMMA FreshTypes ==
  ASSUME NEW s \in Nat \ {0}
  PROVE  /\ Fresh(s) \in Credentials /\ Fresh(s) \in Opened
         /\ Fresh(s).session = s /\ Fresh(s).current /\ Fresh(s) # SignedOut
BY DEF Fresh, Credentials, Opened, SignedOut

\* Revoking changes nothing of a row but its mark.
LEMMA RevokedRows ==
  ASSUME NEW table \in Seq(Session), NEW revoke
  PROVE  /\ Revoked(table, revoke) \in Seq(Session)
         /\ Len(Revoked(table, revoke)) = Len(table)
         /\ DOMAIN Revoked(table, revoke) = DOMAIN table
         /\ \A s \in DOMAIN table :
               /\ Revoked(table, revoke)[s].login = table[s].login
               /\ Revoked(table, revoke)[s].installation = table[s].installation
               /\ Revoked(table, revoke)[s].revoked = (table[s].revoked \/ s \in revoke)
<1> DEFINE new == Revoked(table, revoke)
<1>1. DOMAIN table = 1 .. Len(table) /\ Len(table) \in Nat
  OBVIOUS
<1>2. DOMAIN new = DOMAIN table
  BY DEF Revoked
<1>3. ASSUME NEW s \in DOMAIN table
      PROVE  /\ new[s] \in Session
             /\ new[s].login = table[s].login
             /\ new[s].installation = table[s].installation
             /\ new[s].revoked = (table[s].revoked \/ s \in revoke)
  <2>1. table[s] \in Session
    BY <1>1
  <2>2. new[s] = IF s \in revoke THEN [table[s] EXCEPT !.revoked = TRUE] ELSE table[s]
    BY DEF Revoked
  <2>3. CASE s \in revoke
    <3>1. new[s] = [table[s] EXCEPT !.revoked = TRUE]
      BY <2>2, <2>3
    <3>2. new[s].revoked = TRUE /\ new[s].login = table[s].login
          /\ new[s].installation = table[s].installation /\ new[s] \in Session
      BY <3>1, <2>1 DEF Session
    <3> QED
      BY <3>2, <2>3
  <2>4. CASE s \notin revoke
    <3>1. new[s] = table[s] /\ table[s].revoked \in BOOLEAN
      BY <2>2, <2>4, <2>1 DEF Session
    <3>2. table[s].revoked = (table[s].revoked \/ s \in revoke)
      BY <2>4, <3>1
    <3> QED
      BY <3>1, <3>2, <2>1
  <2> QED
    BY <2>3, <2>4
<1>4. \E n \in Nat : DOMAIN new = 1 .. n
  BY <1>1, <1>2
<1>5. new = [s \in DOMAIN new |-> new[s]]
  BY DEF Revoked
<1>6. new \in [1 .. Len(table) -> Session]
  BY <1>1, <1>2, <1>3, <1>5
<1>7. new \in Seq(Session) /\ Len(new) = Len(table)
  BY <1>6, <1>1
<1> HIDE DEF new
<1> QED
  BY <1>2, <1>3, <1>7 DEF new


-----------------------------------------------------------------------------
(* The records in flight.                                                      *)

LEMMA ClaimFields ==
  ASSUME NEW x \in Claim \cup {Idle, Done}
  PROVE  /\ x \in Claim <=> x \notin {Idle, Done}
         /\ x \in Claim <=> x.at \in {"read", "write", "commit", "answer", "store"}
         /\ x.at = "idle" <=> x = Idle
BY DEF Claim, Idle, Done

LEMMA PassFields ==
  ASSUME NEW x \in Pass \cup {Idle}
  PROVE  x \in Pass <=> x # Idle
BY DEF Pass, Idle

LEMMA AskedFields ==
  ASSUME NEW r \in Refresh, NEW s \in Nat \ {0}
  PROVE  /\ Asked(s, r) \in Refresh
         /\ Asked(s, r).at = r.at
         /\ Asked(s, r).browser = r.browser /\ Asked(s, r).installation = r.installation
         /\ Asked(s, r).awaited = r.awaited
         /\ Asked(s, r).creds = Overtake(s, r.creds)
<1>1. r.creds \in Opened
  BY DEF Refresh, Opened
<1>2. Overtake(s, r.creds) \in Opened
  BY <1>1, OvertakeKeeps
<1> QED
  BY <1>2 DEF Asked, Refresh, Opened

LEMMA ClaimingFields ==
  ASSUME NEW x \in Claim \cup {Idle, Done}, NEW s \in Nat \ {0}
  PROVE  /\ Claiming(s, x) \in Claim \cup {Idle, Done}
         /\ x \in {Idle, Done} => Claiming(s, x) = x
         /\ x \in Claim =>
              /\ Claiming(s, x) \in Claim
              /\ Claiming(s, x).at = x.at /\ Claiming(s, x).handoff = x.handoff
              /\ Claiming(s, x).heard = x.heard /\ Claiming(s, x).consume = x.consume
              /\ Claiming(s, x).session = x.session /\ Claiming(s, x).revoke = x.revoke
              /\ Claiming(s, x).installation = x.installation
              /\ Claiming(s, x).creds = Overtake(s, x.creds)
<1>1. CASE x \in {Idle, Done}
  BY <1>1, ClaimFields DEF Claiming
<1>2. CASE x \in Claim
  <2>1. Claiming(s, x) = [x EXCEPT !.creds = Overtake(s, @)]
    BY <1>2, ClaimFields DEF Claiming
  <2>2. x.creds \in Opened
    BY <1>2 DEF Claim, Opened
  <2>3. Overtake(s, x.creds) \in Opened
    BY <2>2, OvertakeKeeps
  <2>4. [x EXCEPT !.creds = Overtake(s, @)] = [x EXCEPT !.creds = Overtake(s, x.creds)]
    OBVIOUS
  <2> QED
    BY <1>2, <2>1, <2>3, <2>4, ClaimFields DEF Claim, Opened
<1> QED
  BY <1>1, <1>2

LEMMA AnsweredFields ==
  ASSUME NEW r \in Refresh, NEW creds \in Opened
  PROVE  \A q \in Answered(r, creds) :
            /\ q \in Refresh /\ q.at = "answer" /\ q.browser = r.browser
            /\ q.installation = r.installation
            /\ q.awaited = r.awaited /\ q.creds = creds /\ r.awaited
BY DEF Answered, Refresh, Opened

\* The tokens of one installation's storage and pass, after a rotation.
LEMMA RotatedStore ==
  ASSUME SessionTypeOK, NEW s \in Nat \ {0}, Rotate(s)
  PROVE  /\ store' \in [Browsers -> Credentials \cup {SignedOut}]
         /\ pass' \in [Browsers -> Pass \cup {Idle}]
         /\ ids' = ids
         /\ \A i \in Browsers :
               /\ store'[i] = Overtake(s, store[i])
               /\ pass[i] = Idle <=> pass'[i] = Idle
               /\ pass[i] # Idle => /\ pass'[i].at = pass[i].at
                                    /\ pass'[i].installation = pass[i].installation
                                    /\ pass'[i].creds = Overtake(s, pass[i].creds)
<1>1. ASSUME NEW i \in Browsers
      PROVE  store'[i] = Overtake(s, store[i]) /\ store'[i] \in Credentials \cup {SignedOut}
  <2>1. store[i] \in Opened
    BY DEF SessionTypeOK, Opened
  <2>2. store'[i] = Overtake(s, store[i])
    BY DEF Rotate
  <2> QED
    BY <2>1, <2>2, OvertakeKeeps DEF Opened
<1>2. ASSUME NEW i \in Browsers
      PROVE  /\ pass'[i] \in Pass \cup {Idle}
             /\ pass[i] = Idle <=> pass'[i] = Idle
             /\ pass[i] # Idle => /\ pass'[i].at = pass[i].at
                                  /\ pass'[i].installation = pass[i].installation
                                  /\ pass'[i].creds = Overtake(s, pass[i].creds)
  <2>1. pass'[i] = IF pass[i] = Idle THEN Idle
                   ELSE [pass[i] EXCEPT !.creds = Overtake(s, @)]
    BY DEF Rotate
  <2>2. CASE pass[i] = Idle
    BY <2>1, <2>2
  <2>3. CASE pass[i] # Idle
    <3>1. pass[i] \in Pass
      BY <2>3, PassFields DEF SessionTypeOK
    <3>2. pass[i].creds \in Credentials
      BY <3>1 DEF Pass
    <3>3. Overtake(s, pass[i].creds) \in Credentials
      BY <3>2, OvertakeKeeps DEF Opened
    <3>4. pass'[i] \in Pass /\ pass'[i].at = pass[i].at
          /\ pass'[i].installation = pass[i].installation
          /\ pass'[i].creds = Overtake(s, pass[i].creds)
      BY <2>1, <2>3, <3>1, <3>3 DEF Pass
    <3> QED
      BY <2>3, <3>4, PassFields
  <2> QED
    BY <2>2, <2>3
<1>3. store' \in [Browsers -> Credentials \cup {SignedOut}]
  BY <1>1 DEF Rotate
<1>4. pass' \in [Browsers -> Pass \cup {Idle}] /\ ids' = ids
  BY <1>2 DEF Rotate
<1> QED
  BY <1>1, <1>2, <1>3, <1>4


-----------------------------------------------------------------------------
(* What each step of a claim makes of it.                                      *)

\* Only claim c is another one than before.
Moves(c) ==
  /\ claims' \in [Claims -> Claim \cup {Idle, Done}]
  /\ \A d \in Claims \ {c} : claims'[d] = claims[d]

LEMMA ReplacedClaim ==
  ASSUME SessionTypeOK, NEW c \in Claims, NEW x \in Claim \cup {Idle, Done},
         claims' = [claims EXCEPT ![c] = x]
  PROVE  Moves(c) /\ claims'[c] = x
BY DEF SessionTypeOK, Moves

LEMMA BegunClaim ==
  ASSUME SessionTypeOK, NEW c \in Claims, BeginClaim(c)
  PROVE  /\ Moves(c) /\ claims'[c] \in Claim /\ claims'[c].at = "read"
         /\ claims'[c].heard /\ claims'[c].installation = Presented(c)
<1>1. PICK h \in HandoffsOf[c] :
        claims' = [claims EXCEPT ![c] =
                     [at |-> "read", handoff |-> h, installation |-> Presented(c),
                      heard |-> TRUE, consume |-> FALSE, session |-> 0, revoke |-> {},
                      creds |-> SignedOut]]
  BY DEF BeginClaim
<1> DEFINE x == [at |-> "read", handoff |-> h, installation |-> Presented(c),
                 heard |-> TRUE, consume |-> FALSE, session |-> 0, revoke |-> {},
                 creds |-> SignedOut]
<1>2. h \in Handoffs /\ Presented(c) \in Claims
  BY <1>1, SessionAssumption DEF Presented, SessionTypeOK
<1>3. x \in Claim
  BY <1>2 DEF Claim
<1>4. x.at = "read" /\ x.heard /\ x.installation = Presented(c)
  OBVIOUS
<1>5. claims' = [claims EXCEPT ![c] = x]
  BY <1>1
<1> HIDE DEF x
<1> QED
  BY <1>3, <1>4, <1>5, ReplacedClaim

\* A claim that leads to a handoff which some installation has, or consumes it.
LEMMA ReadClaim ==
  ASSUME SessionTypeOK, NEW c \in Claims, ClaimReads(c)
  PROVE  LET h == claims[c].handoff
             i == claims[c].installation
         IN  /\ Moves(c) /\ claims'[c] \in Claim /\ h \in Handoffs
             /\ claims'[c].at = "write" /\ claims'[c].handoff = h
             /\ claims'[c].heard = claims[c].heard
             /\ claims'[c].installation = i /\ i \in Claims
             /\ \/ /\ handoffs[h].session # 0 /\ handoffs[h].installation = i
                   /\ claims'[c].session = handoffs[h].session
                \/ /\ claims'[c].consume
                   /\ \/ claims'[c].session = 0
                      \/ /\ claims'[c].session \in DOMAIN sessions
                         /\ sessions[claims'[c].session].installation = i
<1> DEFINE h == claims[c].handoff
           i == claims[c].installation
<1>1. claims[c] \in Claim
  BY ClaimFields DEF ClaimReads, SessionTypeOK
<1>2. h \in Handoffs /\ handoffs[h].session \in Nat /\ i \in Claims
  BY <1>1 DEF Claim, SessionTypeOK, Handoff
<1>3. ASSUME NEW s \in Nat,
             claims' = [claims EXCEPT ![c].at = "write", ![c].session = s]
      PROVE  /\ Moves(c) /\ claims'[c] \in Claim /\ claims'[c].at = "write"
             /\ claims'[c].handoff = h /\ claims'[c].session = s
             /\ claims'[c].heard = claims[c].heard /\ claims'[c].installation = i
  <2> DEFINE x == [claims[c] EXCEPT !.at = "write", !.session = s]
  <2>1. claims' = [claims EXCEPT ![c] = x]
    BY <1>3 DEF SessionTypeOK
  <2>2. /\ x \in Claim /\ x.at = "write" /\ x.handoff = h /\ x.session = s
        /\ x.heard = claims[c].heard /\ x.installation = i
    BY <1>1 DEF Claim
  <2> HIDE DEF x
  <2> QED
    BY <2>1, <2>2, ReplacedClaim
<1>4. ASSUME NEW s \in Nat,
             claims' = [claims EXCEPT ![c].at = "write", ![c].session = s,
                                      ![c].consume = TRUE]
      PROVE  /\ Moves(c) /\ claims'[c] \in Claim /\ claims'[c].at = "write"
             /\ claims'[c].handoff = h /\ claims'[c].session = s
             /\ claims'[c].heard = claims[c].heard /\ claims'[c].consume
             /\ claims'[c].installation = i
  <2> DEFINE x == [claims[c] EXCEPT !.at = "write", !.session = s, !.consume = TRUE]
  <2>1. claims' = [claims EXCEPT ![c] = x]
    BY <1>4 DEF SessionTypeOK
  <2>2. /\ x \in Claim /\ x.at = "write" /\ x.handoff = h /\ x.session = s
        /\ x.heard = claims[c].heard /\ x.consume /\ x.installation = i
    BY <1>1 DEF Claim
  <2> HIDE DEF x
  <2> QED
    BY <2>1, <2>2, ReplacedClaim
<1>5. CASE /\ handoffs[h].session # 0
           /\ Continues(handoffs[h], i)
           /\ claims' = [claims EXCEPT ![c].at = "write", ![c].session = handoffs[h].session]
  <2>1. handoffs[h].installation = i
    BY <1>5 DEF Continues, SameInstallation
  <2> QED
    BY <1>2, <1>3, <1>5, <2>1
<1>6. ASSUME NEW s \in IF Reusable(handoffs[h].login, i) = {} THEN {0}
                                                         ELSE Reusable(handoffs[h].login, i),
             claims' = [claims EXCEPT ![c].at = "write", ![c].session = s,
                                      ![c].consume = TRUE]
      PROVE  /\ Moves(c) /\ claims'[c] \in Claim /\ claims'[c].at = "write"
             /\ claims'[c].handoff = h /\ claims'[c].consume
             /\ claims'[c].heard = claims[c].heard /\ claims'[c].installation = i
             /\ \/ claims'[c].session = 0
                \/ /\ claims'[c].session \in DOMAIN sessions
                   /\ sessions[claims'[c].session].installation = i
  <2>1. s = 0 \/ (s \in DOMAIN sessions /\ sessions[s].installation = i)
    BY <1>6 DEF Reusable
  <2>2. s \in Nat
    BY <2>1 DEF SessionTypeOK
  <2>3. /\ Moves(c) /\ claims'[c] \in Claim /\ claims'[c].at = "write"
        /\ claims'[c].handoff = h /\ claims'[c].session = s
        /\ claims'[c].heard = claims[c].heard /\ claims'[c].consume
        /\ claims'[c].installation = i
    BY <1>4, <1>6, <2>2
  <2> QED
    BY <2>1, <2>3
<1>7. \/ /\ handoffs[h].session # 0
         /\ Continues(handoffs[h], i)
         /\ claims' = [claims EXCEPT ![c].at = "write", ![c].session = handoffs[h].session]
      \/ \E s \in IF Reusable(handoffs[h].login, i) = {} THEN {0}
                                                      ELSE Reusable(handoffs[h].login, i) :
            claims' = [claims EXCEPT ![c].at = "write", ![c].session = s,
                                     ![c].consume = TRUE]
  BY DEF ClaimReads
<1> QED
  BY <1>2, <1>5, <1>6, <1>7

\* A transaction consumes a handoff that nobody has, and no other transaction
\* that is not committed does.
LEMMA WrittenClaim ==
  ASSUME SessionTypeOK, NEW c \in Claims, ClaimWrites(c)
  PROVE  LET h == claims[c].handoff
             i == claims[c].installation
         IN  /\ Moves(c) /\ claims[c] \in Claim /\ claims'[c] \in Claim /\ h \in Handoffs
             /\ claims'[c].at = "commit" /\ claims'[c].handoff = h
             /\ claims'[c].heard = claims[c].heard
             /\ claims'[c].installation = i /\ i \in Claims
             /\ claims'[c].revoke =
                  {o \in DOMAIN sessions \ {claims'[c].session} : ~sessions[o].revoked}
             /\ \/ /\ claims'[c].consume = claims[c].consume
                   /\ claims'[c].session = claims[c].session
                   /\ claims[c].consume => handoffs[h].session = 0
                \/ /\ ~claims'[c].consume /\ handoffs[h].installation = i
                   /\ handoffs[h].session # 0 /\ claims'[c].session = handoffs[h].session
             /\ \A d \in Claims \ {c} :
                  ~(claims[d].at = "commit" /\ claims[d].consume /\ claims[d].handoff = h)
<1> DEFINE h == claims[c].handoff
           i == claims[c].installation
<1>1. claims[c] \in Claim /\ claims[c].at = "write"
  BY ClaimFields DEF ClaimWrites, SessionTypeOK
<1>2. /\ h \in Handoffs /\ handoffs[h].session \in Nat
      /\ claims[c].session \in Nat /\ claims[c].consume \in BOOLEAN /\ i \in Claims
  BY <1>1 DEF Claim, SessionTypeOK, Handoff
<1>3. ASSUME NEW consume \in BOOLEAN, NEW s \in Nat, Write(c, consume, s)
      PROVE  /\ Moves(c) /\ claims'[c] \in Claim /\ claims'[c].at = "commit"
             /\ claims'[c].handoff = h /\ claims'[c].session = s
             /\ claims'[c].consume = consume /\ claims'[c].heard = claims[c].heard
             /\ claims'[c].installation = i
             /\ claims'[c].revoke = {o \in DOMAIN sessions \ {s} : ~sessions[o].revoked}
             /\ \A d \in Claims \ {c} :
                  ~(claims[d].at = "commit" /\ claims[d].consume /\ claims[d].handoff = h)
  <2> DEFINE others == {o \in DOMAIN sessions \ {s} : ~sessions[o].revoked}
             x == [claims[c] EXCEPT !.at = "commit", !.consume = consume,
                                    !.session = s, !.revoke = others]
  <2>1. claims' = [claims EXCEPT ![c].at = "commit", ![c].consume = consume,
                                 ![c].session = s, ![c].revoke = others]
    BY <1>3 DEF Write
  <2>2. claims' = [claims EXCEPT ![c] = x]
    BY <2>1 DEF SessionTypeOK
  <2>3. others \in SUBSET Nat
    BY DEF SessionTypeOK
  <2>4. /\ x \in Claim /\ x.at = "commit" /\ x.handoff = h /\ x.session = s
        /\ x.consume = consume /\ x.heard = claims[c].heard /\ x.revoke = others
        /\ x.installation = i
    BY <1>1, <2>3 DEF Claim
  <2>5. \A d \in Claims \ {c} :
           ~(claims[d].at = "commit" /\ claims[d].consume /\ claims[d].handoff = h)
    BY <1>3 DEF Write, Locked
  <2> HIDE DEF x
  <2> QED
    BY <2>2, <2>4, <2>5, ReplacedClaim
<1>4. CASE /\ ~claims[c].consume \/ Unconsumed(handoffs[h])
           /\ Write(c, claims[c].consume, claims[c].session)
  BY <1>1, <1>2, <1>3, <1>4 DEF Unconsumed
<1>5. CASE /\ ~(~claims[c].consume \/ Unconsumed(handoffs[h]))
           /\ Continues(handoffs[h], i) /\ Write(c, FALSE, handoffs[h].session)
  BY <1>1, <1>2, <1>3, <1>5 DEF Unconsumed, Continues, SameInstallation
<1> QED
  BY <1>4, <1>5 DEF ClaimWrites


\* The session a transaction ends with.
SessionOf(c) == IF claims[c].session = 0 THEN Len(sessions) + 1 ELSE claims[c].session

\* Sessions are added and revoked, and stay with their installation.
Grows(table, new) ==
  /\ DOMAIN table \subseteq DOMAIN new
  /\ \A s \in DOMAIN table :
        /\ new[s].installation = table[s].installation
        /\ table[s].revoked => new[s].revoked

LEMMA CommittedClaim ==
  ASSUME SessionTypeOK, NEW c \in Claims, ClaimCommits(c)
  PROVE  LET s == SessionOf(c)
             h == claims[c].handoff
             i == claims[c].installation
         IN  /\ s \in Nat \ {0} /\ Rotate(s) /\ h \in Handoffs /\ claims[c] \in Claim
             /\ i \in Claims
             /\ handoffs' = IF claims[c].consume
                            THEN [handoffs EXCEPT ![h].session = s, ![h].installation = i]
                            ELSE handoffs
             /\ claims' \in [Claims -> Claim \cup {Idle, Done}]
             /\ \A d \in Claims \ {c} : claims'[d] = Claiming(s, claims[d])
             /\ \/ claims'[c] = Done /\ ~claims[c].heard
                \/ /\ claims'[c] \in Claim /\ claims'[c].at = "answer"
                   /\ claims'[c].heard /\ claims'[c].handoff = h
                   /\ claims'[c].installation = i
                   /\ claims'[c].creds = Fresh(s)
             /\ refreshes' = {Asked(s, r) : r \in refreshes}
<1> DEFINE s == SessionOf(c)
           h == claims[c].handoff
           i == claims[c].installation
<1>1. claims[c] \in Claim /\ claims[c].at = "commit"
  BY ClaimFields DEF ClaimCommits, SessionTypeOK
<1>2. /\ h \in Handoffs /\ i \in Claims /\ claims[c].session \in Nat /\ claims[c].heard \in BOOLEAN
      /\ Len(sessions) \in Nat
  BY <1>1 DEF Claim, SessionTypeOK
<1>3. s \in Nat \ {0}
  BY <1>2 DEF SessionOf
<1>4. /\ Rotate(s) /\ refreshes' = {Asked(s, r) : r \in refreshes}
      /\ handoffs' = IF claims[c].consume
                     THEN [handoffs EXCEPT ![h].session = s, ![h].installation = i]
                     ELSE handoffs
      /\ claims' = [d \in Claims |->
           IF d # c THEN Claiming(s, claims[d])
           ELSE IF claims[c].heard
                THEN [claims[c] EXCEPT !.at = "answer", !.creds = Fresh(s)]
                ELSE Done]
  BY DEF ClaimCommits, SessionOf
<1> HIDE DEF s
<1>5. \A d \in Claims \ {c} :
         claims'[d] = Claiming(s, claims[d]) /\ claims'[d] \in Claim \cup {Idle, Done}
  BY <1>3, <1>4, ClaimingFields DEF SessionTypeOK
<1>6. \/ claims'[c] = Done /\ ~claims[c].heard
      \/ /\ claims'[c] \in Claim /\ claims'[c].at = "answer"
         /\ claims'[c].heard /\ claims'[c].handoff = h
         /\ claims'[c].installation = i
         /\ claims'[c].creds = Fresh(s)
  <2>1. CASE claims[c].heard
    <3>1. claims'[c] = [claims[c] EXCEPT !.at = "answer", !.creds = Fresh(s)]
      BY <1>4, <2>1
    <3>2. Fresh(s) \in Credentials
      BY <1>3, FreshTypes
    <3>3. claims'[c] \in Claim /\ claims'[c].at = "answer" /\ claims'[c].heard
          /\ claims'[c].handoff = h /\ claims'[c].creds = Fresh(s)
          /\ claims'[c].installation = i
      BY <3>1, <3>2, <1>1, <2>1 DEF Claim
    <3> QED
      BY <3>3
  <2>2. CASE ~claims[c].heard
    BY <1>4, <2>2
  <2> QED
    BY <2>1, <2>2, <1>2
<1>7. claims' \in [Claims -> Claim \cup {Idle, Done}]
  BY <1>4, <1>5, <1>6
<1> QED
  BY <1>1, <1>2, <1>3, <1>4, <1>5, <1>6, <1>7 DEF s

LEMMA CommittedSessions ==
  ASSUME SessionTypeOK, NEW c \in Claims, ClaimCommits(c)
  PROVE  LET s == SessionOf(c)
             new == claims[c].session = 0
         IN  /\ sessions' \in Seq(Session) /\ Grows(sessions, sessions')
             /\ DOMAIN sessions' = DOMAIN sessions \cup (IF new THEN {s} ELSE {})
             /\ \A o \in DOMAIN sessions :
                   sessions'[o].revoked = (sessions[o].revoked \/ o \in claims[c].revoke)
             /\ new => s \notin DOMAIN sessions
                       /\ sessions'[s].installation = claims[c].installation
<1> DEFINE s == SessionOf(c)
           rest == Revoked(sessions, claims[c].revoke)
           row == [login |-> handoffs[claims[c].handoff].login, revoked |-> FALSE,
                   installation |-> claims[c].installation]
<1>1. sessions \in Seq(Session) /\ Len(sessions) \in Nat
      /\ DOMAIN sessions = 1 .. Len(sessions)
  BY DEF SessionTypeOK
<1>2. claims[c] \in Claim
  BY ClaimFields DEF ClaimCommits, SessionTypeOK
<1>3. row \in Session
  BY <1>2, SessionAssumption DEF Claim, SessionTypeOK, Handoff, Session
<1>4. /\ rest \in Seq(Session) /\ Len(rest) = Len(sessions)
      /\ DOMAIN rest = DOMAIN sessions
      /\ \A o \in DOMAIN sessions :
            /\ rest[o].installation = sessions[o].installation
            /\ rest[o].revoked = (sessions[o].revoked \/ o \in claims[c].revoke)
  BY <1>1, RevokedRows
<1>5. sessions' = IF claims[c].session = 0 THEN Append(rest, row) ELSE rest
  BY DEF ClaimCommits
<1>6. row.installation = claims[c].installation
  OBVIOUS
<1> HIDE DEF rest, row
<1>7. CASE claims[c].session = 0
  <2>1. s = Len(rest) + 1
    BY <1>4, <1>7 DEF SessionOf
  <2>2. sessions' = Append(rest, row)
    BY <1>5, <1>7
  <2>3. /\ sessions' \in Seq(Session) /\ Len(sessions') = s
        /\ \A o \in 1 .. Len(rest) : sessions'[o] = rest[o]
        /\ sessions'[s] = row
    BY <1>3, <1>4, <2>1, <2>2
  <2>4. DOMAIN sessions' = DOMAIN sessions \cup {s} /\ s \notin DOMAIN sessions
    BY <1>1, <1>4, <2>1, <2>3
  <2>5. \A o \in DOMAIN sessions : sessions'[o] = rest[o]
    BY <1>1, <1>4, <2>3
  <2> HIDE DEF s
  <2> QED
    BY <1>4, <1>6, <1>7, <2>3, <2>4, <2>5 DEF Grows, s
<1>8. CASE claims[c].session # 0
  BY <1>4, <1>5, <1>8 DEF Grows
<1> QED
  BY <1>7, <1>8

LEMMA AnsweredClaim ==
  ASSUME SessionTypeOK, NEW c \in Claims, ClaimAnswered(c)
  PROVE  /\ Moves(c) /\ claims'[c] \in Claim /\ claims[c].handoff \in Handoffs
         /\ claims'[c].at = "store" /\ claims'[c].heard = claims[c].heard
         /\ claims'[c].handoff = claims[c].handoff /\ claims'[c].creds = claims[c].creds
         /\ claims'[c].installation = claims[c].installation
<1>1. claims[c] \in Claim
  BY ClaimFields DEF ClaimAnswered, SessionTypeOK
<1> DEFINE x == [claims[c] EXCEPT !.at = "store"]
<1>2. claims' = [claims EXCEPT ![c] = x]
  BY DEF ClaimAnswered, SessionTypeOK
<1>3. /\ x \in Claim /\ x.at = "store" /\ x.heard = claims[c].heard
      /\ x.handoff = claims[c].handoff /\ x.creds = claims[c].creds
      /\ x.installation = claims[c].installation
  BY <1>1 DEF Claim
<1>4. claims[c].handoff \in Handoffs
  BY <1>1 DEF Claim
<1> HIDE DEF x
<1> QED
  BY <1>2, <1>3, <1>4, ReplacedClaim

LEMMA EndedClaim ==
  ASSUME SessionTypeOK, NEW c \in Claims,
         ClaimFails(c) \/ ClaimRefused(c) \/ ClaimStored(c)
  PROVE  Moves(c) /\ claims'[c] = Done
BY ReplacedClaim DEF ClaimFails, ClaimRefused, ClaimStored

\* A claim that is lost goes on, and nobody hears its answer.
LEMMA LostClaim ==
  ASSUME SessionTypeOK, NEW c \in Claims, LoseClaim(c)
  PROVE  /\ Moves(c)
         /\ \/ claims'[c] = Done
            \/ /\ claims[c] \in Claim /\ claims'[c] \in Claim
               /\ claims[c].at \notin {"answer", "store"} /\ claims'[c].at = claims[c].at
               /\ claims'[c].handoff = claims[c].handoff
               /\ claims'[c].consume = claims[c].consume
               /\ claims'[c].session = claims[c].session
               /\ claims'[c].installation = claims[c].installation
<1>1. claims[c] \in Claim
  BY ClaimFields DEF LoseClaim, Flying, SessionTypeOK
<1> DEFINE x == [claims[c] EXCEPT !.heard = FALSE]
<1>2. claims' = [claims EXCEPT ![c] = IF claims[c].at \in {"answer", "store"} THEN Done
                                      ELSE x]
  BY DEF LoseClaim, SessionTypeOK
<1>3. /\ x \in Claim /\ x.at = claims[c].at /\ x.handoff = claims[c].handoff
      /\ x.consume = claims[c].consume /\ x.session = claims[c].session
      /\ x.installation = claims[c].installation
  BY <1>1 DEF Claim
<1> HIDE DEF x
<1>4. CASE claims[c].at \in {"answer", "store"}
  BY <1>2, <1>4, ReplacedClaim
<1>5. CASE claims[c].at \notin {"answer", "store"}
  BY <1>1, <1>2, <1>3, <1>5, ReplacedClaim
<1> QED
  BY <1>4, <1>5


-----------------------------------------------------------------------------
(* What each step of a refresh makes of the requests.                          *)

\* The pass of a worker that waits for a refresh waits for that one alone.
Awaits ==
  \A r \in refreshes : r.awaited =>
     /\ pass[r.browser] # Idle /\ pass[r.browser].at = "refresh"
     /\ \A q \in refreshes : q.awaited /\ q.browser = r.browser => q = r

Base == SessionTypeOK /\ AsksWithToken /\ Awaits

\* x is what has become of request r.
Becomes(r, x) ==
  /\ x \in Refresh /\ x.browser = r.browser /\ x.installation = r.installation
  /\ x.awaited = r.awaited

\* Request r is gone, or replaced by what became of it; the others are as before.
Replaced(r, x, gone) ==
  /\ refreshes \ {r} \subseteq refreshes'
  /\ refreshes' \subseteq (refreshes \ {r}) \cup {x}
  /\ ~gone => x \in refreshes'

LEMMA AnswerReplaces ==
  ASSUME NEW r \in Refresh, NEW creds \in Opened,
         refreshes' = (refreshes \ {r}) \cup Answered(r, creds)
  PROVE  \E x : /\ Becomes(r, x) /\ x.at = "answer" /\ x.creds = creds
                /\ Replaced(r, x, ~r.awaited)
<1> DEFINE x == [r EXCEPT !.at = "answer", !.creds = creds]
<1>1. Becomes(r, x) /\ x.at = "answer" /\ x.creds = creds
  BY DEF Becomes, Refresh, Opened
<1>2. Answered(r, creds) = IF r.awaited THEN {x} ELSE {}
  BY DEF Answered
<1>3. r.awaited \in BOOLEAN
  BY DEF Refresh
<1> HIDE DEF x
<1>4. Replaced(r, x, ~r.awaited)
  BY <1>2, <1>3 DEF Replaced
<1> QED
  BY <1>1, <1>4

LEMMA FoundRefresh ==
  ASSUME SessionTypeOK, NEW r \in refreshes, RefreshFinds(r)
  PROVE  \E x : /\ Becomes(r, x) /\ Replaced(r, x, ~r.awaited)
                /\ \/ x.at = "check" /\ x.creds = r.creds
                   \/ x.at = "answer" /\ x.creds = SignedOut
<1>1. r \in Refresh
  BY DEF SessionTypeOK
<1>2. CASE Refreshable(r)
  <2> DEFINE x == [r EXCEPT !.at = "check"]
  <2>1. Becomes(r, x) /\ x.at = "check" /\ x.creds = r.creds
    BY <1>1 DEF Becomes, Refresh
  <2>2. refreshes' = (refreshes \ {r}) \cup {x}
    BY <1>2 DEF RefreshFinds
  <2> HIDE DEF x
  <2>3. Replaced(r, x, ~r.awaited)
    BY <2>2 DEF Replaced
  <2> QED
    BY <2>1, <2>3
<1>3. CASE ~Refreshable(r)
  <2>1. refreshes' = (refreshes \ {r}) \cup Answered(r, SignedOut)
    BY <1>3 DEF RefreshFinds
  <2>2. SignedOut \in Opened
    BY DEF Opened
  <2> QED
    BY <1>1, <2>1, <2>2, AnswerReplaces
<1> QED
  BY <1>2, <1>3

LEMMA CheckedRefresh ==
  ASSUME SessionTypeOK, NEW r \in refreshes, RefreshChecks(r)
  PROVE  \E x : /\ Becomes(r, x) /\ Replaced(r, x, ~r.awaited)
                /\ x.at \in {"rotate", "revoke"} /\ x.creds = r.creds
<1> DEFINE x == [r EXCEPT !.at = IF LoginAlive(r.creds.session) THEN "rotate" ELSE "revoke"]
<1>1. r \in Refresh
  BY DEF SessionTypeOK
<1>2. Becomes(r, x) /\ x.at \in {"rotate", "revoke"} /\ x.creds = r.creds
  BY <1>1 DEF Becomes, Refresh
<1>3. refreshes' = (refreshes \ {r}) \cup {x}
  BY DEF RefreshChecks
<1> HIDE DEF x
<1>4. Replaced(r, x, ~r.awaited)
  BY <1>3 DEF Replaced
<1> QED
  BY <1>2, <1>4

\* A refresh whose login has ended revokes the session and has no tokens.
LEMMA RefusedRefresh ==
  ASSUME SessionTypeOK, NEW r \in refreshes, RefreshRevokes(r)
  PROVE  /\ sessions' = Revoked(sessions, {r.creds.session})
         /\ UNCHANGED <<claims, store, ids, pass>>
         /\ \E x : /\ Becomes(r, x) /\ Replaced(r, x, ~r.awaited)
                   /\ x.at = "answer" /\ x.creds = SignedOut
<1>1. r \in Refresh /\ SignedOut \in Opened
  BY DEF SessionTypeOK, Opened
<1>2. refreshes' = (refreshes \ {r}) \cup Answered(r, SignedOut)
  BY DEF RefreshRevokes
<1>3. /\ sessions' = Revoked(sessions, {r.creds.session})
      /\ UNCHANGED <<claims, store, ids, pass>>
  BY DEF RefreshRevokes, client
<1> QED
  BY <1>1, <1>2, <1>3, AnswerReplaces

LEMMA RotatedRefresh ==
  ASSUME Base, NEW r \in refreshes, RefreshRotates(r)
  PROVE  LET s == r.creds.session
         IN  /\ s \in Nat \ {0} /\ r.creds \in Credentials /\ Rotate(s) /\ UNCHANGED sessions
             /\ claims' \in [Claims -> Claim \cup {Idle, Done}]
             /\ \A c \in Claims : claims'[c] = Claiming(s, claims[c])
             /\ \E x : /\ Becomes(r, x) /\ x.at = "answer" /\ x.creds = Fresh(s)
                       /\ {Asked(s, q) : q \in refreshes \ {r}} \subseteq refreshes'
                       /\ refreshes' \subseteq {Asked(s, q) : q \in refreshes \ {r}} \cup {x}
                       /\ r.awaited => x \in refreshes'
<1> DEFINE s == r.creds.session
           x == [r EXCEPT !.at = "answer", !.creds = Fresh(s)]
<1>1. r \in Refresh /\ r.at = "rotate"
  BY DEF Base, SessionTypeOK, RefreshRotates
<1>2. r.creds # SignedOut /\ r.creds \in Opened
  BY <1>1 DEF Base, AsksWithToken, Refresh, Opened
<1>3. s \in Nat \ {0} /\ r.creds \in Credentials
  BY <1>2 DEF Opened, Credentials
<1>4. /\ refreshes' = {Asked(s, q) : q \in refreshes \ {r}} \cup Answered(r, Fresh(s))
      /\ claims' = [c \in Claims |-> Claiming(s, claims[c])]
      /\ Rotate(s) /\ UNCHANGED sessions
  BY DEF RefreshRotates, server
<1> HIDE DEF s
<1>5. Fresh(s) \in Opened
  BY <1>3, FreshTypes
<1>6. Becomes(r, x) /\ x.at = "answer" /\ x.creds = Fresh(s)
  BY <1>1, <1>5 DEF Becomes, Refresh, Opened
<1>7. Answered(r, Fresh(s)) = IF r.awaited THEN {x} ELSE {}
  BY DEF Answered
<1> HIDE DEF x
<1>8. /\ {Asked(s, q) : q \in refreshes \ {r}} \subseteq refreshes'
      /\ refreshes' \subseteq {Asked(s, q) : q \in refreshes \ {r}} \cup {x}
      /\ r.awaited => x \in refreshes'
  BY <1>4, <1>7
<1>9. \A c \in Claims : Claiming(s, claims[c]) \in Claim \cup {Idle, Done}
  BY <1>3, ClaimingFields DEF Base, SessionTypeOK
<1>10. claims' \in [Claims -> Claim \cup {Idle, Done}]
  BY <1>4, <1>9
<1> QED
  BY <1>3, <1>4, <1>6, <1>8, <1>10 DEF s

LEMMA RefusedSend ==
  ASSUME SessionTypeOK, NEW i \in Browsers, SendRefused(i)
  PROVE  /\ pass[i] \in Pass /\ pass[i].at = "send" /\ pass[i].creds \in Credentials
         /\ pass' \in [Browsers -> Pass \cup {Idle}]
         /\ \A j \in Browsers \ {i} : pass'[j] = pass[j]
         /\ \/ sessions' = sessions
            \/ sessions' = Revoked(sessions, {pass[i].creds.session})
         /\ \/ pass'[i] = Idle /\ refreshes' = refreshes
            \/ /\ pass'[i] \in Pass /\ pass'[i].at = "refresh"
               /\ pass'[i].creds = pass[i].creds
               /\ pass'[i].installation = pass[i].installation
               /\ \E x : /\ x \in Refresh /\ x.at = "find" /\ x.browser = i
                         /\ x.installation = pass[i].installation
                         /\ x.awaited /\ x.creds = pass[i].creds
                         /\ refreshes' = refreshes \cup {x}
<1>1. pass[i] \in Pass /\ pass[i].at = "send"
  BY PassFields DEF SendRefused, SessionTypeOK
<1>2. pass[i].creds \in Credentials
  BY <1>1 DEF Pass
<1>3. sessions' = sessions \/ sessions' = Revoked(sessions, {pass[i].creds.session})
  BY DEF SendRefused
<1>4. CASE pass[i].refreshed
  <2>1. pass' = [pass EXCEPT ![i] = Idle] /\ refreshes' = refreshes
    BY <1>4 DEF SendRefused
  <2>2. pass' \in [Browsers -> Pass \cup {Idle}]
    BY <2>1 DEF SessionTypeOK
  <2> QED
    BY <1>1, <1>2, <1>3, <2>1, <2>2 DEF SessionTypeOK
<1>5. CASE ~pass[i].refreshed
  <2> DEFINE x == [at |-> "find", browser |-> i, installation |-> pass[i].installation,
                   awaited |-> TRUE, creds |-> pass[i].creds]
             y == [pass[i] EXCEPT !.at = "refresh", !.refreshed = TRUE]
  <2>1. pass' = [pass EXCEPT ![i] = y] /\ refreshes' = refreshes \cup {x}
    BY <1>5 DEF SendRefused, SessionTypeOK
  <2>2. /\ x \in Refresh /\ x.at = "find" /\ x.browser = i
        /\ x.installation = pass[i].installation
        /\ x.awaited /\ x.creds = pass[i].creds
    BY <1>1, <1>2 DEF Refresh, Pass
  <2>3. /\ y \in Pass /\ y.at = "refresh" /\ y.creds = pass[i].creds
        /\ y.installation = pass[i].installation
    BY <1>1 DEF Pass
  <2> HIDE DEF x, y
  <2>4. pass' \in [Browsers -> Pass \cup {Idle}] /\ pass'[i] = y
        /\ \A j \in Browsers \ {i} : pass'[j] = pass[j]
    BY <2>1, <2>3 DEF SessionTypeOK
  <2> QED
    BY <1>1, <1>2, <1>3, <2>1, <2>2, <2>3, <2>4
<1> QED
  BY <1>4, <1>5

\* What the worker does with the answer r of the refresh it waits for.
Takes(i, r) ==
  /\ r.at = "answer" /\ r.awaited /\ r.browser = i /\ r.creds \in Opened
  /\ r.installation \in Claims \cup {Nobody} /\ refreshes' = refreshes \ {r}

\* It is going to clear the tokens, or has stored those of the answer.
LEMMA AnsweredRefresh ==
  ASSUME Base, NEW i \in Browsers, RefreshAnswered(i)
  PROVE  /\ pass' \in [Browsers -> Pass \cup {Idle}]
         /\ \A j \in Browsers \ {i} : pass'[j] = pass[j]
         /\ pass[i] \in Pass /\ pass'[i] \in Pass
         /\ \E r \in refreshes :
              /\ Takes(i, r)
              /\ \/ /\ pass'[i].at = "clear" /\ pass'[i].installation = ids[i]
                    /\ pass'[i].creds = pass[i].creds /\ UNCHANGED <<store, ids>>
                 \/ /\ pass'[i].at = "send" /\ pass'[i].creds = r.creds
                    /\ pass'[i].installation = r.installation /\ r.creds \in Credentials
                    /\ store' = [store EXCEPT ![i] = r.creds]
                    /\ ids' = [ids EXCEPT ![i] = r.installation]
<1>1. PICK r \in refreshes :
        /\ r.at = "answer" /\ r.awaited /\ r.browser = i
        /\ refreshes' = refreshes \ {r}
        /\ IF r.creds = SignedOut
           THEN /\ pass' = [pass EXCEPT ![i].at = "clear", ![i].installation = ids[i]]
                /\ UNCHANGED <<store, ids>>
           ELSE Refreshed(i, r)
  BY DEF RefreshAnswered
<1>2. r \in Refresh /\ pass[i] # Idle
  BY <1>1 DEF Base, SessionTypeOK, Awaits
<1>3. pass[i] \in Pass /\ r.creds \in Opened /\ r.installation \in Claims \cup {Nobody}
  BY <1>2, PassFields DEF Base, SessionTypeOK, Refresh, Opened
<1>4. Takes(i, r)
  BY <1>1, <1>3 DEF Takes
<1>5. CASE r.creds = SignedOut
  <2> DEFINE y == [pass[i] EXCEPT !.at = "clear", !.installation = ids[i]]
  <2>1. ids[i] \in Claims \cup {Nobody}
    BY DEF Base, SessionTypeOK
  <2>2. /\ y \in Pass /\ y.at = "clear" /\ y.installation = ids[i]
        /\ y.creds = pass[i].creds
    BY <1>3, <2>1 DEF Pass
  <2>3. pass' = [pass EXCEPT ![i] = y] /\ UNCHANGED <<store, ids>>
    BY <1>1, <1>5 DEF Base, SessionTypeOK
  <2> HIDE DEF y
  <2>4. pass' \in [Browsers -> Pass \cup {Idle}] /\ pass'[i] = y
        /\ \A j \in Browsers \ {i} : pass'[j] = pass[j]
    BY <2>2, <2>3 DEF Base, SessionTypeOK
  <2> QED
    BY <1>3, <1>4, <2>2, <2>3, <2>4
<1>6. CASE r.creds # SignedOut
  <2> DEFINE y == [pass[i] EXCEPT !.at = "send", !.creds = r.creds,
                                  !.installation = r.installation]
  <2>1. r.creds \in Credentials
    BY <1>3, <1>6 DEF Opened
  <2>2. /\ y \in Pass /\ y.at = "send" /\ y.creds = r.creds
        /\ y.installation = r.installation
    BY <1>3, <2>1 DEF Pass
  <2>3. /\ pass' = [pass EXCEPT ![i] = y]
        /\ store' = [store EXCEPT ![i] = r.creds]
        /\ ids' = [ids EXCEPT ![i] = r.installation]
    BY <1>1, <1>6 DEF Refreshed, Base, SessionTypeOK
  <2> HIDE DEF y
  <2>4. pass' \in [Browsers -> Pass \cup {Idle}] /\ pass'[i] = y
        /\ \A j \in Browsers \ {i} : pass'[j] = pass[j]
    BY <2>2, <2>3 DEF Base, SessionTypeOK
  <2> QED
    BY <1>3, <1>4, <2>1, <2>2, <2>3, <2>4
<1> QED
  BY <1>5, <1>6

LEMMA ClearedCredentials ==
  ASSUME SessionTypeOK, NEW i \in Browsers, ClearCredentials(i)
  PROVE  /\ pass[i] \in Pass /\ pass[i].at = "clear"
         /\ pass[i].installation \in Claims \cup {Nobody}
         /\ pass' = [pass EXCEPT ![i] = Idle]
         /\ store' = [store EXCEPT ![i] = SignedOut]
         /\ ids' = [ids EXCEPT ![i] = pass[i].installation]
         /\ UNCHANGED <<server, claims, refreshes, received, faults, clean>>
<1>1. pass[i] \in Pass
  BY PassFields DEF ClearCredentials, SessionTypeOK
<1>2. pass[i].installation \in Claims \cup {Nobody}
  BY <1>1 DEF Pass
<1> QED
  BY <1>1, <1>2 DEF ClearCredentials

LEMMA LostRefresh ==
  ASSUME SessionTypeOK, NEW r \in refreshes, LoseRefresh(r)
  PROVE  /\ r.browser \in Browsers
         /\ pass' = [pass EXCEPT ![r.browser] = Idle]
         /\ \E x : /\ x \in Refresh /\ x.browser = r.browser /\ ~x.awaited
                   /\ x.installation = r.installation
                   /\ x.at = r.at /\ x.creds = r.creds
                   /\ refreshes' \subseteq (refreshes \ {r}) \cup {x}
                   /\ r.at = "answer" => refreshes' = refreshes \ {r}
<1>1. r \in Refresh
  BY DEF SessionTypeOK
<1>2. r.browser \in Browsers
  BY <1>1 DEF Refresh
<1> DEFINE x == [r EXCEPT !.awaited = FALSE]
<1>3. /\ x \in Refresh /\ x.browser = r.browser /\ ~x.awaited
      /\ x.installation = r.installation
      /\ x.at = r.at /\ x.creds = r.creds
  BY <1>1 DEF Refresh
<1>4. /\ refreshes' = (refreshes \ {r}) \cup (IF r.at = "answer" THEN {} ELSE {x})
      /\ pass' = [pass EXCEPT ![r.browser] = Idle]
  BY DEF LoseRefresh
<1> HIDE DEF x
<1> QED
  BY <1>2, <1>3, <1>4


-----------------------------------------------------------------------------
(* Types, and who waits for what.                                              *)

ClaimStep(c) ==
  \/ BeginClaim(c) \/ ClaimFails(c) \/ ClaimReads(c) \/ ClaimWrites(c) \/ ClaimCommits(c)
  \/ ClaimAnswered(c) \/ ClaimRefused(c) \/ ClaimStored(c) \/ LoseClaim(c)

PassStep(i) ==
  \/ StartPass(i) \/ SendServed(i) \/ SendRefused(i) \/ RefreshAnswered(i)
  \/ ClearCredentials(i)

RefreshStep(r) ==
  \/ RefreshFinds(r) \/ RefreshChecks(r) \/ RefreshRevokes(r) \/ RefreshRotates(r)
  \/ LoseRefresh(r)

LEMMA SessionSplit ==
  ASSUME SessionNext
  PROVE  \/ \E l \in Logins : Logout(l)
         \/ \E c \in Claims : ClaimStep(c)
         \/ \E i \in Browsers : PassStep(i)
         \/ \E r \in refreshes : RefreshStep(r)
BY DEF SessionNext, ClaimStep, PassStep, RefreshStep

LEMMA ClaimsTyped ==
  ASSUME Base, NEW c \in Claims, ClaimStep(c)
  PROVE  claims' \in [Claims -> Claim \cup {Idle, Done}]
BY BegunClaim, EndedClaim, ReadClaim, WrittenClaim, CommittedClaim, AnsweredClaim, LostClaim
   DEF ClaimStep, Base, Moves

LEMMA RowsTyped ==
  ASSUME Base, NEW c \in Claims, ClaimStep(c)
  PROVE  handoffs' \in [Handoffs -> Handoff] /\ sessions' \in Seq(Session)
<1> USE DEF Base
<1>1. CASE ClaimCommits(c)
  <2> DEFINE s == SessionOf(c)
             h == claims[c].handoff
             i == claims[c].installation
             row == [handoffs[h] EXCEPT !.session = s, !.installation = i]
  <2>1. /\ s \in Nat \ {0} /\ h \in Handoffs /\ i \in Claims
        /\ handoffs' = IF claims[c].consume
                       THEN [handoffs EXCEPT ![h].session = s, ![h].installation = i]
                       ELSE handoffs
    BY <1>1, CommittedClaim
  <2> HIDE DEF s, h, i
  <2>2. row \in Handoff
    BY <2>1 DEF SessionTypeOK, Handoff
  <2>3. handoffs' = IF claims[c].consume THEN [handoffs EXCEPT ![h] = row] ELSE handoffs
    BY <2>1 DEF SessionTypeOK
  <2> HIDE DEF row
  <2>4. handoffs' \in [Handoffs -> Handoff]
    BY <2>2, <2>3 DEF SessionTypeOK
  <2> QED
    BY <1>1, <2>4, CommittedSessions
<1>2. CASE ~ClaimCommits(c)
  <2>1. UNCHANGED <<handoffs, sessions>>
    BY <1>2 DEF ClaimStep, BeginClaim, ClaimFails, ClaimReads, ClaimWrites, ClaimAnswered,
                ClaimRefused, ClaimStored, LoseClaim, server
  <2> QED
    BY <2>1 DEF SessionTypeOK
<1> QED
  BY <1>1, <1>2

LEMMA ReceivedTyped ==
  ASSUME Base, NEW c \in Claims, ClaimStep(c)
  PROVE  /\ received' \in [Browsers -> SUBSET Handoffs]
         /\ faults' \in 0 .. MaxFaults /\ clean' \in BOOLEAN
         /\ logins' \subseteq Logins
<1> USE DEF Base
<1>1. CASE ClaimAnswered(c)
  BY <1>1, AnsweredClaim, SessionAssumption DEF ClaimAnswered, SessionTypeOK, server
<1>2. CASE ~ClaimAnswered(c)
  <2>1. UNCHANGED <<logins, received>>
    BY <1>2 DEF ClaimStep, BeginClaim, ClaimFails, ClaimReads, ClaimWrites, ClaimCommits,
                ClaimRefused, ClaimStored, LoseClaim, server, client
  <2>2. faults' \in {faults, faults + 1} /\ (faults' # faults => faults < MaxFaults)
    BY <1>2 DEF ClaimStep, BeginClaim, ClaimFails, ClaimReads, ClaimWrites, ClaimCommits,
                ClaimRefused, ClaimStored, LoseClaim
  <2>3. clean' \in BOOLEAN
    BY <1>2 DEF ClaimStep, BeginClaim, ClaimFails, ClaimReads, ClaimWrites, ClaimCommits,
                ClaimRefused, ClaimStored, LoseClaim, SessionTypeOK
  <2>4. faults' \in 0 .. MaxFaults
    BY <2>2, SessionAssumption DEF SessionTypeOK
  <2> QED
    BY <2>1, <2>3, <2>4 DEF SessionTypeOK
<1> QED
  BY <1>1, <1>2


LEMMA AskedOrigin ==
  ASSUME NEW R, R \subseteq Refresh, NEW s \in Nat \ {0},
         NEW q \in {Asked(s, o) : o \in R}
  PROVE  \E o \in R : /\ q = Asked(s, o) /\ q \in Refresh
                      /\ q.at = o.at /\ q.browser = o.browser
                      /\ q.awaited = o.awaited /\ q.creds = Overtake(s, o.creds)
<1>1. PICK o \in R : q = Asked(s, o)
  OBVIOUS
<1>2. o \in Refresh
  OBVIOUS
<1> QED
  BY <1>1, <1>2, AskedFields

LEMMA ClaimKeepsBase ==
  ASSUME Base, NEW c \in Claims, ClaimStep(c)
  PROVE  Base'
<1>0. SessionTypeOK /\ AsksWithToken /\ Awaits
  BY DEF Base
<1>1. CASE ClaimCommits(c)
  <2>1. PICK s \in Nat \ {0} : Rotate(s) /\ refreshes' = {Asked(s, r) : r \in refreshes}
    BY <1>0, <1>1, CommittedClaim
  <2>2. refreshes \subseteq Refresh
    BY <1>0 DEF SessionTypeOK
  <2>3. \A q \in refreshes' : \E o \in refreshes :
          /\ q = Asked(s, o) /\ q \in Refresh
          /\ q.at = o.at /\ q.browser = o.browser
          /\ q.awaited = o.awaited /\ q.creds = Overtake(s, o.creds)
    BY <2>1, <2>2, AskedOrigin
  <2>4. AsksWithToken'
    <3> SUFFICES ASSUME NEW q \in refreshes', q.at # "answer" PROVE q.creds # SignedOut
      BY DEF AsksWithToken
    <3>1. PICK o \in refreshes : o.at = q.at /\ q.creds = Overtake(s, o.creds)
      BY <2>3
    <3>2. o.creds # SignedOut /\ o.creds \in Opened
      BY <1>0, <3>1 DEF AsksWithToken, SessionTypeOK, Refresh, Opened
    <3> QED
      BY <3>1, <3>2, OvertakeKeeps
  <2>5. \A i \in Browsers :
           pass[i] # Idle => pass'[i] # Idle /\ pass'[i].at = pass[i].at
    BY <1>0, <2>1, RotatedStore
  <2>6. Awaits'
    <3> SUFFICES ASSUME NEW r \in refreshes', r.awaited
                 PROVE  /\ pass'[r.browser] # Idle /\ pass'[r.browser].at = "refresh"
                        /\ \A q \in refreshes' :
                              q.awaited /\ q.browser = r.browser => q = r
      BY DEF Awaits
    <3>1. PICK o \in refreshes : r = Asked(s, o) /\ o.awaited /\ o.browser = r.browser
      BY <2>3
    <3>2. o.browser \in Browsers
      BY <2>2 DEF Refresh
    <3>3. pass'[r.browser] # Idle /\ pass'[r.browser].at = "refresh"
      BY <1>0, <2>5, <3>1, <3>2 DEF Awaits
    <3>4. ASSUME NEW q \in refreshes', q.awaited, q.browser = r.browser
          PROVE  q = r
      <4>1. PICK p \in refreshes : q = Asked(s, p) /\ p.awaited
                                   /\ p.browser = q.browser
        BY <2>3, <3>4
      <4>2. p = o
        BY <1>0, <3>1, <3>4, <4>1 DEF Awaits
      <4> QED
        BY <3>1, <4>1, <4>2
    <3> QED
      BY <3>3, <3>4
  <2>7. refreshes' \subseteq Refresh
    BY <2>3
  <2>8. SessionTypeOK'
    BY <1>0, <2>1, <2>7, ClaimsTyped, RowsTyped, ReceivedTyped, RotatedStore
       DEF SessionTypeOK
  <2> QED
    BY <2>4, <2>6, <2>8 DEF Base
<1>2. CASE ~ClaimCommits(c)
  <2>1. UNCHANGED <<refreshes, pass>>
    BY <1>2 DEF ClaimStep, BeginClaim, ClaimFails, ClaimReads, ClaimWrites, ClaimAnswered,
                ClaimRefused, ClaimStored, LoseClaim
  <2>2. /\ store' \in [Browsers -> Credentials \cup {SignedOut}]
        /\ ids' \in [Browsers -> Claims \cup {Nobody}]
    <3>1. CASE ClaimStored(c)
      <4>1. claims[c] \in Claim
        BY <1>0, <3>1, ClaimFields DEF ClaimStored, SessionTypeOK
      <4>2. claims[c].creds \in Credentials \cup {SignedOut} /\ claims[c].installation \in Claims
        BY <4>1 DEF Claim
      <4> QED
        BY <1>0, <3>1, <4>2 DEF ClaimStored, SessionTypeOK
    <3>2. CASE ~ClaimStored(c)
      BY <1>0, <1>2, <3>2
         DEF ClaimStep, BeginClaim, ClaimFails, ClaimReads, ClaimWrites, ClaimAnswered,
             ClaimRefused, LoseClaim, client, SessionTypeOK
    <3> QED
      BY <3>1, <3>2
  <2>3. SessionTypeOK'
    BY <1>0, <2>1, <2>2, ClaimsTyped, RowsTyped, ReceivedTyped DEF SessionTypeOK
  <2>4. AsksWithToken' /\ Awaits'
    BY <1>0, <2>1 DEF AsksWithToken, Awaits
  <2> QED
    BY <2>3, <2>4 DEF Base
<1> QED
  BY <1>1, <1>2

\* What no step of a pass or of a refresh touches.
LEMMA OthersTyped ==
  ASSUME Base,
         (\E i \in Browsers : PassStep(i)) \/ (\E r \in refreshes : RefreshStep(r))
  PROVE  /\ UNCHANGED <<logins, handoffs, received>>
         /\ faults' \in 0 .. MaxFaults /\ clean' \in BOOLEAN
<1> USE DEF Base
<1>1. ASSUME NEW i \in Browsers, PassStep(i)
      PROVE  /\ UNCHANGED <<logins, handoffs, received>>
             /\ faults' \in 0 .. MaxFaults /\ clean' \in BOOLEAN
  BY <1>1 DEF PassStep, StartPass, SendServed, SendRefused, RefreshAnswered, ClearCredentials,
              server, client, SessionTypeOK
<1>2. ASSUME NEW r \in refreshes, RefreshStep(r)
      PROVE  /\ UNCHANGED <<logins, handoffs, received>>
             /\ faults' \in 0 .. MaxFaults /\ clean' \in BOOLEAN
  <2>1. CASE LoseRefresh(r)
    <3>1. UNCHANGED <<logins, handoffs, received>> /\ clean' = FALSE
      BY <2>1 DEF LoseRefresh, server, client
    <3>2. faults' = faults + 1 /\ faults < MaxFaults
      BY <2>1 DEF LoseRefresh
    <3>3. faults' \in 0 .. MaxFaults
      BY <3>2, SessionAssumption DEF SessionTypeOK
    <3> QED
      BY <3>1, <3>3
  <2>2. CASE ~LoseRefresh(r)
    BY <1>2, <2>2 DEF RefreshStep, RefreshFinds, RefreshChecks, RefreshRevokes, RefreshRotates,
                      server, client, SessionTypeOK
  <2> QED
    BY <2>1, <2>2
<1> QED
  BY <1>1, <1>2


LEMMA PassKeepsBase ==
  ASSUME Base, NEW i \in Browsers, PassStep(i)
  PROVE  Base'
<1>0. SessionTypeOK /\ AsksWithToken /\ Awaits
  BY DEF Base
<1>1. UNCHANGED <<logins, handoffs, received>>
      /\ faults' \in 0 .. MaxFaults /\ clean' \in BOOLEAN
  BY OthersTyped
<1>2. \A r \in refreshes : r \in Refresh /\ r.browser \in Browsers
  BY <1>0 DEF SessionTypeOK, Refresh
<1>3. CASE StartPass(i)
  <2> DEFINE y == [at |-> "send", creds |-> store[i], installation |-> ids[i],
                   refreshed |-> FALSE]
  <2>1. /\ pass[i] = Idle /\ store[i] # SignedOut
        /\ pass' = [pass EXCEPT ![i] = y]
        /\ UNCHANGED <<sessions, claims, refreshes, store, ids>>
    BY <1>3 DEF StartPass, server, client
  <2>2. y \in Pass
    BY <1>0, <2>1 DEF SessionTypeOK, Pass
  <2> HIDE DEF y
  <2>3. SessionTypeOK'
    BY <1>0, <1>1, <2>1, <2>2 DEF SessionTypeOK
  <2>4. \A r \in refreshes : r.awaited => r.browser # i
    BY <1>0, <2>1 DEF Awaits
  <2>5. AsksWithToken' /\ Awaits'
    BY <1>0, <1>2, <2>1, <2>4 DEF AsksWithToken, Awaits, SessionTypeOK
  <2> QED
    BY <2>3, <2>5 DEF Base
<1>4. CASE SendServed(i)
  <2>1. /\ pass[i].at = "send" /\ pass' = [pass EXCEPT ![i] = Idle]
        /\ UNCHANGED <<sessions, claims, refreshes, store, ids>>
    BY <1>4 DEF SendServed, server, client
  <2>2. SessionTypeOK'
    BY <1>0, <1>1, <2>1 DEF SessionTypeOK
  <2>3. \A r \in refreshes : r.awaited => r.browser # i
    BY <1>0, <2>1 DEF Awaits
  <2>4. AsksWithToken' /\ Awaits'
    BY <1>0, <1>2, <2>1, <2>3 DEF AsksWithToken, Awaits, SessionTypeOK
  <2> QED
    BY <2>2, <2>4 DEF Base
<1>5. CASE SendRefused(i)
  <2>1. UNCHANGED <<claims, store, ids>>
    BY <1>5 DEF SendRefused, client
  <2>2. /\ pass[i].at = "send"
        /\ pass' \in [Browsers -> Pass \cup {Idle}]
        /\ \A j \in Browsers \ {i} : pass'[j] = pass[j]
        /\ sessions' = sessions \/ sessions' = Revoked(sessions, {pass[i].creds.session})
    BY <1>0, <1>5, RefusedSend
  <2>3. sessions' \in Seq(Session)
    BY <1>0, <2>2, RevokedRows DEF SessionTypeOK
  <2>4. \A r \in refreshes : r.awaited => r.browser # i
    BY <1>0, <2>2 DEF Awaits
  <2>5. CASE refreshes' = refreshes
    <3>1. SessionTypeOK'
      BY <1>0, <1>1, <2>1, <2>2, <2>3, <2>5 DEF SessionTypeOK
    <3>2. AsksWithToken' /\ Awaits'
      BY <1>0, <1>2, <2>2, <2>4, <2>5 DEF AsksWithToken, Awaits
    <3> QED
      BY <3>1, <3>2 DEF Base
  <2>6. ASSUME pass'[i] \in Pass, pass'[i].at = "refresh",
               NEW x, x \in Refresh, x.at = "find", x.browser = i, x.awaited,
               x.creds \in Credentials, refreshes' = refreshes \cup {x}
        PROVE  Base'
    <3>1. SessionTypeOK'
      BY <1>0, <1>1, <2>1, <2>2, <2>3, <2>6 DEF SessionTypeOK
    <3>2. AsksWithToken'
      BY <1>0, <2>6 DEF AsksWithToken, Credentials, SignedOut
    <3>3. pass'[i] # Idle
      BY <2>6, PassFields
    <3>4. Awaits'
      BY <1>0, <1>2, <2>2, <2>4, <2>6, <3>3 DEF Awaits
    <3> QED
      BY <3>1, <3>2, <3>4 DEF Base
  <2> QED
    BY <1>0, <1>5, <2>5, <2>6, RefusedSend
<1>6. CASE RefreshAnswered(i)
  <2>1. /\ pass' \in [Browsers -> Pass \cup {Idle}]
        /\ \A j \in Browsers \ {i} : pass'[j] = pass[j]
    BY <1>6, AnsweredRefresh
  <2>2. PICK r \in refreshes :
           /\ Takes(i, r)
           /\ \/ UNCHANGED <<store, ids>>
              \/ /\ store' = [store EXCEPT ![i] = r.creds]
                 /\ ids' = [ids EXCEPT ![i] = r.installation]
    BY <1>6, AnsweredRefresh
  <2>3. UNCHANGED <<sessions, claims>>
    BY <1>6 DEF RefreshAnswered, server
  <2>4. /\ store' \in [Browsers -> Credentials \cup {SignedOut}]
        /\ ids' \in [Browsers -> Claims \cup {Nobody}]
    BY <1>0, <2>2 DEF SessionTypeOK, Takes, Opened
  <2>5. SessionTypeOK'
    BY <1>0, <1>1, <2>1, <2>2, <2>3, <2>4 DEF SessionTypeOK, Takes
  <2>6. AsksWithToken'
    BY <1>0, <2>2 DEF AsksWithToken, Takes
  <2>7. \A q \in refreshes' : q \in refreshes /\ (q.awaited => q.browser # i)
    BY <1>0, <2>2 DEF Awaits, Takes
  <2>8. Awaits'
    BY <1>0, <1>2, <2>1, <2>7 DEF Awaits
  <2> QED
    BY <2>5, <2>6, <2>8 DEF Base
<1>7. CASE ClearCredentials(i)
  <2>1. /\ pass[i] \in Pass /\ pass[i].at = "clear"
        /\ pass[i].installation \in Claims \cup {Nobody}
        /\ pass' = [pass EXCEPT ![i] = Idle]
        /\ store' = [store EXCEPT ![i] = SignedOut]
        /\ ids' = [ids EXCEPT ![i] = pass[i].installation]
        /\ UNCHANGED <<sessions, claims, refreshes>>
    BY <1>0, <1>7, ClearedCredentials DEF server
  <2>2. SessionTypeOK'
    BY <1>0, <1>1, <2>1 DEF SessionTypeOK
  <2>3. \A r \in refreshes : r.awaited => r.browser # i
    BY <1>0, <2>1 DEF Awaits
  <2>4. AsksWithToken' /\ Awaits'
    BY <1>0, <1>2, <2>1, <2>3 DEF AsksWithToken, Awaits, SessionTypeOK
  <2> QED
    BY <2>2, <2>4 DEF Base
<1> QED
  BY <1>3, <1>4, <1>5, <1>6, <1>7 DEF PassStep

\* One request is replaced by what became of it, and no pass is.
LEMMA ReplacedKeepsBase ==
  ASSUME Base, NEW r \in refreshes, NEW x, NEW gone, Becomes(r, x), Replaced(r, x, gone),
         x.at # "answer" => x.creds # SignedOut, UNCHANGED pass
  PROVE  refreshes' \subseteq Refresh /\ AsksWithToken' /\ Awaits'
<1>0. SessionTypeOK /\ AsksWithToken /\ Awaits
  BY DEF Base
<1>1. refreshes' \subseteq Refresh /\ AsksWithToken'
  BY <1>0 DEF SessionTypeOK, AsksWithToken, Becomes, Replaced
<1>2. Awaits'
  BY <1>0 DEF Awaits, Becomes, Replaced
<1> QED
  BY <1>1, <1>2

LEMMA RefreshKeepsBase ==
  ASSUME Base, NEW r \in refreshes, RefreshStep(r)
  PROVE  Base'
<1>0. SessionTypeOK /\ AsksWithToken /\ Awaits
  BY DEF Base
<1>1. UNCHANGED <<logins, handoffs, received>>
      /\ faults' \in 0 .. MaxFaults /\ clean' \in BOOLEAN
  BY OthersTyped
<1>2. \A q \in refreshes : q \in Refresh /\ q.browser \in Browsers
  BY <1>0 DEF SessionTypeOK, Refresh
<1>3. CASE RefreshFinds(r)
  <2>1. UNCHANGED <<sessions, claims, store, ids, pass>> /\ r.at = "find"
    BY <1>3 DEF RefreshFinds, server, client
  <2>2. r.creds # SignedOut
    BY <1>0, <2>1 DEF AsksWithToken
  <2>3. refreshes' \subseteq Refresh /\ AsksWithToken' /\ Awaits'
    BY <1>0, <1>3, <2>1, <2>2, FoundRefresh, ReplacedKeepsBase
  <2>4. SessionTypeOK'
    BY <1>0, <1>1, <2>1, <2>3 DEF SessionTypeOK
  <2> QED
    BY <2>3, <2>4 DEF Base
<1>check. CASE RefreshChecks(r)
  <2>1. UNCHANGED <<sessions, claims, store, ids, pass>> /\ r.at = "check"
    BY <1>check DEF RefreshChecks, server, client
  <2>2. r.creds # SignedOut
    BY <1>0, <2>1 DEF AsksWithToken
  <2>3. refreshes' \subseteq Refresh /\ AsksWithToken' /\ Awaits'
    BY <1>0, <1>check, <2>1, <2>2, CheckedRefresh, ReplacedKeepsBase
  <2>4. SessionTypeOK'
    BY <1>0, <1>1, <2>1, <2>3 DEF SessionTypeOK
  <2> QED
    BY <2>3, <2>4 DEF Base
<1>4. CASE RefreshRevokes(r)
  <2>1. /\ sessions' = Revoked(sessions, {r.creds.session})
        /\ UNCHANGED <<claims, store, ids, pass>>
    BY <1>0, <1>4, RefusedRefresh
  <2>2. refreshes' \subseteq Refresh /\ AsksWithToken' /\ Awaits'
    BY <1>0, <1>4, <2>1, RefusedRefresh, ReplacedKeepsBase
  <2>3. sessions' \in Seq(Session)
    BY <1>0, <2>1, RevokedRows DEF SessionTypeOK
  <2>4. SessionTypeOK'
    BY <1>0, <1>1, <2>1, <2>2, <2>3 DEF SessionTypeOK
  <2> QED
    BY <2>2, <2>4 DEF Base
<1>5. CASE RefreshRotates(r)
  <2> DEFINE s == r.creds.session
             kept == {Asked(s, q) : q \in refreshes \ {r}}
  <2>1. /\ s \in Nat \ {0} /\ Rotate(s) /\ UNCHANGED sessions
        /\ claims' \in [Claims -> Claim \cup {Idle, Done}]
    BY <1>5, RotatedRefresh
  <2>2. PICK x : /\ Becomes(r, x) /\ x.at = "answer"
                 /\ refreshes' \subseteq kept \cup {x}
    BY <1>5, RotatedRefresh
  <2> HIDE DEF s
  <2>3. \A q \in kept : \E o \in refreshes \ {r} :
           /\ q = Asked(s, o) /\ q \in Refresh
           /\ q.at = o.at /\ q.browser = o.browser
           /\ q.awaited = o.awaited /\ q.creds = Overtake(s, o.creds)
    <3> SUFFICES ASSUME NEW q \in kept
                 PROVE  \E o \in refreshes \ {r} :
                           /\ q = Asked(s, o) /\ q \in Refresh
                           /\ q.at = o.at /\ q.browser = o.browser
                           /\ q.awaited = o.awaited /\ q.creds = Overtake(s, o.creds)
      OBVIOUS
    <3>1. PICK o \in refreshes \ {r} : q = Asked(s, o)
      OBVIOUS
    <3>2. o \in Refresh
      BY <1>2
    <3> QED
      BY <2>1, <3>1, <3>2, AskedFields
  <2> HIDE DEF kept
  <2>4. refreshes' \subseteq Refresh
    BY <2>2, <2>3 DEF Becomes
  <2>5. AsksWithToken'
    <3> SUFFICES ASSUME NEW q \in refreshes', q.at # "answer" PROVE q.creds # SignedOut
      BY DEF AsksWithToken
    <3>1. PICK o \in refreshes : o.at = q.at /\ q.creds = Overtake(s, o.creds)
      BY <2>2, <2>3
    <3>2. o.creds # SignedOut /\ o.creds \in Opened
      BY <1>0, <3>1 DEF AsksWithToken, SessionTypeOK, Refresh, Opened
    <3> QED
      BY <2>1, <3>1, <3>2, OvertakeKeeps
  <2>6. \A i \in Browsers :
           pass[i] # Idle => pass'[i] # Idle /\ pass'[i].at = pass[i].at
    BY <1>0, <2>1, RotatedStore
  <2>7. \A q \in refreshes' :
           \/ q = x
           \/ \E o \in refreshes \ {r} : q = Asked(s, o) /\ q.awaited = o.awaited
                                         /\ q.browser = o.browser
    BY <2>2, <2>3
  <2>8. x.browser = r.browser /\ x.awaited = r.awaited
    BY <2>2 DEF Becomes
  <2>9. Awaits'
    <3> SUFFICES ASSUME NEW q \in refreshes', q.awaited
                 PROVE  /\ pass'[q.browser] # Idle /\ pass'[q.browser].at = "refresh"
                        /\ \A p \in refreshes' :
                              p.awaited /\ p.browser = q.browser => p = q
      BY DEF Awaits
    <3>1. PICK o \in refreshes : /\ o.awaited /\ o.browser = q.browser
                                 /\ \/ o = r /\ q = x
                                    \/ o # r /\ q = Asked(s, o)
      BY <2>7, <2>8
    <3>2. o.browser \in Browsers
      BY <1>2
    <3>3. pass'[q.browser] # Idle /\ pass'[q.browser].at = "refresh"
      BY <1>0, <2>6, <3>1, <3>2 DEF Awaits
    <3>4. ASSUME NEW p \in refreshes', p.awaited, p.browser = q.browser
          PROVE  p = q
      <4>1. PICK n \in refreshes : /\ n.awaited /\ n.browser = p.browser
                                   /\ \/ n = r /\ p = x
                                      \/ n # r /\ p = Asked(s, n)
        BY <2>7, <2>8, <3>4
      <4>2. n = o
        BY <1>0, <3>1, <3>4, <4>1 DEF Awaits
      <4> QED
        BY <3>1, <4>1, <4>2
    <3> QED
      BY <3>3, <3>4
  <2>10. SessionTypeOK'
    BY <1>0, <1>1, <2>1, <2>4, RotatedStore DEF SessionTypeOK
  <2> QED
    BY <2>5, <2>9, <2>10 DEF Base
<1>6. CASE LoseRefresh(r)
  <2>1. PICK x : /\ x \in Refresh /\ x.browser = r.browser /\ ~x.awaited
                 /\ x.at = r.at /\ x.creds = r.creds
                 /\ refreshes' \subseteq (refreshes \ {r}) \cup {x}
    BY <1>0, <1>6, LostRefresh
  <2>2. /\ r.awaited /\ pass' = [pass EXCEPT ![r.browser] = Idle]
        /\ UNCHANGED <<sessions, claims, store, ids>>
    BY <1>6 DEF LoseRefresh, server, client
  <2>3. SessionTypeOK'
    BY <1>0, <1>1, <1>2, <2>1, <2>2 DEF SessionTypeOK
  <2>4. AsksWithToken'
    BY <1>0, <2>1 DEF AsksWithToken
  <2>5. \A q \in refreshes' :
           q.awaited => q \in refreshes /\ q.browser # r.browser
    BY <1>0, <2>1, <2>2 DEF Awaits
  <2>6. Awaits'
    BY <1>0, <1>2, <2>2, <2>5 DEF Awaits, SessionTypeOK
  <2> QED
    BY <2>3, <2>4, <2>6 DEF Base
<1> QED
  BY <1>3, <1>check, <1>4, <1>5, <1>6 DEF RefreshStep

LEMMA LogoutKeepsBase ==
  ASSUME Base, NEW l \in Logins, Logout(l)
  PROVE  Base'
<1>1. /\ logins' = logins \ {l}
      /\ UNCHANGED <<handoffs, claims, refreshes, store, ids, received, pass, faults, clean>>
  BY DEF Logout, client
<1>2. sessions' \in Seq(Session)
  BY RevokedRows DEF Logout, Base, SessionTypeOK
<1>3. SessionTypeOK'
  BY <1>1, <1>2 DEF Base, SessionTypeOK
<1>4. AsksWithToken' /\ Awaits'
  BY <1>1 DEF Base, AsksWithToken, Awaits
<1> QED
  BY <1>3, <1>4 DEF Base

LEMMA StepKeepsBase ==
  ASSUME Base, [SessionNext]_sessionVars
  PROVE  Base'
<1>1. CASE SessionNext
  BY <1>1, SessionSplit, LogoutKeepsBase, ClaimKeepsBase, PassKeepsBase, RefreshKeepsBase
<1>2. CASE UNCHANGED sessionVars
  BY <1>2 DEF sessionVars, server, client, Base, SessionTypeOK, AsksWithToken, Awaits
<1> QED
  BY <1>1, <1>2

LEMMA InitiallyBase == SessionInit => Base
<1> SUFFICES ASSUME SessionInit PROVE Base
  OBVIOUS
<1>1. PICK login \in [Handoffs -> Logins] :
         handoffs = [h \in Handoffs |-> [login |-> login[h], installation |-> Nobody,
                                         session |-> 0]]
  BY DEF SessionInit
<1>2. handoffs \in [Handoffs -> Handoff]
  BY <1>1 DEF Handoff
<1>3. sessions \in Seq(Session)
  BY DEF SessionInit
<1>4. SessionTypeOK
  BY <1>2, <1>3, SessionAssumption DEF SessionInit, SessionTypeOK
<1>5. AsksWithToken /\ Awaits
  BY DEF SessionInit, AsksWithToken, Awaits
<1> QED
  BY <1>4, <1>5 DEF Base


-----------------------------------------------------------------------------
(* Each installation id is used by one browser.                                *)

\* This id is one of the browser's.
Home(id, i) == id # Nobody => BrowserOf[id] = i

ClaimsHome ==
  \A c \in Claims :
     claims[c] \notin {Idle, Done} => BrowserOf[claims[c].installation] = BrowserOf[c]

IdsHome == \A i \in Browsers : Home(ids[i], i)

PassesHome == \A i \in Browsers : pass[i] # Idle => Home(pass[i].installation, i)

RequestsHome == \A r \in refreshes : Home(r.installation, r.browser)

HomeInv == ClaimsHome /\ IdsHome /\ PassesHome /\ RequestsHome

\* A claim presents the id of its browser, or a new one.
LEMMA BegunHome ==
  ASSUME Base, HomeInv, NEW c \in Claims, BeginClaim(c)
  PROVE  ClaimsHome'
<1>1. Moves(c) /\ claims'[c].installation = Presented(c)
  BY BegunClaim DEF Base
<1>2. BrowserOf[Presented(c)] = BrowserOf[c]
  <2>1. BrowserOf[c] \in Browsers
    BY SessionAssumption
  <2> QED
    BY <2>1 DEF Presented, HomeInv, IdsHome, Home
<1> QED
  BY <1>1, <1>2 DEF ClaimsHome, HomeInv, Moves

\* No other step changes what a claim presents.
LEMMA ClaimsStayHome ==
  ASSUME Base, HomeInv, NEW c \in Claims, ClaimStep(c)
  PROVE  ClaimsHome'
<1>0. SessionTypeOK /\ ClaimsHome
  BY DEF Base, HomeInv
<1>1. CASE BeginClaim(c)
  BY <1>1, BegunHome
<1>2. CASE ClaimCommits(c)
  <2>1. PICK s \in Nat \ {0} : \A d \in Claims \ {c} : claims'[d] = Claiming(s, claims[d])
    BY <1>0, <1>2, CommittedClaim
  <2>2. /\ claims[c] \in Claim
        /\ claims'[c] = Done \/ claims'[c].installation = claims[c].installation
    BY <1>0, <1>2, CommittedClaim
  <2>3. ASSUME NEW d \in Claims \ {c}, claims'[d] \notin {Idle, Done}
        PROVE  BrowserOf[claims'[d].installation] = BrowserOf[d]
    <3>1. claims[d] \in Claim \cup {Idle, Done} /\ claims'[d] = Claiming(s, claims[d])
      BY <1>0, <2>1 DEF SessionTypeOK
    <3>2. claims[d] \notin {Idle, Done} /\ claims'[d].installation = claims[d].installation
      BY <2>1, <2>3, <3>1, ClaimingFields
    <3> QED
      BY <1>0, <3>2 DEF ClaimsHome
  <2>4. claims[c] \notin {Idle, Done}
    BY <2>2, ClaimFields
  <2> QED
    BY <1>0, <2>2, <2>3, <2>4 DEF ClaimsHome
<1>3. CASE ~BeginClaim(c) /\ ~ClaimCommits(c)
  <2>1. claims[c] \in Claim /\ claims[c] \notin {Idle, Done}
    BY <1>0, <1>3, ClaimFields
       DEF SessionTypeOK, ClaimStep, ClaimFails, ClaimReads, ClaimWrites, ClaimAnswered,
           ClaimRefused, ClaimStored, LoseClaim, Flying
  <2>2. Moves(c) /\ (claims'[c] = Done \/ claims'[c].installation = claims[c].installation)
    BY <1>0, <1>3, EndedClaim, ReadClaim, WrittenClaim, AnsweredClaim, LostClaim DEF ClaimStep
  <2> QED
    BY <1>0, <2>1, <2>2 DEF ClaimsHome, Moves
<1> QED
  BY <1>1, <1>2, <1>3

\* The id of a claim that is stored is one of its browser's.
LEMMA ClaimKeepsHome ==
  ASSUME Base, HomeInv, NEW c \in Claims, ClaimStep(c)
  PROVE  HomeInv'
<1>0. SessionTypeOK /\ ClaimsHome /\ IdsHome /\ PassesHome /\ RequestsHome
  BY DEF Base, HomeInv
<1>1. ClaimsHome'
  BY ClaimsStayHome
<1>2. CASE ClaimCommits(c)
  <2>1. PICK s \in Nat \ {0} : Rotate(s) /\ refreshes' = {Asked(s, r) : r \in refreshes}
    BY <1>0, <1>2, CommittedClaim
  <2>2. IdsHome' /\ PassesHome'
    BY <1>0, <2>1, RotatedStore DEF IdsHome, PassesHome
  <2>3. RequestsHome'
    <3> SUFFICES ASSUME NEW q \in refreshes' PROVE Home(q.installation, q.browser)
      BY DEF RequestsHome
    <3>1. PICK r \in refreshes : q = Asked(s, r)
      BY <2>1
    <3>2. r \in Refresh
      BY <1>0 DEF SessionTypeOK
    <3> QED
      BY <1>0, <3>1, <3>2, AskedFields DEF RequestsHome
  <2> QED
    BY <1>1, <2>2, <2>3 DEF HomeInv
<1>3. CASE ClaimStored(c)
  <2>1. /\ ids' = [ids EXCEPT ![BrowserOf[c]] = claims[c].installation]
        /\ claims[c] \notin {Idle, Done}
        /\ UNCHANGED <<refreshes, pass>>
    BY <1>3 DEF ClaimStored, Idle, Done
  <2>2. IdsHome'
    BY <1>0, <2>1 DEF IdsHome, ClaimsHome, Home, SessionTypeOK
  <2>3. PassesHome' /\ RequestsHome'
    BY <1>0, <2>1 DEF PassesHome, RequestsHome
  <2> QED
    BY <1>1, <2>2, <2>3 DEF HomeInv
<1>4. CASE ~ClaimCommits(c) /\ ~ClaimStored(c)
  <2>1. UNCHANGED <<refreshes, pass, ids>>
    BY <1>4 DEF ClaimStep, BeginClaim, ClaimFails, ClaimReads, ClaimWrites, ClaimAnswered,
                ClaimRefused, LoseClaim, client
  <2> QED
    BY <1>0, <1>1, <2>1 DEF HomeInv, IdsHome, PassesHome, RequestsHome
<1> QED
  BY <1>2, <1>3, <1>4

\* A refresh presents the id of the session that its pass has read.
LEMMA PassKeepsHome ==
  ASSUME Base, HomeInv, NEW i \in Browsers, PassStep(i)
  PROVE  HomeInv'
<1>0. SessionTypeOK /\ ClaimsHome /\ IdsHome /\ PassesHome /\ RequestsHome
  BY DEF Base, HomeInv
<1>1. UNCHANGED claims
  BY DEF PassStep, StartPass, SendServed, SendRefused, RefreshAnswered, ClearCredentials, server
<1>2. ClaimsHome'
  BY <1>0, <1>1 DEF ClaimsHome
<1>3. CASE StartPass(i)
  <2>1. /\ pass' = [pass EXCEPT ![i] = [at |-> "send", creds |-> store[i],
                                        installation |-> ids[i], refreshed |-> FALSE]]
        /\ UNCHANGED <<refreshes, ids>>
    BY <1>3 DEF StartPass, client
  <2>2. pass'[i].installation = ids[i] /\ \A j \in Browsers \ {i} : pass'[j] = pass[j]
    BY <1>0, <2>1 DEF SessionTypeOK
  <2>3. PassesHome'
    BY <1>0, <2>2 DEF PassesHome, IdsHome
  <2>4. IdsHome' /\ RequestsHome'
    BY <1>0, <2>1 DEF IdsHome, RequestsHome
  <2> QED
    BY <1>2, <2>3, <2>4 DEF HomeInv
<1>4. CASE SendServed(i)
  <2>1. pass' = [pass EXCEPT ![i] = Idle] /\ UNCHANGED <<refreshes, ids>>
    BY <1>4 DEF SendServed, client
  <2>2. PassesHome'
    BY <1>0, <2>1 DEF PassesHome, SessionTypeOK
  <2>3. IdsHome' /\ RequestsHome'
    BY <1>0, <2>1 DEF IdsHome, RequestsHome
  <2> QED
    BY <1>2, <2>2, <2>3 DEF HomeInv
<1>5. CASE SendRefused(i)
  <2>1. /\ pass[i] \in Pass
        /\ \A j \in Browsers \ {i} : pass'[j] = pass[j]
        /\ \/ pass'[i] = Idle /\ refreshes' = refreshes
           \/ /\ pass'[i].installation = pass[i].installation
              /\ \E x : /\ x.browser = i /\ x.installation = pass[i].installation
                        /\ refreshes' = refreshes \cup {x}
    BY <1>0, <1>5, RefusedSend
  <2>2. Home(pass[i].installation, i)
    BY <1>0, <2>1, PassFields DEF PassesHome
  <2>3. PassesHome'
    BY <1>0, <2>1, <2>2 DEF PassesHome
  <2>4. RequestsHome'
    BY <1>0, <2>1, <2>2 DEF RequestsHome
  <2>5. UNCHANGED ids
    BY <1>5 DEF SendRefused, client
  <2>6. IdsHome'
    BY <1>0, <2>5 DEF IdsHome
  <2> QED
    BY <1>2, <2>3, <2>4, <2>6 DEF HomeInv
<1>6. CASE RefreshAnswered(i)
  <2>1. \A j \in Browsers \ {i} : pass'[j] = pass[j]
    BY <1>6, AnsweredRefresh
  <2>2. PICK r \in refreshes :
           /\ Takes(i, r)
           /\ \/ pass'[i].installation = ids[i] /\ ids' = ids
              \/ /\ pass'[i].installation = r.installation
                 /\ ids' = [ids EXCEPT ![i] = r.installation]
    BY <1>6, AnsweredRefresh
  <2>3. Home(r.installation, i) /\ Home(ids[i], i)
    BY <1>0, <2>2 DEF RequestsHome, IdsHome, Takes
  <2>4. IdsHome'
    BY <1>0, <2>2, <2>3 DEF IdsHome, SessionTypeOK
  <2>5. PassesHome'
    BY <1>0, <2>1, <2>2, <2>3 DEF PassesHome
  <2>6. RequestsHome'
    BY <1>0, <2>2 DEF RequestsHome, Takes
  <2> QED
    BY <1>2, <2>4, <2>5, <2>6 DEF HomeInv
<1>7. CASE ClearCredentials(i)
  <2>1. /\ pass[i] \in Pass /\ pass' = [pass EXCEPT ![i] = Idle]
        /\ ids' = [ids EXCEPT ![i] = pass[i].installation]
        /\ UNCHANGED refreshes
    BY <1>0, <1>7, ClearedCredentials
  <2>2. Home(pass[i].installation, i)
    BY <1>0, <2>1, PassFields DEF PassesHome
  <2>3. IdsHome'
    BY <1>0, <2>1, <2>2 DEF IdsHome, SessionTypeOK
  <2>4. PassesHome'
    BY <1>0, <2>1 DEF PassesHome, SessionTypeOK
  <2>5. RequestsHome'
    BY <1>0, <2>1 DEF RequestsHome
  <2> QED
    BY <1>2, <2>3, <2>4, <2>5 DEF HomeInv
<1> QED
  BY <1>3, <1>4, <1>5, <1>6, <1>7 DEF PassStep

LEMMA RefreshKeepsHome ==
  ASSUME Base, HomeInv, NEW r \in refreshes, RefreshStep(r)
  PROVE  HomeInv'
<1>0. /\ SessionTypeOK /\ ClaimsHome /\ IdsHome /\ PassesHome /\ RequestsHome
      /\ r \in Refresh /\ Home(r.installation, r.browser)
  BY DEF Base, HomeInv, SessionTypeOK, RequestsHome
<1>1. CASE RefreshRotates(r)
  <2>1. PICK s \in Nat \ {0} :
          /\ Rotate(s) /\ \A c \in Claims : claims'[c] = Claiming(s, claims[c])
          /\ \E x : /\ Becomes(r, x)
                    /\ refreshes' \subseteq {Asked(s, q) : q \in refreshes \ {r}} \cup {x}
    BY <1>1, RotatedRefresh
  <2>2. IdsHome' /\ PassesHome'
    BY <1>0, <2>1, RotatedStore DEF IdsHome, PassesHome
  <2>3. RequestsHome'
    <3> SUFFICES ASSUME NEW q \in refreshes' PROVE Home(q.installation, q.browser)
      BY DEF RequestsHome
    <3>1. CASE Becomes(r, q)
      BY <1>0, <3>1 DEF Becomes
    <3>2. ASSUME NEW o \in refreshes, q = Asked(s, o)
          PROVE  Home(q.installation, q.browser)
      <4>1. o \in Refresh
        BY <1>0 DEF SessionTypeOK
      <4> QED
        BY <1>0, <3>2, <4>1, AskedFields DEF RequestsHome
    <3> QED
      BY <2>1, <3>1, <3>2
  <2>4. ClaimsHome'
    <3> SUFFICES ASSUME NEW c \in Claims, claims'[c] \notin {Idle, Done}
                 PROVE  BrowserOf[claims'[c].installation] = BrowserOf[c]
      BY DEF ClaimsHome
    <3>1. claims[c] \in Claim \cup {Idle, Done} /\ claims'[c] = Claiming(s, claims[c])
      BY <1>0, <2>1 DEF SessionTypeOK
    <3>2. claims[c] \notin {Idle, Done} /\ claims'[c].installation = claims[c].installation
      BY <2>1, <3>1, ClaimingFields
    <3> QED
      BY <1>0, <3>2 DEF ClaimsHome
  <2> QED
    BY <2>2, <2>3, <2>4 DEF HomeInv
<1>2. CASE ~RefreshRotates(r)
  <2>1. UNCHANGED <<claims, ids>>
    BY <1>2 DEF RefreshStep, RefreshFinds, RefreshChecks, RefreshRevokes, LoseRefresh, client
  <2>2. ClaimsHome' /\ IdsHome'
    BY <1>0, <2>1 DEF ClaimsHome, IdsHome
  <2>3. PassesHome'
    <3>1. pass' = pass \/ pass' = [pass EXCEPT ![r.browser] = Idle]
      BY <1>2 DEF RefreshStep, RefreshFinds, RefreshChecks, RefreshRevokes, LoseRefresh
    <3> QED
      BY <1>0, <3>1 DEF PassesHome, SessionTypeOK
  <2>4. \E x : /\ refreshes' \subseteq (refreshes \ {r}) \cup {x}
               /\ x.browser = r.browser /\ x.installation = r.installation
    <3>1. CASE RefreshFinds(r)
      BY <1>0, <3>1, FoundRefresh DEF Replaced, Becomes
    <3>2. CASE RefreshChecks(r)
      BY <1>0, <3>2, CheckedRefresh DEF Replaced, Becomes
    <3>3. CASE RefreshRevokes(r)
      BY <1>0, <3>3, RefusedRefresh DEF Replaced, Becomes
    <3>4. CASE LoseRefresh(r)
      BY <1>0, <3>4, LostRefresh
    <3> QED
      BY <1>2, <3>1, <3>2, <3>3, <3>4 DEF RefreshStep
  <2>5. RequestsHome'
    BY <1>0, <2>4 DEF RequestsHome
  <2> QED
    BY <2>2, <2>3, <2>5 DEF HomeInv
<1> QED
  BY <1>1, <1>2

LEMMA StepKeepsHome ==
  ASSUME Base, HomeInv, [SessionNext]_sessionVars
  PROVE  HomeInv'
<1>1. ASSUME NEW l \in Logins, Logout(l)
      PROVE  UNCHANGED <<claims, ids, pass, refreshes>>
  BY <1>1 DEF Logout, client
<1>2. UNCHANGED sessionVars => UNCHANGED <<claims, ids, pass, refreshes>>
  BY DEF sessionVars, client
<1>3. UNCHANGED <<claims, ids, pass, refreshes>> => HomeInv'
  BY DEF HomeInv, ClaimsHome, IdsHome, PassesHome, RequestsHome
<1> QED
  BY <1>1, <1>2, <1>3, SessionSplit, ClaimKeepsHome, PassKeepsHome, RefreshKeepsHome

LEMMA InitiallyHome == SessionInit => HomeInv
BY DEF SessionInit, HomeInv, ClaimsHome, IdsHome, PassesHome, RequestsHome, Home


-----------------------------------------------------------------------------
(* What sessions and handoffs keep through every step.                         *)

\* The session a consumed handoff leads to belongs to the browser that did.
HandoffsOwn ==
  \A h \in Handoffs : handoffs[h].session # 0 =>
     /\ handoffs[h].session \in DOMAIN sessions
     /\ BrowserOf[sessions[handoffs[h].session].installation]
          = BrowserOf[handoffs[h].installation]

\* A claim that is writing continues a session of its browser, and one that
\* does not consume the handoff finds that its browser has it.
ClaimOwns(table, hs, claim, i) ==
  /\ claim.at \in {"write", "commit"} =>
       /\ claim.session # 0 =>
            claim.session \in DOMAIN table /\ BrowserOf[table[claim.session].installation] = i
       /\ ~claim.consume => claim.session # 0 /\ Has(hs, claim.handoff, i)
  /\ claim.at \in {"answer", "store"} =>
       claim.creds # SignedOut /\ Holds(table, claim.creds, i) /\ Has(hs, claim.handoff, i)

ClaimsOwn == \A c \in Claims : ClaimOwns(sessions, handoffs, claims[c], BrowserOf[c])

StoresOwn == \A i \in Browsers : Holds(sessions, store[i], i)

PassesOwn == \A i \in Browsers : pass[i] # Idle => Holds(sessions, pass[i].creds, i)

RequestsOwn == \A r \in refreshes : Holds(sessions, r.creds, r.browser)

ReceivedOwn == \A i \in Browsers : \A h \in received[i] : Has(handoffs, h, i)

Consuming(c) == claims[c].at = "commit" /\ claims[c].consume

\* Transactions that are not committed consume different handoffs.
ConsumeInv ==
  \A c \in Claims : Consuming(c) =>
     /\ handoffs[claims[c].handoff].session = 0
     /\ \A d \in Claims : Consuming(d) /\ claims[d].handoff = claims[c].handoff => d = c

OwnInv ==
  /\ HandoffsOwn /\ ClaimsOwn /\ StoresOwn /\ PassesOwn /\ RequestsOwn /\ ReceivedOwn
  /\ ConsumeInv /\ HomeInv

\* Consumed handoffs stay as they are.
Fixed(hs, new) == \A h \in Handoffs : hs[h].session # 0 => new[h] = hs[h]

LEMMA RevokedGrows ==
  ASSUME NEW table \in Seq(Session), NEW revoke
  PROVE  Grows(table, Revoked(table, revoke))
<1> DEFINE new == Revoked(table, revoke)
<1>1. /\ DOMAIN new = DOMAIN table
      /\ \A s \in DOMAIN table : /\ new[s].installation = table[s].installation
                                /\ new[s].revoked = (table[s].revoked \/ s \in revoke)
  BY RevokedRows
<1> HIDE DEF new
<1>2. \A s \in DOMAIN table : table[s].revoked => new[s].revoked
  BY <1>1
<1>3. Grows(table, new)
  BY <1>1, <1>2 DEF Grows
<1> QED
  BY <1>3 DEF new

LEMMA SessionsGrow ==
  ASSUME Base, [SessionNext]_sessionVars
  PROVE  Grows(sessions, sessions')
<1>0. SessionTypeOK /\ sessions \in Seq(Session)
  BY DEF Base, SessionTypeOK
<1>1. CASE UNCHANGED sessions
  BY <1>1 DEF Grows
<1>2. ASSUME NEW l \in Logins, Logout(l)
      PROVE  Grows(sessions, sessions')
  BY <1>0, <1>2, RevokedGrows DEF Logout
<1>3. ASSUME NEW c \in Claims, ClaimStep(c)
      PROVE  Grows(sessions, sessions')
  <2>1. CASE ClaimCommits(c)
    BY <1>0, <2>1, CommittedSessions
  <2>2. CASE ~ClaimCommits(c)
    <3>1. UNCHANGED sessions
      BY <1>3, <2>2
         DEF ClaimStep, BeginClaim, ClaimFails, ClaimReads, ClaimWrites, ClaimAnswered,
             ClaimRefused, ClaimStored, LoseClaim, server
    <3> QED
      BY <1>1, <3>1
  <2> QED
    BY <2>1, <2>2
<1>4. ASSUME NEW i \in Browsers, PassStep(i)
      PROVE  Grows(sessions, sessions')
  <2>1. CASE SendRefused(i)
    <3>1. sessions' = sessions \/ sessions' = Revoked(sessions, {pass[i].creds.session})
      BY <1>0, <2>1, RefusedSend
    <3> QED
      BY <1>0, <1>1, <3>1, RevokedGrows
  <2>2. CASE ~SendRefused(i)
    <3>1. UNCHANGED sessions
      BY <1>4, <2>2 DEF PassStep, StartPass, SendServed, RefreshAnswered, ClearCredentials,
                        server
    <3> QED
      BY <1>1, <3>1
  <2> QED
    BY <2>1, <2>2
<1>5. ASSUME NEW r \in refreshes, RefreshStep(r)
      PROVE  Grows(sessions, sessions')
  <2>1. sessions' = sessions \/ sessions' = Revoked(sessions, {r.creds.session})
    BY <1>5 DEF RefreshStep, RefreshFinds, RefreshChecks, RefreshRevokes, RefreshRotates,
                LoseRefresh, server
  <2> QED
    BY <1>0, <1>1, <2>1, RevokedGrows
<1>6. UNCHANGED sessionVars => UNCHANGED sessions
  BY DEF sessionVars, server
<1> QED
  BY <1>1, <1>2, <1>3, <1>4, <1>5, <1>6, SessionSplit

\* Only a commit that consumes a handoff changes it, and nobody had it before.
LEMMA HandoffsFixed ==
  ASSUME Base, ConsumeInv, [SessionNext]_sessionVars
  PROVE  Fixed(handoffs, handoffs')
<1>0. SessionTypeOK
  BY DEF Base
<1>1. CASE UNCHANGED handoffs
  BY <1>1 DEF Fixed
<1>2. ASSUME NEW c \in Claims, ClaimCommits(c)
      PROVE  Fixed(handoffs, handoffs')
  <2> DEFINE h == claims[c].handoff
             s == SessionOf(c)
  <2>1. /\ h \in Handoffs /\ claims[c].at = "commit"
        /\ handoffs' = IF claims[c].consume
                       THEN [handoffs EXCEPT ![h].session = s,
                                             ![h].installation = claims[c].installation]
                       ELSE handoffs
    BY <1>0, <1>2, CommittedClaim DEF ClaimCommits
  <2>2. claims[c].consume => handoffs[h].session = 0
    BY <2>1 DEF ConsumeInv, Consuming
  <2> QED
    BY <1>0, <2>1, <2>2 DEF Fixed, SessionTypeOK
<1>3. ASSUME NEW c \in Claims, ClaimStep(c), ~ClaimCommits(c)
      PROVE  UNCHANGED handoffs
  BY <1>3 DEF ClaimStep, BeginClaim, ClaimFails, ClaimReads, ClaimWrites, ClaimAnswered,
              ClaimRefused, ClaimStored, LoseClaim, server
<1>4. ASSUME NEW l \in Logins, Logout(l)
      PROVE  UNCHANGED handoffs
  BY <1>4 DEF Logout
<1>5. UNCHANGED sessionVars => UNCHANGED handoffs
  BY DEF sessionVars, server
<1> QED
  BY <1>1, <1>2, <1>3, <1>4, <1>5, SessionSplit, OthersTyped

\* Tokens that were those of an installation stay so, also when overtaken.
LEMMA HoldsKept ==
  ASSUME NEW table, NEW new, Grows(table, new), NEW creds \in Opened, NEW i,
         Holds(table, creds, i)
  PROVE  /\ Holds(new, creds, i)
         /\ \A s \in Nat \ {0} : Holds(new, Overtake(s, creds), i)
<1>1. Holds(new, creds, i)
  BY DEF Holds, Grows
<1>2. ASSUME NEW s \in Nat \ {0}
      PROVE  Holds(new, Overtake(s, creds), i)
  BY <1>1, OvertakeKeeps DEF Holds
<1> QED
  BY <1>1, <1>2

LEMMA RotatedOwn ==
  ASSUME Base, StoresOwn, PassesOwn, Grows(sessions, sessions'), NEW s \in Nat \ {0},
         Rotate(s)
  PROVE  StoresOwn' /\ PassesOwn'
<1>0. SessionTypeOK
  BY DEF Base
<1>1. ASSUME NEW i \in Browsers
      PROVE  Holds(sessions', store'[i], i)
  <2>1. store[i] \in Opened /\ Holds(sessions, store[i], i)
    BY <1>0 DEF SessionTypeOK, Opened, StoresOwn
  <2>2. store'[i] = Overtake(s, store[i])
    BY <1>0, RotatedStore
  <2> QED
    BY <2>1, <2>2, HoldsKept
<1>2. ASSUME NEW i \in Browsers, pass'[i] # Idle
      PROVE  Holds(sessions', pass'[i].creds, i)
  <2>1. pass[i] # Idle /\ pass'[i].creds = Overtake(s, pass[i].creds)
    BY <1>0, <1>2, RotatedStore
  <2>2. pass[i].creds \in Opened /\ Holds(sessions, pass[i].creds, i)
    BY <1>0, <2>1, PassFields DEF SessionTypeOK, Opened, PassesOwn, Pass
  <2> QED
    BY <2>1, <2>2, HoldsKept
<1>3. StoresOwn'
  BY <1>1 DEF StoresOwn
<1>4. PassesOwn'
  BY <1>2 DEF PassesOwn
<1> QED
  BY <1>3, <1>4

LEMMA AskedOwn ==
  ASSUME Base, RequestsOwn, Grows(sessions, sessions'), NEW s \in Nat \ {0},
         NEW r \in refreshes
  PROVE  Holds(sessions', Asked(s, r).creds, Asked(s, r).browser)
<1>1. r \in Refresh /\ Holds(sessions, r.creds, r.browser)
  BY DEF Base, SessionTypeOK, RequestsOwn
<1>2. r.creds \in Opened
  BY <1>1 DEF Refresh, Opened
<1> QED
  BY <1>1, <1>2, HoldsKept, AskedFields

\* A claim that no step of its own moves.
LEMMA ClaimCarried ==
  ASSUME Base, ClaimsOwn, Grows(sessions, sessions'), Fixed(handoffs, handoffs'),
         NEW c \in Claims,
         claims'[c] = claims[c] \/ \E s \in Nat \ {0} : claims'[c] = Claiming(s, claims[c])
  PROVE  ClaimOwns(sessions', handoffs', claims'[c], BrowserOf[c])
<1> DEFINE i == BrowserOf[c]
<1>0. claims[c] \in Claim \cup {Idle, Done} /\ ClaimOwns(sessions, handoffs, claims[c], i)
  BY DEF Base, SessionTypeOK, ClaimsOwn
<1>1. CASE claims[c] \in {Idle, Done}
  <2>1. claims'[c] \in {Idle, Done}
    BY <1>0, <1>1, ClaimingFields
  <2> QED
    BY <2>1 DEF ClaimOwns, Idle, Done
<1>2. CASE claims[c] \in Claim
  <2>1. claims[c].handoff \in Handoffs /\ claims[c].creds \in Opened
    BY <1>2 DEF Claim, Opened
  <2>2. /\ claims'[c].at = claims[c].at /\ claims'[c].handoff = claims[c].handoff
        /\ claims'[c].consume = claims[c].consume /\ claims'[c].session = claims[c].session
        /\ \/ claims'[c].creds = claims[c].creds
           \/ \E s \in Nat \ {0} : claims'[c].creds = Overtake(s, claims[c].creds)
    BY <1>0, <1>2, ClaimingFields
  <2>3. Has(handoffs, claims[c].handoff, i) => Has(handoffs', claims[c].handoff, i)
    BY <2>1 DEF Has, Fixed
  <2>4. Holds(sessions, claims[c].creds, i) => Holds(sessions', claims'[c].creds, i)
    BY <2>1, <2>2, HoldsKept
  <2>5. claims[c].creds # SignedOut => claims'[c].creds # SignedOut
    BY <2>1, <2>2, OvertakeKeeps
  <2>6. \A s \in DOMAIN sessions :
           s \in DOMAIN sessions' /\ sessions'[s].installation = sessions[s].installation
    BY DEF Grows
  <2> QED
    BY <1>0, <2>2, <2>3, <2>4, <2>5, <2>6 DEF ClaimOwns
<1> QED
  BY <1>0, <1>1, <1>2


-----------------------------------------------------------------------------
(* Everything stays with its installation.                                     *)

\* A step of a claim that is no commit leaves the tables alone.
LEMMA TablesUnchanged ==
  ASSUME NEW c \in Claims, ClaimStep(c), ~ClaimCommits(c)
  PROVE  UNCHANGED <<sessions, handoffs, refreshes, pass>>
BY DEF ClaimStep, BeginClaim, ClaimFails, ClaimReads, ClaimWrites, ClaimAnswered,
       ClaimRefused, ClaimStored, LoseClaim, server

LEMMA MovedClaimOwns ==
  ASSUME Base, OwnInv, NEW c \in Claims, ClaimStep(c), ~ClaimCommits(c)
  PROVE  Moves(c) /\ ClaimOwns(sessions, handoffs, claims'[c], BrowserOf[c])
<1> DEFINE i == BrowserOf[c]
           h == claims[c].handoff
<1>0. SessionTypeOK /\ ClaimOwns(sessions, handoffs, claims[c], i)
  BY DEF Base, OwnInv, ClaimsOwn
<1>1. CASE BeginClaim(c)
  BY <1>0, <1>1, BegunClaim DEF ClaimOwns
<1>2. CASE ClaimFails(c) \/ ClaimRefused(c) \/ ClaimStored(c)
  BY <1>0, <1>2, EndedClaim DEF ClaimOwns, Done
<1>3. CASE ClaimReads(c)
  <2> DEFINE p == claims[c].installation
  <2>1. /\ Moves(c) /\ h \in Handoffs /\ claims'[c].at = "write" /\ claims'[c].handoff = h
        /\ p \in Claims
        /\ \/ /\ handoffs[h].session # 0 /\ handoffs[h].installation = p
              /\ claims'[c].session = handoffs[h].session
           \/ /\ claims'[c].consume
              /\ \/ claims'[c].session = 0
                 \/ /\ claims'[c].session \in DOMAIN sessions
                    /\ sessions[claims'[c].session].installation = p
    BY <1>0, <1>3, ReadClaim
  <2>2. BrowserOf[p] = i
    <3>1. claims[c].at = "read"
      BY <1>3 DEF ClaimReads
    <3> QED
      BY <3>1 DEF OwnInv, HomeInv, ClaimsHome, Idle, Done
  <2>3. handoffs[h].session # 0 => /\ handoffs[h].session \in DOMAIN sessions
                                   /\ BrowserOf[sessions[handoffs[h].session].installation]
                                        = BrowserOf[handoffs[h].installation]
    BY <2>1 DEF OwnInv, HandoffsOwn
  <2> QED
    BY <2>1, <2>2, <2>3 DEF ClaimOwns, Has
<1>4. CASE ClaimWrites(c)
  <2>1. /\ Moves(c) /\ h \in Handoffs /\ claims'[c].at = "commit" /\ claims'[c].handoff = h
        /\ \/ /\ claims'[c].consume = claims[c].consume
              /\ claims'[c].session = claims[c].session
           \/ /\ ~claims'[c].consume /\ handoffs[h].installation = claims[c].installation
              /\ handoffs[h].session # 0 /\ claims'[c].session = handoffs[h].session
        /\ claims[c].installation \in Claims
    BY <1>0, <1>4, WrittenClaim
  <2>2. claims[c].at = "write"
    BY <1>4 DEF ClaimWrites
  <2>3. handoffs[h].session # 0 => /\ handoffs[h].session \in DOMAIN sessions
                                   /\ BrowserOf[sessions[handoffs[h].session].installation]
                                        = BrowserOf[handoffs[h].installation]
    BY <2>1 DEF OwnInv, HandoffsOwn
  <2>4. BrowserOf[claims[c].installation] = i
    BY <2>2 DEF OwnInv, HomeInv, ClaimsHome, Idle, Done
  <2> QED
    BY <1>0, <2>1, <2>2, <2>3, <2>4 DEF ClaimOwns, Has
<1>5. CASE ClaimAnswered(c)
  <2>1. /\ Moves(c) /\ claims'[c].at = "store"
        /\ claims'[c].handoff = h /\ claims'[c].creds = claims[c].creds
    BY <1>0, <1>5, AnsweredClaim
  <2>2. claims[c].at = "answer"
    BY <1>5 DEF ClaimAnswered
  <2> QED
    BY <1>0, <2>1, <2>2 DEF ClaimOwns
<1>6. CASE LoseClaim(c)
  <2>1. /\ Moves(c)
        /\ \/ claims'[c] = Done
           \/ /\ claims[c].at \notin {"answer", "store"} /\ claims'[c].at = claims[c].at
              /\ claims'[c].handoff = h /\ claims'[c].consume = claims[c].consume
              /\ claims'[c].session = claims[c].session
    BY <1>0, <1>6, LostClaim
  <2> QED
    BY <1>0, <2>1 DEF ClaimOwns, Done
<1> QED
  BY <1>1, <1>2, <1>3, <1>4, <1>5, <1>6 DEF ClaimStep

\* Which claims consume, after such a step.
LEMMA MovedConsuming ==
  ASSUME Base, ConsumeInv, NEW c \in Claims, ClaimStep(c), ~ClaimCommits(c)
  PROVE  ConsumeInv'
<1>0. SessionTypeOK
  BY DEF Base
<1>1. handoffs' = handoffs
  BY TablesUnchanged
<1>2. CASE ClaimWrites(c)
  <2> DEFINE h == claims[c].handoff
  <2>1. /\ \A d \in Claims \ {c} : claims'[d] = claims[d]
        /\ claims'[c].handoff = h
        /\ \A d \in Claims \ {c} :
             ~(claims[d].at = "commit" /\ claims[d].consume /\ claims[d].handoff = h)
        /\ claims'[c].consume => handoffs[h].session = 0
    BY <1>0, <1>2, WrittenClaim DEF Moves
  <2> QED
    BY <1>1, <2>1 DEF ConsumeInv, Consuming
<1>3. CASE ~ClaimWrites(c)
  <2>1. /\ \A d \in Claims \ {c} : claims'[d] = claims[d]
        /\ \/ claims'[c].at # "commit"
           \/ /\ claims'[c].at = claims[c].at /\ claims'[c].handoff = claims[c].handoff
              /\ claims'[c].consume = claims[c].consume
    <3>1. CASE BeginClaim(c)
      BY <1>0, <3>1, BegunClaim DEF Moves
    <3>2. CASE ClaimFails(c) \/ ClaimRefused(c) \/ ClaimStored(c)
      BY <1>0, <3>2, EndedClaim DEF Moves, Done
    <3>3. CASE ClaimReads(c)
      BY <1>0, <3>3, ReadClaim DEF Moves
    <3>4. CASE ClaimAnswered(c)
      BY <1>0, <3>4, AnsweredClaim DEF Moves
    <3>5. CASE LoseClaim(c)
      BY <1>0, <3>5, LostClaim DEF Moves, Done
    <3> QED
      BY <1>3, <3>1, <3>2, <3>3, <3>4, <3>5 DEF ClaimStep
  <2> QED
    BY <1>1, <2>1 DEF ConsumeInv, Consuming
<1> QED
  BY <1>2, <1>3

LEMMA ClaimKeepsOwn ==
  ASSUME Base, OwnInv, HomeInv', NEW c \in Claims, ClaimStep(c), ~ClaimCommits(c)
  PROVE  OwnInv'
<1> DEFINE i == BrowserOf[c]
           h == claims[c].handoff
<1>0. /\ SessionTypeOK /\ ClaimOwns(sessions, handoffs, claims[c], i)
      /\ i \in Browsers
  BY SessionAssumption DEF Base, OwnInv, ClaimsOwn
<1>1. UNCHANGED <<sessions, handoffs, refreshes, pass>>
  BY TablesUnchanged
<1>2. HandoffsOwn' /\ RequestsOwn' /\ PassesOwn'
  BY <1>1 DEF OwnInv, HandoffsOwn, RequestsOwn, PassesOwn
<1>3. ClaimsOwn'
  <2>1. Moves(c) /\ ClaimOwns(sessions, handoffs, claims'[c], i)
    BY MovedClaimOwns
  <2>2. \A d \in Claims : ClaimOwns(sessions, handoffs, claims'[d], BrowserOf[d])
    BY <2>1 DEF Moves, OwnInv, ClaimsOwn
  <2> QED
    BY <1>1, <2>2 DEF ClaimsOwn
<1>4. ConsumeInv'
  BY MovedConsuming DEF OwnInv
<1>5. StoresOwn'
  <2>1. CASE ClaimStored(c)
    <3>1. store' = [store EXCEPT ![i] = claims[c].creds] /\ claims[c].at = "store"
      BY <2>1 DEF ClaimStored
    <3>2. Holds(sessions, claims[c].creds, i)
      BY <1>0, <3>1 DEF ClaimOwns
    <3>3. \A j \in Browsers : Holds(sessions, store'[j], j)
      BY <1>0, <3>1, <3>2 DEF OwnInv, StoresOwn, SessionTypeOK
    <3> QED
      BY <1>1, <3>3 DEF StoresOwn
  <2>2. CASE ~ClaimStored(c)
    <3>1. store' = store
      BY <2>2 DEF ClaimStep, BeginClaim, ClaimFails, ClaimReads, ClaimWrites, ClaimAnswered,
                  ClaimRefused, LoseClaim, client
    <3> QED
      BY <1>1, <3>1 DEF OwnInv, StoresOwn
  <2> QED
    BY <2>1, <2>2
<1>6. ReceivedOwn'
  <2>1. CASE ClaimAnswered(c)
    <3>1. received' = [received EXCEPT ![i] = received[i] \cup {h}] /\ claims[c].at = "answer"
      BY <2>1 DEF ClaimAnswered, SessionTypeOK
    <3>2. Has(handoffs, h, i)
      BY <1>0, <3>1 DEF ClaimOwns
    <3>3. \A j \in Browsers : \A g \in received'[j] : Has(handoffs, g, j)
      BY <1>0, <3>1, <3>2 DEF OwnInv, ReceivedOwn, SessionTypeOK
    <3> QED
      BY <1>1, <3>3 DEF ReceivedOwn
  <2>2. CASE ~ClaimAnswered(c)
    <3>1. received' = received
      BY <2>2 DEF ClaimStep, BeginClaim, ClaimFails, ClaimReads, ClaimWrites, ClaimCommits,
                  ClaimRefused, ClaimStored, LoseClaim, client
    <3> QED
      BY <1>1, <3>1 DEF OwnInv, ReceivedOwn
  <2> QED
    BY <2>1, <2>2
<1> QED
  BY <1>2, <1>3, <1>4, <1>5, <1>6 DEF OwnInv

LEMMA CommitKeepsOwn ==
  ASSUME Base, OwnInv, HomeInv', NEW c \in Claims, ClaimCommits(c),
         Grows(sessions, sessions'), Fixed(handoffs, handoffs')
  PROVE  OwnInv'
<1> DEFINE i == BrowserOf[c]
           h == claims[c].handoff
           s == SessionOf(c)
           p == claims[c].installation
<1>0. /\ SessionTypeOK /\ ClaimOwns(sessions, handoffs, claims[c], i)
      /\ i \in Browsers /\ claims[c].at = "commit"
      /\ HandoffsOwn /\ ClaimsOwn /\ StoresOwn /\ PassesOwn /\ RequestsOwn /\ ReceivedOwn
      /\ ConsumeInv
  BY SessionAssumption DEF Base, OwnInv, ClaimsOwn, ClaimCommits
<1>1. /\ s \in Nat \ {0} /\ Rotate(s) /\ h \in Handoffs /\ claims[c] \in Claim
      /\ handoffs' = IF claims[c].consume
                     THEN [handoffs EXCEPT ![h].session = s, ![h].installation = p]
                     ELSE handoffs
      /\ p \in Claims
      /\ \A d \in Claims \ {c} : claims'[d] = Claiming(s, claims[d])
      /\ \/ claims'[c] = Done
         \/ /\ claims'[c].at = "answer" /\ claims'[c].handoff = h
            /\ claims'[c].creds = Fresh(s)
      /\ refreshes' = {Asked(s, r) : r \in refreshes}
  BY <1>0, CommittedClaim
<1>home. BrowserOf[p] = i
  BY <1>0 DEF OwnInv, HomeInv, ClaimsHome, Idle, Done
<1>2. s \in DOMAIN sessions' /\ BrowserOf[sessions'[s].installation] = i
  <2>1. CASE claims[c].session = 0
    BY <1>0, <1>home, <2>1, CommittedSessions
  <2>2. CASE claims[c].session # 0
    BY <1>0, <2>2 DEF ClaimOwns, SessionOf, Grows
  <2> QED
    BY <2>1, <2>2
<1> HIDE DEF s
<1>3. UNCHANGED received
  BY DEF ClaimCommits
<1>4. StoresOwn' /\ PassesOwn'
  BY <1>0, <1>1, RotatedOwn
<1>5. RequestsOwn'
  BY <1>0, <1>1, AskedOwn DEF RequestsOwn
<1>6. ReceivedOwn'
  <2>1. \A j \in Browsers : received[j] \subseteq Handoffs
    BY <1>0 DEF SessionTypeOK
  <2> QED
    BY <1>0, <1>3, <2>1 DEF ReceivedOwn, Has, Fixed
<1>7. claims[c].consume => handoffs'[h].session = s /\ handoffs'[h].installation = p
                           /\ \A g \in Handoffs \ {h} : handoffs'[g] = handoffs[g]
  <2>1. handoffs[h] \in Handoff
    BY <1>0, <1>1 DEF SessionTypeOK
  <2> QED
    BY <1>0, <1>1, <2>1 DEF SessionTypeOK, Handoff
<1>8. HandoffsOwn'
  <2> SUFFICES ASSUME NEW g \in Handoffs, handoffs'[g].session # 0
               PROVE  /\ handoffs'[g].session \in DOMAIN sessions'
                      /\ BrowserOf[sessions'[handoffs'[g].session].installation]
                           = BrowserOf[handoffs'[g].installation]
    BY DEF HandoffsOwn
  <2>1. CASE handoffs'[g] = handoffs[g]
    BY <1>0, <2>1 DEF HandoffsOwn, Grows
  <2>2. CASE claims[c].consume /\ g = h
    BY <1>2, <1>home, <1>7, <2>2
  <2> QED
    BY <1>1, <1>7, <2>1, <2>2
<1>9. Has(handoffs', h, i)
  <2>1. CASE claims[c].consume
    BY <1>1, <1>home, <1>7, <2>1 DEF Has
  <2>2. CASE ~claims[c].consume
    BY <1>0, <1>1, <2>2 DEF ClaimOwns
  <2> QED
    BY <2>1, <2>2
<1>10. ClaimsOwn'
  <2>1. ASSUME NEW d \in Claims \ {c}
        PROVE  ClaimOwns(sessions', handoffs', claims'[d], BrowserOf[d])
    BY <1>0, <1>1, ClaimCarried
  <2>2. Fresh(s) # SignedOut /\ Holds(sessions', Fresh(s), i)
    BY <1>1, <1>2, FreshTypes DEF Holds
  <2>3. ClaimOwns(sessions', handoffs', claims'[c], i)
    BY <1>1, <1>9, <2>2 DEF ClaimOwns, Done
  <2> QED
    BY <2>1, <2>3 DEF ClaimsOwn
<1>11. ConsumeInv'
  <2>1. claims'[c].at # "commit"
    BY <1>1 DEF Done
  <2>2. ASSUME NEW d \in Claims, claims'[d].at = "commit", claims'[d].consume
        PROVE  Consuming(d) /\ claims'[d].handoff = claims[d].handoff /\ d # c
    <3>1. d # c /\ claims'[d] = Claiming(s, claims[d])
      BY <1>1, <2>1, <2>2
    <3>2. claims[d] \in Claim \cup {Idle, Done}
      BY <1>0 DEF SessionTypeOK
    <3>3. claims[d] \in Claim
      BY <2>2, <3>1, <3>2, <1>1, ClaimingFields DEF Idle, Done
    <3> QED
      BY <1>1, <2>2, <3>1, <3>3, ClaimingFields DEF Consuming
  <2>3. ASSUME NEW d \in Claims, Consuming(d)', NEW e \in Claims, Consuming(e)',
               claims'[d].handoff = claims'[e].handoff
        PROVE  d = e
    BY <1>0, <2>2, <2>3 DEF ConsumeInv, Consuming
  <2>4. ASSUME NEW d \in Claims, Consuming(d)'
        PROVE  handoffs'[claims'[d].handoff].session = 0
    <3>1. Consuming(d) /\ claims'[d].handoff = claims[d].handoff /\ d # c
      BY <2>2, <2>4 DEF Consuming
    <3>2. handoffs[claims[d].handoff].session = 0
      BY <1>0, <3>1 DEF ConsumeInv
    <3>3. claims[d].handoff \in Handoffs
      BY <1>0, <3>1, ClaimFields DEF Consuming, Claim, SessionTypeOK
    <3>4. claims[c].consume => claims[d].handoff # h
      BY <1>0, <3>1 DEF ConsumeInv, Consuming
    <3> QED
      BY <1>1, <1>7, <3>1, <3>2, <3>3, <3>4
  <2> QED
    BY <2>3, <2>4 DEF ConsumeInv
<1> QED
  BY <1>4, <1>5, <1>6, <1>8, <1>10, <1>11 DEF OwnInv


\* Steps that leave handoffs and calls alone, and overtake claims at most.
LEMMA CarriedOwn ==
  ASSUME Base, OwnInv, Grows(sessions, sessions'), UNCHANGED <<handoffs, received>>,
         \A c \in Claims : \/ claims'[c] = claims[c]
                           \/ \E s \in Nat \ {0} : claims'[c] = Claiming(s, claims[c])
  PROVE  HandoffsOwn' /\ ClaimsOwn' /\ ReceivedOwn' /\ ConsumeInv'
<1>0. HandoffsOwn /\ ClaimsOwn /\ ReceivedOwn /\ ConsumeInv /\ Fixed(handoffs, handoffs')
  BY DEF OwnInv, Fixed
<1>1. HandoffsOwn'
  BY <1>0 DEF HandoffsOwn, Grows
<1>2. ClaimsOwn'
  <2>1. ASSUME NEW c \in Claims
        PROVE  ClaimOwns(sessions', handoffs', claims'[c], BrowserOf[c])
    BY <1>0, ClaimCarried
  <2> QED
    BY <2>1 DEF ClaimsOwn
<1>3. ReceivedOwn'
  BY <1>0 DEF ReceivedOwn
<1>4. ConsumeInv'
  <2>1. ASSUME NEW c \in Claims, Consuming(c)'
        PROVE  Consuming(c) /\ claims'[c].handoff = claims[c].handoff
    <3>1. CASE claims'[c] = claims[c]
      BY <2>1, <3>1 DEF Consuming
    <3>2. ASSUME NEW s \in Nat \ {0}, claims'[c] = Claiming(s, claims[c])
          PROVE  Consuming(c) /\ claims'[c].handoff = claims[c].handoff
      <4>1. claims[c] \in Claim \cup {Idle, Done} /\ claims'[c].at = "commit"
        BY <2>1 DEF Base, SessionTypeOK, Consuming
      <4>2. claims[c] \in Claim
        BY <3>2, <4>1, ClaimingFields DEF Idle, Done
      <4> QED
        BY <2>1, <3>2, <4>2, ClaimingFields DEF Consuming
    <3> QED
      BY <3>1, <3>2
  <2> QED
    BY <1>0, <2>1 DEF ConsumeInv
<1> QED
  BY <1>1, <1>2, <1>3, <1>4

LEMMA LogoutKeepsOwn ==
  ASSUME Base, OwnInv, HomeInv', NEW l \in Logins, Logout(l), Grows(sessions, sessions')
  PROVE  OwnInv'
<1>0. SessionTypeOK
  BY DEF Base
<1>1. UNCHANGED <<handoffs, claims, refreshes, store, received, pass>>
  BY DEF Logout, client
<1>2. HandoffsOwn' /\ ClaimsOwn' /\ ReceivedOwn' /\ ConsumeInv'
  BY <1>1, CarriedOwn
<1>3. StoresOwn'
  BY <1>1 DEF OwnInv, StoresOwn, Holds, Grows
<1>4. PassesOwn'
  BY <1>1 DEF OwnInv, PassesOwn, Holds, Grows
<1>5. RequestsOwn'
  BY <1>1 DEF OwnInv, RequestsOwn, Holds, Grows
<1> QED
  BY <1>2, <1>3, <1>4, <1>5 DEF OwnInv

LEMMA PassKeepsOwn ==
  ASSUME Base, OwnInv, HomeInv', NEW i \in Browsers, PassStep(i), Grows(sessions, sessions')
  PROVE  OwnInv'
<1>0. SessionTypeOK /\ StoresOwn /\ PassesOwn /\ RequestsOwn
  BY DEF Base, OwnInv
<1>1. UNCHANGED <<handoffs, received, claims>>
  BY DEF PassStep, StartPass, SendServed, SendRefused, RefreshAnswered, ClearCredentials, server,
         client
<1>2. HandoffsOwn' /\ ClaimsOwn' /\ ReceivedOwn' /\ ConsumeInv'
  BY <1>1, CarriedOwn
<1>3. \A creds, j : Holds(sessions, creds, j) => Holds(sessions', creds, j)
  BY DEF Holds, Grows
<1>4. CASE StartPass(i)
  <2>1. /\ pass' = [pass EXCEPT ![i] = [at |-> "send", creds |-> store[i],
                                        installation |-> ids[i], refreshed |-> FALSE]]
        /\ UNCHANGED <<refreshes, store>>
    BY <1>4 DEF StartPass, client
  <2>2. StoresOwn' /\ RequestsOwn'
    BY <1>0, <1>3, <2>1 DEF StoresOwn, RequestsOwn
  <2>3. pass'[i].creds = store[i] /\ \A j \in Browsers \ {i} : pass'[j] = pass[j]
    BY <1>0, <2>1 DEF SessionTypeOK
  <2>4. PassesOwn'
    BY <1>0, <1>3, <2>3 DEF PassesOwn, StoresOwn
  <2> QED
    BY <1>2, <2>2, <2>4 DEF OwnInv
<1>5. CASE SendServed(i)
  <2>1. pass' = [pass EXCEPT ![i] = Idle] /\ UNCHANGED <<refreshes, store>>
    BY <1>5 DEF SendServed, client
  <2>2. StoresOwn' /\ RequestsOwn'
    BY <1>0, <1>3, <2>1 DEF StoresOwn, RequestsOwn
  <2>3. PassesOwn'
    BY <1>0, <1>3, <2>1 DEF PassesOwn, SessionTypeOK
  <2> QED
    BY <1>2, <2>2, <2>3 DEF OwnInv
<1>6. CASE SendRefused(i)
  <2>1. /\ pass[i] \in Pass
        /\ \A j \in Browsers \ {i} : pass'[j] = pass[j]
        /\ \/ pass'[i] = Idle /\ refreshes' = refreshes
           \/ /\ pass'[i].creds = pass[i].creds
              /\ \E x : /\ x.browser = i /\ x.creds = pass[i].creds
                        /\ refreshes' = refreshes \cup {x}
    BY <1>0, <1>6, RefusedSend
  <2>2. UNCHANGED store
    BY <1>6 DEF SendRefused, client
  <2>3. Holds(sessions', pass[i].creds, i)
    BY <1>0, <1>3, <2>1, PassFields DEF PassesOwn
  <2>4. StoresOwn'
    BY <1>0, <1>3, <2>2 DEF StoresOwn
  <2>5. RequestsOwn'
    BY <1>0, <1>3, <2>1, <2>3 DEF RequestsOwn
  <2>6. PassesOwn'
    BY <1>0, <1>3, <2>1, <2>3 DEF PassesOwn
  <2> QED
    BY <1>2, <2>4, <2>5, <2>6 DEF OwnInv
<1>7. CASE RefreshAnswered(i)
  <2>1. pass[i] \in Pass /\ \A j \in Browsers \ {i} : pass'[j] = pass[j]
    BY <1>7, AnsweredRefresh
  <2>2. PICK r \in refreshes :
           /\ Takes(i, r)
           /\ \/ pass'[i].creds = pass[i].creds /\ store' = store
              \/ pass'[i].creds = r.creds /\ store' = [store EXCEPT ![i] = r.creds]
    BY <1>7, AnsweredRefresh
  <2>3. Holds(sessions', r.creds, i) /\ Holds(sessions', pass[i].creds, i)
    BY <1>0, <1>3, <2>1, <2>2, PassFields DEF RequestsOwn, PassesOwn, Takes
  <2>4. StoresOwn'
    BY <1>0, <1>3, <2>2, <2>3 DEF StoresOwn, SessionTypeOK
  <2>5. RequestsOwn'
    BY <1>0, <1>3, <2>2 DEF RequestsOwn, Takes
  <2>6. PassesOwn'
    BY <1>0, <1>3, <2>1, <2>2, <2>3 DEF PassesOwn
  <2> QED
    BY <1>2, <2>4, <2>5, <2>6 DEF OwnInv
<1>8. CASE ClearCredentials(i)
  <2>1. /\ pass' = [pass EXCEPT ![i] = Idle] /\ store' = [store EXCEPT ![i] = SignedOut]
        /\ UNCHANGED refreshes
    BY <1>0, <1>8, ClearedCredentials
  <2>2. StoresOwn'
    BY <1>0, <1>3, <2>1 DEF StoresOwn, SessionTypeOK, Holds
  <2>3. RequestsOwn' /\ PassesOwn'
    BY <1>0, <1>3, <2>1 DEF RequestsOwn, PassesOwn, SessionTypeOK
  <2> QED
    BY <1>2, <2>2, <2>3 DEF OwnInv
<1> QED
  BY <1>4, <1>5, <1>6, <1>7, <1>8 DEF PassStep

LEMMA RefreshKeepsOwn ==
  ASSUME Base, OwnInv, HomeInv', NEW r \in refreshes, RefreshStep(r), Grows(sessions, sessions')
  PROVE  OwnInv'
<1>0. SessionTypeOK /\ StoresOwn /\ PassesOwn /\ RequestsOwn /\ r.browser \in Browsers
  BY DEF Base, OwnInv, SessionTypeOK, Refresh
<1>1. UNCHANGED <<handoffs, received>>
  BY OthersTyped
<1>2. \A creds, j : Holds(sessions, creds, j) => Holds(sessions', creds, j)
  BY DEF Holds, Grows
<1>3. Holds(sessions', r.creds, r.browser) /\ Holds(sessions', SignedOut, r.browser)
  BY <1>0, <1>2 DEF RequestsOwn, Holds
<1>4. CASE ~RefreshRotates(r)
  <2>1. UNCHANGED <<claims, store>>
    BY <1>4 DEF RefreshStep, RefreshFinds, RefreshChecks, RefreshRevokes, LoseRefresh, client
  <2>2. HandoffsOwn' /\ ClaimsOwn' /\ ReceivedOwn' /\ ConsumeInv'
    BY <1>1, <2>1, CarriedOwn
  <2>3. StoresOwn'
    BY <1>0, <1>2, <2>1 DEF StoresOwn
  <2>4. PassesOwn'
    <3>1. pass' = pass \/ pass' = [pass EXCEPT ![r.browser] = Idle]
      BY <1>4 DEF RefreshStep, RefreshFinds, RefreshChecks, RefreshRevokes, LoseRefresh
    <3> QED
      BY <1>0, <1>2, <3>1 DEF PassesOwn, SessionTypeOK
  <2>5. \E x : /\ refreshes' \subseteq (refreshes \ {r}) \cup {x}
               /\ x.browser = r.browser
               /\ x.creds = r.creds \/ x.creds = SignedOut
    <3>1. CASE LoseRefresh(r)
      BY <1>0, <3>1, LostRefresh
    <3>2. CASE ~LoseRefresh(r)
      <4>1. PICK x : /\ Becomes(r, x) /\ Replaced(r, x, ~r.awaited)
                     /\ x.creds = r.creds \/ x.creds = SignedOut
        BY <1>0, <1>4, <3>2, FoundRefresh, CheckedRefresh, RefusedRefresh DEF RefreshStep
      <4>2. x.browser = r.browser
        BY <4>1 DEF Becomes
      <4>3. refreshes' \subseteq (refreshes \ {r}) \cup {x}
        BY <4>1 DEF Replaced
      <4> QED
        BY <4>1, <4>2, <4>3
    <3> QED
      BY <3>1, <3>2
  <2>6. RequestsOwn'
    BY <1>0, <1>2, <1>3, <2>5 DEF RequestsOwn
  <2> QED
    BY <2>2, <2>3, <2>4, <2>6 DEF OwnInv
<1>5. CASE RefreshRotates(r)
  <2> DEFINE s == r.creds.session
  <2>1. /\ s \in Nat \ {0} /\ r.creds \in Credentials /\ Rotate(s) /\ UNCHANGED sessions
        /\ \A c \in Claims : claims'[c] = Claiming(s, claims[c])
    BY <1>5, RotatedRefresh
  <2>2. PICK x : /\ Becomes(r, x) /\ x.creds = Fresh(s)
                 /\ refreshes' \subseteq {Asked(s, q) : q \in refreshes \ {r}} \cup {x}
    BY <1>5, RotatedRefresh
  <2>3. s \in DOMAIN sessions' /\ BrowserOf[sessions'[s].installation] = r.browser
    <3>1. r.creds # SignedOut
      BY <2>1 DEF Credentials, SignedOut
    <3> QED
      BY <1>3, <3>1 DEF Holds
  <2> HIDE DEF s
  <2>4. HandoffsOwn' /\ ClaimsOwn' /\ ReceivedOwn' /\ ConsumeInv'
    BY <1>1, <2>1, CarriedOwn
  <2>5. StoresOwn' /\ PassesOwn'
    BY <1>0, <2>1, RotatedOwn
  <2>6. Holds(sessions', x.creds, x.browser)
    BY <2>1, <2>2, <2>3, FreshTypes DEF Holds, Becomes
  <2>7. \A q \in refreshes : Holds(sessions', Asked(s, q).creds, Asked(s, q).browser)
    BY <1>0, <2>1, AskedOwn
  <2>8. RequestsOwn'
    BY <2>2, <2>6, <2>7 DEF RequestsOwn
  <2> QED
    BY <2>4, <2>5, <2>8 DEF OwnInv
<1> QED
  BY <1>4, <1>5

LEMMA StepKeepsOwn ==
  ASSUME Base, OwnInv, [SessionNext]_sessionVars
  PROVE  OwnInv'
<1>1. Grows(sessions, sessions') /\ Fixed(handoffs, handoffs') /\ HomeInv'
  BY SessionsGrow, HandoffsFixed, StepKeepsHome DEF OwnInv
<1>2. CASE SessionNext
  BY <1>1, <1>2, SessionSplit, LogoutKeepsOwn, ClaimKeepsOwn, CommitKeepsOwn, PassKeepsOwn,
     RefreshKeepsOwn
<1>3. CASE UNCHANGED sessionVars
  <2>1. UNCHANGED <<sessions, handoffs, claims, refreshes, store, received, pass>>
    BY <1>3 DEF sessionVars, server, client
  <2>2. HandoffsOwn' /\ ClaimsOwn' /\ ReceivedOwn' /\ ConsumeInv'
    BY <1>1, <2>1, CarriedOwn
  <2>3. StoresOwn' /\ PassesOwn' /\ RequestsOwn'
    BY <2>1 DEF OwnInv, StoresOwn, PassesOwn, RequestsOwn
  <2> QED
    BY <1>1, <2>2, <2>3 DEF OwnInv
<1> QED
  BY <1>2, <1>3

LEMMA InitiallyOwn == SessionInit => OwnInv
<1> SUFFICES ASSUME SessionInit PROVE OwnInv
  OBVIOUS
<1>1. \A h \in Handoffs : handoffs[h].session = 0
  BY DEF SessionInit
<1>2. HandoffsOwn
  BY <1>1 DEF HandoffsOwn
<1>3. ClaimsOwn /\ ConsumeInv
  BY DEF SessionInit, ClaimsOwn, ClaimOwns, ConsumeInv, Consuming, Idle
<1>4. StoresOwn /\ PassesOwn /\ RequestsOwn /\ ReceivedOwn
  BY DEF SessionInit, StoresOwn, PassesOwn, RequestsOwn, ReceivedOwn, Holds
<1> QED
  BY <1>2, <1>3, <1>4, InitiallyHome DEF OwnInv

\* What the steps of ExtensionSession keep.
LEMMA SessionsOwn == SessionSpec => [](Base /\ OwnInv)
<1>1. SessionInit => Base /\ OwnInv
  BY InitiallyBase, InitiallyOwn
<1>2. Base /\ OwnInv /\ [SessionNext]_sessionVars => (Base /\ OwnInv)'
  BY StepKeepsBase, StepKeepsOwn
<1> QED
  BY <1>1, <1>2, PTL DEF SessionSpec

(* Handoffs and sessions stay with the browser they were issued to, under any  *)
(* of its ids, for any number of claims, refreshes and faults: the code        *)
(* of claimInstallationSession, refreshInstallationSession and the two writers *)
(* of storage.local.                                                           *)
THEOREM SessionsStay == SessionSpec => []SessionInv
<1>1. Base /\ OwnInv => SessionInv
  <2> SUFFICES ASSUME Base, OwnInv PROVE SessionInv
    OBVIOUS
  <2>1. KeepsToItsInstallation
    BY DEF OwnInv, StoresOwn, ReceivedOwn, Holds, Has, KeepsToItsInstallation
  <2> QED
    BY <2>1 DEF Base, SessionInv
<1> QED
  BY <1>1, SessionsOwn, PTL

(* No claim changes who has a handoff that was consumed, or the session it     *)
(* leads to, however many race for it: consumeHandoff.                         *)
THEOREM HandoffsClaimedOnce == SessionSpec => ClaimedOnce
<1>1. Base /\ OwnInv /\ [SessionNext]_sessionVars
        => [\A h \in Handoffs :
              handoffs[h].session # 0
                => /\ handoffs'[h].session = handoffs[h].session
                   /\ handoffs'[h].installation = handoffs[h].installation]_sessionVars
  BY HandoffsFixed DEF OwnInv, Fixed
<1> QED
  BY <1>1, SessionsOwn, PTL DEF SessionSpec, ClaimedOnce


-----------------------------------------------------------------------------
(* While nothing overlaps and nothing is lost.                                 *)

Live == {s \in DOMAIN sessions : ~sessions[s].revoked}

OneLive == \A s, t \in Live : s = t

\* A claim in flight is the only thing in flight.
Alone ==
  \A c \in Flying :
     /\ \A d \in Flying : d = c
     /\ refreshes = {} /\ claims[c].heard
     /\ \A i \in Browsers : pass[i] = Idle

AllAwaited == \A r \in refreshes : r.awaited

AtAnswer(c) == claims[c].at \in {"answer", "store"}

\* The tokens in storage are the last ones, or those are on their way, or they
\* are about to be cleared.
UpToDate(i) ==
  \/ store[i] = SignedOut \/ store[i].current
  \/ \E r \in refreshes : r.browser = i /\ r.at = "answer"
  \/ \E c \in Claims : BrowserOf[c] = i /\ AtAnswer(c)
  \/ pass[i] # Idle /\ pass[i].at = "clear"

CurrentInv ==
  /\ \A i \in Browsers : UpToDate(i)
  /\ \A r \in refreshes : r.at = "answer" => r.creds = SignedOut \/ r.creds.current
  /\ \A c \in Claims : AtAnswer(c) => claims[c].creds.current

\* A transaction revokes every session that is alive but its own.
CommitInv ==
  \A c \in Claims :
     claims[c].at = "commit" => Live \subseteq claims[c].revoke \cup {claims[c].session}

CleanInv == clean => OneLive /\ Alone /\ AllAwaited /\ CurrentInv /\ CommitInv

\* Only a commit makes a session.
LEMMA NoSessionMade ==
  ASSUME Base, SessionNext, \A c \in Claims : ~ClaimCommits(c)
  PROVE  Live' \subseteq Live
<1>0. SessionTypeOK /\ sessions \in Seq(Session)
  BY DEF Base, SessionTypeOK
<1>1. sessions' = sessions \/ \E revoke : sessions' = Revoked(sessions, revoke)
  <2>1. ASSUME NEW l \in Logins, Logout(l)
        PROVE  \E revoke : sessions' = Revoked(sessions, revoke)
    BY <2>1 DEF Logout
  <2>2. ASSUME NEW c \in Claims, ClaimStep(c)
        PROVE  sessions' = sessions
    BY <2>2, TablesUnchanged
  <2>3. ASSUME NEW i \in Browsers, PassStep(i)
        PROVE  sessions' = sessions \/ \E revoke : sessions' = Revoked(sessions, revoke)
    <3>1. CASE SendRefused(i)
      <4>1. \/ sessions' = sessions
            \/ sessions' = Revoked(sessions, {pass[i].creds.session})
        BY <1>0, <3>1, RefusedSend
      <4> QED
        BY <4>1
    <3>2. CASE ~SendRefused(i)
      BY <2>3, <3>2 DEF PassStep, StartPass, SendServed, RefreshAnswered, ClearCredentials,
                        server
    <3> QED
      BY <3>1, <3>2
  <2>4. ASSUME NEW r \in refreshes, RefreshStep(r)
        PROVE  sessions' = sessions \/ sessions' = Revoked(sessions, {r.creds.session})
    BY <2>4 DEF RefreshStep, RefreshFinds, RefreshChecks, RefreshRevokes, RefreshRotates,
                LoseRefresh, server
  <2> QED
    BY <2>1, <2>2, <2>3, <2>4, SessionSplit
<1>2. Grows(sessions, sessions')
  BY SessionsGrow
<1>3. DOMAIN sessions' = DOMAIN sessions
  BY <1>0, <1>1, RevokedRows
<1> QED
  BY <1>2, <1>3 DEF Live, Grows

\* Steps that change nothing of it but revoke sessions.
LEMMA LiveFalls ==
  ASSUME OneLive, CommitInv, Live' \subseteq Live, UNCHANGED claims
  PROVE  OneLive' /\ CommitInv'
<1>1. OneLive'
  BY DEF OneLive
<1>2. CommitInv'
  BY DEF CommitInv
<1> QED
  BY <1>1, <1>2

\* Where each step of a claim starts.
LEMMA StartsAt ==
  ASSUME NEW c \in Claims
  PROVE  /\ BeginClaim(c) => claims[c].at = "idle"
         /\ ClaimFails(c) => claims[c].at \in {"read", "write", "commit"}
         /\ ClaimReads(c) => claims[c].at = "read"
         /\ ClaimWrites(c) => claims[c].at = "write"
         /\ ClaimCommits(c) => claims[c].at = "commit"
         /\ ClaimAnswered(c) => claims[c].at = "answer"
         /\ ClaimStored(c) => claims[c].at = "store"
<1>1. BeginClaim(c) => claims[c].at = "idle"
  BY DEF BeginClaim, Idle
<1>2. ClaimFails(c) => claims[c].at \in {"read", "write", "commit"}
  BY DEF ClaimFails
<1>3. ClaimReads(c) => claims[c].at = "read"
  BY DEF ClaimReads
<1>4. ClaimWrites(c) => claims[c].at = "write"
  BY DEF ClaimWrites
<1>5. ClaimCommits(c) => claims[c].at = "commit"
  BY DEF ClaimCommits
<1>6. ClaimAnswered(c) => claims[c].at = "answer"
  BY DEF ClaimAnswered
<1>7. ClaimStored(c) => claims[c].at = "store"
  BY DEF ClaimStored
<1> QED
  BY <1>1, <1>2, <1>3, <1>4, <1>5, <1>6, <1>7

\* A claim that moves is in flight, so everything else rests.
LEMMA MovingAlone ==
  ASSUME Base, Alone, NEW c \in Claims, ClaimStep(c), ~BeginClaim(c)
  PROVE  /\ claims[c] \in Claim /\ c \in Flying /\ claims[c].heard /\ refreshes = {}
         /\ \A i \in Browsers : pass[i] = Idle
         /\ \A d \in Claims \ {c} : d \notin Flying /\ claims[d] \in {Idle, Done}
<1>1. claims[c] \in Claim
  BY ClaimFields
     DEF Base, SessionTypeOK, ClaimStep, ClaimFails, ClaimReads, ClaimWrites, ClaimCommits,
         ClaimAnswered, ClaimRefused, ClaimStored, LoseClaim, Flying
<1>2. c \in Flying
  BY <1>1, ClaimFields DEF Flying
<1> QED
  BY <1>1, <1>2 DEF Alone, Flying

LEMMA ClaimKeepsClean ==
  ASSUME Base, OwnInv, CleanInv, NEW c \in Claims, ClaimStep(c), ~ClaimCommits(c)
  PROVE  CleanInv'
<1> SUFFICES ASSUME clean'
             PROVE  (OneLive /\ Alone /\ AllAwaited /\ CurrentInv /\ CommitInv)'
  BY DEF CleanInv
<1>0. SessionTypeOK /\ BrowserOf[c] \in Browsers
  BY SessionAssumption DEF Base
<1>1. /\ clean /\ ~ClaimRefused(c) /\ ~LoseClaim(c)
      /\ BeginClaim(c) => ~Busy /\ claims[c] = Idle
  BY <1>0 DEF ClaimStep, BeginClaim, ClaimFails, ClaimReads, ClaimWrites, ClaimCommits,
              ClaimAnswered, ClaimStored, ClaimRefused, LoseClaim, SessionTypeOK
<1>2. OneLive /\ Alone /\ AllAwaited /\ CurrentInv /\ CommitInv
  BY <1>1 DEF CleanInv
<1>3. UNCHANGED <<sessions, refreshes, pass>> /\ Live' = Live
  BY TablesUnchanged DEF Live
<1>4. OneLive' /\ AllAwaited'
  BY <1>2, <1>3 DEF OneLive, AllAwaited
<1>5. refreshes = {} /\ (\A i \in Browsers : pass[i] = Idle)
      /\ \A d \in Claims \ {c} : claims[d] \in {Idle, Done}
  BY <1>1, <1>2, MovingAlone DEF Busy, Flying
<1>heard. ~BeginClaim(c) => claims[c].heard
  BY <1>2, MovingAlone
<1>6. Moves(c) /\ claims'[c] \in Claim \cup {Done}
      /\ (claims'[c] \in Claim => claims'[c].heard)
      /\ (claims'[c].at = "commit" => ClaimWrites(c))
      /\ (AtAnswer(c)' => ClaimAnswered(c))
  <2>1. CASE BeginClaim(c)
    BY <1>0, <2>1, BegunClaim DEF AtAnswer
  <2>2. CASE ClaimFails(c) \/ ClaimStored(c)
    BY <1>0, <2>2, EndedClaim DEF AtAnswer, Done, Claim
  <2>3. CASE ClaimReads(c)
    <3>1. claims[c].heard
      BY <1>heard, <2>3, StartsAt
    <3> QED
      BY <1>0, <2>3, <3>1, ReadClaim DEF AtAnswer
  <2>4. CASE ClaimWrites(c)
    <3>1. claims[c].heard
      BY <1>heard, <2>4, StartsAt
    <3> QED
      BY <1>0, <2>4, <3>1, WrittenClaim DEF AtAnswer
  <2>5. CASE ClaimAnswered(c)
    <3>1. claims[c].heard
      BY <1>heard, <2>5, StartsAt
    <3> QED
      BY <1>0, <2>5, <3>1, AnsweredClaim DEF AtAnswer
  <2> QED
    BY <1>1, <2>1, <2>2, <2>3, <2>4, <2>5 DEF ClaimStep
<1>7. \A d \in Claims \ {c} : claims'[d] \in {Idle, Done} /\ claims'[d] = claims[d]
  BY <1>5, <1>6 DEF Moves
<1>8. Alone'
  <2>1. \A d \in Flying' : d = c
    BY <1>7 DEF Flying
  <2>2. c \in Flying' => claims'[c] \in Claim
    BY <1>6 DEF Flying
  <2> QED
    BY <1>3, <1>5, <1>6, <2>1, <2>2 DEF Alone
<1>9. CommitInv'
  <2> SUFFICES ASSUME NEW d \in Claims, claims'[d].at = "commit"
               PROVE  Live \subseteq claims'[d].revoke \cup {claims'[d].session}
    BY <1>3 DEF CommitInv
  <2>1. d = c
    BY <1>7 DEF Idle, Done
  <2>2. claims'[c].revoke
          = {o \in DOMAIN sessions \ {claims'[c].session} : ~sessions[o].revoked}
    BY <1>0, <1>6, <2>1, WrittenClaim
  <2> QED
    BY <2>1, <2>2 DEF Live
<1>10. \A d \in Claims : AtAnswer(d) => d = c
  BY <1>5 DEF AtAnswer, Idle, Done
<1>11. \A d \in Claims : AtAnswer(d)' => d = c /\ ClaimAnswered(c)
  BY <1>6, <1>7 DEF AtAnswer, Idle, Done
<1>12. ClaimAnswered(c) => /\ AtAnswer(c) /\ AtAnswer(c)'
                           /\ claims'[c].creds = claims[c].creds
  BY <1>0, AnsweredClaim DEF AtAnswer, ClaimAnswered
<1>13. CurrentInv'
  <2>1. \A d \in Claims : AtAnswer(d)' => claims'[d].creds.current
    BY <1>2, <1>11, <1>12 DEF CurrentInv
  <2>2. ASSUME NEW i \in Browsers
        PROVE  UpToDate(i)'
    <3>1. CASE ClaimStored(c)
      <4>1. store' = [store EXCEPT ![BrowserOf[c]] = claims[c].creds] /\ AtAnswer(c)
        BY <3>1 DEF ClaimStored, AtAnswer
      <4>2. claims[c].creds.current
        BY <1>2, <4>1 DEF CurrentInv
      <4>3. i # BrowserOf[c] => store[i] = SignedOut \/ store[i].current
        BY <1>2, <1>5, <1>10 DEF CurrentInv, UpToDate
      <4>4. store'[i] = IF i = BrowserOf[c] THEN claims[c].creds ELSE store[i]
        BY <1>0, <4>1 DEF SessionTypeOK
      <4> QED
        BY <4>2, <4>3, <4>4 DEF UpToDate
    <3>2. CASE ~ClaimStored(c)
      <4>1. store' = store
        BY <3>2 DEF ClaimStep, BeginClaim, ClaimFails, ClaimReads, ClaimWrites, ClaimAnswered,
                    ClaimRefused, LoseClaim, client
      <4>2. AtAnswer(c) => ClaimAnswered(c)
        BY <1>1, <3>2, StartsAt DEF ClaimStep, AtAnswer
      <4>3. UpToDate(i) /\ \A d \in Claims : AtAnswer(d) => AtAnswer(d)'
        BY <1>2, <1>10, <1>12, <4>2 DEF CurrentInv
      <4> QED
        BY <1>3, <4>1, <4>3 DEF UpToDate
    <3> QED
      BY <3>1, <3>2
  <2> QED
    BY <1>2, <1>3, <2>1, <2>2 DEF CurrentInv
<1> QED
  BY <1>4, <1>8, <1>9, <1>13


LEMMA CommitKeepsClean ==
  ASSUME Base, OwnInv, CleanInv, NEW c \in Claims, ClaimCommits(c)
  PROVE  CleanInv'
<1> SUFFICES ASSUME clean'
             PROVE  (OneLive /\ Alone /\ AllAwaited /\ CurrentInv /\ CommitInv)'
  BY DEF CleanInv
<1> DEFINE i == BrowserOf[c]
           s == SessionOf(c)
<1>0. /\ SessionTypeOK /\ i \in Browsers /\ sessions \in Seq(Session)
      /\ claims[c].at = "commit"
  BY SessionAssumption, StartsAt DEF Base, SessionTypeOK
<1>1. OneLive /\ Alone /\ AllAwaited /\ CurrentInv /\ CommitInv
  BY DEF CleanInv, ClaimCommits
<1>2. /\ claims[c].heard /\ refreshes = {}
      /\ \A j \in Browsers : pass[j] = Idle
      /\ \A d \in Claims \ {c} : claims[d] \in {Idle, Done}
  BY <1>0, <1>1, MovingAlone, StartsAt DEF ClaimStep
<1>3. /\ s \in Nat \ {0} /\ Rotate(s)
      /\ \A d \in Claims \ {c} : claims'[d] = Claiming(s, claims[d])
      /\ claims'[c] \in Claim /\ claims'[c].at = "answer" /\ claims'[c].heard
      /\ claims'[c].creds = Fresh(s)
      /\ refreshes' = {Asked(s, r) : r \in refreshes}
  BY <1>0, <1>2, CommittedClaim
<1>4. refreshes' = {} /\ \A d \in Claims \ {c} : claims'[d] \in {Idle, Done}
  <2>1. refreshes' = {}
    BY <1>2, <1>3
  <2>2. ASSUME NEW d \in Claims \ {c}
        PROVE  claims'[d] \in {Idle, Done}
    <3>1. claims[d] \in {Idle, Done} /\ claims'[d] = Claiming(s, claims[d])
      BY <1>2, <1>3
    <3> QED
      BY <3>1 DEF Claiming
  <2> QED
    BY <2>1, <2>2
<1>5. \A j \in Browsers : pass'[j] = Idle
  BY <1>0, <1>2, <1>3, RotatedStore
<1>6. Live' \subseteq {s}
  <2> SUFFICES ASSUME NEW o \in Live' PROVE o = s
    OBVIOUS
  <2>1. /\ o \in DOMAIN sessions' /\ ~sessions'[o].revoked
    BY DEF Live
  <2>2. /\ DOMAIN sessions' = DOMAIN sessions \cup (IF claims[c].session = 0 THEN {s} ELSE {})
        /\ \A p \in DOMAIN sessions :
              sessions'[p].revoked = (sessions[p].revoked \/ p \in claims[c].revoke)
    BY <1>0, CommittedSessions
  <2>3. o \in DOMAIN sessions => o \in Live /\ o \notin claims[c].revoke
    BY <2>1, <2>2 DEF Live
  <2>4. o \in DOMAIN sessions => o = claims[c].session
    BY <1>0, <1>1, <2>3 DEF CommitInv
  <2>5. o \in DOMAIN sessions => o # 0
    BY <1>0
  <2> QED
    BY <2>1, <2>2, <2>4, <2>5 DEF SessionOf
<1>7. OneLive' /\ AllAwaited'
  BY <1>4, <1>6 DEF OneLive, AllAwaited
<1>8. Alone' /\ CommitInv'
  BY <1>3, <1>4, <1>5 DEF Alone, CommitInv, Flying, Idle, Done
<1>9. AtAnswer(c)' /\ \A d \in Claims : AtAnswer(d)' => d = c
  BY <1>3, <1>4 DEF AtAnswer, Idle, Done
<1>10. ASSUME NEW j \in Browsers, j # i
       PROVE  store'[j] = SignedOut \/ store'[j].current
  <2>1. store[j] \in Opened /\ store'[j] = Overtake(s, store[j])
    BY <1>0, <1>3, RotatedStore DEF SessionTypeOK, Opened
  <2>2. \A d \in Claims : AtAnswer(d) => d = c
    BY <1>2 DEF AtAnswer, Idle, Done
  <2>3. store[j] = SignedOut \/ store[j].current
    BY <1>0, <1>1, <1>2, <1>10, <2>2 DEF CurrentInv, UpToDate, AtAnswer
  <2>4. store[j] # SignedOut => store[j].session # s
    <3>1. store[j] # SignedOut => /\ store[j].session \in DOMAIN sessions
                                  /\ BrowserOf[sessions[store[j].session].installation] = j
      BY DEF OwnInv, StoresOwn, Holds
    <3>2. claims[c].session # 0 => BrowserOf[sessions[claims[c].session].installation] = i
      BY <1>0 DEF OwnInv, ClaimsOwn, ClaimOwns
    <3>3. claims[c].session = 0 => s \notin DOMAIN sessions
      BY <1>0, CommittedSessions
    <3> QED
      BY <1>10, <3>1, <3>2, <3>3 DEF SessionOf
  <2> QED
    BY <1>3, <2>1, <2>3, <2>4, OvertakeKeeps
<1>11. CurrentInv'
  <2>1. \A j \in Browsers : UpToDate(j)'
    BY <1>9, <1>10 DEF UpToDate
  <2>2. claims'[c].creds.current
    BY <1>3, FreshTypes
  <2> QED
    BY <1>4, <1>9, <2>1, <2>2 DEF CurrentInv
<1> QED
  BY <1>7, <1>8, <1>11

LEMMA LogoutKeepsClean ==
  ASSUME Base, CleanInv, NEW l \in Logins, Logout(l), Live' \subseteq Live
  PROVE  CleanInv'
<1> SUFFICES ASSUME clean'
             PROVE  (OneLive /\ Alone /\ AllAwaited /\ CurrentInv /\ CommitInv)'
  BY DEF CleanInv
<1>1. UNCHANGED <<claims, refreshes, store, pass, clean>>
  BY DEF Logout, client
<1>2. OneLive /\ Alone /\ AllAwaited /\ CurrentInv /\ CommitInv
  BY <1>1 DEF CleanInv
<1>3. OneLive' /\ CommitInv'
  BY <1>1, <1>2, LiveFalls
<1>4. Alone' /\ AllAwaited'
  BY <1>1, <1>2 DEF Alone, AllAwaited, Flying
<1>5. CurrentInv'
  BY <1>1, <1>2 DEF CurrentInv, UpToDate, AtAnswer
<1> QED
  BY <1>3, <1>4, <1>5

LEMMA PassKeepsClean ==
  ASSUME Base, CleanInv, NEW i \in Browsers, PassStep(i), Live' \subseteq Live
  PROVE  CleanInv'
<1> SUFFICES ASSUME clean'
             PROVE  (OneLive /\ Alone /\ AllAwaited /\ CurrentInv /\ CommitInv)'
  BY DEF CleanInv
<1>0. SessionTypeOK
  BY DEF Base
<1>1. UNCHANGED claims
  BY DEF PassStep, StartPass, SendServed, SendRefused, RefreshAnswered, ClearCredentials, server
<1>2. clean /\ (StartPass(i) => Flying = {})
  BY <1>0 DEF PassStep, StartPass, SendServed, SendRefused, RefreshAnswered, ClearCredentials,
              SessionTypeOK
<1>3. OneLive /\ Alone /\ AllAwaited /\ CurrentInv /\ CommitInv
  BY <1>2 DEF CleanInv
<1>4. OneLive' /\ CommitInv'
  BY <1>1, <1>3, LiveFalls
<1>5. Flying = {}
  <2>1. CASE SendServed(i) \/ SendRefused(i) \/ ClearCredentials(i)
    BY <1>3, <2>1 DEF SendServed, SendRefused, ClearCredentials, Alone
  <2>2. CASE RefreshAnswered(i)
    BY <1>3, <2>2 DEF RefreshAnswered, Alone
  <2> QED
    BY <1>2, <2>1, <2>2 DEF PassStep
<1>6. Flying' = {} /\ \A c \in Claims : AtAnswer(c)' <=> AtAnswer(c)
  BY <1>1, <1>5 DEF Flying, AtAnswer
<1>7. Alone'
  BY <1>6 DEF Alone
<1>8. CASE StartPass(i) \/ SendServed(i)
  <2>1. UNCHANGED <<refreshes, store>>
    BY <1>8 DEF StartPass, SendServed, client
  <2>2. /\ \A j \in Browsers \ {i} : pass'[j] = pass[j]
        /\ pass[i] = Idle \/ pass[i].at = "send"
    BY <1>0, <1>8 DEF StartPass, SendServed, SessionTypeOK
  <2>3. \A j \in Browsers : UpToDate(j)'
    BY <1>3, <1>6, <2>1, <2>2 DEF CurrentInv, UpToDate
  <2>4. AllAwaited' /\ CurrentInv'
    BY <1>1, <1>3, <2>1, <2>3 DEF AllAwaited, CurrentInv, AtAnswer
  <2> QED
    BY <1>4, <1>7, <2>4
<1>9. CASE SendRefused(i)
  <2>1. UNCHANGED store
    BY <1>9 DEF SendRefused, client
  <2>2. /\ \/ refreshes' = refreshes
           \/ \E x : x.at = "find" /\ x.awaited /\ refreshes' = refreshes \cup {x}
        /\ pass[i].at = "send" /\ \A j \in Browsers \ {i} : pass'[j] = pass[j]
    BY <1>0, <1>9, RefusedSend
  <2>3. AllAwaited'
    BY <1>3, <2>2 DEF AllAwaited
  <2>4. \A j \in Browsers : UpToDate(j)'
    BY <1>3, <1>6, <2>1, <2>2 DEF CurrentInv, UpToDate
  <2>5. CurrentInv'
    BY <1>1, <1>3, <2>2, <2>4 DEF CurrentInv, AtAnswer
  <2> QED
    BY <1>4, <1>7, <2>3, <2>5
<1>10. CASE RefreshAnswered(i)
  <2>1. pass'[i] # Idle /\ \A j \in Browsers \ {i} : pass'[j] = pass[j]
    BY <1>10, AnsweredRefresh, PassFields
  <2>2. PICK r \in refreshes :
           /\ Takes(i, r)
           /\ \/ pass'[i].at = "clear" /\ store' = store
              \/ r.creds \in Credentials /\ store' = [store EXCEPT ![i] = r.creds]
    BY <1>10, AnsweredRefresh
  <2>3. AllAwaited'
    BY <1>3, <2>2 DEF AllAwaited, Takes
  <2>4. UpToDate(i)'
    <3>1. CASE pass'[i].at = "clear"
      BY <2>1, <3>1 DEF UpToDate
    <3>2. CASE r.creds \in Credentials /\ store' = [store EXCEPT ![i] = r.creds]
      <4>1. store'[i] = r.creds
        BY <1>0, <3>2 DEF SessionTypeOK
      <4>2. r.creds = SignedOut \/ r.creds.current
        BY <1>3, <2>2 DEF CurrentInv, Takes
      <4> QED
        BY <4>1, <4>2 DEF UpToDate
    <3> QED
      BY <2>2, <3>1, <3>2
  <2>5. ASSUME NEW j \in Browsers, j # i
        PROVE  UpToDate(j)'
    <3>1. store'[j] = store[j] /\ UpToDate(j) /\ pass'[j] = pass[j]
      BY <1>0, <1>3, <2>1, <2>2, <2>5 DEF SessionTypeOK, CurrentInv
    <3>2. r.browser = i /\ refreshes' = refreshes \ {r}
      BY <2>2 DEF Takes
    <3> QED
      BY <1>6, <2>5, <3>1, <3>2 DEF UpToDate
  <2>6. refreshes' \subseteq refreshes
    BY <2>2 DEF Takes
  <2>7. CurrentInv'
    BY <1>1, <1>3, <2>4, <2>5, <2>6 DEF CurrentInv, AtAnswer
  <2> QED
    BY <1>4, <1>7, <2>3, <2>7
<1>11. CASE ClearCredentials(i)
  <2>1. /\ pass' = [pass EXCEPT ![i] = Idle] /\ store' = [store EXCEPT ![i] = SignedOut]
        /\ UNCHANGED refreshes
    BY <1>0, <1>11, ClearedCredentials
  <2>2. /\ store'[i] = SignedOut
        /\ \A j \in Browsers \ {i} : store'[j] = store[j] /\ pass'[j] = pass[j]
    BY <1>0, <2>1 DEF SessionTypeOK
  <2>3. \A j \in Browsers : UpToDate(j)'
    BY <1>3, <1>6, <2>1, <2>2 DEF CurrentInv, UpToDate
  <2>4. AllAwaited' /\ CurrentInv'
    BY <1>1, <1>3, <2>1, <2>3 DEF AllAwaited, CurrentInv, AtAnswer
  <2> QED
    BY <1>4, <1>7, <2>4
<1> QED
  BY <1>8, <1>9, <1>10, <1>11 DEF PassStep

LEMMA RefreshKeepsClean ==
  ASSUME Base, OwnInv, CleanInv, NEW r \in refreshes, RefreshStep(r), Live' \subseteq Live
  PROVE  CleanInv'
<1> SUFFICES ASSUME clean'
             PROVE  (OneLive /\ Alone /\ AllAwaited /\ CurrentInv /\ CommitInv)'
  BY DEF CleanInv
<1>0. SessionTypeOK /\ Awaits /\ r \in Refresh
  BY DEF Base, SessionTypeOK
<1>1. clean /\ ~LoseRefresh(r)
  BY DEF RefreshStep, RefreshFinds, RefreshChecks, RefreshRevokes, RefreshRotates, LoseRefresh
<1>2. OneLive /\ Alone /\ AllAwaited /\ CurrentInv /\ CommitInv
  BY <1>1 DEF CleanInv
<1>3. Flying = {} /\ \A c \in Claims : claims[c] \in {Idle, Done}
  BY <1>2 DEF Alone, Flying
<1>4. r.at # "answer" /\ r.awaited
  BY <1>1, <1>2 DEF RefreshStep, RefreshFinds, RefreshChecks, RefreshRevokes, RefreshRotates,
                    AllAwaited
<1>5. \A c \in Claims : ~AtAnswer(c)
  BY <1>3 DEF AtAnswer, Idle, Done
<1>6. CASE ~RefreshRotates(r)
  <2>1. UNCHANGED <<claims, store, pass>>
    BY <1>1, <1>6 DEF RefreshStep, RefreshFinds, RefreshChecks, RefreshRevokes, client
  <2>2. PICK x : /\ Becomes(r, x) /\ Replaced(r, x, ~r.awaited)
                 /\ x.at = "answer" => x.creds = SignedOut
    BY <1>0, <1>1, <1>6, FoundRefresh, CheckedRefresh, RefusedRefresh DEF RefreshStep
  <2>3. OneLive' /\ CommitInv'
    BY <1>2, <2>1, LiveFalls
  <2>4. Alone' /\ AllAwaited'
    BY <1>2, <1>3, <1>4, <2>1, <2>2 DEF Alone, AllAwaited, Flying, Becomes, Replaced
  <2>5. \A i \in Browsers : UpToDate(i)'
    BY <1>2, <1>4, <1>5, <2>1, <2>2 DEF CurrentInv, UpToDate, Replaced
  <2>6. CurrentInv'
    BY <1>2, <1>5, <2>1, <2>2, <2>5 DEF CurrentInv, AtAnswer, Replaced
  <2> QED
    BY <2>3, <2>4, <2>6
<1>7. CASE RefreshRotates(r)
  <2> DEFINE s == r.creds.session
  <2>1. /\ s \in Nat \ {0} /\ r.creds # SignedOut /\ Rotate(s)
        /\ \A c \in Claims : claims'[c] = Claiming(s, claims[c])
        /\ claims' \in [Claims -> Claim \cup {Idle, Done}]
    BY <1>7, RotatedRefresh DEF Credentials, SignedOut
  <2>2. PICK x : /\ Becomes(r, x) /\ x.at = "answer" /\ x.creds = Fresh(s)
                 /\ {Asked(s, q) : q \in refreshes \ {r}} \subseteq refreshes'
                 /\ refreshes' \subseteq {Asked(s, q) : q \in refreshes \ {r}} \cup {x}
                 /\ x \in refreshes'
    BY <1>4, <1>7, RotatedRefresh
  <2>3. BrowserOf[sessions[s].installation] = r.browser
    BY <2>1 DEF OwnInv, RequestsOwn, Holds
  <2> HIDE DEF s
  <2>4. claims' = claims
    <3>1. \A c \in Claims : claims'[c] = claims[c]
      BY <1>3, <2>1, ClaimingFields
    <3> QED
      BY <1>0, <2>1, <3>1 DEF SessionTypeOK
  <2>5. OneLive' /\ CommitInv'
    BY <1>2, <2>4, LiveFalls
  <2>6. \A q \in refreshes \ {r} : q \in Refresh /\ q.browser # r.browser
    BY <1>0, <1>2 DEF Awaits, AllAwaited, SessionTypeOK
  <2>7. \A q \in refreshes \ {r} : /\ Asked(s, q).at = q.at /\ Asked(s, q).awaited = q.awaited
                                   /\ Asked(s, q).browser = q.browser
                                   /\ Asked(s, q).creds = Overtake(s, q.creds)
    BY <2>1, <2>6, AskedFields
  <2>8. Alone' /\ AllAwaited'
    BY <1>2, <1>3, <1>4, <2>2, <2>4, <2>7 DEF Alone, AllAwaited, Flying, Becomes
  <2>9. ASSUME NEW q \in refreshes \ {r}
        PROVE  Overtake(s, q.creds) = q.creds
    <3>1. q.creds \in Opened
      BY <2>6 DEF Refresh, Opened
    <3>2. q.creds # SignedOut => q.creds.session # s
      BY <2>3, <2>6 DEF OwnInv, RequestsOwn, Holds
    <3>3. q.creds = SignedOut => q.creds.session # s
      BY <2>1 DEF SignedOut
    <3> QED
      BY <2>1, <3>1, <3>2, <3>3, OvertakeKeeps
  <2>10. ASSUME NEW i \in Browsers, i # r.browser
         PROVE  store'[i] = store[i]
    <3>1. store[i] \in Opened /\ store'[i] = Overtake(s, store[i])
      BY <1>0, <2>1, RotatedStore DEF SessionTypeOK, Opened
    <3>2. store[i] # SignedOut => store[i].session # s
      BY <2>3, <2>10 DEF OwnInv, StoresOwn, Holds
    <3>3. store[i] = SignedOut => store[i].session # s
      BY <2>1 DEF SignedOut
    <3> QED
      BY <2>1, <3>1, <3>2, <3>3, OvertakeKeeps
  <2>11. ASSUME NEW i \in Browsers
         PROVE  UpToDate(i)'
    <3>1. CASE i = r.browser
      BY <2>2, <3>1 DEF UpToDate, Becomes
    <3>2. CASE i # r.browser
      <4>1. store'[i] = store[i] /\ UpToDate(i)
        BY <1>2, <2>10, <3>2 DEF CurrentInv
      <4>2. (\E q \in refreshes : q.browser = i /\ q.at = "answer")
              => \E q \in refreshes' : q.browser = i /\ q.at = "answer"
        <5> SUFFICES ASSUME NEW q \in refreshes, q.browser = i, q.at = "answer"
                     PROVE  \E p \in refreshes' : p.browser = i /\ p.at = "answer"
          OBVIOUS
        <5>1. q \in refreshes \ {r}
          BY <3>2
        <5>2. Asked(s, q) \in refreshes'
          BY <2>2, <5>1
        <5> QED
          BY <2>7, <5>1, <5>2
      <4>3. pass[i] # Idle => pass'[i] # Idle /\ pass'[i].at = pass[i].at
        BY <1>0, <2>1, RotatedStore
      <4> QED
        BY <1>5, <4>1, <4>2, <4>3 DEF UpToDate
    <3> QED
      BY <3>1, <3>2
  <2>12. \A q \in refreshes' : q.at = "answer" => q.creds = SignedOut \/ q.creds.current
    <3> SUFFICES ASSUME NEW q \in refreshes', q.at = "answer"
                 PROVE  q.creds = SignedOut \/ q.creds.current
      OBVIOUS
    <3>1. CASE q = x
      BY <2>1, <2>2, <3>1, FreshTypes
    <3>2. CASE q # x
      <4>1. PICK o \in refreshes \ {r} : q = Asked(s, o)
        BY <2>2, <3>2
      <4>2. q.creds = o.creds /\ o.at = "answer"
        BY <2>7, <2>9, <4>1
      <4> QED
        BY <1>2, <4>2 DEF CurrentInv
    <3> QED
      BY <3>1, <3>2
  <2>13. CurrentInv'
    BY <1>5, <2>4, <2>11, <2>12 DEF CurrentInv, AtAnswer
  <2> QED
    BY <2>5, <2>8, <2>13
<1> QED
  BY <1>6, <1>7

LEMMA StepKeepsClean ==
  ASSUME Base, OwnInv, CleanInv, [SessionNext]_sessionVars
  PROVE  CleanInv'
<1>1. ASSUME NEW c \in Claims, ClaimStep(c)
      PROVE  CleanInv'
  BY <1>1, ClaimKeepsClean, CommitKeepsClean
<1>2. CASE SessionNext /\ \A c \in Claims : ~ClaimCommits(c)
  <2>1. Live' \subseteq Live
    BY <1>2, NoSessionMade
  <2> QED
    BY <1>1, <1>2, <2>1, SessionSplit, LogoutKeepsClean, PassKeepsClean, RefreshKeepsClean
<1>3. ASSUME NEW c \in Claims, ClaimCommits(c)
      PROVE  CleanInv'
  BY <1>3, CommitKeepsClean
<1>4. CASE UNCHANGED sessionVars
  <2>1. UNCHANGED <<sessions, claims, refreshes, store, pass, clean>>
    BY <1>4 DEF sessionVars, server, client
  <2> QED
    BY <2>1 DEF CleanInv, OneLive, Live, Alone, Flying, AllAwaited, CurrentInv, UpToDate,
                AtAnswer, CommitInv
<1> QED
  BY <1>2, <1>3, <1>4

LEMMA InitiallyClean == SessionInit => CleanInv
<1> SUFFICES ASSUME SessionInit PROVE CleanInv
  OBVIOUS
<1>1. /\ \A c \in Claims : claims[c] = Idle
      /\ refreshes = {} /\ sessions = <<>>
      /\ \A i \in Browsers : store[i] = SignedOut
  BY DEF SessionInit
<1>2. Live = {} /\ Flying = {}
  BY <1>1 DEF Live, Flying
<1>3. OneLive /\ Alone /\ AllAwaited
  BY <1>1, <1>2 DEF OneLive, Alone, AllAwaited
<1>4. CurrentInv /\ CommitInv
  BY <1>1, <1>2 DEF CurrentInv, UpToDate, AtAnswer, CommitInv, Idle
<1> QED
  BY <1>3, <1>4 DEF CleanInv

(* As long as no request overlapped another, was lost, or was refused, a       *)
(* browser at rest that is signed in has the last tokens of its session, and   *)
(* at most one session of the executive is alive: claimInstallationSession     *)
(* revokes all others, and whoever overtakes tokens stores the new ones.       *)
THEOREM StoredStaysCurrent == SessionSpec => []StoredIsCurrent
<1>1. SessionInit => Base /\ OwnInv /\ CleanInv
  BY InitiallyBase, InitiallyOwn, InitiallyClean
<1>2. Base /\ OwnInv /\ CleanInv /\ [SessionNext]_sessionVars
        => (Base /\ OwnInv /\ CleanInv)'
  BY StepKeepsBase, StepKeepsOwn, StepKeepsClean
<1>3. Base /\ OwnInv /\ CleanInv => StoredIsCurrent
  <2> SUFFICES ASSUME CleanInv, clean, ~Busy
               PROVE  /\ \A i \in Browsers :
                           store[i] # SignedOut => store[i].current
                      /\ Cardinality({s \in DOMAIN sessions : ~sessions[s].revoked}) <= 1
    BY DEF StoredIsCurrent
  <2>1. OneLive /\ CurrentInv /\ refreshes = {} /\ Flying = {}
    BY DEF CleanInv, Busy
  <2>2. \A c \in Claims : ~AtAnswer(c)
    BY <2>1 DEF Flying, AtAnswer, Idle, Done
  <2>3. \A i \in Browsers : store[i] # SignedOut => store[i].current
    <3>1. \A i \in Browsers : pass[i] = Idle
      BY DEF Busy
    <3> QED
      BY <2>1, <2>2, <3>1 DEF CurrentInv, UpToDate
  <2>4. Cardinality(Live) <= 1
    <3>1. CASE Live = {}
      BY <3>1, FS_EmptySet
    <3>2. ASSUME NEW s \in Live
          PROVE  Cardinality(Live) <= 1
      <4>1. Live = {s}
        BY <2>1, <3>2 DEF OneLive
      <4> QED
        BY <4>1, FS_Singleton
    <3> QED
      BY <3>1, <3>2
  <2> QED
    BY <2>3, <2>4 DEF Live
<1> QED
  BY <1>1, <1>2, <1>3, PTL DEF SessionSpec
=============================================================================
