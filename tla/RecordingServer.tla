--------------------------- MODULE RecordingServer ---------------------------
(***************************************************************************)
(* The server side of call recordings                                      *)
(* (server/extension/service/recordings.ts and its repository).            *)
(*                                                                         *)
(* A recording is a row, its segments are rows, and the audio itself is a  *)
(* blob on disk under a key made of (recording, seq, content hash): the    *)
(* database and the disk share no transaction.  An upload is a request     *)
(* that takes several steps between which others run; a create, a close    *)
(* and a sweep each do all their work in one statement or one transaction. *)
(* The idle clock is abstracted to `idle`.                                 *)
(***************************************************************************)
EXTENDS Naturals, FiniteSets, FiniteSetsExt

CONSTANTS
  Recordings,   \* calls of the installation, each with at most one recording
  MaxSegments,  \* sequence numbers are 0..MaxSegments-1
  Bodies,       \* segment contents, told apart by their sha256
  SizeOf,       \* [Bodies -> bytes]
  None,         \* no segment row, no manifest
  Requests,     \* upload requests the server may be handling at once
  MaxErrors     \* bound: insert transactions that throw, per behaviour

Seqs == 0..(MaxSegments - 1)
Manifests == [segments : 0..MaxSegments, bytes : Nat]

ASSUME MaxSegmentsAssumption == MaxSegments \in Nat \ {0}
ASSUME BodiesAssumption == SizeOf \in [Bodies -> Nat \ {0}] /\ None \notin Bodies
ASSUME MaxErrorsAssumption == MaxErrors \in Nat

VARIABLES
  status,    \* [Recordings -> "absent" before the row exists, else its status]
  callEnded, \* [Recordings -> the call's ended_at is set]
  idle,      \* [Recordings -> no activity for RECORDING_IDLE_TIMEOUT_MS]
  expected,  \* [Recordings -> the manifest stored by the close]
  stored,    \* [Recordings -> [Seqs -> content named by the segment row]]
  blobs,     \* <<recording, seq, body>> keys that exist on disk
  req,       \* [Requests -> the upload in progress]
  acked,     \* history: <<recording, seq, body>> answered with success
  granted,   \* history: <<recording, manifest>> answered `complete`
  errors     \* number of insert transactions that threw

rows == <<status, callEnded, idle, expected, stored>>
vars == <<rows, blobs, req, acked, granted, errors>>

Statuses == {"absent", "open", "interrupted", "complete"}
Steps    == {"find", "put", "insert", "winner", "lookup", "delete", "answered"}
Answers  == {"none", "ok", "conflict", "closed", "error"}
Uploads  == [at : Steps, rec : Recordings, seq : Seqs, body : Bodies, answer : Answers]
Keys     == Recordings \X Seqs \X Bodies

ASSUME NoneAssumption == None \notin Manifests /\ None \notin Uploads

TypeOK ==
  /\ status \in [Recordings -> Statuses]
  /\ callEnded \in [Recordings -> BOOLEAN]
  /\ idle \in [Recordings -> BOOLEAN]
  /\ expected \in [Recordings -> Manifests \cup {None}]
  /\ stored \in [Recordings -> [Seqs -> Bodies \cup {None}]]
  /\ blobs \subseteq Keys
  /\ req \in [Requests -> Uploads \cup {None}]
  /\ acked \subseteq Keys
  /\ granted \subseteq Recordings \X Manifests
  /\ errors \in 0..MaxErrors

Init ==
  /\ status = [r \in Recordings |-> "absent"]
  /\ callEnded = [r \in Recordings |-> FALSE]
  /\ idle = [r \in Recordings |-> FALSE]
  /\ expected = [r \in Recordings |-> None]
  /\ stored = [r \in Recordings |-> [s \in Seqs |-> None]]
  /\ blobs = {}
  /\ req = [q \in Requests |-> None]
  /\ acked = {}
  /\ granted = {}
  /\ errors = 0

-----------------------------------------------------------------------------
(* createRecording and the clock                                           *)

\* One recording per call: a repeat finds the row of the first request.
CreateRecording(r) ==
  /\ status[r] = "absent"
  /\ status' = [status EXCEPT ![r] = "open"]
  /\ idle' = [idle EXCEPT ![r] = FALSE]
  /\ UNCHANGED <<callEnded, expected, stored, blobs, req, acked, granted, errors>>

\* Ten minutes pass without a segment, or without a recording after the claim.
GoesIdle(r) ==
  /\ ~idle[r]
  /\ idle' = [idle EXCEPT ![r] = TRUE]
  /\ UNCHANGED <<status, callEnded, expected, stored, blobs, req, acked, granted, errors>>

-----------------------------------------------------------------------------
(* putSegment: every step below is one await of the handler.               *)

At(q, step) == req[q] # None /\ req[q].at = step
GoTo(q, step) == req' = [req EXCEPT ![q].at = step]
Reply(q, answer) == req' = [req EXCEPT ![q].at = "answered", ![q].answer = answer]
\* The answer is settled, and the blob just written may have to go.
Discard(q, answer) == req' = [req EXCEPT ![q].at = "lookup", ![q].answer = answer]

\* segmentStorageKey
KeyOf(q) == <<req[q].rec, req[q].seq, req[q].body>>
RowOf(q) == stored[req[q].rec][req[q].seq]

\* findOwnedRecording: an unknown recording is refused without a trace, a
\* complete one is closed, and otherwise the body is read.
PutSegment(q, r, seq, body) ==
  /\ req[q] = None /\ status[r] # "absent"
  /\ LET closed == status[r] = "complete"
     IN  req' = [req EXCEPT ![q] = [at     |-> IF closed THEN "answered" ELSE "find",
                                    rec    |-> r,
                                    seq    |-> seq,
                                    body   |-> body,
                                    answer |-> IF closed THEN "closed" ELSE "none"]]
  /\ UNCHANGED <<rows, blobs, acked, granted, errors>>

\* Mutant: a stored seq is acknowledged without comparing the hash.
Acknowledge_Any(q) == "ok"

\* acknowledgeStoredSegment
Acknowledge(q) == IF RowOf(q) = req[q].body THEN "ok" ELSE "conflict"

\* The row exists already: the same bytes count as activity, others do not.
FindSegment(q) ==
  /\ At(q, "find")
  /\ IF RowOf(q) = None
       THEN GoTo(q, "put") /\ UNCHANGED idle
       ELSE /\ Reply(q, Acknowledge(q))
            /\ idle' = [idle EXCEPT ![req[q].rec] = @ /\ Acknowledge(q) # "ok"]
  /\ UNCHANGED <<status, callEnded, expected, stored, blobs, acked, granted, errors>>

\* putFromWebStream renames a temporary file onto the key.
PutBlob(q) ==
  /\ At(q, "put")
  /\ blobs' = blobs \cup {KeyOf(q)}
  /\ GoTo(q, "insert")
  /\ UNCHANGED <<rows, acked, granted, errors>>

\* Mutant: the insert does not look at the status under the lock.
MayInsert_Always(q) == TRUE

\* insertSegment, under the recording's row lock.
MayInsert(q) == status[req[q].rec] # "complete"

InsertRefused(q) ==
  /\ At(q, "insert") /\ ~MayInsert(q)
  /\ Discard(q, "closed")
  /\ UNCHANGED <<rows, blobs, acked, granted, errors>>

WriteSegment(q) ==
  /\ MayInsert(q) /\ RowOf(q) = None
  /\ stored' = [stored EXCEPT ![req[q].rec][req[q].seq] = req[q].body]
  /\ idle' = [idle EXCEPT ![req[q].rec] = FALSE]
  /\ UNCHANGED <<status, callEnded, expected>>

InsertSegment(q) ==
  /\ At(q, "insert")
  /\ WriteSegment(q)
  /\ Reply(q, "ok")
  /\ UNCHANGED <<blobs, acked, granted, errors>>

InsertLoses(q) ==
  /\ At(q, "insert") /\ MayInsert(q) /\ RowOf(q) # None
  /\ GoTo(q, "winner")
  /\ UNCHANGED <<rows, blobs, acked, granted, errors>>

\* The transaction throws, rolled back or committed with its answer lost.
InsertThrows(q) ==
  /\ At(q, "insert") /\ errors < MaxErrors
  /\ errors' = errors + 1
  /\ WriteSegment(q) \/ UNCHANGED rows
  /\ Discard(q, "error")
  /\ UNCHANGED <<blobs, acked, granted>>

FindWinner(q) ==
  /\ At(q, "winner")
  /\ IF Acknowledge(q) = "ok" THEN Reply(q, "ok") ELSE Discard(q, "conflict")
  /\ UNCHANGED <<rows, blobs, acked, granted, errors>>

\* Mutant: the blob is deleted without looking for a row that names it.
Referenced_Never(q) == FALSE

\* discardUnreferencedBlob: a lookup, and then a delete.
Referenced(q) == RowOf(q) = req[q].body

LookupRow(q) ==
  /\ At(q, "lookup")
  /\ GoTo(q, IF Referenced(q) THEN "answered" ELSE "delete")
  /\ UNCHANGED <<rows, blobs, acked, granted, errors>>

DeleteBlob(q) ==
  /\ At(q, "delete")
  /\ blobs' = blobs \ {KeyOf(q)}
  /\ GoTo(q, "answered")
  /\ UNCHANGED <<rows, acked, granted, errors>>

\* The answer reaches the extension.
Respond(q) ==
  /\ At(q, "answered")
  /\ acked' = IF req[q].answer = "ok" THEN acked \cup {KeyOf(q)} ELSE acked
  /\ req' = [req EXCEPT ![q] = None]
  /\ UNCHANGED <<rows, blobs, granted, errors>>

\* The server stops in the middle of a request, its answer is lost, or a
\* statement outside the insert (the swallowed discard included) fails.
RequestDies(q) ==
  /\ req[q] # None
  /\ req' = [req EXCEPT ![q] = None]
  /\ UNCHANGED <<rows, blobs, acked, granted, errors>>

-----------------------------------------------------------------------------
(* closeRecording, under the recording's row lock                          *)

Below(n) == {s \in Seqs : s < n}
StoredBytes(row, n) == MapThenSumSet(LAMBDA s : SizeOf[row[s]], Below(n))

Missing(r, n) == {s \in Below(n) : stored[r][s] = None}

Whole(r, m) ==
  /\ Missing(r, m.segments) = {}
  /\ StoredBytes(stored[r], m.segments) = m.bytes

Grant(r, m) == granted' = granted \cup {<<r, m>>}

\* repeatCompleteClose: another manifest is refused.
SameManifest(r, m) == expected[r] = m

\* A close with gaps or other bytes changes nothing: it has no step here.
CloseRecording(r, m) ==
  /\ status[r] \in {"open", "interrupted"} /\ Whole(r, m)
  /\ status' = [status EXCEPT ![r] = "complete"]
  /\ expected' = [expected EXCEPT ![r] = m]
  /\ idle' = [idle EXCEPT ![r] = FALSE]
  /\ callEnded' = [callEnded EXCEPT ![r] = TRUE]
  /\ Grant(r, m)
  /\ UNCHANGED <<stored, blobs, req, acked, errors>>

RepeatClose(r, m) ==
  /\ status[r] = "complete" /\ SameManifest(r, m)
  /\ Grant(r, m)
  /\ UNCHANGED <<rows, blobs, req, acked, errors>>

-----------------------------------------------------------------------------
(* sweepIdleRecordings: one transaction over every idle row                *)

\* Mutant: only recordings of live calls are swept.
Sweepable_LiveCall(r) == idle[r] /\ status[r] = "open" /\ ~callEnded[r]

Sweepable(r) == idle[r] /\ status[r] = "open"

EndsCall(r) == Sweepable(r) \/ (idle[r] /\ status[r] = "absent")

Sweep ==
  /\ status' = [r \in Recordings |-> IF Sweepable(r) THEN "interrupted" ELSE status[r]]
  /\ callEnded' = [r \in Recordings |-> callEnded[r] \/ EndsCall(r)]
  /\ UNCHANGED <<idle, expected, stored, blobs, req, acked, granted, errors>>

-----------------------------------------------------------------------------
UploadStep(q) ==
  \/ FindSegment(q)
  \/ PutBlob(q)
  \/ InsertRefused(q)
  \/ InsertSegment(q)
  \/ InsertLoses(q)
  \/ FindWinner(q)
  \/ LookupRow(q)
  \/ DeleteBlob(q)
  \/ Respond(q)

\* Every manifest a client could send: any count, and any byte total up to it.
MaxBytes == MaxSegments * Max({SizeOf[b] : b \in Bodies})
Sent == [segments : 0..MaxSegments, bytes : 0..MaxBytes]

Next ==
  \/ \E r \in Recordings :
       \/ CreateRecording(r)
       \/ GoesIdle(r)
       \/ \E m \in Sent : CloseRecording(r, m) \/ RepeatClose(r, m)
  \/ Sweep
  \/ \E q \in Requests :
       \/ \E r \in Recordings, s \in Seqs, b \in Bodies : PutSegment(q, r, s, b)
       \/ UploadStep(q)
       \/ InsertThrows(q)
       \/ RequestDies(q)

Spec == Init /\ [][Next]_vars

\* The sweep is a scheduled task; no client owes an upload or a close.
Fairness == WF_vars(Sweep)
FairSpec == Spec /\ Fairness

-----------------------------------------------------------------------------
(* Properties                                                              *)

\* Every segment row names a blob that exists: "A crash between the two leaves
\* an unreferenced blob, never a row that points at a missing one".
RowsHaveBlobs ==
  \A r \in Recordings, s \in Seqs :
    stored[r][s] # None => <<r, s, stored[r][s]>> \in blobs

\* What holds of it: as long as no insert transaction has thrown, no race of
\* uploads, closes and crashes deletes the blob of a row.
BlobsSurviveRaces == errors = 0 => RowsHaveBlobs

\* A success answer names the bytes of the row, for good: an upload that lost
\* the race for its seq is acknowledged only if the winner stored its bytes.
AckedIsStored ==
  \A k \in acked : stored[k[1]][k[2]] = k[3]

\* `complete` is the answer after which the extension deletes its audio: the
\* recording is complete with that manifest, and 0..n-1 are stored and add up.
GrantedIsWhole ==
  \A g \in granted :
    /\ status[g[1]] = "complete" /\ expected[g[1]] = g[2]
    /\ \A s \in Below(g[2].segments) : stored[g[1]][s] # None
    /\ StoredBytes(stored[g[1]], g[2].segments) = g[2].bytes

\* The two answers the extension relies on, when it stops to send a segment and
\* when it deletes its audio, were true and stay true.
AnswersAreTrue == AckedIsStored /\ GrantedIsWhole

\* A recording that left `open` has its call ended.
FinishedCallEnded ==
  \A r \in Recordings : status[r] \in {"interrupted", "complete"} => callEnded[r]

\* `complete` is final: no sweep, upload or later close changes the status, the
\* manifest or a segment of a complete recording.
CompleteIsFrozen ==
  [][\A r \in Recordings :
       status[r] = "complete" =>
         status'[r] = "complete" /\ expected'[r] = expected[r] /\ stored'[r] = stored[r]]_vars

\* An idle recording does not stay open: it is swept or shows activity.
IdleIsSwept ==
  \A r \in Recordings :
    (status[r] = "open" /\ idle[r]) ~> (status[r] # "open" \/ ~idle[r])

=============================================================================
