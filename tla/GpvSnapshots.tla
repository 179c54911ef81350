---------------------------- MODULE GpvSnapshots ----------------------------
(* The monthly report snapshots of the merchant statistics (apps/web/src/      *)
(* server/merchant-stats/snapshot): an uploaded report is staged, compared     *)
(* with the active snapshot, reviewed by people and activated, while its job   *)
(* may be run twice at a time, crash or be retried.                            *)
(*                                                                             *)
(* Acceptance, validation with activation, and a resolution each lock the      *)
(* dataset row first, and staging locks the snapshot row that validation and   *)
(* resolution lock too: each is one step. What the runner does between its     *)
(* transactions is not. The state `ready` exists only inside a transaction,    *)
(* which ends with `active` or `rejected`, or is rolled back.                  *)
EXTENDS Integers, FiniteSets

CONSTANTS
    Reports,      \* report files: a content is accepted once, so a snapshot
                  \* goes by the report it was made of
    CutsOf,       \* the instants each report may be given as its cut
    Keys,         \* placements, by their identity
    Rucs,         \* what a placement says: its RUC (and its sale month)
    Absent,       \* the placement is not in the report
    RowsOf,       \* the placements of each report
    RowNumbers,   \* rows that may be unreadable
    RejectedRows, \* the rows of each report that are
    Workers,      \* runs of import jobs at a time
    Unowned,      \* no lease_owner
    NoCredit,     \* no merchant_month_credits row
    MaxAttempts,  \* of a job
    MaxFaults     \* bound: crashes and leases that lapse under a live run

ASSUME SnapshotAssumption ==
    /\ CutsOf \in [Reports -> SUBSET Nat]
    /\ Absent \notin Rucs
    /\ RowsOf \in [Reports -> [Keys -> Rucs \cup {Absent}]]
    /\ RejectedRows \in [Reports -> SUBSET RowNumbers]
    /\ Unowned \notin Workers
    /\ NoCredit \notin Reports
    /\ MaxAttempts \in Nat \ {0}
    /\ MaxFaults \in Nat

VARIABLES
    state,     \* of each snapshot; "none" before it is accepted
    cut,       \* cut_at
    revision,
    rows,      \* gpv_snapshot_placements
    issues,    \* gpv_snapshot_issues, all of them blocking
    job,       \* gpv_snapshot_jobs
    run,       \* the job each worker runs
    credit,    \* the snapshot each RUC was first credited from, for one month
    faults

report == <<cut, revision>>
snapshot == <<state, report, rows, issues, credit>>
vars == <<snapshot, job, run, faults>>

States == {"none", "queued", "processing", "needs_review", "active", "superseded",
           "rejected", "failed"}

Issues == ({"missing", "changed"} \X Keys) \cup ({"rejected"} \X RowNumbers)

Job == [state: {"none", "pending", "processing", "done", "failed"},
        attempt: 0 .. MaxAttempts, owner: Workers \cup {Unowned}]

\* at: the next step of the handler; done: what it returns, or it throws.
Run == [at: {"load", "mark", "stage", "finalize", "settle", "settled"},
        report: Reports, done: BOOLEAN]

Idle == [at |-> "idle"]

TypeOK ==
    /\ state \in [Reports -> States]
    /\ cut \in [Reports -> Nat]
    /\ revision \in [Reports -> Nat]
    /\ rows \in [Reports -> [Keys -> Rucs \cup {Absent}]]
    /\ issues \in [Reports -> [Issues -> {"none", "open", "resolved"}]]
    /\ job \in [Reports -> Job]
    /\ run \in [Workers -> Run \cup {Idle}]
    /\ credit \in [Rucs -> Reports \cup {NoCredit}]
    /\ faults \in 0 .. MaxFaults

NoRows == [k \in Keys |-> Absent]

NoIssues == [i \in Issues |-> "none"]

Init ==
    /\ state = [r \in Reports |-> "none"]
    /\ cut = [r \in Reports |-> 0]
    /\ revision = [r \in Reports |-> 0]
    /\ rows = [r \in Reports |-> NoRows]
    /\ issues = [r \in Reports |-> NoIssues]
    /\ job = [r \in Reports |-> [state |-> "none", attempt |-> 0, owner |-> Unowned]]
    /\ run = [w \in Workers |-> Idle]
    /\ credit = [u \in Rucs |-> NoCredit]
    /\ faults = 0

Fault == faults < MaxFaults /\ faults' = faults + 1

Active == {r \in Reports : state[r] = "active"}

Published(r) == state[r] \in {"active", "superseded"}

Open(r) == state[r] \in {"queued", "processing"}

-----------------------------------------------------------------------------
(* Activation.                                                                 *)

\* isLaterSnapshot
Later(p, r) == cut[p] > cut[r] \/ (cut[p] = cut[r] /\ revision[p] > revision[r])

\* compareSnapshots: with the active snapshot, if there is one.
Differences(placements) ==
    {<<"missing", k>> : k \in {k \in Keys : \E p \in Active :
        rows[p][k] # Absent /\ placements[k] = Absent}}
    \cup
    {<<"changed", k>> : k \in {k \in Keys : \E p \in Active :
        rows[p][k] # Absent /\ placements[k] \notin {Absent, rows[p][k]}}}

\* An issue that was raised before is not raised again, resolved or not.
Validated(placements, known) ==
    [i \in Issues |-> IF known[i] = "none" /\ i \in Differences(placements) THEN "open"
                                                                        ELSE known[i]]

\* freezeUncreditedMerchantMonths: for the RUCs that had an owner at the cut.
Freeze(r, placements) ==
    \E owned \in SUBSET Rucs :
        credit' = [u \in Rucs |->
            IF credit[u] = NoCredit /\ u \in owned /\ \E k \in Keys : placements[k] = u
            THEN r ELSE credit[u]]

Supersede(r) ==
    state' = [s \in Reports |-> IF s = r THEN "active"
                                ELSE IF state[s] = "active" THEN "superseded"
                                ELSE state[s]]

\* Mutant: equal cuts are not told apart.
Activate_ByCut(r, placements) ==
    IF \E p \in Active : cut[p] > cut[r]
    THEN state' = [state EXCEPT ![r] = "rejected"] /\ UNCHANGED credit
    ELSE Supersede(r) /\ Freeze(r, placements)

\* activateGpvSnapshotInTransaction
Activate(r, placements) ==
    IF \E p \in Active : Later(p, r)
    THEN state' = [state EXCEPT ![r] = "rejected"] /\ UNCHANGED credit
    ELSE Supersede(r) /\ Freeze(r, placements)

\* validateGpvSnapshotInTransaction, and the activation that follows it.
Decide(r, placements, known) ==
    LET found == Validated(placements, known)
    IN  /\ rows' = [rows EXCEPT ![r] = placements]
        /\ issues' = [issues EXCEPT ![r] = found]
        /\ IF \E i \in Issues : found[i] = "open"
           THEN state' = [state EXCEPT ![r] = "needs_review"] /\ UNCHANGED credit
           ELSE Activate(r, placements)

-----------------------------------------------------------------------------
(* Uploads.                                                                    *)

\* acceptGpvSnapshot
Accept(r, c) ==
    /\ state[r] = "none"
    /\ \A p \in Active : c >= cut[p]
    /\ LET others == {s \in Reports : state[s] # "none" /\ cut[s] = c}
       IN  \E n \in {1} \cup {revision[s] + 1 : s \in others} :
              /\ \A s \in others : revision[s] < n
              /\ revision' = [revision EXCEPT ![r] = n]
    /\ cut' = [cut EXCEPT ![r] = c]
    /\ state' = [state EXCEPT ![r] = "queued"]
    /\ job' = [job EXCEPT ![r].state = "pending"]
    /\ UNCHANGED <<rows, issues, credit, run, faults>>

-----------------------------------------------------------------------------
(* The job queue, as JobQueue has it.                                          *)

MayClaim(r) == job[r].attempt < MaxAttempts

Take(w, r) ==
    /\ run[w] = Idle
    /\ MayClaim(r)
    /\ job' = [job EXCEPT ![r] = [state |-> "processing", attempt |-> @.attempt + 1,
                                  owner |-> w]]
    /\ run' = [run EXCEPT ![w] = [at |-> "load", report |-> r, done |-> FALSE]]

Runs(w, r) == run[w] # Idle /\ run[w].report = r

\* A new job, a retry, or the job of a run that is gone.
Claim(w, r) ==
    /\ \/ job[r].state = "pending"
       \/ job[r].state = "processing" /\ ~Runs(job[r].owner, r)
    /\ Take(w, r)
    /\ UNCHANGED <<snapshot, faults>>

\* The lease of a run that goes on was not renewed in time.
Steal(w, r) ==
    /\ job[r].state = "processing" /\ Runs(job[r].owner, r)
    /\ Fault
    /\ Take(w, r)
    /\ UNCHANGED snapshot

\* The process stops, or a statement after the settlement fails.
Crash(w) ==
    /\ run[w] # Idle
    /\ Fault
    /\ run' = [run EXCEPT ![w] = Idle]
    /\ UNCHANGED <<snapshot, job>>

At(w, step) == run[w] # Idle /\ run[w].at = step

Goto(w, step) == run' = [run EXCEPT ![w].at = step]

Return(w, done) == run' = [run EXCEPT ![w].at = "settle", ![w].done = done]

\* markDone, scheduleRetry, markFailed: by whoever owns the lease.
Settle(w) ==
    /\ At(w, "settle")
    /\ LET r == run[w].report
           next == IF run[w].done THEN "done"
                   ELSE IF job[r].attempt < MaxAttempts THEN "pending"
                   ELSE "failed"
       IN  IF job[r].owner = w
           THEN /\ job' = [job EXCEPT ![r].state = next, ![r].owner = Unowned]
                /\ IF next = "failed" THEN Goto(w, "settled")
                                      ELSE run' = [run EXCEPT ![w] = Idle]
           ELSE /\ run' = [run EXCEPT ![w] = Idle]
                /\ UNCHANGED job
    /\ UNCHANGED <<snapshot, faults>>

\* Mutant: a snapshot that was being processed is left as it is.
Unfinished_Queued(r) == state[r] = "queued"

\* Mutant: the failure of the job is written whatever became of the snapshot.
Unfinished_Any(r) == TRUE

Unfinished(r) == Open(r)

\* onSettled of a failed job.
OnSettled(w) ==
    /\ At(w, "settled")
    /\ state' = IF Unfinished(run[w].report)
                THEN [state EXCEPT ![run[w].report] = "failed"] ELSE state
    /\ run' = [run EXCEPT ![w] = Idle]
    /\ UNCHANGED <<report, rows, issues, credit, job, faults>>

-----------------------------------------------------------------------------
(* The runner.                                                                 *)

\* An earlier run decided the snapshot, but not its job.
Completed(r) == state[r] \in {"active", "superseded", "needs_review", "rejected"}

Load(w) ==
    /\ At(w, "load")
    /\ IF Completed(run[w].report) THEN Return(w, TRUE)
       ELSE IF state[run[w].report] = "failed" THEN Return(w, FALSE)
       ELSE Goto(w, "mark")
    /\ UNCHANGED <<snapshot, job, faults>>

Mark(w) ==
    /\ At(w, "mark")
    /\ IF Open(run[w].report)
       THEN state' = [state EXCEPT ![run[w].report] = "processing"] /\ Goto(w, "stage")
       ELSE Return(w, FALSE) /\ UNCHANGED state
    /\ UNCHANGED <<report, rows, issues, credit, job, faults>>

MayStage(r) == state[r] = "processing"

\* stageGpvSnapshot: whatever an earlier run staged is replaced.
Stage(w) ==
    /\ At(w, "stage")
    /\ LET r == run[w].report
       IN  IF MayStage(r)
           THEN /\ rows' = [rows EXCEPT ![r] = RowsOf[r]]
                /\ issues' = [issues EXCEPT ![r] =
                     [i \in Issues |->
                        IF i[1] = "rejected" /\ i[2] \in RejectedRows[r] THEN "open"
                        ELSE "none"]]
                /\ Goto(w, "finalize")
           ELSE Return(w, FALSE) /\ UNCHANGED <<rows, issues>>
    /\ UNCHANGED <<state, report, credit, job, faults>>

\* The transaction commits also when the snapshot was superseded meanwhile.
Finalize(w) ==
    /\ At(w, "finalize")
    /\ LET r == run[w].report
       IN  IF state[r] \in {"processing", "needs_review"}
           THEN Decide(r, rows[r], issues[r]) /\ Return(w, state'[r] # "rejected")
           ELSE Return(w, FALSE) /\ UNCHANGED <<state, rows, issues, credit>>
    /\ UNCHANGED <<report, job, faults>>

\* The file cannot be read, a statement fails, or the job is aborted: by its
\* timeout, also after its work is done.
Throw(w) ==
    /\ run[w] # Idle
    /\ run[w].at # "settled"
    /\ run[w].at = "settle" => run[w].done
    /\ Return(w, FALSE)
    /\ UNCHANGED <<snapshot, job, faults>>

-----------------------------------------------------------------------------
(* People.                                                                     *)

\* Mutant: the snapshot is activated as soon as its issues are resolved.
Recheck_Never(r, placements, known) ==
    /\ rows' = [rows EXCEPT ![r] = placements]
    /\ issues' = [issues EXCEPT ![r] = known]
    /\ IF \E i \in Issues : known[i] = "open"
       THEN state' = [state EXCEPT ![r] = "needs_review"] /\ UNCHANGED credit
       ELSE Activate(r, placements)

Recheck(r, placements, known) == Decide(r, placements, known)

Resolvable(r, i) == state[r] = "needs_review" /\ issues[r][i] = "open"

Resolved(r, i) == [issues[r] EXCEPT ![i] = "resolved"]

\* reject_snapshot
Reject(r, i) ==
    /\ Resolvable(r, i)
    /\ state' = [state EXCEPT ![r] = "rejected"]
    /\ issues' = [issues EXCEPT ![r] = Resolved(r, i)]
    /\ UNCHANGED <<report, rows, credit, job, run, faults>>

\* keep_previous: what the snapshot that is active by now says.
KeepPrevious(r, i) ==
    /\ Resolvable(r, i)
    /\ i[1] \in {"missing", "changed"}
    /\ \E p \in Active :
          /\ rows[p][i[2]] # Absent
          /\ Recheck(r, [rows[r] EXCEPT ![i[2]] = rows[p][i[2]]], Resolved(r, i))
    /\ UNCHANGED <<report, job, run, faults>>

\* accept_candidate
AcceptCandidate(r, i) ==
    /\ Resolvable(r, i)
    /\ i[1] \in {"missing", "changed"}
    /\ Recheck(r, rows[r], Resolved(r, i))
    /\ UNCHANGED <<report, job, run, faults>>

\* exclude_candidate: a rejected row has no placement.
ExcludeCandidate(r, i) ==
    /\ Resolvable(r, i)
    /\ i[1] \in {"changed", "rejected"}
    /\ Recheck(r, IF i[1] = "rejected" THEN rows[r] ELSE [rows[r] EXCEPT ![i[2]] = Absent],
               Resolved(r, i))
    /\ UNCHANGED <<report, job, run, faults>>

\* adjustMerchantMonthCredit, for a RUC that has no credit: from the earliest
\* cut that was published with it.
AdjustCredit(u) ==
    /\ credit[u] = NoCredit
    /\ LET sources == {r \in Reports : Published(r) /\ \E k \in Keys : rows[r][k] = u}
       IN  \E r \in sources :
              /\ \A s \in sources : ~Later(r, s)
              /\ credit' = [credit EXCEPT ![u] = r]
    /\ UNCHANGED <<state, report, rows, issues, job, run, faults>>

-----------------------------------------------------------------------------
Step(w) ==
    \/ Throw(w) \/ Load(w) \/ Mark(w) \/ Stage(w) \/ Finalize(w) \/ Settle(w) \/ OnSettled(w)

Review(r, i) ==
    \/ Reject(r, i) \/ KeepPrevious(r, i) \/ AcceptCandidate(r, i) \/ ExcludeCandidate(r, i)

Next ==
    \/ \E r \in Reports : \E c \in CutsOf[r] : Accept(r, c)
    \/ \E w \in Workers, r \in Reports : Claim(w, r) \/ Steal(w, r)
    \/ \E w \in Workers : Crash(w) \/ Step(w)
    \/ \E r \in Reports, i \in Issues : Review(r, i)
    \/ \E u \in Rucs : AdjustCredit(u)

Spec == Init /\ [][Next]_vars

\* The queue claims what can be claimed, and runs that are not stopped go on:
\* attempts are numbered, so no job and no run needs a fairness of its own.
FairSpec ==
    Spec /\ WF_vars(\E w \in Workers : Step(w) \/ \E r \in Reports : Claim(w, r))

-----------------------------------------------------------------------------
(* Properties.                                                                 *)

(* Whatever the order in which uploads are processed and reviewed, one         *)
(* snapshot is active and none that was replaced had a later cut.              *)
PublishedInOrder ==
    \A r, s \in Reports :
        /\ state[r] = "active" /\ state[s] = "active" => r = s
        /\ state[r] = "active" /\ state[s] = "superseded" => ~Later(s, r)

(* No placement disappears or changes from one active snapshot to the next     *)
(* unless somebody resolved an issue of the new one about it, also when        *)
(* another snapshot was activated while the issues were under review.          *)
ChangesAreReviewed ==
    [][\A r, p \in Reports, k \in Keys :
          /\ state[p] = "active" /\ state[r] # "active" /\ state'[r] = "active"
          /\ rows[p][k] # Absent /\ rows'[r][k] # rows[p][k]
          => issues'[r][<<IF rows'[r][k] = Absent THEN "missing" ELSE "changed", k>>]
                = "resolved"]_vars

(* What became of a snapshot stays so: what was published can only be          *)
(* superseded and keeps its placements, whatever runs of its job are late.     *)
OutcomesAreFinal ==
    \A r \in Reports :
        /\ state[r] \in {"superseded", "rejected", "failed"} => state'[r] = state[r]
        /\ Published(r) => state'[r] \in {state[r], "superseded"} /\ rows'[r] = rows[r]

(* A review is not lost: no late run of the job stages a snapshot again whose  *)
(* issues people have begun to resolve.                                        *)
ReviewIsKept ==
    \A r \in Reports, i \in Issues :
        issues[r][i] = "resolved" => issues'[r][i] = "resolved"

(* Late and repeated runs undo neither an outcome nor a review.                *)
DecidedStays == [][OutcomesAreFinal /\ ReviewIsKept]_vars

(* The job of a snapshot is done only when the snapshot is decided, whichever  *)
(* run decided it.                                                             *)
DoneIsSettled == \A r \in Reports : job[r].state = "done" => ~Open(r)

(* A credit names a snapshot that was published and has the RUC.               *)
CreditsAreSourced ==
    \A u \in Rucs :
        credit[u] # NoCredit
            => Published(credit[u]) /\ \E k \in Keys : rows[credit[u]][k] = u

(* Reports are published in the order of their cuts, whoever decides them and  *)
(* when, and months are credited from what was published.                      *)
PublishedIsConsistent == PublishedInOrder /\ CreditsAreSourced

\* The last attempt, or what follows its failure, was lost in a crash.
Lost(r) ==
    /\ faults > 0
    /\ job[r].attempt = MaxAttempts
    /\ job[r].state \in {"processing", "failed"}
    /\ \A w \in Workers : ~Runs(w, r)

(* An accepted snapshot does not stay in progress, unless a crash takes the    *)
(* last attempt or the step that marks it as failed.                           *)
SnapshotsSettle == \A r \in Reports : Open(r) ~> (~Open(r) \/ Lost(r))
=============================================================================
