------------------------- MODULE GpvSnapshotsProofs -------------------------
(***************************************************************************)
(* The safety of the report snapshots for any number of reports, cuts,     *)
(* placements, workers, attempts and faults: the larger instances that the *)
(* model checker does not reach.                                           *)
(***************************************************************************)
EXTENDS GpvSnapshots, TLAPS

Rows == [Keys -> Rucs \cup {Absent}]

Known == [Issues -> {"none", "open", "resolved"}]

(* What a step does to the snapshots, whichever action it is.                 *)

Accepted(r) ==
  /\ state[r] = "none" /\ state' = [state EXCEPT ![r] = "queued"]
  /\ \E c \in Nat : cut' = [cut EXCEPT ![r] = c]
  /\ \E n \in Nat : revision' = [revision EXCEPT ![r] = n]
  /\ UNCHANGED <<rows, issues, credit>>

Moved(r) ==
  /\ Open(r)
  /\ state' \in {[state EXCEPT ![r] = "processing"], [state EXCEPT ![r] = "failed"]}
  /\ UNCHANGED <<report, rows, issues, credit>>

Staged(r) ==
  /\ state[r] = "processing"
  /\ rows' = [rows EXCEPT ![r] = RowsOf[r]]
  /\ \E found \in [Issues -> {"none", "open"}] : issues' = [issues EXCEPT ![r] = found]
  /\ UNCHANGED <<state, report, credit>>

Decided(r) ==
  /\ state[r] \in {"processing", "needs_review"}
  /\ \E placements \in Rows, known \in Known :
        /\ Decide(r, placements, known)
        /\ \A i \in Issues : issues[r][i] = "resolved" => known[i] = "resolved"
  /\ UNCHANGED report

Rejected(r) ==
  /\ state[r] = "needs_review" /\ state' = [state EXCEPT ![r] = "rejected"]
  /\ \E i \in Issues : issues' = [issues EXCEPT ![r] = Resolved(r, i)]
  /\ UNCHANGED <<report, rows, credit>>

Adjusted == \E u \in Rucs : AdjustCredit(u)

Change(r) == Accepted(r) \/ Moved(r) \/ Staged(r) \/ Decided(r) \/ Rejected(r)

-----------------------------------------------------------------------------
LEMMA RowTypes ==
  ASSUME TypeOK, NEW r \in Reports
  PROVE  rows[r] \in Rows /\ issues[r] \in Known /\ state[r] \in States
  BY DEF TypeOK, Rows, Known

LEMMA ResolvedType ==
  ASSUME TypeOK, NEW r \in Reports, NEW i \in Issues
  PROVE  /\ Resolved(r, i) \in Known
         /\ \A x \in Issues : issues[r][x] = "resolved" => Resolved(r, i)[x] = "resolved"
  BY RowTypes DEF Resolved, Known

\* A resolution that is followed by a validation.
LEMMA RecheckDecides ==
  ASSUME TypeOK, NEW r \in Reports, NEW i \in Issues, NEW placements \in Rows,
         Resolvable(r, i), Recheck(r, placements, Resolved(r, i)), UNCHANGED report
  PROVE  Decided(r)
  BY ResolvedType DEF Decided, Recheck, Resolvable

LEMMA ReviewChanges ==
  ASSUME TypeOK, NEW r \in Reports, NEW i \in Issues, Review(r, i)
  PROVE  Change(r)
<1>1. CASE Reject(r, i)
  BY <1>1 DEF Reject, Resolvable, Rejected, Change
<1>2. ASSUME Resolvable(r, i), i[1] \in {"missing", "changed"} PROVE i[2] \in Keys
  BY <1>2 DEF Issues
<1>3. CASE KeepPrevious(r, i)
  <2>1. PICK p \in Active : Recheck(r, [rows[r] EXCEPT ![i[2]] = rows[p][i[2]]], Resolved(r, i))
    BY <1>3 DEF KeepPrevious
  <2>2. i[2] \in Keys /\ Resolvable(r, i) /\ UNCHANGED report
    BY <1>2, <1>3 DEF KeepPrevious
  <2>3. rows[r] \in Rows /\ rows[p] \in Rows
    BY RowTypes DEF Active
  <2>4. [rows[r] EXCEPT ![i[2]] = rows[p][i[2]]] \in Rows
    BY <2>2, <2>3 DEF Rows
  <2> QED
    BY <2>1, <2>2, <2>4, RecheckDecides DEF Change
<1>4. CASE AcceptCandidate(r, i)
  BY <1>4, RowTypes, RecheckDecides DEF AcceptCandidate, Change
<1>5. CASE ExcludeCandidate(r, i)
  <2>1. rows[r] \in Rows /\ [rows[r] EXCEPT ![i[2]] = Absent] \in Rows
    BY RowTypes DEF Rows
  <2>2. (IF i[1] = "rejected" THEN rows[r] ELSE [rows[r] EXCEPT ![i[2]] = Absent]) \in Rows
    BY <2>1
  <2> QED
    BY <1>5, <2>2, RecheckDecides DEF ExcludeCandidate, Change
<1> QED
  BY <1>1, <1>3, <1>4, <1>5 DEF Review

LEMMA AcceptChanges ==
  ASSUME TypeOK, NEW r \in Reports, NEW c \in CutsOf[r], Accept(r, c)
  PROVE  Change(r)
<1>1. c \in Nat
  BY SnapshotAssumption
<1>2. \E n \in Nat : revision' = [revision EXCEPT ![r] = n]
  <2> DEFINE others == {s \in Reports : state[s] # "none" /\ cut[s] = c}
  <2>1. PICK n \in {1} \cup {revision[s] + 1 : s \in others} :
          revision' = [revision EXCEPT ![r] = n]
    BY DEF Accept
  <2>2. n \in Nat
    BY DEF TypeOK
  <2> QED
    BY <2>1, <2>2
<1> QED
  BY <1>1, <1>2 DEF Accept, Accepted, Change

LEMMA StepChanges ==
  ASSUME TypeOK, NEW w \in Workers, Step(w)
  PROVE  UNCHANGED snapshot \/ \E r \in Reports : Change(r)
<1>1. CASE Load(w) \/ Throw(w) \/ Settle(w)
  BY <1>1 DEF Load, Throw, Settle
<1> DEFINE r == run[w].report
<1>2. ASSUME run[w] # Idle PROVE r \in Reports
  BY <1>2 DEF TypeOK, Run
<1>3. CASE Mark(w)
  BY <1>2, <1>3 DEF Mark, At, Moved, Change, snapshot, report
<1>4. CASE OnSettled(w)
  BY <1>2, <1>4 DEF OnSettled, At, Unfinished, Moved, Change, snapshot, report
<1>5. CASE Stage(w)
  <2>1. CASE MayStage(r)
    <3> DEFINE found == [i \in Issues |->
                 IF i[1] = "rejected" /\ i[2] \in RejectedRows[r] THEN "open" ELSE "none"]
    <3>1. found \in [Issues -> {"none", "open"}]
      OBVIOUS
    <3>2. issues' = [issues EXCEPT ![r] = found]
      BY <1>5, <2>1 DEF Stage
    <3>3. Staged(r)
      BY <1>5, <2>1, <3>1, <3>2 DEF Stage, MayStage, Staged
    <3> QED
      BY <1>2, <1>5, <3>3 DEF Stage, At, Change
  <2>2. CASE ~MayStage(r)
    BY <1>5, <2>2 DEF Stage, snapshot
  <2> QED
    BY <2>1, <2>2
<1>6. CASE Finalize(w)
  <2>0. r \in Reports
    BY <1>2, <1>6 DEF Finalize, At
  <2>1. CASE state[r] \in {"processing", "needs_review"}
    <3>1. Decide(r, rows[r], issues[r]) /\ UNCHANGED report
      BY <1>6, <2>1 DEF Finalize
    <3>2. Decided(r)
      BY <2>0, <2>1, <3>1, RowTypes DEF Decided
    <3> QED
      BY <2>0, <3>2 DEF Change
  <2>2. CASE ~(state[r] \in {"processing", "needs_review"})
    BY <1>6, <2>2 DEF Finalize, snapshot
  <2> QED
    BY <2>1, <2>2
<1> QED
  BY <1>1, <1>3, <1>4, <1>5, <1>6 DEF Step

\* Every step changes one snapshot in one of five ways, adjusts a credit, or
\* changes none.
LEMMA Changes ==
  ASSUME TypeOK, [Next]_vars
  PROVE  UNCHANGED snapshot \/ Adjusted \/ \E r \in Reports : Change(r)
<1>1. CASE UNCHANGED vars
  BY <1>1 DEF vars
<1>2. ASSUME NEW r \in Reports, NEW c \in CutsOf[r], Accept(r, c) PROVE Change(r)
  BY <1>2, AcceptChanges
<1>3. ASSUME NEW w \in Workers, NEW r \in Reports, Claim(w, r) \/ Steal(w, r)
      PROVE  UNCHANGED snapshot
  BY <1>3 DEF Claim, Steal
<1>4. ASSUME NEW w \in Workers, Crash(w) PROVE UNCHANGED snapshot
  BY <1>4 DEF Crash
<1>5. CASE \E u \in Rucs : AdjustCredit(u)
  BY <1>5 DEF Adjusted
<1> QED
  BY <1>1, <1>2, <1>3, <1>4, <1>5, StepChanges, ReviewChanges DEF Next

-----------------------------------------------------------------------------
(* What a decision does, to the snapshot and to the others.                   *)

LEMMA FoundType ==
  ASSUME NEW placements \in Rows, NEW known \in Known
  PROVE  /\ Validated(placements, known) \in Known
         /\ \A i \in Issues :
              /\ known[i] = "resolved" => Validated(placements, known)[i] = "resolved"
              /\ i \in Differences(placements)
                   => Validated(placements, known)[i] \in {"open", "resolved"}
  BY DEF Validated, Known

LEMMA SupersedeEffect ==
  ASSUME TypeOK, NEW r \in Reports, Supersede(r)
  PROVE  /\ state' \in [Reports -> States] /\ state'[r] = "active"
         /\ \A s \in Reports \ {r} :
              state'[s] = IF state[s] = "active" THEN "superseded" ELSE state[s]
  BY DEF TypeOK, Supersede, States

LEMMA FreezeEffect ==
  ASSUME TypeOK, NEW r \in Reports, NEW placements \in Rows, Freeze(r, placements)
  PROVE  /\ credit' \in [Rucs -> Reports \cup {NoCredit}]
         /\ \A u \in Rucs : \/ credit'[u] = credit[u]
                            \/ credit'[u] = r /\ \E k \in Keys : placements[k] = u
<1>1. PICK owned \in SUBSET Rucs :
        credit' = [u \in Rucs |->
          IF credit[u] = NoCredit /\ u \in owned /\ \E k \in Keys : placements[k] = u
          THEN r ELSE credit[u]]
  BY DEF Freeze
<1> QED
  BY <1>1 DEF TypeOK

\* One snapshot is active afterwards if this one is, and no later one was.
LEMMA DecideEffect ==
  ASSUME TypeOK, NEW r \in Reports, NEW placements \in Rows, NEW known \in Known,
         Decide(r, placements, known)
  PROVE  /\ rows' = [rows EXCEPT ![r] = placements]
         /\ issues' = [issues EXCEPT ![r] = Validated(placements, known)]
         /\ state' \in [Reports -> States]
         /\ credit' \in [Rucs -> Reports \cup {NoCredit}]
         /\ \/ /\ state'[r] \in {"needs_review", "rejected"}
               /\ \A s \in Reports \ {r} : state'[s] = state[s]
               /\ UNCHANGED credit
            \/ /\ state'[r] = "active"
               /\ \A s \in Reports \ {r} :
                    state'[s] = IF state[s] = "active" THEN "superseded" ELSE state[s]
               /\ \A p \in Active : ~Later(p, r)
               /\ \A i \in Issues : Validated(placements, known)[i] # "open"
               /\ \A u \in Rucs : \/ credit'[u] = credit[u]
                                  \/ credit'[u] = r /\ \E k \in Keys : placements[k] = u
<1> DEFINE found == Validated(placements, known)
<1>1. rows' = [rows EXCEPT ![r] = placements] /\ issues' = [issues EXCEPT ![r] = found]
  BY DEF Decide
<1>2. CASE \E i \in Issues : found[i] = "open"
  <2>1. state' = [state EXCEPT ![r] = "needs_review"] /\ UNCHANGED credit
    BY <1>2 DEF Decide
  <2> QED
    BY <1>1, <2>1 DEF TypeOK, States
<1>3. CASE ~\E i \in Issues : found[i] = "open"
  <2>1. Activate(r, placements)
    BY <1>3 DEF Decide
  <2>2. CASE \E p \in Active : Later(p, r)
    <3>1. state' = [state EXCEPT ![r] = "rejected"] /\ UNCHANGED credit
      BY <2>1, <2>2 DEF Activate
    <3> QED
      BY <1>1, <3>1 DEF TypeOK, States
  <2>3. CASE ~\E p \in Active : Later(p, r)
    <3>1. Supersede(r) /\ Freeze(r, placements)
      BY <2>1, <2>3 DEF Activate
    <3>2. /\ state' \in [Reports -> States] /\ state'[r] = "active"
          /\ \A s \in Reports \ {r} :
               state'[s] = IF state[s] = "active" THEN "superseded" ELSE state[s]
      BY <3>1, SupersedeEffect
    <3>3. /\ credit' \in [Rucs -> Reports \cup {NoCredit}]
          /\ \A u \in Rucs : \/ credit'[u] = credit[u]
                             \/ credit'[u] = r /\ \E k \in Keys : placements[k] = u
      BY <3>1, FreezeEffect
    <3> QED
      BY <1>1, <1>3, <2>3, <3>2, <3>3
  <2> QED
    BY <2>2, <2>3
<1> QED
  BY <1>2, <1>3

-----------------------------------------------------------------------------
(* Types.                                                                     *)

\* Of the rows that the steps of the snapshots write.
LEMMA ChangeTypes ==
  ASSUME TypeOK, NEW r \in Reports, Change(r)
  PROVE  /\ state' \in [Reports -> States]
         /\ cut' \in [Reports -> Nat]
         /\ revision' \in [Reports -> Nat]
         /\ rows' \in [Reports -> Rows]
         /\ issues' \in [Reports -> Known]
         /\ credit' \in [Rucs -> Reports \cup {NoCredit}]
<1>1. CASE Accepted(r)
  BY <1>1 DEF Accepted, TypeOK, States, Rows, Known
<1>2. CASE Moved(r)
  BY <1>2 DEF Moved, TypeOK, States, Rows, Known, report
<1>3. CASE Staged(r)
  <2>1. RowsOf[r] \in Rows
    BY SnapshotAssumption DEF Rows
  <2>2. PICK found \in [Issues -> {"none", "open"}] : issues' = [issues EXCEPT ![r] = found]
    BY <1>3 DEF Staged
  <2>3. found \in Known
    BY DEF Known
  <2> QED
    BY <1>3, <2>1, <2>2, <2>3 DEF Staged, TypeOK, Rows, Known, report
<1>4. CASE Decided(r)
  <2>1. PICK placements \in Rows, known \in Known : Decide(r, placements, known)
    BY <1>4 DEF Decided
  <2>2. Validated(placements, known) \in Known
    BY FoundType
  <2>3. /\ rows' = [rows EXCEPT ![r] = placements]
        /\ issues' = [issues EXCEPT ![r] = Validated(placements, known)]
        /\ state' \in [Reports -> States]
        /\ credit' \in [Rucs -> Reports \cup {NoCredit}]
    BY <2>1, DecideEffect
  <2>4. UNCHANGED <<cut, revision>>
    BY <1>4 DEF Decided, report
  <2> QED
    BY <2>2, <2>3, <2>4 DEF TypeOK, Rows, Known
<1>5. CASE Rejected(r)
  BY <1>5, ResolvedType DEF Rejected, TypeOK, States, Rows, Known, report
<1> QED
  BY <1>1, <1>2, <1>3, <1>4, <1>5 DEF Change

LEMMA RunType ==
  ASSUME TypeOK, NEW w \in Workers, run[w] # Idle
  PROVE  run[w] \in Run /\ run[w].report \in Reports
  BY DEF TypeOK, Run

\* What a step of a run makes of it.
LEMMA ReturnEffect ==
  ASSUME TypeOK, NEW w \in Workers, run[w] # Idle, NEW done \in BOOLEAN, Return(w, done)
  PROVE  /\ run' \in [Workers -> Run \cup {Idle}]
         /\ run'[w].at = "settle" /\ run'[w].done = done /\ run'[w].report = run[w].report
         /\ \A v \in Workers \ {w} : run'[v] = run[v]
<1> DEFINE after == [run[w] EXCEPT !.at = "settle", !.done = done]
<1>1. /\ after \in Run
      /\ after.at = "settle" /\ after.done = done /\ after.report = run[w].report
  BY RunType DEF Run
<1>2. run' = [run EXCEPT ![w] = after]
  BY DEF Return
<1> HIDE DEF after
<1> QED
  BY <1>1, <1>2 DEF TypeOK

LEMMA GotoEffect ==
  ASSUME TypeOK, NEW w \in Workers, run[w] # Idle,
         NEW step \in {"mark", "stage", "finalize", "settled"}, Goto(w, step)
  PROVE  /\ run' \in [Workers -> Run \cup {Idle}]
         /\ run'[w].at = step /\ run'[w].report = run[w].report
         /\ \A v \in Workers \ {w} : run'[v] = run[v]
<1> DEFINE after == [run[w] EXCEPT !.at = step]
<1>1. after \in Run /\ after.at = step /\ after.report = run[w].report
  BY RunType DEF Run
<1>2. run' = [run EXCEPT ![w] = after]
  BY DEF Goto
<1> HIDE DEF after
<1> QED
  BY <1>1, <1>2 DEF TypeOK

LEMMA IdleEffect ==
  ASSUME TypeOK, NEW w \in Workers, run' = [run EXCEPT ![w] = Idle]
  PROVE  /\ run' \in [Workers -> Run \cup {Idle}] /\ run'[w] = Idle
         /\ \A v \in Workers \ {w} : run'[v] = run[v]
  BY DEF TypeOK

LEMMA TakeEffect ==
  ASSUME TypeOK, NEW w \in Workers, NEW r \in Reports, Take(w, r)
  PROVE  /\ run' \in [Workers -> Run \cup {Idle}] /\ job' \in [Reports -> Job]
         /\ run'[w] = [at |-> "load", report |-> r, done |-> FALSE]
         /\ \A v \in Workers \ {w} : run'[v] = run[v]
         /\ job'[r].state = "processing" /\ \A s \in Reports \ {r} : job'[s] = job[s]
<1> DEFINE taken == [state |-> "processing", attempt |-> job[r].attempt + 1, owner |-> w]
           started == [at |-> "load", report |-> r, done |-> FALSE]
<1>1. taken \in Job
  BY SnapshotAssumption DEF Take, MayClaim, TypeOK, Job
<1>2. started \in Run
  BY DEF Run
<1>3. job' = [job EXCEPT ![r] = taken] /\ run' = [run EXCEPT ![w] = started]
  BY DEF Take, TypeOK
<1> HIDE DEF started
<1>4. /\ run' \in [Workers -> Run \cup {Idle}] /\ run'[w] = started
      /\ \A v \in Workers \ {w} : run'[v] = run[v]
  BY <1>2, <1>3 DEF TypeOK
<1>5. /\ job' \in [Reports -> Job] /\ job'[r] = taken
      /\ \A s \in Reports \ {r} : job'[s] = job[s]
  BY <1>1, <1>3 DEF TypeOK
<1> QED
  BY <1>4, <1>5 DEF started

LEMMA AcceptJob ==
  ASSUME TypeOK, NEW r \in Reports, NEW c \in CutsOf[r], Accept(r, c)
  PROVE  /\ job' \in [Reports -> Job] /\ job'[r].state = "pending"
         /\ \A s \in Reports \ {r} : job'[s] = job[s]
<1> DEFINE new == [job[r] EXCEPT !.state = "pending"]
<1>1. new \in Job /\ new.state = "pending"
  BY DEF TypeOK, Job
<1>2. job' = [job EXCEPT ![r] = new]
  BY DEF Accept
<1> HIDE DEF new
<1> QED
  BY <1>1, <1>2 DEF TypeOK

\* The job is done only by a run that returned so.
LEMMA SettleEffect ==
  ASSUME TypeOK, NEW w \in Workers, Settle(w)
  PROVE  /\ job' \in [Reports -> Job] /\ run' \in [Workers -> Run \cup {Idle}]
         /\ \A v \in Workers \ {w} : run'[v] = run[v]
         /\ \/ run'[w] = Idle
            \/ run'[w].at = "settled" /\ run'[w].report = run[w].report
         /\ \A r \in Reports :
              \/ job'[r] = job[r]
              \/ r = run[w].report /\ job'[r].state \in {"pending", "failed"}
              \/ r = run[w].report /\ job'[r].state = "done" /\ run[w].done
<1> DEFINE r == run[w].report
           next == IF run[w].done THEN "done"
                   ELSE IF job[r].attempt < MaxAttempts THEN "pending"
                   ELSE "failed"
           settled == [job[r] EXCEPT !.state = next, !.owner = Unowned]
<1>0. run[w] # Idle /\ run[w] \in Run /\ r \in Reports /\ job[r] \in Job
  BY RunType DEF Settle, At, TypeOK
<1>1. next \in {"done", "pending", "failed"} /\ (next = "done" => run[w].done)
  OBVIOUS
<1> HIDE DEF next
<1>2. settled \in Job /\ settled.state = next
  BY <1>0, <1>1 DEF Job
<1>3. CASE job[r].owner = w
  <2>1. /\ job' = [job EXCEPT ![r] = settled]
        /\ IF next = "failed" THEN Goto(w, "settled") ELSE run' = [run EXCEPT ![w] = Idle]
    BY <1>3 DEF Settle, next
  <2>2. /\ run' \in [Workers -> Run \cup {Idle}]
        /\ \A v \in Workers \ {w} : run'[v] = run[v]
        /\ \/ run'[w] = Idle
           \/ run'[w].at = "settled" /\ run'[w].report = run[w].report
    BY <1>0, <2>1, GotoEffect, IdleEffect
  <2>3. /\ job' \in [Reports -> Job] /\ job'[r].state = next
        /\ \A s \in Reports \ {r} : job'[s] = job[s]
    <3> HIDE DEF settled
    <3> QED
      BY <1>0, <1>2, <2>1 DEF TypeOK
  <2> QED
    BY <1>1, <2>2, <2>3
<1>4. CASE job[r].owner # w
  <2>1. run' = [run EXCEPT ![w] = Idle] /\ UNCHANGED job
    BY <1>4 DEF Settle
  <2> QED
    BY <2>1, IdleEffect DEF TypeOK
<1> QED
  BY <1>3, <1>4

\* What a step of the runner does to its run.
LEMMA RunnerEffect ==
  ASSUME TypeOK, NEW w \in Workers, Load(w) \/ Mark(w) \/ Stage(w) \/ Finalize(w) \/ Throw(w)
  PROVE  /\ run' \in [Workers -> Run \cup {Idle}] /\ run'[w] # Idle
         /\ run'[w].report = run[w].report
         /\ \A v \in Workers \ {w} : run'[v] = run[v]
         /\ run'[w].at = "settle" /\ run'[w].done
              => \/ Load(w) /\ Completed(run[w].report)
                 \/ Finalize(w) /\ state[run[w].report] \in {"processing", "needs_review"}
                               /\ state'[run[w].report] # "rejected"
         /\ UNCHANGED <<job, faults>>
<1>0. run[w] # Idle
  BY DEF Load, Mark, Stage, Finalize, Throw, At
<1>a. ASSUME NEW done \in BOOLEAN, Return(w, done)
      PROVE  /\ run' \in [Workers -> Run \cup {Idle}] /\ run'[w] # Idle
             /\ run'[w].report = run[w].report /\ run'[w].done = done
             /\ \A v \in Workers \ {w} : run'[v] = run[v]
  <2>1. /\ run' \in [Workers -> Run \cup {Idle}]
        /\ run'[w].at = "settle" /\ run'[w].done = done /\ run'[w].report = run[w].report
        /\ \A v \in Workers \ {w} : run'[v] = run[v]
    BY <1>0, <1>a, ReturnEffect
  <2> QED
    BY <2>1 DEF Idle
<1>b. ASSUME NEW step \in {"mark", "stage", "finalize"}, Goto(w, step)
      PROVE  /\ run' \in [Workers -> Run \cup {Idle}] /\ run'[w] # Idle
             /\ run'[w].report = run[w].report /\ run'[w].at = step
             /\ \A v \in Workers \ {w} : run'[v] = run[v]
  <2>1. /\ run' \in [Workers -> Run \cup {Idle}]
        /\ run'[w].at = step /\ run'[w].report = run[w].report
        /\ \A v \in Workers \ {w} : run'[v] = run[v]
    BY <1>0, <1>b, GotoEffect
  <2> QED
    BY <2>1 DEF Idle
<1>1. CASE Load(w)
  BY <1>1, <1>a, <1>b DEF Load
<1>2. CASE Mark(w)
  BY <1>2, <1>a, <1>b DEF Mark
<1>3. CASE Stage(w)
  BY <1>3, <1>a, <1>b DEF Stage
<1>4. CASE Finalize(w)
  <2>1. CASE state[run[w].report] \in {"processing", "needs_review"}
    <3>1. Return(w, state'[run[w].report] # "rejected")
      BY <1>4, <2>1 DEF Finalize
    <3>2. (state'[run[w].report] # "rejected") \in BOOLEAN
      OBVIOUS
    <3> DEFINE done == state'[run[w].report] # "rejected"
    <3> HIDE DEF done
    <3>3. /\ run' \in [Workers -> Run \cup {Idle}] /\ run'[w] # Idle
          /\ run'[w].report = run[w].report /\ run'[w].done = done
          /\ \A v \in Workers \ {w} : run'[v] = run[v]
      BY <3>1, <3>2, <1>a DEF done
    <3>4. run'[w].done => state'[run[w].report] # "rejected"
      BY <3>3 DEF done
    <3> QED
      BY <1>4, <2>1, <3>3, <3>4 DEF Finalize
  <2>2. CASE ~(state[run[w].report] \in {"processing", "needs_review"})
    BY <1>4, <2>2, <1>a DEF Finalize
  <2> QED
    BY <2>1, <2>2
<1>5. CASE Throw(w)
  BY <1>5, <1>a DEF Throw
<1> QED
  BY <1>1, <1>2, <1>3, <1>4, <1>5

\* The bound on the faults.
LEMMA FaultType == TypeOK /\ Fault => faults' \in 0 .. MaxFaults
  BY SnapshotAssumption DEF TypeOK, Fault

LEMMA JobTypes ==
  ASSUME TypeOK, [Next]_vars
  PROVE  /\ job' \in [Reports -> Job] /\ run' \in [Workers -> Run \cup {Idle}]
         /\ faults' \in 0 .. MaxFaults
<1> DEFINE Typed == /\ job' \in [Reports -> Job] /\ run' \in [Workers -> Run \cup {Idle}]
                    /\ faults' \in 0 .. MaxFaults
<1>0. /\ job \in [Reports -> Job] /\ run \in [Workers -> Run \cup {Idle}]
      /\ faults \in 0 .. MaxFaults
  BY DEF TypeOK
<1>1. CASE UNCHANGED vars
  BY <1>0, <1>1 DEF vars
<1>2. ASSUME NEW r \in Reports, NEW c \in CutsOf[r], Accept(r, c) PROVE Typed
  <2>1. job' \in [Reports -> Job]
    BY <1>2, AcceptJob
  <2> QED
    BY <1>0, <1>2, <2>1 DEF Accept
<1>3. ASSUME NEW w \in Workers, NEW r \in Reports, Claim(w, r) \/ Steal(w, r) PROVE Typed
  <2>1. Take(w, r) /\ (UNCHANGED faults \/ Fault)
    BY <1>3 DEF Claim, Steal
  <2> QED
    BY <1>0, <2>1, TakeEffect, FaultType
<1>4. ASSUME NEW w \in Workers, Crash(w) PROVE Typed
  BY <1>0, <1>4, IdleEffect, FaultType DEF Crash
<1>5. ASSUME NEW w \in Workers, Step(w) PROVE Typed
  <2>1. CASE Load(w) \/ Mark(w) \/ Stage(w) \/ Finalize(w) \/ Throw(w)
    BY <1>0, <2>1, RunnerEffect
  <2>2. CASE Settle(w)
    <3>1. UNCHANGED faults
      BY <2>2 DEF Settle
    <3> QED
      BY <1>0, <2>2, <3>1, SettleEffect
  <2>3. CASE OnSettled(w)
    BY <1>0, <2>3, IdleEffect DEF OnSettled
  <2> QED
    BY <1>5, <2>1, <2>2, <2>3 DEF Step
<1>6. ASSUME NEW r \in Reports, NEW i \in Issues, Review(r, i) PROVE Typed
  BY <1>0, <1>6 DEF Review, Reject, KeepPrevious, AcceptCandidate, ExcludeCandidate
<1>7. ASSUME NEW u \in Rucs, AdjustCredit(u) PROVE Typed
  BY <1>0, <1>7 DEF AdjustCredit
<1> QED
  BY <1>1, <1>2, <1>3, <1>4, <1>5, <1>6, <1>7 DEF Next

LEMMA TypesKept == TypeOK /\ [Next]_vars => TypeOK'
<1> SUFFICES ASSUME TypeOK, [Next]_vars PROVE TypeOK'
  OBVIOUS
<1>1. /\ state' \in [Reports -> States]
      /\ cut' \in [Reports -> Nat]
      /\ revision' \in [Reports -> Nat]
      /\ rows' \in [Reports -> Rows]
      /\ issues' \in [Reports -> Known]
      /\ credit' \in [Rucs -> Reports \cup {NoCredit}]
  <2>1. CASE UNCHANGED snapshot
    BY <2>1 DEF TypeOK, snapshot, report, Rows, Known
  <2>2. CASE Adjusted
    <3>1. PICK u \in Rucs, r \in Reports : credit' = [credit EXCEPT ![u] = r]
      BY <2>2 DEF Adjusted, AdjustCredit
    <3> QED
      BY <2>2, <3>1 DEF Adjusted, AdjustCredit, TypeOK, report, Rows, Known
  <2>3. CASE \E r \in Reports : Change(r)
    BY <2>3, ChangeTypes
  <2> QED
    BY <2>1, <2>2, <2>3, Changes
<1> QED
  BY <1>1, JobTypes DEF TypeOK, Rows, Known

LEMMA InitTypes == Init => TypeOK
  BY SnapshotAssumption DEF Init, TypeOK, States, NoRows, NoIssues, Job, Idle

(* The rows of the snapshots, their issues, their jobs and the runs of them   *)
(* keep their types; an attempt is not counted past MaxAttempts.              *)
THEOREM TypeCorrect == Spec => []TypeOK
<1>1. Init => TypeOK
  BY InitTypes
<1>2. TypeOK /\ [Next]_vars => TypeOK'
  BY TypesKept
<1> QED
  BY <1>1, <1>2, PTL DEF Spec

-----------------------------------------------------------------------------
(* What is published.                                                         *)

\* Snapshots in the order of their cuts; once one was published, one is active.
PublishedInv ==
  /\ PublishedInOrder
  /\ \A s \in Reports : state[s] = "superseded" => \E r \in Reports : state[r] = "active"

\* Not being later is transitive.
LEMMA LaterOrder ==
  ASSUME TypeOK, NEW r \in Reports, NEW s \in Reports, NEW p \in Reports,
         ~Later(s, p), ~Later(p, r)
  PROVE  ~Later(s, r)
<1>1. /\ cut[r] \in Nat /\ cut[s] \in Nat /\ cut[p] \in Nat
      /\ revision[r] \in Nat /\ revision[s] \in Nat /\ revision[p] \in Nat
  BY DEF TypeOK
<1> QED
  BY <1>1 DEF Later

\* A snapshot that stays where it is among the published ones, and its order.
LEMMA PublishedSame ==
  ASSUME PublishedInv, UNCHANGED report,
         \A s \in Reports : state[s] \in {"active", "superseded"}
                               \/ state'[s] \in {"active", "superseded"} => state'[s] = state[s]
  PROVE  PublishedInv'
  BY DEF PublishedInv, PublishedInOrder, Later, report

LEMMA PublishedKept == TypeOK /\ PublishedInv /\ [Next]_vars => PublishedInv'
<1> SUFFICES ASSUME TypeOK, PublishedInv, [Next]_vars PROVE PublishedInv'
  OBVIOUS
<1>1. CASE UNCHANGED snapshot
  BY <1>1, PublishedSame DEF snapshot
<1>2. CASE Adjusted
  BY <1>2, PublishedSame DEF Adjusted, AdjustCredit
<1>3. ASSUME NEW r \in Reports, Change(r) PROVE PublishedInv'
  <2>0. state \in [Reports -> States]
    BY DEF TypeOK
  <2>1. CASE Accepted(r)
    <3>1. \A s \in Reports : /\ state'[s] \in {"active", "superseded"} => state'[s] = state[s]
                             /\ state[s] \in {"active", "superseded"} => state'[s] = state[s]
      BY <2>0, <2>1 DEF Accepted
    <3>2. \A s \in Reports : state'[s] \in {"active", "superseded"}
                               => cut'[s] = cut[s] /\ revision'[s] = revision[s]
      BY <2>0, <2>1 DEF Accepted, TypeOK
    <3>3. \A s, x \in Reports : /\ state'[s] \in {"active", "superseded"}
                                /\ state'[x] \in {"active", "superseded"}
                             => (Later(s, x)' <=> Later(s, x))
      BY <3>2 DEF Later
    <3>4. ASSUME NEW x \in Reports, NEW s \in Reports, state'[x] = "active"
          PROVE  /\ state'[s] = "active" => x = s
                 /\ state'[s] = "superseded" => ~Later(s, x)'
      <4>1. state[x] = "active"
        BY <3>1, <3>4
      <4>2. state'[s] \in {"active", "superseded"} => state[s] = state'[s]
        BY <3>1
      <4>3. state'[s] = "superseded" => (Later(s, x)' <=> Later(s, x))
        BY <3>3, <3>4
      <4> QED
        BY <4>1, <4>2, <4>3 DEF PublishedInv, PublishedInOrder
    <3>5. ASSUME NEW s \in Reports, state'[s] = "superseded"
          PROVE  \E x \in Reports : state'[x] = "active"
      <4>1. state[s] = "superseded"
        BY <3>1, <3>5
      <4>2. PICK x \in Reports : state[x] = "active"
        BY <4>1 DEF PublishedInv
      <4> QED
        BY <3>1, <4>2
    <3> QED
      BY <3>4, <3>5 DEF PublishedInv, PublishedInOrder
  <2>2. CASE Moved(r)
    BY <2>0, <2>2, PublishedSame DEF Moved, Open
  <2>3. CASE Staged(r)
    BY <2>3, PublishedSame DEF Staged
  <2>4. CASE Rejected(r)
    BY <2>0, <2>4, PublishedSame DEF Rejected
  <2>5. CASE Decided(r)
    <3>1. PICK placements \in Rows, known \in Known : Decide(r, placements, known)
      BY <2>5 DEF Decided
    <3>2. state[r] \in {"processing", "needs_review"} /\ UNCHANGED report
      BY <2>5 DEF Decided
    <3>3. CASE state'[r] # "active"
      BY <3>1, <3>2, <3>3, DecideEffect, PublishedSame
    <3>4. CASE state'[r] = "active"
      <4>1. /\ \A s \in Reports \ {r} :
                  state'[s] = IF state[s] = "active" THEN "superseded" ELSE state[s]
            /\ \A p \in Active : ~Later(p, r)
        BY <3>1, <3>4, DecideEffect
      <4>2. ASSUME NEW s \in Reports, state'[s] = "superseded" PROVE ~Later(s, r)
        <5>1. CASE s \in Active
          BY <4>1, <5>1
        <5>2. CASE s \notin Active
          <6>1. state[s] = "superseded"
            BY <3>4, <4>1, <4>2, <5>2 DEF Active
          <6>2. PICK p \in Reports : state[p] = "active"
            BY <6>1 DEF PublishedInv
          <6>3. ~Later(s, p) /\ ~Later(p, r)
            BY <4>1, <6>1, <6>2 DEF PublishedInv, PublishedInOrder, Active
          <6> QED
            BY <6>3, LaterOrder
        <5> QED
          BY <5>1, <5>2
      <4>3. \A s \in Reports : state'[s] = "active" => s = r
        BY <4>1
      <4>4. \A s \in Reports : Later(s, r)' <=> Later(s, r)
        BY <3>2 DEF Later, report
      <4> QED
        BY <3>4, <4>2, <4>3, <4>4 DEF PublishedInv, PublishedInOrder
    <3> QED
      BY <3>3, <3>4
  <2> QED
    BY <1>3, <2>1, <2>2, <2>3, <2>4, <2>5 DEF Change
<1> QED
  BY <1>1, <1>2, <1>3, Changes

(* However many reports are finalised and reviewed in whatever order, one     *)
(* snapshot is active and none that was replaced is later than it.            *)
THEOREM OnlyLaterReplaces == Spec => []PublishedInOrder
<1>1. Init => PublishedInv
  BY DEF Init, PublishedInv, PublishedInOrder
<1>2. TypeOK /\ PublishedInv /\ [Next]_vars => PublishedInv'
  BY PublishedKept
<1>3. PublishedInv => PublishedInOrder
  BY DEF PublishedInv
<1> QED
  BY <1>1, <1>2, <1>3, TypeCorrect, PTL DEF Spec

-----------------------------------------------------------------------------
(* What stays.                                                                *)

\* What became of one snapshot stays so in a step.
Final(r) ==
  /\ state[r] \in {"superseded", "rejected", "failed"} => state'[r] = state[r]
  /\ Published(r) => state'[r] \in {state[r], "superseded"} /\ rows'[r] = rows[r]

LEMMA FinalKept ==
  ASSUME TypeOK, [Next]_vars, NEW s \in Reports
  PROVE  Final(s)
<1>0. state \in [Reports -> States] /\ rows \in [Reports -> Rows]
  BY DEF TypeOK, Rows
<1>1. CASE UNCHANGED snapshot
  BY <1>1 DEF Final, snapshot
<1>2. CASE Adjusted
  BY <1>2 DEF Final, Adjusted, AdjustCredit
<1>3. ASSUME NEW r \in Reports, Change(r) PROVE Final(s)
  <2>1. CASE Accepted(r)
    BY <1>0, <2>1 DEF Accepted, Final, Published
  <2>2. CASE Moved(r)
    BY <1>0, <2>2 DEF Moved, Open, Final, Published
  <2>3. CASE Staged(r)
    BY <1>0, <2>3 DEF Staged, Final, Published
  <2>4. CASE Rejected(r)
    BY <1>0, <2>4 DEF Rejected, Final, Published
  <2>5. CASE Decided(r)
    <3>1. PICK placements \in Rows, known \in Known : Decide(r, placements, known)
      BY <2>5 DEF Decided
    <3>2. state[r] \in {"processing", "needs_review"}
      BY <2>5 DEF Decided
    <3>3. rows' = [rows EXCEPT ![r] = placements]
      BY <3>1, DecideEffect
    <3>4. \A x \in Reports \ {r} :
            state'[x] = state[x] \/ (state[x] = "active" /\ state'[x] = "superseded")
      BY <3>1, DecideEffect
    <3> QED
      BY <1>0, <3>2, <3>3, <3>4 DEF Final, Published
  <2> QED
    BY <1>3, <2>1, <2>2, <2>3, <2>4, <2>5 DEF Change
<1> QED
  BY <1>1, <1>2, <1>3, Changes

(* No step, of a late run or of anybody else, changes what became of a        *)
(* snapshot or the placements of one that was published.                      *)
THEOREM OutcomesStay == Spec => [][OutcomesAreFinal]_vars
<1>1. TypeOK /\ [Next]_vars => \A r \in Reports : Final(r)
  BY FinalKept
<1>2. TypeOK /\ [Next]_vars =>
        [OutcomesAreFinal]_vars
  BY <1>1 DEF Final, OutcomesAreFinal
<1> QED
  BY <1>2, TypeCorrect, PTL DEF Spec

\* Only a snapshot that was reviewed has resolved issues.
ReviewedInv ==
  \A r \in Reports, i \in Issues :
    issues[r][i] = "resolved" => state[r] \notin {"none", "queued", "processing"}

LEMMA ReviewedKept ==
  ASSUME TypeOK, ReviewedInv, [Next]_vars
  PROVE  /\ ReviewedInv'
         /\ \A r \in Reports, i \in Issues :
              issues[r][i] = "resolved" => issues'[r][i] = "resolved"
<1>0. state \in [Reports -> States] /\ issues \in [Reports -> Known]
  BY DEF TypeOK, Known
<1>1. CASE UNCHANGED snapshot
  BY <1>1 DEF snapshot, ReviewedInv
<1>2. CASE Adjusted
  BY <1>2 DEF Adjusted, AdjustCredit, ReviewedInv
<1>3. ASSUME NEW r \in Reports, Change(r)
      PROVE  /\ ReviewedInv'
             /\ \A s \in Reports, i \in Issues :
                  issues[s][i] = "resolved" => issues'[s][i] = "resolved"
  <2>1. CASE Accepted(r)
    BY <1>0, <2>1 DEF Accepted, ReviewedInv
  <2>2. CASE Moved(r)
    BY <1>0, <2>2 DEF Moved, Open, ReviewedInv
  <2>3. CASE Staged(r)
    <3>1. \A i \in Issues : issues[r][i] # "resolved"
      BY <2>3 DEF Staged, ReviewedInv
    <3>2. PICK found \in [Issues -> {"none", "open"}] : issues' = [issues EXCEPT ![r] = found]
      BY <2>3 DEF Staged
    <3> QED
      BY <1>0, <2>3, <3>1, <3>2 DEF Staged, ReviewedInv
  <2>4. CASE Rejected(r)
    <3>1. PICK i \in Issues : issues' = [issues EXCEPT ![r] = Resolved(r, i)]
      BY <2>4 DEF Rejected
    <3>2. \A x \in Issues : issues[r][x] = "resolved" => issues'[r][x] = "resolved"
      BY <1>0, <3>1, ResolvedType
    <3>3. \A s \in Reports \ {r} : issues'[s] = issues[s] /\ state'[s] = state[s]
      BY <1>0, <2>4, <3>1 DEF Rejected
    <3>4. state'[r] = "rejected"
      BY <1>0, <2>4 DEF Rejected
    <3> QED
      BY <3>2, <3>3, <3>4 DEF ReviewedInv
  <2>5. CASE Decided(r)
    <3>1. PICK placements \in Rows, known \in Known :
            /\ Decide(r, placements, known)
            /\ \A i \in Issues : issues[r][i] = "resolved" => known[i] = "resolved"
      BY <2>5 DEF Decided
    <3>2. issues' = [issues EXCEPT ![r] = Validated(placements, known)]
      BY <3>1, DecideEffect
    <3>3. \A i \in Issues : issues[r][i] = "resolved" => issues'[r][i] = "resolved"
      BY <1>0, <3>1, <3>2, FoundType
    <3>4. state'[r] \in {"needs_review", "rejected", "active"}
      BY <3>1, DecideEffect
    <3>5. \A s \in Reports \ {r} : /\ issues'[s] = issues[s]
                                   /\ state'[s] = state[s] \/ state'[s] = "superseded"
      BY <1>0, <3>1, <3>2, DecideEffect
    <3> QED
      BY <3>3, <3>4, <3>5 DEF ReviewedInv
  <2> QED
    BY <1>3, <2>1, <2>2, <2>3, <2>4, <2>5 DEF Change
<1> QED
  BY <1>1, <1>2, <1>3, Changes

(* A resolution is never lost: what has resolved issues is not staged again.  *)
THEOREM ReviewsStay == Spec => [][ReviewIsKept]_vars
<1>1. Init => ReviewedInv
  BY DEF Init, ReviewedInv, NoIssues
<1>2. TypeOK /\ ReviewedInv /\ [Next]_vars => ReviewedInv'
  BY ReviewedKept
<1>3. TypeOK /\ ReviewedInv /\ [Next]_vars =>
        [ReviewIsKept]_vars
  BY ReviewedKept DEF ReviewIsKept
<1> QED
  BY <1>1, <1>2, <1>3, TypeCorrect, PTL DEF Spec

\* Of one placement, as one snapshot takes the place of another.
Reviewed(r, p, k) ==
  /\ state[p] = "active" /\ state[r] # "active" /\ state'[r] = "active"
  /\ rows[p][k] # Absent /\ rows'[r][k] # rows[p][k]
  => issues'[r][<<IF rows'[r][k] = Absent THEN "missing" ELSE "changed", k>>] = "resolved"

LEMMA DifferencesReviewed ==
  ASSUME TypeOK, [Next]_vars, NEW r \in Reports, NEW p \in Reports, NEW k \in Keys
  PROVE  Reviewed(r, p, k)
<1> SUFFICES ASSUME state[p] = "active", state[r] # "active", state'[r] = "active",
                    rows[p][k] # Absent, rows'[r][k] # rows[p][k]
             PROVE  issues'[r][<<IF rows'[r][k] = Absent THEN "missing" ELSE "changed", k>>]
                      = "resolved"
  BY DEF Reviewed
<1>0. /\ state \in [Reports -> States] /\ issues \in [Reports -> Known]
      /\ rows \in [Reports -> Rows]
  BY DEF TypeOK, Known, Rows
<1>1. PICK s \in Reports : Change(s)
  BY Changes DEF snapshot, Adjusted, AdjustCredit
<1>2. s = r /\ Decided(r)
  <2>1. CASE Accepted(s) \/ Moved(s) \/ Staged(s) \/ Rejected(s)
    BY <1>0, <2>1 DEF Accepted, Moved, Staged, Rejected
  <2>2. CASE Decided(s)
    <3>1. PICK placements \in Rows, known \in Known : Decide(s, placements, known)
      BY <2>2 DEF Decided
    <3>2. s # r => state'[r] # "active"
      BY <3>1, DecideEffect
    <3> QED
      BY <2>2, <3>2
  <2> QED
    BY <1>1, <2>1, <2>2 DEF Change
<1>3. PICK placements \in Rows, known \in Known : Decide(r, placements, known)
  BY <1>2 DEF Decided
<1> DEFINE i == <<IF placements[k] = Absent THEN "missing" ELSE "changed", k>>
<1>4. rows'[r] = placements /\ issues'[r] = Validated(placements, known)
  BY <1>0, <1>3, DecideEffect
<1>5. i \in Issues
  BY DEF Issues
<1>6. i \in Differences(placements)
  BY <1>4 DEF Differences, Active
<1>7. Validated(placements, known)[i] \in {"open", "resolved"}
  BY <1>5, <1>6, FoundType
<1>8. Validated(placements, known)[i] # "open"
  BY <1>3, <1>5, DecideEffect
<1> QED
  BY <1>4, <1>7, <1>8

(* No placement of the active snapshot disappears or changes with the next    *)
(* one unless an issue about it was resolved, whatever was activated while    *)
(* the issues were under review.                                              *)
THEOREM ReviewBeforeChange == Spec => ChangesAreReviewed
<1>1. TypeOK /\ [Next]_vars => \A r, p \in Reports, k \in Keys : Reviewed(r, p, k)
  BY DifferencesReviewed
<1>2. TypeOK /\ [Next]_vars =>
        [\A r, p \in Reports, k \in Keys :
          /\ state[p] = "active" /\ state[r] # "active" /\ state'[r] = "active"
          /\ rows[p][k] # Absent /\ rows'[r][k] # rows[p][k]
          => issues'[r][<<IF rows'[r][k] = Absent THEN "missing" ELSE "changed", k>>]
                = "resolved"]_vars
  BY <1>1 DEF Reviewed
<1> QED
  BY <1>2, TypeCorrect, PTL DEF Spec, ChangesAreReviewed

-----------------------------------------------------------------------------
(* Credits.                                                                   *)

\* A snapshot that was published, with the RUC.
Source(r, u) == Published(r) /\ \E k \in Keys : rows[r][k] = u

LEMMA SourceKept ==
  ASSUME TypeOK, [Next]_vars, NEW r \in Reports, NEW u, Source(r, u)
  PROVE  Source(r, u)'
  BY FinalKept DEF Source, Final, Published

LEMMA CreditKept ==
  ASSUME TypeOK, CreditsAreSourced, [Next]_vars, NEW u \in Rucs, credit'[u] # NoCredit
  PROVE  \E r \in Reports : credit'[u] = r /\ Source(r, u)'
<1>0. /\ state \in [Reports -> States] /\ rows \in [Reports -> Rows]
      /\ credit \in [Rucs -> Reports \cup {NoCredit}]
  BY DEF TypeOK, Rows
<1>1. CASE credit'[u] = credit[u]
  <2>1. PICK r \in Reports : credit[u] = r
    BY <1>0, <1>1
  <2>2. Source(r, u)
    BY <1>1, <2>1 DEF CreditsAreSourced, Source
  <2> QED
    BY <1>1, <2>1, <2>2, SourceKept
<1>2. CASE credit'[u] # credit[u]
  <2>1. CASE Adjusted
    <3>1. PICK v \in Rucs : AdjustCredit(v)
      BY <2>1 DEF Adjusted
    <3> DEFINE sources == {r \in Reports : Published(r) /\ \E k \in Keys : rows[r][k] = v}
    <3>2. PICK r \in sources : credit' = [credit EXCEPT ![v] = r]
      BY <3>1 DEF AdjustCredit
    <3>3. v = u /\ credit'[u] = r
      BY <1>0, <1>2, <3>2
    <3>4. r \in Reports /\ Source(r, u)
      BY <3>3 DEF Source
    <3> QED
      BY <3>3, <3>4, SourceKept
  <2>2. ASSUME NEW r \in Reports, Change(r) PROVE credit'[u] = r /\ Source(r, u)'
    <3>1. Decided(r)
      BY <1>2, <2>2 DEF Change, Accepted, Moved, Staged, Rejected
    <3>2. PICK placements \in Rows, known \in Known : Decide(r, placements, known)
      BY <3>1 DEF Decided
    <3>3. /\ rows' = [rows EXCEPT ![r] = placements] /\ state'[r] = "active"
          /\ credit'[u] = r /\ \E k \in Keys : placements[k] = u
      BY <1>2, <3>2, DecideEffect
    <3>4. rows'[r] = placements
      BY <1>0, <3>3
    <3> QED
      BY <3>3, <3>4 DEF Source, Published
  <2> QED
    BY <1>2, <2>1, <2>2, Changes DEF snapshot
<1> QED
  BY <1>1, <1>2

LEMMA CreditsKept == TypeOK /\ CreditsAreSourced /\ [Next]_vars => CreditsAreSourced'
  BY CreditKept DEF CreditsAreSourced, Source, Published

(* A RUC is credited from a snapshot that was published with it, also when    *)
(* that snapshot was superseded since.                                        *)
THEOREM CreditsHaveSources == Spec => []CreditsAreSourced
<1>1. Init => CreditsAreSourced
  BY DEF Init, CreditsAreSourced
<1>2. TypeOK /\ CreditsAreSourced /\ [Next]_vars => CreditsAreSourced'
  BY CreditsKept
<1> QED
  BY <1>1, <1>2, TypeCorrect, PTL DEF Spec

-----------------------------------------------------------------------------
(* Jobs.                                                                      *)

\* A snapshot that is not accepted has no job and no run, and a run that says
\* it is done has found or left the snapshot decided.
DoneInv ==
  /\ DoneIsSettled
  /\ \A r \in Reports : state[r] = "none" => job[r].state = "none"
  /\ \A w \in Workers : run[w] # Idle =>
        /\ state[run[w].report] # "none"
        /\ run[w].at = "settle" /\ run[w].done => ~Open(run[w].report)

\* Nothing is undone.
LEMMA ProgressKept ==
  ASSUME TypeOK, [Next]_vars, NEW s \in Reports, state[s] # "none"
  PROVE  state'[s] # "none" /\ (~Open(s) => ~Open(s)')
<1>0. state \in [Reports -> States]
  BY DEF TypeOK
<1>1. CASE UNCHANGED snapshot
  BY <1>1 DEF snapshot, Open
<1>2. CASE Adjusted
  BY <1>2 DEF Adjusted, AdjustCredit, Open
<1>3. ASSUME NEW r \in Reports, Change(r) PROVE state'[s] # "none" /\ (~Open(s) => ~Open(s)')
  <2>1. CASE Accepted(r) \/ Moved(r) \/ Staged(r) \/ Rejected(r)
    BY <1>0, <2>1 DEF Accepted, Moved, Staged, Rejected, Open
  <2>2. CASE Decided(r)
    <3>1. PICK placements \in Rows, known \in Known : Decide(r, placements, known)
      BY <2>2 DEF Decided
    <3>2. state'[r] \in {"needs_review", "rejected", "active"}
      BY <3>1, DecideEffect
    <3>3. \A x \in Reports \ {r} : state'[x] = state[x] \/ state'[x] = "superseded"
      BY <3>1, DecideEffect
    <3> QED
      BY <3>2, <3>3 DEF Open
  <2> QED
    BY <1>3, <2>1, <2>2 DEF Change
<1> QED
  BY <1>1, <1>2, <1>3, Changes

\* A step after which the jobs and the runs are as they were, or one of them
\* has moved in a way that DoneInv allows.
LEMMA DoneFrame ==
  ASSUME TypeOK, DoneInv, [Next]_vars,
         \A r \in Reports :
           \/ job'[r] = job[r]
           \/ state'[r] # "none" /\ (job'[r].state = "done" => ~Open(r)'),
         \A w \in Workers :
           \/ run'[w] = run[w]
           \/ run'[w] = Idle
           \/ /\ run'[w].report \in Reports /\ state'[run'[w].report] # "none"
              /\ run'[w].at = "settle" /\ run'[w].done => state'[run'[w].report] \notin {"queued", "processing"}
  PROVE  DoneInv'
<1>1. ASSUME NEW r \in Reports
      PROVE  /\ state'[r] = "none" => job'[r].state = "none"
             /\ job'[r].state = "done" => ~Open(r)'
  BY ProgressKept DEF DoneInv, DoneIsSettled
<1>2. ASSUME NEW w \in Workers, run'[w] # Idle
      PROVE  /\ state'[run'[w].report] # "none"
             /\ run'[w].at = "settle" /\ run'[w].done => state'[run'[w].report] \notin {"queued", "processing"}
  <2>1. CASE run'[w] = run[w]
    <3>1. run[w].report \in Reports
      BY <1>2, <2>1, RunType
    <3>2. /\ state[run[w].report] # "none"
          /\ run[w].at = "settle" /\ run[w].done => ~Open(run[w].report)
      BY <1>2, <2>1 DEF DoneInv
    <3> QED
      BY <2>1, <3>1, <3>2, ProgressKept DEF Open
  <2>2. CASE run'[w] # run[w]
    BY <1>2, <2>2
  <2> QED
    BY <2>1, <2>2
<1> QED
  BY <1>1, <1>2 DEF DoneInv, DoneIsSettled, Open

LEMMA DoneKept == TypeOK /\ DoneInv /\ [Next]_vars => DoneInv'
<1> SUFFICES ASSUME TypeOK, DoneInv, [Next]_vars PROVE DoneInv'
  OBVIOUS
<1>1. CASE UNCHANGED <<job, run>>
  BY <1>1, DoneFrame
<1>2. ASSUME NEW r \in Reports, NEW c \in CutsOf[r], Accept(r, c) PROVE DoneInv'
  <2>1. /\ job'[r].state = "pending" /\ \A s \in Reports \ {r} : job'[s] = job[s]
        /\ UNCHANGED run
    BY <1>2, AcceptJob DEF Accept
  <2>2. state'[r] = "queued"
    BY <1>2 DEF Accept, TypeOK
  <2> QED
    BY <2>1, <2>2, DoneFrame
<1>3. ASSUME NEW w \in Workers, NEW r \in Reports, Claim(w, r) \/ Steal(w, r) PROVE DoneInv'
  <2>1. Take(w, r) /\ UNCHANGED snapshot
    BY <1>3 DEF Claim, Steal
  <2>2. state[r] # "none"
    BY <1>3 DEF Claim, Steal, DoneInv
  <2>3. /\ run'[w] = [at |-> "load", report |-> r, done |-> FALSE]
        /\ \A v \in Workers \ {w} : run'[v] = run[v]
        /\ job'[r].state = "processing" /\ \A s \in Reports \ {r} : job'[s] = job[s]
    BY <2>1, TakeEffect
  <2>4. state' = state
    BY <2>1 DEF snapshot
  <2> QED
    BY <2>2, <2>3, <2>4, DoneFrame
<1>4. ASSUME NEW w \in Workers, Crash(w) PROVE DoneInv'
  <2>1. UNCHANGED job /\ run'[w] = Idle /\ \A v \in Workers \ {w} : run'[v] = run[v]
    BY <1>4, IdleEffect DEF Crash
  <2> QED
    BY <2>1, DoneFrame
<1>5. ASSUME NEW w \in Workers, Load(w) \/ Mark(w) \/ Stage(w) \/ Finalize(w) \/ Throw(w)
      PROVE  DoneInv'
  <2> DEFINE r == run[w].report
  <2>1. run[w] # Idle
    BY <1>5 DEF Load, Mark, Stage, Finalize, Throw, At
  <2>2. r \in Reports /\ state[r] # "none"
    BY <2>1, RunType DEF DoneInv
  <2>3. /\ run'[w].report = r
        /\ \A v \in Workers \ {w} : run'[v] = run[v]
        /\ run'[w].at = "settle" /\ run'[w].done
             => \/ Load(w) /\ Completed(r)
                \/ Finalize(w) /\ state[r] \in {"processing", "needs_review"}
                              /\ state'[r] # "rejected"
        /\ UNCHANGED job
    BY <1>5, RunnerEffect
  <2>4. state'[r] # "none"
    BY <2>2, ProgressKept
  <2>5. ASSUME Load(w), Completed(r) PROVE state'[r] \notin {"queued", "processing"}
    BY <2>5 DEF Load, Completed, snapshot
  <2>6. ASSUME Finalize(w), state[r] \in {"processing", "needs_review"}
        PROVE  state'[r] \notin {"queued", "processing"}
    <3>1. Decide(r, rows[r], issues[r])
      BY <2>6 DEF Finalize
    <3> QED
      BY <2>2, <3>1, RowTypes, DecideEffect
  <2> QED
    BY <2>2, <2>3, <2>4, <2>5, <2>6, DoneFrame
<1>6. ASSUME NEW w \in Workers, Settle(w) PROVE DoneInv'
  <2> DEFINE r == run[w].report
  <2>1. run[w] # Idle /\ run[w].at = "settle" /\ r \in Reports
    BY <1>6, RunType DEF Settle, At
  <2>2. state[r] # "none" /\ (run[w].done => ~Open(r)) /\ UNCHANGED state
    BY <1>6, <2>1 DEF DoneInv, Settle, snapshot
  <2>3. /\ \A v \in Workers \ {w} : run'[v] = run[v]
        /\ \/ run'[w] = Idle
           \/ run'[w].at = "settled" /\ run'[w].report = r
        /\ \A s \in Reports :
             \/ job'[s] = job[s]
             \/ s = r /\ job'[s].state \in {"pending", "failed"}
             \/ s = r /\ job'[s].state = "done" /\ run[w].done
    BY <1>6, SettleEffect
  <2>4. \A s \in Reports :
          \/ job'[s] = job[s]
          \/ state'[s] # "none" /\ (job'[s].state = "done" => ~Open(s)')
    BY <2>1, <2>2, <2>3 DEF Open
  <2> QED
    BY <2>1, <2>2, <2>3, <2>4, DoneFrame
<1>7. ASSUME NEW w \in Workers, OnSettled(w) PROVE DoneInv'
  <2>1. UNCHANGED job /\ run'[w] = Idle /\ \A v \in Workers \ {w} : run'[v] = run[v]
    BY <1>7, IdleEffect DEF OnSettled
  <2> QED
    BY <2>1, DoneFrame
<1>8. ASSUME NEW r \in Reports, NEW i \in Issues, Review(r, i) PROVE DoneInv'
  BY <1>1, <1>8 DEF Review, Reject, KeepPrevious, AcceptCandidate, ExcludeCandidate
<1>9. ASSUME NEW u \in Rucs, AdjustCredit(u) PROVE DoneInv'
  BY <1>1, <1>9 DEF AdjustCredit
<1> QED
  BY <1>1, <1>2, <1>3, <1>4, <1>5, <1>6, <1>7, <1>8, <1>9 DEF Next, Step, vars

(* A job is done only when its snapshot is decided, although the transaction  *)
(* that decides it and the settlement of the job are two, and two runs may    *)
(* do either.                                                                 *)
THEOREM DoneJobsAreSettled == Spec => []DoneIsSettled
<1>1. Init => DoneInv
  BY DEF Init, DoneInv, DoneIsSettled, Open, Idle
<1>2. TypeOK /\ DoneInv /\ [Next]_vars => DoneInv'
  BY DoneKept
<1>3. DoneInv => DoneIsSettled
  BY DEF DoneInv
<1> QED
  BY <1>1, <1>2, <1>3, TypeCorrect, PTL DEF Spec

\* What is published is in order, and what is credited was published.
THEOREM PublishedStaysConsistent == Spec => []PublishedIsConsistent
<1>1. PublishedInOrder /\ CreditsAreSourced => PublishedIsConsistent
  BY DEF PublishedIsConsistent
<1> QED
  BY <1>1, OnlyLaterReplaces, CreditsHaveSources, PTL

\* Neither an outcome nor a review is undone.
THEOREM DecisionsStay == Spec => DecidedStays
  BY OutcomesStay, ReviewsStay, PTL DEF DecidedStays

=============================================================================
