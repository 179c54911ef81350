----------------------------- MODULE UsageLedger -----------------------------
(* The usage ledger of one executive and the contacts handed out under it      *)
(* (apps/web/src/server/capacity, contact-assignments).                        *)
(*                                                                             *)
(* A call asks for the contacts its buffer lacks, reserves that many, lets the *)
(* engine propose candidates, writes the assignments and settles the           *)
(* reservation with what was really handed out. Nothing spans these steps: the *)
(* reservation is taken in a transaction that holds the executive's advisory   *)
(* lock and reads grants, reservations and commits one after the other; all    *)
(* that follows runs without a lock, in statements of their own, and may stop  *)
(* anywhere. Supervisors decide the requests for more capacity meanwhile.      *)
EXTENDS Integers, FiniteSets

CONSTANTS
    Calls,          \* assignContacts requests of the executive
    Reviewers,      \* decisions that can be in flight at once
    Requests,       \* capacity requests that may be made
    DailyLimit,     \* the policy in force
    BufferTarget,
    LastDay,        \* bound: days
    MaxDirect       \* bound: direct grants

\* The lock nobody holds.
Free == "free"

ASSUME LedgerAssumption ==
    /\ {DailyLimit, BufferTarget, MaxDirect} \subseteq Nat
    /\ LastDay \in Nat \ {0}
    /\ IsFiniteSet(Calls) /\ IsFiniteSet(Requests)
    /\ Free \notin Calls

VARIABLES
    today,          \* the calendar day of a request that starts now
    call,           \* where each call is, and what it has read
    lock,           \* who holds the advisory lock of the executive
    reservation,    \* lead_usage_reservations: the row each call inserted
    commits,        \* lead_usage_commits: the amount of the row for it, or 0
    assigned,       \* contacts each call has written to contact_assignments
    active,         \* of those, how many are active
    grants,         \* total of lead_capacity_grants for each day
    direct,         \* direct grants so far
    request,        \* capacity_requests.status
    review          \* decisions in flight: the request, the day

ledger == <<lock, reservation, commits>>
capacity == <<grants, direct, request, review>>
vars == <<today, call, assigned, active, ledger, capacity>>

Days == 1 .. LastDay

NoReservation == [status |-> "none", amount |-> 0]

Reservation == [status: {"none", "pending", "committed", "cancelled"}, amount: Nat]

NoReview == [of |-> "none"]

Review == [of: Requests, day: Days]

(* at: the next step of the call; day: that of its operationAt, in every row   *)
(* and range; requested, consumed: the two amounts; lost: its contacts were    *)
(* written but it was told otherwise; granted, rows: what it has read under    *)
(* the lock, the amounts it found for each call.                               *)
Steps == {"start", "lock", "reservations", "commits", "run", "settle", "update",
          "cancel", "done", "dead"}

Call == [at: Steps, day: Days, requested: Nat, consumed: Nat, lost: BOOLEAN,
         granted: Nat, rows: [Calls -> Nat]]

Nothing == [c \in Calls |-> 0]

\* sumAmount: the rows of S laid end to end, one element for each unit.
Units(rows, S) == UNION {{x} \X (1 .. rows[x]) : x \in S}

Total(rows, S) == Cardinality(Units(rows, S))

TypeOK ==
    /\ today \in Days
    /\ call \in [Calls -> Call]
    /\ lock \in Calls \cup {Free}
    /\ reservation \in [Calls -> Reservation]
    /\ commits \in [Calls -> Nat]
    /\ assigned \in [Calls -> Nat]
    /\ active \in Nat
    /\ grants \in [Days -> Nat]
    /\ direct \in Nat
    /\ request \in [Requests -> {"none", "pending", "approved", "rejected"}]
    /\ review \in [Reviewers -> {NoReview} \cup Review]

Init ==
    /\ today = 1
    /\ call = [c \in Calls |-> [at |-> "start", day |-> 1, requested |-> 0,
                                consumed |-> 0, lost |-> FALSE, granted |-> 0,
                                rows |-> Nothing]]
    /\ lock = Free
    /\ reservation = [c \in Calls |-> NoReservation]
    /\ commits = Nothing
    /\ assigned = Nothing
    /\ active = 0
    /\ grants = [d \in Days |-> 0]
    /\ direct = 0
    /\ request = [r \in Requests |-> "none"]
    /\ review = [v \in Reviewers |-> NoReview]

-----------------------------------------------------------------------------
(* assignContacts and executeWithUsageReservation.                             *)

At(c, step) == call[c].at = step

Goto(c, step) == call' = [call EXCEPT ![c].at = step]

\* A call that has ended keeps nothing of its own.
End(c, step) ==
    call' = [call EXCEPT ![c].at = step, ![c].requested = 0, ![c].consumed = 0,
                         ![c].granted = 0, ![c].rows = Nothing]

\* planContactAssignments: outside the transaction that reserves.
Plan(c) ==
    /\ At(c, "start")
    /\ LET needed == BufferTarget - active
       IN  call' = [call EXCEPT ![c].at = IF needed > 0 THEN "lock" ELSE "done",
                                ![c].day = today,
                                ![c].requested = IF needed > 0 THEN needed ELSE 0]
    /\ UNCHANGED <<today, assigned, active, ledger, capacity>>

\* withAdvisoryLock, and the grants, the first rows read under it: what happens
\* between the two could as well happen before.
Lock(c) ==
    /\ At(c, "lock")
    /\ lock = Free
    /\ lock' = c
    /\ call' = [call EXCEPT ![c].at = "reservations", ![c].granted = grants[call[c].day]]
    /\ UNCHANGED <<today, assigned, active, reservation, commits, capacity>>

\* Both ranges are those of the day of the call that reads.
SameDay(c) == {x \in Calls : call[x].day = call[c].day}

PendingRows(c) ==
    [x \in Calls |-> IF x \in SameDay(c) /\ reservation[x].status = "pending"
                     THEN reservation[x].amount ELSE 0]

CommitRows(c) == [x \in Calls |-> IF x \in SameDay(c) THEN commits[x] ELSE 0]

\* Mutant: the commits are read before the reservations.
RowsRead_Swapped(c, nth) == IF nth = 1 THEN CommitRows(c) ELSE PendingRows(c)

\* The statements of one transaction reach the database in the order of the array.
RowsRead(c, nth) == IF nth = 1 THEN PendingRows(c) ELSE CommitRows(c)

ReadReservations(c) ==
    /\ At(c, "reservations")
    /\ call' = [call EXCEPT ![c].at = "commits", ![c].rows = RowsRead(c, 1)]
    /\ UNCHANGED <<today, assigned, active, ledger, capacity>>

\* remainingCapacity, with the commits this step reads.
Remaining(c) ==
    DailyLimit + call[c].granted - Total(call[c].rows, Calls) - Total(RowsRead(c, 2), Calls)

\* The last read, the insert and the commit that releases the lock: whatever
\* happens in between does not touch what has been read.
Reserve(c) ==
    /\ At(c, "commits")
    /\ lock' = Free
    /\ LET ok == Remaining(c) >= call[c].requested
       IN  /\ IF ok THEN call' = [call EXCEPT ![c].at = "run", ![c].granted = 0,
                                              ![c].rows = Nothing]
                    ELSE End(c, "done")
           /\ reservation' =
                IF ok THEN [reservation EXCEPT ![c] =
                              [status |-> "pending", amount |-> call[c].requested]]
                      ELSE reservation
    /\ UNCHANGED <<today, assigned, active, commits, capacity>>

(* createContactAssignmentsFromCandidates commits some of the candidates; or it *)
(* does, and its answer never arrives. The engine's query is limited to the    *)
(* amount it was asked for, so that there are no more, and the branch of       *)
(* executeWithUsageReservation for a call that consumed more is left out.      *)
Assign(c) ==
    /\ At(c, "run")
    /\ \E n \in 0 .. call[c].requested, lost \in BOOLEAN :
          /\ lost => n > 0
          /\ assigned' = [assigned EXCEPT ![c] = n]
          /\ active' = active + n
          /\ call' = [call EXCEPT ![c].at = IF lost THEN "cancel" ELSE "settle",
                                  ![c].consumed = IF lost THEN 0 ELSE n,
                                  ![c].lost = lost]
    /\ UNCHANGED <<today, ledger, capacity>>

\* The engine refuses or fails, or the transaction of the contacts is undone.
RunFails(c) ==
    /\ At(c, "run")
    /\ Goto(c, "cancel")
    /\ UNCHANGED <<today, assigned, active, ledger, capacity>>

\* Mutant: the status is written before the commit row.
Settle_Swapped(c) ==
    /\ At(c, "settle")
    /\ reservation' = [reservation EXCEPT
                         ![c] = [status |-> "committed", amount |-> call[c].consumed]]
    /\ Goto(c, IF call[c].consumed = 0 THEN "cancel" ELSE "update")
    /\ UNCHANGED <<today, assigned, active, lock, commits, capacity>>

\* commitUsage inserts its row; nothing handed out is a cancellation.
Settle(c) ==
    /\ At(c, "settle")
    /\ commits' = [commits EXCEPT ![c] = call[c].consumed]
    /\ Goto(c, IF call[c].consumed = 0 THEN "cancel" ELSE "update")
    /\ UNCHANGED <<today, assigned, active, lock, reservation, capacity>>

\* updateAmountAndStatus
UpdateReservation(c) ==
    /\ At(c, "update")
    /\ reservation' = [reservation EXCEPT
                         ![c] = [status |-> "committed", amount |-> call[c].consumed]]
    /\ End(c, "done")
    /\ UNCHANGED <<today, assigned, active, lock, commits, capacity>>

\* cancelUsage
Cancel(c) ==
    /\ At(c, "cancel")
    /\ reservation' = [reservation EXCEPT ![c].status = "cancelled"]
    /\ End(c, "done")
    /\ UNCHANGED <<today, assigned, active, lock, commits, capacity>>

\* Mutant: a session lock, which outlives its transaction.
Die_Locked(c) ==
    /\ call[c].at \notin {"start", "done", "dead"}
    /\ End(c, "dead")
    /\ UNCHANGED <<today, assigned, active, ledger, capacity>>

\* The process stops, or the next statement fails: an open transaction is
\* rolled back and its lock with it; nobody takes the rest up.
Die(c) ==
    /\ call[c].at \notin {"start", "done", "dead"}
    /\ End(c, "dead")
    /\ lock' = IF lock = c THEN Free ELSE lock
    /\ UNCHANGED <<today, assigned, active, reservation, commits, capacity>>

-----------------------------------------------------------------------------
(* The rest of the day.                                                        *)

\* completeContactAssignmentCall, or the expiry of an assignment.
Complete ==
    /\ active > 0
    /\ active' = active - 1
    /\ UNCHANGED <<today, call, assigned, ledger, capacity>>

NewDay ==
    /\ today < LastDay
    /\ today' = today + 1
    /\ UNCHANGED <<call, assigned, active, ledger, capacity>>

Grant(d) == grants' = [grants EXCEPT ![d] = @ + 1]

GrantDirect ==
    /\ direct < MaxDirect
    /\ direct' = direct + 1
    /\ Grant(today)
    /\ UNCHANGED <<today, call, assigned, active, ledger, request, review>>

RequestCapacity(r) ==
    /\ request[r] = "none"
    /\ request' = [request EXCEPT ![r] = "pending"]
    /\ UNCHANGED <<today, call, assigned, active, ledger, grants, direct, review>>

\* findById, and its status; whether to approve or to reject it is known by now,
\* and tells nothing apart before the next step.
ReadRequest(v, r) ==
    /\ review[v] = NoReview
    /\ request[r] = "pending"
    /\ review' = [review EXCEPT ![v] = [of |-> r, day |-> today]]
    /\ UNCHANGED <<today, call, assigned, active, ledger, grants, direct, request>>

\* Mutant: the decision is written by id alone.
Approve_Any(v) ==
    /\ review[v] # NoReview
    /\ request' = [request EXCEPT ![review[v].of] = "approved"]
    /\ Grant(review[v].day)
    /\ review' = [review EXCEPT ![v] = NoReview]
    /\ UNCHANGED <<today, call, assigned, active, ledger, direct>>

\* markApproved asks for a pending request, and the grant follows it in the
\* same transaction.
Approve(v) ==
    /\ review[v] # NoReview
    /\ IF request[review[v].of] = "pending"
       THEN /\ request' = [request EXCEPT ![review[v].of] = "approved"]
            /\ Grant(review[v].day)
       ELSE UNCHANGED <<request, grants>>
    /\ review' = [review EXCEPT ![v] = NoReview]
    /\ UNCHANGED <<today, call, assigned, active, ledger, direct>>

\* markRejected asks the same.
Reject(v) ==
    /\ review[v] # NoReview
    /\ request' = [request EXCEPT ![review[v].of] = IF @ = "pending" THEN "rejected" ELSE @]
    /\ review' = [review EXCEPT ![v] = NoReview]
    /\ UNCHANGED <<today, call, assigned, active, ledger, grants, direct>>

-----------------------------------------------------------------------------
\* What a live call does next.
Advance(c) ==
    \/ Plan(c) \/ Lock(c) \/ ReadReservations(c) \/ Reserve(c)
    \/ Assign(c) \/ RunFails(c) \/ Settle(c) \/ UpdateReservation(c) \/ Cancel(c)

Next ==
    \/ \E c \in Calls : Advance(c) \/ Die(c)
    \/ Complete \/ NewDay \/ GrantDirect
    \/ \E r \in Requests : RequestCapacity(r) \/ \E v \in Reviewers : ReadRequest(v, r)
    \/ \E v \in Reviewers : Approve(v) \/ Reject(v)

Spec == Init /\ [][Next]_vars

\* A request that has reached the server is carried on.
FairSpec == Spec /\ \A c \in Calls : WF_vars(Advance(c) /\ ~At(c, "start"))

-----------------------------------------------------------------------------
(* Properties.                                                                 *)

\* What the ledger makes the executive pay for a call.
Charged(c) ==
    commits[c] + (IF reservation[c].status = "pending" THEN reservation[c].amount ELSE 0)

(* The contacts handed out by the calls of a day, those of calls that were     *)
(* wrongly told that nothing was handed out left aside, are within the policy  *)
(* and the grants of that day, whatever raced with whatever.                   *)
WithinLimit ==
    \A d \in Days :
        LET counted == {c \in Calls : call[c].day = d /\ ~call[c].lost}
        IN  Total(assigned, counted) <= DailyLimit + grants[d]

(* No contact is free while its call runs, dies or ends: the ledger holds at   *)
(* least what the call has handed out, unless its answer was lost.             *)
NothingIsFree == \A c \in Calls : call[c].lost \/ Charged(c) >= assigned[c]

(* A call that ends has settled: it is charged what it handed out, or nothing  *)
(* if it was told that it failed, and no reservation of it is left pending.    *)
EndsSettled ==
    \A c \in Calls : At(c, "done") =>
        /\ reservation[c].status # "pending"
        /\ Charged(c) = IF call[c].lost THEN 0 ELSE assigned[c]

(* The ledger charges a call for its contacts: at least while it runs or after *)
(* it has died anywhere, and exactly once it has ended.                        *)
ChargesMatch == NothingIsFree /\ EndsSettled

(* Two supervisors decide a request at once: it is decided once, and the       *)
(* capacity granted is that of the approved requests and the direct grants.    *)
GrantsFollowApprovals ==
    Total(grants, Days) = direct + Cardinality({r \in Requests : request[r] = "approved"})

DecisionsAreFinal ==
    [][\A r \in Requests : request[r] \in {"approved", "rejected"}
                             => request'[r] = request[r]]_vars

(* Whoever waits for the lock gets it, also from a call that died with it, and *)
(* lets go of it: again and again no call waits for the lock or holds it.      *)
CallsEnd == []<>(\A c \in Calls : call[c].at \notin {"lock", "reservations", "commits"})
=============================================================================
