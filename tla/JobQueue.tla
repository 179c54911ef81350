------------------------------ MODULE JobQueue ------------------------------
(***************************************************************************)
(* The PostgreSQL job queue that the maintenance worker drains             *)
(* (server/platform/jobs, server/entrypoints/worker).                      *)
(*                                                                         *)
(* A row carries the queue columns; a worker process keeps, for each job   *)
(* of its current batch, the attempt it claimed and how far it got.  Each  *)
(* store call is one SQL statement and so one step; everything a process   *)
(* does between two of them may be interleaved with other processes.  The  *)
(* clock is abstracted to `due`: whether claimable_at has passed.          *)
(***************************************************************************)
EXTENDS Naturals, FiniteSets

CONSTANTS
  Jobs,            \* job rows that may be enqueued
  Procs,           \* worker processes
  WorkerId,        \* [Procs -> identities], `bg-${process.pid}`
  Unowned,         \* a NULL lease_owner
  MaxAttempts,     \* max_attempts of every row
  MaxConcurrency,  \* maxConcurrency of the queue
  MaxFaults,       \* bound: crashes, stops and failed statements per run
  Polling          \* BOOLEAN: the one-second poll runs

ASSUME MaxAttemptsAssumption == MaxAttempts \in Nat \ {0}
ASSUME MaxConcurrencyAssumption == MaxConcurrency \in Nat \ {0}
ASSUME MaxFaultsAssumption == MaxFaults \in Nat
ASSUME SwitchAssumption == Polling \in BOOLEAN
\* A lease is fenced by the identity alone, so identities must differ.
ASSUME WorkerIdAssumption ==
  /\ \A p, q \in Procs : WorkerId[p] = WorkerId[q] => p = q
  /\ \A p \in Procs : WorkerId[p] # Unowned

VARIABLES
  state,     \* [Jobs -> queue_state, "absent" before the row is inserted]
  owner,     \* [Jobs -> lease_owner]
  due,       \* [Jobs -> claimable_at has passed]
  attempt,   \* [Jobs -> attempt_count]
  phase,     \* [Procs -> [Jobs -> where processJob is, "none" if not running]]
  seen,      \* [Procs -> [Jobs -> attempt_count of the claimed snapshot]]
  aborted,   \* [Procs -> [Jobs -> the AbortController fired]]
  outcome,   \* [Procs -> [Jobs -> the resolved settlement]]
  mode,      \* [Procs -> "up", "stopping" or "down"]
  drain,     \* [Procs -> the waker's active run]
  full,      \* [Procs -> the last batch used every slot]
  followUp,  \* [Procs -> followUpRequested]
  listening, \* [Procs -> the process's connection has run its LISTEN]
  notified,  \* [Procs -> a NOTIFY is on its way to the process]
  succeeded, \* history: <<job, attempt>> whose handler returned done, unaborted
  faults     \* number of faults so far

row     == <<state, owner, due, attempt>>
runs    == <<phase, seen, aborted, outcome>>
waker   == <<mode, drain, full, followUp>>
channel == <<listening, notified>>
vars    == <<row, runs, waker, channel, succeeded, faults>>

States   == {"absent", "pending", "processing", "done", "failed"}
Phases   == {"none", "handling", "settling", "settled"}
Outcomes == {"done", "retry", "failed"}

TypeOK ==
  /\ state \in [Jobs -> States]
  /\ owner \in [Jobs -> {WorkerId[p] : p \in Procs} \cup {Unowned}]
  /\ due \in [Jobs -> BOOLEAN]
  /\ attempt \in [Jobs -> 0..MaxAttempts]
  /\ phase \in [Procs -> [Jobs -> Phases]]
  /\ seen \in [Procs -> [Jobs -> 0..MaxAttempts]]
  /\ aborted \in [Procs -> [Jobs -> BOOLEAN]]
  /\ outcome \in [Procs -> [Jobs -> Outcomes]]
  /\ mode \in [Procs -> {"up", "stopping", "down"}]
  /\ drain \in [Procs -> {"idle", "claiming", "running"}]
  /\ full \in [Procs -> BOOLEAN]
  /\ followUp \in [Procs -> BOOLEAN]
  /\ listening \in [Procs -> BOOLEAN]
  /\ notified \in [Procs -> BOOLEAN]
  /\ succeeded \subseteq Jobs \X (0..MaxAttempts)
  /\ faults \in 0..MaxFaults

Init ==
  /\ state = [j \in Jobs |-> "absent"]
  /\ owner = [j \in Jobs |-> Unowned]
  /\ due = [j \in Jobs |-> FALSE]
  /\ attempt = [j \in Jobs |-> 0]
  /\ phase = [p \in Procs |-> [j \in Jobs |-> "none"]]
  /\ seen = [p \in Procs |-> [j \in Jobs |-> 0]]
  /\ aborted = [p \in Procs |-> [j \in Jobs |-> FALSE]]
  /\ outcome = [p \in Procs |-> [j \in Jobs |-> "retry"]]
  /\ mode = [p \in Procs |-> "down"]
  /\ drain = [p \in Procs |-> "idle"]
  /\ full = [p \in Procs |-> FALSE]
  /\ followUp = [p \in Procs |-> FALSE]
  /\ listening = [p \in Procs |-> FALSE]
  /\ notified = [p \in Procs |-> FALSE]
  /\ succeeded = {}
  /\ faults = 0

Fault == faults < MaxFaults /\ faults' = faults + 1

-----------------------------------------------------------------------------
(* The rows, their trigger and the clock.                                  *)

\* The trigger runs when a row becomes pending.  Only a process whose LISTEN is
\* in force hears it; for one that connects later it is gone.
NotifyPending == notified' = [p \in Procs |-> notified[p] \/ listening[p]]

Enqueue(j) ==
  /\ state[j] = "absent"
  /\ state' = [state EXCEPT ![j] = "pending"]
  /\ due' = [due EXCEPT ![j] = TRUE]
  /\ NotifyPending
  /\ UNCHANGED <<owner, attempt, runs, waker, listening, succeeded, faults>>

\* A retry delay elapses, or a lease runs out while its owner still works.
BecomesDue(j) ==
  /\ state[j] \in {"pending", "processing"} /\ ~due[j]
  /\ due' = [due EXCEPT ![j] = TRUE]
  /\ UNCHANGED <<state, owner, attempt, runs, waker, channel, succeeded, faults>>

-----------------------------------------------------------------------------
(* makeWaker: one active run per queue, and at most one follow-up.         *)

\* Mutant: a wake during a drain is dropped.
Wake_NoFollowUp(p) ==
  /\ drain' = [drain EXCEPT ![p] = IF @ = "idle" THEN "claiming" ELSE @]
  /\ UNCHANGED followUp

Wake(p) ==
  IF drain[p] = "idle"
    THEN drain' = [drain EXCEPT ![p] = "claiming"] /\ UNCHANGED followUp
    ELSE followUp' = [followUp EXCEPT ![p] = TRUE] /\ UNCHANGED drain

Deliver(p) ==
  /\ notified[p] /\ mode[p] = "up"
  /\ Wake(p)
  /\ notified' = [notified EXCEPT ![p] = FALSE]
  /\ UNCHANGED <<row, runs, mode, full, listening, succeeded, faults>>

Poll(p) ==
  /\ Polling /\ mode[p] = "up"
  /\ Wake(p)
  /\ UNCHANGED <<row, runs, mode, full, channel, succeeded, faults>>

\* drainUntilIdle returned: the waker goes idle, or schedules its follow-up.
DrainReturns(p) ==
  /\ IF followUp[p] /\ mode[p] = "up"
       THEN drain' = [drain EXCEPT ![p] = "claiming"]
       ELSE drain' = [drain EXCEPT ![p] = "idle"]
  /\ followUp' = [followUp EXCEPT ![p] = FALSE]

-----------------------------------------------------------------------------
(* drainUntilIdle: claim a batch, run it, and repeat while it was full.    *)

Claimable(j) ==
  /\ state[j] \in {"pending", "processing"}
  /\ due[j]
  /\ attempt[j] < MaxAttempts

\* The rows one claim may take: every claimable one, up to the free slots.
Batches ==
  LET free == {j \in Jobs : Claimable(j)}
  IN  {B \in SUBSET free : \/ B = free /\ Cardinality(free) <= MaxConcurrency
                           \/ Cardinality(B) = MaxConcurrency}

\* Mutant: a reclaim is not counted as an attempt.
ClaimRows_Uncounted(p, B) ==
  /\ state' = [j \in Jobs |-> IF j \in B THEN "processing" ELSE state[j]]
  /\ owner' = [j \in Jobs |-> IF j \in B THEN WorkerId[p] ELSE owner[j]]
  /\ due' = [j \in Jobs |-> IF j \in B THEN FALSE ELSE due[j]]
  /\ attempt' = [j \in Jobs |->
                   IF j \in B /\ state[j] = "pending" THEN attempt[j] + 1 ELSE attempt[j]]

ClaimRows(p, B) ==
  /\ state' = [j \in Jobs |-> IF j \in B THEN "processing" ELSE state[j]]
  /\ owner' = [j \in Jobs |-> IF j \in B THEN WorkerId[p] ELSE owner[j]]
  /\ due' = [j \in Jobs |-> IF j \in B THEN FALSE ELSE due[j]]
  /\ attempt' = [j \in Jobs |-> IF j \in B THEN attempt[j] + 1 ELSE attempt[j]]

\* The statement commits; its rows, perhaps none, are handed to processJob.
ClaimBatch(p, B) ==
  /\ drain[p] = "claiming" /\ mode[p] = "up"
  /\ B \in Batches
  /\ ClaimRows(p, B)
  /\ phase' = [phase EXCEPT ![p] = [j \in Jobs |-> IF j \in B THEN "handling" ELSE @[j]]]
  /\ seen' = [seen EXCEPT ![p] = [j \in Jobs |-> IF j \in B THEN attempt'[j] ELSE @[j]]]
  /\ drain' = [drain EXCEPT ![p] = "running"]
  /\ full' = [full EXCEPT ![p] = Cardinality(B) = MaxConcurrency]
  /\ UNCHANGED <<aborted, outcome, mode, followUp, channel, succeeded, faults>>

\* The claim throws and drainUntilIdle returns.  If the statement had committed,
\* its rows are leased to a process that runs none of them.
ClaimFails(p) ==
  /\ drain[p] = "claiming" /\ mode[p] = "up"
  /\ Fault
  /\ (\E B \in Batches : ClaimRows(p, B)) \/ UNCHANGED row
  /\ DrainReturns(p)
  /\ UNCHANGED <<runs, mode, full, channel, succeeded>>

\* stop() came before the claim.
DrainStops(p) ==
  /\ drain[p] = "claiming" /\ mode[p] = "stopping"
  /\ DrainReturns(p)
  /\ UNCHANGED <<row, runs, mode, full, channel, succeeded, faults>>

\* Promise.all over the batch resolves.
BatchEnds(p) ==
  /\ drain[p] = "running"
  /\ \A j \in Jobs : phase[p][j] = "none"
  /\ IF full[p] /\ mode[p] = "up"
       THEN drain' = [drain EXCEPT ![p] = "claiming"] /\ UNCHANGED followUp
       ELSE DrainReturns(p)
  /\ full' = [full EXCEPT ![p] = FALSE]
  /\ UNCHANGED <<row, runs, mode, channel, succeeded, faults>>

-----------------------------------------------------------------------------
(* processJob                                                              *)

\* Mutant: the update does not compare lease_owner.
Owns_AnyOwner(p, j) == state[j] = "processing"

Owns(p, j) == state[j] = "processing" /\ owner[j] = WorkerId[p]

\* The heartbeat runs until processJob returns, after an abort too.
RenewLease(p, j) ==
  /\ phase[p][j] # "none"
  /\ IF Owns(p, j)
       THEN due' = [due EXCEPT ![j] = FALSE] /\ UNCHANGED aborted
       ELSE aborted' = [aborted EXCEPT ![p][j] = TRUE] /\ UNCHANGED due
  /\ UNCHANGED <<state, owner, attempt, phase, seen, outcome, waker, channel,
                 succeeded, faults>>

\* The timeout fires, or a heartbeat statement fails.
Abort(p, j) ==
  /\ phase[p][j] # "none" /\ ~aborted[p][j]
  /\ aborted' = [aborted EXCEPT ![p][j] = TRUE]
  /\ UNCHANGED <<row, phase, seen, outcome, waker, channel, succeeded, faults>>

\* Mutant: one retry too many.
Resolve_OneMore(p, j, settlement) ==
  IF settlement = "retry" /\ seen[p][j] > MaxAttempts THEN "failed" ELSE settlement

\* The attempt of the claimed snapshot decides whether a retry is left.
Resolve(p, j, settlement) ==
  IF settlement = "retry" /\ seen[p][j] >= MaxAttempts THEN "failed" ELSE settlement

\* Mutant: what an aborted run returned is kept.
Kept_Always(p, j, settlement) == settlement

\* A run that was aborted meanwhile retries, whatever its handler returned.
Kept(p, j, settlement) == IF aborted[p][j] THEN "retry" ELSE settlement

\* The handler returns a settlement or throws (a retry).
HandlerReturns(p, j, settlement) ==
  /\ phase[p][j] = "handling"
  /\ outcome' = [outcome EXCEPT ![p][j] = Resolve(p, j, Kept(p, j, settlement))]
  /\ succeeded' = IF settlement = "done" /\ ~aborted[p][j]
                    THEN succeeded \cup {<<j, seen[p][j]>>} ELSE succeeded
  /\ phase' = [phase EXCEPT ![p][j] = "settling"]
  /\ UNCHANGED <<row, seen, aborted, waker, channel, faults>>

\* markDone, scheduleRetry and markFailed: one update guarded by the lease.
WriteOutcome(p, j) ==
  /\ Owns(p, j)
  /\ state' = [state EXCEPT ![j] = IF outcome[p][j] = "retry" THEN "pending" ELSE outcome[p][j]]
  /\ owner' = [owner EXCEPT ![j] = Unowned]
  /\ due' = [due EXCEPT ![j] = FALSE]
  /\ IF outcome[p][j] = "retry" THEN NotifyPending ELSE UNCHANGED notified
  /\ UNCHANGED attempt

\* processJob's finally block.
Forget(p, j) ==
  /\ phase' = [phase EXCEPT ![p][j] = "none"]
  /\ seen' = [seen EXCEPT ![p][j] = 0]
  /\ aborted' = [aborted EXCEPT ![p][j] = FALSE]
  /\ outcome' = [outcome EXCEPT ![p][j] = "retry"]

Settle(p, j) ==
  /\ phase[p][j] = "settling"
  /\ WriteOutcome(p, j)
  /\ phase' = [phase EXCEPT ![p][j] = "settled"]
  /\ UNCHANGED <<seen, aborted, outcome, waker, listening, succeeded, faults>>

SettleRejected(p, j) ==
  /\ phase[p][j] = "settling" /\ ~Owns(p, j)
  /\ Forget(p, j)
  /\ UNCHANGED <<row, waker, channel, succeeded, faults>>

\* The statement throws, before or after the server committed it.
SettleThrows(p, j) ==
  /\ phase[p][j] = "settling"
  /\ Fault
  /\ WriteOutcome(p, j) \/ UNCHANGED <<row, notified>>
  /\ Forget(p, j)
  /\ UNCHANGED <<waker, listening, succeeded>>

\* onSettled runs, its own failure ignored.
OnSettled(p, j) ==
  /\ phase[p][j] = "settled"
  /\ Forget(p, j)
  /\ UNCHANGED <<row, waker, channel, succeeded, faults>>

-----------------------------------------------------------------------------
(* The process: start, graceful stop, crash.                               *)

\* listener.start() only begins to connect: the first wake does not wait for it.
Start(p) ==
  /\ mode[p] = "down"
  /\ mode' = [mode EXCEPT ![p] = "up"]
  /\ drain' = [drain EXCEPT ![p] = "claiming"]
  /\ UNCHANGED <<row, runs, full, followUp, channel, succeeded, faults>>

\* connect: the LISTEN is in force.  No queue is woken for what came before it.
Listen(p) ==
  /\ mode[p] = "up" /\ ~listening[p]
  /\ listening' = [listening EXCEPT ![p] = TRUE]
  /\ UNCHANGED <<row, runs, waker, notified, succeeded, faults>>

\* The connection is gone, with what was on its way.
Unlisten(p) ==
  /\ listening' = [listening EXCEPT ![p] = FALSE]
  /\ notified' = [notified EXCEPT ![p] = FALSE]

\* It breaks at any time; connect is retried.
Disconnect(p) ==
  /\ listening[p]
  /\ Unlisten(p)
  /\ UNCHANGED <<row, runs, waker, succeeded, faults>>

Stop(p) ==
  /\ mode[p] = "up"
  /\ Fault
  /\ mode' = [mode EXCEPT ![p] = "stopping"]
  /\ followUp' = [followUp EXCEPT ![p] = FALSE]
  /\ Unlisten(p)
  /\ UNCHANGED <<row, runs, drain, full, succeeded>>

\* Every queue's activeDrains have settled.
Stopped(p) ==
  /\ mode[p] = "stopping" /\ drain[p] = "idle"
  /\ mode' = [mode EXCEPT ![p] = "down"]
  /\ UNCHANGED <<row, runs, drain, full, followUp, channel, succeeded, faults>>

Crash(p) ==
  /\ mode[p] # "down"
  /\ Fault
  /\ mode' = [mode EXCEPT ![p] = "down"]
  /\ drain' = [drain EXCEPT ![p] = "idle"]
  /\ full' = [full EXCEPT ![p] = FALSE]
  /\ followUp' = [followUp EXCEPT ![p] = FALSE]
  /\ Unlisten(p)
  /\ phase' = [phase EXCEPT ![p] = [j \in Jobs |-> "none"]]
  /\ seen' = [seen EXCEPT ![p] = [j \in Jobs |-> 0]]
  /\ aborted' = [aborted EXCEPT ![p] = [j \in Jobs |-> FALSE]]
  /\ outcome' = [outcome EXCEPT ![p] = [j \in Jobs |-> "retry"]]
  /\ UNCHANGED <<row, succeeded>>

-----------------------------------------------------------------------------
RunStep(p, j) ==
  \/ \E s \in Outcomes : HandlerReturns(p, j, s)
  \/ Settle(p, j)
  \/ SettleRejected(p, j)
  \/ OnSettled(p, j)

DrainStep(p) ==
  \/ \E B \in SUBSET Jobs : ClaimBatch(p, B)
  \/ DrainStops(p)
  \/ BatchEnds(p)

Next ==
  \/ \E j \in Jobs : Enqueue(j) \/ BecomesDue(j)
  \/ \E p \in Procs :
       \/ DrainStep(p)
       \/ ClaimFails(p)
       \/ Deliver(p)
       \/ Poll(p)
       \/ Start(p)
       \/ Listen(p)
       \/ Disconnect(p)
       \/ Stop(p)
       \/ Stopped(p)
       \/ Crash(p)
       \/ \E j \in Jobs :
            \/ RunStep(p, j)
            \/ RenewLease(p, j)
            \/ Abort(p, j)
            \/ SettleThrows(p, j)

Spec == Init /\ [][Next]_vars

\* Handlers return, statements complete, timers fire, a lost connection is opened
\* again and the platform restarts the worker; nobody owes a fault, an abort or a
\* new job, and a connection may break again and again.
Fairness ==
  /\ \A j \in Jobs : WF_vars(BecomesDue(j))
  /\ \A p \in Procs :
       /\ WF_vars(DrainStep(p))
       /\ WF_vars(Deliver(p))
       /\ WF_vars(Poll(p))
       /\ WF_vars(Start(p))
       /\ WF_vars(Listen(p))
       /\ WF_vars(Stopped(p))
       /\ \A j \in Jobs : WF_vars(RunStep(p, j))

FairSpec == Spec /\ Fairness

-----------------------------------------------------------------------------
(* Properties                                                              *)

\* A process that runs a job and is named by its lease runs the row's current
\* attempt: the identity in lease_owner is enough to fence stale runs, because
\* a process never claims a job it still runs (drainUntilIdle awaits its batch).
OwnerRunsCurrentAttempt ==
  \A p \in Procs, j \in Jobs :
    phase[p][j] # "none" /\ state[j] = "processing" /\ owner[j] = WorkerId[p]
      => seen[p][j] = attempt[j]

\* Two processes that run one job, one of them with a stolen lease, run
\* different attempts of it.
AttemptsRunOnce ==
  \A p, q \in Procs, j \in Jobs :
    p # q /\ phase[p][j] # "none" /\ phase[q][j] # "none" => seen[p][j] # seen[q][j]

\* The lease fences runs: whichever processes were stopped, slow or overtaken,
\* the one the lease names has the newest attempt and no attempt has two runs.
FencedRuns == OwnerRunsCurrentAttempt /\ AttemptsRunOnce

\* A pending row always has an attempt left, so no job waits for a claim that
\* the attempt_count < max_attempts guard will never grant.
PendingHasAttempts ==
  \A j \in Jobs : state[j] = "pending" => attempt[j] < MaxAttempts

\* A job is done only if the handler of that very attempt reported success
\* before it was aborted.
DoneWasHandled ==
  \A j \in Jobs : state[j] = "done" => <<j, attempt[j]>> \in succeeded

\* onSettled speaks of a committed outcome: while it runs, a final outcome is
\* what the row still says.
ReportMatchesRow ==
  \A p \in Procs, j \in Jobs :
    phase[p][j] = "settled" /\ outcome[p][j] # "retry" => state[j] = outcome[p][j]

\* An outcome is true wherever it is told: in the row of what its handler did,
\* and in the report of the row.
OutcomesAreTrue == DoneWasHandled /\ ReportMatchesRow

\* Only the run of the current attempt takes a row out of processing, and a
\* settled row is final: a stale worker's late settlement changes nothing.
StaleRunsAreFenced ==
  [][\A j \in Jobs :
       /\ state[j] = "processing" /\ state'[j] # "processing"
            => \E p \in Procs : phase[p][j] = "settling" /\ seen[p][j] = attempt[j]
       /\ state[j] \in {"done", "failed"} => state'[j] = state[j]]_vars

\* No live run will ever settle the row and no claim may take it: its last
\* attempt was lost to a crash or to a claim or settlement that failed.
Stranded(j) ==
  /\ state[j] = "processing" /\ attempt[j] = MaxAttempts
  /\ \A p \in Procs : phase[p][j] # "none" => seen[p][j] # attempt[j]

\* Every enqueued job is done, failed, or stranded by a fault that hit its last
\* attempt: crashes, stolen leases, notifications missed before the LISTEN and
\* broken connections only delay it.
EveryJobSettles ==
  \A j \in Jobs :
    state[j] = "pending" ~> state[j] \in {"done", "failed"} \/ Stranded(j)

\* A process that is told of a new job gets it claimed without the poll, for as
\* long as its connection holds: a notification that arrives during a drain, after
\* the claim that could have seen the row, is remembered as a follow-up.  A job
\* inserted before the LISTEN, or while the connection is down, has no such claim.
NewJobsAreClaimed ==
  \A p \in Procs, j \in Jobs :
    (state[j] = "pending" /\ attempt[j] = 0 /\ notified[p])
      ~> (attempt[j] > 0 \/ ~listening[p])

=============================================================================
