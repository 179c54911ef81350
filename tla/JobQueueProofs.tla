--------------------------- MODULE JobQueueProofs ---------------------------
(***************************************************************************)
(* The safety of JobQueue for every set of jobs and processes, every       *)
(* attempt limit, concurrency and number of faults.                        *)
(***************************************************************************)
EXTENDS JobQueue, TLAPS

\* A run was claimed no later than the row's current attempt.
SeenIsPast ==
  \A p \in Procs, j \in Jobs : phase[p][j] # "none" => seen[p][j] <= attempt[j]

\* A run that will write a retry claimed an attempt before the last.
RetryHasAttempts ==
  \A p \in Procs, j \in Jobs :
    phase[p][j] = "settling" /\ outcome[p][j] = "retry" => seen[p][j] < MaxAttempts

\* A run that will write, or wrote, done had its handler succeed.
DoneRunSucceeded ==
  \A p \in Procs, j \in Jobs :
    phase[p][j] \in {"settling", "settled"} /\ outcome[p][j] = "done"
      => <<j, seen[p][j]>> \in succeeded

\* A row not inserted yet was never claimed.
AbsentIsFresh ==
  \A j \in Jobs : state[j] = "absent" => attempt[j] = 0

\* A process claims only when it runs nothing: drainUntilIdle awaits its batch,
\* and a process that is gone drains nothing.
RunsNeedDrain ==
  \A p \in Procs :
    /\ mode[p] = "down" => drain[p] = "idle"
    /\ \A j \in Jobs : phase[p][j] # "none" => drain[p] = "running"

RunInv == SeenIsPast /\ OwnerRunsCurrentAttempt /\ AttemptsRunOnce
RowInv == PendingHasAttempts /\ RetryHasAttempts /\ AbsentIsFresh
DoneInv == DoneWasHandled /\ DoneRunSucceeded /\ ReportMatchesRow

IInv == TypeOK /\ RunInv /\ RowInv /\ DoneInv

-----------------------------------------------------------------------------
\* Waking and ending a drain keep the waker's types.
LEMMA DrainTypes ==
  ASSUME TypeOK, NEW p \in Procs, Wake(p) \/ DrainReturns(p)
  PROVE  /\ drain' \in [Procs -> {"idle", "claiming", "running"}]
         /\ followUp' \in [Procs -> BOOLEAN]
  BY DEF TypeOK, Wake, DrainReturns

LEMMA NotifyType ==
  ASSUME TypeOK, NotifyPending
  PROVE  notified' \in [Procs -> BOOLEAN]
  BY DEF TypeOK, NotifyPending

LEMMA UnlistenTypes ==
  ASSUME TypeOK, NEW p \in Procs, Unlisten(p)
  PROVE  listening' \in [Procs -> BOOLEAN] /\ notified' \in [Procs -> BOOLEAN]
  BY DEF TypeOK, Unlisten

LEMMA FaultType ==
  ASSUME TypeOK, Fault
  PROVE  faults' \in 0..MaxFaults
  BY MaxFaultsAssumption DEF TypeOK, Fault

LEMMA ForgetTypes ==
  ASSUME TypeOK, NEW p \in Procs, NEW j \in Jobs, Forget(p, j)
  PROVE  /\ phase' \in [Procs -> [Jobs -> Phases]]
         /\ seen' \in [Procs -> [Jobs -> 0..MaxAttempts]]
         /\ aborted' \in [Procs -> [Jobs -> BOOLEAN]]
         /\ outcome' \in [Procs -> [Jobs -> Outcomes]]
  BY MaxAttemptsAssumption DEF TypeOK, Forget, Phases, Outcomes

LEMMA WriteTypes ==
  ASSUME TypeOK, NEW p \in Procs, NEW j \in Jobs, WriteOutcome(p, j)
  PROVE  /\ state' \in [Jobs -> States]
         /\ owner' \in [Jobs -> {WorkerId[q] : q \in Procs} \cup {Unowned}]
         /\ due' \in [Jobs -> BOOLEAN]
         /\ attempt' \in [Jobs -> 0..MaxAttempts]
         /\ notified' \in [Procs -> BOOLEAN]
<1>1. outcome[p][j] \in {"done", "retry", "failed"}
  BY DEF TypeOK, Outcomes
<1>2. state' \in [Jobs -> States]
  BY <1>1 DEF TypeOK, WriteOutcome, States
<1>3. notified' \in [Procs -> BOOLEAN]
  BY NotifyType DEF TypeOK, WriteOutcome
<1> QED
  BY <1>2, <1>3 DEF TypeOK, WriteOutcome

\* A claim takes only rows with an attempt left.
LEMMA BatchesAreClaimable ==
  ASSUME NEW B \in Batches
  PROVE  B \subseteq {j \in Jobs : Claimable(j)}
  BY DEF Batches

LEMMA ClaimRowTypes ==
  ASSUME TypeOK, NEW p \in Procs, NEW B \in Batches, ClaimRows(p, B)
  PROVE  /\ state' \in [Jobs -> States]
         /\ owner' \in [Jobs -> {WorkerId[q] : q \in Procs} \cup {Unowned}]
         /\ due' \in [Jobs -> BOOLEAN]
         /\ attempt' \in [Jobs -> 0..MaxAttempts]
         /\ \A j \in B : j \in Jobs /\ attempt[j] + 1 \in 0..MaxAttempts
<1>1. \A j \in B : j \in Jobs /\ attempt[j] < MaxAttempts
  BY BatchesAreClaimable DEF Claimable
<1>2. \A j \in B : attempt[j] + 1 \in 0..MaxAttempts
  BY <1>1, MaxAttemptsAssumption DEF TypeOK
<1> QED
  BY <1>1, <1>2 DEF TypeOK, ClaimRows, States

LEMMA ClaimTypes ==
  ASSUME TypeOK, NEW p \in Procs, NEW B, ClaimBatch(p, B)
  PROVE  TypeOK'
<1>1. B \in Batches /\ ClaimRows(p, B)
  BY DEF ClaimBatch
<1>2. /\ state' \in [Jobs -> States]
      /\ owner' \in [Jobs -> {WorkerId[q] : q \in Procs} \cup {Unowned}]
      /\ due' \in [Jobs -> BOOLEAN]
      /\ attempt' \in [Jobs -> 0..MaxAttempts]
  BY <1>1, ClaimRowTypes
<1>3. seen' \in [Procs -> [Jobs -> 0..MaxAttempts]]
  BY <1>2 DEF TypeOK, ClaimBatch
<1>4. phase' \in [Procs -> [Jobs -> Phases]]
  BY DEF TypeOK, ClaimBatch, Phases
<1>5. /\ drain' \in [Procs -> {"idle", "claiming", "running"}]
      /\ full' \in [Procs -> BOOLEAN]
  BY DEF TypeOK, ClaimBatch
<1> QED
  BY <1>2, <1>3, <1>4, <1>5 DEF TypeOK, ClaimBatch, channel

LEMMA InitIInv == Init => IInv
<1> SUFFICES ASSUME Init PROVE IInv
  OBVIOUS
<1>1. TypeOK
  BY MaxAttemptsAssumption, MaxFaultsAssumption
  DEF Init, TypeOK, States, Phases, Outcomes
<1> QED
  BY <1>1 DEF Init, IInv, RunInv, RowInv, DoneInv, SeenIsPast, OwnerRunsCurrentAttempt,
     AttemptsRunOnce, PendingHasAttempts, RetryHasAttempts, AbsentIsFresh, DoneWasHandled,
     DoneRunSucceeded, ReportMatchesRow

-----------------------------------------------------------------------------
\* Steps that touch neither the rows nor the runs.
IdleStep ==
  \/ \E j \in Jobs : BecomesDue(j)
  \/ \E p \in Procs : \/ DrainStops(p) \/ BatchEnds(p)
                      \/ Deliver(p) \/ Poll(p)
                      \/ Start(p) \/ Listen(p) \/ Disconnect(p) \/ Stop(p) \/ Stopped(p)

LEMMA IdleStepFrame ==
  ASSUME TypeOK, IdleStep
  PROVE  UNCHANGED <<state, owner, attempt, phase, seen, aborted, outcome, succeeded>>
  BY DEF IdleStep, BecomesDue, DrainStops, BatchEnds, Deliver, Poll, Start, Listen,
     Disconnect, Stop, Stopped, row, runs

LEMMA IdleStepTypes ==
  ASSUME TypeOK, IdleStep
  PROVE  TypeOK'
<1>1. ASSUME NEW j \in Jobs, BecomesDue(j)
      PROVE  TypeOK'
  BY <1>1 DEF TypeOK, BecomesDue, runs, waker, channel
<1>2. ASSUME NEW p \in Procs, Listen(p) \/ Disconnect(p)
      PROVE  TypeOK'
  BY <1>2, UnlistenTypes DEF TypeOK, Listen, Disconnect, row, runs, waker
<1>3. ASSUME NEW p \in Procs, DrainStops(p) \/ Deliver(p) \/ Poll(p)
      PROVE  TypeOK'
  BY <1>3, DrainTypes DEF TypeOK, DrainStops, Deliver, Poll, row, runs, channel
<1>4. ASSUME NEW p \in Procs, BatchEnds(p)
      PROVE  TypeOK'
  BY <1>4, DrainTypes DEF TypeOK, BatchEnds, row, runs, channel
<1>5. ASSUME NEW p \in Procs, Stop(p)
      PROVE  TypeOK'
  BY <1>5, FaultType, UnlistenTypes DEF TypeOK, Stop, row, runs
<1>6. ASSUME NEW p \in Procs, Start(p) \/ Stopped(p)
      PROVE  TypeOK'
  BY <1>6 DEF TypeOK, Start, Stopped, row, runs, channel
<1> QED
  BY <1>1, <1>2, <1>3, <1>4, <1>5, <1>6 DEF IdleStep

LEMMA IdleStepInv ==
  ASSUME IInv, IdleStep
  PROVE  IInv'
<1>1. TypeOK'
  BY IdleStepTypes DEF IInv
<1>2. UNCHANGED <<state, owner, attempt, phase, seen, aborted, outcome, succeeded>>
  BY IdleStepFrame DEF IInv
<1> QED
  BY <1>1, <1>2 DEF IInv, RunInv, RowInv, DoneInv, SeenIsPast, OwnerRunsCurrentAttempt,
     AttemptsRunOnce, PendingHasAttempts, RetryHasAttempts, AbsentIsFresh, DoneWasHandled,
     DoneRunSucceeded, ReportMatchesRow, Owns

LEMMA EnqueueInv ==
  ASSUME IInv, NEW j \in Jobs, Enqueue(j)
  PROVE  IInv'
<1>1. TypeOK'
  BY NotifyType DEF IInv, TypeOK, Enqueue, States, runs, waker
<1>2. RunInv'
  BY DEF IInv, TypeOK, RunInv, SeenIsPast, OwnerRunsCurrentAttempt, AttemptsRunOnce, Owns,
     Enqueue, runs
<1>3. RowInv'
  BY MaxAttemptsAssumption DEF IInv, TypeOK, RowInv, PendingHasAttempts, RetryHasAttempts,
     AbsentIsFresh, Enqueue, runs
<1>4. DoneInv'
  <2>1. /\ UNCHANGED <<attempt, phase, seen, outcome, succeeded>>
        /\ state[j] = "absent" /\ state' = [state EXCEPT ![j] = "pending"]
    BY DEF Enqueue, runs
  <2>2. ReportMatchesRow'
    <3>1. \A p \in Procs : phase[p][j] = "settled" => outcome[p][j] \notin {"done", "failed"}
      BY <2>1 DEF IInv, DoneInv, ReportMatchesRow
    <3>2. \A p \in Procs : outcome[p][j] \in {"done", "retry", "failed"}
      BY DEF IInv, TypeOK, Outcomes
    <3> QED
      BY <2>1, <3>1, <3>2 DEF IInv, TypeOK, DoneInv, ReportMatchesRow
  <2>3. DoneWasHandled' /\ DoneRunSucceeded'
    BY <2>1 DEF IInv, TypeOK, DoneInv, DoneWasHandled, DoneRunSucceeded
  <2> QED
    BY <2>2, <2>3 DEF DoneInv
<1> QED
  BY <1>1, <1>2, <1>3, <1>4 DEF IInv

LEMMA ClaimInv ==
  ASSUME IInv, NEW p \in Procs, NEW B \in SUBSET Jobs, ClaimBatch(p, B)
  PROVE  IInv'
<1>1. TypeOK'
  BY ClaimTypes DEF IInv
<1>2. \A j \in B : state[j] \in {"pending", "processing"} /\ attempt[j] < MaxAttempts
  BY BatchesAreClaimable DEF ClaimBatch, ClaimRows, Claimable
<1>3. \A j \in Jobs : attempt[j] \in Nat /\ attempt'[j] \in Nat
  BY <1>1, MaxAttemptsAssumption DEF IInv, TypeOK
<1>4. \A q \in Procs, j \in Jobs :
        IF q = p /\ j \in B
          THEN phase'[q][j] = "handling" /\ seen'[q][j] = attempt[j] + 1
          ELSE phase'[q][j] = phase[q][j] /\ seen'[q][j] = seen[q][j]
  BY DEF IInv, TypeOK, ClaimBatch, ClaimRows
<1>5. \A j \in Jobs :
        IF j \in B
          THEN /\ state'[j] = "processing" /\ owner'[j] = WorkerId[p]
               /\ attempt'[j] = attempt[j] + 1
          ELSE state'[j] = state[j] /\ owner'[j] = owner[j] /\ attempt'[j] = attempt[j]
  BY DEF ClaimBatch, ClaimRows
<1>6. \A q \in Procs, j \in Jobs : seen[q][j] \in Nat
  BY MaxAttemptsAssumption DEF IInv, TypeOK
<1>7. RunInv'
  <2>1. SeenIsPast'
    BY <1>3, <1>4, <1>5, <1>6 DEF IInv, RunInv, SeenIsPast
  <2>2. OwnerRunsCurrentAttempt'
    BY <1>3, <1>4, <1>5, WorkerIdAssumption DEF IInv, RunInv, OwnerRunsCurrentAttempt, Owns
  <2>3. AttemptsRunOnce'
    BY <1>3, <1>4, <1>6 DEF IInv, RunInv, SeenIsPast, AttemptsRunOnce
  <2> QED
    BY <2>1, <2>2, <2>3 DEF RunInv
<1>8. RowInv'
  BY <1>4, <1>5 DEF IInv, RowInv, PendingHasAttempts, RetryHasAttempts,
     AbsentIsFresh, ClaimBatch, ClaimRows
<1>9. DoneInv'
  <2>1. DoneWasHandled' /\ DoneRunSucceeded'
    BY <1>4, <1>5 DEF IInv, DoneInv, DoneWasHandled, DoneRunSucceeded, ClaimBatch, ClaimRows
  <2>2. ReportMatchesRow'
    <3> SUFFICES ASSUME NEW q \in Procs, NEW j \in Jobs,
                        phase'[q][j] = "settled", outcome'[q][j] # "retry"
                 PROVE  state'[j] = outcome'[q][j]
      BY DEF ReportMatchesRow
    <3>1. phase[q][j] = "settled" /\ outcome[q][j] \in {"done", "failed"}
      BY <1>4 DEF IInv, TypeOK, Outcomes, ClaimBatch, ClaimRows
    <3>2. state[j] \in {"done", "failed"}
      BY <3>1 DEF IInv, DoneInv, ReportMatchesRow
    <3> QED
      BY <3>1, <3>2, <1>2, <1>5 DEF IInv, DoneInv, ReportMatchesRow, ClaimBatch, ClaimRows
  <2> QED
    BY <2>1, <2>2 DEF DoneInv
<1> QED
  BY <1>1, <1>7, <1>8, <1>9 DEF IInv

LEMMA HeartbeatInv ==
  ASSUME IInv, NEW p \in Procs, NEW j \in Jobs, RenewLease(p, j) \/ Abort(p, j)
  PROVE  IInv'
<1>1. TypeOK'
  <2>1. \/ due' = [due EXCEPT ![j] = FALSE] /\ aborted' = aborted
        \/ due' = due /\ aborted' = [aborted EXCEPT ![p][j] = TRUE]
    BY DEF RenewLease, Abort, row
  <2>2. UNCHANGED <<state, owner, attempt, phase, seen, outcome, waker, channel,
                    succeeded, faults>>
    BY DEF RenewLease, Abort, row
  <2>3. CASE due' = [due EXCEPT ![j] = FALSE] /\ aborted' = aborted
    BY <2>2, <2>3 DEF IInv, TypeOK, waker, channel
  <2>4. CASE due' = due /\ aborted' = [aborted EXCEPT ![p][j] = TRUE]
    <3>1. aborted' \in [Procs -> [Jobs -> BOOLEAN]]
      BY <2>4, Zenon DEF IInv, TypeOK
    <3> QED
      BY <2>2, <2>4, <3>1 DEF IInv, TypeOK, waker, channel
  <2> QED
    BY <2>1, <2>3, <2>4
<1>2. UNCHANGED <<state, owner, attempt, phase, seen, outcome, succeeded>>
  BY DEF RenewLease, Abort, row
<1> QED
  BY <1>1, <1>2 DEF IInv, RunInv, RowInv, DoneInv, SeenIsPast, OwnerRunsCurrentAttempt,
     AttemptsRunOnce, PendingHasAttempts, RetryHasAttempts, AbsentIsFresh, DoneWasHandled,
     DoneRunSucceeded, ReportMatchesRow, Owns

LEMMA HandlerInv ==
  ASSUME IInv, NEW p \in Procs, NEW j \in Jobs, NEW s \in Outcomes, HandlerReturns(p, j, s)
  PROVE  IInv'
<1> DEFINE o == outcome'[p][j]
<1>1. /\ outcome' = [outcome EXCEPT ![p][j] = o]
      /\ o \in Outcomes
      /\ o = "retry" => seen[p][j] < MaxAttempts
      /\ o = "done" => <<j, seen[p][j]>> \in succeeded'
  <2> DEFINE kept == Kept(p, j, s)
  <2>1. outcome' = [outcome EXCEPT ![p][j] = Resolve(p, j, kept)]
    BY DEF HandlerReturns
  <2>2. o = Resolve(p, j, kept)
    BY <2>1 DEF IInv, TypeOK
  <2>3. o \in Outcomes /\ (o = "retry" => ~(seen[p][j] >= MaxAttempts))
    BY <2>2 DEF Resolve, Kept, Outcomes
  <2>4. o = "done" => s = "done" /\ ~aborted[p][j]
    BY <2>2 DEF Resolve, Kept
  <2>5. o = "done" => <<j, seen[p][j]>> \in succeeded'
    BY <2>4 DEF HandlerReturns
  <2>6. o = "retry" => seen[p][j] < MaxAttempts
    BY <2>3, MaxAttemptsAssumption DEF IInv, TypeOK
  <2> HIDE DEF kept
  <2> QED
    BY <2>1, <2>2, <2>3, <2>5, <2>6
<1> HIDE DEF o
<1>2. /\ succeeded \subseteq succeeded'
      /\ succeeded' \subseteq Jobs \X (0..MaxAttempts)
  BY DEF IInv, TypeOK, HandlerReturns
<1>3. /\ phase' = [phase EXCEPT ![p][j] = "settling"]
      /\ phase[p][j] = "handling"
      /\ UNCHANGED <<state, owner, due, attempt, seen, aborted, waker, channel, faults>>
  BY DEF HandlerReturns, row
<1>4. TypeOK'
  <2>1. /\ outcome' \in [Procs -> [Jobs -> Outcomes]]
        /\ phase' \in [Procs -> [Jobs -> Phases]]
    BY <1>1, <1>3 DEF IInv, TypeOK, Phases
  <2> QED
    BY <2>1, <1>2, <1>3 DEF IInv, TypeOK, waker, channel
<1>5. RunInv'
  BY <1>3 DEF IInv, TypeOK, RunInv, SeenIsPast, OwnerRunsCurrentAttempt, AttemptsRunOnce, Owns
<1>6. RowInv'
  BY <1>1, <1>3 DEF IInv, TypeOK, RowInv, PendingHasAttempts, RetryHasAttempts,
     AbsentIsFresh
<1>7. DoneInv'
  <2>1. \A q \in Procs, k \in Jobs :
          IF q = p /\ k = j
            THEN phase'[q][k] = "settling" /\ outcome'[q][k] = o
            ELSE phase'[q][k] = phase[q][k] /\ outcome'[q][k] = outcome[q][k]
    BY <1>1, <1>3 DEF IInv, TypeOK
  <2>2. DoneWasHandled' /\ ReportMatchesRow'
    BY <2>1, <1>2, <1>3 DEF IInv, DoneInv, DoneWasHandled, ReportMatchesRow
  <2>3. DoneRunSucceeded'
    BY <2>1, <1>1, <1>2, <1>3 DEF IInv, DoneInv, DoneRunSucceeded
  <2> QED
    BY <2>2, <2>3 DEF DoneInv
<1> QED
  BY <1>4, <1>5, <1>6, <1>7 DEF IInv

\* Dropping runs, with the rows left alone, keeps the invariant.
LEMMA RunsDropped ==
  ASSUME IInv, TypeOK', UNCHANGED <<state, owner, attempt, succeeded>>,
         \A q \in Procs, k \in Jobs :
           \/ phase'[q][k] = "none"
           \/ /\ phase'[q][k] = phase[q][k] /\ seen'[q][k] = seen[q][k]
              /\ outcome'[q][k] = outcome[q][k]
  PROVE  IInv'
<1>1. RunInv'
  BY DEF IInv, RunInv, SeenIsPast, OwnerRunsCurrentAttempt, AttemptsRunOnce, Owns
<1>2. RowInv'
  BY DEF IInv, RowInv, PendingHasAttempts, RetryHasAttempts, AbsentIsFresh
<1>3. DoneInv'
  BY DEF IInv, DoneInv, DoneWasHandled, DoneRunSucceeded, ReportMatchesRow
<1> QED
  BY <1>1, <1>2, <1>3 DEF IInv

\* Only the run of the current attempt can write an outcome.
LEMMA WriterIsCurrent ==
  ASSUME IInv, NEW p \in Procs, NEW j \in Jobs, phase[p][j] = "settling", WriteOutcome(p, j)
  PROVE  /\ seen[p][j] = attempt[j]
         /\ state[j] = "processing"
  BY DEF IInv, RunInv, OwnerRunsCurrentAttempt, WriteOutcome, Owns

LEMMA WriteInv ==
  ASSUME IInv, TypeOK', NEW p \in Procs, NEW j \in Jobs, phase[p][j] = "settling",
         WriteOutcome(p, j), UNCHANGED succeeded,
         \A q \in Procs, k \in Jobs :
           \/ phase'[q][k] = "none"
           \/ /\ seen'[q][k] = seen[q][k] /\ outcome'[q][k] = outcome[q][k]
              /\ IF q = p /\ k = j THEN phase'[q][k] = "settled"
                                   ELSE phase'[q][k] = phase[q][k]
  PROVE  IInv'
<1>1. seen[p][j] = attempt[j] /\ state[j] = "processing"
  BY WriterIsCurrent
<1>2. /\ attempt' = attempt
      /\ \A k \in Jobs : k # j => state'[k] = state[k] /\ owner'[k] = owner[k]
      /\ state'[j] = IF outcome[p][j] = "retry" THEN "pending" ELSE outcome[p][j]
      /\ owner'[j] = Unowned
  BY DEF IInv, TypeOK, WriteOutcome
<1>3. outcome[p][j] \in {"done", "retry", "failed"}
  BY DEF IInv, TypeOK, Outcomes
<1>4. RunInv'
  <2>1. SeenIsPast'
    BY <1>2 DEF IInv, RunInv, SeenIsPast
  <2>2. OwnerRunsCurrentAttempt'
    BY <1>2, <1>3 DEF IInv, RunInv, OwnerRunsCurrentAttempt, Owns
  <2>3. AttemptsRunOnce'
    BY DEF IInv, RunInv, AttemptsRunOnce
  <2> QED
    BY <2>1, <2>2, <2>3 DEF RunInv
<1>5. RowInv'
  <2>1. PendingHasAttempts'
    BY <1>1, <1>2, <1>3 DEF IInv, RowInv, PendingHasAttempts, RetryHasAttempts
  <2>2. RetryHasAttempts' /\ AbsentIsFresh'
    BY <1>2, <1>3 DEF IInv, RowInv, RetryHasAttempts, AbsentIsFresh
  <2> QED
    BY <2>1, <2>2 DEF RowInv
<1>6. DoneInv'
  <2>1. DoneWasHandled'
    BY <1>1, <1>2, <1>3 DEF IInv, DoneInv, DoneWasHandled, DoneRunSucceeded
  <2>2. DoneRunSucceeded'
    BY DEF IInv, DoneInv, DoneRunSucceeded
  <2>3. ReportMatchesRow'
    <3> SUFFICES ASSUME NEW q \in Procs, NEW k \in Jobs,
                        phase'[q][k] = "settled", outcome'[q][k] # "retry"
                 PROVE  state'[k] = outcome'[q][k]
      BY DEF ReportMatchesRow
    <3>1. outcome'[q][k] = outcome[q][k] /\ outcome[q][k] \in {"done", "retry", "failed"}
      BY DEF IInv, TypeOK, Outcomes
    <3>2. CASE q = p /\ k = j
      BY <3>1, <3>2, <1>2
    <3>3. CASE ~(q = p /\ k = j)
      <4>1. phase[q][k] = "settled"
        BY <3>3
      <4>2. state[k] = outcome[q][k] /\ k # j
        BY <4>1, <3>1, <1>1 DEF IInv, DoneInv, ReportMatchesRow
      <4> QED
        BY <4>2, <3>1, <1>2
    <3> QED
      BY <3>2, <3>3
  <2> QED
    BY <2>1, <2>2, <2>3 DEF DoneInv
<1> QED
  BY <1>4, <1>5, <1>6 DEF IInv

LEMMA ForgetDrops ==
  ASSUME TypeOK, NEW p \in Procs, NEW j \in Jobs, Forget(p, j)
  PROVE  \A q \in Procs, k \in Jobs :
           \/ phase'[q][k] = "none"
           \/ /\ ~(q = p /\ k = j)
              /\ phase'[q][k] = phase[q][k] /\ seen'[q][k] = seen[q][k]
              /\ outcome'[q][k] = outcome[q][k]
  BY DEF TypeOK, Forget

LEMMA SettleInv ==
  ASSUME IInv, NEW p \in Procs, NEW j \in Jobs, Settle(p, j)
  PROVE  IInv'
<1>1. /\ phase[p][j] = "settling" /\ WriteOutcome(p, j)
      /\ phase' = [phase EXCEPT ![p][j] = "settled"]
      /\ UNCHANGED <<seen, aborted, outcome, mode, drain, full, followUp, listening,
                     succeeded, faults>>
  BY DEF Settle, waker
<1>2. TypeOK'
  <2>1. phase' \in [Procs -> [Jobs -> Phases]]
    BY <1>1 DEF IInv, TypeOK, Phases
  <2> QED
    BY <1>1, <2>1, WriteTypes DEF IInv, TypeOK
<1>3. \A q \in Procs, k \in Jobs :
        phase'[q][k] = IF q = p /\ k = j THEN "settled" ELSE phase[q][k]
  BY <1>1 DEF IInv, TypeOK
<1> QED
  BY <1>1, <1>2, <1>3, WriteInv

LEMMA DropInv ==
  ASSUME IInv, NEW p \in Procs, NEW j \in Jobs, SettleRejected(p, j) \/ OnSettled(p, j)
  PROVE  IInv'
<1>1. /\ Forget(p, j)
      /\ UNCHANGED <<state, owner, due, attempt, mode, drain, full, followUp, listening,
                     notified, succeeded, faults>>
  BY DEF SettleRejected, OnSettled, row, waker, channel
<1>2. TypeOK'
  BY <1>1, ForgetTypes DEF IInv, TypeOK
<1> QED
  BY <1>1, <1>2, ForgetDrops, RunsDropped DEF IInv

LEMMA SettleThrowsInv ==
  ASSUME IInv, NEW p \in Procs, NEW j \in Jobs, SettleThrows(p, j)
  PROVE  IInv'
<1>1. /\ phase[p][j] = "settling" /\ Forget(p, j) /\ Fault
      /\ UNCHANGED <<mode, drain, full, followUp, listening, succeeded>>
      /\ WriteOutcome(p, j) \/ UNCHANGED <<state, owner, due, attempt, notified>>
  BY DEF SettleThrows, waker, row
<1>2. TypeOK'
  <2>1. /\ state' \in [Jobs -> States]
        /\ owner' \in [Jobs -> {WorkerId[q] : q \in Procs} \cup {Unowned}]
        /\ due' \in [Jobs -> BOOLEAN]
        /\ attempt' \in [Jobs -> 0..MaxAttempts]
        /\ notified' \in [Procs -> BOOLEAN]
    BY <1>1, WriteTypes DEF IInv, TypeOK
  <2> QED
    BY <1>1, <2>1, ForgetTypes, FaultType DEF IInv, TypeOK
<1>3. CASE WriteOutcome(p, j)
  BY <1>1, <1>2, <1>3, ForgetDrops, WriteInv DEF IInv
<1>4. CASE UNCHANGED <<state, owner, due, attempt, notified>>
  BY <1>1, <1>2, <1>4, ForgetDrops, RunsDropped DEF IInv
<1> QED
  BY <1>1, <1>3, <1>4

LEMMA CrashInv ==
  ASSUME IInv, NEW p \in Procs, Crash(p)
  PROVE  IInv'
<1>1. TypeOK'
  <2>1. /\ phase' \in [Procs -> [Jobs -> Phases]]
        /\ seen' \in [Procs -> [Jobs -> 0..MaxAttempts]]
        /\ outcome' \in [Procs -> [Jobs -> Outcomes]]
    BY MaxAttemptsAssumption DEF IInv, TypeOK, Crash, Phases, Outcomes
  <2>2. aborted' \in [Procs -> [Jobs -> BOOLEAN]]
    BY DEF IInv, TypeOK, Crash
  <2>3. /\ mode' \in [Procs -> {"up", "stopping", "down"}]
        /\ drain' \in [Procs -> {"idle", "claiming", "running"}]
        /\ full' \in [Procs -> BOOLEAN]
        /\ followUp' \in [Procs -> BOOLEAN]
        /\ listening' \in [Procs -> BOOLEAN] /\ notified' \in [Procs -> BOOLEAN]
    BY UnlistenTypes DEF IInv, TypeOK, Crash
  <2>4. faults' \in 0..MaxFaults
    BY FaultType DEF IInv, Crash
  <2>5. UNCHANGED <<state, owner, due, attempt, succeeded>>
    BY DEF Crash, row
  <2> QED
    BY <2>1, <2>2, <2>3, <2>4, <2>5 DEF IInv, TypeOK
<1>2. \A q \in Procs, k \in Jobs :
        \/ phase'[q][k] = "none"
        \/ /\ phase'[q][k] = phase[q][k] /\ seen'[q][k] = seen[q][k]
           /\ outcome'[q][k] = outcome[q][k]
  BY DEF IInv, TypeOK, Crash
<1> QED
  BY <1>1, <1>2, RunsDropped DEF Crash, row

-----------------------------------------------------------------------------
\* Runs begin with a claim and end before their drain does.
LEMMA DrainNext ==
  ASSUME TypeOK, RunsNeedDrain, [Next]_vars
  PROVE  RunsNeedDrain'
<1>1. ASSUME NEW p \in Procs, Wake(p) \/ DrainReturns(p), drain[p] # "running" \/ (\A j \in Jobs : phase[p][j] = "none"),
             mode[p] # "down", UNCHANGED <<phase, mode>>
      PROVE  RunsNeedDrain'
  BY <1>1 DEF TypeOK, RunsNeedDrain, Wake, DrainReturns
<1>2. ASSUME NEW p \in Procs, DrainStep(p) PROVE RunsNeedDrain'
  <2>1. ASSUME NEW B \in SUBSET Jobs, ClaimBatch(p, B) PROVE RunsNeedDrain'
    BY <2>1 DEF TypeOK, RunsNeedDrain, ClaimBatch
  <2>2. CASE DrainStops(p)
    BY <1>1, <2>2 DEF DrainStops, runs
  <2>3. CASE BatchEnds(p)
    <3>1. CASE full[p] /\ mode[p] = "up"
      BY <2>3, <3>1 DEF TypeOK, RunsNeedDrain, BatchEnds, runs
    <3>2. CASE ~(full[p] /\ mode[p] = "up")
      <4>1. mode[p] # "down"
        BY <2>3 DEF BatchEnds, RunsNeedDrain
      <4> QED
        BY <1>1, <2>3, <3>2, <4>1 DEF BatchEnds, runs
    <3> QED
      BY <3>1, <3>2
  <2> QED
    BY <1>2, <2>1, <2>2, <2>3 DEF DrainStep
<1>3. ASSUME NEW p \in Procs, Deliver(p) \/ Poll(p) PROVE RunsNeedDrain'
  <2>1. Wake(p) /\ mode[p] = "up" /\ UNCHANGED <<phase, mode>>
    BY <1>3 DEF Deliver, Poll, runs
  <2> QED
    BY <2>1 DEF TypeOK, RunsNeedDrain, Wake
<1>4. ASSUME NEW p \in Procs, ClaimFails(p) PROVE RunsNeedDrain'
  BY <1>1, <1>4 DEF ClaimFails, runs
<1>5. ASSUME NEW p \in Procs, Start(p) \/ Crash(p) PROVE RunsNeedDrain'
  <2>1. CASE Start(p)
    <3>1. mode[p] = "down" /\ UNCHANGED phase
      BY <2>1 DEF Start, runs
    <3>2. /\ mode'[p] = "up" /\ drain'[p] = "claiming"
          /\ \A q \in Procs \ {p} : mode'[q] = mode[q] /\ drain'[q] = drain[q]
      BY <2>1 DEF TypeOK, Start
    <3> QED
      BY <3>1, <3>2 DEF RunsNeedDrain
  <2>2. CASE Crash(p)
    BY <2>2 DEF TypeOK, RunsNeedDrain, Crash
  <2> QED
    BY <1>5, <2>1, <2>2
<1>6. ASSUME NEW p \in Procs, NEW j \in Jobs,
             \/ RunStep(p, j) \/ RenewLease(p, j) \/ Abort(p, j) \/ SettleThrows(p, j)
      PROVE  RunsNeedDrain'
  <2>1. /\ drain' = drain /\ mode' = mode /\ phase[p][j] # "none"
        /\ \A q \in Procs, k \in Jobs : ~(q = p /\ k = j) => phase'[q][k] = phase[q][k]
    BY <1>6 DEF TypeOK, RunStep, HandlerReturns, Settle, SettleRejected, OnSettled, Forget,
       RenewLease, Abort, SettleThrows, waker
  <2> QED
    BY <2>1 DEF RunsNeedDrain
<1>7. ASSUME NEW p \in Procs, Stop(p) \/ Stopped(p) PROVE RunsNeedDrain'
  BY <1>7 DEF TypeOK, RunsNeedDrain, Stop, Stopped, runs
<1>8. ASSUME \/ \E j \in Jobs : Enqueue(j) \/ BecomesDue(j)
             \/ \E p \in Procs : Listen(p) \/ Disconnect(p)
             \/ UNCHANGED vars
      PROVE  UNCHANGED <<phase, mode, drain>>
  BY <1>8 DEF Enqueue, BecomesDue, Listen, Disconnect, vars, runs, waker
<1> QED
  BY <1>2, <1>3, <1>4, <1>5, <1>6, <1>7, <1>8 DEF Next, RunsNeedDrain

\* The rows of a claim whose answer was lost have no run, the claimer's included.
LEMMA ClaimFailsInv ==
  ASSUME IInv, RunsNeedDrain, NEW p \in Procs, ClaimFails(p)
  PROVE  IInv'
<1>1. /\ drain[p] = "claiming" /\ Fault /\ DrainReturns(p)
      /\ (\E B \in Batches : ClaimRows(p, B)) \/ UNCHANGED <<state, owner, due, attempt>>
      /\ UNCHANGED <<phase, seen, aborted, outcome, mode, full, listening, notified, succeeded>>
  BY DEF ClaimFails, row, runs, channel
<1>2. CASE UNCHANGED <<state, owner, due, attempt>>
  <2>1. TypeOK'
    BY <1>1, <1>2, DrainTypes, FaultType DEF IInv, TypeOK
  <2> QED
    BY <1>1, <1>2, <2>1, RunsDropped
<1>3. ASSUME NEW B \in Batches, ClaimRows(p, B)
      PROVE  IInv'
  <2>1. TypeOK'
    BY <1>1, <1>3, ClaimRowTypes, DrainTypes, FaultType DEF IInv, TypeOK
  <2>2. \A j \in B : state[j] \in {"pending", "processing"} /\ attempt[j] < MaxAttempts
    BY BatchesAreClaimable DEF Claimable
  <2>3. \A j \in Jobs :
          IF j \in B
            THEN /\ state'[j] = "processing" /\ owner'[j] = WorkerId[p]
                 /\ attempt'[j] = attempt[j] + 1
            ELSE state'[j] = state[j] /\ owner'[j] = owner[j] /\ attempt'[j] = attempt[j]
    BY <1>3 DEF ClaimRows
  <2>4. \A j \in Jobs : phase[p][j] = "none"
    BY <1>1 DEF RunsNeedDrain
  <2>5. \A q \in Procs, j \in Jobs : attempt[j] \in Nat /\ seen[q][j] \in Nat
    BY MaxAttemptsAssumption DEF IInv, TypeOK
  <2>6. RunInv'
    <3>1. SeenIsPast'
      BY <1>1, <2>3, <2>5 DEF IInv, RunInv, SeenIsPast
    <3>2. OwnerRunsCurrentAttempt'
      BY <1>1, <2>3, <2>4, WorkerIdAssumption DEF IInv, RunInv, OwnerRunsCurrentAttempt
    <3>3. AttemptsRunOnce'
      BY <1>1 DEF IInv, RunInv, AttemptsRunOnce
    <3> QED
      BY <3>1, <3>2, <3>3 DEF RunInv
  <2>7. RowInv'
    BY <1>1, <2>3 DEF IInv, RowInv, PendingHasAttempts, RetryHasAttempts, AbsentIsFresh
  <2>8. DoneInv'
    <3>1. DoneWasHandled' /\ DoneRunSucceeded'
      BY <1>1, <2>3 DEF IInv, DoneInv, DoneWasHandled, DoneRunSucceeded
    <3>2. ReportMatchesRow'
      <4> SUFFICES ASSUME NEW q \in Procs, NEW j \in Jobs,
                          phase[q][j] = "settled", outcome[q][j] # "retry"
                   PROVE  state'[j] = outcome[q][j]
        BY <1>1 DEF ReportMatchesRow
      <4>1. outcome[q][j] \in {"done", "failed"} /\ state[j] = outcome[q][j]
        BY DEF IInv, TypeOK, Outcomes, DoneInv, ReportMatchesRow
      <4> QED
        BY <4>1, <2>2, <2>3
    <3> QED
      BY <3>1, <3>2 DEF DoneInv
  <2> QED
    BY <2>1, <2>6, <2>7, <2>8 DEF IInv
<1> QED
  BY <1>1, <1>2, <1>3

LEMMA NextInv ==
  ASSUME IInv, RunsNeedDrain, [Next]_vars
  PROVE  IInv'
<1>1. ASSUME IdleStep PROVE IInv'
  BY <1>1, IdleStepInv
<1>2. ASSUME NEW j \in Jobs, Enqueue(j) PROVE IInv'
  BY <1>2, EnqueueInv
<1>3. ASSUME NEW p \in Procs, NEW B \in SUBSET Jobs, ClaimBatch(p, B) PROVE IInv'
  BY <1>3, ClaimInv
<1>4. ASSUME NEW p \in Procs, Crash(p) PROVE IInv'
  BY <1>4, CrashInv
<1>5. ASSUME NEW p \in Procs, NEW j \in Jobs, NEW s \in Outcomes, HandlerReturns(p, j, s)
      PROVE  IInv'
  BY <1>5, HandlerInv
<1>6. ASSUME NEW p \in Procs, NEW j \in Jobs, Settle(p, j) PROVE IInv'
  BY <1>6, SettleInv
<1>7. ASSUME NEW p \in Procs, NEW j \in Jobs, SettleRejected(p, j) \/ OnSettled(p, j)
      PROVE  IInv'
  BY <1>7, DropInv
<1>8. ASSUME NEW p \in Procs, NEW j \in Jobs, RenewLease(p, j) \/ Abort(p, j)
      PROVE  IInv'
  BY <1>8, HeartbeatInv
<1>9. ASSUME NEW p \in Procs, NEW j \in Jobs, SettleThrows(p, j) PROVE IInv'
  BY <1>9, SettleThrowsInv
<1>10. ASSUME NEW p \in Procs, ClaimFails(p) PROVE IInv'
  BY <1>10, ClaimFailsInv
<1>11. CASE UNCHANGED vars
  <2>1. UNCHANGED <<state, owner, due, attempt, phase, seen, aborted, outcome, mode, drain,
                    full, followUp, listening, notified, succeeded, faults>>
    BY <1>11 DEF vars, row, runs, waker, channel
  <2>2. TypeOK'
    BY <2>1 DEF IInv, TypeOK
  <2> QED
    BY <2>1, <2>2, RunsDropped
<1> QED
  BY <1>1, <1>2, <1>3, <1>4, <1>5, <1>6, <1>7, <1>8, <1>9, <1>10, <1>11
  DEF Next, RunStep, DrainStep, IdleStep

\* The inductive invariant of the queue: runs, rows and their history agree.
THEOREM Inductive == Spec => []IInv
<1>1. Init => IInv /\ RunsNeedDrain
  BY InitIInv DEF Init, RunsNeedDrain
<1>2. IInv /\ RunsNeedDrain /\ [Next]_vars => IInv' /\ RunsNeedDrain'
  BY NextInv, DrainNext DEF IInv
<1> QED
  BY <1>1, <1>2, PTL DEF Spec

\* Every variable keeps its type; in particular no row's attempt_count ever
\* exceeds max_attempts, whatever crashes and reclaims happen.
THEOREM TypeCorrect == Spec => []TypeOK
<1>1. IInv => TypeOK
  BY DEF IInv
<1> QED
  BY <1>1, Inductive, PTL

\* Fencing by lease_owner is sound: a process the lease names runs the row's
\* current attempt.
THEOREM FencedOwner == Spec => []OwnerRunsCurrentAttempt
<1>1. IInv => OwnerRunsCurrentAttempt
  BY DEF IInv, RunInv
<1> QED
  BY <1>1, Inductive, PTL

\* No two processes run the same attempt of a job.
THEOREM FencedAttempts == Spec => []AttemptsRunOnce
<1>1. IInv => AttemptsRunOnce
  BY DEF IInv, RunInv
<1> QED
  BY <1>1, Inductive, PTL

\* No job waits in pending with its attempts used up.
THEOREM RetriesAreClaimable == Spec => []PendingHasAttempts
<1>1. IInv => PendingHasAttempts
  BY DEF IInv, RowInv
<1> QED
  BY <1>1, Inductive, PTL

\* A done row was handled to success by the attempt it names.
THEOREM DoneIsHandled == Spec => []DoneWasHandled
<1>1. IInv => DoneWasHandled
  BY DEF IInv, DoneInv
<1> QED
  BY <1>1, Inductive, PTL

\* onSettled reports a final outcome only while the row holds it.
THEOREM ReportsAreCommitted == Spec => []ReportMatchesRow
<1>1. IInv => ReportMatchesRow
  BY DEF IInv, DoneInv
<1> QED
  BY <1>1, Inductive, PTL

\* The step of a stale run never takes a row out of processing, and a settled
\* row never changes again.
THEOREM StaleRunsFenced == Spec => StaleRunsAreFenced
<1> DEFINE Step(j) ==
      /\ (state[j] = "processing" /\ state'[j] # "processing"
            => \E p \in Procs : phase[p][j] = "settling" /\ seen[p][j] = attempt[j])
      /\ (state[j] \in {"done", "failed"} => state'[j] = state[j])
<1>1. ASSUME IInv, [Next]_vars, NEW j \in Jobs
      PROVE  Step(j)
  <2>1. ASSUME NEW p \in Procs, NEW k \in Jobs, Settle(p, k) \/ SettleThrows(p, k)
        PROVE  Step(j)
    <3>1. phase[p][k] = "settling" /\ (WriteOutcome(p, k) \/ UNCHANGED state)
      BY <2>1 DEF Settle, SettleThrows, row
    <3>2. CASE UNCHANGED state
      BY <3>2
    <3>3. CASE WriteOutcome(p, k)
      <4>1. seen[p][k] = attempt[k] /\ state[k] = "processing"
        BY <1>1, <3>1, <3>3, WriterIsCurrent
      <4>2. j # k => state'[j] = state[j]
        BY <1>1, <3>3 DEF IInv, TypeOK, WriteOutcome
      <4> QED
        BY <4>1, <4>2, <3>1
    <3> QED
      BY <3>1, <3>2, <3>3
  <2>2. ASSUME NEW p \in Procs, NEW B \in Batches, ClaimRows(p, B)
        PROVE  Step(j)
    <3>1. j \in B => state[j] \in {"pending", "processing"} /\ state'[j] = "processing"
      BY <2>2, BatchesAreClaimable DEF ClaimRows, Claimable
    <3>2. j \notin B => state'[j] = state[j]
      BY <2>2 DEF ClaimRows
    <3> QED
      BY <3>1, <3>2
  <2>3. ASSUME NEW k \in Jobs, Enqueue(k)
        PROVE  Step(j)
    BY <1>1, <2>3 DEF Enqueue, IInv, TypeOK
  <2>4. CASE IdleStep
    BY <1>1, <2>4, IdleStepFrame DEF IInv
  <2>5. ASSUME NEW p \in Procs, NEW k \in Jobs,
               \/ \E s \in Outcomes : HandlerReturns(p, k, s)
               \/ SettleRejected(p, k) \/ OnSettled(p, k) \/ RenewLease(p, k) \/ Abort(p, k)
        PROVE  Step(j)
    BY <2>5 DEF HandlerReturns, SettleRejected, OnSettled, RenewLease, Abort, row
  <2>6. ASSUME NEW p \in Procs, Crash(p)
        PROVE  Step(j)
    BY <2>6 DEF Crash, row
  <2>7. CASE UNCHANGED vars
    BY <2>7 DEF vars, row
  <2>8. ASSUME NEW p \in Procs, ClaimFails(p) \/ \E B \in SUBSET Jobs : ClaimBatch(p, B)
        PROVE  Step(j)
    <3>1. (\E B \in Batches : ClaimRows(p, B)) \/ UNCHANGED state
      BY <2>8 DEF ClaimFails, ClaimBatch, row
    <3> QED
      BY <2>2, <3>1
  <2> HIDE DEF Step
  <2> QED
    BY <1>1, <2>1, <2>2, <2>3, <2>4, <2>5, <2>6, <2>7, <2>8 DEF Next, RunStep, DrainStep, IdleStep
<1>2. IInv /\ [Next]_vars => [\A j \in Jobs : Step(j)]_vars
  BY <1>1
<1> QED
  BY <1>2, Inductive, PTL DEF Spec, StaleRunsAreFenced

\* Leases fence runs.
THEOREM RunsAreFenced == Spec => []FencedRuns
<1>1. OwnerRunsCurrentAttempt /\ AttemptsRunOnce => FencedRuns
  BY DEF FencedRuns
<1> QED
  BY <1>1, FencedOwner, FencedAttempts, PTL

\* Rows and reports tell the truth about runs.
THEOREM OutcomesAreTold == Spec => []OutcomesAreTrue
<1>1. DoneWasHandled /\ ReportMatchesRow => OutcomesAreTrue
  BY DEF OutcomesAreTrue
<1> QED
  BY <1>1, DoneIsHandled, ReportsAreCommitted, PTL

=============================================================================
