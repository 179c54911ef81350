-------------------------- MODULE UsageLedgerProofs --------------------------
(***************************************************************************)
(* What the usage ledger promises for any number of calls, reviewers and   *)
(* requests, any policy and any number of days.                            *)
(***************************************************************************)
EXTENDS UsageLedger, FiniteSetTheorems, TLAPS

\* What each step of a call knows about the rows it has written.
CallInv(c) ==
  LET r == reservation[c]
  IN  /\ At(c, "start") \/ At(c, "lock") \/ At(c, "reservations") \/ At(c, "commits") =>
           r = NoReservation /\ commits[c] = 0 /\ assigned[c] = 0 /\ ~call[c].lost
      /\ At(c, "run") =>
           /\ r = [status |-> "pending", amount |-> call[c].requested]
           /\ commits[c] = 0 /\ assigned[c] = 0 /\ ~call[c].lost
      /\ At(c, "settle") =>
           /\ r = [status |-> "pending", amount |-> call[c].requested]
           /\ commits[c] = 0 /\ assigned[c] = call[c].consumed
           /\ call[c].consumed <= call[c].requested /\ ~call[c].lost
      /\ At(c, "update") =>
           /\ r.status = "pending" /\ commits[c] = call[c].consumed
           /\ assigned[c] = call[c].consumed /\ ~call[c].lost
      /\ At(c, "cancel") =>
           r.status = "pending" /\ commits[c] = 0 /\ (call[c].lost \/ assigned[c] = 0)
      /\ At(c, "done") =>
           /\ r.status # "pending"
           /\ commits[c] = IF call[c].lost THEN 0 ELSE assigned[c]
      /\ At(c, "dead") =>
           \/ call[c].lost
           \/ assigned[c] <= commits[c] + (IF r.status = "pending" THEN r.amount ELSE 0)

CallsInv == \A c \in Calls : CallInv(c)

(* What a call may still hand out, or has, as far as the limit counts it.  *)
Cost(c) ==
  IF call[c].lost THEN 0 ELSE IF At(c, "run") THEN call[c].requested ELSE assigned[c]

DayCost(d) == [c \in Calls |-> IF call[c].day = d THEN Cost(c) ELSE 0]

(* Under the lock a call is alone, and has seen no more grants than there  *)
(* are. The amounts it has read, reservations first, and the commits as    *)
(* they are cover the cost of every call of its day: whoever has left the  *)
(* reservations since has come to the commits, and nobody else reserves.   *)
HolderInv(c) ==
  /\ At(c, "reservations") \/ At(c, "commits") =>
       lock = c /\ call[c].granted <= grants[call[c].day]
  /\ At(c, "commits") => \A x \in SameDay(c) : Cost(x) <= call[c].rows[x] + commits[x]

HoldersInv == \A c \in Calls : HolderInv(c)

LimitInv == \A d \in Days : Total(DayCost(d), Calls) <= DailyLimit + grants[d]

\* A reservation that is granted: the only step that makes a cost grow.
Reserves(c) == Reserve(c) /\ Remaining(c) >= call[c].requested

\* The steps of the calls, and all others.
CallStep(c) == Advance(c) \/ Die(c)

OtherStep ==
  \/ Complete \/ NewDay \/ GrantDirect
  \/ \E r \in Requests : RequestCapacity(r) \/ \E v \in Reviewers : ReadRequest(v, r)
  \/ \E v \in Reviewers : Approve(v) \/ Reject(v)

-----------------------------------------------------------------------------
(* Sums.                                                                   *)

\* A sum over finitely many rows is a number.
LEMMA UnitsFinite ==
  ASSUME NEW S, IsFiniteSet(S), NEW f, \A x \in S : f[x] \in Nat
  PROVE  IsFiniteSet(Units(f, S)) /\ Total(f, S) \in Nat
<1> DEFINE row == [x \in S |-> {x} \X (1 .. f[x])]
           rows == {{x} \X (1 .. f[x]) : x \in S}
<1>1. row \in Surjection(S, rows)
  BY DEF Surjection
<1>2. IsFiniteSet(rows)
  <2> HIDE DEF row, rows
  <2> QED
    BY <1>1, FS_Surjection
<1>3. ASSUME NEW R \in rows PROVE IsFiniteSet(R)
  <2>1. PICK x \in S : R = {x} \X (1 .. f[x])
    OBVIOUS
  <2>2. IsFiniteSet({x})
    BY FS_Singleton
  <2>3. IsFiniteSet(1 .. f[x])
    BY FS_Interval
  <2> QED
    BY <2>1, <2>2, <2>3, FS_Product
<1>4. IsFiniteSet(UNION rows)
  <2> HIDE DEF rows
  <2> QED
    BY <1>2, <1>3, FS_UNION
<1>5. IsFiniteSet(Units(f, S))
  BY <1>4 DEF Units
<1> QED
  BY <1>5, FS_CardinalityType DEF Total

LEMMA TotalNothing ==
  ASSUME NEW S, NEW f, \A x \in S : f[x] = 0
  PROVE  Total(f, S) = 0
<1>1. Units(f, S) = {}
  BY DEF Units
<1> QED
  BY <1>1, FS_EmptySet DEF Total

\* Fewer rows of smaller amounts do not add up to more.
LEMMA TotalMonotone ==
  ASSUME NEW S, IsFiniteSet(S), NEW T \in SUBSET S, NEW f, NEW g,
         \A x \in S : g[x] \in Nat,
         \A x \in T : f[x] \in Nat /\ f[x] <= g[x]
  PROVE  Total(f, T) <= Total(g, S)
<1>1. Units(f, T) \subseteq Units(g, S)
  <2> SUFFICES ASSUME NEW x \in T, NEW u \in {x} \X (1 .. f[x])
               PROVE  u \in Units(g, S)
    BY DEF Units
  <2>1. u \in {x} \X (1 .. g[x])
    OBVIOUS
  <2> QED
    BY <2>1 DEF Units
<1>2. IsFiniteSet(Units(g, S))
  BY UnitsFinite
<1> QED
  BY <1>1, <1>2, FS_Subset DEF Total

\* One row of a larger amount adds its difference at most.
LEMMA TotalRaised ==
  ASSUME NEW S, IsFiniteSet(S), NEW f, NEW g, NEW c \in S, NEW n \in Nat,
         \A x \in S : f[x] \in Nat /\ g[x] \in Nat,
         \A x \in S \ {c} : f[x] <= g[x],
         g[c] = 0, f[c] <= n
  PROVE  Total(f, S) <= Total(g, S) + n
<1> DEFINE more == {c} \X (1 .. n)
<1>1. Units(f, S) \subseteq Units(g, S) \cup more
  <2> SUFFICES ASSUME NEW x \in S, NEW u \in {x} \X (1 .. f[x])
               PROVE  u \in Units(g, S) \cup more
    BY DEF Units
  <2>1. CASE x = c
    BY <2>1
  <2>2. CASE x # c
    <3>1. u \in {x} \X (1 .. g[x])
      BY <2>2
    <3> QED
      BY <3>1 DEF Units
  <2> QED
    BY <2>1, <2>2
<1>2. IsFiniteSet(more) /\ Cardinality(more) = n
  <2>1. IsFiniteSet({c}) /\ Cardinality({c}) = 1
    BY FS_Singleton
  <2>2. IsFiniteSet(1 .. n) /\ Cardinality(1 .. n) = n
    BY FS_Interval
  <2>3. IsFiniteSet(more) /\ Cardinality(more) = Cardinality({c}) * Cardinality(1 .. n)
    BY <2>1, <2>2, FS_Product
  <2> QED
    BY <2>1, <2>2, <2>3
<1>3. IsFiniteSet(Units(g, S)) /\ Total(g, S) \in Nat
  BY UnitsFinite
<1> HIDE DEF more
<1>4. /\ IsFiniteSet(Units(g, S) \cup more)
      /\ Cardinality(Units(g, S) \cup more) <= Total(g, S) + n
  <2>1. IsFiniteSet(Units(g, S) \cap more) /\ Cardinality(Units(g, S) \cap more) \in Nat
    BY <1>2, FS_Intersection, FS_CardinalityType
  <2> QED
    BY <1>2, <1>3, <2>1, FS_Union DEF Total
<1>5. Cardinality(Units(f, S)) <= Cardinality(Units(g, S) \cup more)
  BY <1>1, <1>4, FS_Subset
<1>6. Cardinality(Units(f, S)) \in Nat /\ Cardinality(Units(g, S) \cup more) \in Nat
  BY UnitsFinite, <1>4, FS_CardinalityType DEF Total
<1> QED
  BY <1>3, <1>4, <1>5, <1>6 DEF Total

\* What two sums cover row by row they cover together.
LEMMA TotalCovered ==
  ASSUME NEW S, IsFiniteSet(S), NEW f, NEW g, NEW h,
         \A x \in S : f[x] \in Nat /\ g[x] \in Nat /\ h[x] \in Nat,
         \A x \in S : h[x] <= f[x] + g[x]
  PROVE  Total(h, S) <= Total(f, S) + Total(g, S)
<1> DEFINE shift == [u \in Units(g, S) |-> <<u[1], f[u[1]] + u[2]>>]
           shifted == {shift[u] : u \in Units(g, S)}
<1>1. shift \in Surjection(Units(g, S), shifted)
  BY DEF Surjection
<1>2. IsFiniteSet(Units(f, S)) /\ IsFiniteSet(Units(g, S))
  BY UnitsFinite
<1>3. IsFiniteSet(shifted) /\ Cardinality(shifted) <= Cardinality(Units(g, S))
  <2> HIDE DEF shift, shifted
  <2> QED
    BY <1>1, <1>2, FS_Surjection
<1>4. Units(h, S) \subseteq Units(f, S) \cup shifted
  <2> SUFFICES ASSUME NEW u \in Units(h, S) PROVE u \in Units(f, S) \cup shifted
    OBVIOUS
  <2> PICK x \in S : \E n \in 1 .. h[x] : u = <<x, n>>
    BY DEF Units
  <2> PICK n \in 1 .. h[x] : u = <<x, n>>
    OBVIOUS
  <2>1. CASE n <= f[x]
    <3>1. <<x, n>> \in {x} \X (1 .. f[x])
      BY <2>1
    <3> QED
      BY <3>1 DEF Units
  <2>2. CASE ~(n <= f[x])
    <3>1. n - f[x] \in 1 .. g[x]
      BY <2>2
    <3>2. <<x, n - f[x]>> \in {x} \X (1 .. g[x])
      BY <3>1
    <3>3. <<x, n - f[x]>> \in Units(g, S)
      BY <3>2 DEF Units
    <3>4. shift[<<x, n - f[x]>>] = <<x, n>>
      BY <3>3
    <3> HIDE DEF shift
    <3> QED
      BY <3>3, <3>4
  <2> QED
    BY <2>1, <2>2
<1> HIDE DEF shifted
<1>5. /\ IsFiniteSet(Units(f, S) \cup shifted)
      /\ Cardinality(Units(f, S) \cup shifted)
           = Total(f, S) + Cardinality(shifted) - Cardinality(Units(f, S) \cap shifted)
  BY <1>2, <1>3, FS_Union DEF Total
<1>6. Cardinality(Units(f, S) \cap shifted) \in Nat /\ Cardinality(shifted) \in Nat
  <2>1. IsFiniteSet(Units(f, S) \cap shifted)
    BY <1>3, FS_Intersection
  <2> QED
    BY <1>3, <2>1, FS_CardinalityType
<1>7. Cardinality(Units(h, S)) <= Cardinality(Units(f, S) \cup shifted)
  BY <1>4, <1>5, FS_Subset
<1>8. /\ Total(f, S) \in Nat /\ Total(g, S) \in Nat /\ Total(h, S) \in Nat
  BY UnitsFinite
<1> QED
  BY <1>3, <1>5, <1>6, <1>7, <1>8 DEF Total

\* One more unit in one row is one more in all.
LEMMA TotalPlusOne ==
  ASSUME NEW S, IsFiniteSet(S), NEW f, NEW g, NEW c \in S,
         \A x \in S : f[x] \in Nat,
         \A x \in S \ {c} : g[x] = f[x],
         g[c] = f[c] + 1
  PROVE  Total(g, S) = Total(f, S) + 1
<1>1. Units(g, S) = Units(f, S) \cup {<<c, f[c] + 1>>}
  <2>1. ASSUME NEW x \in S, NEW n \in 1 .. g[x]
        PROVE  <<x, n>> \in Units(f, S) \cup {<<c, f[c] + 1>>}
    <3>1. \/ x = c /\ n = f[c] + 1
          \/ <<x, n>> \in {x} \X (1 .. f[x])
      OBVIOUS
    <3> QED
      BY <3>1 DEF Units
  <2>2. ASSUME NEW x \in S, NEW n \in 1 .. f[x] PROVE <<x, n>> \in Units(g, S)
    <3>1. <<x, n>> \in {x} \X (1 .. g[x])
      OBVIOUS
    <3> QED
      BY <3>1 DEF Units
  <2>3. <<c, f[c] + 1>> \in Units(g, S)
    <3>1. <<c, f[c] + 1>> \in {c} \X (1 .. g[c])
      OBVIOUS
    <3> QED
      BY <3>1 DEF Units
  <2>4. \A u \in Units(g, S) : \E x \in S : \E n \in 1 .. g[x] : u = <<x, n>>
    BY DEF Units
  <2>5. \A u \in Units(f, S) : \E x \in S : \E n \in 1 .. f[x] : u = <<x, n>>
    BY DEF Units
  <2> QED
    BY <2>1, <2>2, <2>3, <2>4, <2>5
<1>2. <<c, f[c] + 1>> \notin Units(f, S)
  BY DEF Units
<1>3. IsFiniteSet(Units(f, S))
  BY UnitsFinite
<1> QED
  BY <1>1, <1>2, <1>3, FS_AddElement DEF Total

-----------------------------------------------------------------------------
(* Types, and the rows of each call.                                       *)

LEMMA NextSplit == Next => OtherStep \/ \E c \in Calls : CallStep(c)
  BY DEF Next, OtherStep, CallStep

\* The rows a call reads under the lock are amounts.
LEMMA RowTypes ==
  ASSUME TypeOK, NEW c \in Calls
  PROVE  PendingRows(c) \in [Calls -> Nat] /\ CommitRows(c) \in [Calls -> Nat]
  BY DEF TypeOK, PendingRows, CommitRows, Reservation

\* A call touches nothing of another one.
LEMMA OwnRows ==
  ASSUME TypeOK, NEW c \in Calls, CallStep(c)
  PROVE  \A x \in Calls \ {c} :
           /\ call'[x] = call[x] /\ reservation'[x] = reservation[x]
           /\ commits'[x] = commits[x] /\ assigned'[x] = assigned[x]
  BY DEF TypeOK, CallStep, Advance, Plan, Lock, ReadReservations, Reserve, Assign, RunFails,
         Settle, UpdateReservation, Cancel, Die, Goto, End, ledger

\* What a call is when it has ended.
LEMMA Ended ==
  ASSUME TypeOK, NEW c \in Calls, NEW step \in Steps, End(c, step)
  PROVE  /\ call' \in [Calls -> Call]
         /\ call'[c].at = step /\ call'[c].lost = call[c].lost
<1> DEFINE ended == [at |-> step, day |-> call[c].day, requested |-> 0, consumed |-> 0,
                     lost |-> call[c].lost, granted |-> 0, rows |-> Nothing]
<1>1. call \in [Calls -> Call] /\ call[c] \in Call
  BY DEF TypeOK
<1>2. ended \in Call
  BY <1>1 DEF Call, Nothing
<1>3. call' = [call EXCEPT ![c] = ended]
  <2>1. call' = [call EXCEPT ![c] = call'[c]]
    BY <1>1 DEF End
  <2>2. call'[c] = [call[c] EXCEPT !.at = step, !.requested = 0, !.consumed = 0,
                                   !.granted = 0, !.rows = Nothing]
    BY <1>1 DEF End
  <2>3. call'[c] = ended
    BY <1>1, <2>2 DEF Call
  <2> QED
    BY <2>1, <2>3
<1> QED
  BY <1>1, <1>2, <1>3

LEMMA TypesKept == TypeOK /\ [Next]_vars => TypeOK'
<1> SUFFICES ASSUME TypeOK, [Next]_vars PROVE TypeOK'
  OBVIOUS
<1> USE DEF TypeOK
<1>1. CASE OtherStep
  <2>1. CASE Complete
    BY <2>1 DEF Complete, ledger, capacity
  <2>2. CASE NewDay
    BY <2>2, LedgerAssumption DEF NewDay, ledger, capacity, Days
  <2>3. CASE GrantDirect
    BY <2>3 DEF GrantDirect, Grant, ledger
  <2>4. CASE \E r \in Requests : RequestCapacity(r)
    BY <2>4 DEF RequestCapacity, ledger
  <2>5. CASE \E r \in Requests, v \in Reviewers : ReadRequest(v, r)
    BY <2>5 DEF ReadRequest, Review, ledger
  <2>6. ASSUME NEW v \in Reviewers, Approve(v) PROVE TypeOK'
    <3>1. review[v] \in Review
      BY <2>6 DEF Approve
    <3> QED
      BY <2>6, <3>1 DEF Approve, Grant, Review, ledger
  <2>7. ASSUME NEW v \in Reviewers, Reject(v) PROVE TypeOK'
    <3>1. review[v] \in Review
      BY <2>7 DEF Reject
    <3> QED
      BY <2>7, <3>1 DEF Reject, Review, ledger
  <2> QED
    BY <1>1, <2>1, <2>2, <2>3, <2>4, <2>5, <2>6, <2>7 DEF OtherStep
<1>2. ASSUME NEW c \in Calls, CallStep(c) PROVE TypeOK'
  <2> DEFINE Fixed == UNCHANGED <<today, grants, direct, request, review>>
  <2>1. call[c] \in Call
    OBVIOUS
  <2>2. CASE Plan(c)
    <3> DEFINE needed == BufferTarget - active
               after == [call[c] EXCEPT !.at = IF needed > 0 THEN "lock" ELSE "done",
                                        !.day = today,
                                        !.requested = IF needed > 0 THEN needed ELSE 0]
    <3>1. (IF needed > 0 THEN needed ELSE 0) \in Nat
      BY LedgerAssumption
    <3>2. after \in Call
      <4> HIDE DEF needed
      <4> QED
        BY <2>1, <3>1 DEF Call, Steps
    <3>3. call' = [call EXCEPT ![c] = after]
      BY <2>2 DEF Plan
    <3> QED
      BY <2>2, <3>2, <3>3 DEF Plan, ledger, capacity
  <2>3. CASE Lock(c)
    BY <2>1, <2>3 DEF Lock, Call, Steps, capacity
  <2>4. CASE ReadReservations(c)
    BY <2>1, <2>4, RowTypes DEF ReadReservations, RowsRead, Call, Steps, ledger, capacity
  <2>5. CASE Reserve(c)
    <3>1. Nothing \in [Calls -> Nat]
      BY DEF Nothing
    <3>2. call' \in [Calls -> Call]
      <4>1. CASE Remaining(c) >= call[c].requested
        <5> DEFINE after == [call[c] EXCEPT !.at = "run", !.granted = 0, !.rows = Nothing]
        <5>1. after \in Call
          BY <2>1, <3>1 DEF Call, Steps
        <5>2. call' = [call EXCEPT ![c] = after]
          BY <2>5, <4>1 DEF Reserve
        <5> QED
          BY <5>1, <5>2
      <4>2. CASE ~(Remaining(c) >= call[c].requested)
        BY <2>5, <4>2, Ended DEF Reserve, Steps
      <4> QED
        BY <4>1, <4>2
    <3>3. reservation' \in [Calls -> Reservation]
      BY <2>1, <2>5 DEF Reserve, Reservation, Call
    <3> QED
      BY <2>5, <3>2, <3>3 DEF Reserve, capacity
  <2>6. CASE Assign(c)
    <3>1. PICK n \in 0 .. call[c].requested, lost \in BOOLEAN :
            /\ assigned' = [assigned EXCEPT ![c] = n]
            /\ active' = active + n
            /\ call' = [call EXCEPT ![c].at = IF lost THEN "cancel" ELSE "settle",
                                    ![c].consumed = IF lost THEN 0 ELSE n,
                                    ![c].lost = lost]
      BY <2>6 DEF Assign
    <3> DEFINE after == [call[c] EXCEPT !.at = IF lost THEN "cancel" ELSE "settle",
                                        !.consumed = IF lost THEN 0 ELSE n, !.lost = lost]
    <3>2. n \in Nat
      BY <2>1 DEF Call
    <3>3. after \in Call
      BY <2>1, <3>2 DEF Call, Steps
    <3>4. call' = [call EXCEPT ![c] = after]
      BY <3>1
    <3>5. call' \in [Calls -> Call]
      <4> HIDE DEF after
      <4> QED
        BY <3>3, <3>4
    <3>6. active' \in Nat /\ assigned' \in [Calls -> Nat]
      BY <3>1, <3>2
    <3> QED
      BY <2>6, <3>5, <3>6 DEF Assign, ledger, capacity
  <2>7. CASE RunFails(c)
    BY <2>1, <2>7 DEF RunFails, Goto, Call, Steps, ledger, capacity
  <2>8. CASE Settle(c)
    BY <2>1, <2>8 DEF Settle, Goto, Call, Steps, capacity
  <2>9. CASE UpdateReservation(c) \/ Cancel(c) \/ Die(c)
    <3>1. Nothing \in [Calls -> Nat]
      BY DEF Nothing
    <3>2. call' \in [Calls -> Call]
      BY <2>9, Ended DEF UpdateReservation, Cancel, Die, Steps
    <3>3. reservation' \in [Calls -> Reservation]
      BY <2>1, <2>9 DEF UpdateReservation, Cancel, Die, Reservation, Call
    <3>4. lock' \in Calls \cup {Free}
      BY <2>9 DEF UpdateReservation, Cancel, Die
    <3> QED
      BY <2>9, <3>2, <3>3, <3>4 DEF UpdateReservation, Cancel, Die, capacity
  <2> QED
    BY <1>2, <2>2, <2>3, <2>4, <2>5, <2>6, <2>7, <2>8, <2>9 DEF CallStep, Advance
<1>3. CASE UNCHANGED vars
  BY <1>3 DEF vars, ledger, capacity
<1> QED
  BY <1>1, <1>2, <1>3, NextSplit

LEMMA CallsKept == TypeOK /\ CallsInv /\ [Next]_vars => CallsInv'
<1> SUFFICES ASSUME TypeOK, CallsInv, [Next]_vars PROVE CallsInv'
  OBVIOUS
<1>1. CASE OtherStep \/ UNCHANGED vars
  <2>1. UNCHANGED <<call, reservation, commits, assigned>>
    BY <1>1 DEF OtherStep, Complete, NewDay, GrantDirect, RequestCapacity, ReadRequest, Approve,
       Reject, vars, ledger
  <2> QED
    BY <2>1 DEF CallsInv, CallInv, At
<1>2. ASSUME NEW c \in Calls, CallStep(c) PROVE CallsInv'
  <2>1. \A x \in Calls \ {c} : CallInv(x)'
    BY <1>2, OwnRows DEF CallsInv, CallInv, At
  <2>2. CallInv(c)'
    <3> USE DEF TypeOK, At, Goto
    <3>1. /\ call[c] \in Call /\ reservation[c] \in Reservation
          /\ commits[c] \in Nat /\ assigned[c] \in Nat
      OBVIOUS
    <3>2. CallInv(c)
      BY DEF CallsInv
    <3>3. CASE Plan(c)
      BY <3>1, <3>2, <3>3 DEF Plan, CallInv, Call, ledger, NoReservation
    <3>4. CASE Lock(c) \/ ReadReservations(c)
      <4>1. /\ call[c].at \in {"lock", "reservations"} /\ call'[c].at \in {"reservations", "commits"}
            /\ call'[c].lost = call[c].lost
            /\ UNCHANGED <<reservation, commits, assigned>>
        BY <3>1, <3>4 DEF Lock, ReadReservations, Call, ledger
      <4> QED
        BY <3>2, <4>1 DEF CallInv
    <3>5. CASE Reserve(c)
      <4>1. CASE Remaining(c) >= call[c].requested
        <5>1. /\ call'[c].at = "run" /\ call'[c].lost = call[c].lost
              /\ call'[c].requested = call[c].requested
              /\ reservation'[c] = [status |-> "pending", amount |-> call[c].requested]
          BY <3>1, <3>5, <4>1 DEF Reserve, Call
        <5> QED
          BY <3>2, <3>5, <5>1 DEF Reserve, CallInv
      <4>2. CASE ~(Remaining(c) >= call[c].requested)
        <5>1. /\ call'[c].at = "done" /\ call'[c].lost = call[c].lost
              /\ reservation'[c] = reservation[c]
          BY <3>5, <4>2, Ended DEF Reserve, Steps
        <5> QED
          BY <3>2, <3>5, <5>1 DEF Reserve, CallInv, NoReservation
      <4> QED
        BY <4>1, <4>2
    <3>6. CASE Assign(c)
      BY <3>1, <3>2, <3>6 DEF Assign, CallInv, Call, ledger
    <3>7. CASE RunFails(c)
      BY <3>1, <3>2, <3>7 DEF RunFails, CallInv, Call, ledger
    <3>8. CASE Settle(c)
      BY <3>1, <3>2, <3>8 DEF Settle, CallInv, Call
    <3>9. CASE UpdateReservation(c)
      BY <3>1, <3>2, <3>9 DEF UpdateReservation, End, CallInv, Call
    <3>10. CASE Cancel(c)
      BY <3>1, <3>2, <3>10 DEF Cancel, End, CallInv, Call, Reservation
    <3>11. CASE Die(c)
      <4>1. /\ call'[c].at = "dead" /\ call'[c].lost = call[c].lost
            /\ UNCHANGED <<reservation, commits, assigned>>
        BY <3>1, <3>11 DEF Die, End, Call
      <4>2. call[c].at \in Steps \ {"start", "done", "dead"}
        BY <3>1, <3>11 DEF Die, Call
      <4> QED
        BY <3>1, <3>2, <4>1, <4>2 DEF CallInv, Steps, Reservation, Call, NoReservation
    <3> QED
      BY <1>2, <3>3, <3>4, <3>5, <3>6, <3>7, <3>8, <3>9, <3>10, <3>11 DEF CallStep, Advance
  <2> QED
    BY <2>1, <2>2 DEF CallsInv
<1> QED
  BY <1>1, <1>2, NextSplit

-----------------------------------------------------------------------------
(* The limit.                                                              *)

LEMMA CostType ==
  ASSUME TypeOK, NEW c \in Calls
  PROVE  Cost(c) \in Nat
  BY DEF TypeOK, Cost, Call

\* A step of a call that reserves nothing makes it cost no more, and takes no
\* commit back; where it changes the day of the call, the call costs nothing.
LEMMA CostFalls ==
  ASSUME TypeOK, CallsInv, NEW c \in Calls, CallStep(c), ~Reserves(c)
  PROVE  /\ Cost(c)' <= Cost(c)
         /\ commits[c] <= commits'[c]
         /\ call'[c].day = call[c].day \/ Cost(c)' = 0
<1> USE DEF TypeOK, At, Goto
<1>1. /\ call[c] \in Call /\ reservation[c] \in Reservation
      /\ commits[c] \in Nat /\ assigned[c] \in Nat
  OBVIOUS
<1>2. CallInv(c)
  BY DEF CallsInv
<1>3. CASE Plan(c)
  <2>1. call'[c].at # "run" /\ call'[c].lost = call[c].lost
    BY <1>1, <1>3 DEF Plan, Call
  <2> QED
    BY <1>1, <1>2, <1>3, <2>1 DEF Plan, CallInv, Cost, ledger
<1>4. CASE Lock(c) \/ ReadReservations(c)
  <2>1. /\ call[c].at \in {"lock", "reservations"} /\ call'[c].at \in {"reservations", "commits"}
        /\ call'[c].lost = call[c].lost /\ call'[c].day = call[c].day
        /\ UNCHANGED <<commits, assigned>>
    BY <1>1, <1>4 DEF Lock, ReadReservations, Call, ledger
  <2> QED
    BY <1>1, <2>1 DEF Cost
<1>5. CASE Reserve(c)
  <2>1. /\ call[c].at = "commits" /\ call'[c].at = "done"
        /\ call'[c].lost = call[c].lost /\ call'[c].day = call[c].day
        /\ UNCHANGED <<commits, assigned>>
    BY <1>1, <1>5 DEF Reserve, Reserves, End, Call
  <2> QED
    BY <1>1, <2>1 DEF Cost
<1>6. CASE Assign(c)
  <2>1. PICK n \in 0 .. call[c].requested, lost \in BOOLEAN :
          /\ assigned' = [assigned EXCEPT ![c] = n]
          /\ call' = [call EXCEPT ![c].at = IF lost THEN "cancel" ELSE "settle",
                                  ![c].consumed = IF lost THEN 0 ELSE n,
                                  ![c].lost = lost]
    BY <1>6 DEF Assign
  <2>2. /\ call'[c].at # "run" /\ call'[c].day = call[c].day
        /\ assigned'[c] <= call[c].requested /\ assigned'[c] \in Nat
        /\ UNCHANGED commits
    BY <1>1, <1>6, <2>1 DEF Assign, Call, ledger
  <2>3. Cost(c) = call[c].requested
    BY <1>2, <1>6 DEF Assign, Cost, CallInv
  <2> QED
    BY <1>1, <2>2, <2>3 DEF Cost, Call
<1>7. CASE RunFails(c)
  <2>1. /\ call'[c].at = "cancel"
        /\ call'[c].lost = call[c].lost /\ call'[c].day = call[c].day
        /\ UNCHANGED <<commits, assigned>>
    BY <1>1, <1>7 DEF RunFails, Call, ledger
  <2> QED
    BY <1>1, <1>2, <1>7, <2>1 DEF Cost, CallInv, RunFails, Call
<1>8. CASE Settle(c)
  <2>1. /\ call[c].at = "settle" /\ call'[c].at \in {"cancel", "update"}
        /\ call'[c].lost = call[c].lost /\ call'[c].day = call[c].day
        /\ UNCHANGED assigned
    BY <1>1, <1>8 DEF Settle, Call
  <2>2. commits[c] = 0 /\ commits'[c] = call[c].consumed
    BY <1>1, <1>2, <1>8 DEF Settle, CallInv
  <2> QED
    BY <1>1, <2>1, <2>2 DEF Cost, Call
<1>9. CASE UpdateReservation(c) \/ Cancel(c) \/ Die(c)
  <2>1. /\ call'[c].at \in {"done", "dead"}
        /\ call'[c].lost = call[c].lost /\ call'[c].day = call[c].day
        /\ UNCHANGED <<commits, assigned>>
    BY <1>1, <1>9 DEF UpdateReservation, Cancel, Die, End, Call
  <2>2. assigned[c] <= Cost(c) \/ call[c].lost
    BY <1>1, <1>2 DEF Cost, CallInv, Call
  <2>3. Cost(c) \in Nat
    BY CostType
  <2> QED
    BY <1>1, <2>1, <2>2, <2>3 DEF Cost
<1> QED
  BY <1>3, <1>4, <1>5, <1>6, <1>7, <1>8, <1>9 DEF CallStep, Advance

\* What a reservation that is granted does.
LEMMA ReservesCost ==
  ASSUME TypeOK, CallsInv, NEW c \in Calls, Reserves(c)
  PROVE  /\ Cost(c) = 0 /\ Cost(c)' = call[c].requested
         /\ call'[c].day = call[c].day /\ call'[c].at = "run"
         /\ UNCHANGED <<commits, assigned, grants>> /\ lock' = Free
<1>1. call[c] \in Call /\ assigned[c] \in Nat /\ CallInv(c) /\ At(c, "commits")
  BY DEF TypeOK, CallsInv, Reserves, Reserve
<1>2. /\ call'[c].at = "run" /\ call'[c].lost = call[c].lost
      /\ call'[c].day = call[c].day /\ call'[c].requested = call[c].requested
  BY <1>1 DEF Reserves, Reserve, TypeOK, Call
<1> QED
  BY <1>1, <1>2 DEF Reserves, Reserve, Cost, CallInv, At, capacity

\* No other step takes a grant back.
LEMMA GrantsGrow ==
  ASSUME TypeOK, [Next]_vars, NEW d \in Days
  PROVE  grants[d] <= grants'[d]
<1>1. grants \in [Days -> Nat]
  BY DEF TypeOK
<1>2. CASE OtherStep
  <2>1. \/ UNCHANGED grants
        \/ \E x \in Days : Grant(x)
    <3>1. \A v \in Reviewers : review[v] # NoReview => review[v].day \in Days
      BY DEF TypeOK, Review
    <3> QED
      BY <1>2, <3>1 DEF OtherStep, Complete, NewDay, GrantDirect, RequestCapacity, ReadRequest,
         Approve, Reject, capacity, TypeOK
  <2> QED
    BY <1>1, <2>1 DEF Grant
<1>3. ASSUME NEW c \in Calls, CallStep(c) PROVE UNCHANGED grants
  BY <1>3 DEF CallStep, Advance, Plan, Lock, ReadReservations, Reserve, Assign, RunFails,
     Settle, UpdateReservation, Cancel, Die, capacity
<1>4. CASE UNCHANGED vars
  BY <1>1, <1>4 DEF vars, capacity
<1> QED
  BY <1>1, <1>2, <1>3, <1>4, NextSplit

\* The calls see nothing of the other steps.
LEMMA OthersKeepCalls ==
  ASSUME OtherStep \/ UNCHANGED vars
  PROVE  UNCHANGED <<call, lock, reservation, commits, assigned>>
  BY DEF OtherStep, Complete, NewDay, GrantDirect, RequestCapacity, ReadRequest, Approve,
     Reject, vars, ledger

\* The holder of the lock is alone, and what it has read stays good.
LEMMA HoldersKept == TypeOK /\ CallsInv /\ HoldersInv /\ [Next]_vars => HoldersInv'
<1> SUFFICES ASSUME TypeOK, CallsInv, HoldersInv, [Next]_vars, NEW h \in Calls
             PROVE  HolderInv(h)'
  BY DEF HoldersInv
<1> USE DEF At
<1>1. /\ \A c \in Calls : /\ call[c] \in Call /\ reservation[c] \in Reservation
                          /\ commits[c] \in Nat /\ assigned[c] \in Nat
      /\ call \in [Calls -> Call]
      /\ \A d \in Days : grants[d] \in Nat
      /\ \A c \in Calls : CallInv(c)
      /\ HolderInv(h)
  BY DEF TypeOK, CallsInv, HoldersInv
<1>2. \A d \in Days : grants'[d] \in Nat
  BY TypesKept DEF TypeOK
<1>3. CASE OtherStep \/ UNCHANGED vars
  <2>1. UNCHANGED <<call, lock, commits, assigned>>
    BY <1>3, OthersKeepCalls
  <2>2. grants[call[h].day] <= grants'[call[h].day]
    BY <1>1, GrantsGrow DEF Call
  <2>3. call[h].granted \in Nat /\ call[h].day \in Days
    BY <1>1 DEF Call
  <2> QED
    BY <1>1, <1>2, <2>1, <2>2, <2>3 DEF HolderInv, SameDay, Cost
<1>4. ASSUME NEW c \in Calls, CallStep(c), c # h PROVE HolderInv(h)'
  <2> SUFFICES ASSUME call'[h].at \in {"reservations", "commits"} PROVE HolderInv(h)'
    BY DEF HolderInv
  <2>1. call'[h] = call[h]
    BY <1>4, OwnRows
  <2>2. lock = h /\ call[h].granted <= grants[call[h].day]
    BY <1>1, <2>1 DEF HolderInv
  <2>3. lock' = lock /\ ~Reserves(c)
    <3>1. call[c].at \notin {"reservations", "commits"}
      BY <1>4, <2>2 DEF HoldersInv, HolderInv
    <3> QED
      BY <1>4, <2>2, <3>1, LedgerAssumption DEF CallStep, Advance, Plan, Lock, ReadReservations,
         Reserve, Reserves, Assign, RunFails, Settle, UpdateReservation, Cancel, Die, ledger
  <2>4. UNCHANGED grants
    BY <1>4 DEF CallStep, Advance, Plan, Lock, ReadReservations, Reserve, Assign, RunFails,
       Settle, UpdateReservation, Cancel, Die, capacity
  <2>5. ASSUME call'[h].at = "commits", NEW x \in SameDay(h)'
        PROVE  Cost(x)' <= call'[h].rows[x] + commits'[x]
    <3>1. \A y \in SameDay(h) : Cost(y) <= call[h].rows[y] + commits[y]
      BY <1>1, <2>1, <2>5 DEF HolderInv
    <3>2. x \in Calls /\ call'[x].day = call[h].day
      BY <2>1 DEF SameDay
    <3>3. call[h].rows[x] \in Nat /\ call'[h].rows = call[h].rows
      BY <1>1, <2>1, <3>2 DEF Call
    <3>4. CASE x # c
      <4>1. call'[x] = call[x] /\ commits'[x] = commits[x] /\ assigned'[x] = assigned[x]
        BY <1>4, <3>2, <3>4, OwnRows
      <4>2. Cost(x)' = Cost(x) /\ x \in SameDay(h)
        BY <3>2, <4>1 DEF Cost, SameDay
      <4> QED
        BY <3>1, <3>3, <4>1, <4>2
    <3>5. CASE x = c
      <4>1. /\ Cost(x)' <= Cost(x) /\ commits[x] <= commits'[x]
            /\ call'[x].day = call[x].day \/ Cost(x)' = 0
        BY <1>4, <2>3, <3>5, CostFalls
      <4>2. Cost(x) \in Nat /\ Cost(x)' \in Nat /\ commits[x] \in Nat /\ commits'[x] \in Nat
        <5>1. TypeOK'
          BY TypesKept
        <5>2. Cost(x)' \in Nat
          BY <3>2, <5>1 DEF Cost, TypeOK, Call
        <5> QED
          BY <1>1, <3>2, <5>1, <5>2, CostType DEF TypeOK
      <4>3. CASE Cost(x)' = 0
        BY <3>3, <4>2, <4>3
      <4>4. CASE call'[x].day = call[x].day
        <5>1. x \in SameDay(h)
          BY <3>2, <4>4 DEF SameDay
        <5> QED
          BY <3>1, <3>3, <4>1, <4>2, <5>1
      <4> QED
        BY <4>1, <4>3, <4>4
    <3> QED
      BY <3>4, <3>5
  <2> QED
    BY <2>1, <2>2, <2>3, <2>4, <2>5 DEF HolderInv
<1>5. ASSUME CallStep(h) PROVE HolderInv(h)'
  <2>1. CASE Lock(h)
    <3>1. call'[h].at = "reservations" /\ call'[h].granted = grants[call[h].day]
      BY <1>1, <2>1 DEF Lock, Call
    <3>2. call'[h].day = call[h].day /\ call[h].day \in Days
      BY <1>1, <2>1 DEF Lock, Call
    <3> QED
      BY <1>1, <2>1, <3>1, <3>2 DEF Lock, HolderInv, capacity
  <2>2. CASE ReadReservations(h)
    <3>1. /\ call[h].at = "reservations" /\ call'[h].at = "commits"
          /\ call'[h].granted = call[h].granted /\ call'[h].day = call[h].day
          /\ call'[h].lost = call[h].lost /\ call'[h].requested = call[h].requested
          /\ call'[h].rows = PendingRows(h)
      BY <1>1, <2>2 DEF ReadReservations, RowsRead, Call
    <3>2. UNCHANGED <<lock, reservation, commits, assigned, grants>>
      BY <2>2 DEF ReadReservations, ledger, capacity
    <3>3. \A x \in Calls \ {h} : call'[x] = call[x]
      BY <1>1, <2>2 DEF ReadReservations
    <3>4. ASSUME NEW x \in SameDay(h)' PROVE Cost(x)' <= call'[h].rows[x] + commits'[x]
      <4>1. x \in SameDay(h) /\ x \in Calls
        BY <3>1, <3>3 DEF SameDay
      <4>2. Cost(x)' = Cost(x)
        BY <3>1, <3>2, <3>3, <4>1 DEF Cost
      <4>3. call'[h].rows[x] = IF reservation[x].status = "pending" THEN reservation[x].amount ELSE 0
        BY <3>1, <4>1 DEF PendingRows
      <4>4. Cost(x) <= commits[x] + (IF reservation[x].status = "pending"
                                      THEN reservation[x].amount ELSE 0)
        <5>1. CallInv(x) /\ call[x] \in Call /\ reservation[x] \in Reservation
              /\ commits[x] \in Nat /\ assigned[x] \in Nat
          BY <1>1, <4>1
        <5> QED
          BY <5>1 DEF CallInv, Cost, Call, Steps, Reservation, NoReservation
      <4> QED
        BY <1>1, <3>2, <4>1, <4>2, <4>3, <4>4 DEF Reservation
    <3> QED
      BY <1>1, <3>1, <3>2, <3>4 DEF HolderInv
  <2>3. CASE ~(Lock(h) \/ ReadReservations(h))
    <3>1. call'[h].at \notin {"reservations", "commits"}
      <4>1. CASE Plan(h) \/ Reserve(h)
        BY <1>1, <4>1 DEF Plan, Reserve, End, Call
      <4>2. CASE Assign(h)
        BY <1>1, <4>2 DEF Assign, Call
      <4>3. CASE RunFails(h) \/ Settle(h)
        BY <1>1, <4>3 DEF RunFails, Settle, Goto, Call
      <4>4. CASE UpdateReservation(h) \/ Cancel(h) \/ Die(h)
        BY <1>1, <4>4 DEF UpdateReservation, Cancel, Die, End, Call
      <4> QED
        BY <1>5, <2>3, <4>1, <4>2, <4>3, <4>4 DEF CallStep, Advance
    <3> QED
      BY <3>1 DEF HolderInv
  <2> QED
    BY <2>1, <2>2, <2>3
<1> QED
  BY <1>3, <1>4, <1>5, NextSplit

\* The amounts that make up the cost of a day.
LEMMA DayCostType ==
  ASSUME TypeOK, NEW d \in Days
  PROVE  \A c \in Calls : DayCost(d)[c] \in Nat
  BY CostType DEF DayCost

LEMMA LimitKept ==
  TypeOK /\ CallsInv /\ HoldersInv /\ LimitInv /\ [Next]_vars => LimitInv'
<1> SUFFICES ASSUME TypeOK, CallsInv, HoldersInv, LimitInv, [Next]_vars, NEW d \in Days
             PROVE  (Total(DayCost(d), Calls) <= DailyLimit + grants[d])'
  BY DEF LimitInv
<1> DEFINE old == DayCost(d)
           new == DayCost(d)'
<1>1. /\ \A c \in Calls : call[c] \in Call
      /\ grants[d] \in Nat /\ DailyLimit \in Nat
      /\ IsFiniteSet(Calls)
  BY LedgerAssumption DEF TypeOK
<1>2. TypeOK'
  BY TypesKept
<1>3. \A c \in Calls : old[c] \in Nat /\ new[c] \in Nat
  <2>1. \A c \in Calls : old[c] \in Nat
    BY DayCostType
  <2>2. \A c \in Calls : new[c] \in Nat
    BY <1>2 DEF DayCost, Cost, TypeOK, Call
  <2> QED
    BY <2>1, <2>2
<1>4. grants[d] <= grants'[d] /\ grants'[d] \in Nat
  BY <1>2, GrantsGrow DEF TypeOK
<1>5. Total(old, Calls) <= DailyLimit + grants[d]
  BY DEF LimitInv
<1>6. (\A x \in Calls : new[x] = (IF call'[x].day = d THEN Cost(x)' ELSE 0))
      /\ (\A x \in Calls : old[x] = (IF call[x].day = d THEN Cost(x) ELSE 0))
  BY DEF DayCost
<1>7. ASSUME \A x \in Calls : new[x] <= old[x]
      PROVE  Total(new, Calls) <= DailyLimit + grants'[d]
  <2> HIDE DEF old, new
  <2>1. Total(new, Calls) <= Total(old, Calls)
    BY <1>1, <1>3, <1>7, TotalMonotone
  <2>2. Total(new, Calls) \in Nat /\ Total(old, Calls) \in Nat
    BY <1>1, <1>3, UnitsFinite
  <2> QED
    BY <1>1, <1>4, <1>5, <2>1, <2>2
<1>8. ASSUME OtherStep \/ UNCHANGED vars
      PROVE  Total(new, Calls) <= DailyLimit + grants'[d]
  <2>1. \A x \in Calls : new[x] = old[x]
    BY <1>8, OthersKeepCalls DEF DayCost, Cost, At
  <2>2. \A x \in Calls : new[x] <= old[x]
    BY <1>3, <2>1
  <2> QED
    BY <1>7, <2>2
<1>9. ASSUME NEW c \in Calls, CallStep(c), ~Reserves(c)
      PROVE  Total(new, Calls) <= DailyLimit + grants'[d]
  <2>1. ASSUME NEW x \in Calls \ {c} PROVE new[x] <= old[x]
    <3>1. call'[x] = call[x] /\ assigned'[x] = assigned[x]
      BY <1>9, OwnRows
    <3>2. new[x] = old[x]
      BY <1>6, <3>1 DEF Cost, At
    <3> QED
      BY <1>3, <3>2
  <2>2. new[c] <= old[c]
    <3>1. Cost(c)' <= Cost(c) /\ (call'[c].day = call[c].day \/ Cost(c)' = 0) /\ Cost(c) \in Nat
      BY <1>9, CostFalls, CostType
    <3> HIDE DEF old, new
    <3> QED
      BY <1>3, <1>6, <3>1
  <2> QED
    BY <1>7, <2>1, <2>2
<1>10. ASSUME NEW c \in Calls, Reserves(c), call[c].day # d
       PROVE  Total(new, Calls) <= DailyLimit + grants'[d]
  <2>1. \A x \in Calls \ {c} : call'[x] = call[x] /\ assigned'[x] = assigned[x]
    BY <1>10, OwnRows DEF Reserves, CallStep, Advance
  <2>2. call'[c].day = call[c].day
    BY <1>10, ReservesCost
  <2>3. \A x \in Calls : new[x] = old[x]
    BY <1>6, <1>10, <2>1, <2>2 DEF Cost, At
  <2>4. \A x \in Calls : new[x] <= old[x]
    BY <1>3, <2>3
  <2> QED
    BY <1>7, <2>4
<1>11. ASSUME NEW c \in Calls, Reserves(c), call[c].day = d
       PROVE  Total(new, Calls) <= DailyLimit + grants'[d]
  <2> DEFINE read == call[c].rows
             now == CommitRows(c)
             n == call[c].requested
  <2>1. /\ Cost(c) = 0 /\ Cost(c)' = n /\ call'[c].day = d /\ grants' = grants
        /\ n \in Nat /\ call[c].granted \in Nat
    BY <1>1, <1>11, ReservesCost DEF Call
  <2>2. \A x \in Calls \ {c} : call'[x] = call[x] /\ assigned'[x] = assigned[x]
    BY <1>11, OwnRows DEF Reserves, CallStep, Advance
  <2>3. \A x \in Calls \ {c} : new[x] = old[x]
    BY <1>6, <2>2 DEF Cost, At
  <2>4. old[c] = 0 /\ new[c] = n
    BY <1>6, <1>11, <2>1
  <2>5. \A x \in Calls : read[x] \in Nat /\ now[x] \in Nat
    BY <1>1, RowTypes DEF Call
  <2>6. HolderInv(c) /\ At(c, "commits")
    BY <1>11 DEF HoldersInv, Reserves, Reserve
  <2>7. \A x \in Calls : old[x] <= read[x] + now[x]
    <3> SUFFICES ASSUME NEW x \in Calls PROVE old[x] <= read[x] + now[x]
      OBVIOUS
    <3>1. CASE call[x].day = d
      <4>1. x \in SameDay(c)
        BY <1>11, <3>1 DEF SameDay
      <4> QED
        BY <1>6, <2>6, <3>1, <4>1 DEF HolderInv, CommitRows
    <3>2. CASE call[x].day # d
      <4> HIDE DEF old, read, now
      <4> QED
        BY <1>6, <2>5, <3>2
    <3> QED
      BY <3>1, <3>2
  <2>8. n <= DailyLimit + call[c].granted - Total(read, Calls) - Total(now, Calls)
    <3>1. Remaining(c) >= n
      BY <1>11 DEF Reserves
    <3>2. Remaining(c) = DailyLimit + call[c].granted - Total(read, Calls) - Total(now, Calls)
      BY DEF Remaining, RowsRead
    <3>3. Total(read, Calls) \in Nat /\ Total(now, Calls) \in Nat
      <4> HIDE DEF read, now
      <4> QED
        BY <1>1, <2>5, UnitsFinite
    <3> HIDE DEF read, now, n
    <3> QED
      BY <1>1, <2>1, <3>1, <3>2, <3>3
  <2>9. call[c].granted <= grants[d]
    BY <1>11, <2>6 DEF HolderInv
  <2> HIDE DEF old, new, read, now, n
  <2>10. Total(new, Calls) <= Total(old, Calls) + n
    <3>1. \A x \in Calls \ {c} : new[x] <= old[x]
      BY <1>3, <2>3
    <3>2. new[c] <= n
      BY <2>1, <2>4
    <3> QED
      BY <1>1, <1>3, <2>1, <2>4, <3>1, <3>2, TotalRaised
  <2>11. Total(old, Calls) <= Total(read, Calls) + Total(now, Calls)
    BY <1>1, <1>3, <2>5, <2>7, TotalCovered
  <2>12. /\ Total(new, Calls) \in Nat /\ Total(old, Calls) \in Nat
         /\ Total(read, Calls) \in Nat /\ Total(now, Calls) \in Nat
    BY <1>1, <1>3, <2>5, UnitsFinite
  <2> QED
    BY <1>1, <2>1, <2>8, <2>9, <2>10, <2>11, <2>12
<1>12. Total(new, Calls) <= DailyLimit + grants'[d]
  <2>1. ASSUME NEW c \in Calls, Reserves(c) PROVE CallStep(c)
    BY <2>1 DEF Reserves, CallStep, Advance
  <2> HIDE DEF old, new
  <2> QED
    BY <1>8, <1>9, <1>10, <1>11, NextSplit
<1> QED
  BY <1>12

\* A grant follows every approval, in the same step.
LEMMA GrantsKept ==
  TypeOK /\ GrantsFollowApprovals /\ [Next]_vars => GrantsFollowApprovals'
<1> DEFINE approved == {r \in Requests : request[r] = "approved"}
<1> SUFFICES ASSUME TypeOK, GrantsFollowApprovals, [Next]_vars
             PROVE  Total(grants', Days) = direct' + Cardinality(approved')
  BY DEF GrantsFollowApprovals
<1>1. /\ Total(grants, Days) = direct + Cardinality(approved)
      /\ grants \in [Days -> Nat] /\ direct \in Nat
      /\ request \in [Requests -> {"none", "pending", "approved", "rejected"}]
  BY DEF GrantsFollowApprovals, TypeOK
<1>2. IsFiniteSet(Days)
  BY LedgerAssumption, FS_Interval DEF Days
<1>3. IsFiniteSet(approved) /\ Cardinality(approved) \in Nat
  <2>1. approved \in SUBSET Requests
    OBVIOUS
  <2> HIDE DEF approved
  <2> QED
    BY <2>1, LedgerAssumption, FS_Subset, FS_CardinalityType
<1>4. ASSUME NEW d \in Days, Grant(d) PROVE Total(grants', Days) = Total(grants, Days) + 1
  <2>1. \A x \in Days \ {d} : grants'[x] = grants[x]
    BY <1>1, <1>4 DEF Grant
  <2>2. grants'[d] = grants[d] + 1
    BY <1>1, <1>4 DEF Grant
  <2> QED
    BY <1>1, <1>2, <2>1, <2>2, TotalPlusOne
<1>5. ASSUME UNCHANGED <<grants, direct>>, approved' = approved
      PROVE  Total(grants', Days) = direct' + Cardinality(approved')
  BY <1>1, <1>5
<1>6. ASSUME OtherStep PROVE Total(grants', Days) = direct' + Cardinality(approved')
  <2>1. CASE Complete \/ NewDay \/ \E r \in Requests, v \in Reviewers : ReadRequest(v, r)
    BY <1>5, <2>1 DEF Complete, NewDay, ReadRequest, capacity
  <2>2. CASE GrantDirect
    <3>1. today \in Days /\ Grant(today) /\ direct' = direct + 1 /\ approved' = approved
      BY <2>2 DEF GrantDirect, TypeOK
    <3> HIDE DEF approved
    <3> QED
      BY <1>1, <1>3, <1>4, <3>1
  <2>3. ASSUME NEW r \in Requests, RequestCapacity(r)
        PROVE  Total(grants', Days) = direct' + Cardinality(approved')
    <3>1. approved' = approved
      BY <1>1, <2>3 DEF RequestCapacity
    <3> QED
      BY <1>5, <2>3, <3>1 DEF RequestCapacity
  <2>4. ASSUME NEW v \in Reviewers, Approve(v)
        PROVE  Total(grants', Days) = direct' + Cardinality(approved')
    <3>1. review[v].of \in Requests /\ review[v].day \in Days
      BY <2>4 DEF Approve, TypeOK, Review
    <3>2. CASE request[review[v].of] = "pending"
      <4>1. Grant(review[v].day) /\ direct' = direct
        BY <2>4, <3>2 DEF Approve
      <4>2. request' = [request EXCEPT ![review[v].of] = "approved"]
        BY <2>4, <3>2 DEF Approve
      <4>3. approved' = approved \cup {review[v].of} /\ review[v].of \notin approved
        BY <1>1, <3>1, <3>2, <4>2
      <4> HIDE DEF approved
      <4>4. Cardinality(approved') = Cardinality(approved) + 1
        BY <1>3, <4>3, FS_AddElement
      <4> QED
        BY <1>1, <1>3, <1>4, <3>1, <4>1, <4>4
    <3>3. CASE request[review[v].of] # "pending"
      BY <1>5, <2>4, <3>3 DEF Approve
    <3> QED
      BY <3>2, <3>3
  <2>5. ASSUME NEW v \in Reviewers, Reject(v)
        PROVE  Total(grants', Days) = direct' + Cardinality(approved')
    <3>1. \A r \in Requests : request'[r] = "approved" <=> request[r] = "approved"
      BY <1>1, <2>5 DEF Reject
    <3>2. approved' = approved
      BY <3>1
    <3> QED
      BY <1>5, <2>5, <3>2 DEF Reject
  <2> QED
    BY <1>6, <2>1, <2>2, <2>3, <2>4, <2>5 DEF OtherStep
<1>7. ASSUME NEW c \in Calls, CallStep(c) PROVE UNCHANGED <<grants, direct, request>>
  BY <1>7 DEF CallStep, Advance, Plan, Lock, ReadReservations, Reserve, Assign, RunFails,
     Settle, UpdateReservation, Cancel, Die, capacity
<1>8. CASE UNCHANGED vars
  BY <1>5, <1>8 DEF vars, capacity
<1> QED
  BY <1>5, <1>6, <1>7, <1>8, NextSplit

LEMMA Initially == Init => TypeOK /\ CallsInv
  BY LedgerAssumption DEF Init, TypeOK, CallsInv, CallInv, At, Call, Steps, Days, Reservation, NoReservation,
         Nothing

LEMMA InitiallyWithin == Init => HoldersInv /\ LimitInv /\ GrantsFollowApprovals
<1> SUFFICES ASSUME Init PROVE HoldersInv /\ LimitInv /\ GrantsFollowApprovals
  OBVIOUS
<1>1. HoldersInv
  BY DEF Init, HoldersInv, HolderInv, At
<1>2. LimitInv
  <2> SUFFICES ASSUME NEW d \in Days
               PROVE  Total(DayCost(d), Calls) <= DailyLimit + grants[d]
    BY DEF LimitInv
  <2>1. \A c \in Calls : DayCost(d)[c] = 0
    BY DEF Init, DayCost, Cost, At, Nothing
  <2> QED
    BY <2>1, TotalNothing, LedgerAssumption DEF Init
<1>3. GrantsFollowApprovals
  <2>1. \A d \in Days : grants[d] = 0
    BY DEF Init
  <2>2. {r \in Requests : request[r] = "approved"} = {}
    BY DEF Init
  <2>3. Total(grants, Days) = 0
    BY <2>1, TotalNothing
  <2>4. Cardinality({r \in Requests : request[r] = "approved"}) = 0
    BY <2>2, FS_EmptySet
  <2>5. direct = 0
    BY DEF Init
  <2> QED
    BY <2>3, <2>4, <2>5 DEF GrantsFollowApprovals
<1> QED
  BY <1>1, <1>2, <1>3

-----------------------------------------------------------------------------
(* The rows of the ledger and the state of its calls keep their types.         *)
THEOREM TypeCorrect == Spec => []TypeOK
  BY Initially, TypesKept, PTL DEF Spec

\* The rows each call has written are those of the step it has reached, and
\* what the calls of a day may hand out is within its limit.
THEOREM Inductive ==
  Spec => [](TypeOK /\ CallsInv /\ HoldersInv /\ LimitInv /\ GrantsFollowApprovals)
  BY Initially, InitiallyWithin, TypesKept, CallsKept, HoldersKept, LimitKept, GrantsKept, PTL
  DEF Spec

(* The contacts handed out on a day stay within the policy and the grants of   *)
(* that day, however many refills race: whoever reserves has read, under the   *)
(* lock, amounts that cover the cost of all others.                            *)
THEOREM LimitHolds == Spec => []WithinLimit
<1>1. TypeOK /\ CallsInv /\ LimitInv => WithinLimit
  <2> SUFFICES ASSUME TypeOK, CallsInv, LimitInv, NEW d \in Days
               PROVE  Total(assigned, {c \in Calls : call[c].day = d /\ ~call[c].lost})
                        <= DailyLimit + grants[d]
    BY DEF WithinLimit
  <2> DEFINE counted == {c \in Calls : call[c].day = d /\ ~call[c].lost}
             cost == DayCost(d)
  <2>1. \A c \in Calls : cost[c] \in Nat
    BY DayCostType
  <2>2. ASSUME NEW c \in counted PROVE assigned[c] \in Nat /\ assigned[c] <= cost[c]
    <3>1. CallInv(c) /\ call[c] \in Call /\ assigned[c] \in Nat
      BY DEF TypeOK, CallsInv
    <3>2. cost[c] = Cost(c)
      BY DEF DayCost
    <3>3. assigned[c] <= Cost(c)
      BY <3>1 DEF CallInv, Cost, At, Call
    <3> QED
      BY <3>1, <3>2, <3>3
  <2>3. counted \in SUBSET Calls /\ IsFiniteSet(Calls)
    BY LedgerAssumption
  <2>4. Total(cost, Calls) <= DailyLimit + grants[d]
    BY DEF LimitInv
  <2>5. DailyLimit + grants[d] \in Nat
    BY LedgerAssumption DEF TypeOK
  <2> HIDE DEF counted, cost
  <2>6. Total(assigned, counted) <= Total(cost, Calls)
    BY <2>1, <2>2, <2>3, TotalMonotone
  <2>7. Total(cost, Calls) \in Nat
    BY <2>1, <2>3, UnitsFinite
  <2>8. IsFiniteSet(counted)
    BY <2>3, FS_Subset
  <2>9. Total(assigned, counted) \in Nat
    BY <2>2, <2>8, UnitsFinite
  <2>10. Total(assigned, counted) <= DailyLimit + grants[d]
    BY <2>4, <2>5, <2>6, <2>7, <2>9
  <2> QED
    BY <2>10 DEF counted
<1> QED
  BY <1>1, Inductive, PTL

(* However many supervisors decide at once, capacity is granted once for each  *)
(* approved request, and for nothing else but the direct grants.               *)
THEOREM GrantsMatch == Spec => []GrantsFollowApprovals
  BY Inductive, PTL

(* No contact is handed out for free, wherever its call has stopped: before    *)
(* its commit row there is a pending reservation of at least as much.          *)
THEOREM ContactsAreCharged == Spec => []NothingIsFree
<1>1. TypeOK /\ CallsInv => NothingIsFree
  <2> SUFFICES ASSUME TypeOK, CallsInv, NEW c \in Calls
               PROVE  call[c].lost \/ Charged(c) >= assigned[c]
    BY DEF NothingIsFree
  <2>1. /\ call[c] \in Call /\ reservation[c] \in Reservation
        /\ commits[c] \in Nat /\ assigned[c] \in Nat
    BY DEF TypeOK
  <2>2. CallInv(c)
    BY DEF CallsInv
  <2> QED
    BY <2>1, <2>2 DEF CallInv, Charged, Call, Steps, Reservation, NoReservation, At
<1> QED
  BY <1>1, Inductive, PTL

(* Whoever ends has settled, for what was handed out and nothing else.         *)
THEOREM CallsEndSettled == Spec => []EndsSettled
<1>1. TypeOK /\ CallsInv => EndsSettled
  <2> SUFFICES ASSUME TypeOK, CallsInv, NEW c \in Calls, At(c, "done")
               PROVE  /\ reservation[c].status # "pending"
                      /\ Charged(c) = IF call[c].lost THEN 0 ELSE assigned[c]
    BY DEF EndsSettled
  <2>1. commits[c] \in Nat /\ assigned[c] \in Nat
    BY DEF TypeOK
  <2>2. reservation[c].status # "pending" /\ commits[c] = IF call[c].lost THEN 0 ELSE assigned[c]
    BY DEF CallsInv, CallInv
  <2>3. Charged(c) = commits[c]
    BY <2>1, <2>2 DEF Charged
  <2> QED
    BY <2>2, <2>3
<1> QED
  BY <1>1, Inductive, PTL

(* A request is decided once, however many supervisors decide it at a time.    *)
THEOREM DecisionsStand == Spec => DecisionsAreFinal
<1>1. TypeOK /\ [Next]_vars =>
        [\A r \in Requests : request[r] \in {"approved", "rejected"}
                               => request'[r] = request[r]]_vars
  <2> SUFFICES ASSUME TypeOK, Next, NEW r \in Requests, request[r] \in {"approved", "rejected"}
               PROVE  request'[r] = request[r]
    OBVIOUS
  <2>1. request \in [Requests -> {"none", "pending", "approved", "rejected"}]
    BY DEF TypeOK
  <2>2. CASE OtherStep
    <3>1. CASE \E v \in Reviewers : Approve(v) \/ Reject(v)
      BY <2>1, <3>1 DEF Approve, Reject
    <3>2. CASE \E q \in Requests : RequestCapacity(q)
      BY <2>1, <3>2 DEF RequestCapacity
    <3> QED
      BY <2>2, <3>1, <3>2 DEF OtherStep, Complete, NewDay, GrantDirect, ReadRequest, capacity
  <2>3. ASSUME NEW c \in Calls, CallStep(c) PROVE request' = request
    BY <2>3 DEF CallStep, Advance, Plan, Lock, ReadReservations, Reserve, Assign, RunFails,
       Settle, UpdateReservation, Cancel, Die, capacity
  <2> QED
    BY <2>2, <2>3, NextSplit
<1> QED
  BY <1>1, TypeCorrect, PTL DEF Spec, DecisionsAreFinal

\* The ledger charges every call for its contacts.
THEOREM LedgerCharges == Spec => []ChargesMatch
<1>1. NothingIsFree /\ EndsSettled => ChargesMatch
  BY DEF ChargesMatch
<1> QED
  BY <1>1, ContactsAreCharged, CallsEndSettled, PTL

=============================================================================
