------------------------ MODULE LeadFulfillmentProofs ------------------------
(***************************************************************************)
(* What LeadFulfillment promises for any number of venues, units, versions *)
(* and transactions in flight.                                             *)
(***************************************************************************)
EXTENDS LeadFulfillment, FiniteSetTheorems, TLAPS

\* A step that only reads, or gives up.
ReadStep(t) ==
  \/ ReadLead(t) \/ ReadVenue(t) \/ CountVenues(t) \/ CountFunded(t)
  \/ ReadOrder(t) \/ ReadUnits(t) \/ Rollback(t)

\* The commits of commands on the order.
OrderStep(t) ==
  \/ ChooseProduct(t) \/ AttachDocument(t) \/ RecordUnitValue(t)
  \/ ValidatePayment(t) \/ Reject(t)

SetupStep(t) ==
  DeleteLead(t) \/ EditLead(t) \/ CreateVenue(t) \/ AddVenueAccounts(t)

\* The row a transaction has read is an old one, or the row as it is.
ReadsAreOld ==
  \A t \in Txns : txn[t] # Idle =>
    /\ ~txn[t].seen.deleted
    /\ txn[t].seen.version <= lead.version
    /\ txn[t].seen.version = lead.version => txn[t].seen = lead

\* The stage a command has been allowed on.
StagesAsRead ==
  \A t \in Txns : txn[t] # Idle =>
    /\ txn[t].command = "add-accounts" => txn[t].seen.stage = "SETUP"
    /\ txn[t].command \in OrderCommands =>
         txn[t].seen.stage = "FULFILLMENT" /\ lead.stage # "SETUP"

\* An order that was read is one that allowed the command.
OrdersAsRead ==
  \A t \in Txns :
    txn[t] # Idle /\ txn[t].command \in OrderCommands /\ txn[t].at # "order"
      => Allowed(txn[t].command, txn[t].order)

\* A venue is never removed, so it is still there when its accounts are.
VenuesAsRead ==
  \A t \in Txns :
    txn[t] # Idle /\ txn[t].command = "add-accounts" /\ txn[t].at # "venue"
      => txn[t].venue \in venues

LeadInv ==
  /\ TypeOK /\ ReadsAreOld /\ StagesAsRead /\ OrdersAsRead /\ VenuesAsRead
  /\ OrderFollowsLead

-----------------------------------------------------------------------------
LEMMA NextSplit ==
  ASSUME Next
  PROVE  \E t \in Txns : ReadStep(t) \/ SetupStep(t) \/ OrderStep(t)
  BY DEF Next, ReadStep, SetupStep, OrderStep

\* What a transaction holds, by the command it runs.
LEMMA TxnCases ==
  ASSUME TypeOK, NEW t \in Txns, txn[t] # Idle
  PROVE  /\ txn[t].seen \in Row
         /\ txn[t].command \in LeadCommands \cup {"create-venue"} => txn[t] \in Lead
         /\ txn[t].command = "add-accounts" => txn[t] \in Accounts
         /\ txn[t].command \in OrderCommands => txn[t] \in OnOrder
         /\ txn[t] \in Lead \cup Accounts \cup OnOrder
  BY DEF TypeOK, Lead, Accounts, OnOrder, LeadCommands, OrderCommands

LEMMA ReadStepTypes ==
  ASSUME TypeOK, NEW t \in Txns, ReadStep(t)
  PROVE  /\ UNCHANGED rows
         /\ txn' = [txn EXCEPT ![t] = txn'[t]]
         /\ txn'[t] \in {Idle} \cup Lead \cup Accounts \cup OnOrder
<1> USE DEF TypeOK, Continue, Begin
<1> DEFINE New(r) == txn' = [txn EXCEPT ![t] = r] /\ UNCHANGED rows
<1>a. ASSUME NEW r \in {Idle} \cup Lead \cup Accounts \cup OnOrder, New(r)
      PROVE  /\ UNCHANGED rows
             /\ txn' = [txn EXCEPT ![t] = txn'[t]]
             /\ txn'[t] \in {Idle} \cup Lead \cup Accounts \cup OnOrder
  BY <1>a
<1>1. CASE ReadLead(t)
  <2>1. ASSUME NEW c \in LeadCommands \cup {"create-venue"}
        PROVE  [at |-> "commit", command |-> c, seen |-> lead] \in Lead
    BY DEF Lead
  <2>2. ASSUME NEW v \in Venues
        PROVE  [at |-> "venue", command |-> "add-accounts", seen |-> lead,
                venue |-> v, total |-> 0, funded |-> 0] \in Accounts
    BY DEF Accounts
  <2>3. ASSUME NEW c \in OrderCommands
        PROVE  [at |-> "order", command |-> c, seen |-> lead,
                order |-> NoOrder, unit |-> 0, last |-> FALSE] \in OnOrder
    BY DEF OnOrder
  <2>4. \E r \in {Idle} \cup Lead \cup Accounts \cup OnOrder : New(r)
    BY <1>1, <2>1, <2>2, <2>3 DEF ReadLead
  <2> QED
    BY <1>a, <2>4
<1>2. CASE ReadVenue(t) \/ CountVenues(t) \/ CountFunded(t)
  <2>1. txn[t] \in Accounts
    BY <1>2 DEF ReadVenue, CountVenues, CountFunded, Idle, Lead, OnOrder, Accounts
  <2>2. Cardinality(venues) \in Nat /\ Cardinality(funded) \in Nat
    BY FulfillmentAssumption, FS_Subset, FS_CardinalityType
  <2>3. /\ [txn[t] EXCEPT !.at = "total"] \in Accounts
        /\ [txn[t] EXCEPT !.at = "funded", !.total = Cardinality(venues)] \in Accounts
        /\ [txn[t] EXCEPT !.at = "commit", !.funded = Cardinality(funded)] \in Accounts
    BY <2>1, <2>2 DEF Accounts
  <2>4. \E r \in {Idle} \cup Accounts : New(r)
    BY <1>2, <2>3 DEF ReadVenue, CountVenues, CountFunded
  <2> QED
    BY <1>a, <2>4
<1>3. CASE ReadOrder(t)
  <2>1. txn[t] \in OnOrder
    BY <1>3 DEF ReadOrder, Idle, Lead, OnOrder, Accounts
  <2> QED
    BY <1>3, <2>1 DEF ReadOrder, OnOrder
<1>4. CASE ReadUnits(t)
  <2>1. txn[t] \in OnOrder
    BY <1>4 DEF ReadUnits, Idle, Lead, OnOrder, Accounts
  <2>2. PICK u \in DOMAIN units :
          New([txn[t] EXCEPT !.at = "commit", !.unit = u,
                 !.last = OthersFilled(u, UnitField[txn[t].order.step])])
    BY <1>4 DEF ReadUnits
  <2>3. u \in Nat
    BY DEF Units
  <2>4. OthersFilled(u, UnitField[txn[t].order.step]) \in BOOLEAN
    BY DEF OthersFilled
  <2>5. [txn[t] EXCEPT !.at = "commit", !.unit = u,
           !.last = OthersFilled(u, UnitField[txn[t].order.step])] \in OnOrder
    BY <2>1, <2>3, <2>4 DEF OnOrder
  <2> QED
    BY <1>a, <2>2, <2>5
<1>5. CASE Rollback(t)
  BY <1>5 DEF Rollback
<1> QED
  BY <1>1, <1>2, <1>3, <1>4, <1>5 DEF ReadStep

\* The stages, the steps of the products and what follows them.
LEMMA StepFacts ==
  /\ \A k \in Kinds, s \in Steps :
       NextStep(k, s) \in Steps \ {"CHOOSE_PRODUCT"}
  /\ \A k \in Kinds : \A s \in DOMAIN Successor[k] :
       /\ NextStep(k, s) \in (DOMAIN Successor[k]) \cup {"COMPLETED"}
       /\ NextStep(k, s) = "COMPLETED" => s = "AWAITING_SALE_REGISTRATION"
  /\ \A s \in DOMAIN RejectTo : RejectTo[s] \in Steps \ {"CHOOSE_PRODUCT", "COMPLETED"}
  /\ \A k \in Kinds, s \in DOMAIN RejectTo :
       s \in DOMAIN Successor[k] => RejectTo[s] \in DOMAIN Successor[k]
<1> USE DEF Kinds, NextStep, Successor, Steps, DocumentSteps, UnitSteps, UnitField, RejectTo
<1>1. ASSUME NEW k \in Kinds, NEW s \in DOMAIN Successor[k]
      PROVE  /\ NextStep(k, s) \in Steps \ {"CHOOSE_PRODUCT"}
             /\ NextStep(k, s) \in (DOMAIN Successor[k]) \cup {"COMPLETED"}
             /\ NextStep(k, s) = "COMPLETED" => s = "AWAITING_SALE_REGISTRATION"
  <2>1. CASE k = "pos_refurbished"
    BY <1>1, <2>1
  <2>2. CASE k = "pos_new"
    BY <1>1, <2>2
  <2>3. CASE k = "digital_only"
    BY <1>1, <2>3
  <2> QED
    BY <2>1, <2>2, <2>3
<1>2. ASSUME NEW k \in Kinds, NEW s \in Steps
      PROVE  NextStep(k, s) \in Steps \ {"CHOOSE_PRODUCT"}
  <2>1. CASE s \in DOMAIN Successor[k]
    BY <1>1, <2>1
  <2>2. CASE s \notin DOMAIN Successor[k]
    BY <2>2
  <2> QED
    BY <2>1, <2>2
<1>3. \A s \in DOMAIN RejectTo : RejectTo[s] \in Steps \ {"CHOOSE_PRODUCT", "COMPLETED"}
  OBVIOUS
<1>4. ASSUME NEW k \in Kinds, NEW s \in DOMAIN RejectTo, s \in DOMAIN Successor[k]
      PROVE  RejectTo[s] \in DOMAIN Successor[k]
  <2>1. CASE k = "pos_refurbished"
    BY <1>4, <2>1
  <2>2. CASE k = "pos_new"
    BY <1>4, <2>2
  <2>3. CASE k = "digital_only"
    BY <1>4, <2>3
  <2> QED
    BY <2>1, <2>2, <2>3
<1> QED
  BY <1>1, <1>2, <1>3, <1>4

\* What a command on the order has read by the time it commits.
LEMMA ActFacts ==
  ASSUME TypeOK, OrdersAsRead, NEW t \in Txns, NEW c \in OrderCommands, Commit(t, c)
  PROVE  /\ txn[t] # Idle /\ txn[t] \in OnOrder /\ txn[t].command = c
         /\ txn[t].order \in Order /\ txn[t].order.step # "COMPLETED"
         /\ txn[t].order.step # "CHOOSE_PRODUCT" => txn[t].order.kind \in Kinds \/ c = "reject"
         /\ c = "reject" => txn[t].order.step \in DOMAIN RejectTo
<1>1. txn[t] # Idle
  BY DEF Commit, Idle
<1>2. txn[t] \in OnOrder
  BY <1>1, TxnCases DEF Commit
<1>3. Allowed(c, txn[t].order)
  BY <1>1 DEF OrdersAsRead, Commit
<1> QED
  BY <1>1, <1>2, <1>3 DEF OnOrder, Order, NoOrder, Allowed, OrderCommands, Commit

\* The last step moves the lead as it was read; the others leave it alone.
LEMMA AdvanceFacts ==
  ASSUME TypeOK, OrdersAsRead, NEW t \in Txns, NEW steps,
         Acts(t, steps), "CHOOSE_PRODUCT" \notin steps, Advance(t)
  PROVE  /\ NextStep(txn[t].order.kind, txn[t].order.step) \in Steps \ {"CHOOSE_PRODUCT"}
         /\ order' = [order EXCEPT !.step = NextStep(txn[t].order.kind, txn[t].order.step)]
         /\ \/ /\ order'.step = "COMPLETED"
               /\ Fresh(t)
               /\ lead' = [txn[t].seen EXCEPT !.stage = "LIVE", !.version = @ + 1]
            \/ order'.step # "COMPLETED" /\ ~lead.deleted /\ lead' = lead
<1>1. /\ txn[t].order.step \in Steps
      /\ txn[t].order.kind \in Kinds
  BY ActFacts DEF Acts, OrderCommands, Order, Commit
<1>2. NextStep(txn[t].order.kind, txn[t].order.step) \in Steps \ {"CHOOSE_PRODUCT"}
  BY <1>1, StepFacts
<1>3. order'.step = NextStep(txn[t].order.kind, txn[t].order.step)
  BY DEF Advance, TypeOK, Order, NoOrder
<1> QED
  BY <1>2, <1>3 DEF Advance, Transition, Recorded

\* The order as a command that leaves the lead alone may leave it.
OrderKept == order' = order \/ (order # NoOrder /\ order' \in Order /\ order'.step # "COMPLETED")

Moved(stage, deleted) ==
  lead' = [stage |-> stage, deleted |-> deleted, version |-> lead.version + 1]

\* Whatever commits moves the lead and its order in one of these ways.
CommitCases ==
  \/ lead' = lead /\ OrderKept
  \/ ~lead.deleted /\ Moved(lead.stage, TRUE) /\ order' = order
  \/ ~lead.deleted /\ Moved(lead.stage, FALSE) /\ order' = order
  \/ /\ ~lead.deleted /\ lead.stage = "SETUP" /\ Moved("FULFILLMENT", FALSE)
     /\ order' = [kind |-> NoProduct, step |-> "CHOOSE_PRODUCT"]
  \/ /\ ~lead.deleted /\ lead.stage = "FULFILLMENT" /\ Moved("LIVE", FALSE)
     /\ order' \in Order /\ order'.step = "COMPLETED"

LEMMA FreshIsSeen ==
  ASSUME LeadInv, NEW t \in Txns, txn[t] # Idle, Fresh(t)
  PROVE  txn[t].seen = lead /\ ~lead.deleted
  BY DEF LeadInv, ReadsAreOld, Fresh

LEMMA SetupCommits ==
  ASSUME LeadInv, NEW t \in Txns, SetupStep(t)
  PROVE  CommitCases /\ txn' = [txn EXCEPT ![t] = Idle]
<1>1. txn[t] # Idle /\ txn' = [txn EXCEPT ![t] = Idle]
  BY DEF SetupStep, DeleteLead, EditLead, CreateVenue, AddVenueAccounts, Commit, Idle
<1>2. lead \in Row
  BY DEF LeadInv, TypeOK
<1> SUFFICES CommitCases
  BY <1>1
<1>3. CASE DeleteLead(t)
  BY <1>1, <1>2, <1>3, FreshIsSeen DEF DeleteLead, CommitCases, Moved, Row
<1>4. CASE EditLead(t)
  BY <1>1, <1>2, <1>4, FreshIsSeen DEF EditLead, Transition, CommitCases, Moved, Row
<1>5. CASE CreateVenue(t)
  BY <1>5 DEF CreateVenue, CommitCases, OrderKept
<1>6. CASE AddVenueAccounts(t)
  <2>1. Fresh(t)
    BY <1>6 DEF AddVenueAccounts, Transition
  <2>2. txn[t].seen.stage = "SETUP"
    BY <1>1, <1>6 DEF AddVenueAccounts, Commit, LeadInv, StagesAsRead
  <2> QED
    <3>1. txn[t].seen = lead /\ ~lead.deleted /\ lead.stage = "SETUP"
      BY <1>1, <2>1, <2>2, FreshIsSeen
    <3>2. CASE LastVenue(t)
      BY <1>2, <1>6, <3>1, <3>2 DEF AddVenueAccounts, Transition, CommitCases, Moved, Row
    <3>3. CASE ~LastVenue(t)
      BY <1>2, <1>6, <3>1, <3>3 DEF AddVenueAccounts, Transition, CommitCases, Moved, Row
    <3> QED
      BY <3>2, <3>3
<1> QED
  BY <1>1, <1>3, <1>4, <1>5, <1>6 DEF SetupStep

LEMMA OrderCommits ==
  ASSUME LeadInv, NEW t \in Txns, OrderStep(t)
  PROVE  CommitCases /\ txn' = [txn EXCEPT ![t] = Idle]
<1> USE DEF LeadInv
<1>1. PICK c \in OrderCommands : Commit(t, c)
  BY DEF OrderStep, ChooseProduct, AttachDocument, RecordUnitValue, ValidatePayment,
         Reject, Acts, OrderCommands
<1>2. txn[t] # Idle /\ txn' = [txn EXCEPT ![t] = Idle]
  BY <1>1, ActFacts DEF Commit
<1> SUFFICES CommitCases
  BY <1>2
<1>3. order \in Order /\ order # NoOrder
  BY <1>1, <1>2 DEF Commit, StagesAsRead, OrderFollowsLead, TypeOK
<1>4. CASE ChooseProduct(t)
  <2>1. PICK kind \in Kinds :
          order' = [kind |-> kind, step |-> NextStep(kind, "CHOOSE_PRODUCT")]
    BY <1>4 DEF ChooseProduct
  <2>2. NextStep(kind, "CHOOSE_PRODUCT") \in Steps \ {"COMPLETED"}
    BY StepFacts DEF NextStep, Successor, Kinds, Steps
  <2> QED
    BY <1>2, <1>3, <1>4, <2>1, <2>2 DEF ChooseProduct, CommitCases, OrderKept, Order
<1>5. CASE Reject(t)
  <2>1. RejectTo[txn[t].order.step] \in Steps \ {"COMPLETED"}
    BY <1>5, ActFacts, StepFacts DEF Reject, OrderCommands
  <2> QED
    BY <1>2, <1>3, <1>5, <2>1 DEF Reject, CommitCases, OrderKept, Order
<1>6. CASE AttachDocument(t) \/ RecordUnitValue(t) \/ ValidatePayment(t)
  <2>1. PICK steps : Acts(t, steps) /\ "CHOOSE_PRODUCT" \notin steps
    BY <1>6 DEF AttachDocument, RecordUnitValue, ValidatePayment, DocumentSteps,
                UnitSteps, UnitField
  <2>2. Advance(t) \/ (UNCHANGED <<lead, order>>)
    BY <1>6 DEF AttachDocument, RecordUnitValue, ValidatePayment
  <2>3. CASE Advance(t)
    <3>1. /\ order' \in Order
          /\ \/ /\ order'.step = "COMPLETED" /\ Fresh(t)
                /\ lead' = [txn[t].seen EXCEPT !.stage = "LIVE", !.version = @ + 1]
             \/ order'.step # "COMPLETED" /\ lead' = lead
      BY <1>3, <2>1, <2>3, AdvanceFacts DEF Order
    <3>2. CASE order'.step # "COMPLETED" /\ lead' = lead
      BY <1>3, <3>1, <3>2 DEF CommitCases, OrderKept
    <3>3. CASE /\ order'.step = "COMPLETED" /\ Fresh(t)
               /\ lead' = [txn[t].seen EXCEPT !.stage = "LIVE", !.version = @ + 1]
      <4>1. txn[t].seen = lead /\ lead \in Row /\ ~lead.deleted
        BY <1>2, <3>3, FreshIsSeen DEF TypeOK
      <4>2. lead.stage = "FULFILLMENT"
        BY <1>1, <1>2, <4>1 DEF Commit, StagesAsRead
      <4> QED
        BY <3>1, <3>3, <4>1, <4>2 DEF CommitCases, OrderKept, Moved, Row
    <3> QED
      BY <3>1, <3>2, <3>3
  <2>4. CASE UNCHANGED <<lead, order>>
    BY <2>4 DEF CommitCases, OrderKept
  <2> QED
    BY <1>2, <2>2, <2>3, <2>4
<1> QED
  BY <1>2, <1>4, <1>5, <1>6 DEF OrderStep

-----------------------------------------------------------------------------
(* The invariant of the lead and its order.                                    *)

\* Every write of the units keeps them a sequence of sets of columns.
LEMMA UnitTypes ==
  ASSUME LeadInv, NEW t \in Txns, OrderStep(t)
  PROVE  units' \in Units /\ choices' \in Nat
<1> USE DEF LeadInv, TypeOK, Units
<1>1. choices' \in Nat
  BY DEF OrderStep, ChooseProduct, AttachDocument, RecordUnitValue, ValidatePayment, Reject
<1>2. CASE ChooseProduct(t)
  <2>1. PICK kind \in Kinds : units' = units \o BuildUnits(kind)
    BY <1>2 DEF ChooseProduct
  <2>2. Cardinality(venues) \in Nat
    BY FulfillmentAssumption, FS_Subset, FS_CardinalityType
  <2>3. BuildUnits(kind) \in Seq(SUBSET Fields)
    <3> DEFINE n == IF kind = "digital_only" \/ venues = {} THEN 1 ELSE Cardinality(venues)
    <3>1. n \in Nat
      BY <2>2
    <3> HIDE DEF n
    <3>2. [i \in 1 .. n |-> {}] \in Seq(SUBSET Fields)
      BY <3>1
    <3> QED
      BY <3>2 DEF BuildUnits, n
  <2> QED
    BY <1>1, <2>1, <2>3
<1>3. CASE AttachDocument(t)
  BY <1>1, <1>3 DEF AttachDocument
<1>4. CASE RecordUnitValue(t)
  <2>1. txn[t].order.step \in UnitSteps
    BY <1>4 DEF RecordUnitValue, Acts
  <2>2. UnitField[txn[t].order.step] \in Fields
    BY <2>1 DEF UnitSteps, UnitField, Fields
  <2>3. PICK f \in Fields : units' = [units EXCEPT ![txn[t].unit] = @ \cup {f}]
    BY <1>4, <2>2 DEF RecordUnitValue
  <2>4. units \in [1 .. Len(units) -> SUBSET Fields] /\ Len(units) \in Nat
    OBVIOUS
  <2>5. units' \in [1 .. Len(units) -> SUBSET Fields]
    BY <2>3, <2>4
  <2> QED
    BY <1>1, <2>4, <2>5
<1>5. CASE ValidatePayment(t)
  BY <1>1, <1>5 DEF ValidatePayment, Fields
<1>6. CASE Reject(t)
  <2> DEFINE cleared == RejectClears(txn[t].order.step)
  <2>1. units' = [u \in DOMAIN units |-> units[u] \ cleared]
    BY <1>6 DEF Reject
  <2> HIDE DEF cleared
  <2>2. Len(units) \in Nat /\ units \in [1 .. Len(units) -> SUBSET Fields]
    OBVIOUS
  <2>3. units' \in [1 .. Len(units) -> SUBSET Fields]
    BY <2>1, <2>2
  <2> QED
    BY <1>1, <2>2, <2>3
<1> QED
  BY <1>2, <1>3, <1>4, <1>5, <1>6 DEF OrderStep

LEMMA CommitTypes ==
  ASSUME LeadInv, NEW t \in Txns, SetupStep(t) \/ OrderStep(t)
  PROVE  TypeOK'
<1> USE DEF LeadInv, TypeOK
<1>1. CommitCases /\ txn' = [txn EXCEPT ![t] = Idle]
  BY SetupCommits, OrderCommits
<1>2. lead' \in Row
  <2>1. lead.version + 1 \in Nat /\ lead.stage \in Stages
    BY DEF Row
  <2>2. \A s \in Stages, d \in BOOLEAN : Moved(s, d) => lead' \in Row
    BY <2>1 DEF Moved, Row
  <2> QED
    BY <1>1, <2>1, <2>2 DEF CommitCases, Stages
<1>3. order' \in Order \cup {NoOrder}
  <2>1. [kind |-> NoProduct, step |-> "CHOOSE_PRODUCT"] \in Order
    BY DEF Order, Steps
  <2>2. order' = order \/ order' \in Order
    BY <1>1, <2>1 DEF CommitCases, OrderKept
  <2> QED
    BY <2>2
<1>4. txn' \in [Txns -> {Idle} \cup Lead \cup Accounts \cup OnOrder]
  BY <1>1
<1>5. venues' \subseteq Venues /\ funded' \subseteq venues'
  <2>1. CASE DeleteLead(t) \/ EditLead(t) \/ OrderStep(t)
    BY <2>1 DEF DeleteLead, EditLead, OrderStep, ChooseProduct, AttachDocument,
                RecordUnitValue, ValidatePayment, Reject, Acts
  <2>2. CASE CreateVenue(t)
    BY <2>2 DEF CreateVenue
  <2>3. CASE AddVenueAccounts(t)
    <3>1. txn[t].venue \in venues
      BY <2>3 DEF AddVenueAccounts, Commit, VenuesAsRead, Idle
    <3> QED
      BY <2>3, <3>1 DEF AddVenueAccounts
  <2> QED
    BY <2>1, <2>2, <2>3 DEF SetupStep
<1>6. units' \in Units /\ choices' \in Nat
  <2>1. CASE SetupStep(t)
    BY <2>1 DEF SetupStep, DeleteLead, EditLead, CreateVenue, AddVenueAccounts
  <2> QED
    BY <2>1, UnitTypes
<1> QED
  BY <1>2, <1>3, <1>4, <1>5, <1>6

LEMMA NextTypes ==
  ASSUME LeadInv, [Next]_vars
  PROVE  TypeOK'
<1>1. CASE UNCHANGED vars
  BY <1>1 DEF LeadInv, TypeOK, vars
<1>2. ASSUME NEW t \in Txns, ReadStep(t)
      PROVE  TypeOK'
  BY <1>2, ReadStepTypes DEF LeadInv, TypeOK, rows
<1> QED
  BY <1>1, <1>2, CommitTypes, NextSplit

\* A read past the first is one of a command that takes several.
LEMMA ReaderKinds ==
  ASSUME TypeOK, NEW t \in Txns
  PROVE  /\ ReadVenue(t) \/ CountVenues(t) \/ CountFunded(t)
              => txn[t] \in Accounts /\ txn[t] # Idle
         /\ ReadOrder(t) \/ ReadUnits(t) => txn[t] \in OnOrder /\ txn[t] # Idle
<1>1. txn[t].at \in {"venue", "total", "funded"} => txn[t] \in Accounts /\ txn[t] # Idle
  BY DEF Idle, Lead, OnOrder, Accounts, TypeOK
<1>2. txn[t].at \in {"order", "units"} => txn[t] \in OnOrder /\ txn[t] # Idle
  BY DEF Idle, Lead, OnOrder, Accounts, TypeOK
<1>3. ReadVenue(t) \/ CountVenues(t) \/ CountFunded(t) => txn[t].at \in {"venue", "total", "funded"}
  BY DEF ReadVenue, CountVenues, CountFunded
<1>4. ReadOrder(t) \/ ReadUnits(t) => txn[t].at \in {"order", "units"}
  BY DEF ReadOrder, ReadUnits
<1> QED
  BY <1>1, <1>2, <1>3, <1>4

\* What a read leaves of the record of the transaction.
LEMMA ReadStepKeeps ==
  ASSUME TypeOK, NEW t \in Txns, ReadStep(t), txn'[t] # Idle
  PROVE  \/ txn[t] = Idle /\ ReadLead(t)
         \/ /\ txn[t] # Idle
            /\ txn'[t].seen = txn[t].seen
            /\ txn'[t].command = txn[t].command
<1>1. CASE ReadLead(t)
  BY <1>1 DEF ReadLead, Begin
<1>2. CASE ReadVenue(t) \/ CountVenues(t) \/ CountFunded(t)
  <2>1. txn[t] \in Accounts /\ txn[t] # Idle
    BY <1>2, ReaderKinds
  <2>2. \/ txn'[t] = [txn[t] EXCEPT !.at = "total"]
        \/ txn'[t] = [txn[t] EXCEPT !.at = "funded", !.total = Cardinality(venues)]
        \/ txn'[t] = [txn[t] EXCEPT !.at = "commit", !.funded = Cardinality(funded)]
    BY <1>2 DEF ReadVenue, CountVenues, CountFunded, Continue, TypeOK
  <2> QED
    BY <2>1, <2>2 DEF Accounts
<1>3. CASE ReadOrder(t)
  <2>1. txn[t] \in OnOrder /\ txn[t] # Idle
    BY <1>3, ReaderKinds
  <2>2. \E at : txn'[t] = [txn[t] EXCEPT !.order = order, !.at = at]
    BY <1>3 DEF ReadOrder, Continue, TypeOK
  <2> QED
    BY <2>1, <2>2 DEF OnOrder
<1>4. CASE ReadUnits(t)
  <2>1. txn[t] \in OnOrder /\ txn[t] # Idle
    BY <1>4, ReaderKinds
  <2>2. PICK u \in DOMAIN units :
          Continue(t, [txn[t] EXCEPT !.at = "commit", !.unit = u,
                        !.last = OthersFilled(u, UnitField[txn[t].order.step])])
    BY <1>4 DEF ReadUnits
  <2>3. DOMAIN txn = Txns
    BY DEF TypeOK
  <2>4. \E l : txn'[t] = [txn[t] EXCEPT !.at = "commit", !.unit = u, !.last = l]
    BY <2>2, <2>3 DEF Continue
  <2> QED
    BY <2>1, <2>4 DEF OnOrder
<1>5. CASE Rollback(t)
  BY <1>5 DEF Rollback, Continue, TypeOK
<1> QED
  BY <1>1, <1>2, <1>3, <1>4, <1>5 DEF ReadStep

LEMMA ReadsStayOld ==
  ASSUME LeadInv, Next
  PROVE  ReadsAreOld'
<1> USE DEF LeadInv
<1>1. PICK t \in Txns : ReadStep(t) \/ SetupStep(t) \/ OrderStep(t)
  BY NextSplit
<1>2. CASE ReadStep(t)
  <2>1. lead' = lead /\ txn' = [txn EXCEPT ![t] = txn'[t]]
    BY <1>2, ReadStepTypes DEF rows
  <2> SUFFICES ASSUME txn'[t] # Idle
               PROVE  /\ ~txn'[t].seen.deleted
                      /\ txn'[t].seen.version <= lead.version
                      /\ txn'[t].seen.version = lead.version => txn'[t].seen = lead
    BY <2>1 DEF ReadsAreOld, TypeOK
  <2>2. CASE txn[t] = Idle /\ ReadLead(t)
    <3>1. txn'[t].seen = lead /\ ~lead.deleted
      BY <2>2 DEF ReadLead, Begin, TypeOK
    <3> QED
      BY <3>1 DEF TypeOK, Row
  <2> QED
    BY <1>2, <2>2, ReadStepKeeps DEF ReadsAreOld
<1>3. CASE SetupStep(t) \/ OrderStep(t)
  <2>1. CommitCases /\ txn' = [txn EXCEPT ![t] = Idle]
    BY <1>3, SetupCommits, OrderCommits
  <2>2. lead' = lead \/ lead'.version = lead.version + 1
    BY <2>1 DEF CommitCases, Moved
  <2>3. ASSUME NEW u \in Txns, txn'[u] # Idle
        PROVE  /\ ~txn'[u].seen.deleted
               /\ txn'[u].seen.version <= lead'.version
               /\ txn'[u].seen.version = lead'.version => txn'[u].seen = lead'
    <3>1. txn'[u] = txn[u] /\ txn[u] # Idle
      BY <2>1, <2>3 DEF TypeOK
    <3>2. txn[u].seen.version \in Nat /\ lead.version \in Nat
      BY <3>1, TxnCases DEF TypeOK, Row
    <3> QED
      BY <2>2, <3>1, <3>2 DEF ReadsAreOld
  <2> QED
    BY <2>3 DEF ReadsAreOld
<1> QED
  BY <1>1, <1>2, <1>3

\* The stage of the lead never falls back to SETUP.
LEMMA StageKept ==
  ASSUME LeadInv, Next
  PROVE  /\ lead.stage # "SETUP" => lead'.stage # "SETUP"
         /\ lead.stage = "LIVE" => lead'.stage = "LIVE"
<1>1. PICK t \in Txns : ReadStep(t) \/ SetupStep(t) \/ OrderStep(t)
  BY NextSplit
<1>2. CASE ReadStep(t)
  BY <1>2, ReadStepTypes DEF rows, LeadInv
<1>3. CASE SetupStep(t) \/ OrderStep(t)
  BY <1>3, SetupCommits, OrderCommits DEF CommitCases, Moved
<1> QED
  BY <1>1, <1>2, <1>3

LEMMA StagesStayAsRead ==
  ASSUME LeadInv, Next
  PROVE  StagesAsRead'
<1> USE DEF LeadInv
<1>1. PICK t \in Txns : ReadStep(t) \/ SetupStep(t) \/ OrderStep(t)
  BY NextSplit
<1>2. ASSUME NEW u \in Txns, txn'[u] = txn[u], txn'[u] # Idle
      PROVE  /\ txn'[u].command = "add-accounts" => txn'[u].seen.stage = "SETUP"
             /\ txn'[u].command \in OrderCommands =>
                  txn'[u].seen.stage = "FULFILLMENT" /\ lead'.stage # "SETUP"
  BY <1>2, StageKept DEF StagesAsRead
<1>3. CASE ReadStep(t)
  <2>1. lead' = lead /\ txn' = [txn EXCEPT ![t] = txn'[t]]
    BY <1>3, ReadStepTypes DEF rows
  <2>2. ASSUME txn'[t] # Idle
        PROVE  /\ txn'[t].command = "add-accounts" => txn'[t].seen.stage = "SETUP"
               /\ txn'[t].command \in OrderCommands =>
                    txn'[t].seen.stage = "FULFILLMENT" /\ lead'.stage # "SETUP"
    <3>1. CASE txn[t] = Idle /\ ReadLead(t)
      BY <2>1, <3>1 DEF ReadLead, Begin, TypeOK, LeadCommands, OrderCommands
    <3> QED
      BY <1>3, <2>1, <2>2, <3>1, ReadStepKeeps DEF StagesAsRead
  <2> QED
    BY <1>2, <2>1, <2>2 DEF StagesAsRead, TypeOK
<1>4. CASE SetupStep(t) \/ OrderStep(t)
  <2>1. txn' = [txn EXCEPT ![t] = Idle]
    BY <1>4, SetupCommits, OrderCommits
  <2> QED
    BY <1>2, <2>1 DEF StagesAsRead, TypeOK
<1> QED
  BY <1>1, <1>3, <1>4

LEMMA OrdersStayAsRead ==
  ASSUME LeadInv, Next
  PROVE  OrdersAsRead'
<1> USE DEF LeadInv
<1> DEFINE Fits(r) == r # Idle /\ r.command \in OrderCommands /\ r.at # "order"
                        => Allowed(r.command, r.order)
<1>1. PICK t \in Txns : ReadStep(t) \/ SetupStep(t) \/ OrderStep(t)
  BY NextSplit
<1>2. \A u \in Txns : Fits(txn[u])
  BY DEF OrdersAsRead
<1>3. SUFFICES \A u \in Txns : Fits(txn'[u])
  BY DEF OrdersAsRead, Allowed
<1>4. CASE ReadStep(t)
  <2>1. txn' = [txn EXCEPT ![t] = txn'[t]]
    BY <1>4, ReadStepTypes
  <2>2. Fits(txn'[t])
    <3>1. CASE ReadLead(t)
      BY <3>1 DEF ReadLead, Begin, TypeOK, LeadCommands, OrderCommands
    <3>2. CASE ReadVenue(t) \/ CountVenues(t) \/ CountFunded(t)
      <4>1. txn[t] \in Accounts /\ txn[t] # Idle
        BY <3>2, ReaderKinds
      <4>2. txn'[t] # Idle => txn'[t].command = "add-accounts"
        BY <1>4, <4>1, ReadStepKeeps DEF Accounts, ReadLead, Begin
      <4> QED
        BY <4>2 DEF OrderCommands
    <3>3. CASE ReadOrder(t)
      <4>1. txn[t] \in OnOrder
        BY <3>3, ReaderKinds
      <4> QED
        BY <3>3, <4>1 DEF ReadOrder, Continue, TypeOK, OnOrder
    <3>4. CASE ReadUnits(t)
      <4>1. txn[t] \in OnOrder /\ txn[t] # Idle /\ txn[t].at = "units"
        BY <3>4 DEF ReadUnits, Idle, Lead, OnOrder, Accounts, TypeOK
      <4>2. \E u, l : txn'[t] = [txn[t] EXCEPT !.at = "commit", !.unit = u, !.last = l]
        BY <3>4 DEF ReadUnits, Continue, TypeOK
      <4> QED
        BY <1>2, <4>1, <4>2 DEF OnOrder
    <3>5. CASE Rollback(t)
      BY <3>5 DEF Rollback, Continue, TypeOK
    <3> QED
      BY <1>4, <3>1, <3>2, <3>3, <3>4, <3>5 DEF ReadStep
  <2> HIDE DEF Fits
  <2> QED
    BY <1>2, <2>1, <2>2 DEF TypeOK
<1>5. CASE SetupStep(t) \/ OrderStep(t)
  <2>1. txn' = [txn EXCEPT ![t] = Idle]
    BY <1>5, SetupCommits, OrderCommits
  <2> QED
    BY <1>2, <2>1 DEF TypeOK
<1> QED
  BY <1>1, <1>4, <1>5

\* Venues are only added, units and accounts included.
LEMMA VenuesGrow ==
  ASSUME LeadInv, Next
  PROVE  venues \subseteq venues' /\ funded \subseteq funded'
<1>1. PICK t \in Txns : ReadStep(t) \/ SetupStep(t) \/ OrderStep(t)
  BY NextSplit
<1>2. CASE ReadStep(t)
  BY <1>2, ReadStepTypes DEF rows, LeadInv
<1>3. CASE SetupStep(t)
  BY <1>3 DEF SetupStep, DeleteLead, EditLead, CreateVenue, AddVenueAccounts
<1>4. CASE OrderStep(t)
  BY <1>4 DEF OrderStep, ChooseProduct, AttachDocument, RecordUnitValue, ValidatePayment,
              Reject, Acts
<1> QED
  BY <1>1, <1>2, <1>3, <1>4

LEMMA VenuesStayAsRead ==
  ASSUME LeadInv, Next
  PROVE  VenuesAsRead'
<1> USE DEF LeadInv
<1> DEFINE Fits(r) == r # Idle /\ r.command = "add-accounts" /\ r.at # "venue"
                        => r.venue \in venues
<1>1. PICK t \in Txns : ReadStep(t) \/ SetupStep(t) \/ OrderStep(t)
  BY NextSplit
<1>2. \A u \in Txns : Fits(txn[u])
  BY DEF VenuesAsRead
<1>3. SUFFICES \A u \in Txns : Fits(txn'[u])
  BY VenuesGrow DEF VenuesAsRead
<1>4. CASE ReadStep(t)
  <2>1. txn' = [txn EXCEPT ![t] = txn'[t]]
    BY <1>4, ReadStepTypes
  <2>2. Fits(txn'[t])
    <3>1. CASE ReadLead(t)
      BY <3>1 DEF ReadLead, Begin, TypeOK, LeadCommands, OrderCommands
    <3>2. CASE ReadVenue(t) \/ CountVenues(t) \/ CountFunded(t)
      <4>1. txn[t] \in Accounts /\ txn[t] # Idle
        BY <3>2, ReaderKinds
      <4>2. Fits(txn[t])
        BY <1>2
      <4>3. CASE ReadVenue(t)
        BY <4>1, <4>3 DEF ReadVenue, Continue, TypeOK, Accounts
      <4>4. CASE CountVenues(t) \/ CountFunded(t)
        BY <4>1, <4>2, <4>4 DEF CountVenues, CountFunded, Continue, TypeOK, Accounts
      <4> QED
        BY <3>2, <4>3, <4>4
    <3>3. CASE ReadOrder(t) \/ ReadUnits(t)
      <4>1. txn[t] \in OnOrder /\ txn[t] # Idle
        BY <3>3, ReaderKinds
      <4>2. txn'[t] # Idle => txn'[t].command \in OrderCommands
        BY <1>4, <4>1, ReadStepKeeps DEF OnOrder, ReadLead, Begin
      <4> QED
        BY <4>2 DEF OrderCommands
    <3>5. CASE Rollback(t)
      BY <3>5 DEF Rollback, Continue, TypeOK
    <3> QED
      BY <1>4, <3>1, <3>2, <3>3, <3>5 DEF ReadStep
  <2> HIDE DEF Fits
  <2> QED
    BY <1>2, <2>1, <2>2 DEF TypeOK
<1>5. CASE SetupStep(t) \/ OrderStep(t)
  <2>1. txn' = [txn EXCEPT ![t] = Idle]
    BY <1>5, SetupCommits, OrderCommits
  <2> QED
    BY <1>2, <2>1 DEF TypeOK
<1> QED
  BY <1>1, <1>4, <1>5

LEMMA OrderKeepsFollowing ==
  ASSUME LeadInv, Next
  PROVE  OrderFollowsLead'
<1> USE DEF LeadInv, OrderFollowsLead
<1>1. PICK t \in Txns : ReadStep(t) \/ SetupStep(t) \/ OrderStep(t)
  BY NextSplit
<1>2. CASE ReadStep(t)
  BY <1>2, ReadStepTypes DEF rows
<1>3. CASE SetupStep(t) \/ OrderStep(t)
  <2>1. CommitCases
    BY <1>3, SetupCommits, OrderCommits
  <2>2. NoOrder \notin Order
    BY DEF NoOrder, Order, Steps, DocumentSteps, UnitSteps, UnitField
  <2>3. order' \in Order => order' # NoOrder
    BY <2>2
  <2>4. CASE lead' = lead /\ OrderKept
    BY <2>3, <2>4 DEF OrderKept
  <2>5. CASE \E d \in BOOLEAN : Moved(lead.stage, d) /\ order' = order
    BY <2>5 DEF Moved
  <2>6. CASE /\ lead.stage = "SETUP" /\ Moved("FULFILLMENT", FALSE)
             /\ order' = [kind |-> NoProduct, step |-> "CHOOSE_PRODUCT"]
    BY <2>6 DEF Moved, NoOrder
  <2>7. CASE /\ lead.stage = "FULFILLMENT" /\ Moved("LIVE", FALSE)
             /\ order' \in Order /\ order'.step = "COMPLETED"
    BY <2>3, <2>7 DEF Moved
  <2> QED
    BY <2>1, <2>4, <2>5, <2>6, <2>7 DEF CommitCases
<1> QED
  BY <1>1, <1>2, <1>3

LEMMA InitLeadInv == Init => LeadInv
<1> SUFFICES ASSUME Init PROVE LeadInv
  OBVIOUS
<1>1. TypeOK
  BY DEF Init, TypeOK, Row, Stages, Units
<1>2. OrderFollowsLead
  BY DEF Init, OrderFollowsLead, NoOrder
<1> QED
  BY <1>1, <1>2 DEF Init, LeadInv, ReadsAreOld, StagesAsRead, OrdersAsRead, VenuesAsRead

LEMMA LeadInvKept == LeadInv /\ [Next]_vars => LeadInv'
<1> SUFFICES ASSUME LeadInv, [Next]_vars PROVE LeadInv'
  OBVIOUS
<1>1. CASE Next
  BY <1>1, NextTypes, ReadsStayOld, StagesStayAsRead, OrdersStayAsRead, VenuesStayAsRead,
     OrderKeepsFollowing DEF LeadInv
<1>2. CASE UNCHANGED vars
  BY <1>2, NextTypes DEF LeadInv, vars, ReadsAreOld, StagesAsRead, OrdersAsRead,
     VenuesAsRead, OrderFollowsLead, Allowed
<1> QED
  BY <1>1, <1>2

(* What every transaction in flight has read is either out of date by version  *)
(* or the row as it is, and the order follows the stage of the lead.           *)
THEOREM Inductive == Spec => []LeadInv
  BY InitLeadInv, LeadInvKept, PTL DEF Spec

(* The rows and the transactions keep their types.                             *)
THEOREM TypeCorrect == Spec => []TypeOK
<1>1. LeadInv => TypeOK
  BY DEF LeadInv
<1> QED
  BY <1>1, Inductive, PTL

(* An order exists exactly once its lead has left SETUP, and a completed order *)
(* belongs to a LIVE lead.                                                     *)
THEOREM OrdersFollowLeads == Spec => []OrderFollowsLead
<1>1. LeadInv => OrderFollowsLead
  BY DEF LeadInv
<1> QED
  BY <1>1, Inductive, PTL

(* No command in flight takes a lead back to an earlier stage.                 *)
THEOREM StagesOnlyAdvance == Spec => [][StagesAdvance]_vars
<1>1. LeadInv /\ [Next]_vars =>
        [StagesAdvance]_vars
  BY StageKept DEF StagesAdvance
<1> QED
  BY <1>1, Inductive, PTL DEF Spec

(* No command in flight changes a deleted lead, its venues or its order.       *)
THEOREM DeletedStaysFrozen == Spec => [][DeletedIsFrozen]_vars
<1>1. ASSUME LeadInv, Next, lead.deleted
      PROVE  UNCHANGED <<lead, venues, funded, order>>
  <2>1. PICK t \in Txns : ReadStep(t) \/ SetupStep(t) \/ OrderStep(t)
    BY <1>1, NextSplit
  <2>2. CASE ReadStep(t)
    BY <1>1, <2>2, ReadStepTypes DEF rows, LeadInv
  <2>3. CASE SetupStep(t)
    <3>1. txn[t] # Idle
      BY <2>3 DEF SetupStep, DeleteLead, EditLead, CreateVenue, AddVenueAccounts, Commit, Idle
    <3>2. ~Fresh(t)
      BY <1>1, <3>1, FreshIsSeen
    <3>3. ~DeleteLead(t) /\ ~EditLead(t) /\ ~AddVenueAccounts(t)
      BY <3>2 DEF DeleteLead, EditLead, AddVenueAccounts, Transition
    <3>4. ~CreateVenue(t)
      BY <1>1 DEF CreateVenue, Recorded
    <3> QED
      BY <2>3, <3>3, <3>4 DEF SetupStep
  <2>4. CASE OrderStep(t)
    <3>1. txn[t] # Idle
      BY <2>4 DEF OrderStep, ChooseProduct, AttachDocument, RecordUnitValue, ValidatePayment,
         Reject, Acts, Commit, Idle
    <3>2. ~Fresh(t) /\ ~Recorded(t)
      BY <1>1, <3>1, FreshIsSeen DEF Recorded
    <3>3. ~Advance(t)
      BY <3>2 DEF Advance, Transition
    <3> QED
      BY <2>4, <3>2, <3>3 DEF OrderStep, ChooseProduct, AttachDocument, RecordUnitValue,
         ValidatePayment, Reject, Acts
  <2> QED
    BY <2>1, <2>2, <2>3, <2>4
<1>2. LeadInv /\ [Next]_vars =>
        [DeletedIsFrozen]_vars
  BY <1>1 DEF DeletedIsFrozen
<1> QED
  BY <1>2, Inductive, PTL DEF Spec

-----------------------------------------------------------------------------
(* Every venue funded means the lead has left SETUP.                           *)

\* What the counts of a command that adds accounts are worth when they are used.
CountsAsRead ==
  \A t \in Txns :
    txn[t] # Idle /\ txn[t].command = "add-accounts" =>
      /\ txn[t].at # "venue" /\ Fresh(t) => txn[t].venue \notin funded
      /\ txn[t].at \in {"funded", "commit"} =>
           /\ txn[t].total <= Cardinality(venues)
           /\ txn[t].total > 0
           /\ Fresh(t) => Cardinality(funded) < txn[t].total
      /\ txn[t].at = "commit" /\ Fresh(t) => txn[t].funded = Cardinality(funded)

FundInv == LeadInv /\ CountsAsRead /\ FundedSetupAdvances

LEMMA Counts ==
  ASSUME TypeOK
  PROVE  /\ IsFiniteSet(venues) /\ IsFiniteSet(funded)
         /\ Cardinality(venues) \in Nat /\ Cardinality(funded) \in Nat
         /\ \A v \in venues \ funded : Cardinality(funded) < Cardinality(venues)
         /\ venues' \subseteq Venues /\ venues \subseteq venues'
              => Cardinality(venues') \in Nat /\ Cardinality(venues) <= Cardinality(venues')
<1>1. IsFiniteSet(venues) /\ IsFiniteSet(funded)
  BY FulfillmentAssumption, FS_Subset DEF TypeOK
<1>2. Cardinality(venues) \in Nat /\ Cardinality(funded) \in Nat
  BY <1>1, FS_CardinalityType
<1>3. ASSUME NEW v \in venues \ funded
      PROVE  Cardinality(funded) < Cardinality(venues)
  <2>1. Cardinality(funded) <= Cardinality(venues) /\ Cardinality(venues) # Cardinality(funded)
    BY <1>1, <1>3, FS_Subset DEF TypeOK
  <2> QED
    BY <1>2, <2>1
<1>4. ASSUME venues' \subseteq Venues, venues \subseteq venues'
      PROVE  Cardinality(venues') \in Nat /\ Cardinality(venues) <= Cardinality(venues')
  <2>1. IsFiniteSet(venues')
    BY <1>4, FulfillmentAssumption, FS_Subset
  <2> QED
    BY <1>4, <2>1, FS_Subset, FS_CardinalityType
<1> QED
  BY <1>1, <1>2, <1>3, <1>4

\* Accounts come with a new version of the lead.
LEMMA FundingIsVersioned ==
  ASSUME LeadInv, Next
  PROVE  /\ lead' = lead => funded' = funded
         /\ lead' # lead => lead'.version = lead.version + 1
<1>1. PICK t \in Txns : ReadStep(t) \/ SetupStep(t) \/ OrderStep(t)
  BY NextSplit
<1>2. CASE ReadStep(t)
  BY <1>2, ReadStepTypes DEF rows, LeadInv
<1>3. CASE SetupStep(t) \/ OrderStep(t)
  <2>1. CommitCases
    BY <1>3, SetupCommits, OrderCommits
  <2>2. lead' # lead => lead'.version = lead.version + 1
    BY <2>1 DEF CommitCases, Moved
  <2>3. CASE AddVenueAccounts(t)
    <3>1. txn[t] # Idle /\ Fresh(t)
      BY <2>3 DEF AddVenueAccounts, Transition, Commit, Idle
    <3>2. txn[t].seen = lead /\ lead \in Row
      BY <3>1, FreshIsSeen DEF LeadInv, TypeOK
    <3>3. lead'.version = lead.version + 1
      BY <2>3, <3>2 DEF AddVenueAccounts, Transition, Row
    <3>4. lead' # lead
      BY <3>2, <3>3 DEF Row
    <3> QED
      BY <2>2, <3>4
  <2>4. CASE ~AddVenueAccounts(t)
    BY <1>3, <2>2, <2>4 DEF SetupStep, DeleteLead, EditLead, CreateVenue, OrderStep,
       ChooseProduct, AttachDocument, RecordUnitValue, ValidatePayment, Reject, Acts
  <2> QED
    BY <2>3, <2>4
<1> QED
  BY <1>1, <1>2, <1>3

LEMMA CountsStayAsRead ==
  ASSUME LeadInv, CountsAsRead, Next
  PROVE  CountsAsRead'
<1> USE DEF LeadInv
<1> DEFINE Old(u) == lead.version = txn[u].seen.version
<1> DEFINE Right(r, V, F, fresh) ==
      r # Idle /\ r.command = "add-accounts" =>
        /\ r.at # "venue" /\ fresh => r.venue \notin F
        /\ r.at \in {"funded", "commit"} =>
             /\ r.total <= Cardinality(V)
             /\ r.total > 0
             /\ fresh => Cardinality(F) < r.total
        /\ r.at = "commit" /\ fresh => r.funded = Cardinality(F)
<1>1. PICK t \in Txns : ReadStep(t) \/ SetupStep(t) \/ OrderStep(t)
  BY NextSplit
<1>2. \A u \in Txns : Right(txn[u], venues, funded, Fresh(u))
  BY DEF CountsAsRead
<1>3. SUFFICES \A u \in Txns : Right(txn'[u], venues', funded', lead'.version = txn'[u].seen.version)
  BY DEF CountsAsRead, Fresh
<1>4. ASSUME NEW u \in Txns, txn'[u] = txn[u]
      PROVE  Right(txn'[u], venues', funded', lead'.version = txn'[u].seen.version)
  <2> SUFFICES ASSUME txn[u] # Idle, txn[u].command = "add-accounts"
               PROVE  Right(txn[u], venues', funded', lead'.version = txn[u].seen.version)
    BY <1>4
  <2>1. /\ Cardinality(venues) \in Nat /\ Cardinality(venues') \in Nat
        /\ Cardinality(venues) <= Cardinality(venues')
    BY Counts, VenuesGrow, NextTypes DEF TypeOK
  <2>2. txn[u] \in Accounts
    BY TxnCases
  <2>3. lead'.version = txn[u].seen.version => funded' = funded /\ Fresh(u)
    <3>1. txn[u].seen.version <= lead.version /\ txn[u].seen.version \in Nat /\ lead.version \in Nat
      BY TxnCases DEF ReadsAreOld, TypeOK, Row
    <3> QED
      BY <3>1, FundingIsVersioned DEF Fresh
  <2>4. txn[u].total \in Nat
    BY <2>2 DEF Accounts
  <2> QED
    BY <1>2, <2>1, <2>3, <2>4
<1>5. CASE ReadStep(t)
  <2>1. lead' = lead /\ venues' = venues /\ funded' = funded /\ txn' = [txn EXCEPT ![t] = txn'[t]]
    BY <1>5, ReadStepTypes DEF rows
  <2>2. Right(txn'[t], venues, funded, lead.version = txn'[t].seen.version)
    <3> SUFFICES ASSUME txn'[t] # Idle, txn'[t].command = "add-accounts"
                 PROVE  Right(txn'[t], venues, funded, lead.version = txn'[t].seen.version)
      OBVIOUS
    <3>1. CASE ReadLead(t)
      <4>1. txn'[t].at = "venue"
        BY <3>1 DEF ReadLead, Begin, TypeOK, LeadCommands, OrderCommands
      <4> QED
        BY <4>1
    <3>2. CASE ReadVenue(t)
      <4>1. txn[t] \in Accounts /\ txn[t] # Idle
        BY <3>2, ReaderKinds
      <4>2. txn'[t] = [txn[t] EXCEPT !.at = "total"] /\ txn[t].venue \notin funded
        BY <3>2 DEF ReadVenue, Continue, TypeOK
      <4> QED
        BY <4>1, <4>2 DEF Accounts
    <3>3. CASE CountVenues(t)
      <4>1. txn[t] \in Accounts /\ txn[t] # Idle /\ txn[t].command = "add-accounts"
        BY <3>3, ReaderKinds DEF Accounts
      <4>2. txn'[t] = [txn[t] EXCEPT !.at = "funded", !.total = Cardinality(venues)]
        BY <3>3 DEF CountVenues, Continue, TypeOK
      <4>3. txn[t].at = "total"
        BY <3>3 DEF CountVenues
      <4>4. txn[t].venue \in venues
        BY <4>1, <4>3 DEF VenuesAsRead
      <4>5. Cardinality(venues) \in Nat /\ Cardinality(venues) > 0
        BY <4>4, Counts, FS_EmptySet
      <4>6. txn[t].venue \notin funded => Cardinality(funded) < Cardinality(venues)
        BY <4>4, Counts
      <4>7. Right(txn[t], venues, funded, Fresh(t))
        BY <1>2
      <4>8. /\ txn'[t].at = "funded" /\ txn'[t].total = Cardinality(venues)
            /\ txn'[t].venue = txn[t].venue /\ txn'[t].seen = txn[t].seen
        BY <4>1, <4>2 DEF Accounts
      <4> QED
        BY <4>1, <4>3, <4>5, <4>6, <4>7, <4>8 DEF Fresh
    <3>4. CASE CountFunded(t)
      <4>1. txn[t] \in Accounts /\ txn[t] # Idle /\ txn[t].command = "add-accounts"
        BY <3>4, ReaderKinds DEF Accounts
      <4>2. txn'[t] = [txn[t] EXCEPT !.at = "commit", !.funded = Cardinality(funded)]
        BY <3>4 DEF CountFunded, Continue, TypeOK
      <4>3. txn[t].at = "funded"
        BY <3>4 DEF CountFunded
      <4>7. Right(txn[t], venues, funded, Fresh(t))
        BY <1>2
      <4>8. /\ txn'[t].at = "commit" /\ txn'[t].total = txn[t].total
            /\ txn'[t].funded = Cardinality(funded)
            /\ txn'[t].venue = txn[t].venue /\ txn'[t].seen = txn[t].seen
        BY <4>1, <4>2 DEF Accounts
      <4> QED
        BY <4>1, <4>3, <4>7, <4>8 DEF Fresh
    <3>5. CASE ReadOrder(t) \/ ReadUnits(t)
      <4>1. txn[t] \in OnOrder /\ txn[t] # Idle
        BY <3>5, ReaderKinds
      <4>2. txn'[t].command \in OrderCommands
        BY <1>5, <4>1, ReadStepKeeps DEF OnOrder
      <4> QED
        BY <4>2 DEF OrderCommands
    <3>6. CASE Rollback(t)
      BY <3>6 DEF Rollback, Continue, TypeOK
    <3> HIDE DEF Right
    <3> QED
      BY <1>5, <3>1, <3>2, <3>3, <3>4, <3>5, <3>6 DEF ReadStep
  <2> HIDE DEF Right
  <2> QED
    BY <1>4, <2>1, <2>2 DEF TypeOK
<1>6. CASE SetupStep(t) \/ OrderStep(t)
  <2>1. txn' = [txn EXCEPT ![t] = Idle]
    BY <1>6, SetupCommits, OrderCommits
  <2> QED
    BY <1>4, <2>1 DEF TypeOK
<1> QED
  BY <1>1, <1>5, <1>6

LEMMA FundingAdvances ==
  ASSUME FundInv, Next
  PROVE  FundedSetupAdvances'
<1> USE DEF FundInv, LeadInv, FundedSetupAdvances
<1>1. PICK t \in Txns : ReadStep(t) \/ SetupStep(t) \/ OrderStep(t)
  BY NextSplit
<1>2. CASE ReadStep(t)
  BY <1>2, ReadStepTypes DEF rows
<1>3. CASE DeleteLead(t) \/ EditLead(t) \/ OrderStep(t)
  <2>1. venues' = venues /\ funded' = funded
    BY <1>3 DEF DeleteLead, EditLead, OrderStep, ChooseProduct, AttachDocument,
                RecordUnitValue, ValidatePayment, Reject, Acts
  <2> QED
    BY <2>1, StageKept
<1>4. CASE CreateVenue(t)
  <2>1. PICK v \in Venues \ venues : venues' = venues \cup {v} /\ funded' = funded
    BY <1>4 DEF CreateVenue
  <2>2. v \notin funded'
    BY <2>1 DEF TypeOK
  <2> QED
    BY <2>1, <2>2
<1>5. CASE AddVenueAccounts(t)
  <2>1. /\ txn[t] # Idle /\ txn[t].command = "add-accounts" /\ txn[t].at = "commit"
        /\ Fresh(t)
    BY <1>5 DEF AddVenueAccounts, Transition, Commit, Idle
  <2>2. /\ txn[t].total <= Cardinality(venues) /\ txn[t].total > 0
        /\ Cardinality(funded) < txn[t].total /\ txn[t].funded = Cardinality(funded)
        /\ txn[t].venue \notin funded
    BY <2>1 DEF CountsAsRead
  <2>3. txn[t].total \in Nat
    BY <2>1, TxnCases DEF Accounts
  <2>4. CASE LastVenue(t)
    <3>1. lead'.stage = "FULFILLMENT"
      BY <1>5, <2>1, <2>4, TxnCases DEF AddVenueAccounts, Transition, Row
    <3> QED
      BY <3>1
  <2>5. CASE ~LastVenue(t)
    <3>1. Cardinality(funded) + 1 < Cardinality(venues)
      BY <2>2, <2>3, <2>5, Counts DEF LastVenue
    <3>2. Cardinality(funded') = Cardinality(funded) + 1
      BY <1>5, <2>2, Counts, FS_AddElement DEF AddVenueAccounts
    <3>3. venues' = venues
      BY <1>5 DEF AddVenueAccounts
    <3> QED
      BY <3>1, <3>2, <3>3, Counts
  <2> QED
    BY <2>4, <2>5
<1> QED
  BY <1>1, <1>2, <1>3, <1>4, <1>5 DEF SetupStep

(* A lead never stays in SETUP with all of its venues funded: whoever funds    *)
(* the last one has counted the others at the version it commits on.           *)
THEOREM FundedLeadsAdvance == Spec => []FundedSetupAdvances
<1>1. Init => CountsAsRead /\ FundedSetupAdvances
  BY DEF Init, CountsAsRead, FundedSetupAdvances
<1>2. FundInv /\ LeadInv' /\ [Next]_vars => CountsAsRead' /\ FundedSetupAdvances'
  <2> SUFFICES ASSUME FundInv, [Next]_vars PROVE CountsAsRead' /\ FundedSetupAdvances'
    OBVIOUS
  <2>1. CASE Next
    BY <2>1, CountsStayAsRead, FundingAdvances DEF FundInv
  <2>2. CASE UNCHANGED vars
    BY <2>2 DEF FundInv, vars, CountsAsRead, Fresh, FundedSetupAdvances
  <2> QED
    BY <2>1, <2>2
<1> QED
  BY <1>1, <1>2, Inductive, PTL DEF Spec, FundInv

-----------------------------------------------------------------------------
(* A LIVE lead whose product was chosen once has every sale registered.        *)

\* A command on the order that has read it.
HasRead(t) == txn[t] # Idle /\ txn[t].command \in OrderCommands /\ txn[t].at # "order"

\* Until a product is chosen, nothing but the choice can be in flight.
Unchosen ==
  choices = 0 =>
    /\ order.step \in {"NONE", "CHOOSE_PRODUCT"}
    /\ lead.stage # "LIVE"
    /\ \A t \in Txns : HasRead(t) => txn[t].order.step = "CHOOSE_PRODUCT"

\* From then on whoever acts on the order walks the sequence of that product.
ChosenOnce ==
  choices = 1 =>
    /\ order.kind \in Kinds
    /\ order.step \in (DOMAIN Successor[order.kind]) \cup {"COMPLETED"}
    /\ \A t \in Txns : HasRead(t) /\ txn[t].order.step # "CHOOSE_PRODUCT" =>
         /\ txn[t].order.kind = order.kind
         /\ txn[t].order.step \in DOMAIN Successor[order.kind]

\* Who registers the last sale has seen all the others registered.
LastIsLast ==
  choices = 1 =>
    \A t \in Txns :
      /\ HasRead(t) /\ txn[t].at = "commit" /\ txn[t].last
      /\ txn[t].order.step = "AWAITING_SALE_REGISTRATION"
      => \A i \in DOMAIN units \ {txn[t].unit} : "service_a_ref" \in units[i]

SaleInv == LeadInv /\ Unchosen /\ ChosenOnce /\ LastIsLast /\ LiveIsRegistered

\* What a reading step adds to what a command on the order has read.
LEMMA ReadingOrders ==
  ASSUME TypeOK, NEW t \in Txns, ReadStep(t), NEW u \in Txns, HasRead(u)'
  PROVE  \/ HasRead(u) /\ txn'[u] = txn[u]
         \/ /\ txn'[u].order = order /\ Allowed(txn'[u].command, order)
            /\ order.step \in UnitSteps => txn'[u].at = "units"
         \/ /\ HasRead(u) /\ txn'[u].order = txn[u].order
            /\ txn'[u].last = OthersFilled(txn'[u].unit, UnitField[txn[u].order.step])
<1>1. txn' = [txn EXCEPT ![t] = txn'[t]]
  BY ReadStepTypes
<1>2. CASE u # t
  BY <1>1, <1>2 DEF HasRead, TypeOK
<1>3. CASE u = t
  <2> USE <1>3 DEF HasRead
  <2>1. CASE ReadLead(t)
    BY <2>1 DEF ReadLead, Begin, TypeOK, LeadCommands, OrderCommands
  <2>2. CASE ReadVenue(t) \/ CountVenues(t) \/ CountFunded(t)
    <3>1. txn[t] \in Accounts /\ txn[t] # Idle
      BY <2>2, ReaderKinds
    <3>2. txn'[t].command = "add-accounts"
      BY <3>1, <2>2, ReadStepKeeps DEF ReadLead, Begin, Accounts
    <3> QED
      BY <3>2 DEF OrderCommands
  <2>3. CASE ReadOrder(t)
    <3>1. txn[t] \in OnOrder
      BY <2>3, ReaderKinds
    <3> DEFINE next == [txn[t] EXCEPT !.order = order,
                 !.at = IF txn[t].command = "act" /\ order.step \in UnitSteps
                        THEN "units" ELSE "commit"]
    <3>2. txn'[t] = next /\ Allowed(txn[t].command, order)
      BY <2>3 DEF ReadOrder, Continue, TypeOK
    <3>3. /\ next.order = order /\ next.command = txn[t].command
          /\ txn[t].command = "act" /\ order.step \in UnitSteps => next.at = "units"
      BY <3>1 DEF OnOrder
    <3>4. Allowed(txn[t].command, order) /\ order.step \in UnitSteps => txn[t].command # "reject"
      BY DEF Allowed, UnitSteps, UnitField, RejectTo
    <3> HIDE DEF next
    <3> QED
      BY <3>1, <3>2, <3>3, <3>4 DEF OnOrder, OrderCommands
  <2>4. CASE ReadUnits(t)
    <3>1. txn[t] \in OnOrder /\ txn[t] # Idle /\ txn[t].at = "units"
      BY <2>4, ReaderKinds DEF ReadUnits
    <3>2. PICK i \in DOMAIN units :
            txn'[t] = [txn[t] EXCEPT !.at = "commit", !.unit = i,
                         !.last = OthersFilled(i, UnitField[txn[t].order.step])]
      BY <2>4 DEF ReadUnits, Continue, TypeOK
    <3>3. /\ txn'[t].order = txn[t].order /\ txn'[t].unit = i
          /\ txn'[t].last = OthersFilled(i, UnitField[txn[t].order.step])
      BY <3>1, <3>2 DEF OnOrder
    <3> QED
      BY <3>1, <3>3 DEF OnOrder
  <2>5. CASE Rollback(t)
    BY <2>5 DEF Rollback, Continue, TypeOK
  <2> QED
    BY <2>1, <2>2, <2>3, <2>4, <2>5 DEF ReadStep
<1> QED
  BY <1>2, <1>3

\* Only a choice of product replaces the units; a registration is not undone.
LEMMA UnitsGrow ==
  ASSUME LeadInv, NEW t \in Txns, OrderStep(t), ~ChooseProduct(t)
  PROVE  /\ choices' = choices /\ DOMAIN units' = DOMAIN units
         /\ \A i \in DOMAIN units : "service_a_ref" \in units[i] => "service_a_ref" \in units'[i]
<1>1. CASE AttachDocument(t)
  BY <1>1 DEF AttachDocument
<1>2. CASE RecordUnitValue(t)
  BY <1>2 DEF RecordUnitValue
<1>3. CASE ValidatePayment(t)
  BY <1>3 DEF ValidatePayment
<1>4. CASE Reject(t)
  BY <1>4 DEF Reject, RejectClears
<1> QED
  BY <1>1, <1>2, <1>3, <1>4 DEF OrderStep

LEMMA SaleReads ==
  ASSUME SaleInv, NEW t \in Txns, ReadStep(t)
  PROVE  Unchosen' /\ ChosenOnce' /\ LastIsLast' /\ LiveIsRegistered'
<1> USE DEF SaleInv
<1>1. UNCHANGED rows
  BY ReadStepTypes DEF LeadInv
<1>2. ASSUME NEW u \in Txns, HasRead(u)'
      PROVE  \/ HasRead(u) /\ txn'[u] = txn[u]
             \/ /\ txn'[u].order = order /\ Allowed(txn'[u].command, order)
                /\ order.step \in UnitSteps => txn'[u].at = "units"
             \/ /\ HasRead(u) /\ txn'[u].order = txn[u].order
                /\ txn'[u].last = OthersFilled(txn'[u].unit, UnitField[txn[u].order.step])
  BY <1>2, ReadingOrders DEF LeadInv
<1>3. Unchosen'
  <2>1. order # NoOrder => order.step # "NONE"
    BY DEF LeadInv, TypeOK, Order, Steps, DocumentSteps, UnitSteps, UnitField
  <2> QED
    BY <1>1, <1>2, <2>1 DEF rows, Unchosen, Allowed
<1>4. ChosenOnce'
  BY <1>1, <1>2 DEF rows, ChosenOnce, Allowed
<1>5. LastIsLast'
  <2>1. UnitField["AWAITING_SALE_REGISTRATION"] = "service_a_ref"
        /\ "AWAITING_SALE_REGISTRATION" \in UnitSteps
    BY DEF UnitField, UnitSteps
  <2> SUFFICES ASSUME choices = 1, NEW u \in Txns, HasRead(u)', txn'[u].at = "commit",
                      txn'[u].last, txn'[u].order.step = "AWAITING_SALE_REGISTRATION"
               PROVE  \A i \in DOMAIN units \ {txn'[u].unit} : "service_a_ref" \in units[i]
    BY <1>1 DEF rows, LastIsLast
  <2>2. CASE HasRead(u) /\ txn'[u] = txn[u]
    BY <2>2 DEF LastIsLast
  <2>3. CASE /\ txn'[u].order = order /\ Allowed(txn'[u].command, order)
             /\ order.step \in UnitSteps => txn'[u].at = "units"
    BY <2>1, <2>3
  <2>4. CASE /\ HasRead(u) /\ txn'[u].order = txn[u].order
             /\ txn'[u].last = OthersFilled(txn'[u].unit, UnitField[txn[u].order.step])
    <3>1. OthersFilled(txn'[u].unit, "service_a_ref")
      BY <2>1, <2>4
    <3> QED
      BY <3>1 DEF OthersFilled
  <2> QED
    BY <1>2, <2>2, <2>3, <2>4
<1>6. LiveIsRegistered'
  BY <1>1 DEF rows, LiveIsRegistered
<1> QED
  BY <1>3, <1>4, <1>5, <1>6

\* A commit leaves the other transactions as they are.
LEMMA OthersKeepReading ==
  ASSUME TypeOK, NEW t \in Txns, txn' = [txn EXCEPT ![t] = Idle], NEW u \in Txns, HasRead(u)'
  PROVE  HasRead(u) /\ txn'[u] = txn[u] /\ u # t
  BY DEF TypeOK, HasRead

LEMMA SaleSetup ==
  ASSUME SaleInv, NEW t \in Txns, SetupStep(t)
  PROVE  Unchosen' /\ ChosenOnce' /\ LastIsLast' /\ LiveIsRegistered'
<1> USE DEF SaleInv
<1>1. CommitCases /\ txn' = [txn EXCEPT ![t] = Idle]
  BY SetupCommits
<1>2. UNCHANGED <<units, choices>>
  BY DEF SetupStep, DeleteLead, EditLead, CreateVenue, AddVenueAccounts
<1>3. \A u \in Txns : HasRead(u)' => HasRead(u) /\ txn'[u] = txn[u]
  BY <1>1, OthersKeepReading DEF LeadInv
<1>4. order' = order \/ order' = [kind |-> NoProduct, step |-> "CHOOSE_PRODUCT"]
  BY DEF SetupStep, DeleteLead, EditLead, CreateVenue, AddVenueAccounts
<1>5. order' # order => lead.stage = "SETUP" /\ order = NoOrder
  <2>1. order' # order => AddVenueAccounts(t) /\ Fresh(t) /\ txn[t] # Idle
    BY DEF SetupStep, DeleteLead, EditLead, CreateVenue, AddVenueAccounts, Transition, Commit, Idle
  <2> QED
    BY <2>1, FreshIsSeen DEF LeadInv, StagesAsRead, AddVenueAccounts, Commit, OrderFollowsLead
<1>6. lead'.stage = "LIVE" => lead.stage = "LIVE"
  <2>1. \/ lead' = lead
        \/ Moved(lead.stage, TRUE) \/ Moved(lead.stage, FALSE)
        \/ Moved("FULFILLMENT", FALSE)
        \/ order'.step = "COMPLETED" /\ lead.stage = "FULFILLMENT"
    BY <1>1 DEF CommitCases
  <2>2. order'.step = "COMPLETED" => order' = order
    BY <1>4
  <2> QED
    BY <2>1, <2>2 DEF Moved, LeadInv, OrderFollowsLead
<1>7. Unchosen'
  BY <1>2, <1>3, <1>4, <1>6 DEF Unchosen
<1>8. ChosenOnce'
  <2>1. choices = 1 => order # NoOrder
    <3>1. \A k \in Kinds : NoOrder.step \notin (DOMAIN Successor[k]) \cup {"COMPLETED"}
      BY DEF Kinds, Successor, NoOrder
    <3> QED
      BY <3>1 DEF ChosenOnce
  <2> QED
    BY <1>2, <1>3, <1>5, <2>1 DEF ChosenOnce
<1>9. LastIsLast' /\ LiveIsRegistered'
  BY <1>2, <1>3, <1>6 DEF LastIsLast, LiveIsRegistered
<1> QED
  BY <1>7, <1>8, <1>9

LEMMA SaleChoice ==
  ASSUME SaleInv, NEW t \in Txns, ChooseProduct(t)
  PROVE  Unchosen' /\ ChosenOnce' /\ LastIsLast' /\ LiveIsRegistered'
<1> USE DEF SaleInv
<1>1. choices' = choices + 1 /\ choices \in Nat /\ lead' = lead
  BY DEF ChooseProduct, LeadInv, TypeOK
<1>2. CASE choices # 0
  BY <1>1, <1>2 DEF Unchosen, ChosenOnce, LastIsLast, LiveIsRegistered
<1>3. CASE choices = 0
  <2>1. PICK kind \in Kinds :
          order' = [kind |-> kind, step |-> NextStep(kind, "CHOOSE_PRODUCT")]
    BY DEF ChooseProduct
  <2>2. NextStep(kind, "CHOOSE_PRODUCT") \in DOMAIN Successor[kind]
    BY DEF NextStep, Successor, Kinds
  <2>3. \A u \in Txns : HasRead(u)' => txn'[u].order.step = "CHOOSE_PRODUCT"
    <3>1. txn' = [txn EXCEPT ![t] = Idle]
      BY DEF ChooseProduct, Acts, Commit
    <3> QED
      BY <1>3, <3>1, OthersKeepReading DEF LeadInv, Unchosen
  <2>4. ChosenOnce'
    BY <2>1, <2>2, <2>3 DEF ChosenOnce
  <2>5. LastIsLast'
    BY <2>3 DEF LastIsLast
  <2>6. Unchosen' /\ LiveIsRegistered'
    BY <1>1, <1>3 DEF Unchosen, LiveIsRegistered
  <2> QED
    BY <2>4, <2>5, <2>6
<1> QED
  BY <1>2, <1>3

\* The other commands on the order, once its product was chosen.
LEMMA SaleSteps ==
  ASSUME SaleInv, NEW t \in Txns, OrderStep(t), ~ChooseProduct(t)
  PROVE  Unchosen' /\ ChosenOnce' /\ LastIsLast' /\ LiveIsRegistered'
<1> USE DEF SaleInv
<1>1. PICK c \in OrderCommands : Commit(t, c)
  BY DEF OrderStep, AttachDocument, RecordUnitValue, ValidatePayment, Reject, Acts, OrderCommands
<1>2. /\ txn[t] # Idle /\ txn[t] \in OnOrder /\ HasRead(t)
      /\ c = "reject" => txn[t].order.step \in DOMAIN RejectTo
  BY <1>1, ActFacts DEF LeadInv, HasRead, Commit
<1>3. txn[t].order.step # "CHOOSE_PRODUCT"
  <2>1. Reject(t) => txn[t].order.step \in DOMAIN RejectTo
    BY ActFacts DEF Reject, LeadInv, OrderCommands
  <2> QED
    BY <2>1 DEF OrderStep, AttachDocument, RecordUnitValue, ValidatePayment, Acts,
       DocumentSteps, UnitSteps, UnitField, RejectTo
<1>4. choices # 0
  BY <1>2, <1>3 DEF Unchosen
<1>5. choices' = choices
  BY UnitsGrow DEF LeadInv
<1>6. CASE choices # 1
  BY <1>4, <1>5, <1>6 DEF Unchosen, ChosenOnce, LastIsLast, LiveIsRegistered
<1>7. CASE choices = 1
  <2> DEFINE k == order.kind
             s == txn[t].order.step
  <2>1. /\ k \in Kinds /\ order \in Order
        /\ s \in DOMAIN Successor[k] /\ txn[t].order.kind = k
    <3>1. k \in Kinds /\ s \in DOMAIN Successor[k] /\ txn[t].order.kind = k
      BY <1>2, <1>3, <1>7 DEF ChosenOnce
    <3> QED
      BY <3>1 DEF LeadInv, TypeOK, Kinds, NoOrder, NoProduct
  <2>2. txn' = [txn EXCEPT ![t] = Idle]
    BY <1>1 DEF Commit
  <2>3. \A u \in Txns : HasRead(u)' => HasRead(u) /\ txn'[u] = txn[u]
    BY <2>2, OthersKeepReading DEF LeadInv
  <2>4. /\ DOMAIN units' = DOMAIN units
        /\ \A i \in DOMAIN units : "service_a_ref" \in units[i] => "service_a_ref" \in units'[i]
    BY UnitsGrow DEF LeadInv
  <2>5. LastIsLast'
    BY <1>5, <2>3, <2>4 DEF LastIsLast
  <2>6. Unchosen'
    BY <1>4, <1>5 DEF Unchosen
  <2>7. \/ UNCHANGED <<lead, order>>
        \/ /\ order' = [order EXCEPT !.step = RejectTo[s]] /\ s \in DOMAIN RejectTo
           /\ lead' = lead
        \/ /\ order' = [order EXCEPT !.step = NextStep(k, s)]
           /\ NextStep(k, s) # "COMPLETED" => lead' = lead
           /\ AttachDocument(t) \/ ValidatePayment(t) \/ (RecordUnitValue(t) /\ txn[t].last)
    BY <1>1, <1>2, <2>1 DEF OrderStep, AttachDocument, RecordUnitValue, ValidatePayment, Reject,
       Advance, Commit
  <2>8. ChosenOnce'
    <3>1. order'.kind = k /\ order'.step \in (DOMAIN Successor[k]) \cup {"COMPLETED"}
      BY <1>7, <2>1, <2>7, StepFacts DEF Order, ChosenOnce
    <3> QED
      BY <1>5, <1>7, <2>1, <2>3, <3>1 DEF ChosenOnce
  <2>9. LiveIsRegistered'
    <3>1. CASE lead' = lead
      BY <1>5, <2>4, <3>1 DEF LiveIsRegistered
    <3>2. CASE lead' # lead
      <4>1. /\ NextStep(k, s) = "COMPLETED"
            /\ AttachDocument(t) \/ ValidatePayment(t) \/ (RecordUnitValue(t) /\ txn[t].last)
        BY <2>7, <3>2
      <4>2. s = "AWAITING_SALE_REGISTRATION"
        BY <2>1, <4>1, StepFacts
      <4>3. RecordUnitValue(t) /\ txn[t].last
        BY <4>1, <4>2 DEF AttachDocument, ValidatePayment, Acts, DocumentSteps
      <4>4. \A i \in DOMAIN units \ {txn[t].unit} : "service_a_ref" \in units[i]
        BY <1>1, <1>2, <1>7, <4>2, <4>3 DEF LastIsLast, Commit
      <4>5. txn[t].unit \in DOMAIN units => "service_a_ref" \in units'[txn[t].unit]
        BY <4>2, <4>3 DEF RecordUnitValue, UnitField
      <4> QED
        BY <2>4, <4>4, <4>5 DEF LiveIsRegistered
    <3> QED
      BY <3>1, <3>2
  <2> QED
    BY <2>5, <2>6, <2>8, <2>9
<1> QED
  BY <1>6, <1>7

(* A lead whose product was chosen once is LIVE only with the sale of every    *)
(* unit registered: the steps of one product never meet those of another, and  *)
(* no registration is cleared, so the last one has seen all the others.        *)
THEOREM LiveLeadsAreRegistered == Spec => []LiveIsRegistered
<1>1. Init => Unchosen /\ ChosenOnce /\ LastIsLast /\ LiveIsRegistered
  BY DEF Init, Unchosen, ChosenOnce, LastIsLast, LiveIsRegistered, NoOrder, HasRead
<1>2. SaleInv /\ [Next]_vars => Unchosen' /\ ChosenOnce' /\ LastIsLast' /\ LiveIsRegistered'
  <2> SUFFICES ASSUME SaleInv, [Next]_vars
               PROVE  Unchosen' /\ ChosenOnce' /\ LastIsLast' /\ LiveIsRegistered'
    OBVIOUS
  <2>1. CASE Next
    <3>1. PICK t \in Txns : ReadStep(t) \/ SetupStep(t) \/ OrderStep(t)
      BY <2>1, NextSplit
    <3> QED
      BY <3>1, SaleReads, SaleSetup, SaleChoice, SaleSteps
  <2>2. CASE UNCHANGED vars
    BY <2>2 DEF SaleInv, vars, Unchosen, ChosenOnce, LastIsLast, LiveIsRegistered, HasRead
  <2> QED
    BY <2>1, <2>2
<1> QED
  BY <1>1, <1>2, Inductive, PTL DEF Spec, SaleInv

\* The lead moves forward, and not at all once it is deleted.
THEOREM LeadsOnlyAdvance == Spec => OnlyForward
  BY StagesOnlyAdvance, DeletedStaysFrozen, PTL DEF OnlyForward

=============================================================================
