--------------------------- MODULE LeadFulfillment ---------------------------
(* One lead from the accepted rate to LIVE: the venues and their accounts in   *)
(* SETUP, then the steps of the fulfillment order (apps/web/src/server/        *)
(* workflow/lead/venue and fulfillment).                                       *)
(*                                                                             *)
(* A command is one READ COMMITTED transaction. It reads the lead row first,   *)
(* then the order, then the units, or the venue and the two counts, each in a  *)
(* statement of its own and without a lock; its writes become visible together *)
(* when it commits. Only a change of the lead's stage goes through             *)
(* commitTransition and its version predicate. Venues, units and the step of   *)
(* the order are written by id alone, whatever they have become since they     *)
(* were read, next to history events that only ask that the lead is not        *)
(* deleted.                                                                    *)
EXTENDS Integers, Sequences, FiniteSets

CONSTANTS
    Venues,         \* identities of the venues that may be created
    Txns,           \* transactions that can be in flight at once
    MaxVersion,     \* bound: no command that leaves the stage alone starts
                    \* once the lead has this version
    MaxUnits        \* bound: a choice of product that adds units beyond it
                    \* does not commit

ASSUME FulfillmentAssumption ==
    /\ IsFiniteSet(Venues)
    /\ {MaxVersion, MaxUnits} \subseteq Nat

VARIABLES
    lead,       \* the workflow_leads row
    venues,     \* workflow_lead_venues of the lead
    funded,     \* the venues with rows in workflow_lead_venue_accounts
    order,      \* the lead_fulfillment_orders row
    units,      \* lead_fulfillment_units in creation order: the columns filled
    choices,    \* how many fulfillment_product_chosen events were written
    txn         \* the transactions in flight

vars == <<lead, venues, funded, order, units, choices, txn>>

Stages == {"SETUP", "FULFILLMENT", "LIVE"}

Row == [stage: Stages, deleted: BOOLEAN, version: Nat]

Kinds == {"pos_refurbished", "pos_new", "digital_only"}

NoProduct == "none"

-----------------------------------------------------------------------------
(* The steps of an order.                                                      *)

DocumentSteps == {"AWAITING_TRANSACTIONS_REPORT", "AWAITING_ADDENDUM",
                  "AWAITING_SIGNATURE", "AWAITING_PDF_COMPILE"}

\* The column of the units a per-unit step fills.
UnitField == [AWAITING_SERIALS |-> "serial_number",
              AWAITING_SERIAL_ENTRY |-> "serial_number",
              AWAITING_PAYMENT_LINK |-> "payment_url",
              AWAITING_PAYMENT |-> "payment_proof",
              AWAITING_SALE_REGISTRATION |-> "service_a_ref"]

UnitSteps == DOMAIN UnitField

Steps == DocumentSteps \cup UnitSteps
           \cup {"CHOOSE_PRODUCT", "AWAITING_PAYMENT_VALIDATION", "COMPLETED"}

Fields == {"serial_number", "payment_url", "payment_proof",
           "payment_validated", "service_a_ref"}

\* STEP_SEQUENCE, as the successor of each step but the last.
Successor ==
    [pos_refurbished |->
        [CHOOSE_PRODUCT |-> "AWAITING_TRANSACTIONS_REPORT",
         AWAITING_TRANSACTIONS_REPORT |-> "AWAITING_ADDENDUM",
         AWAITING_ADDENDUM |-> "AWAITING_SIGNATURE",
         AWAITING_SIGNATURE |-> "AWAITING_PDF_COMPILE",
         AWAITING_PDF_COMPILE |-> "AWAITING_SERIALS",
         AWAITING_SERIALS |-> "AWAITING_SALE_REGISTRATION",
         AWAITING_SALE_REGISTRATION |-> "COMPLETED"],
     pos_new |->
        [CHOOSE_PRODUCT |-> "AWAITING_SERIAL_ENTRY",
         AWAITING_SERIAL_ENTRY |-> "AWAITING_PAYMENT_LINK",
         AWAITING_PAYMENT_LINK |-> "AWAITING_PAYMENT",
         AWAITING_PAYMENT |-> "AWAITING_PAYMENT_VALIDATION",
         AWAITING_PAYMENT_VALIDATION |-> "AWAITING_SALE_REGISTRATION",
         AWAITING_SALE_REGISTRATION |-> "COMPLETED"],
     digital_only |->
        [CHOOSE_PRODUCT |-> "AWAITING_SALE_REGISTRATION",
         AWAITING_SALE_REGISTRATION |-> "COMPLETED"]]

\* nextStep: a step that is not of the product's sequence is followed by the end.
NextStep(kind, step) ==
    IF step \in DOMAIN Successor[kind] THEN Successor[kind][step] ELSE "COMPLETED"

\* REJECT_RULES: where a rejected step goes back to.
RejectTo == [AWAITING_PAYMENT_VALIDATION |-> "AWAITING_PAYMENT",
             AWAITING_PDF_COMPILE |-> "AWAITING_SIGNATURE",
             AWAITING_ADDENDUM |-> "AWAITING_TRANSACTIONS_REPORT"]

\* and the columns it clears.
RejectClears(step) ==
    IF step = "AWAITING_PAYMENT_VALIDATION" THEN {"payment_proof"} ELSE {}

-----------------------------------------------------------------------------
(* The rows and the transactions.                                              *)

Order == [kind: Kinds \cup {NoProduct}, step: Steps]

\* No row in lead_fulfillment_orders.
NoOrder == [kind |-> NoProduct, step |-> "NONE"]

Units == Seq(SUBSET Fields)

\* Commands that change the lead row and leave its stage.
LeadCommands == {"delete", "edit"}

SetupCommands == {"create-venue", "add-accounts"}

OrderCommands == {"act", "reject"}

Idle == [at |-> "idle"]

(* at: the next statement of the transaction; seen: the lead row it read; for  *)
(* the accounts of a venue, which one and the two counts; for a command on the *)
(* order, its row as it was read, the unit whose value is recorded and whether *)
(* every other unit had one when they were read.                               *)
Lead == [at: {"commit"}, command: LeadCommands \cup {"create-venue"}, seen: Row]

Accounts == [at: {"venue", "total", "funded", "commit"}, command: {"add-accounts"},
             seen: Row, venue: Venues, total: Nat, funded: Nat]

OnOrder == [at: {"order", "units", "commit"}, command: OrderCommands, seen: Row,
            order: Order \cup {NoOrder}, unit: Nat, last: BOOLEAN]

TypeOK ==
    /\ lead \in Row
    /\ venues \subseteq Venues
    /\ funded \subseteq venues
    /\ order \in Order \cup {NoOrder}
    /\ units \in Units
    /\ choices \in Nat
    /\ txn \in [Txns -> {Idle} \cup Lead \cup Accounts \cup OnOrder]

\* A lead whose rate was just accepted.
Init ==
    /\ lead = [stage |-> "SETUP", deleted |-> FALSE, version |-> 0]
    /\ venues = {}
    /\ funded = {}
    /\ order = NoOrder
    /\ units = <<>>
    /\ choices = 0
    /\ txn = [t \in Txns |-> Idle]

rows == <<lead, venues, funded, order, units, choices>>

-----------------------------------------------------------------------------
(* Reads. findById skips a deleted lead; a command refused by what it has read *)
(* ends there, without a trace. (The stage is looked at after the later reads; *)
(* as it is the stage of the row read first, the refusal is the same.)         *)

Begin(t, request) ==
    /\ txn[t] = Idle
    /\ ~lead.deleted
    /\ txn' = [txn EXCEPT ![t] = request]
    /\ UNCHANGED rows

ReadLead(t) ==
    \/ /\ lead.version < MaxVersion
       /\ \E c \in LeadCommands : Begin(t, [at |-> "commit", command |-> c, seen |-> lead])
    \/ /\ lead.stage = "SETUP"
       /\ \/ Begin(t, [at |-> "commit", command |-> "create-venue", seen |-> lead])
          \/ \E v \in Venues :
                Begin(t, [at |-> "venue", command |-> "add-accounts", seen |-> lead,
                          venue |-> v, total |-> 0, funded |-> 0])
    \/ /\ lead.stage = "FULFILLMENT"
       /\ \E c \in OrderCommands :
             Begin(t, [at |-> "order", command |-> c, seen |-> lead,
                       order |-> NoOrder, unit |-> 0, last |-> FALSE])

Continue(t, next) ==
    /\ txn' = [txn EXCEPT ![t] = next]
    /\ UNCHANGED rows

\* findById of the venue: it exists and has no accounts yet.
ReadVenue(t) ==
    /\ txn[t].at = "venue"
    /\ Continue(t, IF txn[t].venue \in venues \ funded
                   THEN [txn[t] EXCEPT !.at = "total"] ELSE Idle)

\* countByLeadId
CountVenues(t) ==
    /\ txn[t].at = "total"
    /\ Continue(t, [txn[t] EXCEPT !.at = "funded", !.total = Cardinality(venues)])

\* countWithAccounts
CountFunded(t) ==
    /\ txn[t].at = "funded"
    /\ Continue(t, [txn[t] EXCEPT !.at = "commit", !.funded = Cardinality(funded)])

\* loadForAction, or the checks of a rejection: the step must allow the command.
Allowed(c, row) ==
    /\ row # NoOrder
    /\ row.step # "COMPLETED"
    /\ c = "reject" => row.step \in DOMAIN RejectTo
    /\ c = "act" /\ row.step # "CHOOSE_PRODUCT" => row.kind # NoProduct

\* The units are read by every command; only a per-unit step looks at them.
ReadOrder(t) ==
    /\ txn[t].at = "order"
    /\ LET perUnit == txn[t].command = "act" /\ order.step \in UnitSteps
       IN  Continue(t, IF Allowed(txn[t].command, order)
                       THEN [txn[t] EXCEPT !.order = order,
                                           !.at = IF perUnit THEN "units" ELSE "commit"]
                       ELSE Idle)

\* Mutant: one unit stands for all of them.
OthersFilled_Any(u, field) == TRUE

OthersFilled(u, field) == \A i \in DOMAIN units \ {u} : field \in units[i]

ReadUnits(t) ==
    /\ txn[t].at = "units"
    /\ \E u \in DOMAIN units :
          Continue(t, [txn[t] EXCEPT !.at = "commit", !.unit = u,
                        !.last = OthersFilled(u, UnitField[txn[t].order.step])])

-----------------------------------------------------------------------------
(* What the last writes of a transaction ask of the lead row.                  *)

\* Mutant: the update of the lead has no version predicate.
Fresh_Any(t) == TRUE

\* commitTransition: UPDATE ... WHERE version = next.version - 1.
Fresh(t) == lead.version = txn[t].seen.version

\* Mutant: facts are appended to a deleted lead as well.
Recorded_Any(t) == TRUE

\* appendFacts: UPDATE ... WHERE deleted_at IS NULL.
Recorded(t) == ~lead.deleted

\* The row is written whole, from what was read.
Transition(t, stage) ==
    /\ Fresh(t)
    /\ lead' = [txn[t].seen EXCEPT !.stage = stage, !.version = @ + 1]

Commit(t, c) ==
    /\ txn[t].at = "commit"
    /\ txn[t].command = c
    /\ txn' = [txn EXCEPT ![t] = Idle]

-----------------------------------------------------------------------------
(* SETUP.                                                                      *)

DeleteLead(t) ==
    /\ Commit(t, "delete")
    /\ Fresh(t)
    /\ lead' = [txn[t].seen EXCEPT !.deleted = TRUE, !.version = @ + 1]
    /\ UNCHANGED <<venues, funded, order, units, choices>>

\* A reassignment, the legal representative, the commercial scope.
EditLead(t) ==
    /\ Commit(t, "edit")
    /\ Transition(t, txn[t].seen.stage)
    /\ UNCHANGED <<venues, funded, order, units, choices>>

CreateVenue(t) ==
    /\ Commit(t, "create-venue")
    /\ Recorded(t)
    /\ \E v \in Venues \ venues : venues' = venues \cup {v}
    /\ UNCHANGED <<lead, funded, order, units, choices>>

LastVenue(t) == txn[t].total > 0 /\ txn[t].funded + 1 = txn[t].total

\* The venue that completes the set opens the order.
AddVenueAccounts(t) ==
    /\ Commit(t, "add-accounts")
    /\ funded' = funded \cup {txn[t].venue}
    /\ IF LastVenue(t)
       THEN /\ Transition(t, "FULFILLMENT")
            /\ order' = [kind |-> NoProduct, step |-> "CHOOSE_PRODUCT"]
       ELSE /\ Transition(t, "SETUP")
            /\ UNCHANGED order
    /\ UNCHANGED <<venues, units, choices>>

-----------------------------------------------------------------------------
(* FULFILLMENT.                                                                *)

\* Mutant: the step is written outside the transaction.
Advance_Early(t) ==
    LET to == NextStep(txn[t].order.kind, txn[t].order.step)
    IN  /\ order' = [order EXCEPT !.step = to]
        /\ IF to = "COMPLETED" /\ Fresh(t)
           THEN Transition(t, "LIVE")
           ELSE Recorded(t) /\ UNCHANGED lead

\* setStep writes whatever step the order has by now; the last one also moves
\* the lead, and only that asks for its version.
Advance(t) ==
    LET to == NextStep(txn[t].order.kind, txn[t].order.step)
    IN  /\ order' = [order EXCEPT !.step = to]
        /\ IF to = "COMPLETED" THEN Transition(t, "LIVE")
                               ELSE Recorded(t) /\ UNCHANGED lead

Acts(t, steps) ==
    /\ Commit(t, "act")
    /\ txn[t].order.step \in steps
    /\ UNCHANGED <<venues, funded>>

\* One unit for each POS of each venue; every venue has one here.
BuildUnits(kind) ==
    LET count == IF kind = "digital_only" \/ venues = {} THEN 1
                                                         ELSE Cardinality(venues)
    IN  [i \in 1 .. count |-> {}]

\* The venues are listed under the lock of the order row setProductKind took.
ChooseProduct(t) ==
    /\ Acts(t, {"CHOOSE_PRODUCT"})
    /\ Recorded(t)
    /\ \E kind \in Kinds :
          /\ order' = [kind |-> kind, step |-> NextStep(kind, "CHOOSE_PRODUCT")]
          /\ units' = units \o BuildUnits(kind)
          /\ Len(units') <= MaxUnits
    /\ choices' = choices + 1
    /\ UNCHANGED lead

AttachDocument(t) ==
    /\ Acts(t, DocumentSteps)
    /\ Advance(t)
    /\ UNCHANGED <<units, choices>>

\* A value that does not complete the step is written without any event.
RecordUnitValue(t) ==
    /\ Acts(t, UnitSteps)
    /\ units' = [units EXCEPT ![txn[t].unit] = @ \cup {UnitField[txn[t].order.step]}]
    /\ IF txn[t].last THEN Advance(t) ELSE UNCHANGED <<lead, order>>
    /\ UNCHANGED choices

ValidatePayment(t) ==
    /\ Acts(t, {"AWAITING_PAYMENT_VALIDATION"})
    /\ Advance(t)
    /\ units' = [u \in DOMAIN units |-> units[u] \cup {"payment_validated"}]
    /\ UNCHANGED choices

Reject(t) ==
    /\ Commit(t, "reject")
    /\ Recorded(t)
    /\ order' = [order EXCEPT !.step = RejectTo[txn[t].order.step]]
    /\ units' = [u \in DOMAIN units |-> units[u] \ RejectClears(txn[t].order.step)]
    /\ UNCHANGED <<lead, venues, funded, choices>>

\* A write that finds no row, a refusal, a disconnected client.
Rollback(t) ==
    /\ txn[t] # Idle
    /\ Continue(t, Idle)

-----------------------------------------------------------------------------
Next ==
    \E t \in Txns :
        \/ ReadLead(t) \/ ReadVenue(t) \/ CountVenues(t) \/ CountFunded(t)
        \/ ReadOrder(t) \/ ReadUnits(t)
        \/ DeleteLead(t) \/ EditLead(t) \/ CreateVenue(t) \/ AddVenueAccounts(t)
        \/ ChooseProduct(t) \/ AttachDocument(t) \/ RecordUnitValue(t)
        \/ ValidatePayment(t) \/ Reject(t)
        \/ Rollback(t)

Spec == Init /\ [][Next]_vars

-----------------------------------------------------------------------------
(* Properties.                                                                 *)

(* A lead does not stay in SETUP with every venue funded: nothing would ever   *)
(* open its order, because only the request that funds the last venue does.    *)
(* Two requests that fund the last two venues each count the other's as open;  *)
(* the version predicate lets only one of them commit.                         *)
FundedSetupAdvances ==
    lead.stage = "SETUP" /\ venues # {} => funded # venues

(* The order exists exactly from the moment the lead enters FULFILLMENT, and a *)
(* completed order belongs to a LIVE lead: the two rows are written in one     *)
(* transaction, but only one of them carries a version.                        *)
OrderFollowsLead ==
    /\ order = NoOrder <=> lead.stage = "SETUP"
    /\ order.step = "COMPLETED" => lead.stage = "LIVE"

(* A LIVE lead has the sale of every unit registered, whatever stale step an   *)
(* overtaken command wrote in between, so long as its product was chosen once. *)
LiveIsRegistered ==
    lead.stage = "LIVE" /\ choices = 1
        => \A u \in DOMAIN units : "service_a_ref" \in units[u]

(* The stage only moves forward, though every command that touches the lead    *)
(* writes back the stage it has read.                                          *)
StagesAdvance ==
    /\ lead.stage = "FULFILLMENT" => lead'.stage # "SETUP"
    /\ lead.stage = "LIVE" => lead'.stage = "LIVE"

(* Once a lead is deleted neither it nor its venues nor the step of its order  *)
(* change again, whatever was in flight. (A unit value that does not complete  *)
(* its step is still written: that write appends no event.)                    *)
DeletedIsFrozen ==
    lead.deleted => UNCHANGED <<lead, venues, funded, order>>

(* The lead only moves forward, and not at all once it is deleted, although    *)
(* what was in flight writes rows that have no version.                        *)
OnlyForward == [][StagesAdvance /\ DeletedIsFrozen]_vars
=============================================================================
