-------------------------- MODULE LeadPricingProofs --------------------------
(***************************************************************************)
(* What LeadPricing promises for any number of leads, executives, versions *)
(* and transactions in flight.                                             *)
(***************************************************************************)
EXTENDS LeadPricing, FiniteSetTheorems, TLAPS

Releasing ==
  [step: {"release"}, by: Executives, at: Times, lead: Leads, seen: Row]

Resolving == [step: {"resolve", "create"}, by: Executives, at: Times]

\* A transaction that carries a lead row it has read.
Carries(t) == txn[t].step \in {"read", "ready", "release"}

\* A row that was read is an old one, or the row as it is.
ReadsAreOld ==
  \A t \in Txns : Carries(t) =>
    /\ Visible(txn[t].seen)
    /\ Exists(lead[txn[t].lead])
    /\ txn[t].seen.version <= lead[txn[t].lead].version
    /\ Fresh(t) => txn[t].seen = lead[txn[t].lead]

\* What the domain allowed of the row still holds of what was read.
RowsAsAllowed ==
  \A t \in Txns :
    /\ txn[t].step = "read" => txn[t].command \in PricingCommands
    /\ txn[t].step \in {"read", "ready"} =>
         /\ InStage(txn[t].command, txn[t].seen)
         /\ txn[t].command = "expire" => Lapsed(txn[t].seen, clock)
    /\ txn[t].step = "release" =>
         txn[t].seen.stage = "PRICING" /\ Lapsed(txn[t].seen, clock)

(* The proposals are read after the lead; while its version stands, what was   *)
(* read of them stands too.                                                    *)
RoundsAsRead ==
  \A t \in Txns :
    txn[t].step = "ready" /\ txn[t].command \in {"edit", "accept", "revise"} /\ Fresh(t) =>
      /\ txn[t].round = Latest(txn[t].lead)
      /\ Pending(txn[t].lead)
      /\ txn[t].command = "revise" => revisions[txn[t].lead] < MaxRevisions

Alone(l) == \A k \in Leads \ {l} : ~Exists(lead[k])

\* The owner of an organization with one lead moves with the version of it.
OwnersAsRead ==
  \A t \in Txns :
    (/\ txn[t].step \in {"read", "ready"} /\ txn[t].command \in OwnerCommands
     /\ Fresh(t) /\ Alone(txn[t].lead))
      => txn[t].by = owner.who

\* A lead that was never opened is not a deleted one.
NeverOpened == \A l \in Leads : ~Exists(lead[l]) => ~lead[l].deleted

PricingInv ==
  /\ TypeOK /\ AcceptedMovesToSetup /\ HoldMeansPricing /\ RevisionsAreCounted
  /\ OneLiveLead /\ NeverOpened
  /\ ReadsAreOld /\ RowsAsAllowed /\ RoundsAsRead /\ OwnersAsRead

-----------------------------------------------------------------------------
(* What a commit does to the lead it writes, seen from the rows alone.         *)

Rest == <<clock, lead, owner, proposals, revisions>>

\* The proposals and their revisions stay.
Untold == UNCHANGED <<proposals, revisions>>

Goes(l, from, to) == lead[l].stage = from /\ lead'[l].stage = to

Kept(l) ==
  /\ lead'[l].stage = lead[l].stage
  /\ lead'[l].expires = lead[l].expires
  /\ Untold

Reviewed(l) ==
  /\ \E to \in {"QUALIFYING", "DISQUALIFIED", "PRICING"} : Goes(l, "QUALIFYING", to)
  /\ lead'[l].expires = lead[l].expires
  /\ Untold

Proposed(l) ==
  /\ Goes(l, "PRICING", "PRICING")
  /\ proposals' = [proposals EXCEPT ![l] = Append(@, "pending")]
  /\ UNCHANGED revisions

Decided(l, outcome) ==
  /\ Pending(l)
  /\ proposals' = [proposals EXCEPT ![l][Latest(l)] = outcome]

Accepted(l) ==
  /\ Goes(l, "PRICING", "SETUP") /\ lead'[l].expires = NoHold
  /\ Decided(l, "accepted")
  /\ UNCHANGED revisions

Revised(l) ==
  /\ Goes(l, "PRICING", "PRICING")
  /\ Decided(l, "revision_requested")
  /\ revisions[l] < MaxRevisions
  /\ revisions' = [revisions EXCEPT ![l] = @ + 1]

Closed(l) == Goes(l, "PRICING", "CLOSED_LOST") /\ lead'[l].expires = NoHold /\ Untold

Expired(l) ==
  /\ Goes(l, "PRICING", "EXPIRED") /\ lead'[l].expires = NoHold /\ Untold
  /\ Lapsed(lead[l], clock)

Restarted(l) ==
  /\ Goes(l, "EXPIRED", "PRICING") /\ lead'[l].expires = lead[l].expires /\ Untold
  /\ OnlyLive(l)

\* Only a deletion writes the flag, and it leaves all the rest.
Changes(l) ==
  /\ Visible(lead[l])
  /\ lead' = [lead EXCEPT ![l] = lead'[l]] /\ lead'[l] \in Row
  /\ lead'[l].version = lead[l].version + 1
  /\ clock' = clock
  /\ lead'[l].deleted = lead[l].deleted \/ Kept(l)
  /\ \/ Kept(l)     \/ Reviewed(l) \/ Proposed(l) \/ Accepted(l)
     \/ Revised(l)  \/ Closed(l)   \/ Expired(l)  \/ Restarted(l)

\* A lead is opened where there was none.
Opens(k) ==
  /\ ~Exists(lead[k])
  /\ Holders = {}
  /\ lead' = [lead EXCEPT ![k] = lead'[k]] /\ lead'[k] \in Row
  /\ lead'[k].stage \in {"QUALIFYING", "PRICING", "DISQUALIFIED"}
  /\ lead'[k].expires = NoHold /\ ~lead'[k].deleted
  /\ clock' = clock
  /\ Untold

\* A transaction that ends and leaves nothing behind.
GivesUp(t) == UNCHANGED Rest /\ txn' = [txn EXCEPT ![t] = Idle]

\* A step of t that reads, or gives up: no row changes.
Reads(t) ==
  \/ \E c \in Commands, l \in Leads, e \in Executives \cup {BackOffice}, at \in Times :
        Open(t, c, l, e, at)
  \/ ReadProposals(t)
  \/ \E e \in Executives, at \in Times : RegisterLead(t, e, at)
  \/ ResolveRegistration(t)
  \/ GivesUp(t)

Releases(t) == ReleaseHolder(t) /\ Fresh(t)

-----------------------------------------------------------------------------
LEMMA StageNames ==
  /\ OwnerCommands = {"edit-scope", "accept", "revise", "close"}
  /\ PricingCommands = {"propose", "edit", "accept", "revise"}
  BY DEF OwnerCommands, PricingCommands

\* What a transaction holds, by its step.
LEMMA TxnKinds ==
  ASSUME TypeOK, NEW t \in Txns
  PROVE  /\ txn[t].step \in {"read", "ready"} => txn[t] \in Working
         /\ txn[t].step = "release" => txn[t] \in Releasing
         /\ txn[t].step \in {"resolve", "create"} => txn[t] \in Resolving
         /\ txn[t].step = "idle" <=> txn[t] = Idle
         /\ txn[t] \in {Idle} \cup Working \cup Releasing \cup Resolving
  BY DEF TypeOK, Working, Registering, Releasing, Resolving, Idle

\* A row that is carried, and the lead it is of.
LEMMA Carried ==
  ASSUME TypeOK, NEW t \in Txns, Carries(t)
  PROVE  /\ txn[t].lead \in Leads /\ txn[t].seen \in Row
         /\ txn[t].by \in Executives \cup {BackOffice}
         /\ lead[txn[t].lead] \in Row
  BY TxnKinds DEF Carries, Working, Releasing, TypeOK

-----------------------------------------------------------------------------
(* Every commit of a command finds the row it has read.                        *)
LEMMA CommitFinds ==
  ASSUME PricingInv, NEW t \in Txns, Command(t)
  PROVE  LET l == txn[t].lead IN
         /\ txn[t].step = "ready" /\ txn[t] \in Working
         /\ ~Conflicts(t) /\ Fresh(t)
         /\ l \in Leads /\ lead[l] \in Row /\ Visible(lead[l])
         /\ txn[t].seen = lead[l]
         /\ InStage(txn[t].command, lead[l])
         /\ txn' = [txn EXCEPT ![t] = Idle]
         /\ clock' = clock
<1>1. /\ txn[t].step = "ready" /\ ~Conflicts(t)
      /\ txn' = [txn EXCEPT ![t] = Idle] /\ clock' = clock
  BY DEF Command, ReviewLead, EditCommercialScope, ProposeRate, EditRateProposal, AcceptRate,
         RequestRateRevision, CloseLead, ExpireReservation, RestartQuotation, DeleteLead,
         ReassignLead, Commits
<1>2. Fresh(t)
  BY <1>1 DEF Conflicts
<1>3. txn[t] \in Working /\ Carries(t)
  BY <1>1, TxnKinds DEF PricingInv, Carries
<1>4. txn[t].lead \in Leads /\ lead[txn[t].lead] \in Row
  BY <1>3, Carried DEF PricingInv
<1>5. Visible(txn[t].seen) /\ txn[t].seen = lead[txn[t].lead]
  BY <1>2, <1>3 DEF PricingInv, ReadsAreOld
<1>6. InStage(txn[t].command, txn[t].seen)
  BY <1>1 DEF PricingInv, RowsAsAllowed
<1> QED
  BY <1>1, <1>2, <1>3, <1>4, <1>5, <1>6

\* The row a command writes.
LEMMA CommitWrites ==
  ASSUME PricingInv, NEW t \in Txns, Command(t), NEW c, NEW row \in Row, Commits(t, c, row)
  PROVE  LET l == txn[t].lead IN
         /\ lead' = [lead EXCEPT ![l] = lead'[l]]
         /\ lead'[l] = [row EXCEPT !.version = lead[l].version + 1]
         /\ lead'[l] \in Row
         /\ txn[t].command = c
<1> DEFINE l == txn[t].lead
           new == [row EXCEPT !.version = lead[l].version + 1]
<1>1. l \in Leads /\ lead[l] \in Row /\ txn[t].seen = lead[l]
  BY CommitFinds
<1>2. lead' = [lead EXCEPT ![l] = new] /\ txn[t].command = c
  BY <1>1 DEF Commits
<1>3. new \in Row
  BY <1>1 DEF Row
<1>4. l \in DOMAIN lead
  BY <1>1 DEF PricingInv, TypeOK
<1> HIDE DEF new
<1>5. lead'[l] = new
  BY <1>2, <1>4
<1> QED
  BY <1>2, <1>3, <1>5 DEF new

\* The rows a command may write differ from the row it found where it says so.
LEMMA CommandChanges ==
  ASSUME PricingInv, NEW t \in Txns, Command(t)
  PROVE  /\ Changes(txn[t].lead)
         /\ owner' = owner \/ ReassignLead(t)
<1> DEFINE l == txn[t].lead
           Base == /\ Visible(lead[l])
                   /\ lead' = [lead EXCEPT ![l] = lead'[l]] /\ lead'[l] \in Row
                   /\ lead'[l].version = lead[l].version + 1
                   /\ clock' = clock
<1>0. /\ l \in Leads /\ lead[l] \in Row /\ Visible(lead[l]) /\ txn[t].seen = lead[l]
      /\ InStage(txn[t].command, lead[l]) /\ clock' = clock /\ txn[t] \in Working
      /\ txn[t].step = "ready" /\ ~Conflicts(t) /\ Fresh(t)
  BY CommitFinds
<1>w. ASSUME NEW c, NEW row \in Row, Commits(t, c, row)
      PROVE  /\ Base /\ txn[t].command = c
             /\ lead'[l].stage = row.stage /\ lead'[l].expires = row.expires
             /\ lead'[l].deleted = row.deleted
  <2>1. /\ lead' = [lead EXCEPT ![l] = lead'[l]] /\ lead'[l] \in Row
        /\ lead'[l] = [row EXCEPT !.version = lead[l].version + 1]
        /\ txn[t].command = c
    BY <1>w, CommitWrites
  <2> QED
    BY <1>0, <2>1 DEF Row
<1> HIDE DEF Base
<1>r. Reserved(t) \in Nat
  BY <1>0, PricingAssumption DEF Reserved, Working, Times
<1>1. CASE ReviewLead(t)
  <2>1. PICK to \in {"QUALIFYING", "DISQUALIFIED", "PRICING"} :
          Commits(t, "review", [txn[t].seen EXCEPT !.stage = to])
    BY <1>1 DEF ReviewLead
  <2>2. [txn[t].seen EXCEPT !.stage = to] \in Row
    BY <1>0 DEF Row, Stages
  <2>3. /\ Base /\ txn[t].command = "review"
        /\ lead'[l].stage = to /\ lead'[l].expires = lead[l].expires
        /\ lead'[l].deleted = lead[l].deleted
    BY <1>0, <1>w, <2>1, <2>2 DEF Row
  <2>4. lead[l].stage = "QUALIFYING"
    BY <1>0, <2>3 DEF InStage, PricingCommands
  <2> QED
    BY <1>1, <2>3, <2>4 DEF ReviewLead, Changes, Base, Reviewed, Goes, Untold
<1>2. CASE EditCommercialScope(t) \/ EditRateProposal(t) \/ ReassignLead(t)
  <2>1. PICK c : Commits(t, c, txn[t].seen)
    BY <1>2 DEF EditCommercialScope, EditRateProposal, ReassignLead
  <2>2. /\ Base /\ lead'[l].stage = lead[l].stage /\ lead'[l].expires = lead[l].expires
        /\ lead'[l].deleted = lead[l].deleted
    BY <1>0, <1>w, <2>1
  <2>3. Untold
    BY <1>2 DEF EditCommercialScope, EditRateProposal, ReassignLead, Untold
  <2>4. owner' = owner \/ ReassignLead(t)
    BY <1>2 DEF EditCommercialScope, EditRateProposal
  <2> QED
    BY <2>2, <2>3, <2>4 DEF Changes, Base, Kept
<1>3. CASE DeleteLead(t)
  <2>1. [txn[t].seen EXCEPT !.deleted = TRUE] \in Row
    BY <1>0 DEF Row
  <2>2. Base /\ lead'[l].stage = lead[l].stage /\ lead'[l].expires = lead[l].expires
    BY <1>0, <1>3, <1>w, <2>1 DEF DeleteLead, Row
  <2> QED
    BY <1>3, <2>2 DEF DeleteLead, Changes, Base, Kept, Untold
<1>4. CASE ProposeRate(t)
  <2>1. [txn[t].seen EXCEPT !.expires = Reserved(t)] \in Row
    BY <1>0, <1>r DEF Row
  <2>2. /\ Base /\ txn[t].command = "propose"
        /\ lead'[l].stage = lead[l].stage /\ lead'[l].deleted = lead[l].deleted
    BY <1>0, <1>4, <1>w, <2>1 DEF ProposeRate, Row
  <2>3. lead[l].stage = "PRICING"
    BY <1>0, <2>2 DEF InStage, PricingCommands
  <2> QED
    BY <1>4, <2>2, <2>3 DEF ProposeRate, Changes, Base, Proposed, Goes
<1>5. CASE AcceptRate(t)
  <2> DEFINE row == [txn[t].seen EXCEPT !.stage = "SETUP", !.expires = NoHold]
  <2>1. /\ row \in Row /\ row.stage = "SETUP" /\ row.expires = NoHold
        /\ row.deleted = lead[l].deleted
    BY <1>0 DEF Row, Stages, NoHold
  <2>c. Commits(t, "accept", row)
    BY <1>5 DEF AcceptRate
  <2> HIDE DEF row
  <2>2. /\ Base /\ txn[t].command = "accept"
        /\ lead'[l].stage = "SETUP" /\ lead'[l].expires = NoHold
        /\ lead'[l].deleted = lead[l].deleted
    BY <1>w, <2>1, <2>c
  <2>3. lead[l].stage = "PRICING"
    BY <1>0, <2>2 DEF InStage, PricingCommands
  <2>4. txn[t].round = Latest(l) /\ Pending(l)
    BY <1>0, <2>2 DEF PricingInv, RoundsAsRead
  <2> QED
    BY <1>5, <2>2, <2>3, <2>4 DEF AcceptRate, MarkOutcome, Changes, Base, Accepted, Decided, Goes
<1>6. CASE RequestRateRevision(t)
  <2>1. [txn[t].seen EXCEPT !.expires = Reserved(t)] \in Row
    BY <1>0, <1>r DEF Row
  <2>2. /\ Base /\ txn[t].command = "revise"
        /\ lead'[l].stage = lead[l].stage /\ lead'[l].deleted = lead[l].deleted
    BY <1>0, <1>6, <1>w, <2>1 DEF RequestRateRevision, Row
  <2>3. lead[l].stage = "PRICING"
    BY <1>0, <2>2 DEF InStage, PricingCommands
  <2>4. txn[t].round = Latest(l) /\ Pending(l) /\ revisions[l] < MaxRevisions
    BY <1>0, <2>2 DEF PricingInv, RoundsAsRead
  <2> QED
    BY <1>6, <2>2, <2>3, <2>4 DEF RequestRateRevision, MarkOutcome, Changes, Base, Revised,
                                  Decided, Goes
<1>7. CASE CloseLead(t)
  <2> DEFINE row == [txn[t].seen EXCEPT !.stage = "CLOSED_LOST", !.expires = NoHold]
  <2>1. /\ row \in Row /\ row.stage = "CLOSED_LOST" /\ row.expires = NoHold
        /\ row.deleted = lead[l].deleted
    BY <1>0 DEF Row, Stages, NoHold
  <2>c. Commits(t, "close", row)
    BY <1>7 DEF CloseLead
  <2> HIDE DEF row
  <2>2. /\ Base /\ txn[t].command = "close"
        /\ lead'[l].stage = "CLOSED_LOST" /\ lead'[l].expires = NoHold
        /\ lead'[l].deleted = lead[l].deleted
    BY <1>w, <2>1, <2>c
  <2>3. lead[l].stage = "PRICING"
    BY <1>0, <2>2 DEF InStage
  <2> QED
    BY <1>7, <2>2, <2>3 DEF CloseLead, Changes, Base, Closed, Goes, Untold
<1>8. CASE ExpireReservation(t)
  <2> DEFINE row == [txn[t].seen EXCEPT !.stage = "EXPIRED", !.expires = NoHold]
  <2>1. /\ row \in Row /\ row.stage = "EXPIRED" /\ row.expires = NoHold
        /\ row.deleted = lead[l].deleted
    BY <1>0 DEF Row, Stages, NoHold
  <2>c. Commits(t, "expire", row)
    BY <1>8 DEF ExpireReservation
  <2> HIDE DEF row
  <2>2. /\ Base /\ txn[t].command = "expire"
        /\ lead'[l].stage = "EXPIRED" /\ lead'[l].expires = NoHold
        /\ lead'[l].deleted = lead[l].deleted
    BY <1>w, <2>1, <2>c
  <2>3. lead[l].stage = "PRICING"
    BY <1>0, <2>2 DEF InStage
  <2>4. Lapsed(lead[l], clock)
    BY <1>0, <2>2 DEF PricingInv, RowsAsAllowed
  <2> QED
    BY <1>8, <2>2, <2>3, <2>4 DEF ExpireReservation, Changes, Base, Expired, Goes, Untold
<1>9. CASE RestartQuotation(t)
  <2>1. [txn[t].seen EXCEPT !.stage = "PRICING"] \in Row
    BY <1>0 DEF Row, Stages
  <2>2. /\ Base /\ txn[t].command = "restart"
        /\ lead'[l].stage = "PRICING" /\ lead'[l].expires = lead[l].expires
        /\ lead'[l].deleted = lead[l].deleted
    BY <1>0, <1>9, <1>w, <2>1 DEF RestartQuotation, Row
  <2>3. lead[l].stage = "EXPIRED" /\ OnlyLive(l)
    BY <1>0, <2>2 DEF InStage, Conflicts, PricingCommands
  <2> QED
    BY <1>9, <2>2, <2>3 DEF RestartQuotation, Changes, Base, Restarted, Goes, Untold
<1> QED
  BY <1>1, <1>2, <1>3, <1>4, <1>5, <1>6, <1>7, <1>8, <1>9 DEF Command

LEMMA NextSplit ==
  ASSUME Next
  PROVE  \/ Tick
         \/ \E t \in Txns : Reads(t) \/ Command(t) \/ Releases(t) \/ CreateLead(t)
<1>1. ASSUME NEW t \in Txns, Request(t)
      PROVE  Reads(t)
  BY <1>1 DEF Request, Reads
<1>2. ASSUME NEW l \in Leads, Sweep(l)
      PROVE  Reads(Sweeper)
  BY <1>2 DEF Sweep, Reads, Commands
<1>3. ASSUME NEW t \in Txns, Rollback(t) \/ CreateFails(t)
      PROVE  GivesUp(t)
  BY <1>3 DEF Rollback, CreateFails, GivesUp, Rest
<1>4. ASSUME NEW t \in Txns, ReleaseHolder(t)
      PROVE  Releases(t) \/ GivesUp(t)
  BY <1>4 DEF ReleaseHolder, Releases, GivesUp, Rest
<1> QED
  BY <1>1, <1>2, <1>3, <1>4, PricingAssumption
     DEF Next, Starts, Proceeds, Registration, Reads

\* A registration that releases the lead expires it like the command does.
LEMMA ReleaseChanges ==
  ASSUME PricingInv, NEW t \in Txns, Releases(t)
  PROVE  /\ Changes(txn[t].lead)
         /\ txn[t] \in Releasing /\ txn[t].lead \in Leads
         /\ UNCHANGED owner
         /\ txn' = [txn EXCEPT ![t] = [step |-> "resolve", by |-> txn[t].by,
                                       at |-> txn[t].at]]
<1> DEFINE l == txn[t].lead
           row == [txn[t].seen EXCEPT !.stage = "EXPIRED", !.expires = NoHold,
                                      !.version = @ + 1]
<1>1. txn[t] \in Releasing /\ Carries(t) /\ txn[t].step = "release"
  BY TxnKinds DEF Releases, ReleaseHolder, PricingInv, Carries
<1>2. l \in Leads /\ lead[l] \in Row /\ txn[t].seen \in Row
  BY <1>1, Carried DEF PricingInv
<1>3. Visible(lead[l]) /\ txn[t].seen = lead[l]
  BY <1>1 DEF PricingInv, ReadsAreOld, Releases
<1>4. lead[l].stage = "PRICING" /\ Lapsed(lead[l], clock)
  BY <1>1, <1>3 DEF PricingInv, RowsAsAllowed
<1>5. /\ row \in Row /\ row.stage = "EXPIRED" /\ row.expires = NoHold
      /\ row.deleted = lead[l].deleted /\ row.version = lead[l].version + 1
  <2>1. txn[t].seen.version + 1 \in Nat
    BY <1>2 DEF Row
  <2>2. /\ row.stage = "EXPIRED" /\ row.expires = NoHold
        /\ row.deleted = txn[t].seen.deleted /\ row.version = txn[t].seen.version + 1
    BY <1>2 DEF Row
  <2>3. row \in Row
    BY <1>2, <2>1 DEF Row, Stages, NoHold
  <2> QED
    BY <1>3, <2>2, <2>3
<1>6. lead' = [lead EXCEPT ![l] = row] /\ UNCHANGED <<clock, owner, proposals, revisions>>
  BY DEF Releases, ReleaseHolder
<1> HIDE DEF row
<1>7. lead'[l] = row
  BY <1>2, <1>6 DEF PricingInv, TypeOK
<1>8. Expired(l)
  BY <1>4, <1>5, <1>6, <1>7 DEF Expired, Goes, Untold
<1>9. Changes(l)
  BY <1>3, <1>5, <1>6, <1>7, <1>8 DEF Changes
<1> QED
  BY <1>1, <1>2, <1>6, <1>9 DEF Releases, ReleaseHolder

\* A registration that inserts opens a lead of its own.
LEMMA CreateOpens ==
  ASSUME TypeOK, NEW t \in Txns, CreateLead(t)
  PROVE  /\ \E k \in Leads : Opens(k)
         /\ txn[t] \in Resolving /\ txn[t].step = "create"
         /\ txn' = [txn EXCEPT ![t] = Idle]
<1> DEFINE k == CHOOSE l \in Unused : TRUE
<1>1. k \in Leads /\ ~Exists(lead[k])
  BY DEF CreateLead, Unused
<1>2. txn[t] \in Resolving /\ txn[t].step = "create"
  BY TxnKinds DEF CreateLead
<1>3. PICK born \in {<<"QUALIFYING", 0>>, <<"PRICING", 2>>, <<"DISQUALIFIED", 2>>} :
        lead' = [lead EXCEPT ![k] = [NoRow EXCEPT !.stage = born[1], !.version = born[2]]]
  BY DEF CreateLead
<1>b. born[1] \in {"QUALIFYING", "PRICING", "DISQUALIFIED"} /\ born[2] \in Nat
  OBVIOUS
<1> DEFINE row == [NoRow EXCEPT !.stage = born[1], !.version = born[2]]
<1>4. /\ row \in Row /\ row.stage \in {"QUALIFYING", "PRICING", "DISQUALIFIED"}
      /\ row.expires = NoHold /\ ~row.deleted
  BY <1>b DEF NoRow, Row, Stages, NoHold
<1> HIDE DEF row, k
<1>5. lead' = [lead EXCEPT ![k] = row] /\ lead'[k] = row
  BY <1>1, <1>3 DEF row, TypeOK
<1>6. Opens(k)
  BY <1>1, <1>4, <1>5 DEF Opens, CreateLead, Untold
<1> QED
  BY <1>1, <1>2, <1>6 DEF CreateLead

\* What a step that reads does to its own transaction and to nothing else.
LEMMA ReadTypes ==
  ASSUME TypeOK, NEW t \in Txns, Reads(t)
  PROVE  /\ UNCHANGED Rest
         /\ txn' = [txn EXCEPT ![t] = txn'[t]]
         /\ txn'[t] \in {Idle} \cup Working \cup Registering
<1> DEFINE New(r) == UNCHANGED Rest /\ txn' = [txn EXCEPT ![t] = r]
<1>a. ASSUME NEW r \in {Idle} \cup Working \cup Registering, New(r)
      PROVE  /\ UNCHANGED Rest
             /\ txn' = [txn EXCEPT ![t] = txn'[t]]
             /\ txn'[t] \in {Idle} \cup Working \cup Registering
  BY <1>a DEF TypeOK
<1>1. CASE \E c \in Commands, l \in Leads, e \in Executives \cup {BackOffice}, at \in Times :
             Open(t, c, l, e, at)
  <2>1. PICK c \in Commands, l \in Leads, e \in Executives \cup {BackOffice}, at \in Times :
          Open(t, c, l, e, at)
    BY <1>1
  <2> DEFINE r == [step |-> IF c \in PricingCommands THEN "read" ELSE "ready",
                   command |-> c, lead |-> l, by |-> e,
                   at |-> IF c \in DatedCommands THEN at ELSE 0,
                   seen |-> lead[l], round |-> 0]
  <2>2. r \in Working
    BY DEF Working, TypeOK
  <2>3. New(r)
    BY <2>1 DEF Open, Rest
  <2> HIDE DEF r
  <2> QED
    BY <1>a, <2>2, <2>3
<1>2. CASE ReadProposals(t)
  <2>1. txn[t] \in Working
    BY <1>2, TxnKinds DEF ReadProposals
  <2>2. Latest(txn[t].lead) \in Nat
    BY <2>1 DEF Latest, TypeOK, Working
  <2>3. ASSUME NEW n \in Nat
        PROVE  [txn[t] EXCEPT !.step = "ready", !.round = n] \in Working
    BY <2>1 DEF Working
  <2>4. \E r \in {Idle} \cup Working : New(r)
    <3> DEFINE n == IF txn[t].command = "propose" THEN Latest(txn[t].lead) + 1
                                                  ELSE Latest(txn[t].lead)
               r == [txn[t] EXCEPT !.step = "ready", !.round = n]
    <3>1. New(Idle) \/ New(r)
      BY <1>2 DEF ReadProposals, Rest, TypeOK
    <3>2. n \in Nat
      BY <2>2
    <3> HIDE DEF n
    <3>3. r \in Working
      BY <2>3, <3>2
    <3> HIDE DEF r
    <3> QED
      BY <3>1, <3>3
  <2> QED
    BY <1>a, <2>4
<1>3. CASE \E e \in Executives, at \in Times : RegisterLead(t, e, at)
  <2>1. PICK e \in Executives, at \in Times : RegisterLead(t, e, at)
    BY <1>3
  <2>2. ASSUME NEW l \in Leads
        PROVE  [step |-> "release", by |-> e, at |-> at, lead |-> l, seen |-> lead[l]]
                 \in Registering
    BY DEF Registering, TypeOK
  <2>3. [step |-> "create", by |-> e, at |-> at] \in Registering
    BY DEF Registering
  <2>4. \E r \in Registering : New(r)
    BY <2>1, <2>2, <2>3 DEF RegisterLead, Rest, Holders
  <2> QED
    BY <1>a, <2>4
<1>4. CASE ResolveRegistration(t)
  <2>1. txn[t] \in Resolving
    BY <1>4, TxnKinds DEF ResolveRegistration
  <2>2. [txn[t] EXCEPT !.step = "create"] \in Registering
    BY <2>1 DEF Resolving, Registering
  <2>3. \E r \in {Idle} \cup Registering : New(r)
    BY <1>4, <2>2 DEF ResolveRegistration, Rest, TypeOK
  <2> QED
    BY <1>a, <2>3
<1>5. CASE GivesUp(t)
  BY <1>5, <1>a DEF GivesUp
<1> QED
  BY <1>1, <1>2, <1>3, <1>4, <1>5 DEF Reads

-----------------------------------------------------------------------------
(* The rounds of a lead that have an outcome, and what the writes do to them.  *)
Told(s, outcome) == {r \in 1 .. Len(s) : s[r] = outcome}

LEMMA ToldAppend ==
  ASSUME NEW s \in Seq(Outcomes), NEW o, o # "pending"
  PROVE  /\ Append(s, "pending") \in Seq(Outcomes)
         /\ Told(Append(s, "pending"), o) = Told(s, o)
<1> DEFINE n == Len(s)
           a == Append(s, "pending")
<1>1. n \in Nat /\ Len(a) = n + 1 /\ a[n + 1] = "pending"
  OBVIOUS
<1>2. \A r \in 1 .. n : a[r] = s[r]
  OBVIOUS
<1>3. a \in Seq(Outcomes)
  BY DEF Outcomes
<1>4. Told(a, o) = Told(s, o)
  <2> HIDE DEF a
  <2>1. ASSUME NEW r
        PROVE  r \in Told(a, o) <=> r \in Told(s, o)
    <3>1. CASE r \in 1 .. n
      BY <1>1, <1>2, <3>1 DEF Told
    <3>2. CASE r \notin 1 .. n
      <4>1. r \in 1 .. n + 1 => r = n + 1
        BY <1>1, <3>2
      <4> QED
        BY <1>1, <3>2, <4>1 DEF Told
    <3> QED
      BY <3>1, <3>2
  <2> QED
    BY <2>1
<1> QED
  BY <1>3, <1>4

LEMMA ToldDecide ==
  ASSUME NEW s \in Seq(Outcomes), NEW o \in Outcomes, o # "pending",
         Len(s) > 0, s[Len(s)] = "pending", NEW d, d = [s EXCEPT ![Len(s)] = o]
  PROVE  /\ d \in Seq(Outcomes) /\ Len(d) = Len(s)
         /\ \A r \in 1 .. Len(s) : r # Len(s) => d[r] = s[r]
         /\ Told(d, o) = Told(s, o) \cup {Len(s)} /\ Len(s) \notin Told(s, o)
         /\ \A p : p \notin {o, "pending"} => Told(d, p) = Told(s, p)
<1> DEFINE n == Len(s)
<1>1. n \in Nat /\ n > 0 /\ s \in [1 .. n -> Outcomes] /\ n \in 1 .. n
  <2>1. n \in Nat /\ s \in [1 .. n -> Outcomes]
    OBVIOUS
  <2> QED
    BY <2>1
<1> HIDE DEF n
<1>d. d = [s EXCEPT ![n] = o] /\ s[n] = "pending"
  BY DEF n
<1>2. d \in [1 .. n -> Outcomes] /\ d[n] = o /\ \A r \in 1 .. n : r # n => d[r] = s[r]
  BY <1>1, <1>d
<1>3. d \in Seq(Outcomes) /\ Len(d) = n
  BY <1>1, <1>2
<1>4. ASSUME NEW p, p # "pending", NEW r
      PROVE  r \in Told(d, p) <=> r \in Told(s, p) \/ (r = n /\ p = o)
  <2>1. CASE r = n
    BY <1>1, <1>2, <1>3, <1>4, <1>d, <2>1 DEF Told
  <2>2. CASE r # n
    BY <1>2, <1>3, <2>2 DEF Told, n
  <2> QED
    BY <2>1, <2>2
<1>5. Told(d, o) = Told(s, o) \cup {n} /\ n \notin Told(s, o)
  <2>1. \A r : r \in Told(d, o) <=> r \in Told(s, o) \/ r = n
    BY <1>4
  <2>2. n \notin Told(s, o)
    BY <1>d DEF Told
  <2> QED
    BY <2>1, <2>2
<1>6. ASSUME NEW p, p \notin {o, "pending"}
      PROVE  Told(d, p) = Told(s, p)
  <2>1. \A r : r \in Told(d, p) <=> r \in Told(s, p)
    BY <1>4, <1>6
  <2> QED
    BY <2>1 DEF Told
<1>7. \A p : p \notin {o, "pending"} => Told(d, p) = Told(s, p)
  BY <1>6
<1>8. n = Len(s)
  BY DEF n
<1> QED
  BY <1>2, <1>3, <1>5, <1>7, <1>8

LEMMA ToldFinite ==
  ASSUME NEW s \in Seq(Outcomes), NEW o
  PROVE  IsFiniteSet(Told(s, o)) /\ Cardinality(Told(s, o)) \in Nat
<1>1. IsFiniteSet(1 .. Len(s))
  BY FS_Interval
<1>2. Told(s, o) \in SUBSET (1 .. Len(s))
  BY DEF Told
<1>3. IsFiniteSet(Told(s, o))
  BY <1>1, <1>2, FS_Subset
<1> QED
  BY <1>3, FS_CardinalityType

LEMMA RoundsTold == \A l, o : Rounds(l, o) = Told(proposals[l], o)
  BY DEF Rounds, Told, Latest

\* What a decision does to the proposals of its lead.
LEMMA DecidedTold ==
  ASSUME TypeOK, NEW l \in Leads, NEW o \in {"accepted", "revision_requested"}, Decided(l, o)
  PROVE  /\ proposals' \in [Leads -> Seq(Outcomes)]
         /\ \A k \in Leads \ {l} : proposals'[k] = proposals[k]
         /\ Len(proposals'[l]) = Len(proposals[l])
         /\ \A r \in 1 .. Len(proposals[l]) :
              r # Len(proposals[l]) => proposals'[l][r] = proposals[l][r]
         /\ Told(proposals'[l], o) = Told(proposals[l], o) \cup {Len(proposals[l])}
         /\ Len(proposals[l]) \notin Told(proposals[l], o)
         /\ \A p : p \notin {o, "pending"} => Told(proposals'[l], p) = Told(proposals[l], p)
         /\ proposals[l][Len(proposals[l])] = "pending"
<1> DEFINE s == proposals[l]
           d == [s EXCEPT ![Len(s)] = o]
<1>1. s \in Seq(Outcomes) /\ Len(s) > 0 /\ s[Len(s)] = "pending"
  BY DEF TypeOK, Decided, Pending, Latest
<1>2. proposals' = [proposals EXCEPT ![l] = d]
  BY DEF Decided, Latest
<1>3. o \in Outcomes /\ o # "pending"
  BY DEF Outcomes
<1>4. /\ d \in Seq(Outcomes) /\ Len(d) = Len(s)
      /\ \A r \in 1 .. Len(s) : r # Len(s) => d[r] = s[r]
      /\ Told(d, o) = Told(s, o) \cup {Len(s)} /\ Len(s) \notin Told(s, o)
      /\ \A p : p \notin {o, "pending"} => Told(d, p) = Told(s, p)
  BY <1>1, <1>3, ToldDecide
<1> HIDE DEF d
<1>5. proposals'[l] = d /\ \A k \in Leads \ {l} : proposals'[k] = proposals[k]
  BY <1>2 DEF TypeOK
<1>6. proposals' \in [Leads -> Seq(Outcomes)]
  BY <1>2, <1>4 DEF TypeOK
<1> QED
  BY <1>1, <1>4, <1>5, <1>6

-----------------------------------------------------------------------------
(* What a commit leaves of the other leads, and the types of what it writes.   *)
Touches(l) ==
  /\ lead' \in [Leads -> Row] /\ proposals' \in [Leads -> Seq(Outcomes)]
  /\ revisions' \in [Leads -> 0 .. MaxRevisions] /\ clock' = clock
  /\ \A k \in Leads \ {l} : /\ lead'[k] = lead[k] /\ proposals'[k] = proposals[k]
                            /\ revisions'[k] = revisions[k]
  /\ Exists(lead'[l])
  /\ ~Exists(lead[l]) \/ lead'[l].version = lead[l].version + 1

LEMMA ChangeTouches ==
  ASSUME TypeOK, NEW l \in Leads, Changes(l)
  PROVE  Touches(l)
<1>1. /\ lead' \in [Leads -> Row] /\ clock' = clock
      /\ \A k \in Leads \ {l} : lead'[k] = lead[k]
      /\ lead'[l].version = lead[l].version + 1
  <2>1. lead' = [lead EXCEPT ![l] = lead'[l]] /\ lead'[l] \in Row
    BY DEF Changes
  <2> QED
    BY <2>1 DEF Changes, TypeOK
<1>2. /\ proposals' \in [Leads -> Seq(Outcomes)]
      /\ \A k \in Leads \ {l} : proposals'[k] = proposals[k]
  <2>1. CASE Untold
    BY <2>1 DEF Untold, TypeOK
  <2>2. CASE Proposed(l)
    <3>1. Append(proposals[l], "pending") \in Seq(Outcomes)
      BY DEF TypeOK, Outcomes
    <3> QED
      BY <2>2, <3>1 DEF Proposed, TypeOK
  <2>3. CASE Accepted(l) \/ Revised(l)
    BY <2>3, DecidedTold DEF Accepted, Revised
  <2> QED
    BY <2>1, <2>2, <2>3 DEF Changes, Kept, Reviewed, Closed, Expired, Restarted
<1>3. /\ revisions' \in [Leads -> 0 .. MaxRevisions]
      /\ \A k \in Leads \ {l} : revisions'[k] = revisions[k]
  <2>1. CASE UNCHANGED revisions
    BY <2>1 DEF TypeOK
  <2>2. CASE Revised(l)
    <3>1. revisions[l] + 1 \in 0 .. MaxRevisions
      BY <2>2, PricingAssumption DEF Revised, TypeOK
    <3> QED
      BY <2>2, <3>1 DEF Revised, TypeOK
  <2> QED
    BY <2>1, <2>2 DEF Changes, Kept, Reviewed, Proposed, Accepted, Closed, Expired, Restarted,
                      Untold
<1>4. Exists(lead'[l])
  <2>1. lead[l].stage # "NONE"
    BY DEF Changes, Visible, Exists
  <2>2. lead'[l].stage # "NONE"
    BY <2>1 DEF Changes, Kept, Reviewed, Proposed, Accepted, Revised, Closed, Expired,
                Restarted, Goes
  <2> QED
    BY <2>2 DEF Exists
<1> QED
  BY <1>1, <1>2, <1>3, <1>4 DEF Touches

LEMMA OpenTouches ==
  ASSUME TypeOK, NEW l \in Leads, Opens(l)
  PROVE  Touches(l)
<1>1. /\ lead' \in [Leads -> Row] /\ \A k \in Leads \ {l} : lead'[k] = lead[k]
  <2>1. lead' = [lead EXCEPT ![l] = lead'[l]] /\ lead'[l] \in Row
    BY DEF Opens
  <2> QED
    BY <2>1 DEF TypeOK
<1> QED
  BY <1>1 DEF Opens, Untold, TypeOK, Touches, Exists

\* The steps that write a lead, and the transaction that takes them.
Writes(t, l) ==
  /\ Changes(l) \/ Opens(l)
  /\ \/ /\ Command(t) /\ Changes(l) /\ l = txn[t].lead
     \/ /\ Releases(t) /\ Changes(l) /\ l = txn[t].lead
     \/ /\ CreateLead(t) /\ Opens(l)

LEMMA NextCases ==
  ASSUME PricingInv, Next
  PROVE  \/ Tick
         \/ \E t \in Txns : Reads(t)
         \/ \E t \in Txns, l \in Leads : Writes(t, l)
<1>1. ASSUME NEW t \in Txns, Command(t)
      PROVE  \E l \in Leads : Writes(t, l)
  BY <1>1, CommitFinds, CommandChanges DEF Writes
<1>2. ASSUME NEW t \in Txns, Releases(t)
      PROVE  \E l \in Leads : Writes(t, l)
  BY <1>2, ReleaseChanges DEF Writes
<1>3. ASSUME NEW t \in Txns, CreateLead(t)
      PROVE  \E l \in Leads : Writes(t, l)
  BY <1>3, CreateOpens DEF Writes, PricingInv
<1> QED
  BY <1>1, <1>2, <1>3, NextSplit

LEMMA WriteTouches ==
  ASSUME PricingInv, NEW t \in Txns, NEW l \in Leads, Writes(t, l)
  PROVE  Touches(l)
  BY ChangeTouches, OpenTouches DEF PricingInv, Writes

\* What a write leaves of the transaction that did it.
LEMMA WriteEnds ==
  ASSUME PricingInv, NEW t \in Txns, NEW l \in Leads, Writes(t, l)
  PROVE  /\ txn[t] # Idle
         /\ txn' = [txn EXCEPT ![t] = txn'[t]]
         /\ txn'[t] = Idle \/ txn'[t] \in Resolving
         /\ owner' \in [who: Executives \cup {BackOffice}, since: Nat]
<1>1. CASE Command(t)
  <2>1. /\ txn[t] \in Working /\ txn[t].step = "ready" /\ txn' = [txn EXCEPT ![t] = Idle]
        /\ ~Conflicts(t)
    BY <1>1, CommitFinds
  <2>2. owner' \in [who: Executives \cup {BackOffice}, since: Nat]
    <3>1. CASE owner' = owner
      BY <3>1 DEF PricingInv, TypeOK
    <3>2. CASE ReassignLead(t)
      <4>1. txn[t].by \in Executives \cup {BackOffice} /\ txn[t].at \in Nat
        BY <2>1 DEF Working, Times
      <4> QED
        BY <3>2, <4>1 DEF ReassignLead, Assigned, PricingInv, TypeOK
    <3> QED
      BY <1>1, <3>1, <3>2, CommandChanges
  <2> QED
    BY <2>1, <2>2 DEF Idle, PricingInv, TypeOK
<1>2. CASE Releases(t)
  <2>1. /\ txn[t] \in Releasing /\ UNCHANGED owner
        /\ txn' = [txn EXCEPT ![t] = [step |-> "resolve", by |-> txn[t].by,
                                      at |-> txn[t].at]]
    BY <1>2, ReleaseChanges
  <2>2. [step |-> "resolve", by |-> txn[t].by, at |-> txn[t].at] \in Resolving
    BY <2>1 DEF Releasing, Resolving
  <2> QED
    BY <2>1, <2>2 DEF Idle, Releasing, PricingInv, TypeOK
<1>3. CASE CreateLead(t)
  <2>1. txn[t] \in Resolving /\ txn[t].step = "create" /\ txn' = [txn EXCEPT ![t] = Idle]
    BY <1>3, CreateOpens DEF PricingInv
  <2>2. owner' \in [who: Executives \cup {BackOffice}, since: Nat]
    BY <1>3, <2>1 DEF CreateLead, Assigned, Resolving, Times, PricingInv, TypeOK
  <2> QED
    BY <2>1, <2>2 DEF Idle, PricingInv, TypeOK
<1> QED
  BY <1>1, <1>2, <1>3 DEF Writes

LEMMA NextTypes ==
  ASSUME PricingInv, Next
  PROVE  TypeOK'
<1> USE DEF PricingInv
<1>1. CASE Tick
  BY <1>1, PricingAssumption DEF Tick, TypeOK, Times
<1>2. ASSUME NEW t \in Txns, Reads(t)
      PROVE  TypeOK'
  BY <1>2, ReadTypes DEF TypeOK, Rest
<1>3. ASSUME NEW t \in Txns, NEW l \in Leads, Writes(t, l)
      PROVE  TypeOK'
  <2>1. Touches(l)
    BY <1>3, WriteTouches
  <2>2. /\ txn' = [txn EXCEPT ![t] = txn'[t]]
        /\ txn'[t] = Idle \/ txn'[t] \in Resolving
        /\ owner' \in [who: Executives \cup {BackOffice}, since: Nat]
    BY <1>3, WriteEnds
  <2>3. Resolving \subseteq Registering
    BY DEF Resolving, Registering
  <2>4. txn' \in [Txns -> {Idle} \cup Working \cup Registering]
    BY <2>2, <2>3 DEF TypeOK
  <2> QED
    BY <2>1, <2>2, <2>4 DEF Touches, TypeOK
<1> QED
  BY <1>1, <1>2, <1>3, NextCases

-----------------------------------------------------------------------------
(* The rows agree after a write: one lead at a time.                           *)
Agree(row, s, n) ==
  /\ Told(s, "accepted") = IF row.stage = "SETUP" THEN {Len(s)} ELSE {}
  /\ row.expires # NoHold => row.stage = "PRICING"
  /\ n = Cardinality(Told(s, "revision_requested"))
  /\ n <= MaxRevisions

LEMMA RowsAgree ==
  /\ AcceptedMovesToSetup /\ HoldMeansPricing /\ RevisionsAreCounted
  <=> \A l \in Leads : Agree(lead[l], proposals[l], revisions[l])
  BY DEF AcceptedMovesToSetup, HoldMeansPricing, RevisionsAreCounted, Agree, Rounds, Told,
         Latest

LEMMA RowsAgreeNext ==
  /\ AcceptedMovesToSetup' /\ HoldMeansPricing' /\ RevisionsAreCounted'
  <=> \A l \in Leads : Agree(lead'[l], proposals'[l], revisions'[l])
  BY DEF AcceptedMovesToSetup, HoldMeansPricing, RevisionsAreCounted, Agree, Rounds, Told,
         Latest

LEMMA ChangeAgrees ==
  ASSUME PricingInv, NEW l \in Leads, Changes(l)
  PROVE  Agree(lead'[l], proposals'[l], revisions'[l])
<1>1. Agree(lead[l], proposals[l], revisions[l]) /\ proposals[l] \in Seq(Outcomes)
  BY RowsAgree DEF PricingInv, TypeOK
<1>2. CASE Kept(l) \/ Reviewed(l) \/ Closed(l) \/ Expired(l) \/ Restarted(l)
  <2>1. proposals'[l] = proposals[l] /\ revisions'[l] = revisions[l]
    BY <1>2 DEF Kept, Reviewed, Closed, Expired, Restarted, Untold
  <2>2. lead'[l].expires # NoHold => lead'[l].stage = "PRICING"
    BY <1>1, <1>2 DEF Kept, Reviewed, Closed, Expired, Restarted, Goes, Agree
  <2>3. lead'[l].stage = "SETUP" <=> lead[l].stage = "SETUP"
    BY <1>2 DEF Kept, Reviewed, Closed, Expired, Restarted, Goes
  <2> QED
    BY <1>1, <2>1, <2>2, <2>3 DEF Agree
<1>3. CASE Proposed(l)
  <2>1. proposals'[l] = Append(proposals[l], "pending") /\ revisions'[l] = revisions[l]
    BY <1>3 DEF Proposed, PricingInv, TypeOK
  <2>2. /\ Told(proposals'[l], "accepted") = Told(proposals[l], "accepted")
        /\ Told(proposals'[l], "revision_requested")
             = Told(proposals[l], "revision_requested")
    BY <1>1, <2>1, ToldAppend
  <2> QED
    BY <1>1, <1>3, <2>1, <2>2 DEF Agree, Proposed, Goes
<1>4. CASE Accepted(l)
  <2>1. /\ Told(proposals'[l], "accepted")
             = Told(proposals[l], "accepted") \cup {Len(proposals[l])}
        /\ Told(proposals'[l], "revision_requested")
             = Told(proposals[l], "revision_requested")
        /\ Len(proposals'[l]) = Len(proposals[l])
        /\ revisions'[l] = revisions[l]
    BY <1>4, DecidedTold DEF Accepted, PricingInv
  <2>2. lead[l].stage = "PRICING" /\ lead'[l].stage = "SETUP" /\ lead'[l].expires = NoHold
    BY <1>4 DEF Accepted, Goes
  <2> QED
    BY <1>1, <2>1, <2>2 DEF Agree
<1>5. CASE Revised(l)
  <2>1. /\ Told(proposals'[l], "revision_requested")
             = Told(proposals[l], "revision_requested") \cup {Len(proposals[l])}
        /\ Len(proposals[l]) \notin Told(proposals[l], "revision_requested")
        /\ Told(proposals'[l], "accepted") = Told(proposals[l], "accepted")
    BY <1>5, DecidedTold DEF Revised, PricingInv
  <2>2. revisions'[l] = revisions[l] + 1 /\ revisions[l] < MaxRevisions
        /\ revisions[l] \in Nat /\ MaxRevisions \in Nat
    BY <1>5, PricingAssumption DEF Revised, PricingInv, TypeOK
  <2>3. Cardinality(Told(proposals'[l], "revision_requested"))
          = Cardinality(Told(proposals[l], "revision_requested")) + 1
    BY <1>1, <2>1, ToldFinite, FS_AddElement
  <2>4. revisions[l] = Cardinality(Told(proposals[l], "revision_requested"))
    BY <1>1 DEF Agree
  <2>5. /\ revisions'[l] = Cardinality(Told(proposals'[l], "revision_requested"))
        /\ revisions'[l] <= MaxRevisions
    BY <2>2, <2>3, <2>4
  <2> QED
    BY <1>1, <1>5, <2>1, <2>5 DEF Agree, Revised, Goes
<1> QED
  BY <1>2, <1>3, <1>4, <1>5 DEF Changes

LEMMA OpenAgrees ==
  ASSUME PricingInv, NEW l \in Leads, Opens(l)
  PROVE  Agree(lead'[l], proposals'[l], revisions'[l])
<1>1. Agree(lead[l], proposals[l], revisions[l])
  BY RowsAgree DEF PricingInv
<1>2. lead[l].stage # "SETUP" /\ lead'[l].stage # "SETUP" /\ lead'[l].expires = NoHold
  BY DEF Opens, Exists
<1>3. proposals'[l] = proposals[l] /\ revisions'[l] = revisions[l]
  BY DEF Opens, Untold
<1> QED
  BY <1>1, <1>2, <1>3 DEF Agree

LEMMA RowsKeepAgreeing ==
  ASSUME PricingInv, Next
  PROVE  AcceptedMovesToSetup' /\ HoldMeansPricing' /\ RevisionsAreCounted'
<1>1. \A l \in Leads : Agree(lead[l], proposals[l], revisions[l])
  BY RowsAgree DEF PricingInv
<1>2. CASE Tick \/ \E t \in Txns : Reads(t)
  <2>1. UNCHANGED <<lead, proposals, revisions>>
    BY <1>2, ReadTypes DEF Tick, PricingInv, Rest
  <2> QED
    BY <1>1, <2>1, RowsAgreeNext
<1>3. ASSUME NEW t \in Txns, NEW l \in Leads, Writes(t, l)
      PROVE  \A k \in Leads : Agree(lead'[k], proposals'[k], revisions'[k])
  BY <1>1, <1>3, WriteTouches, ChangeAgrees, OpenAgrees DEF Writes, Touches
<1> QED
  BY <1>2, <1>3, NextCases, RowsAgreeNext

\* A lead is live after a write only where it was, or where no other is.
LEMMA LiveLeads ==
  ASSUME PricingInv, Next
  PROVE  OneLiveLead'
<1> USE DEF PricingInv
<1>1. CASE Tick \/ \E t \in Txns : Reads(t)
  <2>1. UNCHANGED lead
    BY <1>1, ReadTypes DEF Tick, Rest
  <2> QED
    BY <2>1 DEF OneLiveLead, Live, Visible, Exists
<1>2. ASSUME NEW t \in Txns, NEW l \in Leads, Writes(t, l)
      PROVE  OneLiveLead'
  <2>1. \A k \in Leads \ {l} : lead'[k] = lead[k]
    BY <1>2, WriteTouches DEF Touches
  <2>2. CASE Changes(l)
    <3>1. Live(lead'[l]) => Live(lead[l]) \/ OnlyLive(l)
      BY <2>2 DEF Changes, Live, Visible, Exists, Kept, Reviewed, Proposed, Accepted, Revised,
                  Closed, Expired, Restarted, Goes
    <3> QED
      BY <2>1, <3>1 DEF OneLiveLead, OnlyLive, Live, Visible, Exists
  <2>3. CASE Opens(l)
    BY <2>1, <2>3 DEF Opens, Holders, OneLiveLead, Live, Visible, Exists
  <2> QED
    BY <1>2, <2>2, <2>3 DEF Writes
<1> QED
  BY <1>1, <1>2, NextCases

-----------------------------------------------------------------------------
(* What the transactions hold. The row a write touches is newer than what any  *)
(* other transaction has read of it.                                           *)
LEMMA StaleOnceTouched ==
  ASSUME PricingInv, NEW l \in Leads, Touches(l), NEW u \in Txns, Carries(u),
         txn'[u] = txn[u]
  PROVE  /\ Fresh(u)' => txn[u].lead # l /\ Fresh(u)
         /\ txn[u].seen.version <= lead'[txn[u].lead].version
         /\ Exists(lead'[txn[u].lead])
<1>1. /\ txn[u].lead \in Leads /\ txn[u].seen.version \in Nat
      /\ lead[txn[u].lead].version \in Nat
  BY Carried DEF PricingInv, Row
<1>2. /\ Exists(lead[txn[u].lead]) /\ txn[u].seen.version <= lead[txn[u].lead].version
  BY DEF PricingInv, ReadsAreOld
<1>3. CASE txn[u].lead = l
  <2>1. lead'[l].version = lead[l].version + 1 /\ Exists(lead'[l])
    BY <1>2, <1>3 DEF Touches
  <2>2. lead'[l].version # txn[u].seen.version /\ txn[u].seen.version <= lead'[l].version
    BY <1>1, <1>2, <1>3, <2>1
  <2> QED
    BY <1>3, <2>1, <2>2 DEF Fresh
<1>4. CASE txn[u].lead # l
  <2>1. lead'[txn[u].lead] = lead[txn[u].lead]
    BY <1>1, <1>4 DEF Touches
  <2> QED
    BY <1>2, <1>4, <2>1 DEF Fresh
<1> QED
  BY <1>3, <1>4

\* A command that begins: what it has read of its lead, and on which grounds.
Opened(t) ==
  /\ txn'[t].step \in {"read", "ready"}
  /\ txn'[t].step = "read" <=> txn'[t].command \in PricingCommands
  /\ txn'[t].lead \in Leads /\ txn'[t].seen = lead[txn'[t].lead]
  /\ Visible(txn'[t].seen)
  /\ InStage(txn'[t].command, txn'[t].seen)
  /\ txn'[t].command = "expire" => Lapsed(txn'[t].seen, clock)
  /\ txn'[t].command \in OwnerCommands => txn'[t].by = owner.who

Held(t) ==
  /\ txn'[t].step = "release"
  /\ txn'[t].lead \in Leads /\ txn'[t].seen = lead[txn'[t].lead]
  /\ Visible(txn'[t].seen)
  /\ txn'[t].seen.stage = "PRICING" /\ Lapsed(txn'[t].seen, clock)

\* A command that has read the proposals as well.
Informed(t) ==
  /\ txn[t].step = "read" /\ txn'[t].step = "ready"
  /\ txn'[t].command = txn[t].command /\ txn'[t].lead = txn[t].lead
  /\ txn'[t].seen = txn[t].seen /\ txn'[t].by = txn[t].by
  /\ txn[t].command \in {"edit", "accept", "revise"} =>
       /\ txn'[t].round = Latest(txn[t].lead) /\ Pending(txn[t].lead)
       /\ txn[t].command = "revise" => revisions[txn[t].lead] < MaxRevisions

LEMMA LapsedLater ==
  ASSUME NEW row \in Row, NEW at \in Nat, NEW now \in Nat, at <= now, Lapsed(row, at)
  PROVE  Lapsed(row, now)
  BY DEF Lapsed, Row

LEMMA ReadCases ==
  ASSUME PricingInv, NEW t \in Txns, Reads(t)
  PROVE  \/ txn'[t].step \in {"idle", "create"}
         \/ Opened(t) \/ Held(t) \/ Informed(t)
<1> USE DEF PricingInv
<1>1. CASE \E c \in Commands, l \in Leads, e \in Executives \cup {BackOffice}, at \in Times :
             Open(t, c, l, e, at)
  <2>1. PICK c \in Commands, l \in Leads, e \in Executives \cup {BackOffice}, at \in Times :
          Open(t, c, l, e, at)
    BY <1>1
  <2> DEFINE r == [step |-> IF c \in PricingCommands THEN "read" ELSE "ready",
                   command |-> c, lead |-> l, by |-> e,
                   at |-> IF c \in DatedCommands THEN at ELSE 0,
                   seen |-> lead[l], round |-> 0]
  <2>2. txn'[t] = r
    BY <2>1 DEF Open, TypeOK
  <2>3. Visible(lead[l]) /\ InStage(c, lead[l]) /\ Holding(c, lead[l], at) /\ Owned(c, e)
        /\ at <= clock
    BY <2>1 DEF Open
  <2>4. c = "expire" => Lapsed(lead[l], clock)
    <3>1. c = "expire" => Lapsed(lead[l], at)
      BY <2>3 DEF Holding
    <3> QED
      BY <2>3, <3>1, LapsedLater DEF TypeOK, Times
  <2>5. c \in OwnerCommands => e = owner.who
    BY <2>3 DEF Owned, OwnerCommands
  <2> QED
    BY <2>2, <2>3, <2>4, <2>5 DEF Opened
<1>2. CASE ReadProposals(t)
  <2>1. txn[t] \in Working /\ txn[t].step = "read"
    BY <1>2, TxnKinds DEF ReadProposals
  <2> DEFINE c == txn[t].command
             n == IF c = "propose" THEN Latest(txn[t].lead) + 1 ELSE Latest(txn[t].lead)
  <2>2. CASE txn'[t] = Idle
    BY <2>2 DEF Idle
  <2>3. CASE txn'[t] # Idle
    <3>1. txn'[t] = [txn[t] EXCEPT !.step = "ready", !.round = n]
      BY <1>2, <2>3 DEF ReadProposals, TypeOK
    <3>2. c \in {"edit", "accept", "revise"} =>
            /\ Pending(txn[t].lead)
            /\ c = "revise" => revisions[txn[t].lead] < MaxRevisions
      BY <1>2, <2>3 DEF ReadProposals, TypeOK
    <3> HIDE DEF n
    <3>3. /\ txn'[t].step = "ready" /\ txn'[t].round = n
          /\ txn'[t].command = c /\ txn'[t].lead = txn[t].lead
          /\ txn'[t].seen = txn[t].seen /\ txn'[t].by = txn[t].by
      BY <2>1, <3>1 DEF Working
    <3>4. c # "propose" => n = Latest(txn[t].lead)
      BY DEF n
    <3> QED
      BY <2>1, <3>2, <3>3, <3>4 DEF Informed
  <2> QED
    BY <2>2, <2>3
<1>3. CASE \E e \in Executives, at \in Times : RegisterLead(t, e, at)
  <2>1. PICK e \in Executives, at \in Times : RegisterLead(t, e, at)
    BY <1>3
  <2>2. CASE Holders = {} /\ txn' = [txn EXCEPT ![t] = [step |-> "create", by |-> e,
                                                        at |-> at]]
    BY <2>2 DEF TypeOK
  <2>3. CASE \E l \in Holders :
               /\ lead[l].stage = "PRICING" /\ Lapsed(lead[l], at)
               /\ txn' = [txn EXCEPT ![t] = [step |-> "release", by |-> e, at |-> at,
                                             lead |-> l, seen |-> lead[l]]]
    <3>1. PICK l \in Holders :
               /\ lead[l].stage = "PRICING" /\ Lapsed(lead[l], at)
               /\ txn' = [txn EXCEPT ![t] = [step |-> "release", by |-> e, at |-> at,
                                             lead |-> l, seen |-> lead[l]]]
      BY <2>3
    <3>2. l \in Leads /\ Visible(lead[l])
      BY DEF Holders, Live
    <3>3. Lapsed(lead[l], clock)
      BY <2>1, <3>1, <3>2, LapsedLater DEF RegisterLead, TypeOK, Times
    <3>4. txn'[t] = [step |-> "release", by |-> e, at |-> at, lead |-> l, seen |-> lead[l]]
      BY <3>1 DEF TypeOK
    <3> QED
      BY <3>1, <3>2, <3>3, <3>4 DEF Held
  <2> QED
    BY <2>1, <2>2, <2>3 DEF RegisterLead
<1>4. CASE ResolveRegistration(t)
  <2>1. txn[t] \in Resolving
    BY <1>4, TxnKinds DEF ResolveRegistration
  <2>2. txn'[t] = [txn[t] EXCEPT !.step = "create"] \/ txn'[t] = Idle
    BY <1>4 DEF ResolveRegistration, TypeOK
  <2> QED
    BY <2>1, <2>2 DEF Resolving, Idle
<1>5. CASE GivesUp(t)
  BY <1>5 DEF GivesUp, Idle, TypeOK
<1> QED
  BY <1>1, <1>2, <1>3, <1>4, <1>5 DEF Reads

LEMMA TxnReads ==
  ASSUME PricingInv, NEW t \in Txns, Reads(t), NEW u \in Txns, u # t
  PROVE  txn'[u] = txn[u] /\ UNCHANGED Rest
  BY ReadTypes DEF PricingInv, TypeOK

LEMMA TxnWrites ==
  ASSUME PricingInv, NEW t \in Txns, NEW l \in Leads, Writes(t, l), NEW u \in Txns
  PROVE  /\ u # t => txn'[u] = txn[u]
         /\ txn'[t].step \in {"idle", "resolve", "create"}
  BY WriteEnds DEF PricingInv, TypeOK, Idle, Resolving

LEMMA ReadsStayOld ==
  ASSUME PricingInv, Next
  PROVE  ReadsAreOld'
<1> DEFINE Old(u) == /\ Visible(txn'[u].seen)
                     /\ Exists(lead'[txn'[u].lead])
                     /\ txn'[u].seen.version <= lead'[txn'[u].lead].version
                     /\ Fresh(u)' => txn'[u].seen = lead'[txn'[u].lead]
<1>1. SUFFICES ASSUME NEW u \in Txns, Carries(u)'
               PROVE  Old(u)
  BY DEF ReadsAreOld, Visible, Exists
<1>2. ASSUME txn'[u] = txn[u], UNCHANGED lead
      PROVE  Old(u)
  BY <1>1, <1>2 DEF PricingInv, ReadsAreOld, Carries, Fresh
<1>3. CASE Tick
  BY <1>2, <1>3 DEF Tick
<1>4. ASSUME NEW t \in Txns, Reads(t)
      PROVE  Old(u)
  <2>1. UNCHANGED lead
    BY <1>4, ReadTypes DEF PricingInv, Rest
  <2>2. CASE u # t
    BY <1>2, <1>4, <2>1, <2>2, TxnReads
  <2>3. CASE u = t
    <3>1. CASE Opened(t) \/ Held(t)
      <4>1. /\ txn'[t].lead \in Leads /\ txn'[t].seen = lead[txn'[t].lead]
            /\ Visible(txn'[t].seen)
        BY <3>1 DEF Opened, Held
      <4>2. lead[txn'[t].lead].version \in Nat
        BY <4>1 DEF PricingInv, TypeOK, Row
      <4> QED
        BY <2>1, <2>3, <4>1, <4>2 DEF Visible
    <3>2. CASE Informed(t)
      BY <2>1, <2>3, <3>2 DEF Informed, PricingInv, ReadsAreOld, Carries, Fresh
    <3> QED
      BY <1>1, <1>4, <2>3, <3>1, <3>2, ReadCases DEF Carries
  <2> QED
    BY <2>2, <2>3
<1>5. ASSUME NEW t \in Txns, NEW l \in Leads, Writes(t, l)
      PROVE  Old(u)
  <2>1. u # t /\ txn'[u] = txn[u] /\ Carries(u)
    BY <1>1, <1>5, TxnWrites DEF Carries
  <2>2. Touches(l)
    BY <1>5, WriteTouches
  <2>3. /\ Fresh(u)' => txn[u].lead # l /\ Fresh(u)
        /\ txn[u].seen.version <= lead'[txn[u].lead].version
        /\ Exists(lead'[txn[u].lead])
    BY <2>1, <2>2, StaleOnceTouched
  <2>4. Fresh(u)' => txn'[u].seen = lead'[txn'[u].lead]
    <3>1. txn[u].lead \in Leads
      BY <2>1, Carried DEF PricingInv
    <3> QED
      BY <2>1, <2>2, <2>3, <3>1 DEF PricingInv, ReadsAreOld, Touches
  <2> QED
    BY <2>1, <2>3, <2>4 DEF PricingInv, ReadsAreOld
<1> QED
  BY <1>3, <1>4, <1>5, NextCases

LEMMA RowsStayAsAllowed ==
  ASSUME PricingInv, Next
  PROVE  RowsAsAllowed'
<1> DEFINE Fits(u) ==
             /\ txn'[u].step = "read" => txn'[u].command \in PricingCommands
             /\ txn'[u].step \in {"read", "ready"} =>
                  /\ InStage(txn'[u].command, txn'[u].seen)
                  /\ txn'[u].command = "expire" => Lapsed(txn'[u].seen, clock')
             /\ txn'[u].step = "release" =>
                  txn'[u].seen.stage = "PRICING" /\ Lapsed(txn'[u].seen, clock')
<1>1. SUFFICES ASSUME NEW u \in Txns
               PROVE  Fits(u)
  BY DEF RowsAsAllowed, InStage, Lapsed
<1>2. clock' \in Nat /\ clock \in Nat /\ clock <= clock'
  <2>1. CASE Tick
    BY <2>1 DEF Tick, PricingInv, TypeOK, Times
  <2>2. ASSUME NEW t \in Txns, Reads(t)
        PROVE  clock' = clock
    BY <2>2, ReadTypes DEF PricingInv, Rest
  <2>3. ASSUME NEW t \in Txns, NEW l \in Leads, Writes(t, l)
        PROVE  clock' = clock
    BY <2>3, WriteTouches DEF Touches
  <2> QED
    BY <2>1, <2>2, <2>3, NextCases DEF PricingInv, TypeOK, Times
<1>3. ASSUME txn'[u] = txn[u]
      PROVE  Fits(u)
  <2>1. ASSUME Carries(u), Lapsed(txn[u].seen, clock)
        PROVE  Lapsed(txn[u].seen, clock')
    BY <1>2, <2>1, Carried, LapsedLater DEF PricingInv
  <2> QED
    BY <1>3, <2>1 DEF PricingInv, RowsAsAllowed, Carries
<1>4. ASSUME NEW t \in Txns, Reads(t)
      PROVE  Fits(u)
  <2>1. CASE u # t
    BY <1>3, <1>4, <2>1, TxnReads
  <2>2. CASE u = t
    <3>1. clock' = clock
      BY <1>4, ReadTypes DEF PricingInv, Rest
    <3>2. CASE Opened(t) \/ Held(t)
      BY <2>2, <3>1, <3>2 DEF Opened, Held
    <3>3. CASE Informed(t)
      BY <2>2, <3>1, <3>3 DEF Informed, PricingInv, RowsAsAllowed
    <3> QED
      BY <1>4, <2>2, <3>2, <3>3, ReadCases
  <2> QED
    BY <2>1, <2>2
<1>5. ASSUME NEW t \in Txns, NEW l \in Leads, Writes(t, l)
      PROVE  Fits(u)
  <2>1. CASE u # t
    BY <1>3, <1>5, <2>1, TxnWrites
  <2>2. CASE u = t
    BY <1>5, <2>2, TxnWrites
  <2> QED
    BY <2>1, <2>2
<1>6. CASE Tick
  BY <1>3, <1>6 DEF Tick
<1> QED
  BY <1>4, <1>5, <1>6, NextCases

LEMMA RoundsStayAsRead ==
  ASSUME PricingInv, Next
  PROVE  RoundsAsRead'
<1> DEFINE Fits(u) == /\ txn'[u].round = Len(proposals'[txn'[u].lead])
                      /\ txn'[u].round > 0
                      /\ proposals'[txn'[u].lead][txn'[u].round] = "pending"
                      /\ txn'[u].command = "revise" => revisions'[txn'[u].lead] < MaxRevisions
<1>1. SUFFICES ASSUME NEW u \in Txns, txn'[u].step = "ready", Fresh(u)',
                      txn'[u].command \in {"edit", "accept", "revise"}
               PROVE  Fits(u)
  BY DEF RoundsAsRead, Latest, Pending
<1>2. ASSUME txn'[u] = txn[u], UNCHANGED <<lead, proposals, revisions>>
      PROVE  Fits(u)
  BY <1>1, <1>2 DEF PricingInv, RoundsAsRead, Fresh, Latest, Pending
<1>3. CASE Tick
  BY <1>2, <1>3 DEF Tick
<1>4. ASSUME NEW t \in Txns, Reads(t)
      PROVE  Fits(u)
  <2>1. UNCHANGED <<lead, proposals, revisions>>
    BY <1>4, ReadTypes DEF PricingInv, Rest
  <2>2. CASE u # t
    BY <1>2, <1>4, <2>1, <2>2, TxnReads
  <2>3. CASE u = t
    <3>1. ~Opened(t) /\ ~Held(t) /\ txn'[t].step \notin {"idle", "create"}
      BY <1>1, <2>3 DEF Opened, Held, PricingCommands
    <3>2. Informed(t)
      BY <1>4, <3>1, ReadCases
    <3> QED
      BY <1>1, <2>1, <2>3, <3>2 DEF Informed, Latest, Pending
  <2> QED
    BY <2>2, <2>3
<1>5. ASSUME NEW t \in Txns, NEW l \in Leads, Writes(t, l)
      PROVE  Fits(u)
  <2>1. u # t /\ txn'[u] = txn[u] /\ Carries(u)
    BY <1>1, <1>5, TxnWrites DEF Carries
  <2>2. Touches(l)
    BY <1>5, WriteTouches
  <2>3. txn[u].lead # l /\ Fresh(u) /\ txn[u].lead \in Leads
    BY <1>1, <2>1, <2>2, StaleOnceTouched, Carried DEF PricingInv
  <2>4. /\ proposals'[txn[u].lead] = proposals[txn[u].lead]
        /\ revisions'[txn[u].lead] = revisions[txn[u].lead]
    BY <2>2, <2>3 DEF Touches
  <2> QED
    BY <1>1, <2>1, <2>3, <2>4 DEF PricingInv, RoundsAsRead, Latest, Pending
<1> QED
  BY <1>3, <1>4, <1>5, NextCases

LEMMA OwnersStayAsRead ==
  ASSUME PricingInv, Next
  PROVE  OwnersAsRead'
<1>1. SUFFICES ASSUME NEW u \in Txns, txn'[u].step \in {"read", "ready"},
                      txn'[u].command \in OwnerCommands, Fresh(u)',
                      \A k \in Leads \ {txn'[u].lead} : ~Exists(lead'[k])
               PROVE  txn'[u].by = owner'.who
  BY DEF OwnersAsRead, Alone, Exists
<1>2. ASSUME txn'[u] = txn[u], UNCHANGED <<lead, owner>>
      PROVE  txn'[u].by = owner'.who
  BY <1>1, <1>2 DEF PricingInv, OwnersAsRead, Fresh, Alone
<1>3. CASE Tick
  BY <1>2, <1>3 DEF Tick
<1>4. ASSUME NEW t \in Txns, Reads(t)
      PROVE  txn'[u].by = owner'.who
  <2>1. UNCHANGED <<lead, owner>>
    BY <1>4, ReadTypes DEF PricingInv, Rest
  <2>2. CASE u # t
    BY <1>2, <1>4, <2>1, <2>2, TxnReads
  <2>3. CASE u = t
    <3>1. CASE Opened(t)
      BY <1>1, <2>1, <2>3, <3>1 DEF Opened
    <3>2. CASE Informed(t)
      BY <1>1, <2>1, <2>3, <3>2 DEF Informed, PricingInv, OwnersAsRead, Fresh, Alone
    <3> QED
      BY <1>1, <1>4, <2>3, <3>1, <3>2, ReadCases DEF Held
  <2> QED
    BY <2>2, <2>3
<1>5. ASSUME NEW t \in Txns, NEW l \in Leads, Writes(t, l)
      PROVE  FALSE
  <2>1. u # t /\ txn'[u] = txn[u] /\ Carries(u)
    BY <1>1, <1>5, TxnWrites DEF Carries
  <2>2. Touches(l)
    BY <1>5, WriteTouches
  <2>3. txn'[u].lead # l
    BY <1>1, <2>1, <2>2, StaleOnceTouched
  <2> QED
    BY <1>1, <2>2, <2>3 DEF Touches
<1> QED
  BY <1>3, <1>4, <1>5, NextCases

LEMMA UnopenedStay ==
  ASSUME PricingInv, Next
  PROVE  NeverOpened'
<1>1. CASE Tick \/ \E t \in Txns : Reads(t)
  <2>1. UNCHANGED lead
    BY <1>1, ReadTypes DEF Tick, Rest, PricingInv
  <2> QED
    BY <2>1 DEF PricingInv, NeverOpened, Exists
<1>2. ASSUME NEW t \in Txns, NEW l \in Leads, Writes(t, l)
      PROVE  NeverOpened'
  BY <1>2, WriteTouches DEF Touches, PricingInv, NeverOpened, Exists
<1> QED
  BY <1>1, <1>2, NextCases

LEMMA InitPricingInv == Init => PricingInv
<1> SUFFICES ASSUME Init PROVE PricingInv
  OBVIOUS
<1>1. TypeOK
  BY PricingAssumption DEF Init, TypeOK, Times, Row, Stages, NoRow, NoHold
<1>2. \A l \in Leads : Agree(lead[l], proposals[l], revisions[l])
  <2>1. \A o : Told(<<>>, o) = {}
    BY DEF Told
  <2>2. Cardinality({}) = 0 /\ 0 <= MaxRevisions
    BY FS_EmptySet, PricingAssumption
  <2>3. ASSUME NEW l \in Leads
        PROVE  Agree(lead[l], proposals[l], revisions[l])
    <3>1. /\ lead[l].stage = "NONE" /\ lead[l].expires = NoHold
          /\ proposals[l] = <<>> /\ revisions[l] = 0
      BY DEF Init, NoRow
    <3> QED
      BY <2>1, <2>2, <3>1 DEF Agree
  <2> QED
    BY <2>3
<1>3. OneLiveLead /\ NeverOpened
  BY DEF Init, OneLiveLead, NeverOpened, Live, Visible, Exists, NoRow
<1>4. \A t \in Txns : txn[t].step = "idle"
  BY DEF Init, Idle
<1> QED
  BY <1>1, <1>2, <1>3, <1>4, RowsAgree
     DEF PricingInv, ReadsAreOld, RowsAsAllowed, RoundsAsRead, OwnersAsRead, Carries

LEMMA PricingInvKept == PricingInv /\ [Next]_vars => PricingInv'
<1> SUFFICES ASSUME PricingInv, [Next]_vars PROVE PricingInv'
  OBVIOUS
<1>1. CASE Next
  BY <1>1, NextTypes, RowsKeepAgreeing, LiveLeads, ReadsStayOld, RowsStayAsAllowed,
     RoundsStayAsRead, OwnersStayAsRead, UnopenedStay DEF PricingInv
<1>2. CASE UNCHANGED vars
  <2>1. TypeOK' /\ OneLiveLead' /\ NeverOpened'
    BY <1>2 DEF PricingInv, vars, TypeOK, OneLiveLead, NeverOpened, Live, Visible, Exists
  <2>2. AcceptedMovesToSetup' /\ HoldMeansPricing' /\ RevisionsAreCounted'
    BY <1>2, RowsAgree, RowsAgreeNext DEF PricingInv, vars
  <2>3. ReadsAreOld' /\ RowsAsAllowed'
    BY <1>2 DEF PricingInv, vars, ReadsAreOld, RowsAsAllowed, Carries, Fresh, Visible, Exists,
                InStage, Lapsed
  <2>4. RoundsAsRead' /\ OwnersAsRead'
    BY <1>2 DEF PricingInv, vars, RoundsAsRead, OwnersAsRead, Fresh, Alone, Exists, Latest,
                Pending
  <2> QED
    BY <2>1, <2>2, <2>3, <2>4 DEF PricingInv
<1> QED
  BY <1>1, <1>2

(* What every transaction in flight has read is out of date by version, or     *)
(* stands, and the rows of a lead agree.                                       *)
THEOREM Inductive == Spec => []PricingInv
  BY InitPricingInv, PricingInvKept, PTL DEF Spec

(* The lead, its proposals and its revisions agree: an accepted rate is the    *)
(* last of a lead in SETUP, a hold is of a lead being priced, and revisions    *)
(* are counted and bounded, for any number of commands in flight.              *)
THEOREM RowsOfALeadAgree == Spec => []LeadInv
<1>1. PricingInv => LeadInv
  BY DEF PricingInv, LeadInv
<1> QED
  BY <1>1, Inductive, PTL

(* However many registrations, restarts and expiries are in flight, one        *)
(* organization has at most one live lead.                                     *)
THEOREM OneLeadIsLive == Spec => []OneLiveLead
<1>1. PricingInv => OneLiveLead
  BY DEF PricingInv
<1> QED
  BY <1>1, Inductive, PTL

-----------------------------------------------------------------------------
(* What a step may never do.                                                   *)
LEMMA ChangeKeepsDecisions ==
  ASSUME PricingInv, NEW l \in Leads, Changes(l) \/ Opens(l),
         NEW r \in 1 .. Len(proposals[l]), proposals[l][r] # "pending"
  PROVE  r <= Len(proposals'[l]) /\ proposals'[l][r] = proposals[l][r]
<1>1. proposals[l] \in Seq(Outcomes)
  BY DEF PricingInv, TypeOK
<1>2. CASE Untold
  BY <1>1, <1>2 DEF Untold
<1>3. CASE Proposed(l)
  <2>1. proposals'[l] = Append(proposals[l], "pending")
    BY <1>3 DEF Proposed, PricingInv, TypeOK
  <2> QED
    BY <1>1, <2>1
<1>4. CASE Accepted(l) \/ Revised(l)
  BY <1>1, <1>4, DecidedTold DEF Accepted, Revised, PricingInv
<1> QED
  BY <1>2, <1>3, <1>4 DEF Changes, Opens, Kept, Reviewed, Closed, Expired, Restarted

LEMMA ChangeKeepsEnds ==
  ASSUME PricingInv, NEW l \in Leads, Changes(l) \/ Opens(l)
  PROVE  /\ ~lead[l].deleted
         /\ lead[l].stage \in {"DISQUALIFIED", "CLOSED_LOST", "SETUP"}
              => lead'[l].stage = lead[l].stage
  BY DEF PricingInv, NeverOpened, Changes, Opens, Visible, Exists, Kept, Reviewed, Proposed,
         Accepted, Revised, Closed, Expired, Restarted, Goes

LEMMA DecisionsStep == PricingInv /\ [Next]_vars => [DecisionsAreFinal /\ EndsAreFinal]_vars
<1> SUFFICES ASSUME PricingInv, Next PROVE DecisionsAreFinal /\ EndsAreFinal
  OBVIOUS
<1> DEFINE Final(l) == \A r \in 1 .. Len(proposals[l]) : proposals[l][r] # "pending" =>
                         r <= Len(proposals'[l]) /\ proposals'[l][r] = proposals[l][r]
           Ended(l) == /\ lead[l].deleted => lead'[l] = lead[l] /\ proposals'[l] = proposals[l]
                       /\ lead[l].stage \in {"DISQUALIFIED", "CLOSED_LOST", "SETUP"}
                            => lead'[l].stage = lead[l].stage
<1>1. SUFFICES ASSUME NEW l \in Leads
               PROVE  Final(l) /\ Ended(l)
  <2>1. DecisionsAreFinal <=> \A k \in Leads : Final(k)
    BY DEF DecisionsAreFinal, Rounds, Latest
  <2>2. EndsAreFinal <=> \A k \in Leads : Ended(k)
    BY DEF EndsAreFinal
  <2> QED
    BY <2>1, <2>2
<1>2. ASSUME lead'[l] = lead[l], proposals'[l] = proposals[l]
      PROVE  Final(l) /\ Ended(l)
  <2>1. Len(proposals[l]) \in Nat
    BY DEF PricingInv, TypeOK
  <2> QED
    BY <1>2, <2>1
<1>3. CASE Tick \/ \E t \in Txns : Reads(t)
  BY <1>2, <1>3, ReadTypes DEF Tick, Rest, PricingInv
<1>4. ASSUME NEW t \in Txns, NEW k \in Leads, Writes(t, k)
      PROVE  Final(l) /\ Ended(l)
  <2>1. CASE k # l
    BY <1>2, <1>4, <2>1, WriteTouches DEF Touches
  <2>2. CASE k = l
    <3>1. Changes(l) \/ Opens(l)
      BY <1>4, <2>2 DEF Writes
    <3>2. Final(l)
      BY <3>1, ChangeKeepsDecisions
    <3>3. Ended(l)
      BY <3>1, ChangeKeepsEnds
    <3> QED
      BY <3>2, <3>3
  <2> QED
    BY <2>1, <2>2
<1> QED
  BY <1>3, <1>4, NextCases

(* A decided proposal keeps its outcome and a lead that ended keeps its end,   *)
(* whatever commands were in flight when it was decided: markOutcome.          *)
THEOREM DecisionsLast == Spec => DecisionsStand
  BY Inductive, DecisionsStep, PTL DEF Spec, DecisionsStand

LEMMA HoldsStep ==
  PricingInv /\ [Next]_vars =>
    [\A l \in Leads : lead[l].stage = "PRICING" /\ lead'[l].stage = "EXPIRED"
                        => Lapsed(lead[l], clock)]_vars
<1> SUFFICES ASSUME PricingInv, Next, NEW l \in Leads, lead[l].stage = "PRICING",
                    lead'[l].stage = "EXPIRED"
             PROVE  Lapsed(lead[l], clock)
  OBVIOUS
<1>1. lead'[l] # lead[l]
  OBVIOUS
<1>2. ~Tick /\ ~(\E t \in Txns : Reads(t))
  BY <1>1, ReadTypes DEF Tick, Rest, PricingInv
<1>3. PICK t \in Txns, k \in Leads : Writes(t, k)
  BY <1>2, NextCases
<1>4. k = l
  BY <1>1, <1>3, WriteTouches DEF Touches
<1>5. Expired(l)
  BY <1>3, <1>4 DEF Writes, Changes, Opens, Exists, Kept, Reviewed, Proposed, Accepted, Revised,
                    Closed, Restarted, Goes
<1> QED
  BY <1>5 DEF Expired

(* Neither the sweep nor a registration takes away a hold that a proposal or a *)
(* revision has renewed since they read it.                                    *)
THEOREM HoldsLast == Spec => RenewedHoldsSurvive
  BY Inductive, HoldsStep, PTL DEF Spec, RenewedHoldsSurvive

LEMMA OwnerStep ==
  PricingInv /\ [Next]_vars =>
    [\A t \in Txns :
       (/\ txn[t].step = "ready" /\ txn'[t] = Idle
        /\ txn[t].command \in {"accept", "revise", "close"}
        /\ lead'[txn[t].lead] # lead[txn[t].lead]
        /\ \A l \in Leads \ {txn[t].lead} : ~Exists(lead[l]))
          => txn[t].by = owner.who]_vars
<1> SUFFICES ASSUME PricingInv, Next, NEW t \in Txns,
                    txn[t].step = "ready", txn'[t] = Idle,
                    txn[t].command \in {"accept", "revise", "close"},
                    lead'[txn[t].lead] # lead[txn[t].lead],
                    \A l \in Leads \ {txn[t].lead} : ~Exists(lead[l])
             PROVE  txn[t].by = owner.who
  OBVIOUS
<1>1. ~Tick /\ ~(\E u \in Txns : Reads(u))
  BY ReadTypes DEF Tick, Rest, PricingInv
<1>2. PICK u \in Txns, k \in Leads : Writes(u, k)
  BY <1>1, NextCases
<1>3. u = t
  BY <1>2, TxnWrites DEF Idle
<1>4. Command(t)
  BY <1>2, <1>3, ReleaseChanges, CreateOpens DEF Writes, Releasing, Resolving, PricingInv
<1>5. Fresh(t)
  BY <1>4, CommitFinds
<1>6. txn[t].command \in OwnerCommands
  BY DEF OwnerCommands
<1> QED
  BY <1>5, <1>6 DEF PricingInv, OwnersAsRead, Alone

(* The executive whose decision lands owns the client of a single lead at that *)
(* moment: a reassignment of it would have moved the version.                  *)
THEOREM OwnersDecide == Spec => OwnerDecides
  BY Inductive, OwnerStep, PTL DEF Spec, OwnerDecides
=============================================================================
