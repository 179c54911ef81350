----------------------------- MODULE LeadPricing -----------------------------
(* One organization (one RUC) and the leads the CRM opens on it, from the      *)
(* registration to the accepted rate: apps/web/src/server/workflow/lead.       *)
(*                                                                             *)
(* Every command is one READ COMMITTED transaction (runLeadTransaction). It    *)
(* reads the lead row, a pricing command then reads the proposals in a second  *)
(* statement, and its writes become visible together when it commits. Nothing  *)
(* is locked while it reads: what keeps two commands apart is the version      *)
(* predicate of commitTransition, the partial unique index on the live lead of *)
(* an organization and the unique (lead, round) of the proposals. A command    *)
(* that is refused, or whose row lock shows another version, rolls back and    *)
(* leaves nothing behind.                                                      *)
EXTENDS Integers, Sequences, FiniteSets, FiniteSetsExt

CONSTANTS
    Leads,          \* identities of the lead rows that may be opened
    Executives,     \* users who may own the organization
    BackOffice,     \* whoever else acts: back office, supervisors, the sweep
    Txns,           \* transactions that can be in flight at once
    Sweeper,        \* the one of them the reservation sweep gets a turn on
    Validity,       \* days a quotation is reserved, in ticks of the clock
    MaxRevisions,   \* MAX_RATE_REVISION_ROUNDS
    MaxTime,        \* bound: the clock stops here
    MaxVersion      \* bound: no user command starts once the versions of the
                    \* leads add up to this

ASSUME PricingAssumption ==
    /\ Validity \in Nat \ {0} /\ MaxTime \in Nat \ {0}
    /\ MaxRevisions \in Nat /\ MaxVersion \in Nat
    /\ BackOffice \notin Executives
    /\ Sweeper \in Txns

VARIABLES
    clock,      \* the time of day a request takes as its operationAt
    lead,       \* workflow_leads
    owner,      \* the open row of organization_owner_assignments
    proposals,  \* workflow_rate_proposals: outcomes of a lead, by round
    revisions,  \* workflow_rate_revisions: how many rounds a lead has
    txn         \* the transactions in flight

vars == <<clock, lead, owner, proposals, revisions, txn>>

Stages == {"NONE", "QUALIFYING", "DISQUALIFIED", "PRICING", "EXPIRED",
           "CLOSED_LOST", "SETUP"}
Outcomes == {"pending", "accepted", "revision_requested"}

\* reservation_expires_at is null
NoHold == 0

Times == 1 .. MaxTime

Row == [stage: Stages, expires: Nat, deleted: BOOLEAN, version: Nat]

NoRow == [stage |-> "NONE", expires |-> NoHold, deleted |-> FALSE, version |-> 0]

OwnerCommands == {"edit-scope", "accept", "revise", "close"}
PricingCommands == {"propose", "edit", "accept", "revise"}
Commands == OwnerCommands \cup PricingCommands
              \cup {"review", "restart", "expire", "delete", "reassign"}
DatedCommands == {"propose", "revise", "reassign"}

\* A transaction that has read nothing yet.
Idle == [step |-> "idle"]

(* seen: the lead row as findById returned it; by: who acts, or for a          *)
(* reassignment who receives the organization; at: operationAt, taken when the *)
(* request came in, kept by the commands that write it; round: the proposal    *)
(* the command writes.                                                         *)
Working == [step: {"read", "ready"}, command: Commands, lead: Leads,
            by: Executives \cup {BackOffice}, at: Times \cup {0}, seen: Row,
            round: Nat]

Registering == [step: {"resolve", "create"}, by: Executives, at: Times]
                 \cup [step: {"release"}, by: Executives, at: Times,
                       lead: Leads, seen: Row]

TypeOK ==
    /\ clock \in Times
    /\ lead \in [Leads -> Row]
    /\ owner \in [who: Executives \cup {BackOffice}, since: Nat]
    /\ proposals \in [Leads -> Seq(Outcomes)]
    /\ revisions \in [Leads -> 0 .. MaxRevisions]
    /\ txn \in [Txns -> {Idle} \cup Working \cup Registering]

Init ==
    /\ clock = 1
    /\ lead = [l \in Leads |-> NoRow]
    /\ owner = [who |-> BackOffice, since |-> 0]
    /\ proposals = [l \in Leads |-> <<>>]
    /\ revisions = [l \in Leads |-> 0]
    /\ txn = [t \in Txns |-> Idle]

-----------------------------------------------------------------------------
(* The rows.                                                                   *)

Exists(row) == row.stage # "NONE"

\* findById: a deleted lead is not found.
Visible(row) == Exists(row) /\ ~row.deleted

\* The leads that hold the RUC, and the condition of the partial unique index.
Live(row) == Visible(row) /\ row.stage # "EXPIRED"

Active(row, at) == row.expires # NoHold /\ row.expires > at

Lapsed(row, at) == row.expires # NoHold /\ row.expires <= at

Latest(l) == Len(proposals[l])

\* Mutant: the outcome of the latest proposal is not looked at.
Pending_Any(l) == Latest(l) > 0

Pending(l) == Latest(l) > 0 /\ proposals[l][Latest(l)] = "pending"

-----------------------------------------------------------------------------
(* What the domain allows of the row a command has read.                       *)

\* Mutant: an expiry asks for the owner, whom the sweep is not.
Owned_Sweep(c, e) ==
    CASE c \in OwnerCommands \cup {"expire"} -> e = owner.who
      [] c = "restart" -> e \in {owner.who, BackOffice}
      [] c = "reassign" -> e \in Executives \ {owner.who}
      [] OTHER -> e = BackOffice

Owned(c, e) ==
    CASE c \in OwnerCommands -> e = owner.who
      [] c = "restart" -> e \in {owner.who, BackOffice}
      [] c = "reassign" -> e \in Executives \ {owner.who}
      [] OTHER -> e = BackOffice

InStage(c, row) ==
    CASE c = "review" -> row.stage = "QUALIFYING"
      [] c \in PricingCommands \cup {"close", "expire"} -> row.stage = "PRICING"
      [] c = "restart" -> row.stage = "EXPIRED"
      [] OTHER -> TRUE

Holding(c, row, at) ==
    CASE c \in {"edit", "accept", "revise"} -> Active(row, at)
      [] c = "expire" -> Lapsed(row, at)
      [] OTHER -> TRUE

(* A transaction opens by reading the lead and its owner in one statement. The *)
(* operationAt may be older than the read: the request waited for a connection.*)
Open(t, c, l, e, at) ==
    /\ txn[t] = Idle
    /\ at <= clock
    /\ Visible(lead[l])
    /\ Owned(c, e)
    /\ InStage(c, lead[l])
    /\ Holding(c, lead[l], at)
    /\ txn' = [txn EXCEPT ![t] =
                [step |-> IF c \in PricingCommands THEN "read" ELSE "ready",
                 command |-> c, lead |-> l, by |-> e,
                 at |-> IF c \in DatedCommands THEN at ELSE 0,
                 seen |-> lead[l], round |-> 0]]
    /\ UNCHANGED <<clock, lead, owner, proposals, revisions>>

Request(t) ==
    /\ MapThenSumSet(LAMBDA l : lead[l].version, Leads) < MaxVersion
    /\ \E l \in Leads : \E c \in Commands \ {"expire"}, e \in Executives \cup {BackOffice},
                       at \in Times :
            Open(t, c, l, e, at)

Sweep(l) == \E at \in Times : Open(Sweeper, "expire", l, BackOffice, at)

(* The second statement: findLatest, or nextRound for a new proposal. A        *)
(* command that names an older proposal than the latest is refused as well.    *)
ReadProposals(t) ==
    /\ txn[t].step = "read"
    /\ LET l == txn[t].lead
           c == txn[t].command
           allowed == \/ c = "propose"
                      \/ c \in {"accept", "edit"} /\ Pending(l)
                      \/ c = "revise" /\ Pending(l) /\ revisions[l] < MaxRevisions
       IN  txn' = [txn EXCEPT ![t] =
                    IF allowed
                    THEN [@ EXCEPT !.step = "ready",
                                   !.round = IF c = "propose" THEN Latest(l) + 1
                                                              ELSE Latest(l)]
                    ELSE Idle]
    /\ UNCHANGED <<clock, lead, owner, proposals, revisions>>

-----------------------------------------------------------------------------
(* What makes the writes of a transaction fail when it commits.                *)

\* Mutant: the update of the lead has no version predicate.
Fresh_Any(t) == TRUE

\* commitTransition: UPDATE ... WHERE version = next.version - 1.
Fresh(t) == lead[txn[t].lead].version = txn[t].seen.version

\* Mutant: the index does not exist.
OnlyLive_Any(l) == TRUE

\* The unique index on the organization of a live lead.
OnlyLive(l) == \A k \in Leads \ {l} : ~Live(lead[k])

\* The unique index on (lead_id, round).
RoundFree(t) == txn[t].round = Latest(txn[t].lead) + 1

\* assignOrganizationOwnerInTransaction, under the organization's row lock.
Assignable(e, at) == e = owner.who \/ at > owner.since

Assigned(e, at) == IF e = owner.who THEN owner ELSE [who |-> e, since |-> at]

Conflicts(t) ==
    \/ ~Fresh(t)
    \/ txn[t].command = "restart" /\ ~OnlyLive(txn[t].lead)
    \/ txn[t].command = "propose" /\ ~RoundFree(t)
    \/ txn[t].command = "reassign" /\ ~Assignable(txn[t].by, txn[t].at)

\* The row of the command is written whole, from what it has read.
Commits(t, c, row) ==
    /\ txn[t].step = "ready"
    /\ txn[t].command = c
    /\ ~Conflicts(t)
    /\ lead' = [lead EXCEPT ![txn[t].lead] =
                    [row EXCEPT !.version = txn[t].seen.version + 1]]
    /\ txn' = [txn EXCEPT ![t] = Idle]
    /\ UNCHANGED clock

Rollback(t) ==
    /\ txn[t].step = "ready"
    /\ Conflicts(t)
    /\ txn' = [txn EXCEPT ![t] = Idle]
    /\ UNCHANGED <<clock, lead, owner, proposals, revisions>>

\* markOutcome writes by the id of the proposal, whatever its outcome is by now.
MarkOutcome(t, outcome) ==
    proposals' = [proposals EXCEPT ![txn[t].lead][txn[t].round] = outcome]

\* A day count from the operationAt of the command that reserves.
Reserved(t) == txn[t].at + Validity

-----------------------------------------------------------------------------
(* The commands. A review that knows only one of status and priority stamps it *)
(* and leaves the stage; CARTERIZADO and STOCK disqualify.                     *)
ReviewLead(t) ==
    /\ \E stage \in {"QUALIFYING", "DISQUALIFIED", "PRICING"} :
          Commits(t, "review", [txn[t].seen EXCEPT !.stage = stage])
    /\ UNCHANGED <<owner, proposals, revisions>>

EditCommercialScope(t) ==
    /\ Commits(t, "edit-scope", txn[t].seen)
    /\ UNCHANGED <<owner, proposals, revisions>>

\* Nothing asks whether the latest proposal is still pending.
ProposeRate(t) ==
    /\ Commits(t, "propose", [txn[t].seen EXCEPT !.expires = Reserved(t)])
    /\ proposals' = [proposals EXCEPT ![txn[t].lead] = Append(@, "pending")]
    /\ UNCHANGED <<owner, revisions>>

\* The numbers of the proposal change in place; its round and outcome do not.
EditRateProposal(t) ==
    /\ Commits(t, "edit", txn[t].seen)
    /\ UNCHANGED <<owner, proposals, revisions>>

AcceptRate(t) ==
    /\ Commits(t, "accept", [txn[t].seen EXCEPT !.stage = "SETUP",
                                                !.expires = NoHold])
    /\ MarkOutcome(t, "accepted")
    /\ UNCHANGED <<owner, revisions>>

\* The hold starts again while back office prepares the next round.
RequestRateRevision(t) ==
    /\ Commits(t, "revise", [txn[t].seen EXCEPT !.expires = Reserved(t)])
    /\ MarkOutcome(t, "revision_requested")
    /\ revisions' = [revisions EXCEPT ![txn[t].lead] = @ + 1]
    /\ UNCHANGED owner

\* A pending proposal is left as it is.
CloseLead(t) ==
    /\ Commits(t, "close", [txn[t].seen EXCEPT !.stage = "CLOSED_LOST",
                                               !.expires = NoHold])
    /\ UNCHANGED <<owner, proposals, revisions>>

\* Likewise.
ExpireReservation(t) ==
    /\ Commits(t, "expire", [txn[t].seen EXCEPT !.stage = "EXPIRED",
                                                !.expires = NoHold])
    /\ UNCHANGED <<owner, proposals, revisions>>

RestartQuotation(t) ==
    /\ Commits(t, "restart", [txn[t].seen EXCEPT !.stage = "PRICING"])
    /\ UNCHANGED <<owner, proposals, revisions>>

DeleteLead(t) ==
    /\ Commits(t, "delete", [txn[t].seen EXCEPT !.deleted = TRUE])
    /\ UNCHANGED <<owner, proposals, revisions>>

\* Mutant: the reassignment is appended as a fact, the version stays.
ReassignLead_Fact(t) ==
    /\ txn[t].step = "ready"
    /\ txn[t].command = "reassign"
    /\ ~Conflicts(t)
    /\ owner' = Assigned(txn[t].by, txn[t].at)
    /\ txn' = [txn EXCEPT ![t] = Idle]
    /\ UNCHANGED <<clock, lead, proposals, revisions>>

ReassignLead(t) ==
    /\ Commits(t, "reassign", txn[t].seen)
    /\ owner' = Assigned(txn[t].by, txn[t].at)
    /\ UNCHANGED <<proposals, revisions>>

-----------------------------------------------------------------------------
(* Registration of the RUC by an executive. The holder is looked up outside    *)
(* any transaction; a holder whose reservation lapsed is expired first, in a   *)
(* transaction of its own; then the RUC is resolved again. The lookup and the  *)
(* read of that transaction are one step here: a lead that changes between     *)
(* them sends the registration where a later lookup would have sent it.        *)

Holders == {l \in Leads : Live(lead[l])}

Unused == {l \in Leads : ~Exists(lead[l])}

RegisterLead(t, e, at) ==
    /\ txn[t] = Idle
    /\ at <= clock
    /\ \/ \E l \in Holders :
            /\ lead[l].stage = "PRICING"
            /\ Lapsed(lead[l], at)
            /\ txn' = [txn EXCEPT ![t] = [step |-> "release", by |-> e, at |-> at,
                                          lead |-> l, seen |-> lead[l]]]
       \/ /\ Holders = {}
          /\ txn' = [txn EXCEPT ![t] = [step |-> "create", by |-> e, at |-> at]]
    /\ UNCHANGED <<clock, lead, owner, proposals, revisions>>

\* Mutant: the lazy release trusts the row it looked up.
ReleaseHolder_Blind(t) ==
    /\ txn[t].step = "release"
    /\ lead' = [lead EXCEPT ![txn[t].lead] = [@ EXCEPT !.stage = "EXPIRED",
                                                       !.expires = NoHold,
                                                       !.version = @ + 1]]
    /\ txn' = [txn EXCEPT ![t] = [step |-> "resolve", by |-> txn[t].by,
                                  at |-> txn[t].at]]
    /\ UNCHANGED <<clock, owner, proposals, revisions>>

\* expireLeadReservation: a conflict fails the registration.
ReleaseHolder(t) ==
    /\ txn[t].step = "release"
    /\ IF Fresh(t)
       THEN /\ lead' = [lead EXCEPT ![txn[t].lead] =
                          [txn[t].seen EXCEPT !.stage = "EXPIRED",
                                              !.expires = NoHold,
                                              !.version = @ + 1]]
            /\ txn' = [txn EXCEPT ![t] = [step |-> "resolve", by |-> txn[t].by,
                                          at |-> txn[t].at]]
       ELSE /\ txn' = [txn EXCEPT ![t] = Idle]
            /\ UNCHANGED lead
    /\ UNCHANGED <<clock, owner, proposals, revisions>>

(* A live holder is a ruc_conflict. (Executives stay active: taking over the   *)
(* lead of a deactivated one is a reassignment to whoever registers.)          *)
ResolveRegistration(t) ==
    /\ txn[t].step = "resolve"
    /\ txn' = [txn EXCEPT ![t] = IF Holders = {} THEN [@ EXCEPT !.step = "create"]
                                                 ELSE Idle]
    /\ UNCHANGED <<clock, lead, owner, proposals, revisions>>

(* The insert, the new owner and, when a fresh inquiry answer is carried over, *)
(* its review (one commit for its status, one for its priority).               *)
CreateLead(t) ==
    /\ txn[t].step = "create"
    /\ Unused # {}
    /\ Holders = {}
    /\ Assignable(txn[t].by, txn[t].at)
    /\ \E born \in {<<"QUALIFYING", 0>>, <<"PRICING", 2>>, <<"DISQUALIFIED", 2>>} :
          lead' = [lead EXCEPT ![CHOOSE l \in Unused : TRUE] =
                       [NoRow EXCEPT !.stage = born[1], !.version = born[2]]]
    /\ owner' = Assigned(txn[t].by, txn[t].at)
    /\ txn' = [txn EXCEPT ![t] = Idle]
    /\ UNCHANGED <<clock, proposals, revisions>>

\* The index or the owner's dates refuse the insert; so does the model's supply.
CreateFails(t) ==
    /\ txn[t].step = "create"
    /\ \/ Holders # {}
       \/ ~Assignable(txn[t].by, txn[t].at)
       \/ Unused = {}
    /\ txn' = [txn EXCEPT ![t] = Idle]
    /\ UNCHANGED <<clock, lead, owner, proposals, revisions>>

-----------------------------------------------------------------------------
Tick ==
    /\ clock < MaxTime
    /\ clock' = clock + 1
    /\ UNCHANGED <<lead, owner, proposals, revisions, txn>>

Command(t) ==
    \/ ReviewLead(t)        \/ EditCommercialScope(t)  \/ ProposeRate(t)
    \/ EditRateProposal(t)  \/ AcceptRate(t)           \/ RequestRateRevision(t)
    \/ CloseLead(t)         \/ ExpireReservation(t)    \/ RestartQuotation(t)
    \/ DeleteLead(t)        \/ ReassignLead(t)

Registration(t) ==
    \/ ReleaseHolder(t)
    \/ ResolveRegistration(t)
    \/ CreateLead(t)
    \/ CreateFails(t)

Starts(t) ==
    \/ Request(t)
    \/ \E e \in Executives, at \in Times : RegisterLead(t, e, at)

Proceeds(t) == ReadProposals(t) \/ Command(t) \/ Rollback(t) \/ Registration(t)

Next ==
    \/ Tick
    \/ \E l \in Leads : Sweep(l)
    \/ \E t \in Txns : Starts(t) \/ Proceeds(t)

Spec == Init /\ [][Next]_vars

(* A transaction that has begun ends, and the maintenance job gets its turn on *)
(* a connection it shares with the users' requests (hence the strong           *)
(* fairness). A lapsed hold can be renewed under the sweep's feet, but not for *)
(* ever: MaxVersion stands for users who at some point leave the lead alone.   *)
FairSpec ==
    /\ Spec
    /\ \A l \in Leads : SF_vars(Sweep(l))
    /\ WF_vars(Proceeds(Sweeper))

-----------------------------------------------------------------------------
Rounds(l, outcome) == {r \in 1 .. Latest(l) : proposals[l][r] = outcome}

(* However registrations, restarts, expiries and deletions interleave, one RUC *)
(* is held by at most one lead: the rule idx_workflow_leads_organization keeps *)
(* and resolveLeadRegistration and restartQuotation only anticipate.           *)
OneLiveLead ==
    \A k, l \in Leads : Live(lead[k]) /\ Live(lead[l]) => k = l

(* A rate is accepted exactly when its lead has gone to SETUP, and it is the   *)
(* last proposal made: an accept racing an expiry, a close, a new proposal or  *)
(* a revision leaves no accepted rate on a lead that went elsewhere.           *)
AcceptedMovesToSetup ==
    \A l \in Leads :
        Rounds(l, "accepted") =
            IF lead[l].stage = "SETUP" THEN {Latest(l)} ELSE {}

(* A reservation is held only by a lead being priced. A stale write that put   *)
(* one back on a lead that left PRICING would keep the lead in the sweep's     *)
(* index, or revive an expired hold when the quotation is restarted.           *)
HoldMeansPricing ==
    \A l \in Leads : lead[l].expires # NoHold => lead[l].stage = "PRICING"

(* Every revision round answers a proposal of its own, and there are never     *)
(* more than MAX_RATE_REVISION_ROUNDS, although the count is read before it is *)
(* used.                                                                       *)
RevisionsAreCounted ==
    \A l \in Leads : /\ revisions[l] = Cardinality(Rounds(l, "revision_requested"))
                     /\ revisions[l] <= MaxRevisions

(* The lead row, its proposals and its revisions agree, although each command  *)
(* writes the whole row as it has read it and the two others by id.            *)
LeadInv ==
    TypeOK /\ AcceptedMovesToSetup /\ HoldMeansPricing /\ RevisionsAreCounted

(* A proposal is decided once: markOutcome writes by id alone, so only the     *)
(* version predicate keeps a second decision of another request from landing.  *)
DecisionsAreFinal ==
    \A l \in Leads : \A r \in 1 .. Latest(l) \ Rounds(l, "pending") :
        r <= Len(proposals'[l]) /\ proposals'[l][r] = proposals[l][r]

(* A deleted lead never changes again, and a lead that was disqualified, lost  *)
(* or set up never comes back to another stage, whatever was in flight.        *)
EndsAreFinal ==
    \A l \in Leads :
        /\ lead[l].deleted => lead'[l] = lead[l] /\ proposals'[l] = proposals[l]
        /\ lead[l].stage \in {"DISQUALIFIED", "CLOSED_LOST", "SETUP"}
             => lead'[l].stage = lead[l].stage

(* Whatever was in flight, a decision and the end of a lead stand.             *)
DecisionsStand == [][DecisionsAreFinal /\ EndsAreFinal]_vars

(* A hold is only taken away for lapsing once its day has come: a sweep or a   *)
(* registration that read a lapsed hold does not expire the one a new proposal *)
(* or a revision put there meanwhile.                                          *)
RenewedHoldsSurvive ==
    [][\A l \in Leads :
          lead[l].stage = "PRICING" /\ lead'[l].stage = "EXPIRED"
            => Lapsed(lead[l], clock)]_vars

(* The executive who accepts, revises or closes still owns the client when the *)
(* write lands: ownership was read before, lives in another table and moves    *)
(* with a reassignment. (Said of an organization with one lead only: an        *)
(* expired lead can still be reassigned, and that moves the ownership of the   *)
(* organization's live lead without touching its version.)                     *)
OwnerDecides ==
    [][\A t \in Txns :
          (/\ txn[t].step = "ready" /\ txn'[t] = Idle
           /\ txn[t].command \in {"accept", "revise", "close"}
           /\ lead'[txn[t].lead] # lead[txn[t].lead]
           /\ \A l \in Leads \ {txn[t].lead} : ~Exists(lead[l]))
             => txn[t].by = owner.who]_vars

(* A client whose reservation lapsed does not stay blocked: the sweep frees    *)
(* the RUC, or somebody has renewed, decided or removed the lead before, so    *)
(* that again and again no lead is past its hold.                              *)
Blocked(l) ==
    /\ Visible(lead[l])
    /\ lead[l].stage = "PRICING"
    /\ Lapsed(lead[l], clock)

LapsedIsReleased == []<>(\A l \in Leads : ~Blocked(l))
=============================================================================
