-------------------------- MODULE ExtensionSession --------------------------
(* The sessions of one executive's browser extensions: how a web handoff is    *)
(* claimed and how the tokens are rotated, at the server (apps/web/src/server/ *)
(* extension) and in the extension's worker (apps/extension).                  *)
(*                                                                             *)
(* Two flows of a worker write the stored tokens: a handoff that was claimed,  *)
(* and an outbox pass that met a 401. Neither waits for the other. At the      *)
(* server a claim is one transaction, a refresh is four statements without     *)
(* one, and both give the session a new refresh token, which ends the one      *)
(* before. An answer can be lost and a worker can be stopped while the server  *)
(* goes on with what it asked for.                                             *)
(*                                                                             *)
(* A browser names itself by the installation id it has stored, and by a new   *)
(* one as long as it has none: first claims that overlap present different     *)
(* ids. An id is modelled by the claim it was made for.                        *)
EXTENDS Integers, Sequences, FiniteSets

CONSTANTS
    Logins,         \* web logins of the executive
    Handoffs,       \* the handoffs it has issued, one per call
    Browsers,       \* browsers with the extension
    Claims,         \* web pages that hand a handoff to the extension, once each
    HandoffsOf,     \* the handoffs of each page: it hands over one of them
    BrowserOf,      \* and the browser it is open in
    MaxFaults       \* bound: answers lost, or workers stopped while they wait

\* No installation: the value before there is one.
Nobody == "nobody"

ASSUME SessionAssumption ==
    /\ HandoffsOf \in [Claims -> SUBSET Handoffs]
    /\ BrowserOf \in [Claims -> Browsers]
    /\ Nobody \notin Claims
    /\ MaxFaults \in Nat

VARIABLES
    logins,         \* the web logins that are alive
    handoffs,       \* extension_handoffs
    sessions,       \* extension_installation_sessions, in order of creation
    claims,         \* claims of a handoff in flight
    refreshes,      \* refresh requests in flight
    store,          \* the tokens each browser has in storage.local
    ids,            \* and its installation id there, which outlives the tokens
    received,       \* the handoffs whose call each browser has stored
    pass,           \* the outbox pass of each browser
    faults,
    clean           \* no request overlapped another, none was lost or refused

server == <<logins, handoffs, sessions>>
client == <<store, ids, received>>
sessionVars == <<server, claims, refreshes, client, pass, faults, clean>>

\* session: 0 as long as consumed_at is null.
Handoff == [login: Logins, installation: Claims \cup {Nobody}, session: Nat]

Session == [login: Logins, installation: Claims, revoked: BOOLEAN]

\* An access token, which names its session, and the refresh token issued with
\* it; current: the row of the session still holds the hash of the latter.
Credentials == [session: Nat \ {0}, current: BOOLEAN]

SignedOut == [session |-> 0]

Idle == [at |-> "idle"]

Done == [at |-> "done"]

(* at: the next step of a claim; installation: the id it presents; heard: its  *)
(* worker still waits for it; consume and session: whether it consumes the     *)
(* handoff, and the session it continues, or 0 for a new one; revoke: the      *)
(* sessions its transaction is revoking.                                       *)
Claim == [at: {"read", "write", "commit", "answer", "store"}, handoff: Handoffs,
          installation: Claims, heard: BOOLEAN, consume: BOOLEAN, session: Nat, revoke: SUBSET Nat,
          creds: Credentials \cup {SignedOut}]

Refresh == [at: {"find", "check", "rotate", "revoke", "answer"}, browser: Browsers,
            installation: Claims \cup {Nobody}, awaited: BOOLEAN,
            creds: Credentials \cup {SignedOut}]

\* creds and installation: the session record that the pass has read.
Pass == [at: {"send", "refresh", "clear"}, creds: Credentials,
         installation: Claims \cup {Nobody}, refreshed: BOOLEAN]

SessionTypeOK ==
    /\ logins \subseteq Logins
    /\ handoffs \in [Handoffs -> Handoff]
    /\ sessions \in Seq(Session)
    /\ claims \in [Claims -> Claim \cup {Idle, Done}]
    /\ refreshes \subseteq Refresh
    /\ store \in [Browsers -> Credentials \cup {SignedOut}]
    /\ ids \in [Browsers -> Claims \cup {Nobody}]
    /\ received \in [Browsers -> SUBSET Handoffs]
    /\ pass \in [Browsers -> Pass \cup {Idle}]
    /\ faults \in 0 .. MaxFaults
    /\ clean \in BOOLEAN

SessionInit ==
    /\ logins = Logins
    /\ \E login \in [Handoffs -> Logins] :
          handoffs = [h \in Handoffs |-> [login |-> login[h], installation |-> Nobody,
                                          session |-> 0]]
    /\ sessions = <<>>
    /\ claims = [c \in Claims |-> Idle]
    /\ refreshes = {}
    /\ store = [i \in Browsers |-> SignedOut]
    /\ ids = [i \in Browsers |-> Nobody]
    /\ received = [i \in Browsers |-> {}]
    /\ pass = [i \in Browsers |-> Idle]
    /\ faults = 0
    /\ clean = TRUE

-----------------------------------------------------------------------------
(* Sessions and credentials.                                                   *)

\* findValidInstallationSession
Valid(s) == ~sessions[s].revoked

\* A new refresh token overtakes the others of its session, wherever they are.
Overtake(s, creds) ==
    IF creds.session = s THEN [creds EXCEPT !.current = FALSE] ELSE creds

\* issueSessionCredentials
Fresh(s) == [session |-> s, current |-> TRUE]

\* rotateInstallationSessionRefreshToken, by the id of the session alone: what
\* becomes of the tokens that browsers hold and passes use.
Rotate(s) ==
    /\ store' = [i \in Browsers |-> Overtake(s, store[i])]
    /\ ids' = ids
    /\ pass' = [i \in Browsers |->
                  IF pass[i] = Idle THEN Idle
                  ELSE [pass[i] EXCEPT !.creds = Overtake(s, @)]]

Asked(s, r) == [r EXCEPT !.creds = Overtake(s, @)]

Claiming(s, claim) ==
    IF claim \in {Idle, Done} THEN claim ELSE [claim EXCEPT !.creds = Overtake(s, @)]

Revoked(rows, revoke) ==
    [s \in DOMAIN rows |-> IF s \in revoke THEN [rows[s] EXCEPT !.revoked = TRUE]
                                           ELSE rows[s]]

Flying == {c \in Claims : claims[c] \notin {Idle, Done}}

-----------------------------------------------------------------------------
(* The web application.                                                        *)

\* logoutUser, revokeUserSession
Logout(l) ==
    /\ l \in logins
    /\ logins' = logins \ {l}
    /\ sessions' = Revoked(sessions, {s \in DOMAIN sessions : sessions[s].login = l})
    /\ UNCHANGED <<handoffs, claims, refreshes, client, pass, faults, clean>>

-----------------------------------------------------------------------------
(* A claim.                                                                    *)

Busy == Flying # {} \/ refreshes # {} \/ \E i \in Browsers : pass[i] # Idle

\* The id that is stored, or else a new one.
Presented(c) == IF ids[BrowserOf[c]] = Nobody THEN c ELSE ids[BrowserOf[c]]

\* acceptHandoff refuses while a call is live, and posts the token.
BeginClaim(c) ==
    /\ claims[c] = Idle
    /\ \E h \in HandoffsOf[c] :
          claims' = [claims EXCEPT ![c] =
                       [at |-> "read", handoff |-> h, installation |-> Presented(c),
                        heard |-> TRUE, consume |-> FALSE, session |-> 0, revoke |-> {},
                        creds |-> SignedOut]]
    /\ clean' = (clean /\ ~Busy)
    /\ UNCHANGED <<server, refreshes, client, pass, faults>>

\* The claim is refused, or its transaction fails and is rolled back.
ClaimFails(c) ==
    /\ claims[c].at \in {"read", "write", "commit"}
    /\ claims' = [claims EXCEPT ![c] = Done]
    /\ UNCHANGED <<server, refreshes, client, pass, faults, clean>>

\* findActiveInstallationSession
Reusable(login, i) ==
    {s \in DOMAIN sessions :
        sessions[s].login = login /\ sessions[s].installation = i /\ Valid(s)}

\* Mutant: whoever has the handoff may continue the session.
SameInstallation_Any(row, i) == TRUE

\* A consumed handoff is only good for the installation that consumed it.
SameInstallation(row, i) == row.installation = i

\* Whether a consumed handoff still leads to a session of the installation.
Continues(row, i) == SameInstallation(row, i) /\ Valid(row.session)

ClaimReads(c) ==
    /\ claims[c].at = "read"
    /\ LET i == claims[c].installation
           row == handoffs[claims[c].handoff]
       IN  /\ row.login \in logins
           /\ \/ /\ row.session # 0
                 /\ Continues(row, i)
                 /\ claims' = [claims EXCEPT ![c].at = "write", ![c].session = row.session]
              \/ /\ row.session = 0
                 /\ \E s \in IF Reusable(row.login, i) = {} THEN {0}
                                                          ELSE Reusable(row.login, i) :
                       claims' = [claims EXCEPT ![c].at = "write", ![c].session = s,
                                                ![c].consume = TRUE]
    /\ UNCHANGED <<server, refreshes, client, pass, faults, clean>>

\* The rows a transaction has written and not committed yet: others wait.
Locked(c, h, rows) ==
    \E d \in Claims \ {c} :
        /\ claims[d].at = "commit"
        /\ \/ claims[d].consume /\ claims[d].handoff = h
           \/ rows \cap (claims[d].revoke \cup {claims[d].session}) # {}

\* revokeOtherInstallationSessionsByUser: of the sessions committed by now.
Write(c, consume, s) ==
    LET others == {o \in DOMAIN sessions \ {s} : ~sessions[o].revoked}
    IN  /\ ~Locked(c, claims[c].handoff, (others \cup {s}) \ {0})
        /\ claims' = [claims EXCEPT ![c].at = "commit", ![c].consume = consume,
                                    ![c].session = s, ![c].revoke = others]

\* Mutant: consumeHandoff does not ask that consumed_at is null.
Unconsumed_Any(row) == TRUE

Unconsumed(row) == row.session = 0

\* consumeHandoff, or what the claim that was faster left behind.
ClaimWrites(c) ==
    /\ claims[c].at = "write"
    /\ LET row == handoffs[claims[c].handoff]
       IN  IF ~claims[c].consume \/ Unconsumed(row)
           THEN Write(c, claims[c].consume, claims[c].session)
           ELSE Continues(row, claims[c].installation) /\ Write(c, FALSE, row.session)
    /\ UNCHANGED <<server, refreshes, client, pass, faults, clean>>

ClaimCommits(c) ==
    /\ claims[c].at = "commit"
    /\ LET new == claims[c].session = 0
           s == IF new THEN Len(sessions) + 1 ELSE claims[c].session
           row == handoffs[claims[c].handoff]
           rest == Revoked(sessions, claims[c].revoke)
       IN  /\ sessions' =
                IF new THEN Append(rest, [login |-> row.login, revoked |-> FALSE,
                                          installation |-> claims[c].installation])
                       ELSE rest
           /\ handoffs' =
                IF claims[c].consume
                THEN [handoffs EXCEPT ![claims[c].handoff].session = s,
                        ![claims[c].handoff].installation = claims[c].installation]
                ELSE handoffs
           /\ claims' = [d \in Claims |->
                IF d # c THEN Claiming(s, claims[d])
                ELSE IF claims[c].heard
                     THEN [claims[c] EXCEPT !.at = "answer", !.creds = Fresh(s)]
                     ELSE Done]
           /\ refreshes' = {Asked(s, r) : r \in refreshes}
           /\ Rotate(s)
    /\ UNCHANGED <<logins, received, faults, clean>>

\* receiveHandoff: the call is stored once.
ClaimAnswered(c) ==
    /\ claims[c].at = "answer"
    /\ received' = [received EXCEPT ![BrowserOf[c]] = @ \cup {claims[c].handoff}]
    /\ claims' = [claims EXCEPT ![c].at = "store"]
    /\ UNCHANGED <<server, refreshes, store, ids, pass, faults, clean>>

\* receiveHandoff refuses a new call: an earlier one went live meanwhile.
ClaimRefused(c) ==
    /\ claims[c].at = "answer"
    /\ received[BrowserOf[c]] \ {claims[c].handoff} # {}
    /\ claims[c].handoff \notin received[BrowserOf[c]]
    /\ claims' = [claims EXCEPT ![c] = Done]
    /\ clean' = FALSE
    /\ UNCHANGED <<server, refreshes, client, pass, faults>>

\* Mutant: a claim that continued a session keeps the tokens in storage.
ClaimStored_New(c) ==
    /\ claims[c].at = "store"
    /\ store' = [store EXCEPT ![BrowserOf[c]] =
                   IF @.session = claims[c].creds.session THEN @ ELSE claims[c].creds]
    /\ ids' = [ids EXCEPT ![BrowserOf[c]] = claims[c].installation]
    /\ claims' = [claims EXCEPT ![c] = Done]
    /\ UNCHANGED <<server, refreshes, received, pass, faults, clean>>

ClaimStored(c) ==
    /\ claims[c].at = "store"
    /\ store' = [store EXCEPT ![BrowserOf[c]] = claims[c].creds]
    /\ ids' = [ids EXCEPT ![BrowserOf[c]] = claims[c].installation]
    /\ claims' = [claims EXCEPT ![c] = Done]
    /\ UNCHANGED <<server, refreshes, received, pass, faults, clean>>

\* The answer is lost, or the worker is stopped: the server goes on.
LoseClaim(c) ==
    /\ c \in Flying
    /\ claims[c].heard
    /\ faults < MaxFaults
    /\ faults' = faults + 1
    /\ claims' = [claims EXCEPT ![c] = IF @.at \in {"answer", "store"} THEN Done
                                       ELSE [@ EXCEPT !.heard = FALSE]]
    /\ clean' = FALSE
    /\ UNCHANGED <<server, refreshes, client, pass>>

-----------------------------------------------------------------------------
(* A pass of the outbox.                                                       *)

\* runPass reads the session once.
StartPass(i) ==
    /\ pass[i] = Idle
    /\ store[i] # SignedOut
    /\ pass' = [pass EXCEPT ![i] = [at |-> "send", creds |-> store[i],
                                       installation |-> ids[i], refreshed |-> FALSE]]
    /\ clean' = (clean /\ Flying = {} /\ refreshes = {})
    /\ UNCHANGED <<server, claims, refreshes, client, faults>>

\* Mutant: a session outlives the web login that created it.
LoginAlive_Any(s) == TRUE

\* hasActiveAuthSession
LoginAlive(s) == sessions[s].login \in logins

\* authenticateInstallationSession
SendServed(i) ==
    /\ pass[i] # Idle /\ pass[i].at = "send"
    /\ Valid(pass[i].creds.session) /\ LoginAlive(pass[i].creds.session)
    /\ pass' = [pass EXCEPT ![i] = Idle]
    /\ UNCHANGED <<server, claims, refreshes, client, faults, clean>>

(* The same, answering 401: the access token may have expired at any time. The *)
(* first 401 of a pass asks for a refresh, the second ends it.                 *)
SendRefused(i) ==
    /\ pass[i] # Idle /\ pass[i].at = "send"
    /\ LET s == pass[i].creds.session
       IN  sessions' \in {sessions} \cup (IF LoginAlive(s) THEN {} ELSE {Revoked(sessions, {s})})
    /\ IF pass[i].refreshed
       THEN pass' = [pass EXCEPT ![i] = Idle] /\ UNCHANGED refreshes
       ELSE /\ pass' = [pass EXCEPT ![i].at = "refresh", ![i].refreshed = TRUE]
            /\ refreshes' = refreshes \cup
                 {[at |-> "find", browser |-> i, installation |-> pass[i].installation,
                   awaited |-> TRUE, creds |-> pass[i].creds]}
    /\ UNCHANGED <<logins, handoffs, claims, client, faults, clean>>

\* What becomes of a request that has its answer.
Answered(r, creds) ==
    IF r.awaited THEN {[r EXCEPT !.at = "answer", !.creds = creds]} ELSE {}

\* findRefreshableInstallationSession, by the hash of the token.
Refreshable(r) ==
    /\ r.creds.current
    /\ sessions[r.creds.session].installation = r.installation
    /\ Valid(r.creds.session)

RefreshFinds(r) ==
    /\ r.at = "find"
    /\ refreshes' = (refreshes \ {r}) \cup
         (IF Refreshable(r) THEN {[r EXCEPT !.at = "check"]} ELSE Answered(r, SignedOut))
    /\ UNCHANGED <<server, claims, client, pass, faults, clean>>

\* hasActiveAuthSession, for the session that was found.
RefreshChecks(r) ==
    /\ r.at = "check"
    /\ refreshes' = (refreshes \ {r}) \cup
         {[r EXCEPT !.at = IF LoginAlive(r.creds.session) THEN "rotate" ELSE "revoke"]}
    /\ UNCHANGED <<server, claims, client, pass, faults, clean>>

RefreshRevokes(r) ==
    /\ r.at = "revoke"
    /\ sessions' = Revoked(sessions, {r.creds.session})
    /\ refreshes' = (refreshes \ {r}) \cup Answered(r, SignedOut)
    /\ UNCHANGED <<logins, handoffs, claims, client, pass, faults, clean>>

\* Nothing asks that session and login are still as they were found.
RefreshRotates(r) ==
    /\ r.at = "rotate"
    /\ LET s == r.creds.session
       IN  /\ refreshes' = {Asked(s, q) : q \in refreshes \ {r}} \cup Answered(r, Fresh(s))
           /\ claims' = [c \in Claims |-> Claiming(s, claims[c])]
           /\ Rotate(s)
    /\ UNCHANGED <<server, received, faults, clean>>

\* The tokens that were refreshed are stored under the id that presented the old
\* ones, and the job is sent again.
Refreshed(i, r) ==
    /\ store' = [store EXCEPT ![i] = r.creds]
    /\ ids' = [ids EXCEPT ![i] = r.installation]
    /\ pass' = [pass EXCEPT ![i].at = "send", ![i].creds = r.creds,
                            ![i].installation = r.installation]

\* Mutant: a refused refresh is taken for one that failed, and the tokens stay.
RefreshAnswered_Keeps(i) ==
    \E r \in refreshes :
        /\ r.at = "answer" /\ r.awaited /\ r.browser = i
        /\ refreshes' = refreshes \ {r}
        /\ IF r.creds = SignedOut
           THEN pass' = [pass EXCEPT ![i] = Idle] /\ UNCHANGED <<store, ids>>
           ELSE Refreshed(i, r)
        /\ UNCHANGED <<server, claims, received, faults, clean>>

\* recoverSession. After a 401 clearCredentials reads the session record first.
RefreshAnswered(i) ==
    \E r \in refreshes :
        /\ r.at = "answer" /\ r.awaited /\ r.browser = i
        /\ refreshes' = refreshes \ {r}
        /\ IF r.creds = SignedOut
           THEN /\ pass' = [pass EXCEPT ![i].at = "clear", ![i].installation = ids[i]]
                /\ UNCHANGED <<store, ids>>
           ELSE Refreshed(i, r)
        /\ UNCHANGED <<server, claims, received, faults, clean>>

\* Whatever is stored by now, the record is written back without its tokens.
ClearCredentials(i) ==
    /\ pass[i] # Idle /\ pass[i].at = "clear"
    /\ store' = [store EXCEPT ![i] = SignedOut]
    /\ ids' = [ids EXCEPT ![i] = pass[i].installation]
    /\ pass' = [pass EXCEPT ![i] = Idle]
    /\ UNCHANGED <<server, claims, refreshes, received, faults, clean>>

\* As LoseClaim; a worker that goes on ends its pass.
LoseRefresh(r) ==
    /\ r.awaited
    /\ faults < MaxFaults
    /\ faults' = faults + 1
    /\ refreshes' = (refreshes \ {r})
         \cup (IF r.at = "answer" THEN {} ELSE {[r EXCEPT !.awaited = FALSE]})
    /\ pass' = [pass EXCEPT ![r.browser] = Idle]
    /\ clean' = FALSE
    /\ UNCHANGED <<server, claims, client>>

-----------------------------------------------------------------------------
SessionNext ==
    \/ \E l \in Logins : Logout(l)
    \/ \E c \in Claims :
          \/ BeginClaim(c) \/ ClaimFails(c) \/ ClaimReads(c) \/ ClaimWrites(c) \/ ClaimCommits(c)
          \/ ClaimAnswered(c) \/ ClaimRefused(c) \/ ClaimStored(c) \/ LoseClaim(c)
    \/ \E i \in Browsers :
          \/ StartPass(i) \/ SendServed(i) \/ SendRefused(i)
          \/ RefreshAnswered(i) \/ ClearCredentials(i)
    \/ \E r \in refreshes :
          \/ RefreshFinds(r) \/ RefreshChecks(r) \/ RefreshRevokes(r) \/ RefreshRotates(r)
          \/ LoseRefresh(r)

SessionSpec == SessionInit /\ [][SessionNext]_sessionVars

\* What the server does for the refresh requests of a browser.
Serve(i) ==
    \E r \in refreshes :
        /\ r.browser = i
        /\ RefreshFinds(r) \/ RefreshChecks(r) \/ RefreshRevokes(r) \/ RefreshRotates(r)

(* The heartbeat alarm keeps passes coming, a pass and a refresh that reached  *)
(* the server are carried on, and a token that is used long enough expires.    *)
FairSessionSpec ==
    /\ SessionSpec
    /\ \A i \in Browsers :
          /\ WF_sessionVars(Serve(i))
          /\ WF_sessionVars(StartPass(i))
          /\ WF_sessionVars(SendServed(i) \/ SendRefused(i))
          /\ SF_sessionVars(SendRefused(i))
          /\ WF_sessionVars(RefreshAnswered(i))
          /\ WF_sessionVars(ClearCredentials(i))
-----------------------------------------------------------------------------
(* Properties.                                                                 *)

(* A handoff is consumed once: claims that race for it, from one browser or    *)
(* from two, never change who has it and which session it leads to.            *)
ClaimedOnce ==
    [][\A h \in Handoffs :
          handoffs[h].session # 0
            => /\ handoffs'[h].session = handoffs[h].session
               /\ handoffs'[h].installation = handoffs[h].installation]_sessionVars

(* The browser that stores the call of a handoff is the one the server knows   *)
(* to have it, under whichever of its ids, and no browser holds tokens of      *)
(* another's session.                                                          *)
KeepsToItsInstallation ==
    \A i \in Browsers :
        /\ \A h \in received[i] :
              handoffs[h].installation \in Claims /\ BrowserOf[handoffs[h].installation] = i
        /\ store[i] # SignedOut => BrowserOf[sessions[store[i].session].installation] = i

(* Sessions and handoffs stay with the browser they were issued to, whichever  *)
(* claims and refreshes overlap.                                               *)
SessionInv == SessionTypeOK /\ KeepsToItsInstallation

(* As long as no request overlapped another, was lost, or was refused because  *)
(* a call had started, and with nothing in flight: the tokens of a browser     *)
(* that is signed in are the last ones its session was given, and at most one  *)
(* session of the executive is alive.                                          *)
StoredIsCurrent ==
    clean /\ ~Busy =>
        /\ \A i \in Browsers :
              store[i] # SignedOut => store[i].current
        /\ Cardinality({s \in DOMAIN sessions : ~sessions[s].revoked}) <= 1

\* The tokens in storage are good for nothing but an access token that expires.
Stale(i) ==
    /\ store[i] # SignedOut
    /\ ~store[i].current \/ ~Valid(store[i].session)

(* However the tokens in storage came to be overtaken (by a pass that writes   *)
(* over those of a newer handoff, a lost answer, another browser), the         *)
(* extension does not keep running on them: it is signed out, or gets others.  *)
StaleSessionsEnd == \A i \in Browsers : Stale(i) ~> ~Stale(i)

(* Once a web login has ended no browser stays signed in through it, also if   *)
(* a claim inserted its session after the logout had revoked them.             *)
EndedLoginsSignOut ==
    \A i \in Browsers, l \in Logins :
        (store[i] # SignedOut /\ sessions[store[i].session].login = l /\ l \notin logins)
            ~> (store[i] = SignedOut \/ sessions[store[i].session].login \in logins)
=============================================================================
