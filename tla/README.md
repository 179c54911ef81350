# Culqi360 in TLA+

Specifications of the concurrent parts of Culqi360 (a CRM for field sales executives, a
browser-extension softphone that records calls, and a search engine service), the TLC
configurations that check them, and TLAPS proofs of their safety invariants.

Every definition is written from the source. Comments quote a document only where a property
restates its claim. `PROJECT.json` maps each definition to its lines, and lists components, runs,
hazards, findings and theorems.

## 1. The system

```
 browser (Chrome)                     apps/web (Bun, PostgreSQL)                 crates/ (Rust)
 +------------------------+  HTTPS   +-------------------------------------+  HTTP  +--------+
 | service worker         | -------> | actions and extension API           | -----> | engine |
 | offscreen document     |          |   workflow/lead, capacity, ...      |        +--------+
 | IndexedDB, Web Locks   |          | maintenance worker                  |
 +------------------------+          |   job queues, ticks, LISTEN/NOTIFY  |
                                     | blob store (files on disk)          |
                                     +-------------------------------------+
```

Web processes and the maintenance worker share one PostgreSQL database and one blob directory and
have no other channel; a `NOTIFY` wakes the worker. The extension reaches the server by HTTP alone.

### Inventory

Modelled, entirely or in part:

| component | state | operations | what is hard | what makes it correct |
|---|---|---|---|---|
| Job queue, `server/platform/jobs` | queue columns of each job table: state, lease owner, `claimable_at`, attempt count | enqueue, claim a batch, renew, settle (done, retry, failed), `onSettled` | leases expire under a live handler, late settlements, statements that throw after committing, crash on the last attempt | a stale run changes nothing; done means handled; every job settles |
| Maintenance worker, `server/entrypoints/worker` | per process and queue: drain in progress, follow-up flag, stop in progress | notify, poll, drain, stop | a notification between the last claim and the end of the drain; `LISTEN` is in force only after the first claim, and not while the connection is down | a notification that was heard gets its job claimed; one that was not is made good by the poll |
| Recordings, `server/extension/service/recordings.ts` | recording and segment rows, blobs on disk, call end | create, upload a segment, close, sweep idle | database and disk share no transaction; concurrent uploads of one segment; repeated closes | a success answer is true; `complete` is whole and final; no row without its blob |
| Blob store | files by key | put, delete | deletes by a cleaner that looked before | as above |
| Extension call state and recorder, `apps/extension/src/background`, `entrypoints/offscreen` | call phase, recording row, chunks, Web Lock, offscreen document, `active` recorder | handoff, start, connect, end; record, stop, interrupt; sweep orphans | three parties over IndexedDB, every await an interleaving, the document or the worker dies | one recorder per call, only while it is live; closed audio is final; orphans get closed |
| Extension outbox and delivery, `services/outbox.ts`, `services/deliver.ts` | queue rows with attempts, backoff and dead letters; a pass | run a pass, deliver create, segment and close jobs, re-queue missing segments, retry dead letters | lost answers, requests that arrive after their fetch failed, a worker that dies mid-pass | audio is deleted only when the server has all of it; a closed recording is delivered or shows a dead letter |
| Leads up to the accepted rate, `server/workflow/lead` | lead rows with version and reservation, owner, proposals, revisions | register, review, edit, propose, accept, revise, close, expire, restart, delete, reassign | READ COMMITTED, nothing locked while it is read, two tables decide together, a clock | one live lead per RUC; a decision lands once and by the owner; lapsed holds are released |
| Lead setup and fulfillment, `workflow/lead/venue` and `fulfillment` | the lead row, venues with accounts, the order and its step, the units | create a venue, add its accounts, choose the product, attach, record a unit, validate, reject, edit and delete the lead | only a change of stage has a version predicate; venues, units and steps are written by id | a funded SETUP moves on; order and lead agree; a LIVE lead has its sales registered |
| Usage ledger and capacity, `server/capacity` | reservations, commits, grants, capacity requests, an advisory lock | plan, reserve, run, commit, cancel, complete, ask for and decide capacity, grant directly | three reads against statements of others; a call may die anywhere, its answer may be lost | nobody gets more than the limit; no contact is free; a request is decided once |
| Contact assignments | contacts handed out | refill a buffer, complete | as above | every contact is charged |
| Extension sessions, both sides: `server/extension/service/handoff.ts`, `session.ts`; `apps/extension` | web logins, handoffs, sessions and their hashes; tokens in `storage.local`, requests in flight | claim a handoff, send, refresh, log out | two flows write the tokens and neither waits; a claim and a refresh both rotate; answers get lost | a handoff is claimed once and by one browser; nobody stays on tokens that were overtaken |
| Merchant statistics snapshots, `server/merchant-stats/snapshot` | snapshots with cut and state, placements, issues, jobs, first credits | accept, stage, finalise, resolve an issue, activate, retry, settle | two runs of one job; uploads decided in any order; a review beside a late run | one snapshot is active and no later one gave way to it; a change is reviewed; a review is not lost |

Not modelled:

| component | why |
|---|---|
| Lead reads, timeline, files | projections: no state that a transition reads |
| Inquiries | each is written by one request; what a conversion leaves behind is in `LeadPricing` (the leads it may start with) |
| Notifications | four chained queues; `JobQueue` is the queue, a handler renders, sends and records one delivery, and the providers are outside the repository |
| Realtime streams | subscribing, reading and buffering happen in one event loop (`realtime/stream.ts:20-60`); no transition depends on a message, and a browser that reconnects reads everything again |
| Client search, data-source uploads | `JobQueue` is the queue; the handlers are idempotent data transformation |
| Extension UI, web UI | they show the state of others |
| Authentication, invites, users | the state of one login form at a time; what the other modules need is who owns a client and whether a login has ended |
| Organization projection, event log | appends inside the transactions of others; ownership is in `LeadPricing` |
| Engine client, engine, pipeline, leads and search crates | a separate service, import and full-text search, whose core is data transformation |
| Database platform and operations | each module states what it assumes of a transaction, a lock or a notification |

## 2. The modules

| module | models | checked by | proofs |
|---|---|---|---|
| `JobQueue` | job queue and wakers | `MCJobQueue` | `JobQueueProofs` |
| `RecordingServer` | server side of recordings, blob store | `MCRecordingServer` | `ExtensionServerProofs` |
| `Recorder` | call state, recorder, orphan sweep | `MCRecorder` | `RecorderProofs` |
| `ExtensionSync` | outbox, delivery, network, the server's answers | `MCExtensionSync` | `ExtensionSyncProofs` |
| `AudioCustody` | abstract promise that `ExtensionSync` implements | through `KeepsCustody` | |
| `LeadPricing` | leads from registration to SETUP | `MCLeadPricing` | `LeadPricingProofs` |
| `LeadFulfillment` | one lead from SETUP to LIVE | `MCLeadFulfillment` | `LeadFulfillmentProofs` |
| `UsageLedger` | usage ledger, capacity requests, contacts handed out | `MCUsageLedger` | `UsageLedgerProofs` |
| `ExtensionSession` | handoffs, sessions and tokens, server and extension | `MCExtensionSession` | `ExtensionServerProofs` |
| `GpvSnapshots` | report snapshots, their job and review | `MCGpvSnapshots` | `GpvSnapshotsProofs` |

The rule for steps is the same everywhere: one SQL statement, one transaction or one IndexedDB
transaction is one step; anything after an `await` is another. Actions carry the name of their
function wherever it has one.

**JobQueue.** `state`, `owner`, `due` and `attempt` are a row's columns. A process keeps, for every
job of its batch, `phase` (where `processJob` is), `seen` (the attempt of the snapshot it claimed),
`aborted` and `outcome`. `drain`, `full` and `followUp` are the waker. `listening` is the connection
whose `LISTEN` is in force, `notified` a notification on its way: `Start` wakes the queue and opens the
connection, and only `Listen`, some time later, makes the process hear the trigger; `Disconnect` ends
it until the next `Listen`. What was inserted before is not announced again. `ClaimBatch` is `claim`;
`ClaimFails` a claim that throws, before its statement took effect or after it, with the rows leased
to a run that never begins;
`RenewLease` and `Abort` the renewal timer and the timeout, `HandlerReturns` the handler with
`resolve`, `Settle` / `SettleRejected` / `SettleThrows` the three ends of the settle statement,
`OnSettled` the report. `Crash`, `Stop`, `Stopped` and `Start` are the life of a process.
Delays (`backoff.ts`) and lease times are one boolean: `due` becomes true at any time.

**RecordingServer.** `req` is the upload in flight: `PutSegment`, `FindSegment`, `PutBlob`,
`InsertSegment` (or `InsertRefused`, `InsertLoses`, `InsertThrows`), `FindWinner`, and the discard
path `LookupRow`, `DeleteBlob`; `RequestDies` may end it anywhere. Create, close and sweep are one
transaction each. `acked` and `granted` remember the answers given. A refused request (bad token,
bad header) changes nothing and is left out.

**Recorder.** `current` and `phase` are the calls; `row`, `interrupted` and `chunks` IndexedDB;
`lock` the Web Lock; `doc` and `active` the offscreen document; `start` one start request, which
becomes the recorder, from the shortcut or button to the released lock; `stopDue` a handler about to
send the stop message; `sweep` the orphan sweep. `lost` remembers that a chunk was lost.
`CloseAfterFailure` is the worker's clean-up of a start that failed, a refused one included.
What the microphone sounds like, badges and notices are left out.

**ExtensionSync.** `queue` holds create, segment and close jobs in order; `pass` is `runPass` over
its snapshot (`todo`, `held` lanes), `call` the request it awaits, `wire` requests that nobody awaits
and that may still arrive. `server`, `segments` and `manifest` are what the server has: here a
request to it is one step, because `RecordingServer` is the module that opens it up.
`ServerForgets` stands for a segment the server reports missing although it had been acknowledged.
Left out: the event and heartbeat lane, and why a session is unusable (`PassStops` is all it does).

**AudioCustody** has three actions: `Capture` a chunk, `TakeOver` by the server of the whole
recording, `LetGo` of the device's copy. `ExtensionSync` implements it with `device <- chunks` and
`kept <- ` the server's segments of a complete recording.

**LeadPricing.** `Open` reads the lead and its owner (`Request` for users, `Sweep` for the
reservation sweep), `ReadProposals` is the second statement, each command commits in one step,
`Rollback` is a refusal or a version that moved. `Fresh` is the predicate of `commitTransition`,
`OnlyLive` the partial unique index on the live lead of an organization, `RoundFree` the unique
(lead, round). A registration takes four: `RegisterLead` reads the holder, `ReleaseHolder` expires a
lapsed one in its own transaction, `ResolveRegistration` reads again, `CreateLead` inserts.
The amounts of a proposal, the timeline, notifications and permissions other than ownership are left
out, and so is the pending-quotation limit.

**LeadFulfillment.** `lead`, `venues`, `funded`, `order` and `units` are the rows. A transaction starts
with `ReadLead` and reads on in statements of its own: `ReadOrder` and `ReadUnits` for a command on
the order, `ReadVenue`, `CountVenues` and `CountFunded` for the accounts of a venue. Its commit is one
step: `ChooseProduct`, `AttachDocument`, `RecordUnitValue`, `ValidatePayment`, `Reject`, `CreateVenue`,
`AddVenueAccounts`, `EditLead`, `DeleteLead`. `Fresh` guards what changes the stage (`commitTransition`),
`Recorded` what appends an event of the lead; everything else is written whatever has become of the
row. `Successor` is `STEP_SEQUENCE`, `RejectTo` and `RejectClears` what a rejection undoes. A unit is
the set of its columns that are filled; what they hold is left out, as are permissions.

**UsageLedger.** A call goes through `Plan` (buffer and day), `Lock`, `ReadReservations`, `Reserve`
(which reads the commits and inserts the row), `Assign`, `Settle`, `UpdateReservation` or `Cancel`, and
may `Die` at each of them; the lock ends with its transaction. `ReadRequest`, `Approve` and `Reject` are
the supervisor's decision, `GrantDirect` the grant without one, `Complete` the contact that leaves the
buffer, `NewDay` midnight. `lost` marks a call whose contacts were written although it was told that
they were not. Which contacts they are is left out, and so is the branch of `ledger.ts:178` for a call
that consumed more than it had reserved: the engine's query is limited to the amount it was asked for.

**ExtensionSession.** A claim is `ClaimReads`, `ClaimWrites`, `ClaimCommits` at the server (the rows it
updates are locked to its commit), and `ClaimAnswered`, `ClaimRefused`, `ClaimStored` in the worker. A
pass is `StartPass`, `SendServed` or `SendRefused` (a 401). A refresh request is four statements at
the server, `RefreshFinds`, `RefreshChecks` (is the login alive), and `RefreshRevokes` or
`RefreshRotates`, which ask for nothing the earlier ones have read; then `RefreshAnswered` in the
worker, and after a refusal `ClearCredentials`, because `clearCredentials` reads the record before it
writes it back. A browser presents the installation id it has stored (`ids`), and as long as it has
none every claim mints its own (`Presented`), so that first claims that overlap present different ids;
an id is modelled by the claim that minted it. `Logout` ends a web login and revokes the sessions there are.
`LoseClaim` and `LoseRefresh` lose an answer, or the worker that waited for it. Tokens are a session and
whether its row still holds their hash: that is all a comparison can tell. An access token may be
refused at any time, because it expires after a quarter of an hour. Its specification, types and
variables have names of their own (`SessionSpec`, `SessionTypeOK`, `sessionVars`), so that one module
can prove about it and about `RecordingServer`, the other half of the server's extension API.

**GpvSnapshots.** `Accept`, `Finalize`, `Stage` and the resolutions `Reject`, `KeepPrevious`,
`AcceptCandidate`, `ExcludeCandidate` are one transaction and one step each, because each locks the
dataset row or the snapshot row first. Between them a run is taken apart: `Claim` or `Steal`, `Load`,
`Mark`, `Stage`, `Finalize`, `Settle`, `OnSettled`, with `Throw` and `Crash`. `Decide` is the comparison
with the active snapshot that ends in activation or in issues, `Recheck` the same after the last
resolution, `Activate` what it publishes. A report is the map from placements to RUCs; the other
columns of a placement change a snapshot the same way.

**How they fit.** `Recorder` writes rows, chunks and jobs; `ExtensionSync` takes them from there with
its own, smaller version of the recorder (`BeginRecording`, `StoreChunk`, `FinishRecording`), sound
because `Recorder` shows that a closed recording's audio is final and that its row is closed once.
`ExtensionSync` relies on two answers of the server, and `RecordingServer` shows that both are true
and stay so: an acknowledged segment is stored, and `complete` is whole and final
(`AnswersAreTrue`, `CompleteIsFrozen`). `ExtensionSync` stops a pass whenever its session is unusable
(`PassStops`); `ExtensionSession` shows how it becomes so and that it does not remain so. `LeadPricing`
ends in SETUP, where `LeadFulfillment` begins, and no command leads back. `GpvSnapshots` has a queue of
its own, with the columns of `JobQueue` it needs: a job's run may be overtaken, and the handler is made
of transactions that must stand it. The sweep of recordings and that of reservations are ticks of
the maintenance worker. No module is instantiated into another apart from `AudioCustody`; the
compositions above meet at these named properties.

## 3. What the runs check

| run | configuration | shows |
|---|---|---|
| `jobqueue` | `JobQueue_faults` | with two processes fighting over one job, only the run of the current attempt settles it (`FencedRuns`, `StaleRunsAreFenced`), `done` means its handler succeeded before any abort and reports match the row (`OutcomesAreTrue`), and a job settles unless a fault hit its last attempt (`EveryJobSettles`, `Stranded`) |
| `jobqueue_wakeup` | `JobQueue_wakeup` | a process that is told of a new job gets it claimed by the notification and the follow-up alone, without the poll, as long as its connection stands (`NewJobsAreClaimed`); a job inserted before the `LISTEN`, or while the connection is down, is left to the poll |
| `server_recordings` | `RecordingServer_uploads` | what the server answers is true and stays so (`AnswersAreTrue`: acknowledged segments are stored, `complete` means whole), `complete` is final (`CompleteIsFrozen`), no race of uploads deletes a row's blob unless an insert threw (`BlobsSurviveRaces`), idle recordings are swept (`IdleIsSwept`) |
| `server_blob_race` | `RecordingServer_blobs` | violation of `RowsHaveBlobs` |
| `recorder` | `Recorder_races` | a live recorder keeps lock and row (`RecorderOwnsItsRow`), closed audio is final (`ClosedAudioIsFinal`), a recording that lost a chunk is closed as interrupted unless a stop reached its recorder after the loss (`LossIsReported`), orphans are closed (`OrphansAreClosed`) |
| `recorder_double_start` | `Recorder_restart` | violation of `InterruptedHasCause` |
| `extension_sync` | `ExtensionSync_custody` | the pipeline implements `AudioCustody` (`KeepsCustody`), the queue and the recordings agree (`SyncInv`: the way to `complete` is queued, once, and a complete recording leaves nothing behind), and a closed recording is delivered or shows a dead letter (`ClosedIsDelivered`) |
| `lead_pricing` | `LeadPricing_races` | one live lead per RUC (`OneLiveLead`), lead, proposals and revisions agree (`LeadInv`: accepted rate exactly in SETUP, a hold only in PRICING, rounds counted), decisions and ends are final (`DecisionsStand`), a renewed hold survives a stale expiry (`RenewedHoldsSurvive`), the owner decides (`OwnerDecides`), lapsed holds are released (`LapsedIsReleased`) |
| `lead_fulfillment` | `LeadFulfillment_races` | a lead does not stay in SETUP with every venue funded (`FundedSetupAdvances`), order and lead agree (`OrderFollowsLead`), LIVE means that every unit's sale is registered if its product was chosen once (`LiveIsRegistered`), the lead only moves forward and not at all once deleted (`OnlyForward`) |
| `usage_ledger` | `UsageLedger_calls` | the limit holds for everything that was not wrongly reported as failed (`WithinLimit`), a call is charged for its contacts while it runs, dies or ends (`ChargesMatch`), a request is granted once (`GrantsFollowApprovals`), a waiting call gets the lock (`CallsEnd`) |
| `extension_sessions` | `ExtensionSession_claims` | a handoff is consumed once (`ClaimedOnce`), by the browser that stores its call (`SessionInv`), requests that do not overlap leave the last tokens stored and one session alive (`StoredIsCurrent`), a browser on overtaken tokens leaves them (`StaleSessionsEnd`), the end of a login reaches every browser (`EndedLoginsSignOut`) |
| `gpv_snapshots` | `GpvSnapshots_reviews` | reports are published in the order of their cuts and months credited from what was published (`PublishedIsConsistent`), what changes from one to the next was reviewed (`ChangesAreReviewed`), outcomes and reviews survive late runs (`DecidedStays`), and a snapshot does not stay in progress unless a crash takes the last step (`SnapshotsSettle`) |

A property that says several things of one subject is the conjunction of named parts, defined above it
in the module. `TypeOK` is a theorem of its own, or part of `SyncInv`, `LeadInv` or `SessionInv`,
which are theorems.

### Bounds, and why they are enough

* `JobQueue_faults`: one job, two processes, two attempts, two faults (a crash, a stop or a statement
  that fails). Rows of different jobs never interact, except through batches, which
  `JobQueue_wakeup` has (two jobs, batch size 2, no faults). Two attempts give a current run, a stale
  run and the limit; two faults let both attempts be hit. 175,415 states. `JobQueue_wakeup` has one
  process: connections that open late and break are not counted as faults. 17,203 states.
* `RecordingServer_uploads`: one recording and one sequence number with three requests and two
  bodies: collisions need one key, and three requests are a writer, a loser and a late cleaner.
  `MaxErrors` bounds inserts that throw to one. Two segments are not needed by TLC, because the
  theorems hold for any `MaxSegments`. 849,007 states.
* `Recorder_races`: two calls, because a second call may replace the first under a recorder; two
  start requests; one chunk; one fault anywhere. 319,778 states.
* `ExtensionSync_custody`: one recording, since lanes meet only in the order of a pass and share no
  row; two chunks, so that one can be missing; three attempts; four faults, enough to exhaust a job
  and hit another. 149,405 states.
* `LeadPricing_races`: two leads on one RUC, two executives and back office, two transactions, a
  reservation of one tick on a clock of two, so that one lapses and one is renewed; one revision
  round. `MaxVersion` bounds the sum of the versions at which users still start commands. 434,930
  states; the safety properties also hold at 5 (1.79 million states), left out for its time.
* `LeadFulfillment_races`: two venues, because two requests that fund the last two are the race; two
  transactions, since a transaction meets another only at its reads and its commit, and what a third
  would do to its reads the second can do twice; three units, so that "the last one" and "all
  others" differ; all three products. `MaxVersion` stops commands that leave the stage alone at
  version 3, and `MaxUnits` a second choice of product. 1,631,532 states.
* `UsageLedger_calls`: two calls over two days (one of them may cross midnight), two decisions on one
  request, a limit and a buffer of two, so that one call can be granted all, some or nothing; one direct
  grant. 685,067 states.
* `ExtensionSession_claims`: two browsers, because a handoff can be claimed by either; three pages, one
  of which repeats a handoff or brings the next; one login and one fault. Two logins exceed what TLC
  does in minutes; sessions of different logins meet only in the browser, where they are treated as
  those of one. 175,421 states.
* `GpvSnapshots_reviews`: two reports over one placement, the second cut before, with or after the
  first; two workers, two attempts, one fault. Two suffice for a review overtaken by another
  activation, because the first has an unreadable row: it can wait in review while the second is
  activated. More reports or placements only TLAPS does. `Finalize` itself rejects nothing at these
  bounds, `Recheck` does. 413,885 states.
* The configurations of violations are the smallest that show them.

`CHECK_DEADLOCK FALSE` is set where the model may stop: `JobQueue_wakeup`, when all work is done;
`LeadPricing`, `LeadFulfillment` and
`UsageLedger`, when clock, days and versions reach their bounds; `ExtensionSession`, when everybody is
signed out; `GpvSnapshots`, when every report is decided.

### Fairness

* `JobQueue`: time passes (`BecomesDue`), processes go on with what they are doing, are restarted
  (`Start`; the compose file restarts the worker), connect in the end (`Listen`; `connect` is retried)
  and poll every second. Crashes and broken connections get none. `JobQueue_wakeup` switches the poll
  off, and so promises only the jobs that a process is told of. `EveryJobSettles` has the poll, which
  also makes up for a claim that threw and for what was inserted before the `LISTEN`.
* `RecordingServer`: weak fairness of `Sweep`, a scheduled tick of the worker. No client owes a step.
* `Recorder`: alarms and pending promises (`SweepStep`, `SendStop`, the steps of a start and of a
  stop), and calls end. Nobody has to start one.
* `ExtensionSync`: the alarm starts passes, a pass goes on, an awaited request is answered unless it
  fails, backoff ends. This assumes a signed-in agent who is online; the agent owes no retry of a
  dead letter, which is why `ClosedIsDelivered` allows one.
* `LeadPricing`: strong fairness of `Sweep(l)`, because the sweep's turn on a connection is taken by
  users again and again, and weak fairness of the steps of the sweep's transaction. `MaxVersion`
  stands for users who eventually leave the lead alone: nothing in the code stops them from winning
  every race with the sweep, which skips a lead whose version moved.
* `LeadFulfillment`: none. Nobody owes the next command of an order.
* `UsageLedger`: a request that has reached the server is carried on (`Advance` of a call that has
  started); `Die` may interrupt it anywhere.
* `ExtensionSession`: the alarm starts passes, a pass goes on, the server carries on a refresh it has
  received and a refresh that is not lost is answered (weak fairness each); an access token used long
  enough expires, so that `SendRefused` gets strong fairness. Claims get none: nobody owes a page.
* `GpvSnapshots`: one weak fairness for claims and steps together. Attempts are numbered and the
  steps of an attempt are finite, so that it needs no fairness for each job.

## 4. Findings

Each is a run that ends in a violation:

1. **`server_blob_race`** (bug): `discardUnreferencedBlob` looks for a row and deletes the blob
   afterwards without a lock. Two identical uploads, the insert of one throws, it finds no row, the
   other commits its row, the first deletes the blob: the row points at nothing, a close may still
   answer `complete`, and the device deletes its copy. `docs/architecture.md` promises "never a row
   that points at a missing one". `BlobsSurviveRaces` is what does hold.
2. **`recorder_double_start`** (bug): two start requests for one call; the loser's failure handling
   closes the offscreen document, the one the winner records in. The recording ends as interrupted
   although nothing failed.

Met while modelling, and present in the models as behaviour that the properties allow; paths are
below `apps/web/src/server` or `apps/extension`:

* `entrypoints/offscreen/main.ts:237`: a stop request after a failed chunk write sets `stopRequested`
  again, and the close says that nothing was lost. `LossIsReported` says that only a stop that reaches
  the recorder after the loss does this, never one sent before it.
* `entrypoints/offscreen/main.ts:207`: a call that ends between the commit of the recording row and the
  assignment of `active` is recorded on, because the stop finds no recorder.
* `workflow/lead/commands/propose-rate.ts:15`: a second proposal while one is pending leaves both
  pending, against the comment at `lead-repo.ts:230-231`; the limit on pending quotations counts the lead
  twice.
* `workflow/lead/fulfillment/commands.ts:609`: a rejection and a validation both read
  `AWAITING_PAYMENT_VALIDATION`; the rejection clears the proof and goes back a step, the validation then
  writes `AWAITING_SALE_REGISTRATION` over it. A sale is registered for units without a proof of
  payment, against the order of `fulfillment.types.ts:36-37`.
* `workflow/lead/fulfillment/commands.ts:226`: two choices of product both create units. The order goes
  on when the units of the later reader are filled, which is why `LiveIsRegistered` asks for one choice.
* `capacity/application/usage/ledger.ts:168`: contacts whose commit has an unknown outcome are cancelled
  and never charged (`lost`); a process that dies while it runs leaves its reservation pending, and
  the executive pays for the day, because no sweep releases it.
* `merchant-stats/snapshot/accept.ts:44-56`: a content is a duplicate whatever became of it, so the
  report of a snapshot that failed cannot be uploaded again; `repo.ts:56-57` speaks of re-imports.
* `merchant-stats/snapshot/resolve-issue.ts:129`: an issue that was resolved against one active snapshot
  covers whatever differs at that placement from the one that is active in the end.
* `extension/src/services/session.ts:39-45`: `clearCredentials` reads the session record and writes it
  back; tokens of a handoff that were stored in between are gone, and the extension is signed out with
  a session it has just been given.
* `extension/src/background/runtime.ts:202`: two first claims of one browser present different
  installation ids. With two handoffs each gets a session of its own and the one that commits last
  revokes the other; with one handoff the second claim is refused, as if by another browser.
* `merchant-stats/snapshot/runner.ts:52`: a crash in the last attempt, or between the failure of the job
  and its report, leaves a snapshot in progress for good (`Lost`).

## 5. What is proved

TLAPS proves the thirty-nine theorems that `PROJECT.json` lists, and the lemmas and partial theorems
they rest on, for every value of the constants that satisfies the modules' `ASSUME`s. Every safety
property that a passing run checks is among them. Each module follows the same argument: an inductive invariant (`IInv` where there is one for
all), one lemma for each of its conjuncts with a step for each action that can disturb it, and the
properties as consequences. The invariants were checked with TLC on the runs' instances before they
were proved.

**JobQueueProofs**: `TypeCorrect`, `RunsAreFenced`, `OutcomesAreTold`, `RetriesAreClaimable`,
`StaleRunsFenced`. The fencing properties are not inductive: a claim raises the row's attempt by one,
and only because no run has seen an attempt beyond the row's is the new one seen by nobody else.
`IInv` is `TypeOK` with `RunInv` (`SeenIsPast`: a run's attempt is at most the row's; `OwnerRunsCurrentAttempt`;
`AttemptsRunOnce`), `RowInv` (`PendingHasAttempts`; `RetryHasAttempts`: a run that decided to retry
has an attempt left; `AbsentIsFresh`) and `DoneInv` (`DoneWasHandled`; `DoneRunSucceeded`: a run
about to settle as done did succeed; `ReportMatchesRow`). `RunsNeedDrain`, proved first, says that a
process claims only while it runs nothing, so a claim never replaces a run of its own. They rest on `WorkerIdAssumption`: the
lease is fenced by the identity alone, `bg-<pid>`, and no two processes alive share one.

**ExtensionServerProofs**, of `RecordingServer`: `TypeCorrect`, `AnswersStayTrue`, `FinishedCallsEnd`,
`CompleteStaysFrozen`,
`BlobsAreKept`. `IInv` adds `AnswerIsStored` (a request about to answer success has its bytes in the
row), `CompleteIsWhole` (a complete recording has all segments of its
manifest) and `GrantedMatches` (an answered manifest is the stored one). `BlobsAreKept` has its own
invariant, under `errors = 0`: rows have their blobs, and of each request, its blob is there when it
inserts, its sequence number is decided (a row is there, or the recording is complete, so no insert
of it can succeed any more) once it looks for a row to keep or discard for, and it deletes only what
no row names. An insert that throws leaves the number undecided, and that is finding 1.

**ExtensionServerProofs**, of `ExtensionSession`: `SessionsStay`, `HandoffsClaimedOnce`,
`StoredStaysCurrent`. Three invariants, each on top of the one before. `Base` is `SessionTypeOK` with
who waits for what: a refresh without an answer presents a token (`AsksWithToken`), and a pass that
waits does so for one request (`Awaits`); without them an answer would give a session 0 tokens, or
wake a pass that has ended. `OwnInv` carries the installation along with everything that names a
session: handoffs, stored tokens, passes, requests and claims from their read to their answer
(`ClaimOwns`). Of an id it says whose browser minted it, not which one it is: `HomeInv` keeps the ids that
are stored, presented and carried by passes and requests with their browser (`IdsHome`, `ClaimsHome`,
`PassesHome`, `RequestsHome`). It needs `ConsumeInv`: transactions that are not committed consume different handoffs
that nobody has, which is what the row locks and the recheck of `consumed_at` are for, and which is
`HandoffsClaimedOnce` at the commit. Sessions only get added and revoked (`Grows`), so whoever held one
of his own still does. `CleanInv` is for runs in which nothing overlapped or was lost: a claim in
flight is alone (`Alone`), tokens in storage that are not the last ones have those on their way
(`UpToDate`), and a transaction about to commit revokes every session alive but its own (`CommitInv`).
A rotation overtakes the tokens of its own browser only, because of `OwnInv`.

**RecorderProofs**: `TypeCorrect`, `RecordersAreSafe`, `AudioIsFinal`, `LossesAreReported`. `IInv` adds
`RequestHasCall`, `HolderHasLock` (a request past the lock step holds it), `RunnerHasRow` (a running
recorder's row says `recording`) and `SweeperHasLock` (the sweep closes under the lock only), which
together exclude a recorder and a sweep on one call. `LossesAreReported` has `LossInv` besides: what was
lost was lost of a recording (`LossHasRow`), and a recorder that lost a chunk and was not asked to stop
since does not believe that it was (`LossUnstopped`): the failed write clears the flag, and a stop
request can only set it again after.

**ExtensionSyncProofs**: `QueueAgrees` and `AudioIsKept`, the refinement of `AudioCustody`. `CustodyInv`
ties the device to the server: until it is complete a recording has all its chunks on the device, the
server has no others, every job and every request, late ones included, belongs to a recording that is
far enough for it, and a close names all chunks there will ever be (`RequestsTell`). `QueueInv` is what
makes the answer to a close final: the request belongs to a living row of the pass (`CallHasRow`), a
close is out only while nothing else of its recording is queued (`CloseIsLast`), so what it completes
leaves no job, and what it has to queue again is queued once. The steps are classified by what they do
to the queue and to the device, and a storing, a completion at the server and a completion on the
device map to `Capture`, `TakeOver` and `LetGo`. Since the close tells the total, the branch in which
`completeRecording` finds other audio than it sent (`CompleteRecording`, second case) is never taken.

**LeadPricingProofs**: `RowsOfALeadAgree`, `OneLeadIsLive`, `DecisionsLast`, `HoldsLast`,
`OwnersDecide`. What a commit does is said once in terms of the rows alone (`Changes`, one disjunct for
each kind of write, and `Opens`), and the properties of the rows are proved from that. That a command's
write is one of them needs what its transaction carries: `ReadsAreOld` (an equal version means an equal
row), `RowsAsAllowed` (what was read is what the domain allowed the command on), `RoundsAsRead` (while
the version stands, the proposal it read is the latest and pending) and `OwnersAsRead`. Each is kept
because a write to a lead is newer than what any other transaction has read of it
(`StaleOnceTouched`). `OneLeadIsLive` rests on the unique index, not on what the registration read.

**LeadFulfillmentProofs**: `TypeCorrect`, `FundedLeadsAdvance`, `OrdersFollowLeads`,
`LiveLeadsAreRegistered`, `LeadsOnlyAdvance`. `LeadInv` relates what a transaction has read to the rows: an equal version means an equal row (`ReadsAreOld`), the stage and
the step it was allowed on (`StagesAsRead`, `OrdersAsRead`). Two theorems need more. `FundInv`
(`CountsAsRead`): while the version has not moved, the accounts a transaction has counted are those
there are, since funding a venue always moves it. A venue created since does not, and can only make
the total too small: the lead moves on with an unfunded venue, but never stays. `SaleInv` (`LastIsLast`, `ChosenOnce`): a command that holds the last open unit at the registration
of the sale has all others registered, since nothing empties a registered unit.

**UsageLedgerProofs**: `TypeCorrect`, `LimitHolds`, `GrantsMatch`, `LedgerCharges`, and `DecisionsStand`: a
capacity request is decided once. `CallInv` says for each step of a call what its own rows are: the reservation is pending with the
amount requested until the commit row is there, and the contacts written are at most that. Calls do not
touch each other's rows (`OwnRows`), so it is proved for one. The limit is a matter of all calls of a
day: `LimitInv` bounds the sum of what each has handed out or may still hand out (`Cost`). Only a
reservation that is granted makes a cost grow, and it compares with what it read under the lock:
the grants first, then the reservations, then the commits. `HolderInv` says why that is
enough: reservation as read plus commit as it is now covers the cost of every call, since a call that
has left the reservations in between has come to the commits, and nobody else reserves meanwhile; and
grants only grow. Amounts are added up without recursion, as the cardinality of a union of units
(`Total`, for finitely many calls and requests, which `LedgerAssumption` asks for), and the lemmas on
sums follow from those on finite sets. `GrantsMatch` counts the approved requests of a day the same
way: `markApproved` asks for a pending request and the grant follows it in one transaction, so both
move in one step or neither does.

**GpvSnapshotsProofs**: `TypeCorrect`, `PublishedStaysConsistent`, `ReviewBeforeChange`,
`DecisionsStay`, and `DoneJobsAreSettled`: a job is done only with its snapshot decided. Every step is classified once by what
it does to the snapshots; each theorem then has a case for each class. `PublishedInv` adds that once a
snapshot was superseded one is active, and that being later is transitive; `ReviewedInv` that only
snapshots out of staging have resolved issues, which is why staging again loses none; `DoneInv` that a
run about to report success has found or left its snapshot decided.

Only model-checked: every liveness property (`EveryJobSettles`, `NewJobsAreClaimed`, `IdleIsSwept`,
`OrphansAreClosed`, `ClosedIsDelivered`, `LapsedIsReleased`, `CallsEnd`, `StaleSessionsEnd`,
`EndedLoginsSignOut`, `SnapshotsSettle`), because fairness and `ENABLED` are out of the prover's reach,
and what the two runs that end in a violation show.

## 6. Hazards without a property

`PROJECT.json` lists the hazards of this code with the properties that cover them. No property covers:

* Two workers in two containers could share a pid and so a lease identity
  (`maintenance-worker.ts:15`): what one container image's processes are numbered is not in the code,
  and the proofs assume they differ (`WorkerIdAssumption`).
* An EXPIRED lead can be reassigned (`reassign-lead.ts:39`), which moves the ownership of the
  organization's live lead without touching its version. `OwnerDecides` is therefore said of
  organizations with one lead.
* The numbers of a pending proposal are edited in place (`edit-rate-proposal.ts:22`); an accept names
  the proposal, and the model leaves the numbers out.
* Registrations are serialized against the pending-quotation limit, proposals are not: the limit
  counts leads over all organizations of an executive, and `LeadPricing` has one organization.
* A second choice of product, and a payment that overtakes its rejection: section 4.

Some properties cover a part of the hazard they are listed under, and `PROJECT.json` says so there.
`LiveIsRegistered` catches a LIVE lead with a sale missing, not the order that waits because two
requests each saw the other's unit as empty. `SnapshotsSettle` catches a job called done without a
decision, not a job that fails although its snapshot was decided. `StoredIsCurrent` is said of requests
that do not overlap; what overlapping ones leave behind is the subject of `StaleSessionsEnd`.

## 7. What is left out, and what could follow

Within the modelled components, `PROJECT.json` says of each what its module leaves out. The largest
parts: permissions beyond ownership and logins; the values behind a filled column; presence, heartbeats
and the event lane of the extension (inserts of what the client sends); commission, attainment and
exports over published snapshots; the scheduled ticks of the maintenance worker other than the two
sweeps. Of the repository's lines most are pages and forms, the search engine, seeds and migrations:
they have no state whose interleavings a model checker would order.

Next in line would be a model of the notification queues, once what their handlers must not repeat is
written down, and the steps of the liveness arguments that are safety properties (what a run's progress
measure never does).
