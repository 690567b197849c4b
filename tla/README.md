# Verification of hyper-trader

hyper-trader is a mobile trading client for the Hyperliquid exchange (`apps/mobile`), a notification and market-catalog
backend (`apps/api`) and two shared packages (`packages/hyperliquid`, `packages/notifications`). This directory holds
TLA+ models of it, the TLC configurations that check them on small instances, and TLAPS proofs of what they promise for
every instance. `PROJECT.json` maps every definition to the source lines it stands for and lists the components, runs,
mutants, hazards, findings and theorems.

```
 Trade / Portfolio ──review──> runtime provider ──> orchestrator ──> signer session (native prompts, key in memory)
  (drafts, editor)                  │  sheet             │ └──────> action journal + nonces (SQLite, survives crashes)
        ^                           │                    └────────> exchange (one request, response may be lost)
  streams, queries,        context supervisor                             │
  preferences, lists         (switches, epoch)       startup / sheet ─> reconciliation port ─> evidence ─> journal

 notification client ──HTTP──> authority (installations, proofs, links, rules) ──> rules, monitors ──> alert
  (enable, queue, open)             │ revoke / unlink: drain, ledger, commit           │ leases, shared connections
                                    └────────────> outbox, permits, tickets <──────────┘ delivery and receipt workers
 market lists, portfolio <──HTTP── catalog generations (Postgres or D1), portfolio snapshots
```

## 1. Inventory

| component | state | operations | hard behaviours | what makes it correct |
|---|---|---|---|---|
| Action journal and nonces (`platform/persistence`, `hyperliquid/nonces`, `hyperliquid/reconciliation/state.ts`) | tables `signer_scopes`, `retired_signer_tombstones`, `action_journal`; per instance the rows it prepared; write permits | register, retire, reserve, mark submission, transition, claim/renew/release/reschedule lease, recover | crash between two writes, two instances over one database, clock set back, late writers | nonces grow; one write per row, after a durable marker; settled rows frozen; one pending equivalent |
| Signer session (`core/session`) | status, epoch, key, timer, unlock in flight | unlock, sign, lock, expiry | native calls that return after a lock; the prompt itself backgrounds the app | no key outside an unlocked foreground session; signatures belong to one session; sessions end |
| Context supervisor (`core/context`) | committed context, epoch; rendered context in React | switch, commit, fail, render | overlapping switches, rendering lags the commit | the latest selection wins |
| Reconciliation (`hyperliquid/reconciliation/policy.ts`, `features/actions/reconciler.ts`, `authoritative-reconciliation.ts`) | rows, leases, attempts, server-time sample | claim, query, decide, renew and settle or reschedule, retry, give up | request still travelling while it is asked about; lost leases; two runtimes; failing queries | outcomes are true, never rewritten, and reached |
| Orchestrator and sheet (`features/actions`) | flow phase and generation, pending flag, review, mounted runtime | confirm, dismiss, retry, remount, recover | overlapping confirmations, remount during one, context switch during one | what is shown is what is durable; the sheet lets go |
| Order confirmation (`packages/hyperliquid/actions`, `exchange`, `features/actions/authoritative-order-refresh.ts`) | review, refreshed market, account and orders, the request | draft, validate, review, refresh, compare, encode, sign, submit, classify | prices, account and listing move between the separate requests | the exchange does what was reviewed, within its slippage |
| Account setup and lifecycle (`features/accounts`, `credential-vault.ts`) | vault, manifest, attempt rows, bindings, account document, phases | prepare, stage, approve, verify, activate, cancel, rotate, unlink, save, remove | four stores written one after the other, kills and refused writes between them, overlapping operations | no key without a record; an active binding can sign; no change lost; completed means done |
| Streams (`core/streams`, `transport/websocket.ts`) | generation, buffer, baseline, view; listeners, pending operations, wire | connect, message, baseline, gap, reconnect; subscribe, acknowledge, unsubscribe | deltas while a baseline loads, late baselines, crossing acknowledgements | nothing missed, nothing taken back; what is listened to is what is sent |
| Screens and their data (`app/(tabs)`, `features/trade`, `portfolio`, `markets`, `settings`) | drafts, editor, snapshots, pages, preferences | edit, press, refetch, page, persist, switch | a press works on what was rendered; data and account move while it waits | reviews are current; a list is of one generation; scopes stay apart |
| Mobile notification client (`features/notifications`) | identity, vault, memory copies, queued rules, history | enable, refresh, replay, revoke, open an alert | two stores and a server changed one after the other; lost answers; kills | authority is kept; queued alerts are kept; an alert is opened once |
| Notification authority (`db/notification-store.ts`, `server.ts`) | installations, credentials, challenges, links, rules, rate windows | register, rotate, link, put rule, rebind token | a proof is checked before the transaction that uses it | changes only behind a fresh proof |
| Delivery outbox, receipts, worker supervisor (`outbox`, `worker-supervisor.ts`, the store) | outbox rows, permits, tickets, egress lease | claim, mark, authorise, send, record, recover, receipts | a worker dies after the marker; recovery against a late answer | outcomes honest and final; nothing sent twice |
| Deletion and restore (the store, `tombstone-recovery.ts`, `postgres-application.ts`) | operations, external ledger, generations, gates, backup | drain, append, commit, restore, replay | permits held across a drain; append before commit; restore of an older database | nothing sent after a deletion; a reported deletion survives |
| Rules, monitors, connections (`rules`, `monitor`) | leases, entries, baselines, event queues, shards | reconcile, baseline, delta, remove; join, abort, fail | steps after awaits on entries already removed | no stray stream; connections serve streams |
| Market catalog and portfolio service (`catalog`, `cloudflare`, `portfolio`) | generations, sync lease; cache, slots | claim, page, publish, fail; load, time out, answer | lease lost during a fetch; partial failures | published generations never change; gaps are disclosed |

Onboarding, diagnostics, security presentation, performance marks and build scripts are listed in `PROJECT.json` with the
reason they are left out.

## 2. Modules

A module's header says what its steps are. Common conventions: an action is the code between two awaits (or one database
transaction), so everything else in the program may happen before the next; a method that throws rolls back and is no
step; data the guards do not look into is a model value; time is an integer or what remains of a deadline; a variable
commented *history* is not in the program and no guard reads it; a constant commented *bound* only limits TLC.
Definitions whose comment says *Faulty variant* are not used by the specifications: each is a plausible mistake in the
definition after it, kept to show that some property notices.

### Confirming an action

**ActionJournal** - the SQLite repository: `nonce-repository.ts`, `action-journal.ts`, the allocator and the transition
table. One action per repository method, which runs in one immediate transaction. `open`, `prepared` and `permits` are
process memory and vanish with `Crash`. `wall` is `Date.now()`, which `SetWallClock` sets to anything.

**ActionLife** - the abstract specification of an action, with neither rows, leases, permits and clocks nor processes and
screens: it is reserved once, under a nonce above all that its signer used and beside no equivalent open action; it is sent at
most once, and not before it counts as submitted; it is given up only while it cannot have been sent, and settled once.
ActionJournal and ActionFlow implement it (`Contract`, an INSTANCE of it under the mapping `LifeOf`, `RequestOf` and
`sent <- writes`; `ImplementsActionLife` is the claim). Reconciliation starts when the requests have gone out, so of it the
claim is about its steps only (`PortsKeepActionLife`). ActionLife stands for no code of its own: it is what
`action-lifecycle.md` promises, stated in the terms of the transition table.

**ContextSupervisor** - `core/context/supervisor.ts` and its provider. A switch advances the epoch, waits for the private
queries to be cancelled, then commits unless overtaken; `rendered` is what React has seen. Extended by the next and by
ActionFlow.

**SignerSession** - `core/session/manager.ts` with `core/lifecycle`. An unlock is a frame whose program counter names the
await it is at (authentication, focus, vault read, focus, signer factory); a signature likewise. A commit of the supervisor
locks the session in the same step, as `switchContext` does.

**ReconciliationPolicy**, **Reconciliation** - the pure decision from action type and evidence to outcome, and the port of
`reconciler.ts` that works under a lease: attempts, the evidence queries of each action type in the order the code makes
them, the shared server-time sample, renewals, rescheduling, and the startup that runs a port per unresolved row. Rows are
rewritten by the operators of ActionJournal (`J == INSTANCE ActionJournal WITH ...`). The exchange is external: it executes
a request at most once, before its expiry, and answers from its state at one moment; the answer is read later.

**ActionFlow** - `orchestrator.ts`, `state-machine.ts`, `runtime-provider.tsx`, `development-trading-runtime.tsx`, over
INSTANCE ActionJournal and ContextSupervisor. A confirmation's steps are the code between two awaits of `confirm`:
`Refreshed`, `Unlocked` (reserves), `Signed` (marks and sends), `Responds`, `SubmitThrows`, `FailsWaiting`, `PortEnds`.
The session, the exchange client and the port appear by what they promise; that a session call succeeds only while the
context is current, and that a port ends with a true outcome, is what SignerSession's and Reconciliation's runs check.

**OrderConfirmation** - what travels through those phases: drafts, validation (steps, significant figures, notional,
leverage, sides), the frozen review, the refresh in separate requests, the comparison with the review, the recomputed limit
of market and close orders, the wire action, the codec's refusals, the classified answer. Decimal strings are integers in
units of `10^-Decimals`, because the code normalises each before it compares, multiplies or writes it.

### Accounts, screens, streams

**AccountSetup** (screen, runtime, coordinator, rows, checkpoint, vault, manifest), **AccountDirectory** (the write queue
of the saved accounts), **AccountLifecycle** (the reducer of rotation, repair and unlinking).

**StreamManager** (`core/streams`: generations, baselines, buffers, gaps, reconnects) and **WebSocketSession**
(`transport/websocket.ts`, also under the service's monitors: shared subscriptions, acknowledgements, budget).

**TradeScreen** (ticket, account query, draft registry, the review of an order or a leverage change), **PortfolioScreen**
(live query, rows, editor, the three reviewing handlers), **MarketLists** (pages, cursors, the copy on the device, the
tagged catalog), **Preferences** (favourites, recents, trading defaults, appearance). A handler works on what was rendered
when it was pressed; React renders and runs its effects in one step some time after what it renders.

**NotificationClient** (enable, refresh, replay, revoke), **NotificationEntry** (claim, fetch, switch, commit of an alert).

### The service

**NotificationAuthority** - registration, rotation, challenges, links, rules and token changes. Operations that are one
transaction are one action; the three that need an account proof run over several steps in a request slot.

**DeliveryStore** ⊂ **DeliveryWorkers** ⊂ **Revocation** (each EXTENDS the one before): the tables and their transactions;
the processes that run the supervisor, the delivery worker and the receipt worker over them, the provider and crashes; the
API handlers that drain, append to the ledger and commit a deletion, with backups and `replayRestore`. A scope is an
installation or one of its links; an outbox row is named by its event key; deadlines are kept as the time that remains.

**RuleMonitors** - the registry's entry of a target with its listeners, lease, baseline and stream, and the rules' bounded
chains. A reconciliation is a frame at one of its awaits (egress check with the lease's acquisition or renewal, snapshot,
stream); it goes on after its entry was removed or replaced, as the code's does, and several may be under way. **StreamPool** - the
shards and account connections below it. **MarketCatalog** - leased building of generations; the variable `store` says
which of the two implementations a behaviour runs. **PortfolioSnapshots** - staged reads with cache, slots and deadline.

### Composition

ActionFlow and Reconciliation compose with ActionJournal by INSTANCE, all three with ActionLife likewise, SignerSession and ActionFlow with ContextSupervisor
by EXTENDS, the three delivery modules by EXTENDS. **MCServices** and **MCMobile** put parts that share no state into one
run: an initial state chooses the part, the others stand still. **MCDelivery** chooses between two scenarios of Revocation
(two processes deliver; deletions beside backup and restore), RuleMonitors and PortfolioSnapshots. The other MC modules declare model values and symmetry sets.
A configuration assigns constants and replaces no definition.

## 3. Runs

Times are abstract: only their order matters to the guards.

| run | checks | bounds and why they are enough |
|---|---|---|
| JournalRows | `StoredRowsValid`, `TombstonesCoverNonces`, `OrdinaryRetirementQuiescent`, `WriteOnce`, `NoncesIncrease`, `ImplementsActionLife` | two repository instances, two rows, two lease owners, clock 0..2 in both directions with rollback tolerance 1: recovery in one instance while the other holds a marker, a lease taken over, a retirement between two reservations |
| Session | `SignerHeldOnlyUnlocked`, `SignaturesUninterrupted`, `SessionsEnd` | two unlock calls, one signature, two contexts, one switch, three session epochs: an unlock is epoch 1, and a lock, a second unlock or a loss of the foreground (before, during or after the prompt, or during a signature) takes the others |
| ReconcileSafety | `VerdictIsTrue` | an action of any of four types, two ports of one or two runtimes, one failing query, one crash or remount, time past expiry and lease |
| ReconcileEnds | `EventuallySettled` | one port, four attempts, time 10; more failures than the attempts can use, of which the property tolerates one |
| ReconcileExpired | `ExpiredNeverExecuted` is violated | one order, one port; see Findings |
| FlowSafety | `InFlightIsShown`, `OutcomeIsDurable`, `ImplementsActionLife` | two confirmations, three orchestrators, two runtimes, two contexts, one refused transition, expiry 1: a remount recovers a row under a running confirmation |
| FlowProgress | `LatestSelectionWins`, `SheetCanBeLeft` | two confirmations, two orchestrators, two switches (which overlap, or lead away and back), one of the two contexts view-only. That context has no orchestrator, and a sheet left in a critical phase there does stick (section 6): the property says that it does so only if the app stays there |
| Delivery | `OutcomeHonest`, `OutcomeFinal`, `DeletedStaysDeleted`, `NoStrayStream`, `AnswersHonest` | two processes, one row claimed twice, two receipts, one crash; or one installation with two links, two generations, one backup, one fault: take-over after the marker, late answers, a deletion on either side of a backup. One rule with two edits, two entries or controllers referred to at a time: an entry is removed or replaced, and its lease ends, while its reconciliation waits for the egress check, the lease, the snapshot or the stream. Two portfolio readers with one slot and one cache entry, time to 4: an entry lives for a deadline and the life of a cached value (2 live, 3 history), so at time 4 nothing read at 0 may be served any more |
| Deletion | `NoSendAfterRevoke`, `InFlightSettles` | one installation with a link, one row, one process, one fault: a deletion of either scope at every point of a delivery, a crash at every point of both |
| Services | `ProofBeforeChange`, `SessionsServeStreams`, `SubscriptionsSettle`, `CatalogOnlyAdvances`, `ActionAsReviewed` | five parts. One installation, two challenges and two requests at a time from one address, whose limit of failed proofs is two: a link and then an account rule or a rebind of the token by proof, or two verified requests at once; three market callers and an account over two connections; two listeners of three subscriptions, two users of the exclusive channel among them; two processes, two DEXes of one page, two generations, five claims, both stores; ten drafts, five listings, two changes of the world during a confirmation |
| Mobile | `NothingMissed`, `ViewOnlyGrows`, `KeysAccountedFor`, `NoLostChange`, `CompletedMeansDone`, `AuthorityKept`, `QueuedAlertKept`, `AlertOpenedOnce`, `ReviewIsCurrent`, `TradeReviewIsCurrent`, `ListIsOneGeneration`, `PreferencesStayApart` | thirteen parts, each with the two of everything that can be confused (tasks, screens, accounts, generations, scopes) and one fault or kill (two in the client). In the client, rules are put in the shape the provider hands over, which is never sent (section 5), and also in the one the parser takes (`AlsoUnwrapped`): with the first alone nothing is ever removed from the queue, and `QueuedAlertKept` would hold for that reason. Two entries at most are queued: one replayed while another is added |
| AlertsUnsent | `AlertsReachService` is violated | two rules, one fault; see Findings |

What lies beyond these bounds is the theorems' business for 36 of the 40 properties (section 4); for the rest, the bounds
are chosen so that every pair of actors that share a piece of state is present and each can overtake the other.

`CHECK_DEADLOCK FALSE` is set where the models really stop: rows, attempts and time are bounded, and an app with nothing
pending does nothing. Symmetry is used only in runs without liveness.

**Fairness.** SignerSession: a native call returns or fails (WF of `UnlockStep`), the session's time passes and an armed timer
fires; locks, user calls and app-state events are not fair. Reconciliation (`TimelySpec`): timers fire when due and
requests end within a time unit, as they do while the app is in the foreground, where the port runs; mounted runtimes
start their ports; the exchange is not fair. ActionFlow (`FairSpec`): a running confirmation goes on, because requests
have a ten-second timeout, native prompts end and ports end; React renders a committed context and mounts its
orchestrator; the user is never fair. Revocation (`WorkerFairness`): the clock runs, each process's supervisor, delivery and
receipt loops go on (`tickOnce` is called for ever), a held lease is renewed now and then within its 30 s (SF, because
each tick disables and enables the renewal), due receipts are asked for. `UnrestoredSpec`, which Deletion runs, has no
restore and no fairness of API requests: a client need not come back.

## 4. Proofs

Eight modules, each EXTENDS the modules it is about. Every theorem holds for any sets, any number of calls, processes or
steps, and any values of the durations that satisfy the named assumptions of the modules: durations are naturals (positive
where the code divides or counts by them), null values are not members of the sets they mark, decimals and bounds are
numbers. `OrderAssumption` also says that powers of ten are naturals, a fact of arithmetic the provers lack.

Each proof has the same shape. The invariant is a conjunction of named parts; a lemma per action shows what it preserves, a
lemma per kind of data what its rewriting returns; the theorem combines them with `PTL`. An action property follows from
the invariant and one step. Where a definition could only be computed by a fold or a recursive operator, the modules say the
same with a rank, a set of places or a recursive function; what such a function does for each of its arguments is proved
from `LeastNumber` (the first argument at which it would fail does not exist), which needs no induction theorem with an
operator parameter.

| module | theorems | inductive invariant, and why the property alone is not inductive |
|---|---|---|
| ActionJournalProofs | `TypeCorrect`, `RowsStayValid`, `TerminalFrozen`, `NoncesNeverReused`, `NoncesGrow`, `TombstonesFinal`, `EquivalentBlocked`, `RetirementQuiescent`, `WrittenOnce`, `JournalKeepsPromises` | `RowsInv`: an absent row carries no lease, else it could be rescheduled into an unresolved one. `NonceInv`: a row's nonce is at most its scope's last, a tombstone repeats the last nonce of a retired scope. `WriteInv`: while a row is absent, prepared or abandoned nothing was written and no permit exists. `StepOfRow` reduces any step to what it can do to one row; a pending row was pending before or was just reserved (`PendingBefore`) |
| SessionProofs, the signer | `TypeCorrect`, `SignerHeld`, `SignaturesWhole`, `LatestSelection` | `SessionInv`: whoever holds a signer (`HeldInv`) and which of the overlapping unlocks may still publish one (`CallInv`: only the one whose epoch and operation are the manager's). `SignInv`: a signature's session is the present one or its token is stale. `SelectionInv`: the last switch started has the epoch of the supervisor |
| SessionProofs, the streams | `StreamsMissNothing`, `StreamViewsGrow` | `StreamInv`, see below |
| SessionProofs, the market lists | `ListsAreOneGeneration` | `ListInv`: the pages shown, those fetched so far and the one on the device are each the page that was due in its place (`PagesFit`), and a fetch goes on where what it has ends (`FetchFits`). `OrderedSorts` says that the service's order is a sort: every market, each once, by descending volume |
| ReconciliationProofs | `TypeCorrect`, `VerdictsAreTrue`, `PortsSettleOnce` | `ActionsInv` and `PortInv`: what of a port's evidence stays true while it waits. An executed order stays executed, a refused one refused, a cancel's target that was not open never is again; a settled row has no lease, and a port writes under its lease only |
| ActionFlowProofs | `TypeCorrect`, `InFlightShown`, `OutcomesDurable`, `FlowKeepsPromises` | `FlowInv`: each confirmation's frame, its row and what its orchestrator displays agree at every await (`AllFit`), and no two confirmations are the same generation of one orchestrator (`FramesApart`): a remount that recovers a row must find its frame past the point where it could still write |
| OrderProofs | `TypeCorrect`, `ActsOnlyAsReviewed` | `OrderInv`: the review was valid when frozen (`ReviewInv`), the refreshed intent agrees with it up to the recomputed limit, which lies within its slippage (`RequestInv`), a resting order's effect is what was reviewed (`RestingInv`), and effects are finite sets of addresses (`FiniteInv`) |
| DeliveryProofs | `TypeCorrect`, `HonestOutcomes`, `FinalOutcomes`, `NothingSentAfterRevoke`, `DeletionsStay` | see below |
| ServiceProofs, rules and connections | `StreamsAreHeld`, `SessionsAreServed`, `SubscriptionsAreSettled` | `RegistryInv`: an entry has one reconciliation at a time; while its snapshot or stream is on the way no stream is open; a reconciliation that was not aborted loads for the controller the registered entry holds, and opens under that entry's lease (`RunInv`). `PoolInv`: which shard a caller in a microtask expects, and that a count equals the openings, open sessions and abandoned attempts together. `SessionInv`: what is pending is exactly what is on one of the two wires (`Waited`), and what the server will have subscribed once it has read its wire is what is listened to (`WillServe`) |
| ServiceProofs, authority | `ChangesAreProved` | rows are typed, rules with a link are backed by a link of their installation (`RulesBacked`) |
| ServiceProofs, portfolio and catalogue | `AnswersAreHonest`, `CatalogAdvances` | `SnapshotInv`: every gap of a staged read is in its list or the list says there are more, and every cached or waited-for load discloses its own (`CacheHonest`, `ReadsFit`). `CatalogInv`: the generation being built follows the published one (`BuildingFollows`) and has, for every source settled so far, what was fetched for it or what the one before had with an error (`BuildingFits`), and what a process holds across its fetch fits the lease or is stale (`ProcessFits`) |
| MobileProofs, accounts | `DirectoryKeepsChanges`, `CompletionIsEarned`, `KeysAreAccountedFor` | `DirectoryInv`: what the queue will make of the snapshot. `LifecycleInv`: the phase orders retirement, deletion and clean-up. `SetupInv`: bindings fit the secure store and the manifest (`BindingsFit`), a generated key is new everywhere (`KeysNew`), and as long as set-ups did not overlap at most one is between its steps (`OneAtATime`) |
| MobileProofs, alerts | `QueueIsKept` (for either shape of request), `AuthorityIsKept`, `OpenedOnce` | `ClientInv`: where each operation's copy of the identity stands against the vault, the state and the service at every await, for a user who waits (`AuthorityFits`). `EntryInv`: a claim is held by one screen at work on it (`ClaimsHeld`, `ClaimsServed`), and a screen past its claim works on an alert the history lacks (`PastClaimUnhandled`) |
| MobileProofs, screens and preferences | `ReviewsAreCurrent`, `TradeReviewsAreCurrent`, `PreferencesAreApart` | `ScreenInv`: what the editor and a press under way captured is what was rendered then (`EditorFits`, `PressesFit`). `TradeInv`: the cached and the shown snapshots are their market's and account's, and a call's fences are no later than the present (`CacheFits`, `CallsFit`, `ScopeFits`). `PreferenceInv`: what is stored, shown, loading or queued belongs to its scope |

**The refinement of ActionLife.** Each action of the detailed module maps to one step of ActionLife or to a stutter, action by
action. `JournalKeepsPromises` needs of the invariants that a reserved row's nonce is above those of its scope (`NonceInv`),
that a permit is only held for a submitted row not yet written (`WriteInv`), and that the equivalence check sees every open
row. A crash or a recovery maps to `GiveUp` of all the rows that were prepared. `FlowKeepsPromises` needs `NoncesCovered` beside
`FlowInv`: every row's nonce is at most the last of its signer, above which a reservation takes the next. `PortsSettleOnce`
follows from `ActionsInv`: a port settles a row under its lease, and only an unresolved row has one. `EquivalentBlocked` and `TerminalFrozen` state two
parts of the same promise as properties of the rows themselves (`OnePendingEquivalent`, `TerminalRowsFrozen`); they are
theorems only, since JournalRows checks the refinement, and so is `PortsKeepActionLife`.

**SessionProofs, the streams.** Only the run of the current generation matters: older ones may finish what they had under
way, but a state of theirs is never the one that is shown from (`OlderRun`). For each stream `StateFits` relates its buffer,
its wire and the baseline it waits for to what is shown. A numbered stream that is live shows everything up to its count; one
that waits shows no more than the number its baseline was asked for, so a baseline never takes anything back. Each message sent
of a log is shown, on the wire, in the buffer, or older than the baseline to come, or the buffer knows that it
overflowed. Of a stream of whole states the last one sent is the last on the wire, in the buffer or on the screen, in this
order. `Replayed` says what the replay of a whole buffer does, by `LeastNumber`.

**DeliveryProofs.** `Sound` types the store and says which records can be seen (`RowsShaped`), and that what a process holds fits
the row (`HoldersFit`) and no two hold the same claim (`HoldersApart`). `TruthInv` relates each row to the provider's history
(`Truth`) and each process's local variables to both (`Knows`): a row that can still be submitted was never sent, a
process that is about to record an answer holds the provider's, a row recovered to *unknown* is left alone by the late
answer because the permit it compares is gone. `DeletionInv`: a committed operation's scope is gone, quiet and in the
ledger; what a backup calls committed was committed before; the watermark is one up to which every deletion has been
applied. A send needs a permit in flight and an authorisation, and a drain commits only when its scope is quiet, so
nothing is sent afterwards. While a restored database is replayed the processes are stopped and nothing flies
(`Suspended`). `OutcomeHonest` and `OutcomeFinal` are theorems of `UnrestoredSpec`: after an older backup is put back, a message
sent since it was taken can be sent again, and its recorded outcome is the old one; the documentation accepts that. The
two deletion theorems hold for `Spec`, with restores.

**What the proofs found.** `ReviewIsCurrent` once said that a review's size is that of the position shown. That is false of
a draft of protective orders, which has no size; the run had hidden it, because with a `MaxSize` of 1 there was nothing to tell
apart. The property now says what holds, and the bound is 2.

**Only model-checked.** Liveness (`SessionsEnd`, `EventuallySettled`, `SheetCanBeLeft`, `InFlightSettles`), which is out of the
provers' reach, as is ENABLED. Every other property of the passing runs is a theorem. The two runs that expect a violation
are counterexamples.

## 5. Findings

* **ReconcileExpired.** The server clock is read after the status answer arrived. An `unknownOid` given before the expiry and
  judged after it records `expired` for an order executed in between, although the documentation says the answer proves
  the expiry. What does hold (`VerdictIsTrue`) is that nothing is recorded expired before its expiry.
* **AlertsUnsent.** The provider wraps a rule in an object the client's own parser refuses, so a price alert is queued and
  never sent, with the service up; queued rules are never removed either, since each replay fails. (The settings that would reach it are switched off in this version.)

## 6. Observations

What follows was met while modelling. A definition named here is kept in its module with a comment that says that it does
not hold; no run states it.

*Confirmation.* The rollback gate of nonces is kept per signer scope, while `action-lifecycle.md:88` speaks of the
installation (`RollbackBlocksPreparation`). A lease left by a crash outlives the attempts of the restarted process, so the
row waits for the next start (`StartupResumes`). When a context without a signer is rendered during a critical phase, the
provider stops listening and the sheet consumes Back with nothing to change its phase, until a context with a signer is
rendered again (`SheetCanBeLeft` excepts an app that stays there, and holds of every other behaviour). `expired` cannot be told from a
request still travelling before its expiry, which is why the policy waits. An emergency retirement does not stop a reserved
row from being sent once. Leverage changes pass review but the refresh refuses every one of them
(`authoritative-order-refresh.ts:341`), though three documents say they are supported. The limit of a market or close order
is recomputed from the refreshed reference, so the comparison of prices with the review is trivial and the signed limit may
differ from the shown one without bound; a bound that crosses a power of ten has one significant figure too many and is
refused. Orders on builder DEXes can be reviewed but not refreshed; only cancels ask for the complete catalogue. The
portfolio's review carries no minimum notional; the refresh does. No code outside the tests calls
`compareRetirementManifest` (`nonce-repository.ts:386`).

*Accounts and screens.* A kill between staging a secret and writing its attempt leaves a key the manifest lists and no row
(`setup-coordinator.ts:385`); overlapping prepares lose a manifest record; a failed attempt may not be resumable
(`AttemptResumable`). After a commit A→B→A between two renders the registry drops the draft and the screen's key is unchanged,
so no new one is made (`trade.tsx:424`). Two reviews can be prepared at once (`OneReviewAtATime`): `reviewCancel` clears its
flag even when it was refused. A failed refetch drops the persisted first page (`DevicePageKept`). After a failed load of
preferences, an automatic selection writes defaults over the favourites (`FavoritesKept`).

*Streams.* Contexts are deduplicated by value, so a value that returns is dropped (`ContextIsCurrent`); no production wire sets
a sequence; reconnects stop after eight failures and a change of environment does not reset the count
(`manager.ts:319`). A message that arrives after its unsubscription fails the whole shared session.

*Notification client.* A refresh's load of the authority between the write of the installation's state and that of the vault
discards a new identity; a slow vault read can overwrite a pending revocation; a delete leaves the queued edit.

*Service.* A drain whose client never returns leaves its link draining for ever (`DrainEnds`), and while an account link with
rules drains, the installation's snapshot names a rule without its link, which the app refuses
(`notification-store.ts:499`). A late `device_not_registered` receipt invalidates a token rebound since. The ledger's
watermark can skip a deletion appended earlier and committed later; the gates then stay shut until the replay. A rule's
baseline may be older than its first delta (`AlertIsCrossing`, `registry.ts:143`). `server.ts:172` and `303` return promises
they do not await, so busy, not-ready and malformed-body errors become a bare 500. The first catalog generation with an
error on a later page is published with total 0 by one store and without its builder markets by the other. A portfolio
load that was aborted is cached with its gaps; a slower, older load overwrites a newer entry. The lease generation of the
egress restarts at 1 after a release. `acquireDispatchPermit`, `rotatePushTokenKeys`, `cleanupRetention`, `prepareRestore` and
`replayRestore` have no production callers; the last two are modelled because the operating documents describe them.

## 7. Not modelled

Cryptography, msgpack bytes, parsing of exchange answers, layout and text: no protocol in them, or state spaces TLC cannot
enumerate. Charts, candles and order-book presentation. Migrations, `cleanupRetention` and key rotation. The wallet-connect
adapter, which no production code calls. Process signals, health answers, configuration and counters. Device, SQLite and
Postgres failures other than refused writes and crashes. The platform's keychain, React, React Query, the push provider and
the exchange are external: modelled from how the code uses them.

## 8. Plan

1. That the journal steps of ActionFlow and of Reconciliation are steps of ActionJournal itself, with its leases and clocks:
   today all three are tied to the same contract (ActionLife), not to each other.
2. A run and a proof of what the streams' views and the query caches that hold them come to together; candle history and
   order-book presentation are not modelled.
3. Key rotation and the retention clean-up of the notification store, once something calls them.
