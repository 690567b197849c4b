--------------------------- MODULE DeliveryStore ---------------------------
(***************************************************************************)
(* The PostgreSQL tables behind push delivery and the transactions of      *)
(* notification-store.ts that work on them: alerts and outbox rows,        *)
(* dispatch permits, provider tickets, the service gates and the egress    *)
(* lease.  A store method is one transaction and one action; a method that *)
(* throws rolls back and is no step here (DeliveryWorkers says what its    *)
(* caller does).  All deadlines are compared with the database clock: they *)
(* are kept as the time that remains, and Tick lets it run out.            *)
(*                                                                         *)
(* A scope is an installation or one of its account links.  A rule is      *)
(* named by its scope: a price rule belongs to the installation, an        *)
(* account rule to the link.  An outbox row is named by the event key that *)
(* created it and belongs to the scope of its rule.  A link's generation   *)
(* never changes and is left out; an installation's only changes when it   *)
(* is revoked.                                                             *)
(*                                                                         *)
(* Only the latest permit of a row is kept: the row leaves `leased' for    *)
(* `pending' only when its permit is expired, so earlier ones stay so.     *)
(***************************************************************************)
EXTENDS Integers, FiniteSets

CONSTANTS
    Installations,
    Links,
    HomeOf,            \* the installation of each link
    Rows,              \* event keys, and the outbox rows they create
    Workers,           \* owner identities of service processes
    NoWorker,
    MaxClaims,         \* claim_attempts at which a row is given up (8)
    MaxReceipts,       \* receipt attempts at which a ticket is given up (5)
    ProviderDeadline,  \* 10 s: provider deadline and recovery interval
    LeaseTime,         \* 30 s: permits, row, receipt and egress leases
    ReceiptDelay,      \* 15 min until a receipt is asked for
    MaxVersions,       \* bound: push tokens bound to an installation
    MaxGenerations     \* bound: lease generations told apart

ASSUME DeliveryAssumption ==
    /\ Installations # {}
    /\ HomeOf \in [Links -> Installations]
    /\ Installations \cap Links = {}
    /\ NoWorker \notin Workers
    /\ {MaxClaims, MaxReceipts, ProviderDeadline, LeaseTime, ReceiptDelay, MaxVersions,
        MaxGenerations} \subseteq Nat \ {0}
    /\ \A n \in 1..MaxReceipts : 2 ^ n \in Nat     \* a fact of arithmetic

VARIABLES
    inst,       \* notification_installations with its push token
    link,       \* notification_account_links
    rules,      \* scopes with an active rule
    outbox,     \* notification_outbox
    permit,     \* notification_dispatch_permits: the latest of each row
    ticket,     \* notification_provider_tickets and their receipts
    lease,      \* the runtime:egress row of notification_monitor_leases
    gates       \* notification_service_state

storeVars == <<inst, link, rules, outbox, permit, ticket, lease, gates>>

Scopes == Installations \cup Links

InstOf(s) == IF s \in Links THEN HomeOf[s] ELSE s

\* A deletion of scope s covers what belongs to scope t.
Covers(s, t) == s = t \/ s = InstOf(t)

InstRow == [state: {"active", "draining", "inactive"}, gen: Nat,
            token: {"active", "invalid", "none"}, version: 1..MaxVersions]
Started == "provider_submission_started"
RowStates == {"absent", "pending", "leased", Started, "provider_accepted",
              "provider_rejected", "provider_outcome_unknown", "cancelled"}
OutboxRow == [state: RowStates, scope: Scopes, gen: Nat, attempts: 0..MaxClaims,
              until: Nat, code: {"none", "unsent", "refused"}]
PermitRow == [n: 0..MaxClaims, state: {"none", "active", "submission_started", "finished", "expired"},
              deadline: Nat, expires: Nat]
TicketRow == [state: {"none", "pending", "delivered", "failed", "unknown"},
              attempts: 0..MaxReceipts, next: Nat, owner: Workers \cup {NoWorker}, until: Nat]
LeaseRow == [owner: Workers \cup {NoWorker}, gen: Nat, until: Nat]
GateRow == [restore: {"ready", "replaying"}, mutations: BOOLEAN,
            monitors: BOOLEAN, delivery: BOOLEAN, watermark: Nat]

NoLease == [owner |-> NoWorker, gen |-> 0, until |-> 0]
NoTicket == [state |-> "none", attempts |-> 0, next |-> 0, owner |-> NoWorker, until |-> 0]

StoreInit ==
    /\ inst = [i \in Installations |->
                  [state |-> "active", gen |-> 0, token |-> "active", version |-> 1]]
    /\ link = [l \in Links |-> "active"]
    /\ rules = Scopes
    /\ outbox = [r \in Rows |-> [state |-> "absent", scope |-> CHOOSE s \in Scopes : TRUE,
                                 gen |-> 0, attempts |-> 0, until |-> 0, code |-> "none"]]
    /\ permit = [r \in Rows |-> [n |-> 0, state |-> "none", deadline |-> 0, expires |-> 0]]
    /\ ticket = [r \in Rows |-> NoTicket]
    /\ lease = NoLease
    /\ gates = [restore |-> "ready", mutations |-> TRUE, monitors |-> FALSE,
                delivery |-> FALSE, watermark |-> 0]

---------------------------------------------------------------------------
(* Gates and leases *)

Mutable == gates.restore = "ready" /\ gates.mutations
MonitorsEnabled == gates.restore = "ready" /\ gates.monitors
DeliveryEnabled == gates.restore = "ready" /\ gates.delivery

\* The join by which a rule or row is still authorized.
ScopeActive(s) ==
    /\ inst[InstOf(s)].state = "active"
    /\ inst[InstOf(s)].token = "active"
    /\ s \in Links => link[s] = "active"

DeactivateWorkerGates ==
    gates' = [gates EXCEPT !.monitors = FALSE, !.delivery = FALSE]

LeaseFree == lease.owner = NoWorker \/ lease.until = 0

\* A new row starts at generation 1, an expired one goes to the next (here they wrap).
AcquiredLease(w) ==
    [owner |-> w, gen |-> (lease.gen % MaxGenerations) + 1, until |-> LeaseTime]

HoldsLease(w, gen) == lease.owner = w /\ lease.gen = gen /\ lease.until > 0

RenewedLease == [lease EXCEPT !.until = LeaseTime]

\* releaseMonitorLease deletes the row, expired or not.
ReleasedLease(w, gen) == IF lease.owner = w /\ lease.gen = gen THEN NoLease ELSE lease

---------------------------------------------------------------------------
(* Alerts *)

\* createAlertForRuleMatch: one alert and one outbox row for a new event key.
CreateAlert(r, s) ==
    /\ MonitorsEnabled
    /\ s \in rules
    /\ ScopeActive(s)
    /\ outbox[r].state = "absent"
    /\ outbox' = [outbox EXCEPT ![r].state = "pending", ![r].scope = s,
                                ![r].gen = inst[InstOf(s)].gen]
    /\ UNCHANGED <<inst, link, rules, permit, ticket, lease, gates>>

---------------------------------------------------------------------------
(* Dispatch *)

Claimable(r) ==
    /\ outbox[r].state = "pending"
    /\ outbox[r].attempts < MaxClaims
    /\ inst[InstOf(outbox[r].scope)].gen = outbox[r].gen
    /\ ScopeActive(outbox[r].scope)

\* The writes of claimNextDispatch.
ClaimRow(r) ==
    LET n == outbox[r].attempts + 1 IN
    /\ outbox' = [outbox EXCEPT ![r].state = "leased", ![r].attempts = n,
                                ![r].until = LeaseTime]
    /\ permit' = [permit EXCEPT ![r] = [n |-> n, state |-> "active",
                      deadline |-> ProviderDeadline, expires |-> LeaseTime]]

PermitState(r, n) == IF permit[r].n = n THEN permit[r].state ELSE "expired"

\* markProviderSubmissionStarted: its checks, then its writes.
Markable(r, n) ==
    /\ PermitState(r, n) = "active"
    /\ inst[InstOf(outbox[r].scope)].gen = outbox[r].gen
    /\ ScopeActive(outbox[r].scope)
    /\ outbox[r].state = "leased"
    /\ permit[r].expires > 0 /\ permit[r].deadline > 0

MarkRow(r) ==
    /\ permit' = [permit EXCEPT ![r].state = "submission_started"]
    /\ outbox' = [outbox EXCEPT ![r].state = Started]

\* The row after a claim that came to nothing.
Unclaimed(row) ==
    [row EXCEPT !.state = IF row.attempts < MaxClaims THEN "pending" ELSE "cancelled", !.until = 0]

\* abandonUnstartedDispatch
AbandonRow(r, n) ==
    IF PermitState(r, n) = "active"
    THEN /\ permit' = [permit EXCEPT ![r].state = "expired"]
         /\ outbox' = IF outbox[r].state = "leased"
                      THEN [outbox EXCEPT ![r] = Unclaimed(@)] ELSE outbox
    ELSE UNCHANGED <<permit, outbox>>

\* #authorizedProviderRows, without the egress lease
Authorized(r, n) ==
    /\ PermitState(r, n) = "submission_started"
    /\ permit[r].deadline > 0
    /\ outbox[r].state = Started
    /\ inst[InstOf(outbox[r].scope)].gen = outbox[r].gen
    /\ ScopeActive(outbox[r].scope)
    /\ gates.delivery

InFlight(r, n) == PermitState(r, n) = "submission_started" /\ outbox[r].state = Started

\* finishDispatchInTransaction and finishDispatchPermit
FinishRow(r, outcome, code) ==
    /\ permit' = [permit EXCEPT ![r].state = "finished"]
    /\ outbox' = [outbox EXCEPT ![r].state = outcome, ![r].until = 0, ![r].code = code]

\* Faulty variant: a marked row whose worker vanished is tried again.
RecoveredRetry(r) ==
    LET late == permit[r].state = "submission_started" /\ permit[r].deadline = 0 IN
    [permit |-> IF late THEN [permit[r] EXCEPT !.state = "expired"] ELSE permit[r],
     row |-> IF late THEN Unclaimed(outbox[r]) ELSE outbox[r]]

\* Faulty variant: only unused permits are recovered.
RecoveredUnused(r) ==
    LET unused == permit[r].state = "active" /\ permit[r].expires = 0
    IN [permit |-> IF unused THEN [permit[r] EXCEPT !.state = "expired"] ELSE permit[r],
        row |-> IF unused /\ outbox[r].state = "leased" THEN Unclaimed(outbox[r]) ELSE outbox[r]]

\* What recoverExpiredDispatches makes of a row and its permit: marked past the
\* deadline is unknown; an unused permit expires and its row is offered again
\* once the row's own lease has passed.
Recovered(r) ==
    LET p == permit[r]
        late == p.state = "submission_started" /\ p.deadline = 0
        unused == p.state = "active" /\ p.expires = 0
        q == IF late THEN [p EXCEPT !.state = "finished"]
             ELSE IF unused THEN [p EXCEPT !.state = "expired"] ELSE p
        row == outbox[r]
    IN [permit |-> q,
        row |-> IF row.state = Started /\ q.state = "finished" /\ q.deadline = 0
                THEN [row EXCEPT !.state = "provider_outcome_unknown", !.until = 0]
                ELSE IF row.state = "leased" /\ row.until = 0
                        /\ q.state \notin {"active", "submission_started"}
                THEN Unclaimed(row) ELSE row]

RecoverExpiredDispatches ==
    /\ permit' = [r \in Rows |-> Recovered(r).permit]
    /\ outbox' = [r \in Rows |-> Recovered(r).row]

---------------------------------------------------------------------------
(* Receipts *)

\* recordProviderAccepted inserts the ticket.
NewTicket == [state |-> "pending", attempts |-> 0, next |-> ReceiptDelay,
              owner |-> NoWorker, until |-> 0]

\* recoverExpiredReceiptLeases
ReceiptFreed(t) ==
    IF t.state = "pending" /\ t.owner # NoWorker /\ t.until = 0
    THEN [t EXCEPT !.owner = NoWorker, !.until = 0] ELSE t

ReceiptDue(t) ==
    /\ t.state = "pending"
    /\ t.attempts < MaxReceipts
    /\ t.next = 0
    /\ t.owner = NoWorker

\* Faulty variant: an answer is stored whoever holds the ticket.
ReceiptHeldByAnyone(w, r) == ticket[r].state # "none"

ReceiptHeld(w, r) ==
    ticket[r].state = "pending" /\ ticket[r].owner = w /\ ticket[r].until > 0

\* completeReceipt and deferReceipt
Settled(t, status) == [t EXCEPT !.state = status, !.owner = NoWorker, !.until = 0]

Deferred(t) ==
    IF t.attempts + 1 >= MaxReceipts
    THEN [Settled(t, "unknown") EXCEPT !.attempts = MaxReceipts]
    ELSE [t EXCEPT !.attempts = @ + 1, !.owner = NoWorker, !.until = 0,
                   !.next = ReceiptDelay * 2 ^ (t.attempts + 1)]

\* Either answer that names an unregistered device invalidates the token row.
Invalidated(i) ==
    IF inst[i].token = "active" THEN [inst EXCEPT ![i].token = "invalid"] ELSE inst

---------------------------------------------------------------------------
(* Token and key maintenance *)

\* rebindPushToken and rebindPriceOnlyPushToken rewrite the row in place.
RebindPushToken(i) ==
    /\ Mutable
    /\ inst[i].state = "active"
    /\ inst[i].version < MaxVersions
    /\ inst' = [inst EXCEPT ![i].token = "active", ![i].version = @ + 1]
    /\ UNCHANGED <<link, rules, outbox, permit, ticket, lease, gates>>

\* rotatePushTokenKeys closes the delivery gate.
RotatePushTokenKeys ==
    /\ Mutable
    /\ gates.delivery
    /\ gates' = [gates EXCEPT !.delivery = FALSE]
    /\ UNCHANGED <<inst, link, rules, outbox, permit, ticket, lease>>

\* deletePriceRule
DeletePriceRule(i) ==
    /\ Mutable
    /\ inst[i].state = "active"
    /\ i \in rules
    /\ rules' = rules \ {i}
    /\ UNCHANGED <<inst, link, outbox, permit, ticket, lease, gates>>

Down(n) == IF n > 0 THEN n - 1 ELSE 0

\* A unit of time passes on every lease and deadline.
Tick ==
    /\ outbox' = [r \in Rows |-> [outbox[r] EXCEPT !.until = Down(@)]]
    /\ permit' = [r \in Rows |-> [permit[r] EXCEPT !.deadline = Down(@), !.expires = Down(@)]]
    /\ ticket' = [r \in Rows |-> [ticket[r] EXCEPT !.next = Down(@), !.until = Down(@)]]
    /\ lease' = [lease EXCEPT !.until = Down(@)]
    /\ UNCHANGED <<inst, link, rules, gates>>

=============================================================================
