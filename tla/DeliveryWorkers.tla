-------------------------- MODULE DeliveryWorkers --------------------------
(***************************************************************************)
(* The service processes: NotificationServiceRuntime calls tickOnce over   *)
(* and over, which activates the worker supervisor and lets it run the     *)
(* delivery worker for one outbox row and the receipt worker for the due   *)
(* tickets.  Every await of a store method or of the push provider is a    *)
(* step, so two processes, the clock, the provider and the API interleave  *)
(* between them.                                                           *)
(*                                                                         *)
(* The two ownership renewals of a tick, with the rule reconciliation of   *)
(* another module between them, are one step.  The process clock is the    *)
(* database clock.  A process may end at any step and is started again     *)
(* with the same owner id (Crash).                                         *)
(***************************************************************************)
EXTENDS DeliveryStore

CONSTANTS NoRow,
          MaxFaults    \* bound: crashes, shutdowns and key rotations

VARIABLES worker,      \* supervisor, delivery worker and receipt worker
          op,          \* notification_revocation_operations, one per scope
          wire,        \* the provider's last request of each row
          sent,        \* history: provider requests made for each row
          faults

workerVars == <<worker, op, wire, sent, faults>>

PCs == {"stopped", "gated", "idle", "ready", "claiming", "claimed", "abandoning", "marked", "token",
        "authorized", "waiting", "answered", "receipts", "asked",
        "failing", "closing", "releasing"}
Answers == {"accepted", "refused", "unregistered"}
Results == Answers \cup {"none", "unsent", "lost"}
Stopped == [pc |-> "stopped", gen |-> 0, row |-> NoRow, n |-> 0, result |-> "none",
            recoverIn |-> 0, batch |-> {}]

WorkersInit ==
    /\ worker = [w \in Workers |-> Stopped]
    /\ op = [s \in Scopes |-> "none"]
    /\ wire = [r \in Rows |-> "none"]
    /\ sent = [r \in Rows |-> 0]
    /\ faults = 0

At(w, pc) == worker[w].pc = pc
Row(w) == worker[w].row
Attempt(w) == worker[w].n
Go(w, pc) == worker' = [worker EXCEPT ![w].pc = pc]

---------------------------------------------------------------------------
(* Supervisor *)

\* The checks of activateWorkerGates: a draining operation, or an active rule
\* without an active installation, link and token, keeps the gates closed.
Activatable ==
    /\ gates.restore = "ready"
    /\ gates.mutations
    /\ \A s \in rules : ScopeActive(s)
    /\ \A s \in Scopes : op[s] # "draining"

ActivateGates(w) ==
    /\ At(w, "stopped")
    /\ Activatable
    /\ gates' = [gates EXCEPT !.monitors = TRUE, !.delivery = TRUE]
    /\ Go(w, "gated")
    /\ UNCHANGED <<inst, link, rules, outbox, permit, ticket, lease, op, wire, sent, faults>>

AcquireEgress(w) ==
    /\ At(w, "gated")
    /\ IF MonitorsEnabled /\ LeaseFree
       THEN /\ lease' = AcquiredLease(w)
            /\ worker' = [worker EXCEPT ![w].pc = "idle", ![w].gen = lease'.gen, ![w].recoverIn = 0]
       ELSE Go(w, "stopped") /\ UNCHANGED lease
    /\ UNCHANGED <<inst, link, rules, outbox, permit, ticket, gates, op, wire, sent, faults>>

\* renewMonitorLease throws when monitors are disabled; so does the renewal of
\* the deactivation that follows, and the process ends.
RenewOwnership(w) ==
    /\ At(w, "idle")
    /\ IF HoldsLease(w, worker[w].gen) /\ MonitorsEnabled
       THEN lease' = RenewedLease /\ Go(w, "ready")
       ELSE /\ worker' = [worker EXCEPT ![w] =
                              IF MonitorsEnabled THEN [@ EXCEPT !.pc = "failing"] ELSE Stopped]
            /\ UNCHANGED lease
    /\ UNCHANGED <<inst, link, rules, outbox, permit, ticket, gates, op, wire, sent, faults>>

\* Dependencies are not ready, or the process is asked to stop.
Blocked(w) ==
    /\ At(w, "idle")
    /\ faults < MaxFaults
    /\ faults' = faults + 1
    /\ Go(w, "failing")
    /\ UNCHANGED <<storeVars, op, wire, sent>>

\* deactivate: the gates are closed only by a process that still owns egress.
DeactivateRenew(w) ==
    /\ At(w, "failing")
    /\ IF HoldsLease(w, worker[w].gen) /\ MonitorsEnabled
       THEN lease' = RenewedLease /\ Go(w, "closing")
       ELSE /\ worker' = [worker EXCEPT ![w] =
                              IF MonitorsEnabled THEN [@ EXCEPT !.pc = "releasing"] ELSE Stopped]
            /\ UNCHANGED lease
    /\ UNCHANGED <<inst, link, rules, outbox, permit, ticket, gates, op, wire, sent, faults>>

CloseGates(w) ==
    /\ At(w, "closing")
    /\ DeactivateWorkerGates
    /\ Go(w, "releasing")
    /\ UNCHANGED <<inst, link, rules, outbox, permit, ticket, lease, op, wire, sent, faults>>

ReleaseEgress(w) ==
    /\ At(w, "releasing")
    /\ lease' = ReleasedLease(w, worker[w].gen)
    /\ worker' = [worker EXCEPT ![w] = [Stopped EXCEPT !.batch = worker[w].batch]]
    /\ UNCHANGED <<inst, link, rules, outbox, permit, ticket, gates, op, wire, sent, faults>>

Crash(w) ==
    /\ worker[w] # Stopped
    /\ faults < MaxFaults
    /\ faults' = faults + 1
    /\ worker' = [worker EXCEPT ![w] = Stopped]
    /\ UNCHANGED <<storeVars, op, wire, sent>>

---------------------------------------------------------------------------
(* Delivery worker: runOnce *)

\* #recoverExpiredDispatchesIfDue
Recover(w) ==
    /\ At(w, "ready")
    /\ worker[w].recoverIn = 0
    /\ IF DeliveryEnabled
       THEN /\ RecoverExpiredDispatches
            /\ worker' = [worker EXCEPT ![w].pc = "claiming", ![w].recoverIn = ProviderDeadline]
       ELSE Go(w, "failing") /\ UNCHANGED <<permit, outbox>>
    /\ UNCHANGED <<inst, link, rules, ticket, lease, gates, op, wire, sent, faults>>

Claim(w) ==
    /\ At(w, "claiming") \/ (At(w, "ready") /\ worker[w].recoverIn > 0)
    /\ \/ /\ DeliveryEnabled /\ HoldsLease(w, worker[w].gen)
          /\ \E r \in Rows :
                /\ Claimable(r)
                /\ ClaimRow(r)
                /\ worker' = [worker EXCEPT ![w].pc = "claimed", ![w].row = r,
                                            ![w].n = outbox[r].attempts + 1]
       \/ /\ DeliveryEnabled /\ HoldsLease(w, worker[w].gen)
          /\ \A r \in Rows : ~Claimable(r)
          /\ Go(w, "receipts")
          /\ UNCHANGED <<permit, outbox>>
       \/ /\ ~(DeliveryEnabled /\ HoldsLease(w, worker[w].gen))
          /\ Go(w, "failing")
          /\ UNCHANGED <<permit, outbox>>
    /\ UNCHANGED <<inst, link, rules, ticket, lease, gates, op, wire, sent, faults>>

Mark(w) ==
    /\ At(w, "claimed")
    /\ IF Markable(Row(w), Attempt(w))
       THEN MarkRow(Row(w)) /\ Go(w, "marked")
       ELSE Go(w, "abandoning") /\ UNCHANGED <<permit, outbox>>
    /\ UNCHANGED <<inst, link, rules, ticket, lease, gates, op, wire, sent, faults>>

Abandon(w) ==
    /\ At(w, "abandoning")
    /\ AbandonRow(Row(w), Attempt(w))
    /\ Go(w, "failing")
    /\ UNCHANGED <<inst, link, rules, ticket, lease, gates, op, wire, sent, faults>>

Unsent(w) == worker' = [worker EXCEPT ![w].pc = "answered", ![w].result = "unsent"]

\* readDecryptedPushToken: the authorization is repeated; a ciphertext that does
\* not authenticate also ends the attempt unsent.
ReadToken(w) ==
    /\ At(w, "marked")
    /\ \/ Authorized(Row(w), Attempt(w)) /\ Go(w, "token")
       \/ Unsent(w)
    /\ UNCHANGED <<storeVars, op, wire, sent, faults>>

\* authorizeProviderFetch binds the egress owner as well.
AuthorizeFetch(w) ==
    /\ At(w, "token")
    /\ IF Authorized(Row(w), Attempt(w)) /\ HoldsLease(w, worker[w].gen)
       THEN Go(w, "authorized") ELSE Unsent(w)
    /\ UNCHANGED <<storeVars, op, wire, sent, faults>>

\* Faulty variant: the deadline is not looked at again before the request.
SendLate(w) ==
    /\ At(w, "authorized")
    /\ Go(w, "waiting")
    /\ wire' = [wire EXCEPT ![Row(w)] = "flying"]
    /\ sent' = [sent EXCEPT ![Row(w)] = @ + 1]
    /\ UNCHANGED <<storeVars, op, faults>>

\* The only provider request; without time left it is not made.
Send(w) ==
    /\ At(w, "authorized")
    /\ IF permit[Row(w)].deadline > 0
       THEN /\ Go(w, "waiting")
            /\ wire' = [wire EXCEPT ![Row(w)] = "flying"]
            /\ sent' = [sent EXCEPT ![Row(w)] = @ + 1]
       ELSE Unsent(w) /\ UNCHANGED <<wire, sent>>
    /\ UNCHANGED <<storeVars, op, faults>>

\* Expo takes the message or refuses it, whether or not anyone still listens.
ProviderActs(r) ==
    /\ wire[r] = "flying"
    /\ \E a \in Answers : wire' = [wire EXCEPT ![r] = a]
    /\ UNCHANGED <<storeVars, worker, op, sent, faults>>

\* The answer is read (once headers arrived nothing cuts the body off), or the
\* request fails, is aborted at its deadline, or its body cannot be parsed.
ReceiveAnswer(w) ==
    /\ At(w, "waiting")
    /\ \E a \in {wire[Row(w)], "lost"} \cap Results :
          worker' = [worker EXCEPT ![w].pc = "answered", ![w].result = a]
    /\ UNCHANGED <<storeVars, op, wire, sent, faults>>

\* Every record needs the attempt to be in flight still, else the tick fails.
Record(w, outcome, code) ==
    /\ At(w, "answered")
    /\ IF InFlight(Row(w), Attempt(w))
       THEN /\ FinishRow(Row(w), outcome, code)
            /\ worker' = [worker EXCEPT ![w].pc = "receipts", ![w].row = NoRow, ![w].n = 0,
                                        ![w].result = "none"]
       ELSE Go(w, "failing") /\ UNCHANGED <<permit, outbox>>
    /\ UNCHANGED <<link, rules, lease, gates, op, wire, sent, faults>>

RecordProviderAccepted(w) ==
    /\ worker[w].result = "accepted"
    /\ Record(w, "provider_accepted", "none")
    /\ ticket' = IF InFlight(Row(w), Attempt(w)) THEN [ticket EXCEPT ![Row(w)] = NewTicket] ELSE ticket
    /\ UNCHANGED inst

\* A refusal by the provider, or an attempt that ended before the request.
RecordProviderRejected(w) ==
    /\ worker[w].result \in {"unsent", "refused", "unregistered"}
    /\ Record(w, "provider_rejected", IF worker[w].result = "unsent" THEN "unsent" ELSE "refused")
    /\ inst' = IF worker[w].result = "unregistered" /\ InFlight(Row(w), Attempt(w))
               THEN Invalidated(InstOf(outbox[Row(w)].scope)) ELSE inst
    /\ UNCHANGED ticket

RecordProviderOutcomeUnknown(w) ==
    /\ worker[w].result = "lost"
    /\ Record(w, "provider_outcome_unknown", "none")
    /\ UNCHANGED <<ticket, inst>>

---------------------------------------------------------------------------
(* Receipt worker: runOnce *)

\* Expired receipt leases are freed, then every due ticket is claimed.
ClaimReceipts(w) ==
    LET freed == [r \in Rows |-> ReceiptFreed(ticket[r])]
        due == {r \in Rows : ReceiptDue(freed[r])}
    IN
    /\ At(w, "receipts")
    /\ IF DeliveryEnabled /\ HoldsLease(w, worker[w].gen)
       THEN /\ ticket' = [r \in Rows |-> IF r \in due
                              THEN [freed[r] EXCEPT !.owner = w, !.until = LeaseTime] ELSE freed[r]]
            /\ worker' = [worker EXCEPT ![w].batch = @ \cup due,
                                        ![w].pc = IF due = {} THEN "idle" ELSE "asked"]
       ELSE /\ ticket' = freed
            /\ Go(w, "failing")
    /\ UNCHANGED <<inst, link, rules, outbox, permit, lease, gates, op, wire, sent, faults>>

\* The answer for one ticket of the batch: completed or deferred if it is still
\* held, else the tick fails.  The others of the batch go on by themselves.
SettleReceipt(w, r) ==
    LET left == worker[w].batch \ {r} IN
    /\ r \in worker[w].batch
    /\ IF ReceiptHeld(w, r)
       THEN \E a \in {"missing", "delivered", "failed", "unregistered"} :
              /\ ticket' = [ticket EXCEPT ![r] =
                     CASE a = "missing" -> Deferred(@)
                       [] a = "delivered" -> Settled(@, "delivered")
                       [] OTHER -> Settled(@, "failed")]
              /\ inst' = IF a = "unregistered" THEN Invalidated(InstOf(outbox[r].scope)) ELSE inst
              /\ worker' = [worker EXCEPT ![w].batch = left,
                     ![w].pc = IF @ = "asked" /\ left = {} THEN "idle" ELSE @]
       ELSE /\ worker' = [worker EXCEPT ![w].batch = left,
                     ![w].pc = IF @ = "asked" THEN "failing" ELSE @]
            /\ UNCHANGED <<ticket, inst>>
    /\ UNCHANGED <<link, rules, outbox, permit, lease, gates, op, wire, sent, faults>>

---------------------------------------------------------------------------

\* Time passes for the store and for the recovery interval of each process.
Clock ==
    /\ Tick
    /\ worker' = [w \in Workers |-> [worker[w] EXCEPT !.recoverIn = Down(@)]]
    /\ UNCHANGED <<op, wire, sent, faults>>

Alert(r, s) == CreateAlert(r, s) /\ UNCHANGED workerVars
Rebind(i) == RebindPushToken(i) /\ UNCHANGED workerVars
RotateKeys ==
    /\ faults < MaxFaults
    /\ faults' = faults + 1
    /\ RotatePushTokenKeys
    /\ UNCHANGED <<worker, op, wire, sent>>
DeleteRule(i) == DeletePriceRule(i) /\ UNCHANGED workerVars

SupervisorStep(w) ==
    \/ ActivateGates(w) \/ AcquireEgress(w) \/ RenewOwnership(w)
    \/ DeactivateRenew(w) \/ CloseGates(w) \/ ReleaseEgress(w)

DeliveryStep(w) ==
    \/ Recover(w) \/ Claim(w) \/ Mark(w) \/ Abandon(w) \/ ReadToken(w)
    \/ AuthorizeFetch(w) \/ Send(w) \/ ReceiveAnswer(w)
    \/ RecordProviderAccepted(w) \/ RecordProviderRejected(w) \/ RecordProviderOutcomeUnknown(w)

ReceiptStep(w) == ClaimReceipts(w) \/ \E r \in Rows : SettleReceipt(w, r)

WorkerStep(w) == SupervisorStep(w) \/ DeliveryStep(w) \/ ReceiptStep(w)

DeliveryNext ==
    \/ \E w \in Workers : WorkerStep(w) \/ Blocked(w) \/ Crash(w)
    \/ \E r \in Rows : ProviderActs(r) \/ \E s \in Scopes : Alert(r, s)
    \/ \E i \in Installations : Rebind(i) \/ DeleteRule(i)
    \/ RotateKeys
    \/ Clock

DeliveryVars == <<storeVars, workerVars>>

DeliveryInit == StoreInit /\ WorkersInit

DeliverySpec == DeliveryInit /\ [][DeliveryNext]_DeliveryVars

---------------------------------------------------------------------------
(* Properties *)

DeliveryTypeOK ==
    /\ inst \in [Installations -> InstRow]
    /\ link \in [Links -> {"active", "draining", "absent"}]
    /\ rules \subseteq Scopes
    /\ outbox \in [Rows -> OutboxRow]
    /\ permit \in [Rows -> PermitRow]
    /\ ticket \in [Rows -> TicketRow]
    /\ lease \in LeaseRow
    /\ gates \in GateRow
    /\ worker \in [Workers -> [pc: PCs, gen: 0..MaxGenerations, row: Rows \cup {NoRow},
                               n: 0..MaxClaims, result: Results, recoverIn: 0..ProviderDeadline,
                               batch: SUBSET Rows]]
    /\ op \in [Scopes -> {"none", "draining", "committed"}]
    /\ wire \in [Rows -> Answers \cup {"none", "flying"}]
    /\ sent \in [Rows -> Nat]

Final == {"provider_accepted", "provider_rejected", "provider_outcome_unknown", "cancelled"}

(***************************************************************************)
(* What the outbox says of a message is true, whichever process wrote it   *)
(* and however late: a row not yet marked, given up or rejected unsent     *)
(* never reached the provider, an accepted one was accepted, a refused one *)
(* was refused; and no row is sent to the provider twice, through crashes, *)
(* takeovers, deadlines and recoveries.                                    *)
(***************************************************************************)
OutcomeHonest ==
    \A r \in Rows :
        /\ sent[r] <= 1
        /\ outbox[r].state \in {"absent", "pending", "leased", "cancelled"} => sent[r] = 0
        /\ outbox[r].code = "unsent" => sent[r] = 0
        /\ outbox[r].state = "provider_accepted" => wire[r] = "accepted"
        /\ outbox[r].code = "refused" => wire[r] \in {"refused", "unregistered"}
        /\ ticket[r].state # "none" => outbox[r].state = "provider_accepted"

(***************************************************************************)
(* A recorded outcome is final: no recovery, late answer, second receipt   *)
(* worker or revocation changes a settled row or a settled receipt.        *)
(***************************************************************************)
OutcomeFinal ==
    [][\A r \in Rows :
        /\ outbox[r].state \in Final => outbox'[r].state = outbox[r].state
        /\ ticket[r].state \in {"delivered", "failed", "unknown"} =>
               ticket'[r].state = ticket[r].state]_<<outbox, ticket>>

=============================================================================
