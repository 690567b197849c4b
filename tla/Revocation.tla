---------------------------- MODULE Revocation ----------------------------
(***************************************************************************)
(* Deletion of an installation or an account link: the drain that stops    *)
(* new permits, the append to the independent deletion ledger, the commit, *)
(* and the restore of an older database, which replays the ledger.  The    *)
(* API handlers of postgres-application.ts are here with the store methods *)
(* they call; DeliveryWorkers runs beside them.                            *)
(*                                                                         *)
(* A scope is drained by one operation (deletion_id is unique and neither  *)
(* generation moves before the commit), so operations, handlers and ledger *)
(* items are named by their scope.  All links are to one account.          *)
(***************************************************************************)
EXTENDS DeliveryWorkers, Sequences, SequencesExt

CONSTANT MaxBackups     \* bound: backups taken

ASSUME RevocationAssumption == MaxBackups \in Nat

VARIABLES handler,    \* API request that drains each scope: the step it is at
          origin,     \* who started the operation: the owner or a lost revoke
          ledger,     \* the independent append-only log of deleted scopes
          reported,   \* history: deletions the API answered `inactive' to
          backup,     \* the database backup, with its watermark
          replay,     \* replayRestore between its read and its transaction
          backups

revocationVars == <<handler, origin, ledger, reported, backup, replay, backups>>
vars == <<storeVars, workerVars, revocationVars>>

NoReplay == 0 - 1
Database == [inst |-> inst, link |-> link, rules |-> rules, outbox |-> outbox,
             permit |-> permit, ticket |-> ticket, op |-> op, origin |-> origin,
             watermark |-> 0]

Init ==
    /\ StoreInit
    /\ WorkersInit
    /\ handler = [s \in Scopes |-> "idle"]
    /\ origin = [s \in Scopes |-> "owner"]
    /\ ledger = <<>>
    /\ reported = {}
    /\ backup = Database
    /\ replay = NoReplay
    /\ backups = 0

---------------------------------------------------------------------------
(* Fencing dispatch work *)

Of(s) == {r \in Rows : outbox[r].state # "absent" /\ Covers(s, outbox[r].scope)}

\* fenceInstallationDispatchWork and fenceAccountLinkDispatchWork: what waits is
\* cancelled; what was marked becomes unknown once past its deadline, or at once
\* on a restore.
Fenced(s, force) ==
    [r \in Rows |->
        LET p == permit[r]
            over == p.state = "submission_started" /\ (force \/ p.deadline = 0)
            row == outbox[r]
        IN IF r \notin Of(s) THEN [row |-> row, permit |-> p]
           ELSE [row |-> IF row.state \in {"pending", "leased"}
                         THEN [row EXCEPT !.state = "cancelled"]
                         ELSE IF row.state = Started /\ (force \/ over)
                         THEN [row EXCEPT !.state = "provider_outcome_unknown"] ELSE row,
                 permit |-> IF p.state = "active" THEN [p EXCEPT !.state = "expired"]
                            ELSE IF over THEN [p EXCEPT !.state = "finished"] ELSE p]]

Fence(s) ==
    /\ outbox' = [r \in Rows |-> Fenced(s, FALSE)[r].row]
    /\ permit' = [r \in Rows |-> Fenced(s, FALSE)[r].permit]

\* Marked submissions of the scope whose deadline is still to come.
Undelivered(s) ==
    \E r \in Of(s) : permit[r].state = "submission_started" /\ permit[r].deadline > 0

ScopeState(s) == IF s \in Links THEN link[s] ELSE inst[s].state

---------------------------------------------------------------------------
(* Handlers *)

handlerRest == <<rules, ticket, lease, gates, worker, wire, sent, faults,
                 ledger, reported, backup, replay, backups>>

\* The same operation sent again while it drains.
RepeatDrain(s) ==
    /\ ScopeState(s) = "draining"
    /\ op[s] = "draining" /\ origin[s] = "owner"
    /\ UNCHANGED <<inst, link, op, outbox, permit>>

\* revokeInstallation begins with startInstallationDrain.
StartInstallationDrain(i) ==
    /\ handler[i] = "idle"
    /\ Mutable
    /\ \/ /\ inst[i].state = "active"
          /\ op[i] = "none"
          /\ inst' = [inst EXCEPT ![i].state = "draining"]
          /\ op' = [op EXCEPT ![i] = "draining"]
          /\ Fence(i)
          /\ UNCHANGED link
       \/ RepeatDrain(i)
    /\ handler' = [handler EXCEPT ![i] = "checking"]
    /\ UNCHANGED <<handlerRest, origin>>

\* unlinkAccount begins with startAccountLinkDrain; its installation is active.
StartAccountLinkDrain(l) ==
    /\ handler[l] = "idle"
    /\ Mutable
    /\ inst[HomeOf[l]].state = "active"
    /\ \/ /\ link[l] = "active"
          /\ op[l] = "none"
          /\ link' = [link EXCEPT ![l] = "draining"]
          /\ op' = [op EXCEPT ![l] = "draining"]
          /\ Fence(l)
          /\ UNCHANGED inst
       \/ RepeatDrain(l)
    /\ handler' = [handler EXCEPT ![l] = "checking"]
    /\ UNCHANGED <<handlerRest, origin>>

\* revokeLostInstallations: proven over an account that the requester and the
\* selected installation are both linked to; those links drain with it.
RevokeLost(i) ==
    LET linked(j) == {l \in Links : HomeOf[l] = j /\ link[l] = "active"} IN
    /\ handler[i] = "idle"
    /\ Mutable
    /\ \E q \in Installations : inst[q].state = "active" /\ linked(q) # {}
    /\ inst[i].state = "active" /\ linked(i) # {}
    /\ op[i] = "none"
    /\ inst' = [inst EXCEPT ![i].state = "draining"]
    /\ link' = [l \in Links |-> IF l \in linked(i) THEN "draining" ELSE link[l]]
    /\ op' = [op EXCEPT ![i] = "draining"]
    /\ origin' = [origin EXCEPT ![i] = "lost"]
    /\ Fence(i)
    /\ handler' = [handler EXCEPT ![i] = "checking"]
    /\ UNCHANGED handlerRest

\* What the handler answers when it goes no further: `inactive' is reported.
Answer(s, done) ==
    /\ handler' = [handler EXCEPT ![s] = "idle"]
    /\ reported' = IF done THEN reported \cup {s} ELSE reported

\* The reads commitInstallationRevocation begins with: committed already, no
\* such operation (conflict), or submissions to wait for, which the handler
\* answers as `draining'.
CheckInstallation(i) ==
    /\ handler[i] = "checking"
    /\ IF op[i] # "draining" \/ Undelivered(i)
       THEN Answer(i, op[i] = "committed")
       ELSE handler' = [handler EXCEPT ![i] = "appending"] /\ UNCHANGED reported
    /\ UNCHANGED <<storeVars, workerVars, origin, ledger, backup, replay, backups>>

\* commitAccountLinkUnlink also needs the link's row.
CheckLink(l) ==
    /\ handler[l] = "checking"
    /\ IF op[l] # "draining" \/ link[l] = "absent" \/ Undelivered(l)
       THEN Answer(l, op[l] = "committed")
       ELSE handler' = [handler EXCEPT ![l] = "appending"] /\ UNCHANGED reported
    /\ UNCHANGED <<storeVars, workerVars, origin, ledger, backup, replay, backups>>

\* appendDeletionTombstone: idempotent by deletion id.
AppendTombstone(s) ==
    /\ handler[s] = "appending"
    /\ ledger' = IF s \in ToSet(ledger) THEN ledger ELSE Append(ledger, s)
    /\ handler' = [handler EXCEPT ![s] = "committing"]
    /\ UNCHANGED <<storeVars, workerVars, origin, reported, backup, replay, backups>>

DeletedScopes(D) == {s \in Scopes : \E d \in D : Covers(d, s)}

\* What deletions leave of the tables that authorize a push.
DeleteScopes(D) ==
    /\ inst' = [i \in Installations |->
                   IF i \in D THEN [inst[i] EXCEPT !.state = "inactive", !.gen = 1, !.token = "none"]
                   ELSE inst[i]]
    /\ link' = [l \in Links |-> IF l \in DeletedScopes(D) THEN "absent" ELSE link[l]]
    /\ rules' = rules \ DeletedScopes(D)

\* The serializable transaction that ends the drain, unless another handler
\* ended it.  It is not fenced by Mutable: a restore does not stop it.
CommitDrain(s) ==
    LET commits == ScopeState(s) = "draining" /\ ~Undelivered(s) IN
    /\ handler[s] = "committing"
    /\ IF op[s] = "committed" \/ ~commits
       THEN UNCHANGED <<inst, link, rules, op, outbox, permit>>
       ELSE /\ DeleteScopes({s})
            /\ op' = [op EXCEPT ![s] = IF @ = "none" THEN @ ELSE "committed"]
            /\ Fence(s)
    /\ Answer(s, op[s] = "committed" \/ commits)
    /\ UNCHANGED <<ticket, lease, gates, worker, wire, sent, faults,
                   origin, ledger, backup, replay, backups>>

CommitInstallationRevocation(i) == CommitDrain(i)

CommitAccountLinkUnlink(l) == CommitDrain(l)

\* The API process ends, or the ledger or the database does not answer.
HandlerFails(s) ==
    /\ handler[s] # "idle"
    /\ faults < MaxFaults
    /\ faults' = faults + 1
    /\ handler' = [handler EXCEPT ![s] = "idle"]
    /\ UNCHANGED <<storeVars, worker, op, wire, sent, origin, ledger, reported, backup, replay, backups>>

---------------------------------------------------------------------------
(* Backup and restore *)

Applied == {n \in 1..Len(ledger) : op[ledger[n]] = "committed"}

\* External: how a backup's watermark is found.  It is a sequence up to which
\* every deletion is applied; the last one applied would skip a deletion that was
\* appended earlier and committed later.
Watermarks == {n \in 0..Len(ledger) : 1..n \subseteq Applied}

TakeBackup ==
    /\ gates.restore = "ready"
    /\ backups < MaxBackups
    /\ backups' = backups + 1
    /\ \E n \in Watermarks : backup' = [Database EXCEPT !.watermark = n]
    /\ UNCHANGED <<storeVars, workerVars, handler, origin, ledger, reported, replay>>

\* An older database is put in place and prepareRestore closes its gates.  The
\* workers are down and all deadlines have passed; API handlers may live on, and
\* the provider keeps what it was sent.
Restore ==
    /\ backups > 0
    /\ faults < MaxFaults
    /\ faults' = faults + 1
    /\ inst' = backup.inst /\ link' = backup.link /\ rules' = backup.rules
    /\ op' = backup.op /\ origin' = backup.origin
    /\ outbox' = [r \in Rows |-> [backup.outbox[r] EXCEPT !.until = 0]]
    /\ permit' = [r \in Rows |-> [backup.permit[r] EXCEPT !.deadline = 0, !.expires = 0]]
    /\ ticket' = [r \in Rows |-> [backup.ticket[r] EXCEPT !.next = 0, !.until = 0]]
    /\ lease' = NoLease
    /\ gates' = [restore |-> "replaying", mutations |-> FALSE, monitors |-> FALSE,
                 delivery |-> FALSE, watermark |-> backup.watermark]
    /\ worker' = [w \in Workers |-> Stopped]
    /\ replay' = NoReplay
    /\ UNCHANGED <<wire, sent, handler, ledger, reported, backup, backups>>

\* verifyTombstoneReplay: the head and the items after the watermark.
ReplayRead ==
    /\ gates.restore = "replaying"
    /\ replay = NoReplay
    /\ replay' = Len(ledger)
    /\ UNCHANGED <<storeVars, workerVars, handler, origin, ledger, reported, backup, backups>>

\* Faulty variant: the first item after the watermark is skipped.
ReplayItemsLate == {ledger[n] : n \in (gates.watermark + 2)..replay}

ReplayItems == {ledger[n] : n \in (gates.watermark + 1)..replay}

\* The replay transaction: every item is fenced with force and deleted, unless
\* the ledger has moved on, which leaves the gates closed.
ReplayApply ==
    /\ gates.restore = "replaying"
    /\ replay # NoReplay
    /\ replay' = NoReplay
    /\ IF Len(ledger) # replay
       THEN UNCHANGED <<inst, link, rules, outbox, permit, gates>>
       ELSE /\ DeleteScopes(ReplayItems)
            /\ outbox' = [r \in Rows |-> IF \E s \in ReplayItems : r \in Of(s)
                              THEN Fenced(outbox[r].scope, TRUE)[r].row ELSE outbox[r]]
            /\ permit' = [r \in Rows |-> IF \E s \in ReplayItems : r \in Of(s)
                              THEN Fenced(outbox[r].scope, TRUE)[r].permit ELSE permit[r]]
            /\ gates' = [restore |-> "ready", mutations |-> TRUE, monitors |-> FALSE,
                         delivery |-> FALSE, watermark |-> replay]
    /\ UNCHANGED <<ticket, lease, worker, op, wire, sent, faults,
                   handler, origin, ledger, reported, backup, backups>>

---------------------------------------------------------------------------

DeletionNext ==
    \/ DeliveryNext /\ UNCHANGED revocationVars
    \/ \E s \in Scopes :
        AppendTombstone(s) \/ HandlerFails(s)
    \/ \E i \in Installations :
        \/ StartInstallationDrain(i) \/ CheckInstallation(i) \/ CommitInstallationRevocation(i)
        \/ RevokeLost(i)
    \/ \E l \in Links :
        StartAccountLinkDrain(l) \/ CheckLink(l) \/ CommitAccountLinkUnlink(l)

RestoreNext == TakeBackup \/ Restore \/ ReplayRead \/ ReplayApply

Next == DeletionNext \/ RestoreNext

Handler(s) ==
    \/ AppendTombstone(s)
    \/ s \in Installations /\ (CheckInstallation(s) \/ CommitInstallationRevocation(s))
    \/ s \in Links /\ (CheckLink(s) \/ CommitAccountLinkUnlink(s))

\* A running process goes on, the response it waits for ends, time passes, a
\* lease is now and then renewed within its 30 seconds.
WorkerFairness ==
    /\ WF_vars(Clock /\ UNCHANGED revocationVars)
    /\ \A w \in Workers :
        /\ WF_vars((SupervisorStep(w) \/ DeliveryStep(w) \/ ClaimReceipts(w))
                       /\ UNCHANGED revocationVars)
        /\ SF_vars(RenewOwnership(w) /\ HoldsLease(w, worker[w].gen) /\ UNCHANGED revocationVars)
        /\ \A r \in Rows : WF_vars(SettleReceipt(w, r) /\ UNCHANGED revocationVars)

\* Requests end as well.
Fairness == WorkerFairness /\ \A s \in Scopes : WF_vars(Handler(s))

Spec == Init /\ [][Next]_vars /\ Fairness

\* As long as no backup is put in place of the database; requests to the API
\* may never end.
UnrestoredSpec == Init /\ [][DeletionNext]_vars /\ WorkerFairness

\* An owner whose request was answered `draining' sends it again.
RetriedSpec ==
    /\ Spec
    /\ \A i \in Installations : WF_vars(op[i] = "draining" /\ StartInstallationDrain(i))
    /\ \A l \in Links : WF_vars(op[l] = "draining" /\ StartAccountLinkDrain(l))

---------------------------------------------------------------------------
(* Properties *)

(***************************************************************************)
(* No provider request is made for a scope once its deletion committed,    *)
(* although a worker may hold a permit, a marker and an authorization it   *)
(* obtained before the drain.                                              *)
(***************************************************************************)
NoSendAfterRevoke ==
    [][\A r \in Rows : sent'[r] = sent[r] + 1 =>
          \A s \in Scopes : Covers(s, outbox[r].scope) =>
              op[s] # "committed" /\ s \notin reported]_vars

(***************************************************************************)
(* A deletion the API reported stays done: whatever crashed, was retried   *)
(* or was restored from an older backup since, as soon as the service is   *)
(* open again the scope is gone with its token and its rules.              *)
(***************************************************************************)
DeletedStaysDeleted ==
    gates.restore = "ready" =>
        \A s \in reported :
            /\ s \in Links => link[s] = "absent"
            /\ s \in Installations => inst[s].state = "inactive" /\ inst[s].token = "none"
            /\ DeletedScopes({s}) \cap rules = {}

\* Activation of the gates is refused as long as this holds.
Blocking == ~Activatable

(***************************************************************************)
(* No row stays in flight: one that a worker took up is settled or offered *)
(* again, although processes crash between any two steps and the answer    *)
(* may never come, unless the gates can no longer be opened.               *)
(***************************************************************************)
InFlightSettles ==
    \A r \in Rows :
        outbox[r].state \in {"leased", Started}
            ~> (outbox[r].state \notin {"leased", Started} \/ Blocking)

(***************************************************************************)
(* Draining ends: a revocation waits for the submissions that are marked,  *)
(* which finish or reach their deadline, and is then committed             *)
(* (docs/design/notification-service.md:175).                              *)
(***************************************************************************)
DrainEnds == \A s \in Scopes : op[s] = "draining" ~> op[s] # "draining"

=============================================================================
