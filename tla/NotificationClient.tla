------------------------- MODULE NotificationClient -------------------------
(***************************************************************************)
(* The app's side of the notification service (features/notifications/     *)
(* provider.tsx with installation-state.ts, local-state.ts, service-       *)
(* client.ts and platform/notifications/credential-vault.ts). The identity *)
(* of the installation is in AsyncStorage, its credential in the secure    *)
(* store, both are copied to memory. Adding an alert and revoking the      *)
(* device wait for each other; a refresh, which replays the alerts queued  *)
(* while offline, runs beside them. Every await is a step. A request may   *)
(* be lost, or its answer; the process may be killed.                      *)
(***************************************************************************)
EXTENDS Integers, Sequences, FiniteSets

CONSTANTS Rules,              \* price alerts, each with a fresh id
          MaxInstallations,   \* bound: identities made
          MaxRevocations,     \* bound: operation ids made
          MaxPending,         \* CONTRACT_LIMITS.maxActiveRules
          MaxClientFaults,    \* bound: lost calls and answers, refused storage, kills
          AlsoUnwrapped       \* requests also take the shape their parser wants

ASSUME ClientAssumption == MaxInstallations \in Nat /\ AlsoUnwrapped \in BOOLEAN

VARIABLES
    identity,    \* installation-state: [id, op], 0 for none
    vault,       \* identities whose credential is in the secure store
    held,        \* installationRef, credentialRef, pendingRevocationOperationRef
    queued,      \* pendingPriceMutations, on disk
    hydrated,    \* the queue has been read since the start
    told,        \* alerts the user was told are queued
    service,     \* per identity: [state, ops], what the service knows
    alerts,      \* per alert, at the service: unknown, active or deleted
    mutation,    \* the serialised operation under way
    refreshing,  \* the refresh under way
    made,        \* identities and operation ids made so far
    calm,        \* the user waits for a refresh to end
    clientFaults

clientVars == <<identity, vault, held, queued, hydrated, told, service, alerts,
                mutation, refreshing, made, calm, clientFaults>>

Installations == 1 .. MaxInstallations
Nobody == [id |-> 0, op |-> 0]
Unknown == [state |-> "none", ops |-> {}]

Resting == [pc |-> "idle", read |-> Nobody, rule |-> 0, todo |-> <<>>, done |-> {}]

ClientInit ==
    /\ identity = Nobody /\ vault = {} /\ held = Nobody
    /\ queued = <<>> /\ hydrated = FALSE /\ told = {}
    /\ service = [i \in Installations |-> Unknown]
    /\ alerts = [r \in Rules |-> "unknown"]
    /\ mutation = Resting /\ refreshing = Resting
    /\ made = [installations |-> 0, operations |-> 0]
    /\ calm \in BOOLEAN /\ clientFaults = 0

Fault == clientFaults < MaxClientFaults /\ clientFaults' = clientFaults + 1

-----------------------------------------------------------------------------
(* loadAuthority, by the mutation or by the refresh.                        *)

Frames == {"mutation", "refresh"}
Frame(a) == IF a = "mutation" THEN mutation ELSE refreshing

(* The frame moves on, the other one stays.                                 *)
Moves(a, frame) ==
    IF a = "mutation" THEN mutation' = frame /\ UNCHANGED refreshing
                      ELSE refreshing' = frame /\ UNCHANGED mutation

At(a, pc) == [Frame(a) EXCEPT !.pc = pc]

(* A mutation that waits for a refresh ends with it.                        *)
RefreshEnds ==
    /\ refreshing' = Resting
    /\ mutation' = IF mutation.pc = "joined" THEN Resting ELSE mutation

(* What follows when there is no identity, and when there is one: an alert
   makes one, or asks the service about it; a refresh ends, or replays.       *)
Absent(a) ==
    IF a = "refresh" THEN RefreshEnds ELSE Moves(a, At(a, "writeState"))

Found(a) ==
    Moves(a, At(a, IF a = "mutation" THEN "check" ELSE "hydrate"))

LoadState(a) ==
    /\ Frame(a).pc = "load"
    /\ IF identity.id = 0
       THEN held' = Nobody /\ Absent(a)
       ELSE UNCHANGED held /\ Moves(a, [At(a, "loadVault") EXCEPT !.read = identity])
    /\ UNCHANGED <<identity, vault, queued, hydrated, told, service, alerts, made, calm,
                   clientFaults>>

LoadVault(a) ==
    /\ Frame(a).pc = "loadVault"
    /\ IF Frame(a).read.id \in vault
       THEN held' = Frame(a).read /\ Found(a)
       ELSE UNCHANGED held /\ Moves(a, At(a, "clearStale"))
    /\ UNCHANGED <<identity, vault, queued, hydrated, told, service, alerts, made, calm,
                   clientFaults>>

ClearStale(a) ==
    /\ Frame(a).pc = "clearStale"
    /\ identity' = Nobody /\ held' = Nobody
    /\ Absent(a)
    /\ UNCHANGED <<vault, queued, hydrated, told, service, alerts, made, calm, clientFaults>>

-----------------------------------------------------------------------------
(* refresh and performRefresh                                               *)

StartedRefresh == [Resting EXCEPT !.pc = IF held.id # 0 THEN "hydrate" ELSE "load",
                                  !.read = held]

(* At the start of the app, and when the user asks. A second one shares it.  *)
Refresh ==
    /\ refreshing.pc = "idle"
    /\ calm => mutation.pc = "idle"
    /\ refreshing' = StartedRefresh
    /\ UNCHANGED <<identity, vault, held, queued, hydrated, told, service, alerts, mutation,
                   made, calm, clientFaults>>

HydrateQueue ==
    /\ refreshing.pc = "hydrate"
    /\ hydrated' = TRUE
    /\ refreshing' = [At("refresh", IF queued = <<>> THEN "snapshot" ELSE "replay")
                        EXCEPT !.todo = queued]
    /\ UNCHANGED <<identity, vault, held, queued, told, service, alerts, mutation, made, calm,
                   clientFaults>>

(* A request that is answered, whose answer is lost, or that is lost.        *)
Outcomes == {"answered", "unanswered", "lost"}
Reached(outcome) == outcome # "lost"

Counted(outcome) ==
    IF outcome = "answered" THEN UNCHANGED clientFaults ELSE Fault

Accepts(i) == service[i].state = "active"

(* What parsePutRuleRequest takes: the fields of the rule themselves, beside the
   proof of an account rule; and what the provider hands to putRule, which wraps
   them. With it alone no alert leaves the app (AlertsReachService). AlsoUnwrapped
   adds the shape the parser takes, so that the queue is also examined where
   alerts get through: any call then has either shape.                        *)
RuleFields == {"ruleId", "scope", "network", "marketId", "eventType", "threshold"}

ParsePutRuleRequest(fields) == fields \ {"proof"} = RuleFields

PutRuleRequest == {"rule"}

PutRuleRequests == {PutRuleRequest} \cup (IF AlsoUnwrapped THEN {RuleFields} ELSE {})

(* putRule parses before it calls: what does not parse is not sent.          *)
PutRule(id, request, outcome) ==
    /\ ParsePutRuleRequest(request)
    /\ Reached(outcome) /\ Accepts(id)

MayBeLost(request, outcome) == outcome # "answered" => ParsePutRuleRequest(request)

\* Faulty variant: the alert the service did not confirm counts as replayed.
ReplayedAnyway(frame, verified) ==
    [frame EXCEPT !.todo = Tail(@), !.done = @ \cup {Head(frame.todo)}]

(* An alert the service confirmed is noted, the first failure is the last try. *)
Replayed(frame, verified) ==
    IF verified THEN [frame EXCEPT !.todo = Tail(@), !.done = @ \cup {Head(frame.todo)}]
                ELSE [frame EXCEPT !.todo = <<>>]

ReplayQueued(request, outcome) ==
    LET rule == Head(refreshing.todo)
        id == refreshing.read.id
        accepted == PutRule(id, request, outcome)
        frame == Replayed(refreshing, accepted /\ outcome = "answered")
    IN /\ refreshing.pc = "replay" /\ MayBeLost(request, outcome)
       /\ alerts' = IF accepted THEN [alerts EXCEPT ![rule] = "active"] ELSE alerts
       /\ refreshing' = [frame EXCEPT !.pc = IF frame.todo = <<>> THEN "snapshot" ELSE "replay"]
       /\ Counted(outcome)
       /\ UNCHANGED <<identity, vault, held, queued, hydrated, told, service, mutation, made, calm>>

\* Faulty variant: once something was replayed the queue is emptied.
RemainingCleared(done) == IF done = {} THEN queued ELSE <<>>

(* removePendingPriceRules: the alerts that are not done, in their order.    *)
Remaining(done) ==
    LET kept == {n \in DOMAIN queued : queued[n] \notin done}
        Rank(n) == Cardinality({m \in kept : m <= n})
    IN [place \in 1 .. Cardinality(kept) |-> queued[CHOOSE n \in kept : Rank(n) = place]]

(* What succeeded is taken out; then readSnapshot: whatever it answers, the
   refresh ends.                                                              *)
ReadSnapshot ==
    /\ refreshing.pc = "snapshot"
    /\ queued' = Remaining(refreshing.done)
    /\ RefreshEnds
    /\ UNCHANGED <<identity, vault, held, hydrated, told, service, alerts, made, calm,
                   clientFaults>>

-----------------------------------------------------------------------------
(* enablePriceAlert                                                         *)

(* serialize: one operation at a time.                                      *)
MayMutate == mutation.pc = "idle" /\ (calm => refreshing.pc = "idle")

Enable(rule) ==
    /\ MayMutate /\ held.op = 0
    /\ alerts[rule] = "unknown" /\ rule \notin told
    /\ mutation' = [Resting EXCEPT !.pc = "access", !.rule = rule]
    /\ UNCHANGED <<identity, vault, held, queued, hydrated, told, service, alerts, refreshing,
                   made, calm, clientFaults>>

(* requestAccessAndToken and registerBackgroundNotificationTask.             *)
Access(granted) ==
    /\ mutation.pc = "access"
    /\ mutation' = IF ~granted THEN Resting
                   ELSE IF held.id # 0 THEN [mutation EXCEPT !.pc = "check", !.read = held]
                   ELSE At("mutation", "load")
    /\ UNCHANGED <<identity, vault, held, queued, hydrated, told, service, alerts, refreshing,
                   made, calm, clientFaults>>

WriteState ==
    /\ mutation.pc = "writeState" /\ made.installations < MaxInstallations
    /\ LET new == [id |-> made.installations + 1, op |-> 0]
       IN /\ identity' = new
          /\ mutation' = [mutation EXCEPT !.pc = "writeVault", !.read = new]
    /\ made' = [made EXCEPT !.installations = @ + 1]
    /\ UNCHANGED <<vault, held, queued, hydrated, told, service, alerts, refreshing, calm,
                   clientFaults>>

WriteVault ==
    /\ mutation.pc = "writeVault"
    /\ vault' = vault \cup {mutation.read.id}
    /\ held' = mutation.read
    /\ mutation' = At("mutation", "register")
    /\ UNCHANGED <<identity, queued, hydrated, told, service, alerts, refreshing, made, calm,
                   clientFaults>>

(* The catch around the two writes: both are undone.                         *)
WriteRefused ==
    /\ mutation.pc \in {"writeState", "writeVault"} /\ Fault
    /\ identity' = Nobody
    /\ vault' = vault \ {mutation.read.id}
    /\ mutation' = Resting
    /\ UNCHANGED <<held, queued, hydrated, told, service, alerts, refreshing, made, calm>>

(* An identity that is not active is not found, and is registered (again).   *)
Check(outcome) ==
    /\ mutation.pc = "check"
    /\ mutation' = CASE outcome # "answered" -> Resting
                     [] Accepts(mutation.read.id) -> At("mutation", "put")
                     [] OTHER -> At("mutation", "register")
    /\ Counted(outcome)
    /\ UNCHANGED <<identity, vault, held, queued, hydrated, told, service, alerts, refreshing,
                   made, calm>>

(* The service knows an identity once; one that drains or is gone it refuses. *)
RegisterInstallation(outcome) ==
    LET id == mutation.read.id
        accepted == Reached(outcome) /\ service[id].state \in {"none", "active"}
    IN /\ mutation.pc = "register"
       /\ service' = IF accepted THEN [service EXCEPT ![id].state = "active"] ELSE service
       /\ mutation' = IF accepted /\ outcome = "answered" THEN At("mutation", "put") ELSE Resting
       /\ Counted(outcome)
       /\ UNCHANGED <<identity, vault, held, queued, hydrated, told, alerts, refreshing, made, calm>>

JoinRefresh ==
    /\ mutation' = At("mutation", "joined")
    /\ refreshing' = IF refreshing.pc = "idle" THEN StartedRefresh ELSE refreshing

Put(request, outcome) ==
    LET accepted == PutRule(mutation.read.id, request, outcome)
    IN /\ mutation.pc = "put" /\ MayBeLost(request, outcome)
       /\ alerts' = IF accepted THEN [alerts EXCEPT ![mutation.rule] = "active"] ELSE alerts
       /\ IF accepted /\ outcome = "answered" THEN JoinRefresh
          ELSE mutation' = At("mutation", "queue") /\ UNCHANGED refreshing
       /\ Counted(outcome)
       /\ UNCHANGED <<identity, vault, held, queued, hydrated, told, service, made, calm>>

(* queuePriceRule: refused before the queue was read, or when it is full; the
   user is then told of a failure.                                            *)
QueueRule ==
    LET kept == hydrated /\ Len(queued) < MaxPending
    IN /\ mutation.pc = "queue"
       /\ queued' = IF kept THEN Append(queued, mutation.rule) ELSE queued
       /\ told' = IF kept THEN told \cup {mutation.rule} ELSE told
       /\ mutation' = Resting
       /\ UNCHANGED <<identity, vault, held, hydrated, service, alerts, refreshing, made, calm,
                      clientFaults>>

(* deletePriceAlert, and the rebinding of a changed push token: the call, and a
   refresh when the service confirms it.                                      *)
CallThenRefresh(deleted, outcome) ==
    LET accepted == Reached(outcome) /\ Accepts(held.id)
    IN /\ MayMutate /\ held.id # 0
       /\ \A rule \in deleted : alerts[rule] = "active"
       /\ alerts' = [r \in Rules |-> IF accepted /\ r \in deleted THEN "deleted" ELSE alerts[r]]
       /\ IF accepted /\ outcome = "answered" THEN JoinRefresh
          ELSE UNCHANGED <<mutation, refreshing>>
       /\ Counted(outcome)
       /\ UNCHANGED <<identity, vault, held, queued, hydrated, told, service, made, calm>>

-----------------------------------------------------------------------------
(* revokeDevice                                                             *)

\* Faulty variant: every try makes an operation id of its own.
RevocationOpFresh == 0

(* The operation saved by an earlier try, or none.                           *)
RevocationOp == held.op

Revoke ==
    /\ MayMutate /\ held.id # 0
    /\ mutation' = [Resting EXCEPT !.pc = IF RevocationOp = 0 THEN "saveOp" ELSE "revoke",
                                   !.read = [id |-> held.id, op |-> RevocationOp]]
    /\ UNCHANGED <<identity, vault, held, queued, hydrated, told, service, alerts, refreshing,
                   made, calm, clientFaults>>

(* setPendingRevocationOperation, before the service hears of it; it throws
   when the identity was cleared.                                             *)
SaveOp ==
    /\ mutation.pc = "saveOp" /\ made.operations < MaxRevocations
    /\ LET op == made.operations + 1
       IN IF identity.id = 0
          THEN mutation' = Resting /\ UNCHANGED <<identity, held>>
          ELSE /\ identity' = [identity EXCEPT !.op = op]
               /\ held' = [held EXCEPT !.op = op]
               /\ mutation' = [mutation EXCEPT !.pc = "revoke", !.read.op = op]
    /\ made' = [made EXCEPT !.operations = @ + 1]
    /\ UNCHANGED <<vault, queued, hydrated, told, service, alerts, refreshing, calm, clientFaults>>

(* The service drains, or has drained: it answers the operation it knows.     *)
CallRevoke(outcome, state) ==
    LET id == mutation.read.id
        op == mutation.read.op
        known == service[id].state # "none"
        heard == Reached(outcome) /\ known
        next == IF service[id].state = "inactive" THEN "inactive" ELSE state
        inactive == heard /\ outcome = "answered" /\ next = "inactive"
                      /\ service[id].ops \subseteq {op}
    IN /\ mutation.pc = "revoke"
       /\ service' = IF heard THEN [service EXCEPT ![id] = [state |-> next, ops |-> @.ops \cup {op}]]
                     ELSE service
       /\ mutation' = IF inactive THEN At("mutation", "removeVault") ELSE Resting
       /\ Counted(outcome)
       /\ UNCHANGED <<identity, vault, held, queued, hydrated, told, alerts, refreshing, made, calm>>

RemoveVault ==
    /\ mutation.pc = "removeVault"
    /\ vault' = vault \ {mutation.read.id}
    /\ mutation' = At("mutation", "clearState")
    /\ UNCHANGED <<identity, held, queued, hydrated, told, service, alerts, refreshing, made, calm,
                   clientFaults>>

ClearState ==
    /\ mutation.pc = "clearState"
    /\ identity' = Nobody /\ held' = Nobody
    /\ mutation' = Resting
    /\ UNCHANGED <<vault, queued, hydrated, told, service, alerts, refreshing, made, calm,
                   clientFaults>>

-----------------------------------------------------------------------------
(* Reading or writing the stores elsewhere fails: the operation is given up.  *)
StorageRefused(a) ==
    /\ Frame(a).pc \in {"load", "loadVault", "clearStale", "saveOp", "removeVault",
                        "clearState", "snapshot"}
    /\ Fault
    /\ IF a = "refresh" THEN RefreshEnds ELSE Moves(a, Resting)
    /\ UNCHANGED <<identity, vault, held, queued, hydrated, told, service, alerts, made, calm>>

Kill ==
    /\ Fault
    /\ held' = Nobody /\ hydrated' = FALSE
    /\ mutation' = Resting /\ refreshing' = Resting
    /\ UNCHANGED <<identity, vault, queued, told, service, alerts, made, calm>>

ClientNext ==
    \/ Refresh \/ HydrateQueue \/ ReadSnapshot
    \/ WriteState \/ WriteVault \/ WriteRefused \/ QueueRule
    \/ Revoke \/ SaveOp \/ RemoveVault \/ ClearState \/ Kill
    \/ \E a \in Frames : LoadState(a) \/ LoadVault(a) \/ ClearStale(a) \/ StorageRefused(a)
    \/ \E rule \in Rules : Enable(rule)
    \/ \E granted \in BOOLEAN : Access(granted)
    \/ \E outcome \in Outcomes : Check(outcome) \/ RegisterInstallation(outcome)
    \/ \E request \in PutRuleRequests, outcome \in Outcomes :
          ReplayQueued(request, outcome) \/ Put(request, outcome)
    \/ \E deleted \in {{}} \cup {{r} : r \in Rules}, outcome \in Outcomes :
          CallThenRefresh(deleted, outcome)
    \/ \E outcome \in Outcomes, state \in {"draining", "inactive"} : CallRevoke(outcome, state)

ClientSpec == ClientInit /\ [][ClientNext]_clientVars

-----------------------------------------------------------------------------
(* An alert the user was told is queued stays queued until the service has it:
   what a replay sent, or believes it sent, is taken out of a queue to which
   additions, failures, lost answers and kills have happened since it was read.
   The program as it stands never takes anything out, because no request parses;
   this says the queue stays right once they do (AlsoUnwrapped).              *)
QueuedAlertKept == \A r \in told : alerts[r] # "unknown" \/ \E n \in DOMAIN queued : queued[n] = r

(* A price alert put for an installation the service knows is active is queued
   only when its call, or the answer, was lost: price rules work without any
   wallet's authority. Refuted: the request the provider builds is one its own
   parser refuses, so no alert ever reaches the service.                      *)
AlertsReachService ==
    [][mutation.pc = "put" /\ mutation'.pc = "queue" /\ Accepts(mutation.read.id)
         => clientFaults' > clientFaults]_clientVars

(* An uncertain answer never makes the app discard the only authority over an
   installation the service may have, and every try to revoke it, across kills
   and lost answers, is the same operation. This needs a user who waits for a
   refresh to end: its own load of the authority is not serialised with the
   operations that change it.                                                 *)
AuthorityKept ==
    calm => \A i \in Installations :
       /\ service[i].state \in {"active", "draining"} => identity.id = i /\ i \in vault
       /\ Cardinality(service[i].ops) <= 1

=============================================================================
