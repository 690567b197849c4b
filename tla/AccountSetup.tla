---------------------------- MODULE AccountSetup ----------------------------
(***************************************************************************)
(* Setting up the API wallet of one account: the screen                    *)
(* (apps/mobile/src/app/setup/index.tsx with setup-flow.ts), its runtime   *)
(* (manual-setup-runtime.ts), the coordinator (setup-coordinator.ts), the  *)
(* SQLite rows (setup-repository.ts), the checkpoint of the screen         *)
(* (manual-setup-progress.ts) and the vault (credential-vault.ts).         *)
(*                                                                         *)
(* A key is generated on the device and staged in the secure store, whose  *)
(* manifest lists it; a row records the attempt; the user registers the    *)
(* key at the exchange, which the app then verifies to activate a binding. *)
(* Four stores change one after the other, with waits between them: the    *)
(* process may be killed at any of them, and a write may be refused. The   *)
(* user may leave the screen while a key is generated and come back (hasty *)
(* users do), so two operations can be under way.                          *)
(*                                                                         *)
(* The keys are numbered in the order they are generated; a key stands for *)
(* its attempt and its binding too. One clock serves the device and the    *)
(* exchange.                                                               *)
(***************************************************************************)
EXTENDS Integers, FiniteSets, FiniteSetsExt

CONSTANTS SetupTasks,          \* operations the screens may have under way
          MaxKeys,             \* bound: keys generated
          AttemptDuration,     \* SETUP_ATTEMPT_DURATION_MS, in ticks
          MaxSetupTime,        \* bound: the clock
          MaxSetupFaults       \* bound: kills, refused writes, failed requests

SetupAssumption ==
    /\ MaxKeys \in Nat /\ MaxSetupFaults \in Nat
    /\ AttemptDuration \in Nat \ {0}
    /\ "none" \notin SetupTasks          \* flow.owner of no operation
ASSUME SetupAssumption

VARIABLES
    hasty,          \* the user leaves a screen that is generating a key
    setupClock,
    attempts,       \* rows of api_wallet_setup_attempts, by key
    bindings,       \* status in api_wallet_bindings, by key
    secrets,        \* keys in the secure store
    manifest,       \* keys listed by its manifest
    checkpoint,     \* what AsyncStorage remembers of the screen
    registered,     \* keys registered at the exchange
    directory,      \* the key of the saved account, or 0
    flow,           \* the screen: [phase, returns, working, owner, held]
    tasks,          \* the operations under way
    keys,           \* keys generated
    setupFaults

setupVars == <<hasty, setupClock, attempts, bindings, secrets, manifest, checkpoint,
               registered, directory, flow, tasks, keys, setupFaults>>
stored == <<attempts, bindings, secrets, manifest, checkpoint, directory>>
outside == <<hasty, setupClock, registered>>

Keys == 1 .. MaxKeys
NoAttempt == [status |-> "none", generation |-> 0, expiresAt |-> 0]
Idle == [at |-> "idle", key |-> 0, generation |-> 0, time |-> 0,
         base |-> {}, victim |-> 0, next |-> "idle"]
Unmounted == [phase |-> "unmounted", returns |-> "account", working |-> FALSE,
              owner |-> "none", held |-> 0]
NoCheckpoint == [phase |-> "none", key |-> 0]
Protection == [phase |-> "protection", key |-> 0]
Authorization(key) == [phase |-> "authorization", key |-> key]

SetupInit ==
    /\ hasty \in BOOLEAN
    /\ setupClock = 0 /\ keys = 0 /\ setupFaults = 0 /\ directory = 0
    /\ attempts = [k \in Keys |-> NoAttempt]
    /\ bindings = [k \in Keys |-> "none"]
    /\ secrets = {} /\ manifest = {} /\ registered = {}
    /\ checkpoint = NoCheckpoint
    /\ flow = Unmounted
    /\ tasks = [t \in SetupTasks |-> Idle]

-----------------------------------------------------------------------------
(* What the rows say.                                                       *)

Pending == {k \in Keys : attempts[k].status = "pending"}

Expired(key, time) == time >= attempts[key].expiresAt

(* nextGeneration: above every binding and attempt of the target, of any status. *)
NextGeneration == 1 + Max({attempts[k].generation : k \in Keys} \cup {0})

(* activationFor: a consumed attempt whose binding is still the active one.  *)
Activated(key) == attempts[key].status = "consumed" /\ bindings[key] = "active"

(* consumeAndActivate, one transaction: the attempt is read again, the active
   binding makes way for the new one.                                         *)
Activates(key, time) == key \in Pending /\ ~Expired(key, time)

ConsumeAndActivate(key) ==
    /\ attempts' = [attempts EXCEPT ![key].status = "consumed"]
    /\ bindings' = [k \in Keys |-> IF k = key THEN "active"
                                   ELSE IF bindings[k] = "active" THEN "retiring"
                                   ELSE bindings[k]]

-----------------------------------------------------------------------------
(* The screen. A message of an operation that is not the latest of the screen
   is ignored by reduceSetupFlow.                                             *)

Dispatch(t, phase, returns) ==
    flow' = IF flow.owner = t
            THEN [flow EXCEPT !.phase = phase, !.returns = returns, !.working = FALSE]
            ELSE flow

Fail(t, returns) == Dispatch(t, "failure", returns)

Goto(t, at) == tasks' = [tasks EXCEPT ![t].at = at]

(* load, when the screen is mounted: where the checkpoint and the rows say the
   user was.                                                                  *)
Load ==
    LET latest == CHOOSE k \in Pending : \A j \in Pending : j <= k
    IN CASE checkpoint = NoCheckpoint /\ Pending = {} -> [phase |-> "account", held |-> 0]
         [] checkpoint = NoCheckpoint /\ Pending # {} ->
              [phase |-> "authorization", held |-> latest]
         [] checkpoint = Protection -> [phase |-> "protection", held |-> 0]
         [] OTHER ->
              [phase |-> CASE checkpoint.key \in Pending -> "authorization"
                           [] Activated(checkpoint.key) -> "activating"
                           [] OTHER -> "failure",
               held |-> IF checkpoint.key \in Pending \/ Activated(checkpoint.key)
                        THEN checkpoint.key ELSE 0]

Mount(t) ==
    /\ flow.phase = "unmounted" /\ tasks[t] = Idle
    /\ flow' = [phase |-> Load.phase, held |-> Load.held,
                returns |-> IF Load.phase = "activating" THEN "authorization"
                            ELSE IF Load.phase = "failure" THEN "account" ELSE Load.phase,
                working |-> Load.phase = "activating",
                owner |-> IF Load.phase = "activating" THEN t ELSE "none"]
    /\ checkpoint' = IF checkpoint = NoCheckpoint /\ Load.held # 0
                     THEN Authorization(Load.held) ELSE checkpoint
    /\ tasks' = IF Load.phase = "activating"
                THEN [tasks EXCEPT ![t] = [Idle EXCEPT !.at = "save", !.key = Load.held]]
                ELSE tasks
    /\ UNCHANGED <<outside, attempts, bindings, secrets, manifest, directory, keys,
                   setupFaults>>

(* Retry, and the hardware back key: consumed while a registration is verified or
   activated; it leaves the screen from any other phase but protection, which it
   takes back to the account, whatever is under way.                          *)
Retry ==
    /\ flow.phase = "failure"
    /\ flow' = [flow EXCEPT !.phase = flow.returns]
    /\ UNCHANGED <<outside, stored, tasks, keys, setupFaults>>

Back ==
    /\ flow.phase \notin {"unmounted", "verifying", "activating"}
    /\ flow.working => hasty
    /\ flow' = IF flow.phase = "protection"
               THEN [flow EXCEPT !.phase = "account", !.returns = "account"]
               ELSE Unmounted
    /\ (flow.phase # "protection" /\ \E t \in SetupTasks : tasks[t] # Idle)
          => hasty
    /\ UNCHANGED <<outside, stored, tasks, keys, setupFaults>>

-----------------------------------------------------------------------------
(* Generating a key. One at a time in a screen (prepareInFlight).           *)

(* generateWallet and the start of prepare: the checkpoint says protection. *)
StartPrepare(t) ==
    /\ flow.phase \in {"account", "protection"} /\ tasks[t] = Idle
    /\ flow.owner # "none" => tasks[flow.owner] = Idle
    /\ checkpoint' = Protection
    /\ flow' = [flow EXCEPT !.phase = "protection", !.returns = "protection",
                            !.working = TRUE, !.owner = t]
    /\ Goto(t, "inspect")
    /\ UNCHANGED <<outside, attempts, bindings, secrets, manifest, directory, keys,
                   setupFaults>>

(* The exchange's answer: the account is the master's own, the time is now. A
   pending attempt of the target stops the operation, or is retired when it has
   expired.                                                                   *)
Inspected(t) ==
    /\ tasks[t].at = "inspect"
    /\ CASE Pending = {} ->
              /\ tasks' = [tasks EXCEPT ![t].at = "generate", ![t].time = setupClock,
                                        ![t].generation = NextGeneration]
              /\ UNCHANGED flow
         [] \E k \in Pending : ~Expired(k, setupClock) ->
              /\ tasks' = [tasks EXCEPT ![t] = Idle]
              /\ Fail(t, "protection")
         [] OTHER ->
              /\ tasks' = [tasks EXCEPT ![t].at = "erase", ![t].time = setupClock,
                             ![t].victim = CHOOSE k \in Pending : TRUE,
                             ![t].next = "generate"]
              /\ UNCHANGED flow
    /\ UNCHANGED <<outside, stored, keys, setupFaults>>

(* The key, and the manifest as stage reads it.                             *)
Generated(t) ==
    /\ tasks[t].at = "generate" /\ keys < MaxKeys
    /\ keys' = keys + 1
    /\ tasks' = [tasks EXCEPT ![t].at = "list", ![t].key = keys + 1, ![t].base = manifest]
    /\ UNCHANGED <<outside, stored, flow, setupFaults>>

Listed(base, key) == base \cup {key}

StageManifest(t) ==
    /\ tasks[t].at = "list"
    /\ manifest' = Listed(tasks[t].base, tasks[t].key)
    /\ Goto(t, "store")
    /\ UNCHANGED <<outside, attempts, bindings, secrets, checkpoint, directory, flow,
                   keys, setupFaults>>

StageSecret(t) ==
    /\ tasks[t].at = "store"
    /\ secrets' = secrets \cup {tasks[t].key}
    /\ Goto(t, "insert")
    /\ UNCHANGED <<outside, attempts, bindings, manifest, checkpoint, directory, flow,
                   keys, setupFaults>>

(* The protected write is refused: the manifest is put back as it was read.  *)
StageRefused(t) ==
    /\ tasks[t].at = "store" /\ setupFaults < MaxSetupFaults
    /\ setupFaults' = setupFaults + 1
    /\ manifest' = tasks[t].base
    /\ tasks' = [tasks EXCEPT ![t] = Idle]
    /\ Fail(t, "protection")
    /\ UNCHANGED <<outside, attempts, bindings, secrets, checkpoint, directory, keys>>

(* One pending attempt and one use of a generation for each target.         *)
Insertable(t) ==
    /\ Pending = {}
    /\ \A k \in Keys : attempts[k].generation # tasks[t].generation

CreateAttempt(t) ==
    /\ tasks[t].at = "insert"
    /\ IF Insertable(t)
       THEN /\ attempts' = [attempts EXCEPT ![tasks[t].key] =
                  [status |-> "pending", generation |-> tasks[t].generation,
                   expiresAt |-> tasks[t].time + AttemptDuration]]
            /\ Goto(t, "checkpoint")
       ELSE /\ tasks' = [tasks EXCEPT ![t].at = "erase", ![t].victim = tasks[t].key,
                                      ![t].next = "failed"]
            /\ UNCHANGED attempts
    /\ UNCHANGED <<outside, bindings, secrets, manifest, checkpoint, directory, flow,
                   keys, setupFaults>>

(* saveAuthorization, and the cancellation of the attempt when it fails.    *)
SaveAuthorization(t) ==
    /\ tasks[t].at = "checkpoint"
    /\ checkpoint' = Authorization(tasks[t].key)
    /\ tasks' = [tasks EXCEPT ![t] = Idle]
    /\ flow' = IF flow.owner = t
               THEN [flow EXCEPT !.phase = "authorization", !.returns = "authorization",
                                 !.working = FALSE, !.held = tasks[t].key]
               ELSE flow
    /\ UNCHANGED <<outside, attempts, bindings, secrets, manifest, directory, keys,
                   setupFaults>>

SaveRefused(t) ==
    /\ tasks[t].at = "checkpoint" /\ setupFaults < MaxSetupFaults
    /\ setupFaults' = setupFaults + 1
    /\ tasks' = [tasks EXCEPT ![t].at = "erase", ![t].victim = tasks[t].key,
                              ![t].next = "failed"]
    /\ UNCHANGED <<outside, stored, flow, keys>>

-----------------------------------------------------------------------------
(* removePendingAttempt: vault.delete (the secret, then the manifest, read and
   written) and then cancelAttempt.                                           *)

Erase(t) ==
    /\ tasks[t].at = "erase"
    /\ secrets' = secrets \ {tasks[t].victim}
    /\ Goto(t, "unlist")
    /\ UNCHANGED <<outside, attempts, bindings, manifest, checkpoint, directory, flow,
                   keys, setupFaults>>

ReadManifest(t) ==
    /\ tasks[t].at = "unlist"
    /\ tasks' = [tasks EXCEPT ![t].at = "unlisting", ![t].base = manifest]
    /\ UNCHANGED <<outside, stored, flow, keys, setupFaults>>

\* Faulty variant: the manifest is emptied.
UnlistedAll(base, key) == {}

Unlisted(base, key) == base \ {key}

CancelAttempt(t) ==
    /\ tasks[t].at = "unlisting"
    /\ LET key == tasks[t].victim
       IN /\ manifest' = Unlisted(tasks[t].base, key)
          /\ attempts' = IF key \in Pending
                         THEN [attempts EXCEPT ![key].status = "cancelled"] ELSE attempts
    /\ CASE tasks[t].next = "generate" ->
              /\ tasks' = [tasks EXCEPT ![t].at = "generate", ![t].victim = 0,
                             ![t].generation = NextGeneration]
              /\ UNCHANGED flow
         [] tasks[t].next = "failed" ->
              /\ tasks' = [tasks EXCEPT ![t] = Idle]
              /\ Fail(t, "protection")
         [] OTHER -> Goto(t, "forget") /\ UNCHANGED flow
    /\ UNCHANGED <<outside, bindings, secrets, checkpoint, directory, keys, setupFaults>>

-----------------------------------------------------------------------------
(* Verifying the registration.                                              *)

(* verifyAuthorization and verify up to the wait. An attempt that is gone may have
   been activated before.                                                     *)
StartVerify(t) ==
    /\ flow.phase = "authorization" /\ flow.held # 0 /\ tasks[t] = Idle
    /\ LET key == flow.held
           at == CASE key \notin Pending /\ Activated(key) -> "save"
                   [] key \notin Pending /\ ~Activated(key) -> "idle"
                   [] key \in Pending /\ Expired(key, setupClock) -> "erase"
                   [] OTHER -> "confirm"
       IN /\ tasks' = [tasks EXCEPT ![t] =
                         IF at = "idle" THEN Idle
                         ELSE [Idle EXCEPT !.at = at, !.key = key, !.victim = key,
                                           !.next = "forget", !.time = setupClock]]
          /\ flow' = IF at = "idle"
                     THEN [flow EXCEPT !.phase = "failure", !.owner = t]
                     ELSE [flow EXCEPT !.phase = IF at = "save" THEN "activating" ELSE "verifying",
                                       !.working = TRUE, !.owner = t]
    /\ UNCHANGED <<outside, stored, keys, setupFaults>>

(* The exchange's answer, given at a moment since it was asked.             *)
Confirmed(t, time, found) ==
    /\ tasks[t].at = "confirm"
    /\ time \in tasks[t].time .. setupClock /\ (found => tasks[t].key \in registered)
    /\ LET key == tasks[t].key
       IN CASE Expired(key, time) ->
                 Goto(t, "erase") /\ UNCHANGED <<flow, attempts, bindings>>
            [] ~Expired(key, time) /\ ~found ->
                 /\ tasks' = [tasks EXCEPT ![t] = Idle]
                 /\ Dispatch(t, "authorization", "authorization")
                 /\ UNCHANGED <<attempts, bindings>>
            [] ~Expired(key, time) /\ found /\ Activates(key, tasks[t].time) ->
                 /\ ConsumeAndActivate(key)
                 /\ Goto(t, "save")
                 /\ flow' = IF flow.owner = t THEN [flow EXCEPT !.phase = "activating"] ELSE flow
            [] OTHER ->
                 /\ tasks' = [tasks EXCEPT ![t] = Idle]
                 /\ Fail(t, "authorization")
                 /\ UNCHANGED <<attempts, bindings>>
    /\ UNCHANGED <<outside, secrets, manifest, checkpoint, directory, keys, setupFaults>>

(* finishActivation: the account is saved and selected, the context switched, and
   only then is the checkpoint cleared.                                       *)
SaveAccount(t) ==
    /\ tasks[t].at = "save"
    /\ directory' = tasks[t].key
    /\ Goto(t, "finish")
    /\ UNCHANGED <<outside, attempts, bindings, secrets, manifest, checkpoint, flow, keys,
                   setupFaults>>

Finish(t) ==
    /\ tasks[t].at = "finish"
    /\ checkpoint' = NoCheckpoint
    /\ tasks' = [tasks EXCEPT ![t] = Idle]
    /\ flow' = IF flow.owner = t THEN Unmounted ELSE flow
    /\ UNCHANGED <<outside, attempts, bindings, secrets, manifest, directory, keys,
                   setupFaults>>

(* activateVerified of an expired attempt.                                  *)
Forget(t) ==
    /\ tasks[t].at = "forget"
    /\ checkpoint' = NoCheckpoint
    /\ tasks' = [tasks EXCEPT ![t] = Idle]
    /\ flow' = IF flow.owner = t
               THEN [flow EXCEPT !.phase = "failure", !.returns = "protection",
                                 !.working = FALSE, !.held = 0]
               ELSE flow
    /\ UNCHANGED <<outside, attempts, bindings, secrets, manifest, directory, keys,
                   setupFaults>>

(* A request fails, device authentication is denied, the account cannot be saved
   or the context switched.                                                   *)
SetupFails(t) ==
    /\ tasks[t].at \in {"inspect", "confirm", "save", "finish"}
    /\ setupFaults < MaxSetupFaults
    /\ setupFaults' = setupFaults + 1
    /\ tasks' = [tasks EXCEPT ![t] = Idle]
    /\ Fail(t, IF tasks[t].at = "inspect" THEN "protection" ELSE "authorization")
    /\ UNCHANGED <<outside, stored, keys>>

-----------------------------------------------------------------------------
(* The world: the process is killed, time passes, the user registers a key. *)

Killed ==
    /\ setupFaults < MaxSetupFaults
    /\ setupFaults' = setupFaults + 1
    /\ tasks' = [t \in SetupTasks |-> Idle]
    /\ flow' = Unmounted
    /\ UNCHANGED <<outside, stored, keys>>

SetupTick ==
    /\ setupClock < MaxSetupTime
    /\ setupClock' = setupClock + 1
    /\ UNCHANGED <<hasty, stored, registered, flow, tasks, keys, setupFaults>>

Register ==
    /\ flow.held # 0 /\ flow.held \notin registered
    /\ registered' = registered \cup {flow.held}
    /\ UNCHANGED <<hasty, setupClock, stored, flow, tasks, keys, setupFaults>>

SetupNext ==
    \/ Retry \/ Back \/ Killed \/ SetupTick \/ Register
    \/ \E t \in SetupTasks :
         \/ Mount(t) \/ StartPrepare(t) \/ Inspected(t) \/ Generated(t)
         \/ StageManifest(t) \/ StageSecret(t) \/ StageRefused(t)
         \/ CreateAttempt(t) \/ SaveAuthorization(t) \/ SaveRefused(t)
         \/ Erase(t) \/ ReadManifest(t) \/ CancelAttempt(t)
         \/ StartVerify(t) \/ SaveAccount(t) \/ Finish(t) \/ Forget(t) \/ SetupFails(t)
         \/ \E time \in 0 .. MaxSetupTime, found \in BOOLEAN : Confirmed(t, time, found)

SetupSpec == SetupInit /\ [][SetupNext]_setupVars

-----------------------------------------------------------------------------
(* Every key is accounted for. The manifest is written before the secret and
   after its deletion: whatever is interrupted or refused, no key is in the
   secure store that the manifest does not list, and an active binding can sign
   and be restored: through rotations, expiries, kills and refused writes its
   key stays in both. That needs one operation at a time (the manifest is read
   and written with waits between: two operations lose each other's record); in
   any case only one binding is active.                                       *)
KeysAccountedFor ==
    LET active == {k \in Keys : bindings[k] = "active"}
    IN /\ ~hasty => secrets \subseteq manifest /\ active \subseteq secrets
       /\ Cardinality(active) <= 1

(* No operation is under way and the screen is closed.                      *)
AtRest == flow.phase = "unmounted" /\ \A t \in SetupTasks : tasks[t] = Idle

(* An attempt that has not expired is where the screen resumes.  Refuted, so
   no run states it: killed between the attempt's row and the screen's
   checkpoint, the app resumes before the attempt and refuses a new key until
   the attempt has expired.                                                 *)
AttemptResumable ==
    AtRest => \A k \in Pending : ~Expired(k, setupClock) =>
       Load = [phase |-> "authorization", held |-> k]

=============================================================================
