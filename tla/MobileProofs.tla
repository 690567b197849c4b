---------------------------- MODULE MobileProofs ----------------------------
(***************************************************************************)
(* Proofs about the parts of the app around its actions: the saved         *)
(* accounts (AccountDirectory), rotating, repairing and unlinking an API   *)
(* wallet (AccountLifecycle), setting one up (AccountSetup), the alerts    *)
(* and the authority of the device (NotificationClient), the screens an    *)
(* alert opens (NotificationEntry), the two screens a review comes from    *)
(* (PortfolioScreen, TradeScreen) and what is kept for each network and    *)
(* account (Preferences), for any accounts, keys, alerts, markets and      *)
(* scopes and any bounds.                                                  *)
(***************************************************************************)
EXTENDS AccountDirectory, AccountLifecycle, AccountSetup, NotificationClient,
        NotificationEntry, PortfolioScreen, TradeScreen, Preferences,
        FiniteSetTheorems, SequenceTheorems, TLAPS

-----------------------------------------------------------------------------
(* Documents *)

Documents == [accounts : SUBSET AccountIds, active : AccountIds \cup {NoAccount}]

\* A document the directory can be in: few accounts, the active one among them.
Sound(doc) == doc \in Documents /\ IsFiniteSet(doc.accounts) /\ Parses(doc)

\* The empty directory is sound.
LEMMA EmptySound == Sound(Empty)
<1>1. IsFiniteSet({}) /\ Cardinality({}) = 0
  BY FS_EmptySet
<1>. QED
  BY <1>1, DirectoryAssumption DEF Sound, Empty, Documents, Parses

\* A change that applies leads from a sound document to a sound document.
LEMMA ChangeSound ==
    ASSUME NEW doc, Sound(doc), NEW change \in Changes, Applies(doc, change)
    PROVE  Sound(Change(doc, change))
<1>. USE DEF Sound
<1>0. doc.accounts \in SUBSET AccountIds /\ doc.active \in AccountIds \cup {NoAccount}
  BY DEF Documents
<1>1. CASE change.kind = "save"
  <2>1. Change(doc, change) = [doc EXCEPT !.accounts = @ \cup {change.id}]
    BY <1>1 DEF Change
  <2>2. change.id \in AccountIds
    BY <1>1 DEF Changes
  <2>3. IsFiniteSet(doc.accounts \cup {change.id})
    BY FS_AddElement
  <2>4. Cardinality(doc.accounts \cup {change.id}) <= MaxAccounts
    BY <1>1 DEF Applies
  <2>. QED BY <2>1, <2>2, <2>3, <2>4 DEF Documents, Parses
<1>2. CASE change.kind = "select"
  <2>1. Change(doc, change) = [doc EXCEPT !.active = change.id]
    BY <1>2 DEF Change
  <2>2. change.id \in doc.accounts \cup {NoAccount}
    BY <1>2 DEF Applies
  <2>. QED BY <1>0, <2>1, <2>2 DEF Documents, Parses
<1>3. CASE change.kind = "remove"
  <2>1. Change(doc, change) =
           [accounts |-> doc.accounts \ {change.id},
            active |-> IF doc.active = change.id THEN NoAccount ELSE doc.active]
    BY <1>3 DEF Change
  <2>2. /\ IsFiniteSet(doc.accounts \ {change.id})
        /\ Cardinality(doc.accounts \ {change.id}) <= Cardinality(doc.accounts)
    BY FS_RemoveElement, FS_Subset, FS_CardinalityType
  <2>3. /\ Cardinality(doc.accounts \ {change.id}) \in Nat
        /\ Cardinality(doc.accounts) \in Nat
    BY <2>2, FS_CardinalityType
  <2>4. Cardinality(doc.accounts \ {change.id}) <= MaxAccounts
    BY <2>2, <2>3, DirectoryAssumption DEF Parses
  <2>. QED BY <1>0, <2>1, <2>2, <2>4 DEF Documents, Parses
<1>. QED BY <1>1, <1>2, <1>3 DEF Changes

-----------------------------------------------------------------------------
(* The directory *)

\* What is stored can be read; while it is shown, the app shows what is stored,
\* and at most one write is under way, of what the changes add up to.
DirectoryInv ==
    /\ Sound(document)
    /\ queue \in Seq(Changes)
    /\ snapshot.status \in {"loading", "ready"}
    /\ snapshot.status = "ready" => Shown = document
    /\ snapshot.status = "loading" =>
          queue = <<>> /\ writing = <<>> /\ agreed = document
    /\ \/ writing = <<>> /\ agreed = document
       \/ writing = <<agreed>> /\ Sound(agreed)

\* A new device satisfies it.
LEMMA DirectoryInvInit == DirectoryInit => DirectoryInv
BY EmptySound DEF DirectoryInit, DirectoryInv, Loading

\* Asking, beginning, writing, refusing and being killed keep it.
LEMMA DirectoryInvNext ==
    DirectoryInv /\ [DirectoryNext]_directoryVars => DirectoryInv'
<1>. SUFFICES ASSUME DirectoryInv, [DirectoryNext]_directoryVars
              PROVE  DirectoryInv'
  OBVIOUS
<1>0. ASSUME NEW doc, Sound(doc)
      PROVE  [accounts |-> Ready(doc).accounts, active |-> Ready(doc).active] = doc
  BY <1>0 DEF Sound, Documents, Ready
<1>1. CASE Hydrate
  <2>1. snapshot' = Ready(document)
    BY <1>1 DEF Hydrate
  <2>2. Shown' = document
    BY <1>0, <2>1 DEF Shown, DirectoryInv
  <2>. QED BY <1>1, <2>1, <2>2 DEF Hydrate, DirectoryInv, Ready
<1>2. CASE Begin
  <2>1. /\ writing = <<>> /\ queue # <<>> /\ agreed = document
        /\ Shown = document /\ snapshot.status = "ready"
    BY <1>2 DEF Begin, Turn, DirectoryInv
  <2>2. Head(queue) \in Changes /\ Tail(queue) \in Seq(Changes)
    BY <2>1 DEF DirectoryInv
  <2>3. UNCHANGED <<document, snapshot>>
    BY <1>2 DEF Begin
  <2>4. CASE Applies(document, Head(queue))
    <3>1. agreed' = Change(document, Head(queue)) /\ writing' = <<agreed'>>
      BY <1>2, <2>1, <2>4 DEF Begin
    <3>2. Sound(agreed')
      BY <2>2, <2>4, <3>1, ChangeSound DEF DirectoryInv
    <3>. QED BY <1>2, <2>1, <2>2, <2>3, <3>1, <3>2 DEF Begin, DirectoryInv, Shown
  <2>5. CASE ~Applies(document, Head(queue))
    <3>1. agreed' = agreed /\ writing' = writing
      BY <1>2, <2>1, <2>5 DEF Begin
    <3>. QED BY <1>2, <2>1, <2>2, <2>3, <3>1 DEF Begin, DirectoryInv, Shown
  <2>. QED BY <2>4, <2>5
<1>3. CASE Commit
  <2>1. writing = <<agreed>> /\ Sound(agreed)
    BY <1>3 DEF Commit, DirectoryInv
  <2>2. /\ document' = agreed /\ snapshot' = Ready(agreed) /\ writing' = <<>>
        /\ UNCHANGED <<queue, agreed>>
    BY <1>3, <2>1 DEF Commit
  <2>3. Shown' = agreed
    BY <1>0, <2>1, <2>2 DEF Shown
  <2>4. snapshot'.status = "ready"
    BY <2>2 DEF Ready
  <2>5. Sound(document')
    BY <2>1, <2>2
  <2>. QED BY <2>1, <2>2, <2>3, <2>4, <2>5 DEF DirectoryInv
<1>4. CASE CommitRefused
  <2>1. writing = <<agreed>> /\ snapshot.status = "ready" /\ Shown = document
    BY <1>4 DEF CommitRefused, DirectoryInv
  <2>. QED BY <1>4, <2>1 DEF CommitRefused, DirectoryInv, Shown
<1>5. ASSUME NEW change \in Changes, Ask(change) PROVE DirectoryInv'
  BY <1>5 DEF Ask, DirectoryInv, Shown
<1>6. ASSUME NEW reached \in BOOLEAN, Restarted(reached) PROVE DirectoryInv'
  <2>1. document' = document \/ (writing # <<>> /\ document' = Head(writing))
    BY <1>6 DEF Restarted
  <2>2. Sound(document')
    BY <2>1 DEF DirectoryInv
  <2>. QED BY <1>6, <2>2 DEF Restarted, DirectoryInv, Loading
<1>7. CASE UNCHANGED directoryVars
  BY <1>7 DEF directoryVars, DirectoryInv, Shown
<1>. QED BY <1>1, <1>2, <1>3, <1>4, <1>5, <1>6, <1>7 DEF DirectoryNext

\* No change of the directory is lost or undone by another, whatever writes are
\* refused and wherever the process is killed.
THEOREM DirectoryKeepsChanges == DirectorySpec => []NoLostChange
<1>1. DirectoryInv => NoLostChange
  <2>1. <<agreed>> # <<>>
    OBVIOUS
  <2>. QED BY <2>1 DEF DirectoryInv, NoLostChange, Sound
<1>. QED
  BY <1>1, DirectoryInvInit, DirectoryInvNext, PTL DEF DirectorySpec

-----------------------------------------------------------------------------
(* The lifecycle of an API wallet *)

Phases == {"idle", "locking", "external_step", "verifying", "restricted",
           "tombstoning", "deleting_local", "deleting_alerts", "complete",
           "failed"}

LifecycleType ==
    [operation : Operations \cup {"none"}, phase : Phases, generation : Nat,
     completed : BOOLEAN, newAgentActive : BOOLEAN, oldAgentInactive : BOOLEAN,
     nonceScopeTombstoned : BOOLEAN, localSecretDeleted : BOOLEAN,
     localCleanupComplete : BOOLEAN,
     alertDeletion : {"not_started", "pending", "complete", "failed"}]

\* The exchange's latest answer proves what the operation asked of it.
Proved ==
    proofs.old /\ (NeedsNewAgent(lifecycle.operation) => proofs.new)

\* A cleanup runs only after a proof, or for a local unlink the user
\* acknowledged; it retires the nonce scope before it deletes the secret, and
\* only an unlink goes on to the alerts; what is complete was all of that.
LifecycleInv ==
    /\ lifecycle \in LifecycleType
    /\ proofs \in [old : BOOLEAN, new : BOOLEAN]
    /\ lifecycle.oldAgentInactive = proofs.old
    /\ lifecycle.localSecretDeleted => lifecycle.nonceScopeTombstoned
    /\ lifecycle.phase \in {"tombstoning", "deleting_local", "deleting_alerts"} =>
          lifecycle.operation = "unlink_local" \/ Proved
    /\ lifecycle.phase = "deleting_alerts" =>
          lifecycle.localSecretDeleted /\ NeedsAlertDeletion(lifecycle.operation)
    /\ lifecycle.completed => lifecycle.phase = "complete" /\ CompletedMeansDone

\* In the initial state nothing has been done.
LEMMA NothingDone ==
    /\ InitialOperation \in LifecycleType
    /\ InitialOperation.phase = "idle"
    /\ ~InitialOperation.completed
    /\ ~InitialOperation.oldAgentInactive
    /\ ~InitialOperation.localSecretDeleted
BY DEF InitialOperation, LifecycleType, Phases

\* The row that an answer of the exchange leaves.
LEMMA AnsweredTyped ==
    ASSUME NEW l \in LifecycleType, NEW phase \in Phases, NEW done \in BOOLEAN,
           NEW new \in BOOLEAN, NEW old \in BOOLEAN
    PROVE  [l EXCEPT !.phase = phase, !.completed = done,
                     !.newAgentActive = new, !.oldAgentInactive = old]
             \in LifecycleType
BY DEF LifecycleType

\* Before any operation nothing is complete.
LEMMA LifecycleInvInit == LifecycleInit => LifecycleInv
BY DEF LifecycleInit, LifecycleInv, InitialOperation, NoProof, LifecycleType,
       Phases

\* Every outcome that may come in keeps it.
LEMMA LifecycleInvNext ==
    LifecycleInv /\ [LifecycleNext]_lifecycleVars => LifecycleInv'
<1>. SUFFICES ASSUME LifecycleInv, [LifecycleNext]_lifecycleVars
              PROVE  LifecycleInv'
  OBVIOUS
<1>. USE DEF LifecycleInv, LifecycleType, Phases, Proved, CompletedMeansDone,
            NeedsNewAgent, NeedsAlertDeletion, Operations
<1>1. ASSUME NEW op \in Operations, Start(op) PROVE LifecycleInv'
  <2>1. lifecycle.generation + 1 \in Nat
    OBVIOUS
  <2>. QED BY <1>1, <2>1, NothingDone DEF Start, NoProof
<1>2. CASE LocalLocked
  BY <1>2 DEF LocalLocked, Becomes
<1>3. CASE ExternalStepReturned
  BY <1>3 DEF ExternalStepReturned, Becomes
<1>4. ASSUME NEW old \in BOOLEAN, NEW new \in BOOLEAN,
             AuthoritativeProof(old, new)
      PROVE  LifecycleInv'
  <2>. DEFINE verified == old /\ (NeedsNewAgent(lifecycle.operation) => new)
              phase == IF verified
                       THEN CleanupPhaseAfterAuthoritativeProof(lifecycle)
                       ELSE "restricted"
  <2>1. /\ phase \in {"restricted", "tombstoning", "deleting_local",
                      "deleting_alerts", "complete"}
        /\ phase # "restricted" => verified
        /\ phase = "deleting_alerts" =>
              /\ lifecycle.localSecretDeleted
              /\ NeedsAlertDeletion(lifecycle.operation)
        /\ phase = "complete" =>
              /\ lifecycle.nonceScopeTombstoned
              /\ lifecycle.localSecretDeleted
              /\ NeedsAlertDeletion(lifecycle.operation) =>
                    lifecycle.alertDeletion = "complete"
    BY DEF CleanupPhaseAfterAuthoritativeProof
  <2>2. /\ lifecycle' = [lifecycle EXCEPT !.phase = phase,
                            !.completed = (phase = "complete"),
                            !.newAgentActive = new, !.oldAgentInactive = old]
        /\ proofs' = [old |-> old, new |-> new]
    BY <1>4 DEF AuthoritativeProof
  <2>4. verified => old /\ (NeedsNewAgent(lifecycle.operation) => new)
    OBVIOUS
  <2>. HIDE DEF phase, verified
  <2>5. /\ lifecycle'.operation = lifecycle.operation
        /\ lifecycle'.phase = phase
        /\ lifecycle'.completed = (phase = "complete")
        /\ lifecycle'.oldAgentInactive = old
        /\ lifecycle'.nonceScopeTombstoned = lifecycle.nonceScopeTombstoned
        /\ lifecycle'.localSecretDeleted = lifecycle.localSecretDeleted
        /\ lifecycle'.alertDeletion = lifecycle.alertDeletion
        /\ proofs'.old = old /\ proofs'.new = new
    BY <2>2
  <2>6. lifecycle' \in LifecycleType /\ proofs' \in [old : BOOLEAN, new : BOOLEAN]
    <3>. DEFINE done == phase = "complete"
    <3>1. done \in BOOLEAN
      OBVIOUS
    <3>2. lifecycle' = [lifecycle EXCEPT !.phase = phase, !.completed = done,
                          !.newAgentActive = new, !.oldAgentInactive = old]
      BY <2>2
    <3>3. lifecycle \in LifecycleType /\ phase \in Phases
      BY <2>1
    <3>. HIDE DEF done, LifecycleInv, LifecycleType, Phases
    <3>4. lifecycle' \in LifecycleType
      BY <3>1, <3>2, <3>3, AnsweredTyped
    <3>. QED BY <2>2, <3>4
  <2>. QED BY <2>1, <2>4, <2>5, <2>6
<1>5. CASE AcknowledgeUnverifiedLocalUnlink
  BY <1>5 DEF AcknowledgeUnverifiedLocalUnlink, Becomes
<1>6. CASE NonceScopeTombstoned
  BY <1>6 DEF NonceScopeTombstoned, Becomes
<1>7. CASE LocalSecretDeleted
  BY <1>7 DEF LocalSecretDeleted, Becomes
<1>8. CASE AlertDataDeleted
  BY <1>8 DEF AlertDataDeleted, Becomes
<1>9. CASE AlertDataDeletionFailed
  BY <1>9 DEF AlertDataDeletionFailed, Becomes
<1>10. CASE LifecycleFails
  BY <1>10 DEF LifecycleFails, Becomes, FailureNeedsAuthoritativeResolution
<1>11. CASE Reset
  <2>1. lifecycle.generation + 1 \in Nat
    OBVIOUS
  <2>. QED BY <1>11, <2>1, NothingDone DEF Reset, NoProof
<1>12. CASE UNCHANGED lifecycleVars
  BY <1>12 DEF lifecycleVars
<1>. QED
  BY <1>1, <1>2, <1>3, <1>4, <1>5, <1>6, <1>7, <1>8, <1>9, <1>10, <1>11,
     <1>12 DEF LifecycleNext

\* An operation on a wallet that is reported as completed has all of it done,
\* whatever failed, came twice or was resumed on the way.
THEOREM CompletionIsEarned == LifecycleSpec => []CompletedMeansDone
<1>1. LifecycleInv => CompletedMeansDone
  BY DEF LifecycleInv, CompletedMeansDone
<1>. QED
  BY <1>1, LifecycleInvInit, LifecycleInvNext, PTL DEF LifecycleSpec

-----------------------------------------------------------------------------
(* Setting up an API wallet *)

Preparing == {"inspect", "generate", "list", "store", "insert", "checkpoint"}
Erasing == {"erase", "unlist", "unlisting"}
Stages == {"idle", "confirm", "forget", "save", "finish"} \cup Preparing \cup Erasing

\* The records have their fields; what a generation is does not matter.
RowShaped(row) ==
    /\ row = [status |-> row.status, generation |-> row.generation,
              expiresAt |-> row.expiresAt]
    /\ row.expiresAt \in Int

TaskShaped(task) ==
    /\ task = [at |-> task.at, key |-> task.key, generation |-> task.generation,
               time |-> task.time, base |-> task.base, victim |-> task.victim,
               next |-> task.next]
    /\ task.at \in Stages
    /\ task.at = "idle" => task = Idle
    /\ task.time \in Int

FlowShaped(screen) ==
    /\ screen = [phase |-> screen.phase, returns |-> screen.returns,
                 working |-> screen.working, owner |-> screen.owner, held |-> screen.held]
    /\ screen.returns \in {"account", "protection", "authorization"}

Shaped(f, S) == f = [x \in S |-> f[x]]

SetupTyped ==
    /\ hasty \in BOOLEAN /\ setupClock \in Int /\ keys \in 0 .. MaxKeys
    /\ Shaped(attempts, Keys) /\ \A k \in Keys : RowShaped(attempts[k])
    /\ Shaped(bindings, Keys)
    /\ Shaped(tasks, SetupTasks) /\ \A t \in SetupTasks : TaskShaped(tasks[t])
    /\ FlowShaped(flow)

\* The key an operation has generated and has no row of yet.
Unrecorded(task) == task.at \in {"list", "store", "insert"}

\* At most one binding is active, of a consumed attempt.
BindingsFit ==
    /\ \A k, j \in Keys : bindings[k] = "active" /\ bindings[j] = "active" => k = j
    /\ \A k \in Keys : bindings[k] = "active" => attempts[k].status = "consumed"

\* A key that is not generated yet, or has no row yet, is new, and is one
\* operation's.
KeysNew ==
    /\ \A k \in Keys : k > keys => attempts[k].status = "none" /\ k \notin secrets
    /\ \A t \in SetupTasks : Unrecorded(tasks[t]) =>
          /\ tasks[t].key \in 1 .. keys /\ attempts[tasks[t].key].status = "none"
          /\ \A u \in SetupTasks \ {t} : Unrecorded(tasks[u]) => tasks[u].key # tasks[t].key

\* The phase of the screen an operation belongs to.
PhaseOf(task) ==
    IF task.at \in Preparing \/ (task.at \in Erasing /\ task.next # "forget") THEN "protection"
    ELSE IF task.at \in {"save", "finish"} THEN "activating" ELSE "verifying"

\* Staging a key: the manifest has it before the secret store.
StagingFits(task) ==
    /\ task.at \in {"list", "store"} => task.key \notin secrets
    /\ task.at \in {"insert", "checkpoint"} => task.key \in secrets
    /\ task.at = "list" => manifest = task.base
    /\ task.at = "store" => manifest = Listed(task.base, task.key)
    /\ task.at = "checkpoint" => Pending = {task.key}

\* Erasing a key: none of an active binding, and its secret goes first.
ErasureFits(task) ==
    /\ task.at \in Erasing =>
          /\ task.next \in {"generate", "failed", "forget"}
          /\ task.victim \in Keys /\ attempts[task.victim].status # "consumed"
          /\ task.next = "forget" => Expired(task.victim, setupClock)
    /\ task.at \in {"unlist", "unlisting"} => task.victim \notin secrets
    /\ task.at = "unlisting" => manifest = task.base
    /\ task.at = "confirm" =>
          task.key \in Pending \cap secrets /\ task.victim = task.key /\ task.next = "forget"

\* The operation under way is the screen's.
Owned(t) ==
    tasks[t].at # "idle" =>
       /\ flow.owner = t /\ flow.working = TRUE /\ flow.phase = PhaseOf(tasks[t])
       /\ flow.phase = "protection" => checkpoint = Protection
       /\ StagingFits(tasks[t]) /\ ErasureFits(tasks[t])

\* The screen is, or goes back to, where a key is waited for.
OnKey == \/ flow.phase \in {"authorization", "verifying", "activating"}
         \/ flow.phase = "failure" /\ flow.returns = "authorization"

\* A pending attempt without its key, left by an interrupted erasure, is not
\* resumed: it has expired, or the checkpoint is before it.
SecretsFit ==
    /\ secrets \subseteq manifest
    /\ \A k \in Keys : bindings[k] = "active" => k \in secrets
    /\ checkpoint # Protection =>
          \A k \in Pending : k \in secrets \/ Expired(k, setupClock)
    /\ OnKey => checkpoint # Protection

OneAtATime == SecretsFit /\ \A t \in SetupTasks : Owned(t)

SetupInv == SetupTyped /\ BindingsFit /\ KeysNew /\ (~hasty => OneAtATime)

\* A new device satisfies it.
LEMMA SetupInvInit == SetupInit => SetupInv
<1>. SUFFICES ASSUME SetupInit PROVE SetupInv
  OBVIOUS
<1>1. SetupTyped
  <2>1. Shaped(attempts, Keys) /\ \A k \in Keys : RowShaped(attempts[k])
    BY DEF SetupInit, Shaped, RowShaped, NoAttempt
  <2>2. Shaped(bindings, Keys)
    BY DEF SetupInit, Shaped
  <2>3. Shaped(tasks, SetupTasks) /\ \A t \in SetupTasks : TaskShaped(tasks[t])
    BY DEF SetupInit, Shaped, TaskShaped, Idle, Stages
  <2>4. FlowShaped(flow)
    BY DEF SetupInit, FlowShaped, Unmounted
  <2>5. hasty \in BOOLEAN
    BY DEF SetupInit
  <2>6. setupClock \in Int /\ keys \in 0 .. MaxKeys
    BY SetupAssumption DEF SetupInit, SetupAssumption
  <2>. QED BY <2>1, <2>2, <2>3, <2>4, <2>5, <2>6 DEF SetupTyped
<1>2. BindingsFit /\ KeysNew
  BY DEF SetupInit, BindingsFit, KeysNew, Unrecorded, Idle, NoAttempt
<1>3. OneAtATime
  BY DEF SetupInit, OneAtATime, SecretsFit, Owned, OnKey, Idle, Unmounted, NoAttempt, Pending
<1>. QED BY <1>1, <1>2, <1>3 DEF SetupInv

\* Of a user who waits, one operation is under way at most.
LEMMA Alone ==
    ASSUME SetupInv, ~hasty, NEW t \in SetupTasks,
           tasks[t].at # "idle" \/ flow.working = FALSE
    PROVE  \A u \in SetupTasks \ {t} : tasks[u].at = "idle"
BY DEF SetupInv, OneAtATime, Owned

\* With the screen in any other phase no operation is under way.
LEMMA NoneBusy ==
    ASSUME SetupInv, ~hasty, flow.phase \notin {"protection", "verifying", "activating"}
    PROVE  \A u \in SetupTasks : tasks[u].at = "idle"
BY DEF SetupInv, OneAtATime, Owned, PhaseOf

\* An operation that turns to another stage remembers what it did.
LEMMA Turned ==
    ASSUME NEW task, TaskShaped(task), NEW at \in Stages \ {"idle"}, NEW next,
           next = [task EXCEPT !.at = at]
    PROVE  /\ TaskShaped(next)
           /\ next.at = at /\ next.key = task.key /\ next.base = task.base
           /\ next.victim = task.victim /\ next.next = task.next /\ next.time = task.time
BY DEF TaskShaped

\* The idle task.
LEMMA IdleShaped == TaskShaped(Idle) /\ Idle.at = "idle" /\ ~Unrecorded(Idle)
BY DEF TaskShaped, Idle, Stages, Unrecorded

\* What an operation needs of the state as it goes on.
Follows(t, task) ==
    task.at # "idle" =>
       /\ flow.owner = t /\ flow.working = TRUE /\ flow.phase = PhaseOf(task)
       /\ flow.phase = "protection" => checkpoint = Protection
       /\ StagingFits(task) /\ ErasureFits(task)

\* The only operation under way takes a step.
LEMMA OwnedNext ==
    ASSUME SetupTyped, NEW t \in SetupTasks, NEW next, tasks' = [tasks EXCEPT ![t] = next],
           \A u \in SetupTasks \ {t} : tasks[u].at = "idle",
           Follows(t, next)'
    PROVE  \A u \in SetupTasks : Owned(u)'
<1>1. tasks'[t] = next /\ \A u \in SetupTasks \ {t} : tasks'[u] = tasks[u]
  BY DEF SetupTyped, Shaped
<1>2. Owned(t)'
  BY <1>1 DEF Owned, Follows
<1>3. ASSUME NEW u \in SetupTasks \ {t} PROVE Owned(u)'
  BY <1>1 DEF Owned
<1>. QED BY <1>2, <1>3

\* New keys stay new in a step of one operation: its own key may get a row, and
\* a generated key may get a secret.
LEMMA KeysNewNext ==
    ASSUME SetupTyped, KeysNew, NEW t \in SetupTasks, NEW next,
           tasks' = [tasks EXCEPT ![t] = next], keys' = keys,
           \A k \in Keys : attempts[k].status = "none" /\ attempts'[k].status # "none" =>
               Unrecorded(tasks[t]) /\ k = tasks[t].key /\ ~Unrecorded(next),
           \A k \in secrets' \ secrets : k \in 1 .. keys,
           Unrecorded(next) => Unrecorded(tasks[t]) /\ next.key = tasks[t].key
    PROVE  KeysNew'
<1>1. tasks'[t] = next /\ \A u \in SetupTasks \ {t} : tasks'[u] = tasks[u]
  BY DEF SetupTyped, Shaped
<1>2. keys \in Int /\ keys <= MaxKeys /\ MaxKeys \in Int
  BY SetupAssumption DEF SetupTyped, SetupAssumption
<1>3. ASSUME NEW k \in Keys, k > keys
      PROVE  attempts'[k].status = "none" /\ k \notin secrets'
  <2>1. attempts[k].status = "none" /\ k \notin secrets
    BY <1>3 DEF KeysNew
  <2>2. k \in Int /\ k \notin 1 .. keys
    BY <1>2, <1>3 DEF Keys
  <2>3. Unrecorded(tasks[t]) => tasks[t].key # k
    BY <2>2 DEF KeysNew
  <2>. QED BY <2>1, <2>2, <2>3
<1>4. \A u \in SetupTasks : Unrecorded(tasks'[u]) =>
          Unrecorded(tasks[u]) /\ tasks'[u].key = tasks[u].key
  BY <1>1
<1>5. ASSUME NEW u \in SetupTasks, Unrecorded(tasks'[u])
      PROVE  /\ tasks'[u].key \in 1 .. keys /\ attempts'[tasks'[u].key].status = "none"
             /\ \A v \in SetupTasks \ {u} : Unrecorded(tasks'[v]) => tasks'[v].key # tasks'[u].key
  <2>1. /\ Unrecorded(tasks[u]) /\ tasks'[u].key = tasks[u].key
        /\ tasks[u].key \in 1 .. keys /\ attempts[tasks[u].key].status = "none"
        /\ \A v \in SetupTasks \ {u} : Unrecorded(tasks[v]) => tasks[v].key # tasks[u].key
    BY <1>4, <1>5 DEF KeysNew
  <2>2. tasks[u].key \in Keys
    BY <1>2, <2>1 DEF Keys
  <2>3. u = t \/ (Unrecorded(tasks[t]) => tasks[t].key # tasks[u].key)
    BY <2>1
  <2>4. attempts'[tasks[u].key].status = "none"
    BY <1>1, <1>5, <2>1, <2>2, <2>3
  <2>. QED BY <1>4, <2>1, <2>4
<1>. QED BY <1>3, <1>5 DEF KeysNew, Unrecorded

\* A step that leaves the rows alone and adds no secret.
LEMMA PlainStep ==
    ASSUME SetupInv, NEW t \in SetupTasks, NEW next, TaskShaped(next),
           tasks' = [tasks EXCEPT ![t] = next],
           UNCHANGED <<hasty, setupClock, attempts, bindings, keys>>,
           secrets' \subseteq secrets, FlowShaped(flow'),
           Unrecorded(next) => Unrecorded(tasks[t]) /\ next.key = tasks[t].key,
           ~hasty => /\ \A u \in SetupTasks \ {t} : tasks[u].at = "idle"
                     /\ SecretsFit' /\ Follows(t, next)'
    PROVE  SetupInv'
<1>. USE DEF SetupInv
<1>1. Shaped(tasks', SetupTasks) /\ \A u \in SetupTasks : TaskShaped(tasks'[u])
  BY DEF SetupTyped, Shaped
<1>2. SetupTyped'
  BY <1>1 DEF SetupTyped
<1>3. BindingsFit'
  BY DEF BindingsFit
<1>4. KeysNew'
  BY KeysNewNext
<1>5. ~hasty => OneAtATime'
  BY OwnedNext DEF OneAtATime
<1>. QED BY <1>2, <1>3, <1>4, <1>5

\* The screen resumes where the checkpoint says, on a key only behind one.
LEMMA LoadFits ==
    /\ Load.phase \in {"account", "authorization", "protection", "activating", "failure"}
    /\ checkpoint = Protection => Load.phase = "protection"
BY DEF Load, Protection, NoCheckpoint

\* Entering the screen, with or without a checkpoint to resume from.
LEMMA MountKeeps ==
    ASSUME SetupInv, NEW t \in SetupTasks, Mount(t)
    PROVE  SetupInv'
<1>. USE DEF SetupInv
<1>1. PICK load : load = Load
  OBVIOUS
<1>2. /\ load.phase \in {"account", "authorization", "protection", "activating", "failure"}
      /\ checkpoint = Protection => load.phase = "protection"
  BY <1>1, LoadFits
<1>3. PICK next : next = IF load.phase = "activating"
                         THEN [Idle EXCEPT !.at = "save", !.key = load.held] ELSE Idle
  OBVIOUS
<1>4. /\ TaskShaped(next) /\ ~Unrecorded(next)
      /\ load.phase = "activating" => next.at = "save"
      /\ load.phase # "activating" => next.at = "idle"
  <2>1. CASE load.phase = "activating"
    <3>1. next = [at |-> "save", key |-> load.held, generation |-> 0, time |-> 0,
                  base |-> {}, victim |-> 0, next |-> "idle"]
      BY <1>3, <2>1 DEF Idle
    <3>. QED BY <2>1, <3>1 DEF TaskShaped, Stages, Unrecorded
  <2>2. CASE load.phase # "activating"
    BY <1>3, <2>2, IdleShaped
  <2>. QED BY <2>1, <2>2
<1>5. tasks' = [tasks EXCEPT ![t] = next]
  <2>1. tasks[t] = Idle
    BY DEF Mount
  <2>2. load.phase # "activating" => tasks' = tasks /\ next = tasks[t]
    BY <1>1, <1>3, <2>1 DEF Mount
  <2>3. load.phase = "activating" => tasks' = [tasks EXCEPT ![t] = next]
    BY <1>1, <1>3 DEF Mount
  <2>. QED BY <2>2, <2>3 DEF SetupTyped, Shaped
<1>6. /\ flow' = [phase |-> load.phase, held |-> load.held,
                  returns |-> IF load.phase = "activating" THEN "authorization"
                              ELSE IF load.phase = "failure" THEN "account" ELSE load.phase,
                  working |-> load.phase = "activating",
                  owner |-> IF load.phase = "activating" THEN t ELSE "none"]
      /\ flow.phase = "unmounted"
  BY <1>1 DEF Mount
<1>7. /\ FlowShaped(flow') /\ flow'.phase = load.phase
      /\ load.phase = "activating" => flow'.owner = t /\ flow'.working = TRUE
      /\ load.phase = "failure" => flow'.returns = "account"
  BY <1>2, <1>6 DEF FlowShaped
<1>8. UNCHANGED <<hasty, setupClock, attempts, bindings, keys, secrets, manifest>>
  BY DEF Mount, outside
<1>9. checkpoint' = Protection <=> checkpoint = Protection
  BY DEF Mount, Protection, NoCheckpoint, Authorization
<1>10. ASSUME ~hasty
       PROVE  (\A u \in SetupTasks \ {t} : tasks[u].at = "idle")
                /\ SecretsFit' /\ Follows(t, next)'
  <2>1. \A u \in SetupTasks : tasks[u].at = "idle"
    BY <1>6, <1>10, NoneBusy
  <2>2. SecretsFit'
    BY <1>2, <1>7, <1>8, <1>9, <1>10
       DEF SecretsFit, OneAtATime, OnKey, Pending, Expired
  <2>3. Follows(t, next)'
    BY <1>4, <1>7
       DEF Follows, PhaseOf, StagingFits, ErasureFits, Preparing, Erasing
  <2>. QED BY <2>1, <2>2, <2>3
<1>. QED BY <1>4, <1>5, <1>7, <1>8, <1>10, PlainStep

\* Retry and the back key move the screen only.
LEMMA ScreenKeeps ==
    ASSUME SetupInv, Retry \/ Back
    PROVE  SetupInv'
<1>. USE DEF SetupInv
<1>1. /\ UNCHANGED <<hasty, setupClock, attempts, bindings, secrets, manifest, checkpoint,
                     tasks, keys>>
  BY DEF Retry, Back, outside, stored
<1>2. FlowShaped(flow') /\ (OnKey' => OnKey)
  <2>1. CASE Retry
    <3>1. flow' = [flow EXCEPT !.phase = flow.returns] /\ flow.phase = "failure"
      BY <2>1 DEF Retry
    <3>2. FlowShaped(flow') /\ flow'.phase = flow.returns
      BY <3>1 DEF FlowShaped, SetupTyped
    <3>3. flow.returns \in {"account", "protection", "authorization"}
      BY DEF FlowShaped, SetupTyped
    <3>. QED BY <3>1, <3>2, <3>3 DEF OnKey
  <2>2. CASE Back /\ flow.phase = "protection"
    <3>1. flow' = [flow EXCEPT !.phase = "account", !.returns = "account"]
      BY <2>2 DEF Back
    <3>2. FlowShaped(flow') /\ flow'.phase = "account"
      BY <3>1 DEF FlowShaped, SetupTyped
    <3>. QED BY <3>2 DEF OnKey
  <2>3. CASE Back /\ flow.phase # "protection"
    <3>1. flow' = Unmounted
      BY <2>3 DEF Back
    <3>. QED BY <3>1 DEF OnKey, FlowShaped, Unmounted
  <2>. QED BY <2>1, <2>2, <2>3
<1>3. SetupTyped' /\ BindingsFit' /\ KeysNew'
  BY <1>1, <1>2 DEF SetupTyped, BindingsFit, KeysNew, Unrecorded
<1>4. ASSUME ~hasty PROVE OneAtATime'
  <2>1. \A u \in SetupTasks : tasks[u].at = "idle"
    BY <1>4, NoneBusy DEF Retry, Back, OneAtATime, Owned
  <2>. QED BY <1>1, <1>2, <1>4, <2>1 DEF OneAtATime, SecretsFit, Owned, Pending, Expired
<1>. QED BY <1>1, <1>3, <1>4

\* Starting to generate: the checkpoint says so.
LEMMA StartPrepareKeeps ==
    ASSUME SetupInv, NEW t \in SetupTasks, StartPrepare(t)
    PROVE  SetupInv'
<1>. USE DEF SetupInv
<1>1. PICK next : next = [tasks[t] EXCEPT !.at = "inspect"]
  OBVIOUS
<1>2. TaskShaped(next) /\ next.at = "inspect" /\ ~Unrecorded(next)
  <2>1. TaskShaped(tasks[t])
    BY DEF SetupTyped
  <2>2. "inspect" \in Stages \ {"idle"}
    BY DEF Stages, Preparing
  <2>. QED BY <1>1, <2>1, <2>2, Turned DEF Unrecorded
<1>3. tasks' = [tasks EXCEPT ![t] = next]
  BY <1>1 DEF StartPrepare, Goto
<1>4. flow' = [flow EXCEPT !.phase = "protection", !.returns = "protection",
                           !.working = TRUE, !.owner = t]
  BY DEF StartPrepare
<1>5. /\ FlowShaped(flow') /\ flow'.phase = "protection" /\ flow'.owner = t
      /\ flow'.working = TRUE
  BY <1>4 DEF FlowShaped, SetupTyped
<1>6. UNCHANGED <<hasty, setupClock, attempts, bindings, keys, secrets, manifest>>
  BY DEF StartPrepare, outside
<1>7. checkpoint' = Protection
  BY DEF StartPrepare
<1>8. ASSUME ~hasty
      PROVE  (\A u \in SetupTasks \ {t} : tasks[u].at = "idle")
                /\ SecretsFit' /\ Follows(t, next)'
  <2>1. ASSUME NEW u \in SetupTasks PROVE tasks[u].at = "idle"
    <3>1. tasks[u].at # "idle" => flow.owner = u
      BY <1>8 DEF OneAtATime, Owned
    <3>2. u # "none"
      BY SetupAssumption DEF SetupAssumption
    <3>. QED BY <3>1, <3>2, IdleShaped DEF StartPrepare
  <2>2. SecretsFit'
    BY <1>5, <1>6, <1>7, <1>8 DEF SecretsFit, OneAtATime, OnKey
  <2>3. Follows(t, next)'
    BY <1>2, <1>5, <1>7 DEF Follows, PhaseOf, StagingFits, ErasureFits, Preparing, Erasing
  <2>. QED BY <2>1, <2>2, <2>3
<1>. QED BY <1>2, <1>3, <1>5, <1>6, <1>8, PlainStep

\* What an operation under way may count on.
LEMMA Busy ==
    ASSUME SetupInv, ~hasty, NEW t \in SetupTasks, tasks[t].at # "idle"
    PROVE  /\ \A u \in SetupTasks \ {t} : tasks[u].at = "idle"
           /\ flow.owner = t /\ flow.working = TRUE /\ flow.phase = PhaseOf(tasks[t])
           /\ flow.phase = "protection" => checkpoint = Protection
           /\ StagingFits(tasks[t]) /\ ErasureFits(tasks[t]) /\ SecretsFit
<1>1. Owned(t)
  BY DEF SetupInv, OneAtATime
<1>2. SecretsFit
  BY DEF SetupInv, OneAtATime
<1>. QED BY <1>1, <1>2, Alone DEF Owned

\* A message to the screen is heeded if it comes from the latest operation.
LEMMA Dispatched ==
    ASSUME FlowShaped(flow), NEW t, NEW phase,
           NEW returns \in {"account", "protection", "authorization"},
           Dispatch(t, phase, returns)
    PROVE  /\ FlowShaped(flow')
           /\ flow.owner = t => flow'.phase = phase /\ flow'.returns = returns
<1>1. CASE flow.owner = t
  <2>1. flow' = [flow EXCEPT !.phase = phase, !.returns = returns, !.working = FALSE]
    BY <1>1 DEF Dispatch
  <2>. QED BY <2>1 DEF FlowShaped
<1>2. CASE flow.owner # t
  BY <1>2 DEF Dispatch
<1>. QED BY <1>1, <1>2

\* An operation ends, and tells the screen.
LEMMA EndStep ==
    ASSUME SetupInv, NEW t \in SetupTasks, tasks[t].at # "idle",
           tasks' = [tasks EXCEPT ![t] = Idle],
           UNCHANGED <<hasty, setupClock, attempts, bindings, keys, secrets>>,
           FlowShaped(flow'), ~hasty => SecretsFit'
    PROVE  SetupInv'
<1>1. Follows(t, Idle)'
  BY IdleShaped DEF Follows
<1>2. ~hasty => \A u \in SetupTasks \ {t} : tasks[u].at = "idle"
  BY Busy
<1>. QED BY <1>1, <1>2, IdleShaped, PlainStep

\* An operation goes on, with the screen as it was.
LEMMA GoOnStep ==
    ASSUME SetupInv, NEW t \in SetupTasks, tasks[t].at # "idle", NEW next,
           TaskShaped(next), next.at # "idle",
           tasks' = [tasks EXCEPT ![t] = next],
           UNCHANGED <<hasty, setupClock, attempts, bindings, keys, flow, checkpoint>>,
           secrets' \subseteq secrets,
           Unrecorded(next) => Unrecorded(tasks[t]) /\ next.key = tasks[t].key,
           PhaseOf(next) = PhaseOf(tasks[t]),
           ~hasty => SecretsFit' /\ StagingFits(next)' /\ ErasureFits(next)'
    PROVE  SetupInv'
<1>1. FlowShaped(flow')
  BY DEF SetupInv, SetupTyped
<1>2. ASSUME ~hasty
      PROVE  (\A u \in SetupTasks \ {t} : tasks[u].at = "idle") /\ Follows(t, next)'
  <2>1. /\ \A u \in SetupTasks \ {t} : tasks[u].at = "idle"
        /\ flow.owner = t /\ flow.working = TRUE /\ flow.phase = PhaseOf(tasks[t])
        /\ flow.phase = "protection" => checkpoint = Protection
    BY <1>2, Busy
  <2>. QED BY <1>2, <2>1 DEF Follows
<1>. QED BY <1>1, <1>2, PlainStep

\* The exchange's answer stops an operation, or lets it erase or generate a key.
LEMMA InspectedKeeps ==
    ASSUME SetupInv, NEW t \in SetupTasks, Inspected(t)
    PROVE  SetupInv'
<1>. USE DEF SetupInv
<1>1. /\ tasks[t].at = "inspect" /\ TaskShaped(tasks[t]) /\ setupClock \in Int
      /\ UNCHANGED <<hasty, setupClock, attempts, bindings, keys, secrets, manifest, checkpoint>>
  BY DEF Inspected, outside, stored, SetupTyped
<1>2. ~hasty => SecretsFit /\ flow.owner = t
  BY <1>1, Busy
<1>3. CASE tasks' = [tasks EXCEPT ![t] = Idle] /\ Fail(t, "protection")
  <2>1. FlowShaped(flow') /\ (flow.owner = t => flow'.phase = "failure" /\ flow'.returns = "protection")
    BY <1>3, Dispatched DEF SetupTyped, Fail
  <2>2. ~hasty => SecretsFit'
    BY <1>1, <1>2, <2>1 DEF SecretsFit, OnKey, Pending, Expired
  <2>. QED BY <1>1, <1>3, <2>1, <2>2, EndStep
<1>4. CASE /\ tasks' = [tasks EXCEPT ![t].at = "generate", ![t].time = setupClock,
                                     ![t].generation = NextGeneration]
           /\ UNCHANGED flow
  <2>1. PICK next : next = [tasks[t] EXCEPT !.at = "generate", !.time = setupClock,
                                           !.generation = NextGeneration]
    OBVIOUS
  <2>2. TaskShaped(next) /\ next.at = "generate"
    BY <1>1, <2>1 DEF TaskShaped, Stages, Preparing
  <2>3. tasks' = [tasks EXCEPT ![t] = next]
    BY <1>4, <2>1
  <2>4. ~Unrecorded(next) /\ PhaseOf(next) = PhaseOf(tasks[t])
    BY <1>1, <2>2 DEF Unrecorded, PhaseOf, Preparing
  <2>5. ~hasty => SecretsFit' /\ StagingFits(next)' /\ ErasureFits(next)'
    BY <1>1, <1>2, <1>4, <2>2
       DEF SecretsFit, OnKey, Pending, Expired, StagingFits, ErasureFits, Erasing
  <2>. QED BY <1>1, <1>4, <2>2, <2>3, <2>4, <2>5, GoOnStep
<1>5. CASE /\ Pending # {}
           /\ tasks' = [tasks EXCEPT ![t].at = "erase", ![t].time = setupClock,
                          ![t].victim = CHOOSE k \in Pending : TRUE, ![t].next = "generate"]
           /\ UNCHANGED flow
  <2>0. PICK victim : victim = CHOOSE k \in Pending : TRUE
    OBVIOUS
  <2>1. PICK next : next = [tasks[t] EXCEPT !.at = "erase", !.time = setupClock,
                                           !.victim = victim, !.next = "generate"]
    OBVIOUS
  <2>2. /\ TaskShaped(next) /\ next.at = "erase" /\ next.victim = victim
        /\ next.next = "generate"
    BY <1>1, <2>1 DEF TaskShaped, Stages, Erasing
  <2>3. tasks' = [tasks EXCEPT ![t] = next]
    BY <1>5, <2>0, <2>1
  <2>4. ~Unrecorded(next) /\ PhaseOf(next) = PhaseOf(tasks[t])
    BY <1>1, <2>2 DEF Unrecorded, PhaseOf, Preparing, Erasing
  <2>5. victim \in Keys /\ attempts[victim].status = "pending"
    BY <1>5, <2>0 DEF Pending
  <2>6. ~hasty => SecretsFit' /\ StagingFits(next)' /\ ErasureFits(next)'
    BY <1>1, <1>2, <1>5, <2>2, <2>5
       DEF SecretsFit, OnKey, Pending, Expired, StagingFits, ErasureFits
  <2>. QED BY <1>1, <1>5, <2>2, <2>3, <2>4, <2>6, GoOnStep
<1>. QED BY <1>3, <1>4, <1>5 DEF Inspected

\* A generated key is new.
LEMMA GeneratedKeeps ==
    ASSUME SetupInv, NEW t \in SetupTasks, Generated(t)
    PROVE  SetupInv'
<1>. USE DEF SetupInv
<1>1. /\ tasks[t].at = "generate" /\ TaskShaped(tasks[t])
      /\ UNCHANGED <<hasty, setupClock, attempts, bindings, secrets, manifest, checkpoint, flow>>
  BY DEF Generated, outside, stored, SetupTyped
<1>2. /\ keys' = keys + 1 /\ keys \in Int /\ 0 <= keys /\ keys < MaxKeys /\ MaxKeys \in Int
  BY SetupAssumption DEF Generated, SetupTyped, SetupAssumption
<1>3. PICK key : key = keys + 1
  OBVIOUS
<1>4. PICK next : next = [tasks[t] EXCEPT !.at = "list", !.key = key, !.base = manifest]
  OBVIOUS
<1>5. TaskShaped(next) /\ next.at = "list" /\ next.key = key /\ next.base = manifest
  BY <1>1, <1>4 DEF TaskShaped, Stages, Preparing
<1>6. tasks' = [tasks EXCEPT ![t] = next]
  BY <1>3, <1>4 DEF Generated
<1>7. tasks'[t] = next /\ \A u \in SetupTasks \ {t} : tasks'[u] = tasks[u]
  BY <1>6 DEF SetupTyped, Shaped
<1>8. /\ key \in Keys /\ key > keys /\ key \in 1 .. keys'
      /\ \A k \in 1 .. keys : k \in 1 .. keys' /\ k # key
      /\ \A k \in Keys : k > keys' => k > keys
  BY <1>2, <1>3 DEF Keys
<1>9. SetupTyped'
  <2>1. Shaped(tasks', SetupTasks) /\ \A u \in SetupTasks : TaskShaped(tasks'[u])
    BY <1>5, <1>6 DEF SetupTyped, Shaped
  <2>2. keys' \in 0 .. MaxKeys
    BY <1>2
  <2>. QED BY <1>1, <2>1, <2>2 DEF SetupTyped
<1>10. BindingsFit'
  BY <1>1 DEF BindingsFit
<1>11. KeysNew'
  <2>1. \A k \in Keys : k > keys' => attempts'[k].status = "none" /\ k \notin secrets'
    BY <1>1, <1>8 DEF KeysNew
  <2>2. ASSUME NEW u \in SetupTasks \ {t}, Unrecorded(tasks[u])
        PROVE  /\ tasks[u].key \in 1 .. keys' /\ tasks[u].key # key
               /\ attempts'[tasks[u].key].status = "none"
    BY <1>1, <1>8, <2>2 DEF KeysNew
  <2>3. attempts'[key].status = "none"
    BY <1>1, <1>8 DEF KeysNew
  <2>4. ASSUME NEW u \in SetupTasks, Unrecorded(tasks'[u])
        PROVE  /\ tasks'[u].key \in 1 .. keys' /\ attempts'[tasks'[u].key].status = "none"
               /\ \A v \in SetupTasks \ {u} : Unrecorded(tasks'[v]) => tasks'[v].key # tasks'[u].key
    <3>1. CASE u = t
      BY <1>5, <1>7, <1>8, <2>2, <2>3, <3>1
    <3>2. CASE u # t
      BY <1>5, <1>7, <2>2, <2>4, <3>2 DEF KeysNew
    <3>. QED BY <3>1, <3>2
  <2>. QED BY <2>1, <2>4 DEF KeysNew, Unrecorded
<1>12. ASSUME ~hasty PROVE OneAtATime'
  <2>1. /\ \A u \in SetupTasks \ {t} : tasks[u].at = "idle"
        /\ flow.owner = t /\ flow.working = TRUE /\ flow.phase = PhaseOf(tasks[t])
        /\ flow.phase = "protection" => checkpoint = Protection
        /\ SecretsFit
    BY <1>1, <1>12, Busy
  <2>2. SecretsFit'
    BY <1>1, <2>1 DEF SecretsFit, OnKey, Pending, Expired
  <2>3. key \notin secrets
    BY <1>8 DEF KeysNew
  <2>4. StagingFits(next)' /\ ErasureFits(next)'
    BY <1>1, <1>5, <2>3 DEF StagingFits, ErasureFits, Erasing
  <2>5. PhaseOf(next) = PhaseOf(tasks[t])
    BY <1>1, <1>5 DEF PhaseOf, Preparing
  <2>6. Follows(t, next)'
    BY <1>1, <2>1, <2>4, <2>5 DEF Follows
  <2>. QED BY <1>6, <2>1, <2>2, <2>6, OwnedNext DEF OneAtATime
<1>. QED BY <1>1, <1>9, <1>10, <1>11, <1>12

\* The manifest lists a key before the secret store has it.
LEMMA StageManifestKeeps ==
    ASSUME SetupInv, NEW t \in SetupTasks, StageManifest(t)
    PROVE  SetupInv'
<1>. USE DEF SetupInv
<1>1. /\ tasks[t].at = "list" /\ TaskShaped(tasks[t])
      /\ UNCHANGED <<hasty, setupClock, attempts, bindings, keys, secrets, checkpoint, flow>>
      /\ manifest' = Listed(tasks[t].base, tasks[t].key)
  BY DEF StageManifest, outside, SetupTyped
<1>2. PICK next : next = [tasks[t] EXCEPT !.at = "store"]
  OBVIOUS
<1>3. "store" \in Stages \ {"idle"}
  BY DEF Stages, Preparing
<1>4. /\ TaskShaped(next) /\ next.at = "store" /\ next.key = tasks[t].key
      /\ next.base = tasks[t].base
  BY <1>1, <1>2, <1>3, Turned
<1>5. tasks' = [tasks EXCEPT ![t] = next]
  BY <1>2 DEF StageManifest, Goto
<1>6. PhaseOf(next) = PhaseOf(tasks[t]) /\ Unrecorded(tasks[t])
  BY <1>1, <1>4 DEF Unrecorded, PhaseOf, Preparing
<1>7. ASSUME ~hasty PROVE SecretsFit' /\ StagingFits(next)' /\ ErasureFits(next)'
  <2>1. StagingFits(tasks[t]) /\ SecretsFit
    BY <1>1, <1>7, Busy
  <2>2. tasks[t].key \notin secrets /\ manifest = tasks[t].base
    BY <1>1, <2>1 DEF StagingFits
  <2>3. SecretsFit'
    BY <1>1, <2>1, <2>2 DEF SecretsFit, OnKey, Pending, Expired, Listed
  <2>. QED BY <1>1, <1>4, <2>2, <2>3 DEF StagingFits, ErasureFits, Erasing
<1>. QED BY <1>1, <1>4, <1>5, <1>6, <1>7, GoOnStep

\* The secret store gets a key the manifest lists.
LEMMA StageSecretKeeps ==
    ASSUME SetupInv, NEW t \in SetupTasks, StageSecret(t)
    PROVE  SetupInv'
<1>. USE DEF SetupInv
<1>1. /\ tasks[t].at = "store" /\ TaskShaped(tasks[t]) /\ Unrecorded(tasks[t])
      /\ UNCHANGED <<hasty, setupClock, attempts, bindings, keys, manifest, checkpoint, flow>>
      /\ secrets' = secrets \cup {tasks[t].key}
  BY DEF StageSecret, outside, SetupTyped, Unrecorded
<1>2. PICK next : next = [tasks[t] EXCEPT !.at = "insert"]
  OBVIOUS
<1>3. "insert" \in Stages \ {"idle"}
  BY DEF Stages, Preparing
<1>4. /\ TaskShaped(next) /\ next.at = "insert" /\ next.key = tasks[t].key
  BY <1>1, <1>2, <1>3, Turned
<1>5. tasks' = [tasks EXCEPT ![t] = next]
  BY <1>2 DEF StageSecret, Goto
<1>6. SetupTyped'
  <2>1. Shaped(tasks', SetupTasks) /\ \A u \in SetupTasks : TaskShaped(tasks'[u])
    BY <1>4, <1>5 DEF SetupTyped, Shaped
  <2>. QED BY <1>1, <2>1 DEF SetupTyped
<1>7. BindingsFit'
  BY <1>1 DEF BindingsFit
<1>8. KeysNew'
  <2>1. tasks[t].key \in 1 .. keys
    BY <1>1 DEF KeysNew
  <2>. QED BY <1>1, <1>4, <1>5, <2>1, KeysNewNext
<1>9. ASSUME ~hasty PROVE OneAtATime'
  <2>1. /\ \A u \in SetupTasks \ {t} : tasks[u].at = "idle"
        /\ flow.owner = t /\ flow.working = TRUE /\ flow.phase = PhaseOf(tasks[t])
        /\ flow.phase = "protection" => checkpoint = Protection
        /\ StagingFits(tasks[t]) /\ SecretsFit
    BY <1>1, <1>9, Busy
  <2>2. manifest = Listed(tasks[t].base, tasks[t].key)
    BY <1>1, <2>1 DEF StagingFits
  <2>3. SecretsFit'
    BY <1>1, <2>1, <2>2 DEF SecretsFit, OnKey, Pending, Expired, Listed
  <2>4. StagingFits(next)' /\ ErasureFits(next)'
    BY <1>1, <1>4 DEF StagingFits, ErasureFits, Erasing
  <2>5. PhaseOf(next) = PhaseOf(tasks[t])
    BY <1>1, <1>4 DEF PhaseOf, Preparing
  <2>6. Follows(t, next)'
    BY <1>1, <2>1, <2>4, <2>5 DEF Follows
  <2>. QED BY <1>5, <2>1, <2>3, <2>6, OwnedNext DEF OneAtATime
<1>. QED BY <1>1, <1>6, <1>7, <1>8, <1>9

\* A refused secret: the manifest goes back to what it listed before.
LEMMA StageRefusedKeeps ==
    ASSUME SetupInv, NEW t \in SetupTasks, StageRefused(t)
    PROVE  SetupInv'
<1>. USE DEF SetupInv
<1>1. /\ tasks[t].at = "store" /\ tasks' = [tasks EXCEPT ![t] = Idle]
      /\ UNCHANGED <<hasty, setupClock, attempts, bindings, keys, secrets, checkpoint>>
      /\ manifest' = tasks[t].base /\ Fail(t, "protection")
  BY DEF StageRefused, outside
<1>2. FlowShaped(flow') /\ (flow.owner = t => flow'.phase = "failure" /\ flow'.returns = "protection")
  BY <1>1, Dispatched DEF SetupTyped, Fail
<1>3. ASSUME ~hasty PROVE SecretsFit'
  <2>1. StagingFits(tasks[t]) /\ SecretsFit /\ flow.owner = t
    BY <1>1, <1>3, Busy
  <2>2. tasks[t].key \notin secrets /\ manifest = Listed(tasks[t].base, tasks[t].key)
    BY <1>1, <2>1 DEF StagingFits
  <2>. QED BY <1>1, <1>2, <2>1, <2>2 DEF SecretsFit, OnKey, Pending, Expired, Listed
<1>. QED BY <1>1, <1>2, <1>3, EndStep

\* An attempt is recorded when no other is pending; else its key is erased.
LEMMA CreateAttemptKeeps ==
    ASSUME SetupInv, NEW t \in SetupTasks, CreateAttempt(t)
    PROVE  SetupInv'
<1>. USE DEF SetupInv
<1>1. /\ tasks[t].at = "insert" /\ TaskShaped(tasks[t]) /\ Unrecorded(tasks[t])
      /\ UNCHANGED <<hasty, setupClock, bindings, keys, secrets, manifest, checkpoint, flow>>
  BY DEF CreateAttempt, outside, SetupTyped, Unrecorded
<1>2. /\ tasks[t].key \in Keys /\ attempts[tasks[t].key].status = "none"
  <2>1. keys <= MaxKeys /\ keys \in Int /\ MaxKeys \in Int
    BY SetupAssumption DEF SetupAssumption, SetupTyped
  <2>2. tasks[t].key \in 1 .. keys /\ attempts[tasks[t].key].status = "none"
    BY <1>1 DEF KeysNew
  <2>. QED BY <2>1, <2>2 DEF Keys
<1>3. CASE ~Insertable(t)
  <2>1. PICK next : next = [tasks[t] EXCEPT !.at = "erase", !.victim = tasks[t].key,
                                           !.next = "failed"]
    OBVIOUS
  <2>2. /\ TaskShaped(next) /\ next.at = "erase" /\ next.victim = tasks[t].key
        /\ next.next = "failed"
    BY <1>1, <2>1 DEF TaskShaped, Stages, Erasing
  <2>3. tasks' = [tasks EXCEPT ![t] = next] /\ UNCHANGED attempts
    BY <1>3, <2>1 DEF CreateAttempt
  <2>4. ~Unrecorded(next) /\ PhaseOf(next) = PhaseOf(tasks[t])
    BY <1>1, <2>2 DEF Unrecorded, PhaseOf, Preparing, Erasing
  <2>5. ~hasty => SecretsFit
    BY <1>1, Busy
  <2>6. ~hasty => SecretsFit' /\ StagingFits(next)' /\ ErasureFits(next)'
    BY <1>1, <1>2, <2>2, <2>3, <2>5
       DEF SecretsFit, OnKey, Pending, Expired, StagingFits, ErasureFits
  <2>. QED BY <1>1, <2>2, <2>3, <2>4, <2>6, GoOnStep
<1>4. CASE Insertable(t)
  <2>1. PICK next : next = [tasks[t] EXCEPT !.at = "checkpoint"]
    OBVIOUS
  <2>2. "checkpoint" \in Stages \ {"idle"}
    BY DEF Stages, Preparing
  <2>3. TaskShaped(next) /\ next.at = "checkpoint" /\ next.key = tasks[t].key
    BY <1>1, <2>1, <2>2, Turned
  <2>4. tasks' = [tasks EXCEPT ![t] = next]
    BY <1>4, <2>1 DEF CreateAttempt, Goto
  <2>5. ~Unrecorded(next) /\ PhaseOf(next) = PhaseOf(tasks[t])
    BY <1>1, <2>3 DEF Unrecorded, PhaseOf, Preparing
  <2>6. PICK row : row = [status |-> "pending", generation |-> tasks[t].generation,
                          expiresAt |-> tasks[t].time + AttemptDuration]
    OBVIOUS
  <2>7. RowShaped(row) /\ row.status = "pending"
    <3>1. tasks[t].time + AttemptDuration \in Int
      BY <1>1, SetupAssumption DEF SetupAssumption, TaskShaped
    <3>. QED BY <2>6, <3>1 DEF RowShaped
  <2>8. attempts' = [attempts EXCEPT ![tasks[t].key] = row]
    BY <1>4, <2>6 DEF CreateAttempt
  <2>9. /\ Shaped(attempts', Keys)
        /\ \A k \in Keys : attempts'[k] = IF k = tasks[t].key THEN row ELSE attempts[k]
    BY <2>8 DEF SetupTyped, Shaped
  <2>10. SetupTyped'
    <3>1. Shaped(tasks', SetupTasks) /\ \A u \in SetupTasks : TaskShaped(tasks'[u])
      BY <2>3, <2>4 DEF SetupTyped, Shaped
    <3>2. \A k \in Keys : RowShaped(attempts'[k])
      BY <2>7, <2>9 DEF SetupTyped
    <3>. QED BY <1>1, <2>9, <3>1, <3>2 DEF SetupTyped
  <2>11. BindingsFit'
    BY <1>1, <1>2, <2>9 DEF BindingsFit
  <2>12. KeysNew'
    BY <1>1, <2>4, <2>5, <2>9, KeysNewNext
  <2>13. ASSUME ~hasty PROVE OneAtATime'
    <3>1. /\ \A u \in SetupTasks \ {t} : tasks[u].at = "idle"
          /\ flow.owner = t /\ flow.working = TRUE /\ flow.phase = PhaseOf(tasks[t])
          /\ flow.phase = "protection" => checkpoint = Protection
          /\ StagingFits(tasks[t]) /\ SecretsFit
      BY <1>1, <2>13, Busy
    <3>2. checkpoint = Protection /\ tasks[t].key \in secrets
      BY <1>1, <3>1 DEF PhaseOf, Preparing, StagingFits
    <3>3. Pending' = {tasks[t].key}
      BY <1>2, <1>4, <2>7, <2>9 DEF Insertable, Pending
    <3>4. SecretsFit'
      BY <1>1, <3>1, <3>2 DEF SecretsFit, OnKey
    <3>5. StagingFits(next)' /\ ErasureFits(next)'
      BY <1>1, <2>3, <3>2, <3>3 DEF StagingFits, ErasureFits, Erasing
    <3>6. Follows(t, next)'
      BY <1>1, <2>5, <3>1, <3>5 DEF Follows
    <3>. QED BY <2>4, <3>1, <3>4, <3>6, OwnedNext DEF OneAtATime
  <2>. QED BY <1>1, <2>10, <2>11, <2>12, <2>13
<1>. QED BY <1>3, <1>4

\* The checkpoint is moved to a key that has its secret.
LEMMA SaveAuthorizationKeeps ==
    ASSUME SetupInv, NEW t \in SetupTasks, SaveAuthorization(t)
    PROVE  SetupInv'
<1>. USE DEF SetupInv
<1>1. /\ tasks[t].at = "checkpoint" /\ tasks' = [tasks EXCEPT ![t] = Idle]
      /\ UNCHANGED <<hasty, setupClock, attempts, bindings, keys, secrets, manifest>>
      /\ checkpoint' = Authorization(tasks[t].key)
  BY DEF SaveAuthorization, outside
<1>2. FlowShaped(flow')
  <2>1. CASE flow.owner = t
    <3>1. flow' = [flow EXCEPT !.phase = "authorization", !.returns = "authorization",
                               !.working = FALSE, !.held = tasks[t].key]
      BY <2>1 DEF SaveAuthorization
    <3>. QED BY <3>1 DEF SetupTyped, FlowShaped
  <2>2. CASE flow.owner # t
    BY <2>2 DEF SaveAuthorization, SetupTyped
  <2>. QED BY <2>1, <2>2
<1>3. ASSUME ~hasty PROVE SecretsFit'
  <2>1. StagingFits(tasks[t]) /\ SecretsFit
    BY <1>1, <1>3, Busy
  <2>2. Pending = {tasks[t].key} /\ tasks[t].key \in secrets
    BY <1>1, <2>1 DEF StagingFits
  <2>3. checkpoint' # Protection
    BY <1>1 DEF Authorization, Protection
  <2>. QED BY <1>1, <2>1, <2>2, <2>3 DEF SecretsFit, Pending
<1>. QED BY <1>1, <1>2, <1>3, EndStep

\* A checkpoint that is refused undoes the attempt.
LEMMA SaveRefusedKeeps ==
    ASSUME SetupInv, NEW t \in SetupTasks, SaveRefused(t)
    PROVE  SetupInv'
<1>. USE DEF SetupInv
<1>1. /\ tasks[t].at = "checkpoint" /\ TaskShaped(tasks[t])
      /\ UNCHANGED <<hasty, setupClock, attempts, bindings, keys, secrets, manifest, checkpoint,
                     flow>>
  BY DEF SaveRefused, outside, stored, SetupTyped
<1>2. PICK next : next = [tasks[t] EXCEPT !.at = "erase", !.victim = tasks[t].key,
                                         !.next = "failed"]
  OBVIOUS
<1>3. /\ TaskShaped(next) /\ next.at = "erase" /\ next.victim = tasks[t].key
      /\ next.next = "failed"
  BY <1>1, <1>2 DEF TaskShaped, Stages, Erasing
<1>4. tasks' = [tasks EXCEPT ![t] = next]
  BY <1>2 DEF SaveRefused
<1>5. ~Unrecorded(next) /\ PhaseOf(next) = PhaseOf(tasks[t])
  BY <1>1, <1>3 DEF Unrecorded, PhaseOf, Preparing, Erasing
<1>6. ASSUME ~hasty PROVE SecretsFit' /\ StagingFits(next)' /\ ErasureFits(next)'
  <2>1. StagingFits(tasks[t]) /\ SecretsFit
    BY <1>1, <1>6, Busy
  <2>2. tasks[t].key \in Pending
    BY <1>1, <2>1 DEF StagingFits
  <2>. QED BY <1>1, <1>3, <2>1, <2>2
           DEF SecretsFit, OnKey, Pending, Expired, StagingFits, ErasureFits
<1>. QED BY <1>1, <1>3, <1>4, <1>5, <1>6, GoOnStep

\* The secret goes first: it is not an active binding's.
LEMMA EraseKeeps ==
    ASSUME SetupInv, NEW t \in SetupTasks, Erase(t)
    PROVE  SetupInv'
<1>. USE DEF SetupInv
<1>1. /\ tasks[t].at = "erase" /\ TaskShaped(tasks[t])
      /\ UNCHANGED <<hasty, setupClock, attempts, bindings, keys, manifest, checkpoint, flow>>
      /\ secrets' = secrets \ {tasks[t].victim}
  BY DEF Erase, outside, SetupTyped
<1>2. PICK next : next = [tasks[t] EXCEPT !.at = "unlist"]
  OBVIOUS
<1>3. "unlist" \in Stages \ {"idle"}
  BY DEF Stages, Erasing
<1>4. /\ TaskShaped(next) /\ next.at = "unlist" /\ next.victim = tasks[t].victim
      /\ next.next = tasks[t].next
  BY <1>1, <1>2, <1>3, Turned
<1>5. tasks' = [tasks EXCEPT ![t] = next]
  BY <1>2 DEF Erase, Goto
<1>6. PhaseOf(next) = PhaseOf(tasks[t]) /\ ~Unrecorded(next)
  BY <1>1, <1>4 DEF Unrecorded, PhaseOf, Preparing, Erasing
<1>7. ASSUME ~hasty PROVE SecretsFit' /\ StagingFits(next)' /\ ErasureFits(next)'
  <2>1. /\ ErasureFits(tasks[t]) /\ SecretsFit
        /\ flow.phase = PhaseOf(tasks[t])
        /\ flow.phase = "protection" => checkpoint = Protection
    BY <1>1, <1>7, Busy
  <2>2. /\ tasks[t].next \in {"generate", "failed", "forget"}
        /\ tasks[t].victim \in Keys /\ attempts[tasks[t].victim].status # "consumed"
        /\ tasks[t].next = "forget" => Expired(tasks[t].victim, setupClock)
    BY <1>1, <2>1 DEF ErasureFits, Erasing
  <2>3. checkpoint # Protection => Expired(tasks[t].victim, setupClock)
    BY <1>1, <2>1, <2>2 DEF PhaseOf, Erasing
  <2>4. bindings[tasks[t].victim] # "active"
    BY <2>2 DEF BindingsFit
  <2>5. SecretsFit'
    BY <1>1, <2>1, <2>3, <2>4 DEF SecretsFit, OnKey, Pending, Expired
  <2>. QED BY <1>1, <1>4, <2>2, <2>5 DEF StagingFits, ErasureFits, Expired
<1>. QED BY <1>1, <1>4, <1>5, <1>6, <1>7, GoOnStep

\* The manifest is read.
LEMMA ReadManifestKeeps ==
    ASSUME SetupInv, NEW t \in SetupTasks, ReadManifest(t)
    PROVE  SetupInv'
<1>. USE DEF SetupInv
<1>1. /\ tasks[t].at = "unlist" /\ TaskShaped(tasks[t])
      /\ UNCHANGED <<hasty, setupClock, attempts, bindings, keys, secrets, manifest, checkpoint,
                     flow>>
  BY DEF ReadManifest, outside, stored, SetupTyped
<1>2. PICK next : next = [tasks[t] EXCEPT !.at = "unlisting", !.base = manifest]
  OBVIOUS
<1>3. /\ TaskShaped(next) /\ next.at = "unlisting" /\ next.victim = tasks[t].victim
      /\ next.next = tasks[t].next /\ next.base = manifest
  BY <1>1, <1>2 DEF TaskShaped, Stages, Erasing
<1>4. tasks' = [tasks EXCEPT ![t] = next]
  BY <1>2 DEF ReadManifest
<1>5. ~Unrecorded(next) /\ PhaseOf(next) = PhaseOf(tasks[t])
  BY <1>1, <1>3 DEF Unrecorded, PhaseOf, Preparing, Erasing
<1>6. ASSUME ~hasty PROVE SecretsFit' /\ StagingFits(next)' /\ ErasureFits(next)'
  <2>1. ErasureFits(tasks[t]) /\ SecretsFit
    BY <1>1, <1>6, Busy
  <2>2. SecretsFit'
    BY <1>1, <2>1 DEF SecretsFit, OnKey, Pending, Expired
  <2>. QED BY <1>1, <1>3, <2>1, <2>2 DEF StagingFits, ErasureFits, Expired, Erasing
<1>. QED BY <1>1, <1>3, <1>4, <1>5, <1>6, GoOnStep

\* A pending row is cancelled, any other stays.
LEMMA Cancelled ==
    ASSUME SetupTyped, NEW key,
           attempts' = IF key \in Pending
                       THEN [attempts EXCEPT ![key].status = "cancelled"] ELSE attempts
    PROVE  /\ Shaped(attempts', Keys) /\ \A k \in Keys : RowShaped(attempts'[k])
           /\ \A k \in Keys : attempts'[k] # attempts[k] =>
                 attempts[k].status = "pending" /\ attempts'[k].status = "cancelled"
<1>1. CASE key \in Pending
  <2>1. key \in Keys /\ attempts[key].status = "pending"
    BY <1>1 DEF Pending
  <2>2. PICK row : row = [attempts[key] EXCEPT !.status = "cancelled"]
    OBVIOUS
  <2>3. RowShaped(row) /\ row.status = "cancelled"
    <3>1. RowShaped(attempts[key])
      BY <2>1 DEF SetupTyped
    <3>. QED BY <2>2, <3>1 DEF RowShaped
  <2>4. attempts' = [attempts EXCEPT ![key] = row]
    BY <1>1, <2>2
  <2>5. \A k \in Keys : attempts'[k] = IF k = key THEN row ELSE attempts[k]
    BY <2>4 DEF SetupTyped, Shaped
  <2>6. Shaped(attempts', Keys)
    BY <2>4 DEF SetupTyped, Shaped
  <2>7. \A k \in Keys : RowShaped(attempts'[k])
    BY <2>3, <2>5 DEF SetupTyped
  <2>. QED BY <2>1, <2>3, <2>5, <2>6, <2>7
<1>2. CASE key \notin Pending
  BY <1>2 DEF SetupTyped
<1>. QED BY <1>1, <1>2

\* The manifest loses a key whose secret is gone, then the attempt is cancelled.
LEMMA CancelAttemptKeeps ==
    ASSUME SetupInv, NEW t \in SetupTasks, CancelAttempt(t)
    PROVE  SetupInv'
<1>. USE DEF SetupInv
<1>0. PICK key : key = tasks[t].victim
  OBVIOUS
<1>1. /\ tasks[t].at = "unlisting" /\ TaskShaped(tasks[t])
      /\ UNCHANGED <<hasty, setupClock, bindings, keys, secrets, checkpoint>>
      /\ manifest' = Unlisted(tasks[t].base, key)
      /\ attempts' = IF key \in Pending
                     THEN [attempts EXCEPT ![key].status = "cancelled"] ELSE attempts
  BY <1>0 DEF CancelAttempt, outside, SetupTyped
<1>2. /\ Shaped(attempts', Keys) /\ \A k \in Keys : RowShaped(attempts'[k])
      /\ \A k \in Keys : attempts'[k] # attempts[k] =>
            attempts[k].status = "pending" /\ attempts'[k].status = "cancelled"
  BY <1>1, Cancelled
<1>3. BindingsFit'
  BY <1>1, <1>2 DEF BindingsFit
<1>4. /\ ~hasty => /\ \A u \in SetupTasks \ {t} : tasks[u].at = "idle"
                   /\ flow.owner = t /\ flow.working = TRUE /\ flow.phase = PhaseOf(tasks[t])
                   /\ flow.phase = "protection" => checkpoint = Protection
                   /\ SecretsFit /\ ErasureFits(tasks[t])
  BY <1>1, Busy
<1>5. ~hasty /\ (OnKey' => OnKey) => SecretsFit'
  <2>1. ~hasty => key \notin secrets /\ manifest = tasks[t].base
    BY <1>0, <1>1, <1>4 DEF ErasureFits
  <2>2. Pending' \subseteq Pending
    BY <1>2 DEF Pending
  <2>3. \A k \in Pending' : Expired(k, setupClock)' <=> Expired(k, setupClock)
    BY <1>1, <1>2 DEF Pending, Expired
  <2>. QED BY <1>1, <1>4, <2>1, <2>2, <2>3 DEF SecretsFit, Unlisted
<1>6. ASSUME NEW next, TaskShaped(next), ~Unrecorded(next), tasks' = [tasks EXCEPT ![t] = next],
             FlowShaped(flow'), ~hasty => (OnKey' => OnKey) /\ Follows(t, next)'
      PROVE  SetupInv'
  <2>1. Shaped(tasks', SetupTasks) /\ \A u \in SetupTasks : TaskShaped(tasks'[u])
    BY <1>6 DEF SetupTyped, Shaped
  <2>2. SetupTyped'
    BY <1>1, <1>2, <1>6, <2>1 DEF SetupTyped
  <2>3. KeysNew'
    <3>1. \A k \in Keys : attempts[k].status = "none" => attempts'[k].status = "none"
      BY <1>2
    <3>. QED BY <1>1, <1>6, <3>1, KeysNewNext
  <2>4. ~hasty => OneAtATime'
    BY <1>4, <1>5, <1>6, OwnedNext DEF OneAtATime
  <2>. QED BY <1>1, <1>3, <2>2, <2>3, <2>4
<1>7. CASE /\ tasks[t].next = "generate" /\ UNCHANGED flow
           /\ tasks' = [tasks EXCEPT ![t].at = "generate", ![t].victim = 0,
                                     ![t].generation = NextGeneration]
  <2>1. PICK next : next = [tasks[t] EXCEPT !.at = "generate", !.victim = 0,
                                           !.generation = NextGeneration]
    OBVIOUS
  <2>2. TaskShaped(next) /\ next.at = "generate"
    BY <1>1, <2>1 DEF TaskShaped, Stages, Preparing
  <2>3. tasks' = [tasks EXCEPT ![t] = next]
    BY <1>7, <2>1
  <2>4. ~Unrecorded(next) /\ PhaseOf(next) = PhaseOf(tasks[t])
    BY <1>1, <1>7, <2>2 DEF Unrecorded, PhaseOf, Preparing, Erasing
  <2>5. (StagingFits(next) /\ ErasureFits(next))'
    BY <2>2 DEF StagingFits, ErasureFits, Erasing
  <2>6. ~hasty => (OnKey' => OnKey) /\ Follows(t, next)'
    BY <1>1, <1>4, <1>7, <2>4, <2>5 DEF Follows, OnKey
  <2>7. FlowShaped(flow')
    BY <1>7 DEF SetupTyped
  <2>. QED BY <1>6, <2>2, <2>3, <2>4, <2>6, <2>7
<1>8. CASE tasks' = [tasks EXCEPT ![t] = Idle] /\ Fail(t, "protection")
  <2>1. FlowShaped(flow') /\ (flow.owner = t => flow'.phase = "failure" /\ flow'.returns = "protection")
    BY <1>8, Dispatched DEF SetupTyped, Fail
  <2>2. ~hasty => (OnKey' => OnKey) /\ Follows(t, Idle)'
    BY <1>4, <2>1, IdleShaped DEF OnKey, Follows
  <2>. QED BY <1>6, <1>8, <2>1, <2>2, IdleShaped
<1>9. CASE /\ tasks[t].next \notin {"generate", "failed"}
           /\ Goto(t, "forget") /\ UNCHANGED flow
  <2>1. PICK next : next = [tasks[t] EXCEPT !.at = "forget"]
    OBVIOUS
  <2>2. "forget" \in Stages \ {"idle"}
    BY DEF Stages
  <2>3. TaskShaped(next) /\ next.at = "forget" /\ next.next = tasks[t].next
    BY <1>1, <2>1, <2>2, Turned
  <2>4. tasks' = [tasks EXCEPT ![t] = next]
    BY <1>9, <2>1 DEF Goto
  <2>5. ~Unrecorded(next) /\ (tasks[t].next = "forget" => PhaseOf(next) = PhaseOf(tasks[t]))
    BY <1>1, <2>3 DEF Unrecorded, PhaseOf, Preparing, Erasing
  <2>6. (StagingFits(next) /\ ErasureFits(next))'
    BY <2>3 DEF StagingFits, ErasureFits, Erasing
  <2>7. ~hasty => tasks[t].next = "forget"
    BY <1>1, <1>4, <1>9 DEF ErasureFits, Erasing
  <2>8. ~hasty => (OnKey' => OnKey) /\ Follows(t, next)'
    BY <1>1, <1>4, <1>9, <2>5, <2>6, <2>7 DEF Follows, OnKey
  <2>9. FlowShaped(flow')
    BY <1>9 DEF SetupTyped
  <2>. QED BY <1>6, <2>3, <2>4, <2>5, <2>8, <2>9
<1>. QED BY <1>7, <1>8, <1>9 DEF CancelAttempt

\* A registration is verified for a key that has its secret and has not expired.
LEMMA StartVerifyKeeps ==
    ASSUME SetupInv, NEW t \in SetupTasks, StartVerify(t)
    PROVE  SetupInv'
<1>. USE DEF SetupInv
<1>1. PICK key : key = flow.held
  OBVIOUS
<1>2. PICK at : at = CASE key \notin Pending /\ Activated(key) -> "save"
                       [] key \notin Pending /\ ~Activated(key) -> "idle"
                       [] key \in Pending /\ Expired(key, setupClock) -> "erase"
                       [] OTHER -> "confirm"
  OBVIOUS
<1>3. /\ at \in {"save", "idle", "erase", "confirm"}
      /\ at = "erase" => key \in Pending /\ Expired(key, setupClock)
      /\ at = "confirm" => key \in Pending /\ ~Expired(key, setupClock)
  BY <1>2
<1>4. PICK next : next = IF at = "idle" THEN Idle
                         ELSE [Idle EXCEPT !.at = at, !.key = key, !.victim = key,
                                           !.next = "forget", !.time = setupClock]
  OBVIOUS
<1>5. /\ tasks' = [tasks EXCEPT ![t] = next]
      /\ flow' = IF at = "idle" THEN [flow EXCEPT !.phase = "failure", !.owner = t]
                 ELSE [flow EXCEPT !.phase = IF at = "save" THEN "activating" ELSE "verifying",
                                   !.working = TRUE, !.owner = t]
      /\ flow.phase = "authorization"
      /\ UNCHANGED <<hasty, setupClock, attempts, bindings, keys, secrets, manifest, checkpoint>>
  BY <1>1, <1>2, <1>4 DEF StartVerify, outside, stored
<1>6. /\ TaskShaped(next) /\ next.at = at
      /\ at # "idle" => next.key = key /\ next.victim = key /\ next.next = "forget"
  <2>1. CASE at = "idle"
    BY <1>4, <2>1, IdleShaped
  <2>2. CASE at # "idle"
    <3>1. next = [at |-> at, key |-> key, generation |-> 0, time |-> setupClock,
                  base |-> {}, victim |-> key, next |-> "forget"]
      BY <1>4, <2>2 DEF Idle
    <3>2. setupClock \in Int /\ at \in Stages
      BY <1>3 DEF SetupTyped, Stages, Erasing
    <3>. QED BY <2>2, <3>1, <3>2 DEF TaskShaped
  <2>. QED BY <2>1, <2>2
<1>7. ~Unrecorded(next)
  BY <1>3, <1>6 DEF Unrecorded
<1>8. /\ FlowShaped(flow')
      /\ at = "idle" => flow'.phase = "failure"
      /\ at # "idle" => /\ flow'.phase = IF at = "save" THEN "activating" ELSE "verifying"
                        /\ flow'.working = TRUE /\ flow'.owner = t
  <2>1. FlowShaped(flow)
    BY DEF SetupTyped
  <2>2. CASE at = "idle"
    BY <1>5, <2>1, <2>2 DEF FlowShaped
  <2>3. CASE at # "idle"
    BY <1>5, <2>1, <2>3 DEF FlowShaped
  <2>. QED BY <2>2, <2>3
<1>9. ASSUME ~hasty
      PROVE  (\A u \in SetupTasks \ {t} : tasks[u].at = "idle")
                /\ SecretsFit' /\ Follows(t, next)'
  <2>1. \A u \in SetupTasks : tasks[u].at = "idle"
    BY <1>5, <1>9, NoneBusy
  <2>2. SecretsFit /\ checkpoint # Protection
    BY <1>5, <1>9 DEF OneAtATime, SecretsFit, OnKey
  <2>3. SecretsFit'
    BY <1>5, <2>2 DEF SecretsFit, Pending, Expired
  <2>4. key \in Pending => key \in secrets \/ Expired(key, setupClock)
    BY <2>2 DEF SecretsFit
  <2>5. key \in Pending => key \in Keys /\ attempts[key].status = "pending"
    BY DEF Pending
  <2>6. PhaseOf(next) = IF at = "save" THEN "activating" ELSE "verifying"
    BY <1>3, <1>6, <1>7 DEF PhaseOf, Preparing, Erasing
  <2>7. (StagingFits(next) /\ ErasureFits(next))'
    BY <1>3, <1>5, <1>6, <2>4, <2>5
       DEF StagingFits, ErasureFits, Erasing, Expired, Pending
  <2>8. at # "idle" => flow'.phase # "protection"
    BY <1>8
  <2>9. Follows(t, next)'
    BY <1>6, <1>8, <2>6, <2>7, <2>8 DEF Follows
  <2>. QED BY <2>1, <2>3, <2>9
<1>. QED BY <1>5, <1>6, <1>7, <1>8, <1>9, PlainStep

\* A registration that is confirmed activates the key and retires the others.
LEMMA ConfirmedKeeps ==
    ASSUME SetupInv, NEW t \in SetupTasks, NEW time \in 0 .. MaxSetupTime,
           NEW found \in BOOLEAN, Confirmed(t, time, found)
    PROVE  SetupInv'
<1>. USE DEF SetupInv
<1>0. PICK key : key = tasks[t].key
  OBVIOUS
<1>1. /\ tasks[t].at = "confirm" /\ TaskShaped(tasks[t]) /\ setupClock \in Int
      /\ time \in tasks[t].time .. setupClock /\ tasks[t].time \in Int
      /\ UNCHANGED <<hasty, setupClock, keys, secrets, manifest, checkpoint>>
  BY DEF Confirmed, outside, SetupTyped, TaskShaped
<1>2. /\ ~hasty => /\ \A u \in SetupTasks \ {t} : tasks[u].at = "idle"
                   /\ flow.owner = t /\ flow.working = TRUE /\ flow.phase = PhaseOf(tasks[t])
                   /\ SecretsFit /\ ErasureFits(tasks[t])
  BY <1>1, Busy
<1>3. ~hasty => /\ flow.phase = "verifying"
                /\ key \in Pending \cap secrets /\ tasks[t].victim = key
                /\ tasks[t].next = "forget" /\ checkpoint # Protection
  <2>1. PhaseOf(tasks[t]) = "verifying"
    BY <1>1 DEF PhaseOf, Preparing, Erasing
  <2>. QED BY <1>0, <1>1, <1>2, <2>1 DEF ErasureFits, SecretsFit, OnKey
<1>4. CASE Expired(key, time) /\ Goto(t, "erase") /\ UNCHANGED <<flow, attempts, bindings>>
  <2>1. PICK next : next = [tasks[t] EXCEPT !.at = "erase"]
    OBVIOUS
  <2>2. "erase" \in Stages \ {"idle"}
    BY DEF Stages, Erasing
  <2>3. /\ TaskShaped(next) /\ next.at = "erase" /\ next.victim = tasks[t].victim
        /\ next.next = tasks[t].next
    BY <1>1, <2>1, <2>2, Turned
  <2>4. tasks' = [tasks EXCEPT ![t] = next]
    BY <1>4, <2>1 DEF Goto
  <2>5. ~Unrecorded(next) /\ (tasks[t].next = "forget" => PhaseOf(next) = PhaseOf(tasks[t]))
    BY <1>1, <2>3 DEF Unrecorded, PhaseOf, Preparing, Erasing
  <2>6. key \in Pending => /\ key \in Keys /\ attempts[key].status = "pending"
                           /\ Expired(key, setupClock)
    <3>1. key \in Pending => key \in Keys /\ attempts[key].status = "pending"
      BY DEF Pending
    <3>2. key \in Keys => attempts[key].expiresAt \in Int
      BY DEF SetupTyped, RowShaped
    <3>3. time \in Int /\ time <= setupClock
      BY <1>1
    <3>. QED BY <1>1, <1>4, <3>1, <3>2, <3>3 DEF Expired
  <2>7. ~hasty => SecretsFit'
    BY <1>1, <1>2, <1>4 DEF SecretsFit, OnKey, Pending, Expired
  <2>8. ~hasty => StagingFits(next)' /\ ErasureFits(next)'
    BY <1>1, <1>3, <1>4, <2>3, <2>6 DEF StagingFits, ErasureFits, Erasing, Expired
  <2>9. ~hasty => (\A u \in SetupTasks \ {t} : tasks[u].at = "idle") /\ Follows(t, next)'
    <3>1. ~hasty => PhaseOf(next) = PhaseOf(tasks[t]) /\ flow.phase # "protection"
      BY <1>3, <2>5
    <3>. QED BY <1>1, <1>2, <1>4, <2>8, <3>1 DEF Follows
  <2>10. FlowShaped(flow')
    BY <1>4 DEF SetupTyped
  <2>. QED BY <1>1, <1>4, <2>3, <2>4, <2>5, <2>7, <2>9, <2>10, PlainStep
<1>5. CASE /\ tasks' = [tasks EXCEPT ![t] = Idle] /\ UNCHANGED <<attempts, bindings>>
           /\ \E phase \in {"authorization", "failure"} :
                 Dispatch(t, phase, "authorization")
  <2>1. FlowShaped(flow')
    BY <1>5, Dispatched DEF SetupTyped
  <2>2. ~hasty => SecretsFit'
    BY <1>1, <1>2, <1>3, <1>5 DEF SecretsFit, Pending, Expired
  <2>. QED BY <1>1, <1>5, <2>1, <2>2, EndStep
<1>6. CASE /\ Activates(key, tasks[t].time) /\ ConsumeAndActivate(key) /\ Goto(t, "save")
           /\ flow' = IF flow.owner = t THEN [flow EXCEPT !.phase = "activating"] ELSE flow
  <2>1. PICK next : next = [tasks[t] EXCEPT !.at = "save"]
    OBVIOUS
  <2>2. "save" \in Stages \ {"idle"}
    BY DEF Stages
  <2>3. TaskShaped(next) /\ next.at = "save"
    BY <1>1, <2>1, <2>2, Turned
  <2>4. tasks' = [tasks EXCEPT ![t] = next]
    BY <1>6, <2>1 DEF Goto
  <2>5. key \in Keys /\ attempts[key].status = "pending"
    BY <1>6 DEF Activates, Pending
  <2>6. PICK row : row = [attempts[key] EXCEPT !.status = "consumed"]
    OBVIOUS
  <2>7. RowShaped(row) /\ row.status = "consumed"
    <3>1. RowShaped(attempts[key])
      BY <2>5 DEF SetupTyped
    <3>. QED BY <2>6, <3>1 DEF RowShaped
  <2>8. attempts' = [attempts EXCEPT ![key] = row]
    BY <1>6, <2>6 DEF ConsumeAndActivate
  <2>9. /\ Shaped(attempts', Keys)
        /\ \A k \in Keys : attempts'[k] = IF k = key THEN row ELSE attempts[k]
    BY <2>8 DEF SetupTyped, Shaped
  <2>10. /\ Shaped(bindings', Keys)
         /\ \A k \in Keys : bindings'[k] = "active" <=> k = key
    BY <1>6 DEF ConsumeAndActivate, Shaped
  <2>11. FlowShaped(flow') /\ (flow.owner = t => flow' = [flow EXCEPT !.phase = "activating"]
                                                   /\ flow'.phase = "activating"
                                                   /\ flow'.owner = t
                                                   /\ flow'.working = flow.working)
    BY <1>6 DEF SetupTyped, FlowShaped
  <2>12. SetupTyped'
    <3>1. Shaped(tasks', SetupTasks) /\ \A u \in SetupTasks : TaskShaped(tasks'[u])
      BY <2>3, <2>4 DEF SetupTyped, Shaped
    <3>2. \A k \in Keys : RowShaped(attempts'[k])
      BY <2>7, <2>9 DEF SetupTyped
    <3>. QED BY <1>1, <2>9, <2>10, <2>11, <3>1, <3>2 DEF SetupTyped
  <2>13. BindingsFit'
    BY <2>7, <2>9, <2>10 DEF BindingsFit
  <2>14. ~Unrecorded(next)
    BY <2>3 DEF Unrecorded
  <2>15. KeysNew'
    <3>1. \A k \in Keys : attempts[k].status = "none" => attempts'[k].status = "none"
      BY <2>5, <2>9
    <3>. QED BY <1>1, <2>4, <2>14, <3>1, KeysNewNext
  <2>16. ASSUME ~hasty PROVE OneAtATime'
    <3>1. Pending' \subseteq Pending
      BY <2>5, <2>7, <2>9 DEF Pending
    <3>2. \A k \in Pending' : Expired(k, setupClock)' <=> Expired(k, setupClock)
      BY <1>1, <2>7, <2>9 DEF Pending, Expired
    <3>3. SecretsFit'
      BY <1>1, <1>2, <1>3, <2>10, <2>16, <3>1, <3>2 DEF SecretsFit
    <3>4. (StagingFits(next) /\ ErasureFits(next))'
      BY <2>3 DEF StagingFits, ErasureFits, Erasing
    <3>5. PhaseOf(next) = "activating"
      BY <2>3 DEF PhaseOf, Preparing, Erasing
    <3>6. Follows(t, next)'
      BY <1>2, <2>11, <2>16, <3>4, <3>5 DEF Follows
    <3>. QED BY <1>2, <2>4, <2>16, <3>3, <3>6, OwnedNext DEF OneAtATime
  <2>. QED BY <1>1, <2>12, <2>13, <2>15, <2>16
<1>. QED BY <1>0, <1>4, <1>5, <1>6 DEF Confirmed, Fail

\* Saving the account leaves the stores of the setup alone.
LEMMA SaveAccountKeeps ==
    ASSUME SetupInv, NEW t \in SetupTasks, SaveAccount(t)
    PROVE  SetupInv'
<1>. USE DEF SetupInv
<1>1. /\ tasks[t].at = "save" /\ TaskShaped(tasks[t])
      /\ UNCHANGED <<hasty, setupClock, attempts, bindings, keys, secrets, manifest, checkpoint,
                     flow>>
  BY DEF SaveAccount, outside, SetupTyped
<1>2. PICK next : next = [tasks[t] EXCEPT !.at = "finish"]
  OBVIOUS
<1>3. "finish" \in Stages \ {"idle"}
  BY DEF Stages
<1>4. TaskShaped(next) /\ next.at = "finish"
  BY <1>1, <1>2, <1>3, Turned
<1>5. tasks' = [tasks EXCEPT ![t] = next]
  BY <1>2 DEF SaveAccount, Goto
<1>6. ~Unrecorded(next) /\ PhaseOf(next) = PhaseOf(tasks[t])
  BY <1>1, <1>4 DEF Unrecorded, PhaseOf, Preparing, Erasing
<1>7. ~hasty => SecretsFit' /\ StagingFits(next)' /\ ErasureFits(next)'
  <2>1. ~hasty => SecretsFit
    BY <1>1, Busy
  <2>. QED BY <1>1, <1>4, <2>1
           DEF SecretsFit, OnKey, Pending, Expired, StagingFits, ErasureFits, Erasing
<1>. QED BY <1>1, <1>4, <1>5, <1>6, <1>7, GoOnStep

\* Where the checkpoint is cleared, no attempt without its key could be resumed.
LEMMA ClearedKeeps ==
    ASSUME SetupInv, NEW t \in SetupTasks, Finish(t) \/ Forget(t)
    PROVE  SetupInv'
<1>. USE DEF SetupInv
<1>1. /\ tasks[t].at \in {"finish", "forget"} /\ tasks' = [tasks EXCEPT ![t] = Idle]
      /\ UNCHANGED <<hasty, setupClock, attempts, bindings, keys, secrets, manifest>>
      /\ checkpoint' = NoCheckpoint
  BY DEF Finish, Forget, outside
<1>2. FlowShaped(flow')
  <2>1. FlowShaped(flow)
    BY DEF SetupTyped
  <2>2. CASE Finish(t)
    BY <2>1, <2>2 DEF Finish, FlowShaped, Unmounted
  <2>3. CASE Forget(t) /\ flow.owner = t
    <3>1. flow' = [flow EXCEPT !.phase = "failure", !.returns = "protection",
                               !.working = FALSE, !.held = 0]
      BY <2>3 DEF Forget
    <3>. QED BY <2>1, <3>1 DEF FlowShaped
  <2>4. CASE Forget(t) /\ flow.owner # t
    BY <2>1, <2>4 DEF Forget
  <2>. QED BY <2>2, <2>3, <2>4
<1>3. ASSUME ~hasty PROVE SecretsFit'
  <2>1. SecretsFit /\ flow.phase = PhaseOf(tasks[t])
    BY <1>1, <1>3, Busy
  <2>2. PhaseOf(tasks[t]) \in {"activating", "verifying"}
    BY <1>1 DEF PhaseOf, Preparing, Erasing
  <2>3. checkpoint # Protection
    BY <2>1, <2>2 DEF SecretsFit, OnKey
  <2>4. checkpoint' # Protection
    BY <1>1 DEF NoCheckpoint, Protection
  <2>. QED BY <1>1, <2>1, <2>3, <2>4 DEF SecretsFit, Pending, Expired
<1>. QED BY <1>1, <1>2, <1>3, EndStep

\* An operation that fails leaves every store as it is.
LEMMA SetupFailsKeeps ==
    ASSUME SetupInv, NEW t \in SetupTasks, SetupFails(t)
    PROVE  SetupInv'
<1>. USE DEF SetupInv
<1>1. PICK returns : returns = IF tasks[t].at = "inspect" THEN "protection" ELSE "authorization"
  OBVIOUS
<1>2. /\ tasks[t].at \in {"inspect", "confirm", "save", "finish"}
      /\ tasks' = [tasks EXCEPT ![t] = Idle] /\ Fail(t, returns)
      /\ returns \in {"account", "protection", "authorization"}
      /\ UNCHANGED <<hasty, setupClock, attempts, bindings, keys, secrets, manifest, checkpoint>>
  BY <1>1 DEF SetupFails, outside, stored
<1>3. FlowShaped(flow') /\ (flow.owner = t => flow'.phase = "failure" /\ flow'.returns = returns)
  BY <1>2, Dispatched DEF SetupTyped, Fail
<1>4. ASSUME ~hasty PROVE SecretsFit'
  <2>1. SecretsFit /\ flow.owner = t /\ flow.phase = PhaseOf(tasks[t])
    BY <1>2, <1>4, Busy
  <2>2. returns = "authorization" => flow.phase \in {"activating", "verifying"}
    BY <1>1, <1>2, <2>1 DEF PhaseOf, Preparing, Erasing
  <2>3. OnKey' => OnKey
    BY <1>3, <2>1, <2>2 DEF OnKey
  <2>. QED BY <1>2, <2>1, <2>3 DEF SecretsFit, Pending, Expired
<1>. QED BY <1>2, <1>3, <1>4, EndStep

\* A kill closes the screen; what an interrupted erasure left stays unreachable.
\* Time and the exchange only let attempts expire.
LEMMA WorldKeeps ==
    ASSUME SetupInv, Killed \/ SetupTick \/ Register
    PROVE  SetupInv'
<1>. USE DEF SetupInv
<1>1. CASE Killed
  <2>1. /\ UNCHANGED <<hasty, setupClock, attempts, bindings, keys, secrets, manifest, checkpoint>>
        /\ tasks' = [t \in SetupTasks |-> Idle] /\ flow' = Unmounted
    BY <1>1 DEF Killed, outside, stored
  <2>2. FlowShaped(flow') /\ ~OnKey'
    BY <2>1 DEF FlowShaped, Unmounted, OnKey
  <2>3. SetupTyped'
    BY <2>1, <2>2, IdleShaped DEF SetupTyped, Shaped
  <2>4. BindingsFit' /\ KeysNew'
    BY <2>1, IdleShaped DEF BindingsFit, KeysNew, Unrecorded
  <2>5. ~hasty => OneAtATime'
    BY <2>1, <2>2, IdleShaped DEF OneAtATime, SecretsFit, Owned, Pending, Expired
  <2>. QED BY <2>1, <2>3, <2>4, <2>5
<1>2. CASE SetupTick
  <2>1. /\ UNCHANGED <<hasty, attempts, bindings, keys, secrets, manifest, checkpoint, tasks, flow>>
        /\ setupClock' = setupClock + 1 /\ setupClock \in Int
    BY <1>2 DEF SetupTick, stored, SetupTyped
  <2>2. setupClock' \in Int
    BY <2>1
  <2>3. SetupTyped'
    BY <2>1, <2>2 DEF SetupTyped
  <2>4. BindingsFit' /\ KeysNew'
    BY <2>1 DEF BindingsFit, KeysNew, Unrecorded
  <2>5. \A k \in Keys : Expired(k, setupClock) => Expired(k, setupClock)'
    <3>1. \A k \in Keys : attempts[k].expiresAt \in Int
      BY DEF SetupTyped, RowShaped
    <3>. QED BY <2>1, <3>1 DEF Expired
  <2>6. Pending' = Pending /\ Pending \subseteq Keys /\ (OnKey' <=> OnKey)
    BY <2>1 DEF Pending, OnKey
  <2>7. SecretsFit => SecretsFit'
    BY <2>1, <2>5, <2>6 DEF SecretsFit
  <2>8. ASSUME NEW t \in SetupTasks, Owned(t) PROVE Owned(t)'
    BY <2>1, <2>5, <2>6, <2>8 DEF Owned, StagingFits, ErasureFits
  <2>. QED BY <2>1, <2>3, <2>4, <2>7, <2>8 DEF OneAtATime
<1>3. CASE Register
  <2>1. UNCHANGED <<hasty, setupClock, attempts, bindings, keys, secrets, manifest, checkpoint,
                    tasks, flow>>
    BY <1>3 DEF Register, stored
  <2>. QED BY <2>1 DEF SetupTyped, BindingsFit, KeysNew, Unrecorded, OneAtATime, SecretsFit, Owned,
                       StagingFits, ErasureFits, Pending, Expired, OnKey
<1>. QED BY <1>1, <1>2, <1>3

\* The invariant holds in every state.
LEMMA SetupInvHolds == SetupSpec => []SetupInv
<1>1. SetupInv /\ SetupNext => SetupInv'
  BY ScreenKeeps, WorldKeeps, MountKeeps, StartPrepareKeeps, InspectedKeeps, GeneratedKeeps,
     StageManifestKeeps, StageSecretKeeps, StageRefusedKeeps, CreateAttemptKeeps,
     SaveAuthorizationKeeps, SaveRefusedKeeps, EraseKeeps, ReadManifestKeeps, CancelAttemptKeeps,
     StartVerifyKeeps, ConfirmedKeeps, SaveAccountKeeps, ClearedKeeps, SetupFailsKeeps
  DEF SetupNext
<1>2. SetupInv /\ UNCHANGED setupVars => SetupInv'
  <2>. SUFFICES ASSUME SetupInv, UNCHANGED setupVars PROVE SetupInv'
    OBVIOUS
  <2>1. UNCHANGED <<hasty, setupClock, attempts, bindings, keys, secrets, manifest, checkpoint,
                    tasks, flow>>
    BY DEF setupVars
  <2>. QED BY <2>1 DEF SetupInv, SetupTyped, BindingsFit, KeysNew, Unrecorded, OneAtATime, SecretsFit,
                       Owned, StagingFits, ErasureFits, Pending, Expired, OnKey
<1>. QED BY <1>1, <1>2, SetupInvInit, PTL DEF SetupSpec

\* Whatever is interrupted, refused or expires, the manifest lists every key in
\* the secure store and an active binding keeps its key, of a user who waits;
\* one binding is active at most, of any user (stage, removePendingAttempt and
\* consumeAndActivate).
THEOREM KeysAreAccountedFor == SetupSpec => []KeysAccountedFor
<1>1. SetupInv => KeysAccountedFor
  <2>. SUFFICES ASSUME SetupInv PROVE KeysAccountedFor
    OBVIOUS
  <2>1. PICK active : active = {k \in Keys : bindings[k] = "active"}
    OBVIOUS
  <2>2. ~hasty => secrets \subseteq manifest /\ active \subseteq secrets
    BY <2>1 DEF SetupInv, OneAtATime, SecretsFit
  <2>3. Cardinality(active) <= 1
    <3>1. CASE active = {}
      BY <3>1, FS_EmptySet
    <3>2. CASE active # {}
      <4>1. PICK k : k \in active
        BY <3>2
      <4>2. active = {k}
        BY <2>1, <4>1 DEF SetupInv, BindingsFit
      <4>. QED BY <4>2, FS_Singleton
    <3>. QED BY <3>1, <3>2
  <2>. QED BY <2>1, <2>2, <2>3 DEF KeysAccountedFor
<1>. QED BY <1>1, SetupInvHolds, PTL

-----------------------------------------------------------------------------
(* The notification client *)

\* How many of a set of numbers are no larger than one of them.
Ranked(kept, n) == Cardinality({m \in kept : m <= n})

\* In a finite set of numbers every element has a rank of its own, and every
\* rank is taken.
LEMMA Ranks ==
    ASSUME NEW kept, IsFiniteSet(kept), kept \subseteq Int
    PROVE  /\ Cardinality(kept) \in Nat
           /\ \A n \in kept : Ranked(kept, n) \in 1 .. Cardinality(kept)
           /\ \A n, m \in kept : Ranked(kept, n) = Ranked(kept, m) => n = m
           /\ \A place \in 1 .. Cardinality(kept) : \E n \in kept : Ranked(kept, n) = place
<1>0. Cardinality(kept) \in Nat
  BY FS_CardinalityType
<1>1. ASSUME NEW n \in kept
      PROVE  /\ IsFiniteSet({m \in kept : m <= n})
             /\ Ranked(kept, n) \in 1 .. Cardinality(kept) /\ Ranked(kept, n) \in Int
  <2>1. /\ IsFiniteSet({m \in kept : m <= n})
        /\ Cardinality({m \in kept : m <= n}) <= Cardinality(kept)
    BY FS_Subset, {m \in kept : m <= n} \subseteq kept
  <2>2. Cardinality({m \in kept : m <= n}) \in Nat
    BY <2>1, FS_CardinalityType
  <2>3. n \in {m \in kept : m <= n}
    BY n \in Int
  <2>4. Cardinality({m \in kept : m <= n}) # 0
    BY <2>1, <2>3, FS_EmptySet
  <2>. QED BY <1>0, <2>1, <2>2, <2>4 DEF Ranked
<1>2. ASSUME NEW n \in kept, NEW m \in kept, n < m
      PROVE  Ranked(kept, n) < Ranked(kept, m)
  <2>1. n \in Int /\ m \in Int
    OBVIOUS
  <2>2. {j \in kept : j <= n} \subseteq {j \in kept : j <= m}
    <3>1. ASSUME NEW j \in kept, j <= n PROVE j <= m
      BY <1>2, <2>1, <3>1, j \in Int
    <3>. QED BY <3>1
  <2>3. {j \in kept : j <= n} # {j \in kept : j <= m}
    <3>1. m \in {j \in kept : j <= m} /\ m \notin {j \in kept : j <= n}
      BY <1>2, <2>1
    <3>. QED BY <3>1
  <2>4. IsFiniteSet({j \in kept : j <= m})
    BY <1>1
  <2>5. /\ Cardinality({j \in kept : j <= n}) <= Cardinality({j \in kept : j <= m})
        /\ Cardinality({j \in kept : j <= n}) # Cardinality({j \in kept : j <= m})
    BY <2>2, <2>3, <2>4, FS_Subset
  <2>6. Ranked(kept, n) \in Int /\ Ranked(kept, m) \in Int
    BY <1>1
  <2>. QED BY <2>5, <2>6 DEF Ranked
<1>3. ASSUME NEW n \in kept, NEW m \in kept, Ranked(kept, n) = Ranked(kept, m) PROVE n = m
  <2>1. Ranked(kept, n) \in Int
    BY <1>1
  <2>2. ~(n < m) /\ ~(m < n)
    BY <1>2, <1>3, <2>1
  <2>. QED BY <2>2, n \in Int, m \in Int
<1>4. PICK rank : rank = [n \in kept |-> Ranked(kept, n)]
  OBVIOUS
<1>5. rank \in Injection(kept, 1 .. Cardinality(kept))
  BY <1>1, <1>3, <1>4 DEF Injection, IsInjective
<1>6. IsFiniteSet(1 .. Cardinality(kept)) /\ Cardinality(1 .. Cardinality(kept)) = Cardinality(kept)
  BY <1>0, FS_Interval
<1>7. rank \in Surjection(kept, 1 .. Cardinality(kept))
  BY <1>5, <1>6, FS_Injection
<1>8. \A place \in 1 .. Cardinality(kept) : \E n \in kept : Ranked(kept, n) = place
  BY <1>4, <1>7 DEF Surjection
<1>. QED BY <1>0, <1>1, <1>3, <1>8

\* Taking alerts out of the queue keeps every other one, and adds none.
LEMMA RemainingKeeps ==
    ASSUME queued \in Seq(Rules), NEW done
    PROVE  /\ Remaining(done) \in Seq(Rules)
           /\ \A r : r \notin done /\ (\E n \in DOMAIN queued : queued[n] = r) =>
                 \E n \in DOMAIN Remaining(done) : Remaining(done)[n] = r
<1>1. PICK kept : kept = {n \in DOMAIN queued : queued[n] \notin done}
  OBVIOUS
<1>2. PICK at : at = [place \in 1 .. Cardinality(kept) |->
                         CHOOSE n \in kept : Ranked(kept, n) = place]
  OBVIOUS
<1>3. Remaining(done) = [place \in 1 .. Cardinality(kept) |-> queued[at[place]]]
  BY <1>1, <1>2 DEF Remaining, Ranked
<1>4. IsFiniteSet(kept) /\ kept \subseteq Int /\ kept \subseteq DOMAIN queued
  <2>1. DOMAIN queued = 1 .. Len(queued) /\ Len(queued) \in Nat
    OBVIOUS
  <2>2. IsFiniteSet(DOMAIN queued)
    BY <2>1, FS_Interval
  <2>3. kept \subseteq DOMAIN queued
    BY <1>1
  <2>. QED BY <2>1, <2>2, <2>3, FS_Subset
<1>5. /\ Cardinality(kept) \in Nat
      /\ \A n \in kept : Ranked(kept, n) \in 1 .. Cardinality(kept)
      /\ \A n, m \in kept : Ranked(kept, n) = Ranked(kept, m) => n = m
      /\ \A place \in 1 .. Cardinality(kept) : \E n \in kept : Ranked(kept, n) = place
  BY <1>4, Ranks
<1>6. \A place \in 1 .. Cardinality(kept) :
          at[place] \in kept /\ Ranked(kept, at[place]) = place
  BY <1>2, <1>5
<1>7. \A n \in DOMAIN queued : queued[n] \in Rules
  OBVIOUS
<1>8. PICK rest : rest = Remaining(done)
  OBVIOUS
<1>9. /\ rest \in [1 .. Cardinality(kept) -> Rules]
      /\ \A place \in 1 .. Cardinality(kept) : rest[place] = queued[at[place]]
  BY <1>3, <1>4, <1>6, <1>7, <1>8
<1>10. rest \in Seq(Rules) /\ DOMAIN rest = 1 .. Cardinality(kept)
  BY <1>5, <1>9
<1>11. ASSUME NEW r, r \notin done, NEW n \in DOMAIN queued, queued[n] = r
       PROVE  \E place \in DOMAIN rest : rest[place] = r
  <2>1. n \in kept
    BY <1>1, <1>11
  <2>2. PICK place : place = Ranked(kept, n)
    OBVIOUS
  <2>3. place \in 1 .. Cardinality(kept) /\ at[place] = n
    BY <1>5, <1>6, <2>1, <2>2
  <2>. QED BY <1>9, <1>10, <1>11, <2>3
<1>. QED BY <1>8, <1>10, <1>11

Ids == [id : 0 .. MaxInstallations, op : Nat]

\* The stages of adding an alert, of revoking the device, and of a refresh.
Adding == {"access", "load", "loadVault", "clearStale", "writeState", "writeVault", "check",
           "register", "put", "queue"}
Revoking == {"saveOp", "revoke", "removeVault", "clearState"}
MutationStages == {"idle", "joined"} \cup Adding \cup Revoking
RefreshStages == {"idle", "load", "loadVault", "clearStale", "hydrate", "replay", "snapshot"}

FrameType == [pc : MutationStages \cup RefreshStages, read : Ids, rule : Rules \cup {0},
              todo : Seq(Rules), done : SUBSET Rules]

\* What a mutation, and a refresh, may be at.
MutationSound(frame) ==
    /\ frame \in FrameType /\ frame.pc \in MutationStages
    /\ frame.pc \in Adding => frame.rule \in Rules
RefreshSound(frame) ==
    /\ frame \in FrameType /\ frame.pc \in RefreshStages
    /\ frame.pc = "replay" => frame.todo # <<>>
    /\ \A r \in frame.done : alerts[r] # "unknown"

ClientTyped ==
    /\ identity \in Ids /\ held \in Ids
    /\ queued \in Seq(Rules) /\ told \in SUBSET Rules
    /\ service \in [Installations -> [state : {"none", "active", "draining", "inactive"},
                                      ops : SUBSET Nat]]
    /\ alerts \in [Rules -> {"unknown", "active", "deleted"}]
    /\ MutationSound(mutation) /\ RefreshSound(refreshing)
    /\ made \in [installations : 0 .. MaxInstallations, operations : Nat]
    /\ calm \in BOOLEAN

\* No operation under way.
LEMMA RestingSound ==
    /\ Resting \in FrameType /\ Resting.pc = "idle"
    /\ MutationSound(Resting) /\ RefreshSound(Resting) /\ RefreshSound(Resting)'
    /\ Nobody \in Ids
<1>1. Nobody \in Ids
  BY ClientAssumption DEF Nobody, Ids
<1>2. Resting \in FrameType /\ Resting.pc = "idle" /\ Resting.done = {}
  BY <1>1 DEF Resting, FrameType, MutationStages
<1>. QED BY <1>1, <1>2 DEF MutationSound, RefreshSound, MutationStages, RefreshStages, Adding

\* At the start of the app there is nothing.
LEMMA ClientTypedInit == ClientInit => ClientTyped
<1>. SUFFICES ASSUME ClientInit PROVE ClientTyped
  OBVIOUS
<1>1. service \in [Installations -> [state : {"none", "active", "draining", "inactive"},
                                     ops : SUBSET Nat]]
  BY DEF ClientInit, Unknown
<1>2. made \in [installations : 0 .. MaxInstallations, operations : Nat]
  BY ClientAssumption DEF ClientInit
<1>3. alerts \in [Rules -> {"unknown", "active", "deleted"}]
  BY DEF ClientInit
<1>4. queued \in Seq(Rules) /\ told \in SUBSET Rules /\ calm \in BOOLEAN
  BY DEF ClientInit
<1>. QED BY <1>1, <1>2, <1>3, <1>4, RestingSound DEF ClientInit, ClientTyped

\* A step that confirms no less keeps what a refresh may be at.
LEMMA StillSound ==
    ASSUME NEW frame, RefreshSound(frame),
           \A r \in Rules : alerts[r] # "unknown" => alerts'[r] # "unknown"
    PROVE  RefreshSound(frame)'
BY DEF RefreshSound, FrameType

\* The steps of loading the authority.
LEMMA LoadTyped ==
    ASSUME ClientTyped, NEW a \in Frames,
           LoadState(a) \/ LoadVault(a) \/ ClearStale(a) \/ StorageRefused(a)
    PROVE  ClientTyped'
<1>. USE DEF ClientTyped
<1>1. UNCHANGED <<queued, told, service, alerts, made, calm>>
  BY DEF LoadState, LoadVault, ClearStale, StorageRefused
<1>2. Frame(a) \in FrameType /\ Frame(a).read \in Ids
  BY DEF Frame, MutationSound, RefreshSound, FrameType
<1>3. identity' \in Ids /\ held' \in Ids
  BY <1>2, RestingSound DEF LoadState, LoadVault, ClearStale, StorageRefused
<1>4. MutationSound(mutation') /\ RefreshSound(refreshing')
  <2>1. CASE RefreshEnds
    BY <2>1, RestingSound DEF RefreshEnds
  <2>2. CASE Moves(a, Resting)
    BY <2>2, RestingSound DEF Moves
  <2>3. ASSUME a = "refresh", NEW frame \in FrameType, Moves(a, frame),
               frame.pc \in RefreshStages \ {"replay"}, frame.done = refreshing.done
        PROVE  MutationSound(mutation') /\ RefreshSound(refreshing')
    BY <2>3 DEF Moves, RefreshSound
  <2>4. ASSUME a = "mutation", NEW frame \in FrameType, Moves(a, frame),
               frame.pc \in MutationStages, frame.rule = mutation.rule,
               mutation.pc \in Adding
        PROVE  MutationSound(mutation') /\ RefreshSound(refreshing')
    BY <2>4 DEF Moves, MutationSound
  <2>5. ASSUME NEW frame \in FrameType, Moves(a, frame), frame.done = Frame(a).done,
                frame.rule = Frame(a).rule, Frame(a).pc \in Adding,
                a = "mutation" => frame.pc \in MutationStages,
                a = "refresh" => frame.pc \in RefreshStages \ {"replay"}
         PROVE  MutationSound(mutation') /\ RefreshSound(refreshing')
    <3>1. a = "mutation" \/ a = "refresh"
      BY DEF Frames
    <3>. QED BY <2>3, <2>4, <2>5, <3>1 DEF Frame
  <2>6. CASE LoadState(a) /\ identity.id # 0
    <3>1. PICK frame : frame = [Frame(a) EXCEPT !.pc = "loadVault", !.read = identity]
      OBVIOUS
    <3>2. Moves(a, frame) /\ Frame(a).pc = "load"
      BY <2>6, <3>1 DEF LoadState, At
    <3>3. /\ frame \in FrameType /\ frame.pc = "loadVault" /\ frame.done = Frame(a).done
          /\ frame.rule = Frame(a).rule
      BY <1>2, <3>1 DEF FrameType, MutationStages, Adding
    <3>. QED BY <2>5, <3>2, <3>3 DEF MutationStages, RefreshStages, Adding
  <2>7. ASSUME NEW pc \in {"clearStale", "writeState", "check", "hydrate"},
               Moves(a, At(a, pc)), Frame(a).pc \in {"load", "loadVault", "clearStale"},
               a = "mutation" => pc # "hydrate", a = "refresh" => pc \notin {"writeState", "check"}
        PROVE  MutationSound(mutation') /\ RefreshSound(refreshing')
    <3>1. PICK frame : frame = [Frame(a) EXCEPT !.pc = pc, !.read = Frame(a).read]
      OBVIOUS
    <3>2. frame = At(a, pc)
      BY <1>2, <3>1 DEF At, FrameType
    <3>3. /\ frame \in FrameType /\ frame.pc = pc /\ frame.done = Frame(a).done
          /\ frame.rule = Frame(a).rule
      BY <1>2, <2>7, <3>1 DEF FrameType, MutationStages, RefreshStages, Adding
    <3>. QED BY <2>7, <2>5, <3>2, <3>3 DEF MutationStages, RefreshStages, Adding
  <2>8. \/ RefreshEnds \/ Moves(a, Resting) \/ (LoadState(a) /\ identity.id # 0)
        \/ \E pc \in {"clearStale", "writeState", "check", "hydrate"} :
              /\ Moves(a, At(a, pc)) /\ Frame(a).pc \in {"load", "loadVault", "clearStale"}
              /\ a = "mutation" => pc # "hydrate"
              /\ a = "refresh" => pc \notin {"writeState", "check"}
    BY DEF LoadState, LoadVault, ClearStale, StorageRefused, Absent, Found, Frames
  <2>. QED BY <2>1, <2>2, <2>6, <2>7, <2>8
<1>5. RefreshSound(refreshing)'
  BY <1>1, <1>4 DEF RefreshSound
<1>6. MutationSound(mutation)'
  BY <1>4 DEF MutationSound
<1>. QED BY <1>1, <1>3, <1>5, <1>6

\* A mutation or a refresh takes a step; the data it touches keep their types.
LEMMA FramesTyped ==
    ASSUME ClientTyped, identity' \in Ids, held' \in Ids,
           queued' \in Seq(Rules), told' \in SUBSET Rules,
           service' \in [Installations -> [state : {"none", "active", "draining", "inactive"},
                                           ops : SUBSET Nat]],
           alerts' \in [Rules -> {"unknown", "active", "deleted"}],
           \A r \in Rules : alerts[r] # "unknown" => alerts'[r] # "unknown",
           made' \in [installations : 0 .. MaxInstallations, operations : Nat],
           calm' = calm, NEW mutated, NEW refreshed,
           mutation' = mutated, refreshing' = refreshed,
           MutationSound(mutated), RefreshSound(refreshed) \/ RefreshSound(refreshed)'
    PROVE  ClientTyped'
<1>1. RefreshSound(refreshed)'
  BY StillSound
<1>2. MutationSound(mutation)'
  BY DEF MutationSound
<1>. QED BY <1>1, <1>2 DEF ClientTyped, RefreshSound

\* A refresh starts with what is held in memory.
LEMMA StartedSound ==
    ClientTyped => RefreshSound(StartedRefresh) /\ StartedRefresh.pc \in {"hydrate", "load"}
                     /\ StartedRefresh.read = held /\ StartedRefresh.done = {}
BY RestingSound DEF StartedRefresh, ClientTyped, RefreshSound, FrameType, RefreshStages, Resting

\* The steps of a refresh.
LEMMA RefreshTyped ==
    ASSUME ClientTyped,
           \/ Refresh \/ HydrateQueue \/ ReadSnapshot
           \/ \E request \in PutRuleRequests, outcome \in Outcomes : ReplayQueued(request, outcome)
    PROVE  ClientTyped'
<1>. USE DEF ClientTyped
<1>1. CASE Refresh
  <2>1. refreshing' = StartedRefresh /\ mutation' = mutation
    BY <1>1 DEF Refresh
  <2>2. UNCHANGED <<identity, held, queued, told, service, alerts, made, calm>>
    BY <1>1 DEF Refresh
  <2>. QED BY <2>1, <2>2, StartedSound, FramesTyped
<1>2. CASE HydrateQueue
  <2>1. PICK frame : frame = [refreshing EXCEPT !.pc = IF queued = <<>> THEN "snapshot" ELSE "replay",
                                               !.todo = queued]
    OBVIOUS
  <2>2. refreshing' = frame /\ mutation' = mutation
    BY <1>2, <2>1 DEF HydrateQueue, At, Frame
  <2>3. RefreshSound(frame)
    BY <2>1 DEF RefreshSound, FrameType, RefreshStages
  <2>4. UNCHANGED <<identity, held, queued, told, service, alerts, made, calm>>
    BY <1>2 DEF HydrateQueue
  <2>. QED BY <2>2, <2>3, <2>4, FramesTyped
<1>3. CASE ReadSnapshot
  <2>1. queued' \in Seq(Rules)
    BY <1>3, RemainingKeeps DEF ReadSnapshot
  <2>2. PICK mutated : mutated = IF mutation.pc = "joined" THEN Resting ELSE mutation
    OBVIOUS
  <2>3. refreshing' = Resting /\ mutation' = mutated /\ MutationSound(mutated)
    BY <1>3, <2>2, RestingSound DEF ReadSnapshot, RefreshEnds
  <2>4. UNCHANGED <<identity, held, told, service, alerts, made, calm>>
    BY <1>3 DEF ReadSnapshot
  <2>. QED BY <2>1, <2>3, <2>4, RestingSound, FramesTyped
<1>4. ASSUME NEW request \in PutRuleRequests, NEW outcome \in Outcomes,
             ReplayQueued(request, outcome)
      PROVE  ClientTyped'
  <2>1. PICK rule : rule = Head(refreshing.todo)
    OBVIOUS
  <2>2. PICK rest : rest = Tail(refreshing.todo)
    OBVIOUS
  <2>3. rule \in Rules /\ rest \in Seq(Rules)
    <3>1. refreshing.todo \in Seq(Rules) /\ refreshing.todo # <<>>
      BY <1>4 DEF ReplayQueued, RefreshSound, FrameType
    <3>. QED BY <2>1, <2>2, <3>1
  <2>4. PICK accepted \in BOOLEAN : accepted = PutRule(refreshing.read.id, request, outcome)
    BY DEF PutRule
  <2>5. alerts' = IF accepted THEN [alerts EXCEPT ![rule] = "active"] ELSE alerts
    BY <1>4, <2>1, <2>4 DEF ReplayQueued
  <2>6. /\ alerts' \in [Rules -> {"unknown", "active", "deleted"}]
        /\ \A r \in Rules : alerts[r] # "unknown" => alerts'[r] # "unknown"
        /\ accepted => alerts'[rule] # "unknown"
    BY <2>3, <2>5
  <2>7. PICK frame : frame = Replayed(refreshing, accepted /\ outcome = "answered")
    OBVIOUS
  <2>8. /\ frame \in FrameType
        /\ frame.done = refreshing.done \/ (accepted /\ frame.done = refreshing.done \cup {rule})
    <3>1. refreshing \in FrameType
      BY DEF RefreshSound
    <3>2. CASE accepted /\ outcome = "answered"
      <4>1. PICK done : done = refreshing.done \cup {rule}
        OBVIOUS
      <4>2. done \in SUBSET Rules
        BY <2>3, <3>1, <4>1 DEF FrameType
      <4>3. frame = [refreshing EXCEPT !.todo = rest, !.done = done]
        BY <2>1, <2>2, <2>7, <3>2, <4>1 DEF Replayed
      <4>4. frame \in FrameType /\ frame.done = done
        BY <2>3, <3>1, <4>2, <4>3 DEF FrameType
      <4>. QED BY <3>2, <4>1, <4>4
    <3>3. CASE ~(accepted /\ outcome = "answered")
      <4>1. frame = [refreshing EXCEPT !.todo = <<>>]
        BY <2>7, <3>3 DEF Replayed
      <4>2. <<>> \in Seq(Rules)
        OBVIOUS
      <4>3. frame \in FrameType
        BY <3>1, <4>1, <4>2 DEF FrameType
      <4>4. frame.done = refreshing.done
        BY <3>1, <4>1 DEF FrameType
      <4>. QED BY <4>3, <4>4
    <3>. QED BY <3>2, <3>3
  <2>9. PICK next : next = [frame EXCEPT !.pc = IF frame.todo = <<>> THEN "snapshot" ELSE "replay"]
    OBVIOUS
  <2>10. refreshing' = next /\ mutation' = mutation
    BY <1>4, <2>4, <2>7, <2>9 DEF ReplayQueued
  <2>11. /\ next \in FrameType /\ next.pc \in {"snapshot", "replay"}
         /\ next.pc = "replay" => next.todo # <<>>
         /\ next.done = frame.done
    BY <2>8, <2>9 DEF FrameType, RefreshStages
  <2>12. RefreshSound(next)'
    <3>1. \A r \in next.done : alerts'[r] # "unknown"
      BY <2>6, <2>8, <2>11 DEF RefreshSound, FrameType
    <3>. QED BY <2>11, <3>1 DEF RefreshSound, RefreshStages
  <2>13. UNCHANGED <<identity, held, queued, told, service, made, calm>>
    BY <1>4 DEF ReplayQueued
  <2>. QED BY <2>6, <2>10, <2>12, <2>13, FramesTyped
<1>. QED BY <1>1, <1>2, <1>3, <1>4

\* A step of the mutation that touches no queue and confirms no alert.
LEMMA MutatedTyped ==
    ASSUME ClientTyped, identity' \in Ids, held' \in Ids,
           service' \in [Installations -> [state : {"none", "active", "draining", "inactive"},
                                           ops : SUBSET Nat]],
           made' \in [installations : 0 .. MaxInstallations, operations : Nat],
           UNCHANGED <<queued, told, alerts, calm, refreshing>>,
           NEW mutated, mutation' = mutated, MutationSound(mutated)
    PROVE  ClientTyped'
BY FramesTyped DEF ClientTyped

\* The mutation at another stage, with something it read there.
LEMMA ReadSound ==
    ASSUME ClientTyped, NEW pc \in MutationStages, pc \in Adding => mutation.pc \in Adding,
           NEW read \in Ids
    PROVE  MutationSound([mutation EXCEPT !.pc = pc, !.read = read])
BY DEF ClientTyped, MutationSound, FrameType

\* The mutation at another stage, with what it read.
LEMMA AtSound ==
    ASSUME ClientTyped, NEW pc \in MutationStages, pc \in Adding => mutation.pc \in Adding
    PROVE  /\ MutationSound(At("mutation", pc)) /\ At("mutation", pc).pc = pc
           /\ At("mutation", pc).read = mutation.read /\ mutation.read \in Ids
BY DEF ClientTyped, MutationSound, FrameType, At, Frame

\* Adding an alert, up to the call that puts it.
LEMMA AddingTyped ==
    ASSUME ClientTyped,
           \/ \E rule \in Rules : Enable(rule)
           \/ \E granted \in BOOLEAN : Access(granted)
           \/ WriteState \/ WriteVault \/ WriteRefused
           \/ \E outcome \in Outcomes : Check(outcome) \/ RegisterInstallation(outcome)
    PROVE  ClientTyped'
<1>. USE DEF ClientTyped
<1>1. ASSUME NEW rule \in Rules, Enable(rule) PROVE ClientTyped'
  <2>1. PICK mutated : mutated = [Resting EXCEPT !.pc = "access", !.rule = rule]
    OBVIOUS
  <2>2. MutationSound(mutated)
    BY <2>1, RestingSound DEF MutationSound, FrameType, MutationStages, Adding
  <2>. QED BY <1>1, <2>1, <2>2, MutatedTyped DEF Enable
<1>2. ASSUME NEW granted \in BOOLEAN, Access(granted) PROVE ClientTyped'
  <2>1. UNCHANGED <<identity, held, service, made, queued, told, alerts, calm, refreshing>>
    BY <1>2 DEF Access
  <2>2. PICK mutated : mutated = mutation'
    OBVIOUS
  <2>3. MutationSound(mutated)
    <3>1. CASE mutated = Resting
      BY <3>1, RestingSound
    <3>2. CASE mutated = [mutation EXCEPT !.pc = "check", !.read = held]
      BY <1>2, <3>2, ReadSound DEF Access, MutationStages, Adding
    <3>3. CASE mutated = At("mutation", "load")
      BY <1>2, <3>3, AtSound DEF Access, MutationStages, Adding
    <3>. QED BY <1>2, <2>2, <3>1, <3>2, <3>3 DEF Access
  <2>. QED BY <2>1, <2>2, <2>3, MutatedTyped
<1>3. CASE WriteState
  <2>1. PICK new : new = [id |-> made.installations + 1, op |-> 0]
    OBVIOUS
  <2>2. made.installations + 1 \in 0 .. MaxInstallations
    BY <1>3, ClientAssumption DEF WriteState
  <2>3. new \in Ids
    BY <2>1, <2>2 DEF Ids
  <2>4. made' \in [installations : 0 .. MaxInstallations, operations : Nat]
    BY <1>3, <2>2 DEF WriteState
  <2>5. PICK mutated : mutated = [mutation EXCEPT !.pc = "writeVault", !.read = new]
    OBVIOUS
  <2>6. mutation' = mutated /\ identity' = new /\ mutation.pc = "writeState"
    BY <1>3, <2>1, <2>5 DEF WriteState
  <2>7. MutationSound(mutated)
    BY <2>3, <2>5, <2>6, ReadSound DEF MutationStages, Adding
  <2>8. UNCHANGED <<held, service, queued, told, alerts, calm, refreshing>>
    BY <1>3 DEF WriteState
  <2>. QED BY <2>3, <2>4, <2>6, <2>7, <2>8, MutatedTyped
<1>4. CASE WriteVault
  <2>1. PICK mutated : mutated = At("mutation", "register")
    OBVIOUS
  <2>2. MutationSound(mutated)
    BY <1>4, <2>1, AtSound DEF WriteVault, MutationStages, Adding
  <2>3. mutation.read \in Ids
    BY DEF MutationSound, FrameType
  <2>4. /\ held' = mutation.read /\ mutation' = mutated
        /\ UNCHANGED <<identity, service, made, queued, told, alerts, calm, refreshing>>
    BY <1>4, <2>1 DEF WriteVault
  <2>. QED BY <2>2, <2>3, <2>4, MutatedTyped
<1>5. CASE WriteRefused
  BY <1>5, RestingSound, MutatedTyped DEF WriteRefused
<1>6. ASSUME NEW outcome \in Outcomes, Check(outcome) PROVE ClientTyped'
  <2>1. UNCHANGED <<identity, held, service, made, queued, told, alerts, calm, refreshing>>
    BY <1>6 DEF Check
  <2>2. PICK mutated : mutated = mutation'
    OBVIOUS
  <2>3. MutationSound(mutated)
    <3>1. CASE mutated = Resting
      BY <3>1, RestingSound
    <3>2. ASSUME NEW pc \in {"put", "register"}, mutated = At("mutation", pc)
          PROVE  MutationSound(mutated)
      BY <1>6, <3>2, AtSound DEF Check, MutationStages, Adding
    <3>. QED BY <1>6, <2>2, <3>1, <3>2 DEF Check
  <2>. QED BY <2>1, <2>2, <2>3, MutatedTyped
<1>7. ASSUME NEW outcome \in Outcomes, RegisterInstallation(outcome) PROVE ClientTyped'
  <2>1. UNCHANGED <<identity, held, made, queued, told, alerts, calm, refreshing>>
    BY <1>7 DEF RegisterInstallation
  <2>2. PICK mutated : mutated = mutation'
    OBVIOUS
  <2>3. MutationSound(mutated)
    <3>1. CASE mutated = Resting
      BY <3>1, RestingSound
    <3>2. CASE mutated = At("mutation", "put")
      BY <1>7, <3>2, AtSound DEF RegisterInstallation, MutationStages, Adding
    <3>. QED BY <1>7, <2>2, <3>1, <3>2 DEF RegisterInstallation
  <2>4. service' \in [Installations -> [state : {"none", "active", "draining", "inactive"},
                                        ops : SUBSET Nat]]
    <3>1. PICK id : id = mutation.read.id
      OBVIOUS
    <3>2. service' \in {service, [service EXCEPT ![id] = [service[id] EXCEPT !.state = "active"]]}
      BY <1>7, <3>1 DEF RegisterInstallation
    <3>3. id \in Installations =>
             [service[id] EXCEPT !.state = "active"] \in
                [state : {"none", "active", "draining", "inactive"}, ops : SUBSET Nat]
      OBVIOUS
    <3>. QED BY <3>2, <3>3
  <2>. QED BY <2>1, <2>2, <2>3, <2>4, MutatedTyped
<1>. QED BY <1>1, <1>2, <1>3, <1>4, <1>5, <1>6, <1>7

\* A call that is answered waits for a refresh.
LEMMA JoinTyped ==
    ASSUME ClientTyped, JoinRefresh, NEW refreshed, refreshing' = refreshed
    PROVE  /\ \E mutated : mutation' = mutated /\ MutationSound(mutated) /\ mutated.pc = "joined"
           /\ RefreshSound(refreshed)
<1>1. MutationSound(At("mutation", "joined")) /\ At("mutation", "joined").pc = "joined"
  BY AtSound DEF MutationStages, Adding
<1>. QED BY <1>1, StartedSound DEF JoinRefresh, ClientTyped

\* Putting an alert, queueing it, deleting one.
LEMMA PutTyped ==
    ASSUME ClientTyped,
           \/ \E request \in PutRuleRequests, outcome \in Outcomes : Put(request, outcome)
           \/ QueueRule
           \/ \E deleted \in {{}} \cup {{r} : r \in Rules}, outcome \in Outcomes :
                 CallThenRefresh(deleted, outcome)
    PROVE  ClientTyped'
<1>. USE DEF ClientTyped
<1>1. ASSUME NEW request \in PutRuleRequests, NEW outcome \in Outcomes,
             Put(request, outcome)
      PROVE  ClientTyped'
  <2>1. /\ alerts' \in [Rules -> {"unknown", "active", "deleted"}]
        /\ \A r \in Rules : alerts[r] # "unknown" => alerts'[r] # "unknown"
    BY <1>1 DEF Put
  <2>2. UNCHANGED <<identity, held, queued, told, service, made, calm>>
    BY <1>1 DEF Put
  <2>3. CASE JoinRefresh
    BY <2>1, <2>2, <2>3, JoinTyped, FramesTyped
  <2>4. CASE mutation' = At("mutation", "queue") /\ UNCHANGED refreshing
    <3>1. MutationSound(At("mutation", "queue"))
      BY <1>1, AtSound DEF Put, MutationStages, Adding
    <3>. QED BY <2>1, <2>2, <2>4, <3>1, FramesTyped
  <2>. QED BY <1>1, <2>3, <2>4 DEF Put
<1>2. CASE QueueRule
  <2>1. mutation.rule \in Rules
    BY <1>2 DEF QueueRule, MutationSound, Adding
  <2>2. queued' \in Seq(Rules) /\ told' \in SUBSET Rules
    BY <1>2, <2>1 DEF QueueRule
  <2>3. UNCHANGED <<identity, held, alerts, service, made, calm, refreshing>> /\ mutation' = Resting
    BY <1>2 DEF QueueRule
  <2>. QED BY <2>2, <2>3, RestingSound, FramesTyped
<1>3. ASSUME NEW deleted \in {{}} \cup {{r} : r \in Rules}, NEW outcome \in Outcomes,
             CallThenRefresh(deleted, outcome)
      PROVE  ClientTyped'
  <2>1. /\ alerts' \in [Rules -> {"unknown", "active", "deleted"}]
        /\ \A r \in Rules : alerts[r] # "unknown" => alerts'[r] # "unknown"
    BY <1>3 DEF CallThenRefresh
  <2>2. UNCHANGED <<identity, held, queued, told, service, made, calm>>
    BY <1>3 DEF CallThenRefresh
  <2>3. CASE JoinRefresh
    BY <2>1, <2>2, <2>3, JoinTyped, FramesTyped
  <2>4. CASE UNCHANGED <<mutation, refreshing>>
    BY <2>1, <2>2, <2>4, FramesTyped
  <2>. QED BY <1>3, <2>3, <2>4 DEF CallThenRefresh
<1>. QED BY <1>1, <1>2, <1>3

\* Revoking the device, and a kill.
LEMMA RevokeTyped ==
    ASSUME ClientTyped,
           \/ Revoke \/ SaveOp \/ RemoveVault \/ ClearState \/ Kill
           \/ \E outcome \in Outcomes, state \in {"draining", "inactive"} : CallRevoke(outcome, state)
    PROVE  ClientTyped'
<1>. USE DEF ClientTyped
<1>1. CASE Revoke
  <2>1. PICK read : read = [id |-> held.id, op |-> RevocationOp]
    OBVIOUS
  <2>2. read \in Ids
    BY <2>1 DEF Ids, RevocationOp
  <2>3. PICK mutated : mutated = [Resting EXCEPT !.pc = IF RevocationOp = 0 THEN "saveOp" ELSE "revoke",
                                                !.read = read]
    OBVIOUS
  <2>4. MutationSound(mutated)
    BY <2>2, <2>3, RestingSound DEF MutationSound, FrameType, MutationStages, Adding, Revoking
  <2>5. mutation' = mutated
    BY <1>1, <2>1, <2>3 DEF Revoke
  <2>6. UNCHANGED <<identity, held, service, made, queued, told, alerts, calm, refreshing>>
    BY <1>1 DEF Revoke
  <2>. QED BY <2>4, <2>5, <2>6, MutatedTyped
<1>2. CASE SaveOp
  <2>1. PICK op : op = made.operations + 1
    OBVIOUS
  <2>2. op \in Nat
    BY <2>1
  <2>3. made' \in [installations : 0 .. MaxInstallations, operations : Nat]
    BY <1>2, <2>1, <2>2 DEF SaveOp
  <2>4. UNCHANGED <<service, queued, told, alerts, calm, refreshing>>
    BY <1>2 DEF SaveOp
  <2>5. CASE identity.id = 0
    BY <1>2, <2>3, <2>4, <2>5, RestingSound, MutatedTyped DEF SaveOp
  <2>6. CASE identity.id # 0
    <3>1. /\ identity' = [identity EXCEPT !.op = op] /\ held' = [held EXCEPT !.op = op]
          /\ mutation' = [mutation EXCEPT !.pc = "revoke", !.read.op = op]
      BY <1>2, <2>1, <2>6 DEF SaveOp
    <3>2. identity' \in Ids /\ held' \in Ids
      BY <2>2, <3>1 DEF Ids
    <3>3. MutationSound(mutation')
      BY <2>2, <3>1 DEF MutationSound, FrameType, Ids, MutationStages, Adding, Revoking
    <3>. QED BY <2>3, <2>4, <3>2, <3>3, MutatedTyped
  <2>. QED BY <2>5, <2>6
<1>3. CASE RemoveVault
  <2>1. MutationSound(At("mutation", "clearState"))
    BY AtSound DEF MutationStages, Adding, Revoking
  <2>. QED BY <1>3, <2>1, MutatedTyped DEF RemoveVault
<1>4. CASE ClearState
  BY <1>4, RestingSound, MutatedTyped DEF ClearState
<1>5. CASE Kill
  BY <1>5, RestingSound, FramesTyped DEF Kill
<1>6. ASSUME NEW outcome \in Outcomes, NEW state \in {"draining", "inactive"},
             CallRevoke(outcome, state)
      PROVE  ClientTyped'
  <2>1. mutation.read.op \in Nat
    BY DEF MutationSound, FrameType, Ids
  <2>2. service' \in [Installations -> [state : {"none", "active", "draining", "inactive"},
                                        ops : SUBSET Nat]]
    BY <1>6, <2>1 DEF CallRevoke
  <2>3. mutation' \in {At("mutation", "removeVault"), Resting}
    BY <1>6 DEF CallRevoke
  <2>4. MutationSound(At("mutation", "removeVault"))
    BY AtSound DEF MutationStages, Adding, Revoking
  <2>5. UNCHANGED <<identity, held, made, queued, told, alerts, calm, refreshing>>
    BY <1>6 DEF CallRevoke
  <2>. QED BY <2>2, <2>3, <2>4, <2>5, RestingSound, MutatedTyped
<1>. QED BY <1>1, <1>2, <1>3, <1>4, <1>5, <1>6

\* An alert that is queued, or that the service has, stays so.
LEMMA QueuedKept ==
    ASSUME ClientTyped, QueuedAlertKept, ClientNext
    PROVE  QueuedAlertKept'
<1>. USE DEF ClientTyped
<1>1. ASSUME UNCHANGED <<told, queued>>,
             \A r \in Rules : alerts[r] # "unknown" => alerts'[r] # "unknown"
      PROVE  QueuedAlertKept'
  BY <1>1 DEF QueuedAlertKept
<1>2. CASE ReadSnapshot
  <2>1. queued' = Remaining(refreshing.done) /\ UNCHANGED <<told, alerts>>
    BY <1>2 DEF ReadSnapshot
  <2>2. ASSUME NEW r \in told
        PROVE  alerts[r] # "unknown" \/ \E n \in DOMAIN queued' : queued'[n] = r
    <3>1. CASE r \in refreshing.done
      BY <3>1 DEF RefreshSound
    <3>2. CASE r \notin refreshing.done
      BY <2>1, <2>2, <3>2, RemainingKeeps DEF QueuedAlertKept
    <3>. QED BY <3>1, <3>2
  <2>. QED BY <2>1, <2>2 DEF QueuedAlertKept
<1>3. CASE QueueRule
  <2>1. CASE hydrated /\ Len(queued) < MaxPending
    <3>1. /\ queued' = Append(queued, mutation.rule) /\ told' = told \cup {mutation.rule}
          /\ UNCHANGED alerts
      BY <1>3, <2>1 DEF QueueRule
    <3>2. mutation.rule \in Rules
      BY <1>3 DEF QueueRule, MutationSound, Adding
    <3>3. PICK longer : longer = Append(queued, mutation.rule)
      OBVIOUS
    <3>4. /\ \A n \in DOMAIN queued : n \in DOMAIN longer /\ longer[n] = queued[n]
          /\ Len(queued) + 1 \in DOMAIN longer /\ longer[Len(queued) + 1] = mutation.rule
      BY <3>2, <3>3
    <3>. QED BY <3>1, <3>3, <3>4 DEF QueuedAlertKept
  <2>2. CASE ~(hydrated /\ Len(queued) < MaxPending)
    BY <1>1, <1>3, <2>2 DEF QueueRule
  <2>. QED BY <2>1, <2>2
<1>4. ASSUME NEW request \in PutRuleRequests, NEW outcome \in Outcomes,
             ReplayQueued(request, outcome) \/ Put(request, outcome)
      PROVE  QueuedAlertKept'
  <2>1. \/ alerts' = alerts
        \/ \E rule : alerts' = [alerts EXCEPT ![rule] = "active"]
    BY <1>4 DEF ReplayQueued, Put
  <2>. QED BY <1>1, <1>4, <2>1 DEF ReplayQueued, Put
<1>5. ASSUME NEW deleted \in {{}} \cup {{r} : r \in Rules}, NEW outcome \in Outcomes,
             CallThenRefresh(deleted, outcome)
      PROVE  QueuedAlertKept'
  BY <1>1, <1>5 DEF CallThenRefresh
<1>6. CASE UNCHANGED <<told, queued, alerts>>
  BY <1>1, <1>6
<1>. QED BY <1>2, <1>3, <1>4, <1>5, <1>6
         DEF ClientNext, Refresh, HydrateQueue, WriteState, WriteVault, WriteRefused, Revoke, SaveOp,
             RemoveVault, ClearState, Kill, LoadState, LoadVault, ClearStale, StorageRefused, Enable,
             Access, Check, RegisterInstallation, CallRevoke

-----------------------------------------------------------------------------
(* Of a user who waits for a refresh to end. *)

Gone(i) == service[i].state = "inactive"

\* What the service has is what the device has the authority over, and is
\* revoked by the one operation the device has saved.
ServiceFits ==
    /\ \A i \in Installations :
          /\ service[i].state \in {"active", "draining"} => identity.id = i /\ i \in vault
          /\ identity.id = i => service[i].ops \subseteq {identity.op} \ {0}
          /\ \E op \in Nat : service[i].ops \subseteq {op}
          /\ i > made.installations => service[i] = Unknown
    /\ identity.id <= made.installations

\* The copy in memory is the stored identity, with its credential until the
\* service has nothing of it.
HeldFits == held.id # 0 => held = identity /\ (held.id \in vault \/ Gone(held.id))

\* What was read is what is stored.
ReadFits(frame) ==
    /\ frame.pc = "loadVault" => frame.read = identity /\ identity.id # 0
    /\ frame.pc = "clearStale" => frame.read = identity /\ identity.id \notin vault

MutationFits ==
    /\ mutation.pc = "writeState" => identity.id = 0 /\ held.id = 0
    /\ mutation.pc = "writeVault" =>
          /\ mutation.read = identity /\ identity.id # 0 /\ held.id = 0
          /\ service[identity.id] = Unknown
    /\ mutation.pc \in {"check", "register"} =>
          /\ mutation.read.id = identity.id /\ identity.id # 0
          /\ identity.id \in vault \/ Gone(identity.id)
    /\ mutation.pc = "saveOp" =>
          mutation.read = identity /\ held = identity /\ identity.op = 0 /\ identity.id # 0
    /\ mutation.pc = "revoke" => mutation.read = identity /\ identity.op # 0 /\ identity.id # 0
    /\ mutation.pc \in {"removeVault", "clearState"} =>
          mutation.read = identity /\ Gone(identity.id) /\ identity.id # 0

OneByOne == mutation.pc \in {"idle", "joined"} \/ refreshing.pc = "idle"

AuthorityFits ==
    /\ OneByOne /\ ServiceFits /\ HeldFits
    /\ ReadFits(mutation) /\ ReadFits(refreshing) /\ MutationFits

\* Nothing is known of a new device.
LEMMA AuthorityInit == ClientInit => AuthorityFits
<1>. SUFFICES ASSUME ClientInit PROVE AuthorityFits
  OBVIOUS
<1>1. ServiceFits
  BY ClientAssumption DEF ClientInit, ServiceFits, Unknown, Nobody, Installations
<1>2. HeldFits
  BY DEF ClientInit, HeldFits, Nobody
<1>. QED BY <1>1, <1>2 DEF ClientInit, AuthorityFits, OneByOne, ReadFits, MutationFits, Resting

\* A step that leaves the stores and the service alone.
LEMMA StoresSame ==
    ASSUME AuthorityFits, UNCHANGED <<identity, vault, service, made>>,
           held' = held \/ held'.id = 0
    PROVE  ServiceFits' /\ HeldFits'
BY DEF AuthorityFits, ServiceFits, HeldFits, Gone

\* A frame that rests, or is where nothing is asked of it.
LEMMA Quiet ==
    ASSUME NEW frame, frame.pc \notin {"loadVault", "clearStale"}
    PROVE  ReadFits(frame) /\ ReadFits(frame)'
BY DEF ReadFits

\* Loading the authority: nothing else runs between the reads.
LEMMA LoadKeepsAuthority ==
    ASSUME ClientTyped, AuthorityFits, NEW a \in Frames,
           LoadState(a) \/ LoadVault(a) \/ ClearStale(a) \/ StorageRefused(a)
    PROVE  AuthorityFits'
<1>. USE DEF ClientTyped
<1>0. a = "mutation" \/ a = "refresh"
  BY DEF Frames
<1>1. Frame(a) \in FrameType /\ Frame(a).read \in Ids
  BY DEF Frame, MutationSound, RefreshSound, FrameType
<1>2. UNCHANGED <<vault, service, made>>
  BY DEF LoadState, LoadVault, ClearStale, StorageRefused
<1>3. /\ Resting.pc = "idle"
      /\ Frame(a).pc \in {"load", "loadVault", "clearStale", "saveOp", "removeVault",
                          "clearState", "snapshot"}
  BY RestingSound DEF LoadState, LoadVault, ClearStale, StorageRefused
<1>4. /\ a = "refresh" => mutation.pc \in {"idle", "joined"}
      /\ a = "mutation" => refreshing.pc = "idle"
  BY <1>3 DEF AuthorityFits, OneByOne, Frame, RefreshSound, RefreshStages
<1>5. /\ ServiceFits' /\ HeldFits'
      /\ identity' = identity \/ (ClearStale(a) /\ identity'.id = 0 /\ held'.id = 0)
  <2>1. CASE LoadState(a) \/ StorageRefused(a)
    BY <1>2, <2>1, StoresSame DEF LoadState, StorageRefused, Nobody
  <2>2. CASE LoadVault(a)
    <3>1. identity' = identity /\ Frame(a).read = identity
      BY <1>0, <2>2 DEF LoadVault, AuthorityFits, ReadFits, Frame
    <3>2. held' = held \/ (held' = identity /\ identity.id \in vault)
      BY <2>2, <3>1 DEF LoadVault
    <3>. QED BY <1>2, <3>1, <3>2 DEF AuthorityFits, ServiceFits, HeldFits, Gone
  <2>3. CASE ClearStale(a)
    <3>1. identity' = Nobody /\ held' = Nobody /\ identity.id \notin vault
      BY <1>0, <2>3 DEF ClearStale, AuthorityFits, ReadFits, Frame
    <3>2. \A i \in Installations : service[i].state \notin {"active", "draining"}
      BY <3>1 DEF AuthorityFits, ServiceFits
    <3>3. 0 \notin Installations /\ 0 <= made.installations
      BY DEF Installations
    <3>4. ServiceFits'
      BY <1>2, <3>1, <3>2, <3>3 DEF AuthorityFits, ServiceFits, Nobody
    <3>. QED BY <2>3, <3>1, <3>4 DEF HeldFits, Nobody
  <2>. QED BY <2>1, <2>2, <2>3
<1>6. CASE a = "refresh"
  <2>1. \/ RefreshEnds
        \/ /\ mutation' = mutation
           /\ ReadFits(refreshing)'
    <3>1. CASE LoadState(a) /\ identity.id # 0
      <4>1. refreshing' = [refreshing EXCEPT !.pc = "loadVault", !.read = identity]
              /\ mutation' = mutation /\ identity' = identity
        BY <1>6, <3>1 DEF LoadState, Moves, At, Frame
      <4>2. refreshing'.pc = "loadVault" /\ refreshing'.read = identity'
        BY <1>1, <1>6, <4>1 DEF Frame, FrameType
      <4>. QED BY <3>1, <4>1, <4>2 DEF ReadFits
    <3>2. CASE LoadState(a) /\ identity.id = 0
      BY <1>6, <3>2 DEF LoadState, Absent
    <3>3. CASE LoadVault(a)
      <4>1. /\ \E pc \in {"hydrate", "clearStale"} :
                  /\ refreshing' = [refreshing EXCEPT !.pc = pc]
                  /\ pc = "clearStale" => refreshing.read.id \notin vault
            /\ mutation' = mutation /\ identity' = identity /\ refreshing.pc = "loadVault"
        BY <1>6, <3>3 DEF LoadVault, Moves, At, Frame, Found
      <4>2. refreshing.read = identity
        BY <4>1 DEF AuthorityFits, ReadFits
      <4>3. refreshing'.pc # "loadVault" /\ refreshing'.read = identity
        BY <1>1, <1>6, <4>1, <4>2 DEF Frame, FrameType
      <4>4. refreshing'.pc = "clearStale" => identity.id \notin vault
        BY <1>1, <1>6, <4>1, <4>2 DEF Frame, FrameType
      <4>. QED BY <1>2, <4>1, <4>3, <4>4 DEF ReadFits
    <3>4. CASE ClearStale(a)
      BY <1>6, <3>4 DEF ClearStale, Absent
    <3>5. CASE StorageRefused(a)
      BY <1>6, <3>5 DEF StorageRefused
    <3>. QED BY <3>1, <3>2, <3>3, <3>4, <3>5
  <2>2. mutation'.pc \in {"idle", "joined"}
    BY <1>3, <1>4, <1>6, <2>1 DEF RefreshEnds
  <2>3. ReadFits(refreshing)'
    BY <1>3, <2>1 DEF RefreshEnds, ReadFits
  <2>. QED BY <1>5, <2>2, <2>3 DEF AuthorityFits, OneByOne, ReadFits, MutationFits
<1>7. CASE a = "mutation"
  <2>1. refreshing' = refreshing /\ refreshing.pc = "idle"
    BY <1>4, <1>7 DEF LoadState, LoadVault, ClearStale, StorageRefused, Moves, Absent, Found
  <2>2. ReadFits(mutation)' /\ MutationFits'
    <3>1. CASE LoadState(a) /\ identity.id # 0
      <4>1. mutation' = [mutation EXCEPT !.pc = "loadVault", !.read = identity]
              /\ identity' = identity
        BY <1>7, <3>1 DEF LoadState, Moves, At, Frame
      <4>2. mutation'.pc = "loadVault" /\ mutation'.read = identity'
        BY <1>1, <1>7, <4>1 DEF Frame, FrameType
      <4>. QED BY <3>1, <4>1, <4>2 DEF ReadFits, MutationFits
    <3>2. CASE (LoadState(a) /\ identity.id = 0) \/ ClearStale(a)
      <4>1. mutation' = [mutation EXCEPT !.pc = "writeState"] /\ identity'.id = 0 /\ held'.id = 0
        BY <1>7, <3>2 DEF LoadState, ClearStale, Moves, At, Frame, Absent, Nobody
      <4>2. mutation'.pc = "writeState"
        BY <1>1, <1>7, <4>1 DEF Frame, FrameType
      <4>. QED BY <4>1, <4>2 DEF ReadFits, MutationFits
    <3>3. CASE LoadVault(a)
      <4>1. /\ \/ mutation' = [mutation EXCEPT !.pc = "check"] /\ mutation.read.id \in vault
               \/ mutation' = [mutation EXCEPT !.pc = "clearStale"] /\ mutation.read.id \notin vault
            /\ identity' = identity /\ mutation.pc = "loadVault"
        BY <1>7, <3>3 DEF LoadVault, Moves, At, Frame, Found
      <4>2. mutation.read = identity /\ identity.id # 0
        BY <4>1 DEF AuthorityFits, ReadFits
      <4>3. /\ mutation'.pc \in {"check", "clearStale"} /\ mutation'.read = identity
            /\ mutation'.pc = "check" => identity.id \in vault
            /\ mutation'.pc = "clearStale" => identity.id \notin vault
        BY <1>1, <1>7, <4>1, <4>2 DEF Frame, FrameType
      <4>. QED BY <1>2, <4>1, <4>2, <4>3 DEF ReadFits, MutationFits
    <3>4. CASE StorageRefused(a)
      <4>1. mutation' = Resting
        BY <1>7, <3>4 DEF StorageRefused, Moves
      <4>. QED BY <1>3, <4>1 DEF ReadFits, MutationFits
    <3>. QED BY <3>1, <3>2, <3>3, <3>4
  <2>. QED BY <1>5, <2>1, <2>2 DEF AuthorityFits, OneByOne, ReadFits
<1>. QED BY <1>0, <1>6, <1>7

\* Where the mutation goes on from, keeping what it read.
LEMMA AtPlace ==
    ASSUME ClientTyped, NEW pc
    PROVE  At("mutation", pc).pc = pc /\ At("mutation", pc).read = mutation.read
BY DEF ClientTyped, MutationSound, At, Frame, FrameType

\* Nothing under way that the stores have to fit.
LEMMA StandsStill ==
    ASSUME ServiceFits', HeldFits', mutation'.pc \in {"idle", "joined", "access", "put", "queue"},
           refreshing'.pc \notin {"loadVault", "clearStale"},
           mutation'.pc \in {"idle", "joined"} \/ refreshing'.pc = "idle"
    PROVE  AuthorityFits'
BY DEF AuthorityFits, OneByOne, ReadFits, MutationFits

\* A mutation moves on, alone.
LEMMA MovesOn ==
    ASSUME ServiceFits', HeldFits', MutationFits',
           mutation'.pc \notin {"loadVault", "clearStale"}, refreshing'.pc = "idle"
    PROVE  AuthorityFits'
BY DEF AuthorityFits, OneByOne, ReadFits

\* The steps of a refresh.
LEMMA RefreshKeepsAuthority ==
    ASSUME ClientTyped, calm, AuthorityFits,
           \/ Refresh \/ HydrateQueue \/ ReadSnapshot
           \/ \E request \in PutRuleRequests, outcome \in Outcomes : ReplayQueued(request, outcome)
    PROVE  AuthorityFits'
<1>1. UNCHANGED <<identity, vault, held, service, made>>
  BY DEF Refresh, HydrateQueue, ReadSnapshot, ReplayQueued
<1>2. ServiceFits' /\ HeldFits'
  BY <1>1, StoresSame
<1>3. mutation'.pc \in {"idle", "joined"}
  <2>1. CASE Refresh
    BY <2>1 DEF Refresh
  <2>2. mutation.pc \in {"idle", "joined"} \/ Refresh
    BY DEF HydrateQueue, ReadSnapshot, ReplayQueued, AuthorityFits, OneByOne, ClientTyped,
           RefreshSound, RefreshStages, RefreshEnds
  <2>3. mutation' = mutation \/ mutation' = Resting
    BY DEF Refresh, HydrateQueue, ReadSnapshot, ReplayQueued, RefreshEnds
  <2>. QED BY <2>1, <2>2, <2>3, RestingSound
<1>4. refreshing'.pc \in {"idle", "hydrate", "load", "replay", "snapshot"}
  <2>1. CASE Refresh
    BY <2>1, StartedSound DEF Refresh
  <2>2. CASE HydrateQueue
    BY <2>2 DEF HydrateQueue, ClientTyped, RefreshSound, FrameType, At, Frame
  <2>3. CASE ReadSnapshot
    BY <2>3, RestingSound DEF ReadSnapshot, RefreshEnds
  <2>4. ASSUME NEW request \in PutRuleRequests, NEW outcome \in Outcomes,
             ReplayQueued(request, outcome)
        PROVE  refreshing'.pc \in {"replay", "snapshot"}
    <3>1. PICK frame : frame = Replayed(refreshing, PutRule(refreshing.read.id, request, outcome)
                                                      /\ outcome = "answered")
      OBVIOUS
    <3>2. DOMAIN frame = DOMAIN refreshing
      BY <3>1 DEF Replayed
    <3>3. refreshing' = [frame EXCEPT !.pc = IF frame.todo = <<>> THEN "snapshot" ELSE "replay"]
      BY <2>4, <3>1 DEF ReplayQueued
    <3>4. "pc" \in DOMAIN refreshing
      BY DEF ClientTyped, RefreshSound, FrameType
    <3>. QED BY <3>2, <3>3, <3>4
  <2>. QED BY <2>1, <2>2, <2>3, <2>4
<1>. QED BY <1>2, <1>3, <1>4, StandsStill

\* Adding an alert: the identity is written first, then its credential.
LEMMA AddingKeepsAuthority ==
    ASSUME ClientTyped, calm, AuthorityFits,
           \/ WriteState \/ WriteVault \/ WriteRefused \/ QueueRule
           \/ \E rule \in Rules : Enable(rule)
           \/ \E granted \in BOOLEAN : Access(granted)
    PROVE  AuthorityFits'
<1>. USE DEF ClientTyped
<1>1. ASSUME NEW rule \in Rules, Enable(rule) PROVE AuthorityFits'
  <2>1. ServiceFits' /\ HeldFits'
    BY <1>1, StoresSame DEF Enable
  <2>2. mutation'.pc = "access" /\ refreshing'.pc = "idle"
    BY <1>1 DEF Enable, MayMutate, Resting
  <2>. QED BY <2>1, <2>2, StandsStill
<1>2. refreshing.pc = "idle" \/ mutation.pc \in {"idle", "joined"}
  BY DEF AuthorityFits, OneByOne
<1>3. ASSUME NEW granted \in BOOLEAN, Access(granted) PROVE AuthorityFits'
  <2>1. ServiceFits' /\ HeldFits'
    BY <1>3, StoresSame DEF Access
  <2>2. refreshing'.pc = "idle"
    BY <1>2, <1>3 DEF Access
  <2>3. CASE mutation' = Resting
    BY <2>1, <2>2, <2>3, RestingSound, StandsStill
  <2>4. CASE mutation' = [mutation EXCEPT !.pc = "check", !.read = held] /\ held.id # 0
    <3>1. mutation'.pc = "check" /\ mutation'.read = held
      BY <2>4 DEF MutationSound, FrameType
    <3>2. held = identity /\ (held.id \in vault \/ Gone(held.id))
      BY <2>4 DEF AuthorityFits, HeldFits
    <3>3. UNCHANGED <<identity, vault, service>>
      BY <1>3 DEF Access
    <3>4. MutationFits'
      BY <2>4, <3>1, <3>2, <3>3 DEF MutationFits, Gone
    <3>. QED BY <2>1, <2>2, <3>1, <3>4, MovesOn
  <2>5. CASE mutation' = At("mutation", "load")
    <3>1. MutationFits'
      BY <2>5, AtPlace DEF MutationFits
    <3>. QED BY <2>1, <2>2, <2>5, <3>1, AtPlace, MovesOn
  <2>. QED BY <1>3, <2>3, <2>4, <2>5 DEF Access
<1>4. CASE WriteState
  <2>1. PICK new : new = [id |-> made.installations + 1, op |-> 0]
    OBVIOUS
  <2>2. /\ identity' = new /\ mutation' = [mutation EXCEPT !.pc = "writeVault", !.read = new]
        /\ UNCHANGED <<vault, held, service, refreshing>>
    BY <1>4, <2>1 DEF WriteState
  <2>3. identity.id = 0 /\ held.id = 0
    BY <1>4 DEF WriteState, AuthorityFits, MutationFits
  <2>4. made.installations \in Nat /\ made.installations < MaxInstallations
          /\ made'.installations = made.installations + 1
    BY <1>4, ClientAssumption DEF WriteState
  <2>5. new.id = made.installations + 1 /\ new.id \in Installations /\ new.op = 0
    BY <2>1, <2>4, ClientAssumption DEF Installations
  <2>6. service[new.id] = Unknown
    BY <2>4, <2>5 DEF AuthorityFits, ServiceFits
  <2>7. \A i \in Installations : service[i].state \notin {"active", "draining"}
    BY <2>3 DEF AuthorityFits, ServiceFits, Installations
  <2>8. ServiceFits'
    <3>1. ASSUME NEW i \in Installations, identity'.id = i
          PROVE  service'[i].ops \subseteq {identity'.op} \ {0}
      BY <2>2, <2>6, <3>1 DEF Unknown
    <3>2. ASSUME NEW i \in Installations, i > made'.installations PROVE service'[i] = Unknown
      BY <2>2, <2>4, <3>2 DEF AuthorityFits, ServiceFits, Installations
    <3>3. \A i \in Installations : \E op \in Nat : service'[i].ops \subseteq {op}
      BY <2>2 DEF AuthorityFits, ServiceFits
    <3>. QED BY <2>2, <2>4, <2>5, <2>7, <3>1, <3>2, <3>3 DEF ServiceFits
  <2>9. mutation'.pc = "writeVault" /\ mutation'.read = new
    BY <2>2 DEF MutationSound, FrameType
  <2>10. MutationFits'
    BY <2>2, <2>3, <2>5, <2>6, <2>9 DEF MutationFits, Installations
  <2>11. HeldFits'
    BY <2>2, <2>3 DEF HeldFits
  <2>12. refreshing'.pc = "idle"
    BY <1>2, <1>4, <2>2 DEF WriteState
  <2>. QED BY <2>8, <2>9, <2>10, <2>11, <2>12, MovesOn
<1>5. CASE WriteVault
  <2>1. /\ mutation.read = identity /\ identity.id # 0
        /\ service[identity.id] = Unknown
    BY <1>5 DEF WriteVault, AuthorityFits, MutationFits
  <2>2. /\ vault' = vault \cup {identity.id} /\ held' = identity
        /\ mutation' = At("mutation", "register")
        /\ UNCHANGED <<identity, service, made, refreshing>>
    BY <1>5, <2>1 DEF WriteVault
  <2>3. ServiceFits'
    BY <2>2 DEF AuthorityFits, ServiceFits
  <2>4. HeldFits'
    BY <2>2 DEF HeldFits
  <2>5. MutationFits'
    BY <2>1, <2>2, AtPlace DEF MutationFits
  <2>6. refreshing'.pc = "idle"
    BY <1>2, <1>5, <2>2 DEF WriteVault
  <2>. QED BY <2>2, <2>3, <2>4, <2>5, <2>6, AtPlace, MovesOn
<1>6. CASE WriteRefused
  <2>1. held.id = 0 /\ \A i \in Installations : service[i].state \notin {"active", "draining"}
    <3>1. CASE mutation.pc = "writeState"
      BY <3>1 DEF AuthorityFits, MutationFits, ServiceFits, Installations
    <3>2. CASE mutation.pc = "writeVault"
      BY <3>2 DEF AuthorityFits, MutationFits, ServiceFits, Unknown
    <3>. QED BY <1>6, <3>1, <3>2 DEF WriteRefused
  <2>2. identity' = Nobody /\ mutation' = Resting /\ UNCHANGED <<held, service, made, refreshing>>
    BY <1>6 DEF WriteRefused
  <2>3. ServiceFits'
    BY <2>1, <2>2 DEF AuthorityFits, ServiceFits, Nobody, Installations
  <2>4. HeldFits'
    BY <2>1, <2>2 DEF HeldFits
  <2>5. refreshing'.pc = "idle"
    BY <1>2, <1>6, <2>2 DEF WriteRefused
  <2>. QED BY <2>2, <2>3, <2>4, <2>5, RestingSound, StandsStill
<1>7. CASE QueueRule
  <2>1. ServiceFits' /\ HeldFits'
    BY <1>7, StoresSame DEF QueueRule
  <2>2. mutation' = Resting /\ refreshing'.pc = "idle"
    BY <1>2, <1>7 DEF QueueRule
  <2>. QED BY <2>1, <2>2, RestingSound, StandsStill
<1>. QED BY <1>1, <1>3, <1>4, <1>5, <1>6, <1>7

\* The calls of an added alert, and those that a refresh follows.
LEMMA CallsKeepAuthority ==
    ASSUME ClientTyped, calm, AuthorityFits,
           \/ \E outcome \in Outcomes : Check(outcome) \/ RegisterInstallation(outcome)
           \/ \E request \in PutRuleRequests, outcome \in Outcomes : Put(request, outcome)
           \/ \E deleted \in {{}} \cup {{r} : r \in Rules}, outcome \in Outcomes :
                 CallThenRefresh(deleted, outcome)
    PROVE  AuthorityFits'
<1>. USE DEF ClientTyped
<1>0. refreshing.pc = "idle" \/ mutation.pc \in {"idle", "joined"}
  BY DEF AuthorityFits, OneByOne
<1>1. ASSUME NEW outcome \in Outcomes, Check(outcome) PROVE AuthorityFits'
  <2>1. UNCHANGED <<identity, vault, held, service, made, refreshing>>
    BY <1>1 DEF Check
  <2>2. ServiceFits' /\ HeldFits'
    BY <2>1, StoresSame
  <2>3. mutation.pc = "check" /\ refreshing'.pc = "idle"
    BY <1>0, <1>1, <2>1 DEF Check
  <2>4. ASSUME mutation' = Resting \/ mutation' = At("mutation", "put") PROVE AuthorityFits'
    BY <2>2, <2>3, <2>4, RestingSound, AtPlace, StandsStill
  <2>5. CASE mutation' = At("mutation", "register")
    <3>1. mutation'.pc = "register" /\ mutation'.read = mutation.read
      BY <2>5, AtPlace
    <3>2. MutationFits'
      BY <2>1, <2>3, <3>1 DEF AuthorityFits, MutationFits, Gone
    <3>. QED BY <2>2, <2>3, <3>1, <3>2, MovesOn
  <2>. QED BY <1>1, <2>4, <2>5 DEF Check
<1>2. ASSUME NEW outcome \in Outcomes, RegisterInstallation(outcome) PROVE AuthorityFits'
  <2>1. PICK id : id = mutation.read.id
    OBVIOUS
  <2>2. id = identity.id /\ id # 0 /\ (id \in vault \/ Gone(id)) /\ id \in Installations
    BY <1>2, <2>1 DEF RegisterInstallation, AuthorityFits, MutationFits, Ids, Installations
  <2>3. UNCHANGED <<identity, vault, held, made, refreshing>>
    BY <1>2 DEF RegisterInstallation
  <2>4. \/ service' = service
        \/ service' = [service EXCEPT ![id].state = "active"] /\ ~Gone(id)
    BY <1>2, <2>1 DEF RegisterInstallation, Gone
  <2>5. ServiceFits' /\ HeldFits'
    <3>1. CASE service' = service
      BY <2>3, <3>1, StoresSame
    <3>2. CASE service' = [service EXCEPT ![id].state = "active"] /\ ~Gone(id)
      <4>1. /\ service'[id].state = "active" /\ service'[id].ops = service[id].ops
            /\ \A i \in Installations : i # id => service'[i] = service[i]
        BY <2>2, <3>2
      <4>2. id <= made.installations
        BY <2>2 DEF AuthorityFits, ServiceFits
      <4>3. \A i \in Installations : i > made.installations => i # id
        BY <2>2, <4>2 DEF Installations
      <4>4. \A i \in Installations : service'[i].ops = service[i].ops
        BY <4>1
      <4>5. ServiceFits'
        BY <2>2, <2>3, <3>2, <4>1, <4>3, <4>4 DEF AuthorityFits, ServiceFits
      <4>6. HeldFits'
        BY <2>2, <2>3, <3>2 DEF AuthorityFits, HeldFits
      <4>. QED BY <4>5, <4>6
    <3>. QED BY <2>4, <3>1, <3>2
  <2>6. refreshing'.pc = "idle"
    BY <1>0, <1>2, <2>3 DEF RegisterInstallation
  <2>7. mutation'.pc \in {"idle", "put"}
    BY <1>2, RestingSound, AtPlace DEF RegisterInstallation
  <2>. QED BY <2>5, <2>6, <2>7, StandsStill
<1>3. ASSUME UNCHANGED <<identity, vault, held, service, made>>, JoinRefresh
      PROVE  AuthorityFits'
  <2>1. ServiceFits' /\ HeldFits'
    BY <1>3, StoresSame
  <2>2. mutation'.pc = "joined"
    BY <1>3, AtPlace DEF JoinRefresh
  <2>3. CASE refreshing' = StartedRefresh
    BY <2>1, <2>2, <2>3, StartedSound, StandsStill
  <2>4. CASE refreshing' = refreshing
    <3>1. ReadFits(refreshing)'
      BY <1>3, <2>4 DEF AuthorityFits, ReadFits
    <3>. QED BY <2>1, <2>2, <3>1 DEF AuthorityFits, OneByOne, ReadFits, MutationFits
  <2>. QED BY <1>3, <2>3, <2>4 DEF JoinRefresh
<1>4. ASSUME NEW request \in PutRuleRequests, NEW outcome \in Outcomes,
             Put(request, outcome)
      PROVE  AuthorityFits'
  <2>1. UNCHANGED <<identity, vault, held, service, made>>
    BY <1>4 DEF Put
  <2>2. CASE JoinRefresh
    BY <1>3, <2>1, <2>2
  <2>3. CASE mutation' = At("mutation", "queue") /\ UNCHANGED refreshing
    <3>1. refreshing'.pc = "idle"
      BY <1>0, <1>4, <2>3 DEF Put
    <3>. QED BY <2>1, <2>3, <3>1, StoresSame, AtPlace, StandsStill
  <2>. QED BY <1>4, <2>2, <2>3 DEF Put
<1>5. ASSUME NEW deleted \in {{}} \cup {{r} : r \in Rules}, NEW outcome \in Outcomes,
             CallThenRefresh(deleted, outcome)
      PROVE  AuthorityFits'
  <2>1. UNCHANGED <<identity, vault, held, service, made>>
    BY <1>5 DEF CallThenRefresh
  <2>2. CASE JoinRefresh
    BY <1>3, <2>1, <2>2
  <2>3. CASE UNCHANGED <<mutation, refreshing>>
    <3>1. refreshing'.pc = "idle" /\ mutation'.pc = "idle"
      BY <1>5, <2>3 DEF CallThenRefresh, MayMutate
    <3>. QED BY <2>1, <3>1, StoresSame, StandsStill
  <2>. QED BY <1>5, <2>2, <2>3 DEF CallThenRefresh
<1>. QED BY <1>1, <1>2, <1>4, <1>5

\* Revoking the device: the credential goes only when the service has nothing of
\* the identity, and the state after the credential.
LEMMA RevokeKeepsAuthority ==
    ASSUME ClientTyped, calm, AuthorityFits,
           \/ Revoke \/ SaveOp \/ RemoveVault \/ ClearState \/ Kill
           \/ \E outcome \in Outcomes, state \in {"draining", "inactive"} : CallRevoke(outcome, state)
    PROVE  AuthorityFits'
<1>. USE DEF ClientTyped
<1>0. refreshing.pc = "idle" \/ mutation.pc \in {"idle", "joined"}
  BY DEF AuthorityFits, OneByOne
<1>1. CASE Revoke
  <2>1. ServiceFits' /\ HeldFits' /\ UNCHANGED <<identity, vault, held, service, made, refreshing>>
    BY <1>1, StoresSame DEF Revoke
  <2>2. held = identity /\ held.id # 0
    BY <1>1 DEF Revoke, AuthorityFits, HeldFits
  <2>3. [id |-> held.id, op |-> held.op] = held
    BY DEF Ids
  <2>4. /\ mutation'.pc = IF held.op = 0 THEN "saveOp" ELSE "revoke"
        /\ mutation'.read = held
    BY <1>1, <2>3 DEF Revoke, RevocationOp, Resting
  <2>5. MutationFits'
    BY <2>1, <2>2, <2>4 DEF MutationFits
  <2>6. refreshing'.pc = "idle"
    BY <1>1, <2>1 DEF Revoke, MayMutate
  <2>. QED BY <2>1, <2>4, <2>5, <2>6, MovesOn
<1>2. CASE SaveOp
  <2>1. /\ mutation.read = identity /\ held = identity /\ identity.op = 0 /\ identity.id # 0
    BY <1>2 DEF SaveOp, AuthorityFits, MutationFits
  <2>2. PICK op : op = made.operations + 1
    OBVIOUS
  <2>3. op \in Nat /\ op # 0
    BY <2>2
  <2>4. /\ identity' = [identity EXCEPT !.op = op] /\ held' = [held EXCEPT !.op = op]
        /\ mutation' = [mutation EXCEPT !.pc = "revoke", !.read.op = op]
        /\ made'.installations = made.installations
        /\ UNCHANGED <<vault, service, refreshing>>
    BY <1>2, <2>1, <2>2 DEF SaveOp
  <2>5. held' = identity' /\ identity'.id = identity.id /\ identity'.op = op
    BY <2>1, <2>4 DEF Ids
  <2>6. mutation'.pc = "revoke" /\ mutation'.read = identity'
    BY <2>1, <2>4 DEF MutationSound, FrameType
  <2>7. ServiceFits'
    <3>1. ASSUME NEW i \in Installations, identity.id = i PROVE service[i].ops = {}
      BY <2>1, <3>1 DEF AuthorityFits, ServiceFits
    <3>. QED BY <2>4, <2>5, <3>1 DEF AuthorityFits, ServiceFits
  <2>8. HeldFits'
    BY <2>1, <2>4, <2>5 DEF AuthorityFits, HeldFits, Gone
  <2>9. MutationFits'
    BY <2>1, <2>3, <2>5, <2>6 DEF MutationFits
  <2>10. refreshing'.pc = "idle"
    BY <1>0, <1>2, <2>4 DEF SaveOp
  <2>. QED BY <2>6, <2>7, <2>8, <2>9, <2>10, MovesOn
<1>3. CASE RemoveVault
  <2>1. mutation.read = identity /\ Gone(identity.id) /\ identity.id # 0
    BY <1>3 DEF RemoveVault, AuthorityFits, MutationFits
  <2>2. /\ vault' = vault \ {identity.id} /\ mutation' = At("mutation", "clearState")
        /\ UNCHANGED <<identity, held, service, made, refreshing>>
    BY <1>3, <2>1 DEF RemoveVault
  <2>3. ServiceFits'
    BY <2>1, <2>2 DEF AuthorityFits, ServiceFits, Gone
  <2>4. HeldFits'
    BY <2>1, <2>2 DEF AuthorityFits, HeldFits, Gone
  <2>5. MutationFits'
    BY <2>1, <2>2, AtPlace DEF MutationFits, Gone
  <2>6. refreshing'.pc = "idle"
    BY <1>0, <1>3, <2>2 DEF RemoveVault
  <2>. QED BY <2>2, <2>3, <2>4, <2>5, <2>6, AtPlace, MovesOn
<1>4. CASE ClearState
  <2>1. Gone(identity.id) /\ identity.id # 0
    BY <1>4 DEF ClearState, AuthorityFits, MutationFits
  <2>2. \A i \in Installations : service[i].state \notin {"active", "draining"}
    BY <2>1 DEF AuthorityFits, ServiceFits, Gone
  <2>3. /\ identity' = Nobody /\ held' = Nobody /\ mutation' = Resting
        /\ UNCHANGED <<vault, service, made, refreshing>>
    BY <1>4 DEF ClearState
  <2>4. ServiceFits'
    BY <2>2, <2>3 DEF AuthorityFits, ServiceFits, Nobody, Installations
  <2>5. HeldFits'
    BY <2>3 DEF HeldFits, Nobody
  <2>6. refreshing'.pc = "idle"
    BY <1>0, <1>4, <2>3 DEF ClearState
  <2>. QED BY <2>3, <2>4, <2>5, <2>6, RestingSound, StandsStill
<1>5. CASE Kill
  <2>1. ServiceFits' /\ HeldFits'
    BY <1>5, StoresSame DEF Kill, Nobody
  <2>. QED BY <1>5, <2>1, RestingSound, StandsStill DEF Kill
<1>6. ASSUME NEW outcome \in Outcomes, NEW state \in {"draining", "inactive"},
             CallRevoke(outcome, state)
      PROVE  AuthorityFits'
  <2>1. mutation.read = identity /\ identity.op # 0 /\ identity.id # 0
    BY <1>6 DEF CallRevoke, AuthorityFits, MutationFits
  <2>2. PICK id : id = identity.id
    OBVIOUS
  <2>3. PICK op : op = identity.op
    OBVIOUS
  <2>4. PICK next : next = IF service[id].state = "inactive" THEN "inactive" ELSE state
    OBVIOUS
  <2>5. id \in Installations /\ op \in Nat \ {0}
    BY <2>1, <2>2, <2>3 DEF Ids, Installations
  <2>6. UNCHANGED <<identity, vault, held, made, refreshing>>
    BY <1>6 DEF CallRevoke
  <2>7. \/ service' = service
        \/ /\ service' = [service EXCEPT ![id] = [state |-> next, ops |-> @.ops \cup {op}]]
           /\ service[id].state # "none"
    BY <1>6, <2>1, <2>2, <2>3, <2>4 DEF CallRevoke
  <2>8. /\ service[id].ops \subseteq {op}
        /\ service[id].state \in {"active", "draining"} => id \in vault
        /\ id <= made.installations
    BY <2>2, <2>3, <2>5 DEF AuthorityFits, ServiceFits
  <2>9. /\ service'[id].ops \subseteq {op}
        /\ service'[id].state \in {"active", "draining"} => id \in vault
        /\ Gone(id) => service'[id].state = "inactive"
        /\ \A i \in Installations : i # id => service'[i] = service[i]
    <3>1. CASE service' = service
      BY <2>8, <3>1 DEF Gone
    <3>2. CASE /\ service' = [service EXCEPT ![id] = [state |-> next, ops |-> @.ops \cup {op}]]
               /\ service[id].state # "none"
      <4>1. service'[id].state = next /\ service'[id].ops = service[id].ops \cup {op}
        BY <2>5, <3>2
      <4>2. service[id].state \in {"none", "active", "draining", "inactive"}
        BY <2>5
      <4>3. \A i \in Installations : i # id => service'[i] = service[i]
        BY <3>2
      <4>. QED BY <2>4, <2>8, <3>2, <4>1, <4>2, <4>3 DEF Gone
    <3>. QED BY <2>7, <3>1, <3>2
  <2>10. ServiceFits'
    <3>1. \A i \in Installations : i > made.installations => i # id
      BY <2>5, <2>8 DEF Installations
    <3>2. \A i \in Installations : \E some \in Nat : service'[i].ops \subseteq {some}
      BY <2>5, <2>9 DEF AuthorityFits, ServiceFits
    <3>3. \A i \in Installations : identity.id = i => service'[i].ops \subseteq {identity.op} \ {0}
      BY <2>2, <2>3, <2>5, <2>9
    <3>4. \A i \in Installations :
             service'[i].state \in {"active", "draining"} => identity.id = i /\ i \in vault
      BY <2>2, <2>9 DEF AuthorityFits, ServiceFits
    <3>. QED BY <2>6, <2>8, <2>9, <3>1, <3>2, <3>3, <3>4 DEF AuthorityFits, ServiceFits
  <2>11. HeldFits'
    BY <2>2, <2>6, <2>9 DEF AuthorityFits, HeldFits, Gone
  <2>12. refreshing'.pc = "idle"
    BY <1>0, <1>6, <2>6 DEF CallRevoke
  <2>13. CASE mutation' = Resting
    BY <2>10, <2>11, <2>12, <2>13, RestingSound, StandsStill
  <2>14. CASE mutation' = At("mutation", "removeVault") /\ Gone(id)'
    <3>1. MutationFits'
      BY <2>1, <2>2, <2>6, <2>14, AtPlace DEF MutationFits, Gone
    <3>. QED BY <2>10, <2>11, <2>12, <2>14, <3>1, AtPlace, MovesOn
  <2>15. mutation' = Resting \/ (mutation' = At("mutation", "removeVault") /\ Gone(id)')
    <3>1. mutation' = Resting
          \/ /\ mutation' = At("mutation", "removeVault") /\ next = "inactive"
             /\ service' = [service EXCEPT ![id] = [state |-> next, ops |-> @.ops \cup {op}]]
      BY <1>6, <2>1, <2>2, <2>3, <2>4 DEF CallRevoke
    <3>. QED BY <2>5, <3>1 DEF Gone
  <2>. QED BY <2>13, <2>14, <2>15
<1>. QED BY <1>1, <1>2, <1>3, <1>4, <1>5, <1>6

ClientInv == ClientTyped /\ QueuedAlertKept /\ (calm => AuthorityFits)

\* Every step of the client keeps its types, its queue and its authority.
LEMMA ClientInvHolds == ClientSpec => []ClientInv
<1>1. ClientInit => ClientInv
  <2>1. ClientInit => QueuedAlertKept
    BY DEF ClientInit, QueuedAlertKept
  <2>. QED BY <2>1, ClientTypedInit, AuthorityInit DEF ClientInv
<1>2. ClientInv /\ [ClientNext]_clientVars => ClientInv'
  <2>1. ASSUME ClientInv, ClientNext PROVE ClientInv'
    <3>1. ClientTyped /\ QueuedAlertKept /\ (calm => AuthorityFits)
      BY <2>1 DEF ClientInv
    <3>2. QueuedAlertKept'
      BY <2>1, <3>1, QueuedKept
    <3>3. ClientTyped' /\ (calm => AuthorityFits')
      <4>1. ASSUME NEW a \in Frames,
                   LoadState(a) \/ LoadVault(a) \/ ClearStale(a) \/ StorageRefused(a)
            PROVE  ClientTyped' /\ (calm => AuthorityFits')
        BY <3>1, <4>1, LoadTyped, LoadKeepsAuthority
      <4>2. CASE \/ Refresh \/ HydrateQueue \/ ReadSnapshot
                 \/ \E request \in PutRuleRequests, outcome \in Outcomes : ReplayQueued(request, outcome)
        BY <3>1, <4>2, RefreshTyped, RefreshKeepsAuthority
      <4>3. CASE \/ WriteState \/ WriteVault \/ WriteRefused
                 \/ \E rule \in Rules : Enable(rule)
                 \/ \E granted \in BOOLEAN : Access(granted)
        BY <3>1, <4>3, AddingTyped, AddingKeepsAuthority
      <4>4. CASE \E outcome \in Outcomes : Check(outcome) \/ RegisterInstallation(outcome)
        BY <3>1, <4>4, AddingTyped, CallsKeepAuthority
      <4>5. CASE \/ \E request \in PutRuleRequests, outcome \in Outcomes : Put(request, outcome)
                 \/ \E deleted \in {{}} \cup {{r} : r \in Rules}, outcome \in Outcomes :
                       CallThenRefresh(deleted, outcome)
        BY <3>1, <4>5, PutTyped, CallsKeepAuthority
      <4>6. CASE QueueRule
        BY <3>1, <4>6, PutTyped, AddingKeepsAuthority
      <4>7. CASE \/ Revoke \/ SaveOp \/ RemoveVault \/ ClearState \/ Kill
                 \/ \E outcome \in Outcomes, state \in {"draining", "inactive"} :
                       CallRevoke(outcome, state)
        BY <3>1, <4>7, RevokeTyped, RevokeKeepsAuthority
      <4>. QED BY <2>1, <4>1, <4>2, <4>3, <4>4, <4>5, <4>6, <4>7 DEF ClientNext
    <3>4. calm' = calm
      BY <2>1 DEF ClientNext, Refresh, HydrateQueue, ReadSnapshot, WriteState, WriteVault,
                  WriteRefused, QueueRule, Revoke, SaveOp, RemoveVault, ClearState, Kill, LoadState,
                  LoadVault, ClearStale, StorageRefused, Enable, Access, ReplayQueued, Check,
                  RegisterInstallation, Put, CallThenRefresh, CallRevoke
    <3>. QED BY <3>2, <3>3, <3>4 DEF ClientInv
  <2>2. ASSUME ClientInv, UNCHANGED clientVars PROVE ClientInv'
    BY <2>2 DEF clientVars, ClientInv, ClientTyped, QueuedAlertKept, AuthorityFits, OneByOne,
                ServiceFits, HeldFits, ReadFits, MutationFits, Gone, MutationSound, RefreshSound
  <2>. QED BY <2>1, <2>2
<1>. QED BY <1>1, <1>2, PTL DEF ClientSpec

\* An alert the user was told is queued stays queued until the service has it:
\* whatever refreshes take out of the queue, the service confirmed.
THEOREM QueueIsKept == ClientSpec => []QueuedAlertKept
<1>1. ClientInv => QueuedAlertKept
  BY DEF ClientInv
<1>. QED BY <1>1, ClientInvHolds, PTL

\* A user who waits for a refresh to end keeps the authority over every
\* installation the service may have, and revokes it with one operation only.
THEOREM AuthorityIsKept == ClientSpec => []AuthorityKept
<1>1. ClientInv => AuthorityKept
  <2>. SUFFICES ASSUME ClientInv, calm, NEW i \in Installations
                PROVE  /\ service[i].state \in {"active", "draining"} => identity.id = i /\ i \in vault
                       /\ Cardinality(service[i].ops) <= 1
    BY DEF AuthorityKept
  <2>1. PICK op \in Nat : service[i].ops \subseteq {op}
    BY DEF ClientInv, AuthorityFits, ServiceFits
  <2>2. service[i].ops = {} \/ service[i].ops = {op}
    BY <2>1
  <2>3. Cardinality(service[i].ops) <= 1
    <3>1. CASE service[i].ops = {}
      BY <3>1, FS_EmptySet, Cardinality({}) = 0
    <3>2. CASE service[i].ops = {op}
      BY <3>2, FS_Singleton, Cardinality({op}) = 1
    <3>. QED BY <2>2, <3>1, <3>2
  <2>. QED BY <2>3 DEF ClientInv, AuthorityFits, ServiceFits
<1>. QED BY <1>1, ClientInvHolds, PTL

-----------------------------------------------------------------------------
(* Opening an alert *)

\* What a screen can be doing while it holds its claim.
Working == {"claiming", "fetching", "confirming", "activating", "refreshing", "committing"}

EntryTyped ==
    /\ screens \in [Screens -> [phase : {"closed"} \cup Working \cup Results,
                                alert : Alerts \cup {None}, aborted : BOOLEAN]]
    /\ inFlight \in SUBSET Alerts
    /\ history \in Seq(Alerts)
    /\ pending \in Alerts \cup {None}

\* A working screen's alert is claimed, by that screen alone.
ClaimsHeld ==
    \A s \in Screens : screens[s].phase \in Working =>
        /\ screens[s].alert \in inFlight
        /\ \A other \in Screens \ {s} :
              screens[other].phase \in Working => screens[other].alert # screens[s].alert

\* Every claim is some working screen's, which will give it back.
ClaimsServed ==
    \A alert \in inFlight : \E s \in Screens :
        screens[s].phase \in Working /\ screens[s].alert = alert

\* Past its look at the history, a screen works on an alert not handled yet.
PastClaimUnhandled ==
    \A s \in Screens : screens[s].phase \in Working \ {"claiming"} =>
        ~Handled(screens[s].alert)

EntryInv == EntryTyped /\ ClaimsHeld /\ ClaimsServed /\ PastClaimUnhandled

\* No screen is open at first.
LEMMA EntryInvInit == EntryInit => EntryInv
BY DEF EntryInit, EntryInv, EntryTyped, ClaimsHeld, ClaimsServed, PastClaimUnhandled,
       Closed, Working

\* Marking an alert adds that alert to the history and no other.
LEMMA MarkedAddsOne ==
    ASSUME history \in Seq(Alerts), NEW alert \in Alerts
    PROVE  /\ Marked(alert) \in Seq(Alerts)
           /\ \A n \in DOMAIN Marked(alert) :
                 Marked(alert)[n] = alert \/ Handled(Marked(alert)[n])
<1>1. CASE Handled(alert)
  BY <1>1 DEF Marked, Handled
<1>2. CASE ~Handled(alert)
  <2>1. PICK all : all = Append(history, alert)
    OBVIOUS
  <2>2. PICK first : first = IF Len(all) > MaxHandled THEN Len(all) - MaxHandled + 1 ELSE 1
    OBVIOUS
  <2>3. Marked(alert) = SubSeq(all, first, Len(all))
    BY <1>2, <2>1, <2>2 DEF Marked
  <2>4. /\ all \in Seq(Alerts) /\ Len(all) = Len(history) + 1 /\ Len(history) \in Nat
        /\ \A n \in 1 .. Len(all) : all[n] = alert \/ Handled(all[n])
    BY <2>1 DEF Handled
  <2>5. first \in 1 .. Len(all) + 1
    BY <2>2, <2>4, EntryAssumption
  <2>6. /\ SubSeq(all, first, Len(all)) \in Seq(Alerts)
        /\ Len(SubSeq(all, first, Len(all)))
              = IF first <= Len(all) THEN Len(all) - first + 1 ELSE 0
        /\ \A i \in 1 .. Len(all) - first + 1 :
              SubSeq(all, first, Len(all))[i] = all[first + i - 1]
    BY <2>4, <2>5, SubSeqProperties
  <2>7. PICK kept : kept = SubSeq(all, first, Len(all))
    OBVIOUS
  <2>8. DOMAIN kept = 1 .. Len(kept) /\ Len(kept) \in Nat
    BY <2>6, <2>7
  <2>9. ASSUME NEW n \in DOMAIN kept PROVE kept[n] = alert \/ Handled(kept[n])
    <3>1. n \in 1 .. Len(all) - first + 1 /\ first + n - 1 \in 1 .. Len(all)
      BY <2>4, <2>5, <2>6, <2>7, <2>8
    <3>. QED BY <2>4, <2>6, <2>7, <3>1
  <2>. QED BY <2>3, <2>6, <2>7, <2>9
<1>. QED BY <1>1, <1>2

\* Going on with its work, a working screen keeps its claim.
LEMMA ShowsKeeps ==
    ASSUME EntryInv, NEW s \in Screens, screens[s].phase \in Working,
           NEW phase \in Working \ {"claiming"}, Shows(s, phase),
           ~Handled(screens[s].alert), UNCHANGED <<inFlight, history, pending>>
    PROVE  EntryInv'
<1>. USE DEF EntryInv
<1>0. screens \in [Screens -> [phase : {"closed"} \cup Working \cup Results,
                               alert : Alerts \cup {None}, aborted : BOOLEAN]]
  BY DEF EntryTyped
<1>1. screens' = [screens EXCEPT ![s] = [screens[s] EXCEPT !.phase = phase]]
  BY <1>0 DEF Shows
<1>2. /\ screens'[s].phase = phase /\ screens'[s].alert = screens[s].alert
      /\ \A t \in Screens \ {s} : screens'[t] = screens[t]
  BY <1>0, <1>1
<1>3. \A t \in Screens : /\ screens'[t].alert = screens[t].alert
                         /\ screens'[t].phase \in Working <=> screens[t].phase \in Working
  BY <1>2
<1>4. EntryTyped'
  BY <1>1 DEF EntryTyped
<1>5. ClaimsHeld' /\ ClaimsServed'
  BY <1>3 DEF ClaimsHeld, ClaimsServed
<1>6. \A alert : Handled(alert)' <=> Handled(alert)
  BY DEF Handled
<1>7. PastClaimUnhandled'
  BY <1>2, <1>6 DEF PastClaimUnhandled
<1>. QED BY <1>4, <1>5, <1>7

\* Ending its work, a screen gives back its claim, and only its own alert is new
\* in the history.
LEMMA EndsKeeps ==
    ASSUME EntryInv, NEW s \in Screens, screens[s].phase \in Working,
           NEW result \in Results, Ends(s, result),
           history' \in Seq(Alerts),
           \A n \in DOMAIN history' :
               history'[n] = screens[s].alert \/ Handled(history'[n]),
           UNCHANGED pending
    PROVE  EntryInv'
<1>. USE DEF EntryInv
<1>0. screens \in [Screens -> [phase : {"closed"} \cup Working \cup Results,
                               alert : Alerts \cup {None}, aborted : BOOLEAN]]
  BY DEF EntryTyped
<1>1. screens' = [screens EXCEPT ![s] = [screens[s] EXCEPT !.phase = result]]
  BY <1>0 DEF Shows, Ends
<1>2. /\ screens'[s].phase = result /\ screens'[s].phase \notin Working
      /\ \A t \in Screens \ {s} : screens'[t] = screens[t]
  BY <1>0, <1>1 DEF Results, Working
<1>3. EntryTyped'
  BY <1>1 DEF EntryTyped, Ends
<1>4. \A t \in Screens : screens'[t].phase \in Working =>
          t # s /\ screens'[t] = screens[t] /\ screens[t].alert # screens[s].alert
  BY <1>2 DEF ClaimsHeld
<1>5. ClaimsHeld'
  BY <1>4 DEF ClaimsHeld, Ends
<1>6. ClaimsServed'
  BY <1>2 DEF ClaimsServed, Ends
<1>7. \A alert : Handled(alert)' => alert = screens[s].alert \/ Handled(alert)
  BY DEF Handled
<1>8. PastClaimUnhandled'
  BY <1>4, <1>7 DEF PastClaimUnhandled
<1>. QED BY <1>3, <1>5, <1>6, <1>8

\* A screen opened on an alert another one has claimed ends there.
LEMMA EnteringKeeps ==
    ASSUME EntryInv, NEW s \in Screens, NEW alert \in Alerts, Entering(s, alert),
           UNCHANGED history, pending' \in Alerts \cup {None}
    PROVE  EntryInv'
<1>. USE DEF EntryInv
<1>0. screens \in [Screens -> [phase : {"closed"} \cup Working \cup Results,
                               alert : Alerts \cup {None}, aborted : BOOLEAN]]
  BY DEF EntryTyped
<1>1. screens[s].phase = "closed" /\ screens[s].phase \notin Working
  BY DEF Entering, Working
<1>2. PICK next : next = [phase |-> IF Unclaimed(alert) THEN "claiming" ELSE "duplicate",
                          alert |-> alert, aborted |-> FALSE]
  OBVIOUS
<1>3. /\ next \in [phase : {"closed"} \cup Working \cup Results,
                   alert : Alerts \cup {None}, aborted : BOOLEAN]
      /\ next.alert = alert
      /\ next.phase \in Working => next.phase = "claiming" /\ Unclaimed(alert)
      /\ Unclaimed(alert) => next.phase \in Working
  BY <1>2 DEF Working, Results
<1>4. screens' = [screens EXCEPT ![s] = next] /\ inFlight' = inFlight \cup {alert}
  BY <1>2 DEF Entering
<1>5. screens'[s] = next /\ \A t \in Screens \ {s} : screens'[t] = screens[t]
  BY <1>0, <1>4
<1>6. EntryTyped'
  BY <1>3, <1>4 DEF EntryTyped
<1>7. ClaimsHeld'
  <2>1. \A t \in Screens \ {s} : screens[t].phase \in Working => screens[t].alert \in inFlight
    BY DEF ClaimsHeld
  <2>2. next.phase \in Working =>
            \A t \in Screens \ {s} : screens[t].phase \in Working => screens[t].alert # alert
    BY <1>3, <2>1 DEF Unclaimed
  <2>. QED BY <1>3, <1>4, <1>5, <2>1, <2>2 DEF ClaimsHeld
<1>8. ClaimsServed'
  <2>1. ASSUME NEW claimed \in inFlight'
        PROVE  \E t \in Screens : screens'[t].phase \in Working /\ screens'[t].alert = claimed
    <3>1. CASE claimed \in inFlight
      <4>1. PICK t \in Screens : screens[t].phase \in Working /\ screens[t].alert = claimed
        BY <3>1 DEF ClaimsServed
      <4>. QED BY <1>1, <1>5, <4>1
    <3>2. CASE claimed \notin inFlight
      <4>1. claimed = alert /\ Unclaimed(alert)
        BY <1>4, <3>2 DEF Unclaimed
      <4>. QED BY <1>3, <1>5, <4>1
    <3>. QED BY <3>1, <3>2
  <2>. QED BY <2>1 DEF ClaimsServed
<1>9. PastClaimUnhandled'
  BY <1>3, <1>5 DEF PastClaimUnhandled, Handled
<1>. QED BY <1>6, <1>7, <1>8, <1>9

\* Leaving, or killing, moves no screen to another alert.
LEMMA EntryInvStep == EntryInv /\ EntryNext => EntryInv'
<1>. SUFFICES ASSUME EntryInv, EntryNext PROVE EntryInv'
  OBVIOUS
<1>. USE DEF EntryInv
<1>0. screens \in [Screens -> [phase : {"closed"} \cup Working \cup Results,
                               alert : Alerts \cup {None}, aborted : BOOLEAN]]
  BY DEF EntryTyped
<1>1. ASSUME NEW s \in Screens, NEW alert \in Alerts, Open(s, alert) PROVE EntryInv'
  <2>1. pending' \in Alerts \cup {None}
    BY <1>1 DEF Open, EntryTyped
  <2>. QED BY <1>1, <2>1, EnteringKeeps DEF Open
<1>2. ASSUME NEW s \in Screens, ConsumePending(s) PROVE EntryInv'
  <2>1. pending \in Alerts
    BY <1>2 DEF ConsumePending, EntryTyped
  <2>. QED BY <1>2, <2>1, EnteringKeeps DEF ConsumePending
<1>3. ASSUME NEW s \in Screens, Claim(s) PROVE EntryInv'
  <2>0. screens[s].phase \in Working
    BY <1>3 DEF Claim, Working
  <2>1. CASE Handled(screens[s].alert)
    <3>1. Ends(s, "duplicate") /\ "duplicate" \in Results
      BY <1>3, <2>1 DEF Claim, Results
    <3>2. UNCHANGED <<history, pending>>
      BY <1>3 DEF Claim
    <3>. QED BY <2>0, <3>1, <3>2, EndsKeeps DEF EntryTyped, Handled
  <2>2. CASE ~Handled(screens[s].alert)
    <3>1. Shows(s, "fetching") /\ "fetching" \in Working \ {"claiming"}
      BY <1>3, <2>2 DEF Claim, Working
    <3>2. UNCHANGED <<inFlight, history, pending>>
      BY <1>3, <2>2 DEF Claim
    <3>. QED BY <2>0, <2>2, <3>1, <3>2, ShowsKeeps
  <2>. QED BY <2>1, <2>2
<1>4. ASSUME NEW s \in Screens, Fetch(s) \/ \E accepted \in BOOLEAN : Confirm(s, accepted)
      PROVE  EntryInv'
  <2>0. screens[s].phase \in Working \ {"claiming"}
    BY <1>4 DEF Fetch, Confirm, Working
  <2>1. UNCHANGED <<history, pending>> /\ ~Handled(screens[s].alert)
    BY <1>4, <2>0 DEF Fetch, Confirm, PastClaimUnhandled
  <2>2. \/ \E result \in Results : Ends(s, result)
        \/ \E phase \in Working \ {"claiming"} : Shows(s, phase) /\ UNCHANGED inFlight
    BY <1>4 DEF Fetch, Confirm, Working, Results
  <2>3. ASSUME NEW result \in Results, Ends(s, result) PROVE EntryInv'
    BY <2>0, <2>1, <2>3, EndsKeeps DEF EntryTyped, Handled
  <2>4. ASSUME NEW phase \in Working \ {"claiming"}, Shows(s, phase), UNCHANGED inFlight
        PROVE  EntryInv'
    BY <2>0, <2>1, <2>4, ShowsKeeps
  <2>. QED BY <2>2, <2>3, <2>4
<1>5. ASSUME NEW s \in Screens, Activate(s) \/ Refreshed(s)
      PROVE  EntryInv'
  <2>0. screens[s].phase \in Working \ {"claiming"}
    BY <1>5 DEF Activate, Refreshed, Working
  <2>1. UNCHANGED <<history, pending>> /\ ~Handled(screens[s].alert)
    BY <1>5, <2>0 DEF Activate, Refreshed, PastClaimUnhandled
  <2>2. \/ \E result \in Results : Ends(s, result)
        \/ \E phase \in Working \ {"claiming"} : Shows(s, phase) /\ UNCHANGED inFlight
    BY <1>5 DEF Activate, Refreshed, Working, Results
  <2>3. ASSUME NEW result \in Results, Ends(s, result) PROVE EntryInv'
    BY <2>0, <2>1, <2>3, EndsKeeps DEF EntryTyped, Handled
  <2>4. ASSUME NEW phase \in Working \ {"claiming"}, Shows(s, phase), UNCHANGED inFlight
        PROVE  EntryInv'
    BY <2>0, <2>1, <2>4, ShowsKeeps
  <2>. QED BY <2>2, <2>3, <2>4
<1>6. ASSUME NEW s \in Screens, ClaimUnread(s) \/ FetchRefused(s) \/ ActivateRefused(s) \/ RefreshRefused(s)
      PROVE  EntryInv'
  <2>0. screens[s].phase \in Working
    BY <1>6 DEF ClaimUnread, FetchRefused, ActivateRefused, RefreshRefused, Working
  <2>1. UNCHANGED <<history, pending>>
    BY <1>6 DEF ClaimUnread, FetchRefused, ActivateRefused, RefreshRefused
  <2>2. PICK result \in Results : Ends(s, result)
    BY <1>6 DEF ClaimUnread, FetchRefused, ActivateRefused, RefreshRefused, Results
  <2>. QED BY <2>0, <2>1, <2>2, EndsKeeps DEF EntryTyped, Handled
<1>7. ASSUME NEW s \in Screens, CommitAlert(s) PROVE EntryInv'
  <2>0. screens[s].phase \in Working
    BY <1>7 DEF CommitAlert, Working
  <2>1. screens[s].alert \in Alerts
    BY <2>0 DEF ClaimsHeld, EntryTyped
  <2>2. Ends(s, "ready") /\ "ready" \in Results /\ UNCHANGED pending
    BY <1>7 DEF CommitAlert, Results
  <2>3. history' = Marked(screens[s].alert)
    BY <1>7 DEF CommitAlert
  <2>4. /\ history' \in Seq(Alerts)
        /\ \A n \in DOMAIN history' : history'[n] = screens[s].alert \/ Handled(history'[n])
    BY <2>1, <2>3, MarkedAddsOne DEF EntryTyped
  <2>. QED BY <2>0, <2>2, <2>4, EndsKeeps
<1>8. ASSUME NEW s \in Screens, Leave(s) \/ Discarded(s) PROVE EntryInv'
  <2>1. PICK next : /\ screens' = [screens EXCEPT ![s] = next]
                    /\ \/ screens[s].phase \in Results /\ next = Closed
                       \/ next = [screens[s] EXCEPT !.aborted = TRUE]
    BY <1>0, <1>8 DEF Leave, Discarded
  <2>2. next \in [phase : {"closed"} \cup Working \cup Results,
                  alert : Alerts \cup {None}, aborted : BOOLEAN]
    <3>1. screens[s] \in [phase : {"closed"} \cup Working \cup Results,
                          alert : Alerts \cup {None}, aborted : BOOLEAN]
      BY <1>0
    <3>2. Closed \in [phase : {"closed"} \cup Working \cup Results,
                      alert : Alerts \cup {None}, aborted : BOOLEAN]
      BY DEF Closed
    <3>3. [screens[s] EXCEPT !.aborted = TRUE] \in
              [phase : {"closed"} \cup Working \cup Results,
               alert : Alerts \cup {None}, aborted : BOOLEAN]
      BY <3>1
    <3>. QED BY <2>1, <3>2, <3>3
  <2>3. /\ next.phase \in Working => next.phase = screens[s].phase
                                       /\ next.alert = screens[s].alert
        /\ screens[s].phase \in Working => next.phase = screens[s].phase
                                             /\ next.alert = screens[s].alert
    BY <1>0, <2>1 DEF Closed, Results, Working
  <2>4. \A t \in Screens : screens'[t] = IF t = s THEN next ELSE screens[t]
    BY <1>0, <2>1
  <2>5. \A t \in Screens : screens[t].phase \in Working \/ screens'[t].phase \in Working =>
            screens'[t].phase = screens[t].phase /\ screens'[t].alert = screens[t].alert
    BY <2>3, <2>4
  <2>6. UNCHANGED <<inFlight, history, pending>>
    BY <1>8 DEF Leave, Discarded
  <2>7. EntryTyped'
    BY <2>1, <2>2, <2>6 DEF EntryTyped
  <2>8. ClaimsHeld'
    BY <2>5, <2>6 DEF ClaimsHeld
  <2>9. ClaimsServed'
    BY <2>5, <2>6 DEF ClaimsServed
  <2>10. PastClaimUnhandled'
    BY <2>5, <2>6 DEF PastClaimUnhandled, Handled
  <2>. QED BY <2>7, <2>8, <2>9, <2>10
<1>9. ASSUME NEW alert \in Alerts, StorePending(alert) \/ RemoveTarget(alert)
      PROVE  EntryInv'
  BY <1>9 DEF StorePending, RemoveTarget, EntryTyped, ClaimsHeld, ClaimsServed,
              PastClaimUnhandled, Handled
<1>10. CASE KillEntry
  <2>1. \A s \in Screens : screens'[s].phase \notin Working
    BY <1>10 DEF KillEntry, Closed, Working
  <2>2. EntryTyped'
    BY <1>10 DEF KillEntry, EntryTyped, Closed
  <2>. QED BY <1>10, <2>1, <2>2 DEF KillEntry, ClaimsHeld, ClaimsServed, PastClaimUnhandled
<1>. QED BY <1>1, <1>2, <1>3, <1>4, <1>5, <1>6, <1>7, <1>8, <1>9, <1>10 DEF EntryNext

\* The claims are sound in every state.
LEMMA EntryInvHolds == EntrySpec => []EntryInv
<1>1. EntryInv /\ UNCHANGED entryVars => EntryInv'
  BY DEF entryVars, EntryInv, EntryTyped, ClaimsHeld, ClaimsServed, PastClaimUnhandled, Handled
<1>. QED BY <1>1, EntryInvInit, EntryInvStep, PTL DEF EntrySpec

\* A step that makes a screen ready is its commit, whose alert was not handled;
\* one that opens a screen as a duplicate finds another screen at work.
LEMMA OpenedOnceStep ==
    ASSUME EntryInv, EntryNext, NEW s \in Screens
    PROVE  /\ screens[s].phase # "ready" /\ screens'[s].phase = "ready"
                => ~Handled(screens[s].alert)
           /\ screens[s].phase = "closed" /\ screens'[s].phase = "duplicate"
                => \E other \in Screens \ {s} :
                      screens[other].phase \notin Results \cup {"closed"}
                        /\ screens[other].alert = screens'[s].alert
<1>. USE DEF EntryInv
<1>0. screens \in [Screens -> [phase : {"closed"} \cup Working \cup Results,
                               alert : Alerts \cup {None}, aborted : BOOLEAN]]
  BY DEF EntryTyped
<1>1. ASSUME screens[s].phase # "ready", screens'[s].phase = "ready"
      PROVE  CommitAlert(s)
  <2>1. ASSUME NEW t \in Screens, NEW alert, Entering(t, alert) PROVE FALSE
    <3>1. screens'[s] = screens[s] \/ screens'[s].phase \in {"claiming", "duplicate"}
      BY <1>0, <2>1 DEF Entering
    <3>. QED BY <1>1, <3>1
  <2>2. ASSUME NEW t \in Screens, NEW phase, Shows(t, phase), phase # "ready" PROVE FALSE
    <3>1. screens'[s].phase \in {screens[s].phase, phase}
      BY <1>0, <2>2 DEF Shows
    <3>. QED BY <1>1, <2>2, <3>1
  <2>3. ASSUME NEW t \in Screens, CommitAlert(t) PROVE CommitAlert(s)
    <3>1. t # s => screens'[s] = screens[s]
      BY <1>0, <2>3 DEF CommitAlert, Ends, Shows
    <3>. QED BY <1>1, <2>3, <3>1
  <2>4. ASSUME NEW t \in Screens, Leave(t) \/ Discarded(t) PROVE FALSE
    <3>1. screens'[s].phase \in {screens[s].phase, "closed"}
      BY <1>0, <2>4 DEF Leave, Discarded, Closed
    <3>. QED BY <1>1, <3>1
  <2>5. ~KillEntry
    BY <1>1 DEF KillEntry, Closed
  <2>6. ASSUME NEW alert, StorePending(alert) \/ RemoveTarget(alert) PROVE FALSE
    BY <1>1, <2>6 DEF StorePending, RemoveTarget
  <2>. QED BY <2>1, <2>2, <2>3, <2>4, <2>5, <2>6
           DEF EntryNext, Open, ConsumePending, Claim, ClaimUnread, Fetch, FetchRefused, Confirm,
               Activate, ActivateRefused, Refreshed, RefreshRefused, Ends
<1>2. CommitAlert(s) => ~Handled(screens[s].alert)
  BY DEF CommitAlert, PastClaimUnhandled, Working
<1>3. ASSUME screens[s].phase = "closed", screens'[s].phase = "duplicate"
      PROVE  \E alert \in inFlight : Entering(s, alert) /\ screens'[s].alert = alert
  <2>1. ASSUME NEW t \in Screens, NEW alert, Entering(t, alert)
        PROVE  Entering(s, alert) /\ alert \in inFlight /\ screens'[s].alert = alert
    <3>1. t = s
      BY <1>0, <1>3, <2>1 DEF Entering
    <3>2. screens'[s] = [phase |-> IF Unclaimed(alert) THEN "claiming" ELSE "duplicate",
                         alert |-> alert, aborted |-> FALSE]
      BY <1>0, <2>1, <3>1 DEF Entering
    <3>. QED BY <1>3, <2>1, <3>1, <3>2 DEF Unclaimed
  <2>2. ASSUME NEW t \in Screens, NEW phase, Shows(t, phase), screens[t].phase # "closed"
        PROVE  FALSE
    <3>1. t # s /\ screens'[s] = screens[s]
      BY <1>0, <1>3, <2>2 DEF Shows
    <3>. QED BY <1>3, <3>1
  <2>3. ASSUME NEW t \in Screens, Leave(t) \/ Discarded(t) PROVE FALSE
    <3>1. screens'[s].phase \in {screens[s].phase, "closed"}
      BY <1>0, <2>3 DEF Leave, Discarded, Closed
    <3>. QED BY <1>3, <3>1
  <2>4. ~KillEntry
    BY <1>3 DEF KillEntry, Closed
  <2>5. ASSUME NEW alert, StorePending(alert) \/ RemoveTarget(alert) PROVE FALSE
    BY <1>3, <2>5 DEF StorePending, RemoveTarget
  <2>. QED BY <2>1, <2>2, <2>3, <2>4, <2>5
           DEF EntryNext, Open, ConsumePending, Claim, ClaimUnread, Fetch, FetchRefused, Confirm,
               Activate, ActivateRefused, Refreshed, RefreshRefused, CommitAlert, Ends
<1>4. ASSUME screens[s].phase = "closed", NEW alert \in inFlight
      PROVE  \E other \in Screens \ {s} :
                screens[other].phase \notin Results \cup {"closed"}
                  /\ screens[other].alert = alert
  <2>1. PICK other \in Screens : screens[other].phase \in Working /\ screens[other].alert = alert
    BY DEF ClaimsServed
  <2>2. screens[other].phase \notin Results \cup {"closed"}
    BY <2>1 DEF Working, Results
  <2>. QED BY <1>4, <2>1, <2>2
<1>. QED BY <1>1, <1>2, <1>3, <1>4

\* However opens of an alert overlap, are left, fail and are retried, one is
\* carried through at most, and one that is turned away finds another at work
\* (claimAlert, release and markAlertHandled).
THEOREM OpenedOnce == EntrySpec => AlertOpenedOnce
<1>1. EntryInv /\ [EntryNext]_entryVars =>
        [\A s \in Screens :
         /\ screens[s].phase # "ready" /\ screens'[s].phase = "ready"
              => ~Handled(screens[s].alert)
         /\ screens[s].phase = "closed" /\ screens'[s].phase = "duplicate"
              => Handled(screens'[s].alert)
                   \/ \E other \in Screens \ {s} :
                         screens[other].phase \notin Results \cup {"closed"}
                           /\ screens[other].alert = screens'[s].alert]_entryVars
  BY OpenedOnceStep
<1>. QED BY <1>1, EntryInvHolds, PTL DEF EntrySpec, AlertOpenedOnce

-----------------------------------------------------------------------------
(* The Portfolio screen *)

\* The records have their fields; what a size or a snapshot is does not matter.
DraftShaped(draft) ==
    draft = [kind |-> draft.kind, account |-> draft.account, oid |-> draft.oid,
             size |-> draft.size]

PressShaped(call) ==
    call = [pc |-> call.pc, draft |-> call.draft, snapshot |-> call.snapshot,
            scope |-> call.scope, epoch |-> call.epoch, account |-> call.account,
            selected |-> call.selected, token |-> call.token, rows |-> call.rows]

\* A handler waits with a draft of the account it was pressed for, and knows what
\* was shown and selected.
PressFits(call) ==
    /\ PressShaped(call)
    /\ call.draft.account = call.account
    /\ \E able : call.scope = <<call.account, call.snapshot, able>>
    /\ call.epoch \in Nat /\ call.epoch <= selection.epoch
    /\ call.epoch = selection.epoch => call.selected = selection.account

\* The editor is of the account shown.
EditorFits ==
    portfolioEditor # NoEditor =>
       DraftShaped(portfolioEditor) /\ portfolioEditor.account = shown.account

PressesFit ==
    /\ presses = [p \in Presses |-> presses[p]]
    /\ \A p \in Presses : presses[p].pc = "random" => PressFits(presses[p])

ScreenInv == selection.epoch \in Nat /\ EditorFits /\ PressesFit

\* The screen opens without an editor, and nothing is pressed.
LEMMA ScreenInvInit == ScreenInit => ScreenInv
<1>. SUFFICES ASSUME ScreenInit PROVE ScreenInv
  OBVIOUS
<1>1. selection.epoch \in Nat
  BY DEF ScreenInit
<1>2. EditorFits
  BY DEF ScreenInit, EditorFits
<1>3. PressesFit
  BY DEF ScreenInit, PressesFit, NoPress
<1>. QED BY <1>1, <1>2, <1>3 DEF ScreenInv

\* What was captured stays captured; only the selection may move on.
LEMMA PressesStay ==
    ASSUME ScreenInv, UNCHANGED presses,
           selection' = selection \/ \E a : selection' = [account |-> a, epoch |-> selection.epoch + 1]
    PROVE  PressesFit' /\ selection'.epoch \in Nat
<1>1. selection'.epoch \in Nat /\ selection.epoch <= selection'.epoch
        /\ (selection'.epoch = selection.epoch => selection' = selection)
  BY DEF ScreenInv
<1>2. ASSUME NEW call, PressFits(call) PROVE PressFits(call)'
  BY <1>1, <1>2 DEF PressFits, ScreenInv
<1>. QED BY <1>1, <1>2 DEF ScreenInv, PressesFit

\* One press goes on, or ends.
LEMMA PressKeeps ==
    ASSUME ScreenInv, NEW p \in Presses, NEW call, presses' = [presses EXCEPT ![p] = call],
           call.pc = "random" => PressFits(call), UNCHANGED selection
    PROVE  PressesFit'
<1>1. \A q \in Presses : presses'[q] = IF q = p THEN call ELSE presses[q]
  BY DEF ScreenInv, PressesFit
<1>2. ASSUME NEW q \in Presses, presses'[q].pc = "random" PROVE PressFits(presses'[q])
  BY <1>1, <1>2 DEF ScreenInv, PressesFit
<1>3. presses' = [q \in Presses |-> presses'[q]]
  BY DEF ScreenInv, PressesFit
<1>. QED BY <1>2, <1>3 DEF PressesFit, PressFits

\* A draft is of the account shown.
LEMMA DraftFits ==
    ASSUME NEW kind
    PROVE  DraftShaped(Draft(kind)) /\ Draft(kind).account = shown.account
BY DEF Draft, DraftShaped

\* The steps around the screen, renders and the editor.
LEMMA ShownKeeps ==
    ASSUME ScreenInv,
           \/ \E a \in Holders : VenueChanges(a) \/ SwitchAccount(a)
           \/ ServiceAnswers \/ FetchSucceeds \/ FetchFails
           \/ InvalidateLive \/ Refetch \/ SetSignable \/ Render
           \/ OpenEditor \/ EditSize \/ CloseEditor \/ CancelRefused \/ ScreenTick
    PROVE  ScreenInv' /\ UNCHANGED presses
<1>1. UNCHANGED presses
  BY DEF VenueChanges, SwitchAccount, ServiceAnswers, FetchSucceeds, FetchFails, InvalidateLive,
         Refetch, SetSignable, Render, OpenEditor, EditSize, CloseEditor, CancelRefused, ScreenTick,
         handlerVars
<1>2. selection' = selection \/ \E a : selection' = [account |-> a, epoch |-> selection.epoch + 1]
  BY DEF VenueChanges, SwitchAccount, ServiceAnswers, FetchSucceeds, FetchFails, InvalidateLive,
         Refetch, SetSignable, Render, OpenEditor, EditSize, CloseEditor, CancelRefused, ScreenTick
<1>3. EditorFits'
  <2>1. CASE Render
    <3>1. shown' = Screen /\ portfolioEditor' \in {portfolioEditor, NoEditor}
            /\ (portfolioEditor' # NoEditor => Screen.account = shown.account)
      BY <2>1 DEF Render, EditorSurvives
    <3>. QED BY <3>1 DEF ScreenInv, EditorFits
  <2>2. CASE OpenEditor
    <3>1. PICK kind : portfolioEditor' = Draft(kind) /\ shown' = shown
      BY <2>2 DEF OpenEditor, SetEditor
    <3>2. DraftShaped(portfolioEditor') /\ portfolioEditor'.account = shown.account
      BY <3>1, DraftFits
    <3>. QED BY <3>1, <3>2 DEF EditorFits
  <2>3. CASE EditSize
    <3>1. PICK size : portfolioEditor' = [portfolioEditor EXCEPT !.size = size] /\ shown' = shown
            /\ portfolioEditor # NoEditor
      BY <2>3 DEF EditSize, SetEditor
    <3>2. DraftShaped(portfolioEditor) /\ portfolioEditor.account = shown.account
      BY <3>1 DEF ScreenInv, EditorFits
    <3>3. DraftShaped(portfolioEditor') /\ portfolioEditor'.account = shown.account
      BY <3>1, <3>2 DEF DraftShaped
    <3>. QED BY <3>1, <3>3 DEF EditorFits
  <2>4. CASE CloseEditor
    BY <2>4 DEF CloseEditor, EditorFits
  <2>5. CASE UNCHANGED <<shown, portfolioEditor>>
    BY <2>5 DEF ScreenInv, EditorFits
  <2>. QED BY <2>1, <2>2, <2>3, <2>4, <2>5
           DEF VenueChanges, SwitchAccount, ServiceAnswers, FetchSucceeds, FetchFails,
               InvalidateLive, Refetch, SetSignable, CancelRefused, ScreenTick
<1>. QED BY <1>1, <1>2, <1>3, PressesStay DEF ScreenInv

\* The handlers.
LEMMA HandlersKeep ==
    ASSUME ScreenInv, NEW p \in Presses,
           ReviewPosition(p) \/ HandReview(p) \/ PreparationStops(p) \/ ReviewCancel(p) \/ ReviewEnds(p)
    PROVE  /\ ScreenInv'
           /\ \A q \in Presses : presses[q].pc # "handed" /\ presses'[q].pc = "handed" =>
                 ReviewsThePosition(presses'[q])
<1>1. UNCHANGED <<selection, shown>> /\ portfolioEditor' \in {portfolioEditor, NoEditor}
  BY DEF ReviewPosition, HandReview, PreparationStops, ReviewCancel, ReviewEnds
<1>2. EditorFits' /\ selection'.epoch \in Nat
  BY <1>1 DEF ScreenInv, EditorFits
<1>3. ASSUME NEW call, presses' = [presses EXCEPT ![p] = call],
             call.pc = "random" => PressFits(call),
             call.pc = "handed" => ReviewsThePosition(call)
      PROVE  /\ ScreenInv'
             /\ \A q \in Presses : presses[q].pc # "handed" /\ presses'[q].pc = "handed" =>
                   ReviewsThePosition(presses'[q])
  <2>1. PressesFit'
    BY <1>1, <1>3, PressKeeps
  <2>2. \A q \in Presses : presses'[q] = IF q = p THEN call ELSE presses[q]
    BY <1>3 DEF ScreenInv, PressesFit
  <2>. QED BY <1>2, <1>3, <2>1, <2>2 DEF ScreenInv
<1>4. CASE ReviewPosition(p)
  <2>1. PICK draft \in {Draft("market_close"), portfolioEditor} \ {NoEditor} :
           presses' = [presses EXCEPT ![p] =
              [pc |-> "random", draft |-> draft, snapshot |-> shown.snapshot,
               scope |-> ReviewScope(shown), epoch |-> selection.epoch,
               account |-> shown.account, selected |-> selection.account,
               token |-> pressed + 1, rows |-> rows.mounted]]
    BY <1>4 DEF ReviewPosition
  <2>2. PICK call : call =
              [pc |-> "random", draft |-> draft, snapshot |-> shown.snapshot,
               scope |-> ReviewScope(shown), epoch |-> selection.epoch,
               account |-> shown.account, selected |-> selection.account,
               token |-> pressed + 1, rows |-> rows.mounted]
    OBVIOUS
  <2>3. draft.account = shown.account
    BY DraftFits DEF ScreenInv, EditorFits
  <2>4. PressFits(call) /\ call.pc = "random"
    BY <2>2, <2>3 DEF PressFits, PressShaped, ReviewScope, ScreenInv
  <2>. QED BY <1>3, <2>1, <2>2, <2>4
<1>5. CASE HandReview(p)
  <2>1. PICK call : call = presses[p]
    OBVIOUS
  <2>2. PICK next : next = [call EXCEPT !.pc = "handed"]
    OBVIOUS
  <2>3. PressFits(call)
    BY <1>5, <2>1 DEF HandReview, ScreenInv, PressesFit
  <2>4. /\ next.pc = "handed" /\ next.draft = call.draft /\ next.snapshot = call.snapshot
        /\ next.account = call.account /\ next.selected = call.selected
    BY <2>2, <2>3 DEF PressFits, PressShaped
  <2>5. presses' = [presses EXCEPT ![p] = next]
    <3>1. [presses EXCEPT ![p].pc = "handed"] = [presses EXCEPT ![p] = [presses[p] EXCEPT !.pc = "handed"]]
      OBVIOUS
    <3>. QED BY <1>5, <2>1, <2>2, <3>1 DEF HandReview
  <2>6. StillCurrent(call) /\ ReviewBuilds(call)
    BY <1>5, <2>1 DEF HandReview
  <2>7. call.account = shown.account /\ call.snapshot = shown.snapshot
          /\ call.selected = selection.account
    BY <2>3, <2>6 DEF StillCurrent, ReviewScope, PressFits
  <2>8. ReviewsThePosition(next)
    BY <2>3, <2>4, <2>6, <2>7 DEF ReviewsThePosition, ReviewBuilds, ReviewOwned, SnapshotCurrent,
                                  CloseIntentBuilds, PositionTpslIntentBuilds, PressFits
  <2>. QED BY <1>3, <2>4, <2>5, <2>8
<1>6. CASE ReviewCancel(p)
  <2>1. PICK o : presses' = [presses EXCEPT ![p] =
           [pc |-> "handed", snapshot |-> shown.snapshot, account |-> shown.account,
            selected |-> selection.account, token |-> 0, rows |-> rows.mounted,
            draft |-> [kind |-> "cancel", account |-> shown.account, size |-> 0, oid |-> o]]]
    BY <1>6 DEF ReviewCancel
  <2>2. PICK call : call =
           [pc |-> "handed", snapshot |-> shown.snapshot, account |-> shown.account,
            selected |-> selection.account, token |-> 0, rows |-> rows.mounted,
            draft |-> [kind |-> "cancel", account |-> shown.account, size |-> 0, oid |-> o]]
    OBVIOUS
  <2>3. ReviewsThePosition(call)
    BY <1>6, <2>2 DEF ReviewCancel, ReviewsThePosition, ReviewOwned, SnapshotCurrent
  <2>4. call.pc = "handed"
    BY <2>2
  <2>. QED BY <1>3, <2>1, <2>2, <2>3, <2>4
<1>7. CASE PreparationStops(p) \/ ReviewEnds(p)
  <2>1. presses' = [presses EXCEPT ![p] = NoPress]
    BY <1>7 DEF PreparationStops, ReviewEnds
  <2>. QED BY <1>3, <2>1 DEF NoPress
<1>. QED BY <1>4, <1>5, <1>6, <1>7

\* A review is handed over only of what the screen shows by then, for the account
\* selected at the press, whatever changed while its handler waited.
THEOREM ReviewsAreCurrent == ScreenSpec => ReviewIsCurrent
<1>1. ASSUME ScreenInv, ScreenNext
      PROVE  /\ ScreenInv'
             /\ \A q \in Presses : presses[q].pc # "handed" /\ presses'[q].pc = "handed" =>
                   ReviewsThePosition(presses'[q])
  BY <1>1, ShownKeeps, HandlersKeep DEF ScreenNext
<1>2. ScreenInv /\ [ScreenNext]_screenVars => ScreenInv'
  <2>1. ASSUME ScreenInv, UNCHANGED screenVars PROVE ScreenInv'
    BY <2>1 DEF screenVars, handlerVars, ScreenInv, EditorFits, PressesFit, PressFits
  <2>. QED BY <1>1, <2>1
<1>3. ScreenInv /\ [ScreenNext]_screenVars =>
        [\A p \in Presses : presses[p].pc # "handed" /\ presses'[p].pc = "handed" =>
           ReviewsThePosition(presses'[p])]_screenVars
  BY <1>1
<1>. QED BY <1>2, <1>3, ScreenInvInit, PTL DEF ScreenSpec, ReviewIsCurrent

-----------------------------------------------------------------------------
(* The Trade screen *)

\* The records have their fields; what a price or a rule is does not matter.
ViewShaped(view) ==
    view = [account |-> view.account, market |-> view.market, usable |-> view.usable,
            rules |-> view.rules, price |-> view.price, snapshot |-> view.snapshot]

CallShaped(call) ==
    call = [pc |-> call.pc, kind |-> call.kind, draft |-> call.draft, leverage |-> call.leverage,
            view |-> call.view, epoch |-> call.epoch, token |-> call.token,
            market |-> call.market, selected |-> call.selected]

\* A snapshot, when there is one, is of the view's account and market, and past.
SnapshotFits(view) ==
    view.snapshot # NoData =>
       /\ view.snapshot.account = view.account /\ view.snapshot.market = view.market
       /\ view.snapshot.observedAt \in Nat /\ view.snapshot.observedAt <= ticketClock

\* The one is no older than the other, where both are there.
NoOlder(one, than) ==
    one # NoData /\ than # NoData => one.observedAt >= than.observedAt

TradeTyped ==
    /\ ticketClock \in Nat /\ called \in Nat /\ tradeContext.epoch \in Nat
    /\ tradeContext = [account |-> tradeContext.account, epoch |-> tradeContext.epoch]
    /\ route \in Pairs
    /\ ticket = [view |-> ticket.view, draft |-> ticket.draft, loaded |-> ticket.loaded]
    /\ ViewShaped(ticket.view) /\ ticket.view.market \in Pairs \cup {NoMarket}
    /\ accountData = [m \in Pairs |-> accountData[m]]
    /\ calls = [c \in Calls |-> calls[c]]

\* What is cached is of the account and market it is cached for, and no older than
\* what the screen shows of it.
CacheFits ==
    /\ accountFetch # NotFetching => ticket.view.account = tradeContext.account
    /\ \A m \in Pairs : accountData[m] # NoData =>
          /\ ticket.view.account = tradeContext.account
          /\ accountData[m].account = tradeContext.account /\ accountData[m].market = m
          /\ accountData[m].observedAt \in Nat /\ accountData[m].observedAt <= ticketClock
          /\ m = ticket.view.market => NoOlder(accountData[m], ticket.view.snapshot)

\* A call works on a view of the market it was made for, under its context.
CallFits(call) ==
    /\ CallShaped(call) /\ ViewShaped(call.view)
    /\ call.token \in Nat \ {0} /\ call.epoch \in Nat /\ call.epoch <= tradeContext.epoch
    /\ call.epoch = tradeContext.epoch => call.selected = tradeContext.account
    /\ call.market = call.view.market
    /\ call.kind \in {"order", "leverage"}
    /\ call.kind = "leverage" => call.leverage \in Leverages
    /\ SnapshotFits(call.view)

\* The scope of a review is that of the view on the screen, with the draft on the
\* screen or about to be, unless nothing is prepared or it is a leverage.
ScopeFits ==
    /\ scopeRef.view.account = ticket.view.account /\ scopeRef.view.market = ticket.view.market
    /\ scopeRef.view.rules = ticket.view.rules
    /\ NoOlder(scopeRef.view.snapshot, ticket.view.snapshot)
    /\ operation = 0 \/ scopeRef.leverage # 0 \/ scopeRef.draft \in {ticketDraft, ticket.draft}

CallsFit == \A c \in Calls : calls[c] = NoCall \/ CallFits(calls[c])

TradeInv == TradeTyped /\ SnapshotFits(ticket.view) /\ CacheFits /\ CallsFit /\ ScopeFits

\* What is rendered next is of the context, from the cache.
LEMMA ViewFits ==
    ASSUME TradeTyped, CacheFits
    PROVE  /\ ViewShaped(TicketView) /\ TicketView.market \in Pairs \cup {NoMarket}
           /\ TicketView.account = tradeContext.account /\ SnapshotFits(TicketView)
           /\ TicketView.snapshot # NoData =>
                 TicketView.market \in Pairs /\ TicketView.snapshot = accountData[TicketView.market]
<1>1. SelectedMarket \in Pairs \cup {NoMarket}
  BY DEF SelectedMarket, TradeTyped
<1>2. /\ TicketView.account = tradeContext.account /\ TicketView.market = SelectedMarket
      /\ TicketView.snapshot = IF SelectedMarket = NoMarket THEN NoData ELSE accountData[SelectedMarket]
      /\ ViewShaped(TicketView)
  BY DEF TicketView, ViewShaped
<1>3. SnapshotFits(TicketView)
  BY <1>1, <1>2 DEF SnapshotFits, CacheFits
<1>. QED BY <1>1, <1>2, <1>3

\* The screen opens on a market, with nothing fetched.
LEMMA TradeInvInit == TradeInit => TradeInv
<1>. SUFFICES ASSUME TradeInit PROVE TradeInv
  OBVIOUS
<1>1. PICK a \in Traders : tradeContext = [account |-> a, epoch |-> 0]
  BY DEF TradeInit
<1>2. \A m \in Pairs : accountData[m] = NoData
  BY DEF TradeInit
<1>3. /\ ViewShaped(TicketView) /\ TicketView.market \in Pairs \cup {NoMarket}
      /\ TicketView.account = tradeContext.account /\ TicketView.snapshot = NoData
  <2>1. SelectedMarket \in Pairs \cup {NoMarket}
    BY DEF SelectedMarket, TradeInit
  <2>. QED BY <1>2, <2>1 DEF TicketView, ViewShaped
<1>4. TradeTyped
  <2>1. ticket = [view |-> ticket.view, draft |-> ticket.draft, loaded |-> ticket.loaded]
          /\ ticket.view = TicketView
    BY DEF TradeInit
  <2>2. calls = [c \in Calls |-> calls[c]] /\ accountData = [m \in Pairs |-> accountData[m]]
    BY DEF TradeInit
  <2>. QED BY <1>1, <1>3, <2>1, <2>2 DEF TradeInit, TradeTyped
<1>5. CallsFit /\ CacheFits /\ SnapshotFits(ticket.view)
  BY <1>2, <1>3 DEF TradeInit, CallsFit, CacheFits, SnapshotFits
<1>6. ScopeFits
  <2>1. scopeRef.view = TicketView /\ ticket.view = TicketView /\ operation = 0
    BY DEF TradeInit, ReviewScopeKey
  <2>. QED BY <1>3, <2>1 DEF ScopeFits, NoOlder
<1>. QED BY <1>4, <1>5, <1>6 DEF TradeInv

\* What calls captured stays captured while the clock goes on.
LEMMA CallsStay ==
    ASSUME TradeInv, ticketClock' \in Nat, ticketClock <= ticketClock',
           UNCHANGED <<calls, tradeContext>>
    PROVE  CallsFit'
<1>1. \A c \in Calls : CallFits(calls[c]) => CallFits(calls[c])'
  BY DEF CallFits, SnapshotFits, TradeInv, TradeTyped
<1>. QED BY <1>1 DEF TradeInv, CallsFit

\* A step around the screen: prices, trading rules, the account on the exchange,
\* time, the market asked for, and a fetch up to its answer.
LEMMA AroundKeeps ==
    ASSUME TradeInv, ticketClock' \in Nat, ticketClock <= ticketClock', route' \in Pairs,
           UNCHANGED <<ticket, scopeRef, calls, tradeContext, accountData, ticketDraft, called>>,
           operation' \in {operation, 0},
           accountFetch' \in {accountFetch, NotFetching}
             \/ ticket.view.account = tradeContext.account
    PROVE  TradeInv'
<1>1. TradeTyped'
  BY DEF TradeInv, TradeTyped, ViewShaped
<1>2. SnapshotFits(ticket.view)' /\ CacheFits'
  BY DEF TradeInv, TradeTyped, SnapshotFits, CacheFits, NoOlder
<1>3. ScopeFits'
  BY DEF TradeInv, ScopeFits, NoOlder
<1>. QED BY <1>1, <1>2, <1>3, CallsStay DEF TradeInv

\* A render shows the context and the cache.
LEMMA RenderKeeps ==
    ASSUME TradeInv, NEW draft, RenderWith(draft),
           UNCHANGED <<ticketClock, calls, tradeContext, accountData, route, called>>
    PROVE  TradeInv'
<1>1. PICK view : view = TicketView
  OBVIOUS
<1>2. /\ ViewShaped(view) /\ view.market \in Pairs \cup {NoMarket}
      /\ view.account = tradeContext.account /\ SnapshotFits(view)
      /\ view.snapshot # NoData => view.market \in Pairs /\ view.snapshot = accountData[view.market]
  BY <1>1, ViewFits DEF TradeInv
<1>3. /\ ticket'.view = view /\ ticket'.draft = draft
      /\ ticket' = [view |-> ticket'.view, draft |-> ticket'.draft, loaded |-> ticket'.loaded]
      /\ scopeRef'.view = view /\ scopeRef'.draft = draft
      /\ accountFetch' \in {accountFetch, NotFetching}
  BY <1>1 DEF RenderWith, ReviewScopeKey
<1>4. TradeTyped'
  BY <1>2, <1>3 DEF TradeInv, TradeTyped, ViewShaped
<1>5. SnapshotFits(ticket.view)' /\ CacheFits'
  BY <1>2, <1>3 DEF TradeInv, TradeTyped, SnapshotFits, CacheFits, NoOlder
<1>6. ScopeFits'
  <2>1. NoOlder(view.snapshot, view.snapshot)
    BY <1>2 DEF NoOlder, SnapshotFits
  <2>. QED BY <1>3, <2>1 DEF ScopeFits, NoOlder
<1>. QED BY <1>4, <1>5, <1>6, CallsStay DEF TradeInv, TradeTyped

\* Another context: its cache is empty, the draft shown is dropped.
LEMMA CommitKeeps ==
    ASSUME TradeInv, NEW a \in Traders, CommitContext(a)
    PROVE  TradeInv'
<1>. USE DEF TradeInv, TradeTyped
<1>1. /\ tradeContext' = [account |-> a, epoch |-> tradeContext.epoch + 1]
      /\ accountFetch' = NotFetching /\ accountData' = [m \in Pairs |-> NoData]
      /\ UNCHANGED <<ticketClock, calls, ticket, scopeRef, route, called>>
      /\ operation' = 0 \/ UNCHANGED <<operation, ticketDraft>>
  BY DEF CommitContext
<1>2. TradeTyped'
  BY <1>1 DEF ViewShaped
<1>3. SnapshotFits(ticket.view)' /\ CacheFits' /\ ScopeFits'
  BY <1>1 DEF SnapshotFits, CacheFits, ScopeFits, NoOlder
<1>4. \A c \in Calls : CallFits(calls[c]) => CallFits(calls[c])'
  BY <1>1 DEF CallFits, SnapshotFits
<1>. QED BY <1>1, <1>2, <1>3, <1>4 DEF CallsFit

\* The answer of the exchange is newer than what is shown.
LEMMA AnswerKeeps ==
    ASSUME TradeInv, SecondAnswer
    PROVE  TradeInv'
<1>. USE DEF TradeInv, TradeTyped
<1>1. PICK answer : answer = AccountSnapshot(accountFetch.state, trader[tradeContext.account])
  OBVIOUS
<1>2. /\ accountFetch' = NotFetching
      /\ accountData' = [accountData EXCEPT ![ticket.view.market] = answer]
      /\ UNCHANGED <<ticketClock, calls, ticket, tradeContext, scopeRef, route, called, operation,
                     ticketDraft>>
      /\ accountFetch # NotFetching
  BY <1>1 DEF SecondAnswer, NotFetching
<1>3. answer # NoData =>
         /\ answer.account = tradeContext.account /\ answer.market = ticket.view.market
         /\ answer.observedAt = ticketClock
  BY <1>1 DEF AccountSnapshot
<1>4. TradeTyped'
  BY <1>2 DEF ViewShaped
<1>5. NoOlder(answer, ticket.view.snapshot)
  BY <1>3 DEF NoOlder, SnapshotFits
<1>6. \A m \in Pairs : accountData'[m] = IF m = ticket.view.market THEN answer ELSE accountData[m]
  BY <1>2
<1>7. CacheFits'
  BY <1>2, <1>3, <1>5, <1>6 DEF CacheFits, NoOlder
<1>8. SnapshotFits(ticket.view)' /\ ScopeFits'
  BY <1>2 DEF SnapshotFits, ScopeFits, NoOlder
<1>. QED BY <1>2, <1>4, <1>7, <1>8, CallsStay

\* What a ready view is built on.
LEMMA ReadyView ==
    ASSUME NEW view, Gate(view) = "ready", SnapshotFits(view), ticketClock \in Nat
    PROVE  /\ view.snapshot # NoData /\ view.market # NoMarket
           /\ ticketClock - view.snapshot.observedAt <= AccountWindow
BY TicketAssumption DEF Gate, SnapshotFits

\* A call fits the state it was made in, and may be put off or go on.
Made(call) ==
    /\ CallFits(call)
    /\ call.epoch = tradeContext.epoch
    /\ call.view = [ticket.view EXCEPT !.snapshot = call.view.snapshot]
    /\ NoOlder(call.view.snapshot, ticket.view.snapshot)

\* A press captures the screen as it is.
LEMMA TradePressFits ==
    ASSUME TradeInv, NEW kind, NEW draft, NEW leverage,
           kind = "order" \/ (kind = "leverage" /\ leverage \in Leverages)
    PROVE  Made(Captured(kind, draft, leverage))
<1>1. PICK call : call = Captured(kind, draft, leverage)
  OBVIOUS
<1>2. /\ CallShaped(call) /\ call.view = ticket.view /\ call.epoch = tradeContext.epoch
      /\ call.token = called + 1 /\ call.market = ticket.view.market
      /\ call.selected = tradeContext.account /\ call.kind = kind /\ call.leverage = leverage
  BY <1>1 DEF Captured, CallShaped
<1>3. CallFits(call)
  BY <1>2 DEF CallFits, TradeInv, TradeTyped
<1>4. ticket.view = [ticket.view EXCEPT !.snapshot = ticket.view.snapshot]
  BY DEF TradeInv, TradeTyped, ViewShaped
<1>5. NoOlder(call.view.snapshot, ticket.view.snapshot)
  BY <1>2 DEF NoOlder, TradeInv, SnapshotFits
<1>. QED BY <1>1, <1>2, <1>3, <1>4, <1>5 DEF Made

\* After the refresh the call goes on with the screen and the cache of now.
LEMMA RefreshFits ==
    ASSUME TradeInv, NEW c \in Calls, calls[c].pc = "refetch", RefreshApplies(calls[c]),
           NEW view, view = [ticket.view EXCEPT !.snapshot = accountData[ticket.view.market]],
           Gate(view) = "ready"
    PROVE  Made([calls[c] EXCEPT !.view = view])
<1>. USE DEF TradeInv, TradeTyped
<1>1. PICK call : call = [calls[c] EXCEPT !.view = view]
  OBVIOUS
<1>2. CallFits(calls[c]) /\ CallShaped(calls[c])
  BY DEF CallsFit, CallFits, NoCall
<1>3. /\ CallShaped(call) /\ call.view = view /\ call.epoch = calls[c].epoch
      /\ call.token = calls[c].token /\ call.market = calls[c].market
      /\ call.selected = calls[c].selected /\ call.kind = calls[c].kind
      /\ call.leverage = calls[c].leverage
  BY <1>1, <1>2 DEF CallShaped
<1>4. /\ ViewShaped(view) /\ view.account = ticket.view.account /\ view.market = ticket.view.market
      /\ view.snapshot = accountData[ticket.view.market]
      /\ view = [ticket.view EXCEPT !.snapshot = view.snapshot]
  BY DEF ViewShaped
<1>5. view.market # NoMarket /\ view.snapshot # NoData
  BY DEF Gate
<1>6. ticket.view.market \in Pairs
  BY <1>4, <1>5
<1>7. SnapshotFits(view) /\ NoOlder(view.snapshot, ticket.view.snapshot)
  BY <1>4, <1>5, <1>6 DEF SnapshotFits, CacheFits
<1>8. calls[c].epoch = tradeContext.epoch /\ calls[c].market = view.market
  BY <1>4 DEF RefreshApplies
<1>9. CallFits(call)
  BY <1>2, <1>3, <1>4, <1>7, <1>8 DEF CallFits
<1>. QED BY <1>1, <1>3, <1>4, <1>7, <1>8, <1>9 DEF Made

\* Calls change, the screen does not.
LEMMA CallKeeps ==
    ASSUME TradeInv, NEW c \in Calls, NEW call, call = NoCall \/ CallFits(call),
           calls' = [calls EXCEPT ![c] = call], called' \in Nat,
           UNCHANGED <<ticketClock, tradeContext, route, accountData, ticket>>,
           accountFetch' \in {accountFetch, NotFetching} \/ QueryEnabled,
           ScopeFits'
    PROVE  TradeInv'
<1>. USE DEF TradeInv, TradeTyped
<1>1. TradeTyped'
  BY DEF ViewShaped
<1>2. SnapshotFits(ticket.view)' /\ CacheFits'
  BY DEF SnapshotFits, CacheFits, NoOlder, QueryEnabled
<1>3. \A d \in Calls : calls'[d] = calls[d] \/ (d = c /\ calls'[d] = call)
  OBVIOUS
<1>4. ASSUME NEW d \in Calls PROVE calls'[d] = NoCall \/ CallFits(calls'[d])
  BY <1>3 DEF CallsFit
<1>5. CallsFit'
  BY <1>4 DEF CallsFit, CallFits, SnapshotFits
<1>. QED BY <1>1, <1>2, <1>5

\* The stage of a call is not among what has to fit.
LEMMA StageFits ==
    ASSUME NEW call, CallFits(call), NEW pc
    PROVE  /\ CallFits([call EXCEPT !.pc = pc]) /\ [call EXCEPT !.pc = pc].pc = pc
           /\ [call EXCEPT !.pc = pc].view = call.view /\ [call EXCEPT !.pc = pc].draft = call.draft
           /\ [call EXCEPT !.pc = pc].kind = call.kind
           /\ [call EXCEPT !.pc = pc].leverage = call.leverage
           /\ [call EXCEPT !.pc = pc].epoch = call.epoch
           /\ [call EXCEPT !.pc = pc].market = call.market
           /\ [call EXCEPT !.pc = pc].selected = call.selected
BY DEF CallFits, CallShaped

\* The two ways a call made now goes on, and the wait for a refresh.
LEMMA PrepareKeeps ==
    ASSUME TradeInv, NEW c \in Calls, NEW call, Made(call), Prepare(c, call),
           called' \in Nat, UNCHANGED <<ticketClock, tradeContext, route, queryVars, ticket>>
    PROVE  TradeInv' /\ (calls'[c].pc = "handed" => ReviewsTheScreen(calls'[c]))
<1>. USE DEF TradeInv, TradeTyped
<1>1. CallFits(call) /\ SnapshotFits(call.view) /\ call.token # 0
  BY DEF Made, CallFits
<1>2. /\ call.view.account = ticket.view.account /\ call.view.market = ticket.view.market
      /\ call.view.rules = ticket.view.rules
      /\ NoOlder(call.view.snapshot, ticket.view.snapshot)
  BY DEF Made, ViewShaped
<1>3. accountFetch' \in {accountFetch, NotFetching} /\ accountData' = accountData
  BY DEF queryVars
<1>4. CASE BeginReview(c, call)
  <2>1. PICK next : next = [call EXCEPT !.pc = "random"]
    OBVIOUS
  <2>2. calls' = [calls EXCEPT ![c] = next] /\ CallFits(next) /\ next.pc = "random"
    BY <1>1, <1>4, <2>1, StageFits DEF BeginReview
  <2>3. scopeRef'.view = call.view /\ scopeRef'.draft = ticketDraft'
    BY <1>4 DEF BeginReview, ReviewScopeKey
  <2>4. ScopeFits'
    BY <1>2, <2>3 DEF ScopeFits, NoOlder
  <2>5. TradeInv'
    BY <1>3, <2>2, <2>4, CallKeeps
  <2>. QED BY <2>2, <2>5
<1>5. CASE HandLeverage(c, call) /\ call.kind = "leverage"
  <2>1. PICK next : next = [call EXCEPT !.pc = "handed"]
    OBVIOUS
  <2>2. /\ calls' = [calls EXCEPT ![c] = next] /\ CallFits(next)
        /\ next.view = call.view /\ next.kind = "leverage" /\ next.epoch = call.epoch
        /\ next.market = call.market /\ next.selected = call.selected
    BY <1>1, <1>5, <2>1, StageFits DEF HandLeverage
  <2>3. scopeRef'.view = call.view /\ scopeRef'.leverage = call.leverage
    BY <1>5 DEF HandLeverage, LeverageScopeKey
  <2>4. call.leverage # 0
    BY <1>5, TicketAssumption DEF Made, CallFits
  <2>5. ScopeFits'
    BY <1>2, <2>3, <2>4 DEF ScopeFits, NoOlder
  <2>6. TradeInv'
    BY <1>3, <2>2, <2>5, CallKeeps
  <2>7. call.view.snapshot # NoData /\ ticketClock - call.view.snapshot.observedAt <= AccountWindow
    BY <1>1, <1>5, ReadyView DEF HandLeverage
  <2>8. calls'[c] = next
    BY <2>2
  <2>9. next.selected = tradeContext.account /\ next.market = next.view.market
    BY <1>1, <2>2 DEF Made, CallFits
  <2>10. ReviewsTheScreen(next)
    BY <1>1, <1>2, <2>2, <2>7, <2>9 DEF ReviewsTheScreen, SnapshotFits, NoOlder
  <2>11. ReviewsTheScreen(calls'[c])
    BY <2>8, <2>10
  <2>. QED BY <2>6, <2>11
<1>. QED BY <1>4, <1>5 DEF Prepare

\* A press, with a fresh account or a stale one.
LEMMA StartKeeps ==
    ASSUME TradeInv, NEW c \in Calls, NEW call, Made(call), StartReview(c, call),
           called' \in Nat, UNCHANGED <<ticketClock, tradeContext, route, accountData, ticket>>
    PROVE  TradeInv' /\ (calls'[c].pc = "handed" => ReviewsTheScreen(calls'[c]))
<1>1. CASE Prepare(c, call) /\ UNCHANGED accountFetch
  BY <1>1, PrepareKeeps DEF queryVars
<1>2. CASE /\ calls' = [calls EXCEPT ![c] = [call EXCEPT !.pc = "refetch"]]
           /\ accountFetch' = IF QueryEnabled /\ accountFetch = NotFetching THEN [pc |-> "asked"]
                              ELSE accountFetch
           /\ UNCHANGED <<ticketDraft, scopeRef, operation>>
  <2>1. PICK next : next = [call EXCEPT !.pc = "refetch"]
    OBVIOUS
  <2>2. CallFits(next) /\ next.pc = "refetch" /\ calls' = [calls EXCEPT ![c] = next]
    BY <1>2, <2>1, StageFits DEF Made
  <2>3. ScopeFits'
    BY <1>2 DEF TradeInv, ScopeFits, NoOlder
  <2>4. calls'[c] = next
    BY <2>2 DEF TradeInv, TradeTyped
  <2>. QED BY <1>2, <2>2, <2>3, <2>4, CallKeeps
<1>. QED BY <1>1, <1>2 DEF StartReview

\* Every step keeps the invariant, and hands over well.
LEMMA TradeStep ==
    ASSUME TradeInv, TradeNext
    PROVE  /\ TradeInv'
           /\ \A c \in Calls : calls[c].pc # "handed" /\ calls'[c].pc = "handed" =>
                 ReviewsTheScreen(calls'[c])
<1>. USE DEF TradeInv, TradeTyped
<1>1. ASSUME TradeInv', UNCHANGED calls PROVE TradeInv' /\ \A c \in Calls :
                 calls[c].pc # "handed" /\ calls'[c].pc = "handed" => ReviewsTheScreen(calls'[c])
  BY <1>1
<1>2. ASSUME NEW c \in Calls, NEW call, calls' = [calls EXCEPT ![c] = call], TradeInv',
             calls'[c].pc = "handed" => ReviewsTheScreen(calls'[c])
      PROVE  TradeInv' /\ \A d \in Calls :
                 calls[d].pc # "handed" /\ calls'[d].pc = "handed" => ReviewsTheScreen(calls'[d])
  <2>1. \A d \in Calls : d # c => calls'[d] = calls[d]
    BY <1>2
  <2>. QED BY <1>2, <2>1
<1>3. \A c \in Calls : calls[c].pc # "idle" => CallFits(calls[c])
  BY DEF CallsFit, NoCall
<1>4. CASE RenderTicket \/ EditDraft \/ SelectOrderBookPrice
  <2>1. CASE operation' = operation
    BY <1>4, RenderKeeps DEF RenderTicket, EditDraft, SelectOrderBookPrice, supplyVars
  <2>2. CASE SelectOrderBookPrice
    BY <2>2, RenderKeeps DEF SelectOrderBookPrice, supplyVars
  <2>. QED BY <1>4, <2>1, <2>2, <1>1 DEF RenderTicket, EditDraft, SelectOrderBookPrice
<1>5. CASE SetUsable \/ DefaultsArrive \/ TicketTick \/ AccountChanges \/ FetchAccount \/ FirstAnswer
           \/ AccountFetchFails \/ \E m \in Pairs : ListingChanges(m) \/ SwitchMarket(m)
  <2>1. UNCHANGED <<ticket, scopeRef, calls, tradeContext, accountData, ticketDraft, called>>
    BY <1>5 DEF SetUsable, DefaultsArrive, TicketTick, AccountChanges, FetchAccount, FirstAnswer,
                AccountFetchFails, ListingChanges, SwitchMarket, queryVars
  <2>2. ticketClock' \in Nat /\ ticketClock <= ticketClock'
    <3>1. ticketClock' = ticketClock \/ ticketClock' = ticketClock + 1
      BY <1>5 DEF SetUsable, DefaultsArrive, TicketTick, AccountChanges, FetchAccount, FirstAnswer,
                  AccountFetchFails, ListingChanges, SwitchMarket
    <3>. QED BY <3>1
  <2>3. route' \in Pairs /\ operation' \in {operation, 0}
    BY <1>5 DEF SetUsable, DefaultsArrive, TicketTick, AccountChanges, FetchAccount, FirstAnswer,
                AccountFetchFails, ListingChanges, SwitchMarket
  <2>4. accountFetch' \in {accountFetch, NotFetching} \/ ticket.view.account = tradeContext.account
    <3>1. CASE FirstAnswer
      BY <3>1 DEF FirstAnswer, CacheFits, NotFetching
    <3>2. CASE FetchAccount
      BY <3>2 DEF FetchAccount, QueryEnabled
    <3>3. CASE AccountFetchFails
      BY <3>3 DEF AccountFetchFails
    <3>4. CASE accountFetch' = accountFetch
      BY <3>4
    <3>. QED BY <1>5, <3>1, <3>2, <3>3, <3>4
             DEF SetUsable, DefaultsArrive, TicketTick, AccountChanges, ListingChanges, SwitchMarket,
                 queryVars
  <2>. QED BY <2>1, <2>2, <2>3, <2>4, AroundKeeps, <1>1
<1>6. ASSUME NEW a \in Traders, CommitContext(a)
      PROVE TradeInv' /\ \A c \in Calls :
                 calls[c].pc # "handed" /\ calls'[c].pc = "handed" => ReviewsTheScreen(calls'[c])
  BY <1>1, <1>6, CommitKeeps DEF CommitContext
<1>7. CASE SecondAnswer
  BY <1>1, <1>7, AnswerKeeps DEF SecondAnswer
<1>8. ASSUME NEW c \in Calls, NEW call, Made(call), StartReview(c, call), called' = called + 1,
             UNCHANGED <<ticketClock, tradeContext, route, accountData, ticket>>
      PROVE TradeInv' /\ \A d \in Calls :
                 calls[d].pc # "handed" /\ calls'[d].pc = "handed" => ReviewsTheScreen(calls'[d])
  <2>1. \E next : calls' = [calls EXCEPT ![c] = next]
    BY <1>8 DEF StartReview, Prepare, BeginReview, HandLeverage
  <2>. QED BY <1>2, <1>8, <2>1, StartKeeps
<1>9. ASSUME NEW c \in Calls, ReviewOrder(c)
      PROVE TradeInv' /\ \A d \in Calls :
                 calls[d].pc # "handed" /\ calls'[d].pc = "handed" => ReviewsTheScreen(calls'[d])
  <2>1. PICK side \in {"buy", "sell"} :
           StartReview(c, Captured("order", [ticket.draft EXCEPT !.side = side], 0))
    BY <1>9 DEF ReviewOrder
  <2>2. PICK call : call = Captured("order", [ticket.draft EXCEPT !.side = side], 0)
    OBVIOUS
  <2>3. Made(call)
    BY <2>2, TradePressFits
  <2>4. called' = called + 1 /\ UNCHANGED <<ticketClock, tradeContext, route, accountData, ticket>>
    BY <1>9 DEF ReviewOrder
  <2>. QED BY <1>8, <2>1, <2>2, <2>3, <2>4
<1>10. ASSUME NEW c \in Calls, ReviewLeverage(c)
       PROVE TradeInv' /\ \A d \in Calls :
                 calls[d].pc # "handed" /\ calls'[d].pc = "handed" => ReviewsTheScreen(calls'[d])
  <2>1. PICK leverage \in Leverages : StartReview(c, Captured("leverage", ticket.draft, leverage))
    BY <1>10 DEF ReviewLeverage
  <2>2. PICK call : call = Captured("leverage", ticket.draft, leverage)
    OBVIOUS
  <2>3. Made(call)
    BY <2>2, TradePressFits
  <2>4. called' = called + 1 /\ UNCHANGED <<ticketClock, tradeContext, route, accountData, ticket>>
    BY <1>10 DEF ReviewLeverage
  <2>. QED BY <1>8, <2>1, <2>2, <2>3, <2>4
<1>11. ASSUME NEW c \in Calls, AfterRefresh(c)
       PROVE TradeInv' /\ \A d \in Calls :
                 calls[d].pc # "handed" /\ calls'[d].pc = "handed" => ReviewsTheScreen(calls'[d])
  <2>1. PICK view : view = [ticket.view EXCEPT !.snapshot = accountData[ticket.view.market]]
    OBVIOUS
  <2>2. PICK call : call = [calls[c] EXCEPT !.view = view]
    OBVIOUS
  <2>3. Made(call) /\ Prepare(c, call)
    BY <1>11, <2>1, <2>2, RefreshFits DEF AfterRefresh
  <2>4. UNCHANGED <<ticketClock, tradeContext, route, queryVars, ticket, called>>
    BY <1>11 DEF AfterRefresh
  <2>5. \E next : calls' = [calls EXCEPT ![c] = next]
    BY <2>3 DEF Prepare, BeginReview, HandLeverage
  <2>. QED BY <1>2, <2>3, <2>4, <2>5, PrepareKeeps
<1>12. ASSUME NEW c \in Calls, HandOrder(c)
       PROVE TradeInv' /\ \A d \in Calls :
                 calls[d].pc # "handed" /\ calls'[d].pc = "handed" => ReviewsTheScreen(calls'[d])
  <2>1. PICK call : call = calls[c]
    OBVIOUS
  <2>2. PICK next : next = [call EXCEPT !.pc = "handed"]
    OBVIOUS
  <2>3. CallFits(call) /\ call.token # 0 /\ SnapshotFits(call.view)
    BY <1>3, <1>12, <2>1 DEF HandOrder, CallFits
  <2>4. /\ calls' = [calls EXCEPT ![c] = next] /\ CallFits(next)
        /\ next.view = call.view /\ next.draft = call.draft /\ next.epoch = call.epoch
        /\ next.market = call.market /\ next.selected = call.selected
    <3>1. [calls EXCEPT ![c].pc = "handed"] = [calls EXCEPT ![c] = [calls[c] EXCEPT !.pc = "handed"]]
      OBVIOUS
    <3>. QED BY <1>12, <2>1, <2>2, <2>3, <3>1, StageFits DEF HandOrder
  <2>5. /\ UNCHANGED <<ticketClock, tradeContext, route, accountData, accountFetch, ticket, called,
                       scopeRef, ticketDraft, operation>>
    BY <1>12 DEF HandOrder, queryVars
  <2>6. TradeInv'
    <3>1. ScopeFits'
      BY <2>5 DEF ScopeFits, NoOlder
    <3>. QED BY <2>4, <2>5, <3>1, CallKeeps
  <2>7. /\ call.token = operation /\ call.epoch = tradeContext.epoch
        /\ scopeRef.view = call.view /\ scopeRef.draft = call.draft /\ scopeRef.leverage = 0
    BY <1>12, <2>1 DEF HandOrder, OperationHolds, ContextHolds, ReviewScopeKey
  <2>8. /\ Gate(call.view) = "ready" /\ DraftValid(call.draft, call.view)
        /\ call.draft.leverage = call.view.snapshot.leverage
    BY <1>12, <2>1 DEF HandOrder, ReviewBuilt
  <2>9. call.view.snapshot # NoData /\ ticketClock - call.view.snapshot.observedAt <= AccountWindow
    BY <2>3, <2>8, ReadyView
  <2>10. next.selected = tradeContext.account /\ next.market = next.view.market
    BY <2>3, <2>4, <2>7 DEF CallFits
  <2>11. /\ call.view.account = ticket.view.account /\ call.view.market = ticket.view.market
         /\ call.view.rules = ticket.view.rules /\ call.draft \in {ticketDraft, ticket.draft}
         /\ NoOlder(call.view.snapshot, ticket.view.snapshot)
    BY <2>3, <2>7 DEF ScopeFits
  <2>12. DraftValid(next.draft, ticket.view)
    BY <2>4, <2>8, <2>11 DEF DraftValid
  <2>13. ReviewsTheScreen(next)
    BY <2>3, <2>4, <2>8, <2>9, <2>10, <2>11, <2>12 DEF ReviewsTheScreen, SnapshotFits, NoOlder
  <2>14. calls'[c] = next
    BY <2>4
  <2>. QED BY <1>2, <2>4, <2>6, <2>13, <2>14
<1>13. ASSUME NEW c \in Calls, ReviewStops(c) \/ ReviewSettles(c)
       PROVE TradeInv' /\ \A d \in Calls :
                 calls[d].pc # "handed" /\ calls'[d].pc = "handed" => ReviewsTheScreen(calls'[d])
  <2>1. /\ calls' = [calls EXCEPT ![c] = NoCall]
        /\ UNCHANGED <<ticketClock, tradeContext, route, accountData, ticket, called, scopeRef,
                       ticketDraft, operation>>
        /\ accountFetch' = accountFetch \/ QueryEnabled
    BY <1>13 DEF ReviewStops, ReviewSettles, queryVars
  <2>2. ScopeFits'
    BY <2>1 DEF ScopeFits, NoOlder
  <2>3. calls'[c].pc = "idle"
    BY <2>1 DEF NoCall
  <2>4. TradeInv'
    BY <2>1, <2>2, CallKeeps
  <2>. QED BY <1>2, <2>1, <2>3, <2>4
<1>. QED BY <1>4, <1>5, <1>6, <1>7, <1>9, <1>10, <1>11, <1>12, <1>13 DEF TradeNext

\* A review is handed over only for the account, market, snapshot and draft it was
\* pressed for, however prices, rules, contexts and renders move while it waits.
THEOREM TradeReviewsAreCurrent == TradeSpec => TradeReviewIsCurrent
<1>1. TradeInv /\ [TradeNext]_tradeVars => TradeInv'
  <2>1. ASSUME TradeInv, UNCHANGED tradeVars PROVE TradeInv'
    BY <2>1, AroundKeeps DEF tradeVars, supplyVars, queryVars, TradeInv, TradeTyped
  <2>. QED BY <2>1, TradeStep
<1>2. TradeInv /\ [TradeNext]_tradeVars =>
        [\A c \in Calls : calls[c].pc # "handed" /\ calls'[c].pc = "handed" =>
           ReviewsTheScreen(calls'[c])]_tradeVars
  BY TradeStep
<1>. QED BY <1>1, <1>2, TradeInvInit, PTL DEF TradeSpec, TradeReviewIsCurrent

-----------------------------------------------------------------------------
(* Preferences *)

\* What can be preferred in a scope; a market is recent once at most.
PreferencesOf(s) ==
    {p \in [favorites : SUBSET Own(s), recents : Seq(Own(s))] :
       \A i, j \in DOMAIN p.recents : p.recents[i] = p.recents[j] => i = j}

Stored ==
    /\ storedMarkets \in [Scopes -> UNION {PreferencesOf(s) : s \in Scopes}]
    /\ \A s \in Scopes : storedMarkets[s] \in PreferencesOf(s)
    /\ storedDefaults \in [Scopes -> SUBSET UNION {Own(s) : s \in Scopes}]
    /\ \A s \in Scopes : storedDefaults[s] \subseteq Own(s)

\* The views are of the scope shown, with what was chosen there.
ShownFits ==
    /\ scope \in Scopes /\ scopeSwitches \in Nat
    /\ marketsView = View(marketsView.scope, marketsView.status, marketsView.value)
    /\ marketsView.scope = scope /\ marketsView.value \in PreferencesOf(scope)
    /\ currentPreferences \in PreferencesOf(scope)
    /\ defaultsView = View(defaultsView.scope, defaultsView.status, defaultsView.value)
    /\ defaultsView.scope = scope /\ defaultsView.value \subseteq Own(scope)

\* A load brings what was chosen in the scope it was issued for; one that still
\* counts is of the scope shown.
MarketLoadFits(l) == l.scope \in Scopes /\ (l.pc = "read" => l.value \in PreferencesOf(l.scope))
DefaultLoadFits(l) == l.scope \in Scopes /\ (l.pc = "read" => l.value \subseteq Own(l.scope))

LoadsFit ==
    /\ \A l \in marketLoad \cup lateLoads : MarketLoadFits(l)
    /\ \A l \in marketLoad : l.scope = scope
    /\ \A l \in defaultsLoad \cup lateDefaults : DefaultLoadFits(l)
    /\ \A l \in defaultsLoad : l.scope = scope

MarketWriteFits(w) == w.scope \in Scopes /\ w.value \in PreferencesOf(w.scope)

\* A write of defaults that still counts is of the scope shown.
DefaultWriteFits(w) ==
    /\ w.scope \in Scopes /\ w.value \subseteq Own(w.scope)
    /\ w.generation \in Nat /\ w.generation <= scopeSwitches
    /\ w.generation = scopeSwitches => w.scope = scope

MarketWrites == {w \in [scope : Scopes, value : UNION {PreferencesOf(s) : s \in Scopes}] : MarketWriteFits(w)}

WritesFit ==
    /\ writeQueue \in Seq(MarketWrites)
    /\ \A w \in defaultsWrite : DefaultWriteFits(w)

\* A load of the appearance counts only while nothing was chosen since.
ThemeFits ==
    /\ themeWrites \in Seq(Themes)
    /\ \E status, theme : themeView = [status |-> status, theme |-> theme]
    /\ themeView.status = "ready" /\ themeWrites = <<>> => themeView.theme = storedTheme
    /\ themeLoad # {} => themeWrites = <<>>
    /\ \A l \in themeLoad : l.pc = "read" => l.theme = storedTheme

PreferenceInv == Stored /\ ShownFits /\ LoadsFit /\ WritesFit /\ ThemeFits

\* Nothing is preferred at first.
LEMMA EmptyFits == \A s : EmptyPreferences \in PreferencesOf(s)
BY DEF EmptyPreferences, PreferencesOf

\* A preference of a scope has its two parts.
LEMMA PreferenceParts ==
    ASSUME NEW s, NEW p \in PreferencesOf(s)
    PROVE  /\ p.favorites \in SUBSET Own(s) /\ p.recents \in Seq(Own(s))
           /\ p = [favorites |-> p.favorites, recents |-> p.recents]
           /\ \A i, j \in DOMAIN p.recents : p.recents[i] = p.recents[j] => i = j
           /\ MarketsOf(p) \subseteq Own(s)
<1>1. /\ p \in [favorites : SUBSET Own(s), recents : Seq(Own(s))]
      /\ \A i, j \in DOMAIN p.recents : p.recents[i] = p.recents[j] => i = j
  BY DEF PreferencesOf
<1>2. p.favorites \in SUBSET Own(s) /\ p.recents \in Seq(Own(s))
  BY <1>1
<1>3. ToSet(p.recents) \subseteq Own(s)
  BY <1>2 DEF ToSet
<1>. QED BY <1>1, <1>2, <1>3 DEF MarketsOf

\* Toggling a favourite of the scope.
LEMMA ToggleFits ==
    ASSUME NEW s, NEW p \in PreferencesOf(s), NEW m \in Own(s)
    PROVE  toggleFavorite(p, m) \in PreferencesOf(s)
<1>1. PICK favorites, recents : p = [favorites |-> favorites, recents |-> recents]
  BY PreferenceParts
<1>2. favorites \in SUBSET Own(s) /\ recents = p.recents
  BY <1>1, PreferenceParts
<1>3. toggleFavorite(p, m) =
        [favorites |-> IF m \in favorites THEN favorites \ {m} ELSE favorites \cup {m},
         recents |-> recents]
  BY <1>1 DEF toggleFavorite
<1>4. (IF m \in favorites THEN favorites \ {m} ELSE favorites \cup {m}) \in SUBSET Own(s)
  BY <1>2
<1>. QED BY <1>2, <1>3, <1>4, PreferenceParts DEF PreferencesOf

\* A market of the scope moves to the front, and is there once.
LEMMA RecordFits ==
    ASSUME NEW s, NEW p \in PreferencesOf(s), NEW m \in Own(s)
    PROVE  recordRecentMarket(p, m) \in PreferencesOf(s)
<1>. DEFINE recents == p.recents
            at == {i \in DOMAIN recents : recents[i] = m}
            left == IF at = {} THEN Len(recents) + 1 ELSE CHOOSE i \in at : TRUE
            length == IF at = {} THEN Len(recents) + 1 ELSE Len(recents)
            limit == IF length < MaxRecents THEN length ELSE MaxRecents
            next == [i \in 1 .. limit |->
                       IF i = 1 THEN m ELSE IF i <= left THEN recents[i - 1] ELSE recents[i]]
<1>1. /\ recents \in Seq(Own(s)) /\ Len(recents) \in Nat /\ DOMAIN recents = 1 .. Len(recents)
      /\ \A i, j \in 1 .. Len(recents) : recents[i] = recents[j] => i = j
      /\ MaxRecents \in Nat \ {0}
  BY PreferenceParts, PreferenceAssumption
<1>2. limit \in Nat /\ limit <= length /\ length <= Len(recents) + 1
  BY <1>1
<1>3. /\ left \in 1 .. Len(recents) + 1
      /\ at # {} => left <= Len(recents) /\ recents[left] = m /\ length = Len(recents)
      /\ at = {} => left = Len(recents) + 1 /\ length = Len(recents) + 1
  <2>1. CASE at = {}
    BY <1>1, <2>1
  <2>2. CASE at # {}
    <3>1. left \in at
      <4>. HIDE DEF at
      <4>. QED BY <2>2
    <3>2. left \in 1 .. Len(recents) /\ recents[left] = m
      BY <1>1, <3>1
    <3>. HIDE DEF left
    <3>. QED BY <1>1, <2>2, <3>2
  <2>. QED BY <2>1, <2>2
<1>4. \A i \in 1 .. Len(recents) : i # left => recents[i] # m
  <2>1. CASE at = {}
    BY <1>1, <2>1
  <2>2. CASE at # {}
    BY <1>1, <1>3, <2>2
  <2>. QED BY <2>1, <2>2
<1>. HIDE DEF left, length, at
\* From which place of the old list a place after the first is taken.
<1>. DEFINE From(i) == IF i <= left THEN i - 1 ELSE i
<1>5. \A i \in 2 .. limit : From(i) \in 1 .. Len(recents) /\ From(i) # left
  <2>1. CASE at = {}
    BY <1>1, <1>2, <1>3, <2>1
  <2>2. CASE at # {}
    BY <1>1, <1>2, <1>3, <2>2
  <2>. QED BY <2>1, <2>2
<1>. HIDE DEF limit
<1>6. \A i, j \in 2 .. limit : From(i) = From(j) => i = j
  BY <1>2, <1>3
<1>7. \A i \in 1 .. limit : next[i] = IF i = 1 THEN m ELSE recents[From(i)]
  BY <1>2
<1>8. \A i \in 1 .. limit : i = 1 \/ i \in 2 .. limit
  BY <1>2
<1>9. \A i \in 1 .. limit : next[i] \in Own(s)
  BY <1>1, <1>5, <1>7, <1>8
<1>. HIDE DEF From
<1>10. next \in Seq(Own(s)) /\ DOMAIN next = 1 .. limit
  BY <1>2, <1>7, <1>9
<1>11. \A i, j \in DOMAIN next : next[i] = next[j] => i = j
  <2>. SUFFICES ASSUME NEW i \in 1 .. limit, NEW j \in 1 .. limit, next[i] = next[j]
                PROVE  i = j
    BY <1>10
  <2>1. CASE i = 1 /\ j \in 2 .. limit
    BY <1>4, <1>5, <1>7, <2>1
  <2>2. CASE j = 1 /\ i \in 2 .. limit
    BY <1>4, <1>5, <1>7, <2>2
  <2>3. CASE i \in 2 .. limit /\ j \in 2 .. limit
    <3>1. recents[From(i)] = recents[From(j)]
      BY <1>7, <2>3
    <3>. QED BY <1>1, <1>5, <1>6, <2>3, <3>1
  <2>. QED BY <1>8, <2>1, <2>2, <2>3
<1>. HIDE DEF next
<1>12. recordRecentMarket(p, m) = [favorites |-> p.favorites, recents |-> next]
  <2>1. PICK favorites, old : p = [favorites |-> favorites, recents |-> old]
    BY PreferenceParts
  <2>2. recordRecentMarket(p, m) = [p EXCEPT !.recents = next]
    BY DEF recordRecentMarket, next, limit, length, left, at
  <2>. QED BY <2>1, <2>2
<1>. QED BY <1>10, <1>11, <1>12, PreferenceParts DEF PreferencesOf

\* The parts of the invariant that a step leaves alone.
LEMMA StoredStays == Stored /\ UNCHANGED <<storedMarkets, storedDefaults>> => Stored'
BY DEF Stored

LEMMA ShownStays ==
    ShownFits /\ UNCHANGED <<scope, scopeSwitches, marketsView, currentPreferences, defaultsView>> => ShownFits'
BY DEF ShownFits

LEMMA LoadsStay ==
    LoadsFit /\ UNCHANGED <<scope, marketLoad, lateLoads, defaultsLoad, lateDefaults>> => LoadsFit'
BY DEF LoadsFit

LEMMA WritesStay ==
    WritesFit /\ UNCHANGED <<scope, scopeSwitches, writeQueue, defaultsWrite>> => WritesFit'
BY DEF WritesFit, DefaultWriteFits

LEMMA ThemeStays == ThemeFits /\ UNCHANGED themeVars => ThemeFits'
BY DEF ThemeFits, themeVars

\* Nothing is stored and everything is asked for at first.
LEMMA PreferenceInvInit == PreferenceInit => PreferenceInv
<1>. SUFFICES ASSUME PreferenceInit PROVE PreferenceInv
  OBVIOUS
<1>. USE DEF PreferenceInit
<1>1. Stored
  <2>1. \A s \in Scopes : storedMarkets[s] \in PreferencesOf(s)
    BY EmptyFits
  <2>2. storedMarkets \in [Scopes -> UNION {PreferencesOf(s) : s \in Scopes}]
    BY EmptyFits
  <2>. QED BY <2>1, <2>2 DEF Stored
<1>2. ShownFits
  BY EmptyFits DEF ShownFits, View, DefaultsShown
<1>3. LoadsFit
  BY DEF LoadsFit, MarketLoadFits, DefaultLoadFits, Issued, DefaultsIssued
<1>4. WritesFit
  BY DEF WritesFit
<1>5. ThemeFits
  <2>1. \A l \in themeLoad : l.pc = "issued"
    OBVIOUS
  <2>2. themeView = [status |-> "loading", theme |-> "system"] /\ themeWrites \in Seq(Themes)
    OBVIOUS
  <2>3. themeView.status = "loading"
    BY <2>2
  <2>4. \E stage, theme : themeView = [status |-> stage, theme |-> theme]
    BY <2>2
  <2>5. themeWrites = <<>>
    OBVIOUS
  <2>. QED BY <2>1, <2>2, <2>3, <2>4, <2>5 DEF ThemeFits
<1>. QED BY <1>1, <1>2, <1>3, <1>4, <1>5 DEF PreferenceInv

\* Another scope: what was under way for the one left is late, and its writes do not count.
LEMMA SwitchKeeps == PreferenceInv /\ SwitchScope => PreferenceInv'
<1>. SUFFICES ASSUME PreferenceInv, SwitchScope PROVE PreferenceInv'
  OBVIOUS
<1>. USE DEF PreferenceInv
<1>1. PICK s \in Scopes \ {scope} :
         /\ scope' = s /\ scopeSwitches' = scopeSwitches + 1
         /\ currentPreferences' = EmptyPreferences
         /\ marketsView' = View(s, "loading", EmptyPreferences)
         /\ lateLoads' = lateLoads \cup marketLoad /\ marketLoad' = Issued(s)
         /\ defaultsView' = DefaultsShown(s)
         /\ lateDefaults' = lateDefaults \cup defaultsLoad
         /\ defaultsLoad' = DefaultsIssued(s)
         /\ UNCHANGED <<storedMarkets, writeQueue, storedDefaults, defaultsWrite, themeVars>>
  BY DEF SwitchScope
<1>2. Stored' /\ ThemeFits'
  BY <1>1, StoredStays, ThemeStays
<1>3. ShownFits'
  BY <1>1, EmptyFits DEF ShownFits, View, DefaultsShown
<1>4. \A l \in Issued(s) \cup DefaultsIssued(s) : l.scope = s /\ l.pc = "issued"
  BY DEF Issued, DefaultsIssued
<1>5. LoadsFit'
  BY <1>1, <1>4 DEF LoadsFit, MarketLoadFits, DefaultLoadFits
<1>6. WritesFit'
  BY <1>1 DEF WritesFit, DefaultWriteFits, ShownFits
<1>. QED BY <1>2, <1>3, <1>5, <1>6

\* The device reads what is stored for the scope of a load.
LEMMA ReadMarketsKeeps == PreferenceInv /\ ReadMarkets => PreferenceInv'
<1>. SUFFICES ASSUME PreferenceInv, ReadMarkets PROVE PreferenceInv'
  OBVIOUS
<1>. USE DEF PreferenceInv
<1>1. PICK l, read :
         /\ l \in marketLoad \cup lateLoads
         /\ read = [scope |-> l.scope, pc |-> "read", value |-> storedMarkets[l.scope]]
         /\ marketLoad' = IF l \in marketLoad THEN {read} ELSE marketLoad
         /\ lateLoads' = IF l \in lateLoads THEN (lateLoads \ {l}) \cup {read} ELSE lateLoads
         /\ UNCHANGED <<scope, storedMarkets, marketsView, currentPreferences, writeQueue,
                        defaultsVars, themeVars, scopeSwitches>>
  BY DEF ReadMarkets
<1>2. Stored' /\ ThemeFits' /\ ShownFits' /\ WritesFit'
  BY <1>1, StoredStays, ThemeStays, ShownStays, WritesStay DEF defaultsVars
<1>3. MarketLoadFits(read) /\ read.scope = l.scope
  BY <1>1 DEF MarketLoadFits, Stored, LoadsFit
<1>4. LoadsFit'
  <2>1. \A x \in marketLoad' \cup lateLoads' : x \in marketLoad \cup lateLoads \/ x = read
    BY <1>1
  <2>2. \A x \in marketLoad' : x.scope = scope
    BY <1>1, <1>3 DEF LoadsFit
  <2>3. UNCHANGED <<scope, defaultsLoad, lateDefaults>>
    BY <1>1 DEF defaultsVars
  <2>. QED BY <1>3, <2>1, <2>2, <2>3 DEF LoadsFit
<1>. QED BY <1>2, <1>4

\* Loads that end, whatever they brought, leave the others fitting.
LEMMA LoadsEnd ==
    ASSUME LoadsFit, UNCHANGED scope,
           marketLoad' \subseteq marketLoad, lateLoads' \subseteq lateLoads,
           defaultsLoad' \subseteq defaultsLoad, lateDefaults' \subseteq lateDefaults
    PROVE  LoadsFit'
BY DEF LoadsFit

\* A load that still counts shows what is stored for the scope shown.
LEMMA LoadMarketsKeeps == PreferenceInv /\ (LoadMarkets \/ LoadMarketsFails) => PreferenceInv'
<1>. SUFFICES ASSUME PreferenceInv, LoadMarkets \/ LoadMarketsFails PROVE PreferenceInv'
  OBVIOUS
<1>. USE DEF PreferenceInv
<1>1. /\ UNCHANGED <<scope, storedMarkets, writeQueue, defaultsVars, themeVars, scopeSwitches>>
      /\ marketLoad' \subseteq marketLoad /\ lateLoads' \subseteq lateLoads
  BY DEF LoadMarkets, LoadMarketsFails
<1>2. Stored' /\ ThemeFits' /\ WritesFit' /\ LoadsFit'
  BY <1>1, StoredStays, ThemeStays, WritesStay, LoadsEnd DEF defaultsVars
<1>3. \/ UNCHANGED <<currentPreferences, marketsView>>
      \/ \E status : \E p \in PreferencesOf(scope) :
            currentPreferences' = p /\ marketsView' = View(scope, status, p)
  <2>1. CASE LoadMarketsFails
    BY <2>1, EmptyFits DEF LoadMarketsFails
  <2>2. CASE LoadMarkets
    BY <2>2 DEF LoadMarkets, MarketLoadCurrent, LoadsFit, MarketLoadFits
  <2>. QED BY <2>1, <2>2
<1>4. ShownFits'
  BY <1>1, <1>3 DEF ShownFits, View, defaultsVars
<1>. QED BY <1>2, <1>4

\* A change of the preferences shown is queued for their scope.
LEMMA CommitMarketsKeeps ==
    ASSUME PreferenceInv, NEW p \in PreferencesOf(scope), CommitMarkets(p)
    PROVE  PreferenceInv'
<1>. USE DEF PreferenceInv
<1>. DEFINE w == [scope |-> scope, value |-> p]
<1>1. /\ currentPreferences' = p /\ marketsView' = View(scope, "ready", p)
      /\ writeQueue' = Append(writeQueue, w)
      /\ UNCHANGED <<scope, storedMarkets, marketLoad, lateLoads, defaultsVars, themeVars, scopeSwitches>>
  BY DEF CommitMarkets
<1>2. Stored' /\ ThemeFits' /\ LoadsFit'
  BY <1>1, StoredStays, ThemeStays, LoadsStay DEF defaultsVars
<1>3. ShownFits'
  BY <1>1 DEF ShownFits, View, defaultsVars
<1>4. w \in MarketWrites
  BY DEF MarketWrites, MarketWriteFits, ShownFits
<1>5. writeQueue' \in Seq(MarketWrites)
  BY <1>1, <1>4 DEF WritesFit
<1>6. WritesFit'
  BY <1>1, <1>5 DEF WritesFit, DefaultWriteFits, defaultsVars
<1>. QED BY <1>2, <1>3, <1>6

\* A market of the scope shown is made a favourite, or opened.
LEMMA ChooseMarketKeeps == PreferenceInv /\ (ToggleFavorite \/ SelectMarket) => PreferenceInv'
<1>. SUFFICES ASSUME PreferenceInv, ToggleFavorite \/ SelectMarket PROVE PreferenceInv'
  OBVIOUS
<1>1. \A c \in Choosable : <<scope, c>> \in Own(scope)
  BY DEF Own
<1>2. currentPreferences \in PreferencesOf(scope)
  BY DEF PreferenceInv, ShownFits
<1>3. \E p \in PreferencesOf(scope) : CommitMarkets(p)
  BY <1>1, <1>2, ToggleFits, RecordFits DEF ToggleFavorite, SelectMarket
<1>. QED BY <1>3, CommitMarketsKeeps

\* The first write of the queue reaches the device, or fails.
LEMMA WriteMarketsKeeps == PreferenceInv /\ WriteMarkets => PreferenceInv'
<1>. SUFFICES ASSUME PreferenceInv, WriteMarkets PROVE PreferenceInv'
  OBVIOUS
<1>. USE DEF PreferenceInv
<1>1. PICK w : w = Head(writeQueue)
  OBVIOUS
<1>2. w \in MarketWrites /\ writeQueue' \in Seq(MarketWrites)
  BY <1>1 DEF WriteMarkets, WritesFit
<1>3. w.scope \in Scopes /\ w.value \in PreferencesOf(w.scope)
  BY <1>2 DEF MarketWrites, MarketWriteFits
<1>4. /\ storedMarkets' = storedMarkets \/ storedMarkets' = [storedMarkets EXCEPT ![w.scope] = w.value]
      /\ marketsView' = marketsView \/ marketsView' = [marketsView EXCEPT !.status = "error"]
      /\ UNCHANGED <<scope, currentPreferences, marketLoad, lateLoads, defaultsVars, themeVars,
                     scopeSwitches>>
  BY <1>1 DEF WriteMarkets
<1>5. ThemeFits' /\ LoadsFit'
  BY <1>4, ThemeStays, LoadsStay DEF defaultsVars
<1>6. Stored'
  <2>1. storedDefaults' = storedDefaults
    BY <1>4 DEF defaultsVars
  <2>2. \A s \in Scopes : storedMarkets'[s] \in PreferencesOf(s)
    BY <1>3, <1>4 DEF Stored
  <2>3. storedMarkets' \in [Scopes -> UNION {PreferencesOf(s) : s \in Scopes}]
    <3>1. w.value \in UNION {PreferencesOf(s) : s \in Scopes}
      BY <1>3
    <3>. QED BY <1>4, <3>1 DEF Stored
  <2>. QED BY <2>1, <2>2, <2>3 DEF Stored
<1>7. ShownFits'
  <2>1. \E status : marketsView' = View(scope, status, marketsView.value)
    BY <1>4 DEF ShownFits, View
  <2>. QED BY <1>4, <2>1 DEF ShownFits, View, defaultsVars
<1>8. WritesFit'
  BY <1>2, <1>4 DEF WritesFit, DefaultWriteFits, defaultsVars
<1>. QED BY <1>5, <1>6, <1>7, <1>8

\* The device reads the defaults stored for the account of a load.
LEMMA ReadDefaultsKeeps == PreferenceInv /\ ReadDefaults => PreferenceInv'
<1>. SUFFICES ASSUME PreferenceInv, ReadDefaults PROVE PreferenceInv'
  OBVIOUS
<1>. USE DEF PreferenceInv
<1>1. PICK l, read :
         /\ l \in defaultsLoad \cup lateDefaults
         /\ read = [scope |-> l.scope, pc |-> "read", value |-> storedDefaults[l.scope]]
         /\ defaultsLoad' = IF l \in defaultsLoad THEN {read} ELSE defaultsLoad
         /\ lateDefaults' = IF l \in lateDefaults THEN (lateDefaults \ {l}) \cup {read}
                            ELSE lateDefaults
         /\ UNCHANGED <<scope, marketPrefVars, storedDefaults, defaultsView, defaultsWrite,
                        themeVars, scopeSwitches>>
  BY DEF ReadDefaults
<1>2. Stored' /\ ThemeFits' /\ ShownFits' /\ WritesFit'
  BY <1>1, StoredStays, ThemeStays, ShownStays, WritesStay DEF marketPrefVars
<1>3. DefaultLoadFits(read) /\ read.scope = l.scope
  BY <1>1 DEF DefaultLoadFits, Stored, LoadsFit
<1>4. LoadsFit'
  <2>1. \A x \in defaultsLoad' \cup lateDefaults' : x \in defaultsLoad \cup lateDefaults \/ x = read
    BY <1>1
  <2>2. \A x \in defaultsLoad' : x.scope = scope
    BY <1>1, <1>3 DEF LoadsFit
  <2>3. UNCHANGED <<scope, marketLoad, lateLoads>>
    BY <1>1 DEF marketPrefVars
  <2>. QED BY <1>3, <2>1, <2>2, <2>3 DEF LoadsFit
<1>. QED BY <1>2, <1>4

\* A load of defaults that still counts shows them, or none.
LEMMA LoadDefaultsKeeps == PreferenceInv /\ (LoadDefaults \/ LoadDefaultsFails) => PreferenceInv'
<1>. SUFFICES ASSUME PreferenceInv, LoadDefaults \/ LoadDefaultsFails PROVE PreferenceInv'
  OBVIOUS
<1>. USE DEF PreferenceInv
<1>1. /\ UNCHANGED <<scope, marketPrefVars, storedDefaults, defaultsWrite, themeVars, scopeSwitches>>
      /\ defaultsLoad' \subseteq defaultsLoad /\ lateDefaults' \subseteq lateDefaults
  BY DEF LoadDefaults, LoadDefaultsFails
<1>2. Stored' /\ ThemeFits' /\ WritesFit' /\ LoadsFit'
  BY <1>1, StoredStays, ThemeStays, WritesStay, LoadsEnd DEF marketPrefVars
<1>3. \/ UNCHANGED defaultsView
      \/ \E status : \E value \in SUBSET Own(scope) : defaultsView' = View(scope, status, value)
  <2>1. CASE LoadDefaultsFails
    BY <2>1 DEF LoadDefaultsFails
  <2>2. CASE LoadDefaults
    <3>1. PICK l \in {x \in defaultsLoad \cup lateDefaults : x.pc = "read"} :
             \/ UNCHANGED defaultsView
             \/ /\ l \in defaultsLoad
                /\ \E parsed \in {l.value, {}} : defaultsView' = View(scope, "ready", parsed)
      BY <2>2 DEF LoadDefaults
    <3>2. l \in defaultsLoad => l.value \in SUBSET Own(scope)
      BY DEF LoadsFit, DefaultLoadFits
    <3>. QED BY <3>1, <3>2
  <2>. QED BY <2>1, <2>2
<1>4. ShownFits'
  BY <1>1, <1>3 DEF ShownFits, View, marketPrefVars
<1>. QED BY <1>2, <1>4

\* A change of the defaults is on its way to the device, of the account shown.
LEMMA PersistKeeps ==
    ASSUME PreferenceInv, NEW next \in SUBSET Own(scope), Persist(next)
    PROVE  PreferenceInv'
<1>. USE DEF PreferenceInv
<1>. DEFINE w == [scope |-> scope, value |-> next, generation |-> scopeSwitches]
<1>1. /\ defaultsWrite' = {w}
      /\ UNCHANGED <<scope, marketPrefVars, storedDefaults, defaultsView, defaultsLoad,
                     lateDefaults, themeVars, scopeSwitches>>
  BY DEF Persist
<1>2. Stored' /\ ThemeFits' /\ ShownFits' /\ LoadsFit'
  BY <1>1, StoredStays, ThemeStays, ShownStays, LoadsStay DEF marketPrefVars
<1>3. DefaultWriteFits(w)'
  BY <1>1 DEF DefaultWriteFits, ShownFits
<1>4. WritesFit'
  <2>1. UNCHANGED writeQueue
    BY <1>1 DEF marketPrefVars
  <2>2. \A x \in defaultsWrite' : DefaultWriteFits(x)'
    BY <1>1, <1>3
  <2>. QED BY <2>1, <2>2 DEF WritesFit
<1>. QED BY <1>2, <1>4

\* A setting is changed, or all of them are put back.
LEMMA ChooseDefaultKeeps == PreferenceInv /\ (UpdateDefault \/ ResetDefaults) => PreferenceInv'
<1>. SUFFICES ASSUME PreferenceInv, UpdateDefault \/ ResetDefaults PROVE PreferenceInv'
  OBVIOUS
<1>1. defaultsView.value \in SUBSET Own(scope) /\ \A c \in Choosable : <<scope, c>> \in Own(scope)
  BY DEF PreferenceInv, ShownFits, Own
<1>2. \E next \in SUBSET Own(scope) : Persist(next)
  <2>1. CASE ResetDefaults
    BY <2>1 DEF ResetDefaults
  <2>2. CASE UpdateDefault
    <3>1. PICK c \in Choosable :
             \/ Persist(defaultsView.value \cup {<<scope, c>>})
             \/ Persist(defaultsView.value \ {<<scope, c>>})
      BY <2>2 DEF UpdateDefault
    <3>2. /\ defaultsView.value \cup {<<scope, c>>} \in SUBSET Own(scope)
          /\ defaultsView.value \ {<<scope, c>>} \in SUBSET Own(scope)
      BY <1>1
    <3>. QED BY <3>1, <3>2
  <2>. QED BY <2>1, <2>2
<1>. QED BY <1>2, PersistKeeps

\* The write of the defaults ends: it is shown only for the account it was made for.
LEMMA DefaultsWrittenKeeps == PreferenceInv /\ DefaultsWritten => PreferenceInv'
<1>. SUFFICES ASSUME PreferenceInv, DefaultsWritten PROVE PreferenceInv'
  OBVIOUS
<1>. USE DEF PreferenceInv
<1>1. PICK w \in defaultsWrite :
         /\ storedDefaults' \in {storedDefaults, [storedDefaults EXCEPT ![w.scope] = w.value]}
         /\ \/ defaultsView' = defaultsView
            \/ w.generation = scopeSwitches /\ defaultsView' = View(scope, "ready", w.value)
            \/ defaultsView' = [defaultsView EXCEPT !.status = "error"]
  BY DEF DefaultsWritten, WriteIsCurrent
<1>2. /\ defaultsWrite' = {}
      /\ UNCHANGED <<scope, marketPrefVars, defaultsLoad, lateDefaults, themeVars, scopeSwitches>>
  BY DEF DefaultsWritten
<1>3. ThemeFits' /\ LoadsFit'
  BY <1>2, ThemeStays, LoadsStay DEF marketPrefVars
<1>4. WritesFit'
  BY <1>2 DEF WritesFit, marketPrefVars
<1>5. w.scope \in Scopes /\ w.value \subseteq Own(w.scope)
      /\ (w.generation = scopeSwitches => w.scope = scope)
  BY DEF WritesFit, DefaultWriteFits
<1>6. Stored'
  <2>1. storedMarkets' = storedMarkets
    BY <1>2 DEF marketPrefVars
  <2>2. \A s \in Scopes : storedDefaults'[s] \subseteq Own(s)
    BY <1>1, <1>5 DEF Stored
  <2>3. storedDefaults' \in [Scopes -> SUBSET UNION {Own(s) : s \in Scopes}]
    <3>1. w.value \in SUBSET UNION {Own(s) : s \in Scopes}
      BY <1>5
    <3>. QED BY <1>1, <3>1 DEF Stored
  <2>. QED BY <2>1, <2>2, <2>3 DEF Stored
<1>7. ShownFits'
  <2>1. \E status : \E value \in SUBSET Own(scope) : defaultsView' = View(scope, status, value)
    BY <1>1, <1>5 DEF ShownFits, View
  <2>. QED BY <1>2, <2>1 DEF ShownFits, View, marketPrefVars
<1>. QED BY <1>3, <1>4, <1>6, <1>7

\* The appearance: a load counts until a choice, the latest choice once it is written.
LEMMA ThemeKeeps == PreferenceInv /\ ThemeNext => PreferenceInv'
<1>. SUFFICES ASSUME PreferenceInv, ThemeNext PROVE PreferenceInv'
  OBVIOUS
<1>. USE DEF PreferenceInv
<1>1. UNCHANGED <<scope, marketPrefVars, defaultsVars, scopeSwitches>>
  BY DEF ThemeNext, LoadTheme, SetTheme, ThemeWritten
<1>2. Stored' /\ ShownFits' /\ LoadsFit' /\ WritesFit'
  BY <1>1, StoredStays, ShownStays, LoadsStay, WritesStay DEF marketPrefVars, defaultsVars
<1>3. CASE LoadTheme
  <2>1. UNCHANGED <<storedTheme, themeWrites>>
    BY <1>3 DEF LoadTheme
  <2>2. ThemeFits'
    <3>1. CASE /\ {l \in themeLoad : l.pc = "issued"} # {}
               /\ themeLoad' = {[pc |-> "read", theme |-> storedTheme]} /\ UNCHANGED themeView
      <4>1. themeLoad # {}
        BY <3>1
      <4>2. \A l \in themeLoad' : l.theme = storedTheme'
        BY <2>1, <3>1
      <4>3. themeWrites' = <<>> /\ themeWrites' \in Seq(Themes)
        BY <2>1, <4>1 DEF ThemeFits
      <4>4. themeView'.status = "ready" => themeView'.theme = storedTheme'
        BY <2>1, <3>1, <4>3 DEF ThemeFits
      <4>5. \E stage, theme : themeView' = [status |-> stage, theme |-> theme]
        BY <3>1 DEF ThemeFits
      <4>. QED BY <4>2, <4>3, <4>4, <4>5 DEF ThemeFits
    <3>2. CASE \E l \in themeLoad : /\ l.pc = "read" /\ themeLoad' = {}
                                    /\ themeView' = [status |-> "ready", theme |-> l.theme]
      <4>1. PICK l \in themeLoad : /\ l.pc = "read" /\ themeLoad' = {}
                                   /\ themeView' = [status |-> "ready", theme |-> l.theme]
        BY <3>2
      <4>2. l.theme = storedTheme
        BY <4>1 DEF ThemeFits
      <4>3. \E stage, theme : themeView' = [status |-> stage, theme |-> theme]
        BY <4>1
      <4>. QED BY <2>1, <4>1, <4>2, <4>3 DEF ThemeFits
    <3>3. CASE themeView' = [status |-> "error", theme |-> "system"] /\ themeLoad' = {}
      <4>1. \E stage, theme : themeView' = [status |-> stage, theme |-> theme]
        BY <3>3
      <4>. QED BY <2>1, <3>3, <4>1 DEF ThemeFits
    <3>. QED BY <1>3, <3>1, <3>2, <3>3 DEF LoadTheme
  <2>. QED BY <1>2, <2>2
<1>4. CASE SetTheme
  <2>1. PICK t \in Themes : themeWrites' = Append(themeWrites, t)
    BY <1>4 DEF SetTheme
  <2>2. themeWrites' \in Seq(Themes) /\ themeWrites' # <<>>
    BY <2>1 DEF ThemeFits
  <2>3. themeLoad' = {} /\ UNCHANGED themeView
    BY <1>4 DEF SetTheme, ThemeLoadAfterChoice
  <2>4. ThemeFits'
    BY <2>2, <2>3 DEF ThemeFits
  <2>. QED BY <1>2, <2>4
<1>5. CASE ThemeWritten
  <2>1. themeWrites \in Seq(Themes) /\ themeWrites # <<>> /\ themeWrites' = Tail(themeWrites)
    BY <1>5 DEF ThemeWritten, ThemeFits
  <2>2. themeWrites' \in Seq(Themes)
    BY <2>1
  <2>3. themeWrites' = <<>> => Len(themeWrites) = 1
    <3>1. Len(themeWrites) \in Nat \ {0} /\ Len(themeWrites') = Len(themeWrites) - 1
      BY <2>1
    <3>2. themeWrites' = <<>> => Len(themeWrites') = 0
      OBVIOUS
    <3>. QED BY <3>1, <3>2
  <2>4. themeLoad' = {}
    BY <1>5, <2>1 DEF ThemeWritten, ThemeFits
  <2>5. PICK stage, theme : themeView = [status |-> stage, theme |-> theme]
    BY DEF ThemeFits
  <2>6. PICK first : first = Head(themeWrites)
    OBVIOUS
  <2>7. \/ storedTheme' = first /\ (Len(themeWrites) = 1 => themeView' = [status |-> "ready", theme |-> first])
        \/ Len(themeWrites) = 1 => themeView'.status = "error"
    BY <1>5, <2>5, <2>6 DEF ThemeWritten
  <2>8. \E seen, look : themeView' = [status |-> seen, theme |-> look]
    BY <1>5, <2>5, <2>6 DEF ThemeWritten
  <2>9. themeView'.status = "ready" /\ themeWrites' = <<>> => themeView'.theme = storedTheme'
    BY <2>3, <2>7
  <2>10. ThemeFits'
    BY <2>2, <2>4, <2>8, <2>9 DEF ThemeFits
  <2>. QED BY <1>2, <2>10
<1>. QED BY <1>3, <1>4, <1>5 DEF ThemeNext

\* Every step keeps the preferences of scopes apart.
LEMMA PreferenceStep == PreferenceInv /\ [PreferenceNext]_preferenceVars => PreferenceInv'
<1>. SUFFICES ASSUME PreferenceInv, [PreferenceNext]_preferenceVars PROVE PreferenceInv'
  OBVIOUS
<1>1. CASE UNCHANGED preferenceVars
  BY <1>1, StoredStays, ShownStays, LoadsStay, WritesStay, ThemeStays
     DEF preferenceVars, marketPrefVars, defaultsVars, PreferenceInv
<1>. QED BY <1>1, SwitchKeeps, ReadMarketsKeeps, LoadMarketsKeeps, ChooseMarketKeeps,
            WriteMarketsKeeps, ReadDefaultsKeeps, LoadDefaultsKeeps, ChooseDefaultKeeps,
            DefaultsWrittenKeeps, ThemeKeeps
     DEF PreferenceNext, MarketPreferenceNext, DefaultsNext

\* Whatever switches, loads, changes and writes interleave, what a scope shows, keeps or
\* is about to write was chosen in it, and the appearance shown as saved is the one on the
\* device (PreferencesStayApart).
THEOREM PreferencesAreApart == PreferenceSpec => []PreferencesStayApart
<1>1. PreferenceInv => PreferencesStayApart
  <2>. SUFFICES ASSUME PreferenceInv PROVE PreferencesStayApart
    OBVIOUS
  <2>. USE DEF PreferenceInv
  <2>1. marketsView.scope = scope /\ MarketsOf(marketsView.value) \subseteq Own(scope)
    BY PreferenceParts DEF ShownFits
  <2>2. defaultsView.scope = scope /\ defaultsView.value \subseteq Own(scope)
    BY DEF ShownFits
  <2>3. \A s \in Scopes : MarketsOf(storedMarkets[s]) \subseteq Own(s)
                          /\ storedDefaults[s] \subseteq Own(s)
    BY PreferenceParts DEF Stored
  <2>4. \A i \in 1..Len(writeQueue) : writeQueue[i] \in MarketWrites
    BY DEF WritesFit
  <2>5. \A i \in 1..Len(writeQueue) :
           MarketsOf(writeQueue[i].value) \subseteq Own(writeQueue[i].scope)
    BY <2>4, PreferenceParts DEF MarketWrites, MarketWriteFits
  <2>6. themeView.status = "ready" /\ themeWrites = <<>> => themeView.theme = storedTheme
    BY DEF ThemeFits
  <2>. QED BY <2>1, <2>2, <2>3, <2>5, <2>6 DEF PreferencesStayApart
<1>. QED BY <1>1, PreferenceInvInit, PreferenceStep, PTL DEF PreferenceSpec

=============================================================================
