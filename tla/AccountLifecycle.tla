-------------------------- MODULE AccountLifecycle --------------------------
(***************************************************************************)
(* Rotating, repairing and unlinking an API wallet: the phases that        *)
(* apps/mobile/src/features/accounts/account-lifecycle.ts goes through as  *)
(* the outcomes of the steps come in, in any order, more than once, late,  *)
(* and with proofs that say different things of the agents.                *)
(***************************************************************************)
EXTENDS Naturals

CONSTANT MaxLifecycleRuns      \* bound: operations started or reset

Operations == {"rotate", "repair", "revoke_external", "unlink_verified", "unlink_local"}

VARIABLES lifecycle,   \* the AccountOperationState
          proofs       \* what the latest accepted proof said of the agents

lifecycleVars == <<lifecycle, proofs>>

InitialOperation ==
    [operation |-> "none", phase |-> "idle", generation |-> 0, completed |-> FALSE,
     newAgentActive |-> FALSE, oldAgentInactive |-> FALSE,
     nonceScopeTombstoned |-> FALSE, localSecretDeleted |-> FALSE,
     localCleanupComplete |-> FALSE, alertDeletion |-> "not_started"]

NoProof == [old |-> FALSE, new |-> FALSE]

LifecycleInit == lifecycle = InitialOperation /\ proofs = NoProof

NeedsNewAgent(op) == op \in {"rotate", "repair"}
NeedsAlertDeletion(op) == op \in {"unlink_verified", "unlink_local"}

\* Faulty variant: what an earlier attempt has done is not asked for.
CleanupPhaseAfterProofAlone(state) == "complete"

CleanupPhaseAfterAuthoritativeProof(state) ==
    IF ~state.nonceScopeTombstoned THEN "tombstoning"
    ELSE IF ~state.localSecretDeleted THEN "deleting_local"
    ELSE IF NeedsAlertDeletion(state.operation) /\ state.alertDeletion # "complete"
    THEN "deleting_alerts" ELSE "complete"

Becomes(state) == lifecycle' = state /\ UNCHANGED proofs

Start(op) ==
    /\ lifecycle.phase \in {"idle", "complete"}
    /\ lifecycle.generation < MaxLifecycleRuns
    /\ lifecycle' = [InitialOperation EXCEPT !.operation = op, !.phase = "locking",
                                             !.generation = lifecycle.generation + 1]
    /\ proofs' = NoProof

LocalLocked ==
    /\ lifecycle.phase = "locking"
    /\ Becomes([lifecycle EXCEPT !.phase =
                  IF lifecycle.operation = "repair" THEN "verifying" ELSE "external_step"])

ExternalStepReturned ==
    /\ lifecycle.phase = "external_step"
    /\ Becomes([lifecycle EXCEPT !.phase = "verifying"])

AuthoritativeProof(old, new) ==
    /\ lifecycle.phase \in {"verifying", "restricted"}
    /\ LET verified == old /\ (NeedsNewAgent(lifecycle.operation) => new)
           phase == IF verified THEN CleanupPhaseAfterAuthoritativeProof(lifecycle)
                    ELSE "restricted"
       IN lifecycle' = [lifecycle EXCEPT !.phase = phase, !.completed = phase = "complete",
                                         !.newAgentActive = new, !.oldAgentInactive = old]
    /\ proofs' = [old |-> old, new |-> new]

AcknowledgeUnverifiedLocalUnlink ==
    /\ lifecycle.operation = "unlink_local" /\ lifecycle.phase = "external_step"
    /\ Becomes([lifecycle EXCEPT !.phase = "tombstoning"])

NonceScopeTombstoned ==
    /\ lifecycle.phase = "tombstoning"
    /\ Becomes([lifecycle EXCEPT !.phase = "deleting_local", !.nonceScopeTombstoned = TRUE])

LocalSecretDeleted ==
    /\ lifecycle.phase = "deleting_local" /\ lifecycle.nonceScopeTombstoned
    /\ Becomes(IF NeedsAlertDeletion(lifecycle.operation)
               THEN [lifecycle EXCEPT !.phase = "deleting_alerts", !.localSecretDeleted = TRUE,
                                      !.alertDeletion = "pending"]
               ELSE [lifecycle EXCEPT !.phase = "complete", !.completed = TRUE,
                                      !.localSecretDeleted = TRUE,
                                      !.localCleanupComplete = TRUE])

(* A local unlink that nobody proved leaves the account restricted.         *)
AlertDataDeleted ==
    /\ lifecycle.phase = "deleting_alerts"
    /\ LET proved == lifecycle.operation = "unlink_local" => lifecycle.oldAgentInactive
       IN Becomes([lifecycle EXCEPT !.phase = IF proved THEN "complete" ELSE "restricted",
                                    !.completed = proved, !.localCleanupComplete = TRUE,
                                    !.alertDeletion = "complete"])

AlertDataDeletionFailed ==
    /\ lifecycle.phase = "deleting_alerts"
    /\ Becomes([lifecycle EXCEPT !.phase = "restricted", !.completed = FALSE,
                                 !.localCleanupComplete = TRUE, !.alertDeletion = "failed"])

(* Once the exchange may have changed, only a proof leads out.              *)
FailureNeedsAuthoritativeResolution(phase) ==
    phase \in {"external_step", "verifying", "restricted", "tombstoning",
               "deleting_local", "deleting_alerts"}

LifecycleFails ==
    /\ lifecycle.phase # "complete"
    /\ Becomes([lifecycle EXCEPT !.completed = FALSE,
                  !.phase = IF FailureNeedsAuthoritativeResolution(lifecycle.phase)
                            THEN "restricted" ELSE "failed"])

Reset ==
    /\ lifecycle.phase \in {"idle", "complete", "failed"}
    /\ lifecycle.generation < MaxLifecycleRuns
    /\ lifecycle' = [InitialOperation EXCEPT !.generation = lifecycle.generation + 1]
    /\ proofs' = NoProof

LifecycleNext ==
    \/ \E op \in Operations : Start(op)
    \/ LocalLocked \/ ExternalStepReturned
    \/ \E old, new \in BOOLEAN : AuthoritativeProof(old, new)
    \/ AcknowledgeUnverifiedLocalUnlink \/ NonceScopeTombstoned \/ LocalSecretDeleted
    \/ AlertDataDeleted \/ AlertDataDeletionFailed \/ LifecycleFails \/ Reset

LifecycleSpec == LifecycleInit /\ [][LifecycleNext]_lifecycleVars

-----------------------------------------------------------------------------
(* Whatever failed and was resumed on the way, an operation that is reported as
   completed has all of it done: the exchange's latest answer proves the old agent
   inactive (and a replacement active), the nonce scope was retired before the
   secret was deleted, and an unlinked account has no alerts left.            *)
CompletedMeansDone ==
    lifecycle.completed =>
      /\ proofs.old /\ (NeedsNewAgent(lifecycle.operation) => proofs.new)
      /\ lifecycle.nonceScopeTombstoned /\ lifecycle.localSecretDeleted
      /\ NeedsAlertDeletion(lifecycle.operation) => lifecycle.alertDeletion = "complete"

=============================================================================
