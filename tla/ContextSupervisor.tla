------------------------- MODULE ContextSupervisor -------------------------
(***************************************************************************)
(* The trading-context supervisor of the mobile app and the React provider *)
(* around it.  A switch advances the epoch at once, waits until the        *)
(* private queries are cancelled, and then commits, unless a later switch  *)
(* has started.  The provider's `current' (here `rendered') follows the    *)
(* committed context with the next render.                                 *)
(*                                                                         *)
(* A context is the normalized network, master, target and signer; two     *)
(* contexts are equal exactly when their identity and signer-scope keys    *)
(* are.                                                                    *)
(***************************************************************************)
EXTENDS Integers

CONSTANTS
    Contexts,      \* contexts the user can select
    MaxEpoch       \* bound: context switches

ASSUME ContextAssumption == Contexts # {} /\ MaxEpoch \in Nat

VARIABLES
    current,       \* the supervisor's committed context
    epoch,         \* the supervisor's epoch
    switches,      \* switches that wait for their queries to be cancelled
    rendered,      \* the context the mounted React tree sees
    selected       \* history: what the user selected last, unless it failed

contextVars == <<current, epoch, switches, rendered, selected>>

Switches == [epoch: Nat, next: Contexts]

\* capture and canCommit
Capture == [epoch |-> epoch, context |-> current]

CanCommit(capture) == capture.epoch = epoch /\ capture.context = current

ContextInit ==
    /\ current \in Contexts
    /\ epoch = 0
    /\ switches = {}
    /\ rendered = current
    /\ selected = current

\* switchContext up to its await
SwitchContext(next) ==
    /\ epoch < MaxEpoch
    /\ epoch' = epoch + 1
    /\ switches' = switches \cup {[epoch |-> epoch + 1, next |-> next]}
    /\ selected' = next
    /\ UNCHANGED <<current, rendered>>

\* Faulty variant: any switch may commit once its queries are cancelled.
MayCommitSwitchAlways(switch) == TRUE

\* The switch is still the latest one.
MayCommitSwitch(switch) == switch.epoch = epoch

\* The queries are cancelled: the latest switch commits, an earlier one ends.
CommitSwitch(switch) ==
    /\ switch \in switches
    /\ MayCommitSwitch(switch)
    /\ switches' = switches \ {switch}
    /\ current' = switch.next
    /\ UNCHANGED <<epoch, rendered, selected>>

DropSwitch(switch) ==
    /\ switch \in switches
    /\ ~MayCommitSwitch(switch)
    /\ switches' = switches \ {switch}
    /\ UNCHANGED <<current, epoch, rendered, selected>>

\* Cancelling the queries fails: the switch rejects and nothing commits, but
\* the epoch stays advanced.
FailSwitch(switch) ==
    /\ switch \in switches
    /\ switches' = switches \ {switch}
    /\ selected' = IF switch.epoch = epoch THEN current ELSE selected
    /\ UNCHANGED <<current, epoch, rendered>>

\* React renders the provider with the committed context.
Render ==
    /\ rendered # current
    /\ rendered' = current
    /\ UNCHANGED <<current, epoch, switches, selected>>

ContextTypeOK ==
    /\ current \in Contexts
    /\ epoch \in Nat
    /\ switches \subseteq Switches
    /\ rendered \in Contexts
    /\ selected \in Contexts

\* However the cancellations of overlapping switches end, the context that
\* stays is the one selected last, or the old one if that switch failed.
LatestSelectionWins == switches = {} => current = selected

=============================================================================
