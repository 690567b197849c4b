-------------------------- MODULE MCReconciliation --------------------------
(***************************************************************************)
(* Small instances of Reconciliation for TLC.                              *)
(***************************************************************************)
EXTENDS Reconciliation, TLC

CONSTANTS j1, j2, q1, q2, o1, o2

Symmetry == Permutations(JournalIds) \cup Permutations(Ports)
            \cup Permutations(Owners)

=============================================================================
