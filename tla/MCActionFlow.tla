---------------------------- MODULE MCActionFlow ----------------------------
(***************************************************************************)
(* Small instances of ActionFlow for TLC.                                  *)
(***************************************************************************)
EXTENDS ActionFlow, TLC

CONSTANTS f1, f2, f3, r1, r2, k1, k2, k3, c1, c2, i1, i2

Symmetry == Permutations(Confirmations) \cup Permutations(Orchestrators)
            \cup Permutations(Runtimes) \cup Permutations(Intents)

=============================================================================
