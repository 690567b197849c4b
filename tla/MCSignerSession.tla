-------------------------- MODULE MCSignerSession --------------------------
(***************************************************************************)
(* Small instances of SignerSession for TLC.                               *)
(***************************************************************************)
EXTENDS SignerSession, TLC

CONSTANTS c1, c2, u1, u2, s1, s2

Symmetry == Permutations(Contexts) \cup Permutations(Attempts)
            \cup Permutations(Signs)

=============================================================================
