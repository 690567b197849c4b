-------------------------- MODULE MCActionJournal --------------------------
(***************************************************************************)
(* Small instances of ActionJournal for TLC.                               *)
(***************************************************************************)
EXTENDS ActionJournal, TLC

CONSTANTS j1, j2, a1, a2, p1, p2, i1, i2, o1, o2, r1, r2

Symmetry == Permutations(JournalIds) \cup Permutations(Agents)
            \cup Permutations(Accounts) \cup Permutations(Intents)
            \cup Permutations(Owners) \cup Permutations(Repositories)

=============================================================================
