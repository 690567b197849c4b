--------------------------- MODULE MCRevocation ---------------------------
(* One installation with its account links, one service process. *)
EXTENDS Revocation
MCHome == [l \in Links |-> CHOOSE i \in Installations : TRUE]
=============================================================================
