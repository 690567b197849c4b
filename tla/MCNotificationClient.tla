------------------------ MODULE MCNotificationClient ------------------------
(***************************************************************************)
(* A small instance of NotificationClient for TLC.                         *)
(***************************************************************************)
EXTENDS NotificationClient

=============================================================================
