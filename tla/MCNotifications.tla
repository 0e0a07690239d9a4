---------------------------- MODULE MCNotifications ----------------------------
(***************************************************************************)
(* Instances of the notifications and the device tokens for TLC.           *)
(***************************************************************************)
EXTENDS Notifications, TLC
=============================================================================
