---------------------------- MODULE MCMessaging ----------------------------
(* Instances of Messaging for TLC.                                         *)
EXTENDS Messaging
=============================================================================
