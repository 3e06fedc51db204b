---------------------------- MODULE MCChatSocket ----------------------------
(***************************************************************************)
(* Instances of ChatSocket.                                                *)
(***************************************************************************)
EXTENDS ChatSocket
=============================================================================
