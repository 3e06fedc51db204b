--------------------------- MODULE MCChatSessions ---------------------------
(***************************************************************************)
(* Instances of ChatSessions.                                              *)
(***************************************************************************)
EXTENDS ChatSessions
=============================================================================
