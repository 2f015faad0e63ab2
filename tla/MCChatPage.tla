----------------------------- MODULE MCChatPage -----------------------------
(***************************************************************************)
(* The instance of ChatPage that TLC checks.                               *)
(***************************************************************************)
EXTENDS ChatPage

CONSTANT none
=============================================================================
