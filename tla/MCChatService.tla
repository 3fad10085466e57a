---------------------------- MODULE MCChatService ----------------------------
(* A finite instance of ChatService for TLC. *)
EXTENDS ChatService

CONSTANT s1

(* run_warmup numbers its requests from below zero. *)
WarmupNumbers == {-1}
=============================================================================
