----------------------------- MODULE MCChatReply -----------------------------
(* A small chat request for TLC. *)
EXTENDS ChatReply
=============================================================================
