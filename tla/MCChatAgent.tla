---------------------------- MODULE MCChatAgent ----------------------------
(* ChatAgent on a small instance. *)
EXTENDS ChatAgent

=============================================================================
