--------------------------- MODULE MCProviderCall ---------------------------
(* ProviderCall on a small instance. *)
EXTENDS ProviderCall, TLC

=============================================================================
