------------------------- MODULE MCProviderSettings -------------------------
(* ProviderSettings on small instances. *)
EXTENDS ProviderSettings, TLC

\* Dialogs are interchangeable: no action names one of them.
Symmetry == Permutations(Tabs)

=============================================================================
