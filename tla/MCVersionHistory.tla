------------------------- MODULE MCVersionHistory -------------------------
(* VersionHistory on a small instance. *)
EXTENDS VersionHistory, TLC

\* Tabs are interchangeable.
Symmetry == Permutations(Tabs)

=============================================================================
