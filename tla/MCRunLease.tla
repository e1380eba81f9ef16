----------------------------- MODULE MCRunLease -----------------------------
(* RunLease on small instances. *)
EXTENDS RunLease, TLC

\* Engines and handlers are interchangeable: no action names one of them.
Symmetry == Permutations(Engines) \cup Permutations(Requests)

=============================================================================
