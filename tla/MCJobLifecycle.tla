--------------------------- MODULE MCJobLifecycle ---------------------------
(* Instances of JobLifecycle for TLC. *)
EXTENDS JobLifecycle, TLC

\* goroutine slots are interchangeable, and so are operators
Symmetry == Permutations(Task) \cup Permutations(Operator)

=============================================================================
