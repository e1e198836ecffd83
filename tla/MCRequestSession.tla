--------------------------- MODULE MCRequestSession ---------------------------
(* Instances of RequestSession for TLC. *)
EXTENDS RequestSession, TLC

Symmetry == Permutations(Requests) \cup Permutations(Files) \cup Permutations(Parents \ {Company})
=============================================================================
