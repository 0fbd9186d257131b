---------------------------- MODULE MCTokenBypass ----------------------------
(* Instances of TokenBypass for TLC. *)
EXTENDS TokenBypass, TLC

(* Workers, and requests, are interchangeable. *)
Symmetry == Permutations(Workers) \cup Permutations(Requests)
=============================================================================
