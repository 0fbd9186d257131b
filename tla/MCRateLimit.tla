----------------------------- MODULE MCRateLimit ----------------------------
(* Instances of RateLimit for TLC. *)
EXTENDS RateLimit, TLC

(* Requests are alike, and so are workers and tokens. *)
Symmetric == Permutations(Requests) \cup Permutations(Workers) \cup Permutations(Tokens)
=============================================================================
