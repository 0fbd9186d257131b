----------------------------- MODULE MCCacheFile -----------------------------
(* Instances of CacheFile for TLC. *)
EXTENDS CacheFile, TLC

(* Workers, and inodes, are interchangeable. *)
Symmetry == Permutations(Workers) \cup Permutations(Inodes)
=============================================================================
