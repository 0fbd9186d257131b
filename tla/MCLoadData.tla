----------------------------- MODULE MCLoadData -----------------------------
(* Instances of LoadData for TLC. *)
EXTENDS LoadData
=============================================================================
