------------------------- MODULE MCEstimatesRefresh -------------------------
(* Instances of EstimatesRefresh for TLC. *)
EXTENDS EstimatesRefresh, TLC

CONSTANTS k1, k2, k3, x1, x2,        \* keys; x1 and x2 have exact matches
          n1, n2,                    \* rows
          full, other, few, cut, none, bad, torn   \* bodies

MCKeys == {k1, k2, k3, x1, x2}
MCExact == {x1, x2}
MCEstimates == {n1, n2}

Row(S, n) == [k \in MCKeys |-> IF k \in S THEN n ELSE NoEst]

MCBundled == Row({k1, k2}, n1)
MCBodies == {full, other, few, cut, none, bad, torn}

\* full: all the rows; other: as many as Bundled; few: one, under the floor of
\* full; cut: full, truncated to the rows that have an exact match; none: a
\* header and no row; bad: a missing column; torn: a short row.
MCRows == full :> Row(MCKeys, n2) @@ other :> Row({k1, k2}, n1) @@ few :> Row({k3}, n1)
          @@ cut :> Row(MCExact, n2) @@ none :> Row({}, n1)
          @@ bad :> Row({}, n1) @@ torn :> Row({}, n1)
=============================================================================
