--------------------------- MODULE EstimatesTable ---------------------------
(***************************************************************************)
(* What the periodic refresh of the estimates promises the lookups,        *)
(* without fetches, locks, validators or threads: the table a worker       *)
(* answers from is the bundled one or the whole table of some body the     *)
(* upstream published, it never moves back to an older one, and a move may *)
(* pass through a gap in which there is no table at all, but through no    *)
(* mixture of two.  EstimatesRefresh implements this module.               *)
(***************************************************************************)
EXTENDS Naturals, Sequences

CONSTANTS Bodies,       \* the CSV bodies the upstream may publish
          Bundled,      \* the table loaded at startup
          Empty,        \* the table without rows
          TableOf,      \* the table a body stands for once applied
          MaxVersions   \* bound on the number of publications

VARIABLES log,     \* the bodies published so far, oldest first
          shown,   \* the index in log of the body the table stands for, 0 = bundled
          table,   \* the table lookups are answered from
          gap      \* is it withdrawn, to be replaced?

vars == <<log, shown, table, gap>>

Init == /\ log \in {<<b>> : b \in Bodies}
        /\ shown = 0
        /\ table = Bundled
        /\ gap = FALSE

Publish == /\ Len(log) < MaxVersions
           /\ \E b \in Bodies : log' = Append(log, b)
           /\ UNCHANGED <<shown, table, gap>>

(* The table is taken away; only Adopt brings one back. *)
Withdraw == /\ ~gap
            /\ gap' = TRUE
            /\ table' = Empty
            /\ UNCHANGED <<log, shown>>

(* The table becomes that of a published body no older than the current one. *)
Adopt == /\ shown' \in {v \in 1..Len(log) : shown <= v}
         /\ table' = TableOf[log[shown']]
         /\ gap' = FALSE
         /\ UNCHANGED log

(* The process restarts: everything in memory is lost. *)
Restart == /\ ~gap
           /\ shown' = 0
           /\ table' = Bundled
           /\ UNCHANGED <<log, gap>>

Next == Publish \/ Withdraw \/ Adopt \/ Restart

Spec == Init /\ [][Next]_vars
=============================================================================
