------------------------------ MODULE MCLookup ------------------------------
(* Instances of Lookup for TLC. *)
EXTENDS Lookup

(* Codes and queries of one to three characters. *)
MCCodes == {<<1, 1>>, <<1, 2>>, <<2, 1>>, <<1, 1, 1>>}
MCQueries == MCCodes \cup {<<1>>, <<2>>, <<2, 2>>, <<1, 2, 1>>, <<3, 1>>}

(* Two regions in one NUTS2 region, a third in their NUTS1 region, a fourth *)
(* outside of it.                                                           *)
MCRegions == {<<1, 1, 1>>, <<1, 1, 2>>, <<1, 2, 1>>, <<2, 1, 1>>}

(* app/settings.json. *)
MCCaps == <<90, 85, 80>>
MCPinned == [cc \in {"ME"} |-> <<1, 1, 1>>]

(* A row of high confidence whose columns contradict each other, which      *)
(* nothing checks, and one of low confidence with the coarser ones blank.   *)
MCEstimates ==
  {[nuts |-> <<<<1>>, <<1, 2>>, <<2, 1, 1>>>>, confidence |-> <<98, 95, 90>>],
   [nuts |-> <<<<>>, <<>>, <<2, 1, 1>>>>, confidence |-> <<70, 55, 40>>]}
=============================================================================
