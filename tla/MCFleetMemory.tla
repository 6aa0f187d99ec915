---------------------------- MODULE MCFleetMemory ----------------------------
(***************************************************************************)
(* What the fleet keeps: vector tables, their tiers and the log of the     *)
(* memory layers.  One agent has three rows, two of the same time and one  *)
(* later and too weak for the hot tier, another agent one that is fit but  *)
(* feverish.                                                               *)
(*                                                                         *)
(* A behaviour follows one of them: focus, chosen at the start.  Tables    *)
(* have a long log with few rows, or a short log with all rows of one      *)
(* agent and direct merges; tiers have one caller, a clock and failing     *)
(* writes, or two callers.                                                 *)
(***************************************************************************)
EXTENDS FleetMesh, TieredStorage, MemoryLog

CONSTANTS main, peer, a1, a2, c1, c2

Older1 == [agent |-> a1, time |-> 0, hash |-> 1]
Older2 == [agent |-> a1, time |-> 0, hash |-> 2]
Newer  == [agent |-> a1, time |-> 1, hash |-> 2]
Fever  == [agent |-> a2, time |-> 0, hash |-> 1]

MCEntry == {Older1, Older2, Newer, Fever}
MCFitness == [e \in MCEntry |-> IF e = Newer THEN 0 ELSE IF e = Fever THEN 2 ELSE 1]
MCFeverish == {Fever}
\* The peer has an identity and does not accept the signature of the newest row.
MCVerifies == [t \in {main, peer} |-> IF t = main THEN MCEntry ELSE MCEntry \ {Newer}]
MCOp == {[add |-> Row(Older2), drop |-> {}], [add |-> Empty, drop |-> {a1}]}

VARIABLE focus
mcVars == <<meshVars, tieredVars, memoryVars, focus>>

Tables == {[on |-> "tables", records |-> MaxRecords, rows |-> {Older2}, merges |-> FALSE],
           [on |-> "tables", records |-> 1, rows |-> {Older1, Older2, Newer}, merges |-> TRUE]}
Tiers == {[on |-> "tiers", callers |-> {c1}, time |-> MaxTime, faults |-> MaxFaults],
          [on |-> "tiers", callers |-> {c1, c2}, time |-> 0, faults |-> 0]}

TablesWithin ==
    /\ UNCHANGED <<tieredVars, memoryVars, focus>>
    /\ Len(history') <= focus.records
    /\ \A t \in Table : seen'[t] \subseteq focus.rows /\ (Unlocked(t)' \/ focus.merges)

InHands == {op[c].row : c \in {d \in Caller : op[d].at \in {"choose", "insert"}}}
TiersWithin ==
    /\ UNCHANGED <<meshVars, memoryVars, focus>>
    /\ now' <= focus.time /\ faults' <= focus.faults
    /\ \A c \in Caller \ focus.callers : op'[c] = Idle
    /\ Older2 \notin InHands' \cup Rows(warm)'

MCInit == MeshInit /\ TieredInit /\ MemoryInit /\ focus \in Tables \cup Tiers \cup {[on |-> "log"]}
MCNext ==
    \/ focus.on = "tables" /\ MeshNext /\ TablesWithin
    \/ focus.on = "tiers" /\ TieredNext /\ TiersWithin
    \/ focus.on = "log" /\ MemoryNext /\ UNCHANGED <<meshVars, tieredVars, focus>>
MCSpec == MCInit /\ [][MCNext]_mcVars
==============================================================================
