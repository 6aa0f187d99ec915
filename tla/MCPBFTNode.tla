----------------------------- MODULE MCPBFTNode -----------------------------
(* TLC instances of PBFTNode.  A behaviour follows either the votes: three   *)
(* of four replicas up (the fourth handles nothing), two proposals, the      *)
(* votes of one slot past its first PREPARE (the logs of different slots are *)
(* independent, and the state space is their product), one view change; or   *)
(* the views: all replicas up, no proposals, two view changes: focus, chosen *)
(* at the start.                                                             *)
EXTENDS PBFTNode

VARIABLE focus
mcVars == <<vars, focus>>
Up == IF focus = "votes" THEN 0 .. 2 ELSE 0 .. 3

Within ==
    IF focus = "votes"
    THEN /\ Cardinality({m \in net : m.phase = "PRE_PREPARE"}) <= 2
         /\ Cardinality({Slot(m) : m \in {r \in net : r.phase = "PREPARE"}}) <= 1
         /\ \A n \in Node : view[n] <= 1
    ELSE \A m \in net : m.phase # "PRE_PREPARE"

MCInit == Init /\ focus \in {"votes", "views"}
MCNext ==
    /\ \E n \in Up :
        \/ \E p \in Payload : HandleRequest(n, p)
        \/ StartViewChange(n)
        \/ \E m \in net : Handle(n, m)
    /\ UNCHANGED focus /\ Within'

MCSpec == MCInit /\ [][MCNext]_mcVars

=============================================================================
