----------------------------- MODULE FleetRound -----------------------------
(***************************************************************************)
(* What FleetBFTNetwork.broadcast_request promises its caller, without the *)
(* protocol: a consensus round is atomic.  It decides its slot on every    *)
(* replica that can take part, or on none, and the Boolean it returns says *)
(* which.  A round fails only for want of a quorum.                        *)
(***************************************************************************)
EXTENDS Integers, FiniteSets

CONSTANTS Replica, Decision, QuorumSize

VARIABLES
    ready,     \* the replicas that can take part in a round
    decided,   \* the slots each replica has executed
    outcome    \* how the last round ended

roundVars == <<ready, decided, outcome>>

Init ==
    /\ ready = Replica
    /\ decided = [r \in Replica |-> {}]
    /\ outcome = "none"

\* The round returned TRUE.
Decide(s) ==
    /\ Cardinality(ready) >= QuorumSize
    /\ \A r \in Replica : s \notin decided[r]
    /\ decided' = [r \in Replica |-> IF r \in ready THEN decided[r] \cup {s}
                                                    ELSE decided[r]]
    /\ outcome' = "decided"
    /\ UNCHANGED ready

\* The round was run and returned FALSE.
Fail ==
    /\ Cardinality(ready) < QuorumSize
    /\ outcome' = "failed"
    /\ UNCHANGED <<ready, decided>>

\* There was no usable primary: FALSE was returned before any message.
Refuse ==
    /\ outcome' = "refused"
    /\ UNCHANGED <<ready, decided>>

\* Faults and view changes between rounds.
Reconfigure ==
    /\ ready' \in SUBSET Replica
    /\ UNCHANGED <<decided, outcome>>

Next == (\E s \in Decision : Decide(s)) \/ Fail \/ Refuse \/ Reconfigure

Spec == Init /\ [][Next]_roundVars

=============================================================================
