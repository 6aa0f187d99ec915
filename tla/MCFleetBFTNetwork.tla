-------------------------- MODULE MCFleetBFTNetwork --------------------------
(* TLC instances of FleetBFTNetwork: replicas in the order of their indices, *)
(* and bounds on the rounds run and on the replicas that may be faulty: more *)
(* of them as long as nothing has been proposed, to follow view changes that *)
(* no quorum supports.                                                       *)
EXTENDS FleetBFTNetwork

CONSTANTS FaultProne, FaultProneAtFirst, MaxProposals

MCNodeOrder == [i \in 1 .. N |-> i - 1]

Proposals == {m \in net : m.phase = "PRE_PREPARE"}

Explored ==
    /\ byzantine \cup partitioned \subseteq
          (IF Proposals = {} THEN FaultProneAtFirst ELSE FaultProne)
    /\ Cardinality(Proposals) <= MaxProposals
=============================================================================
