-------------------------- MODULE FleetBFTNetwork --------------------------
(***************************************************************************)
(* The synchronous router of swarm/fleet_bft_qd.py (class FleetBFTNetwork) *)
(* and the breeding gate that runs rounds through it                       *)
(* (swarm/breeder_bft_qd_integration.py).  One API call at a time runs to  *)
(* its end; a step of a call is one delivery of one message to one         *)
(* replica, by the handlers of PBFTNode.  Faults are injected between      *)
(* calls.                                                                  *)
(***************************************************************************)
EXTENDS PBFTNode

CONSTANTS NodeOrder   \* the order of the dictionary self.nodes

ASSUME NodeOrderAssumption ==
    /\ NodeOrder \in [1 .. N -> Node]
    /\ \A n \in Node : \E i \in 1 .. N : NodeOrder[i] = n

VARIABLES
    byzantine,     \* _byzantine_nodes: their incoming messages are dropped
    partitioned,   \* _partitioned_nodes: unreachable, but able to send
    call,          \* the call in progress
    outcome,       \* what the last round returned
    recovered,     \* what the last run_view_change returned
    pending,       \* BreederBFTIntegration._pending, per replica
    breedingLog    \* FleetBreederConsensus._breeding_log: the batches bred

netVars == <<byzantine, partitioned, call, outcome, recovered, pending, breedingLog>>
allVars == <<vars, netVars>>

Idle == [op |-> "idle", node |-> 0, stage |-> "none", todo |-> <<>>, at |-> 1, out |-> <<>>]

\* A phase of a call: send every message of msgs to every replica, in order.
Broadcast(op, n, stage, msgs) ==
    [op |-> op, node |-> n, stage |-> stage, todo |-> msgs, at |-> 1, out |-> <<>>]

Reachable == Node \ (byzantine \cup partitioned)

\* The replicas that will handle the votes of a round.
Ready == {n \in Reachable : ~inViewChange[n]}

Primaries == {i \in 1 .. N : IsPrimary(NodeOrder[i])}
FirstPrimary == NodeOrder[CHOOSE i \in Primaries : \A j \in Primaries : i <= j]

-----------------------------------------------------------------------------
NetInit ==
    /\ Init
    /\ byzantine = {} /\ partitioned = {}
    /\ call = Idle
    /\ outcome = "none" /\ recovered = "none"
    /\ pending = [n \in Node |-> {}]
    /\ breedingLog = [n \in Node |-> <<>>]

\* broadcast_request: the first replica that takes itself for the primary.
BroadcastRequest(p) ==
    /\ call = Idle
    /\ Primaries # {}
    /\ FirstPrimary \notin byzantine
    /\ HandleRequest(FirstPrimary, p)
    /\ call' = Broadcast("request", FirstPrimary, "PRE_PREPARE", <<Proposal(FirstPrimary, p)>>)
    /\ UNCHANGED <<byzantine, partitioned, outcome, recovered, pending, breedingLog>>

RequestRefused ==
    /\ call = Idle
    /\ Primaries # {} => FirstPrimary \in byzantine
    /\ outcome' = "refused"
    /\ UNCHANGED <<vars, byzantine, partitioned, call, recovered, pending, breedingLog>>

\* propose_parents of replica n: only a primary may propose, byzantine or not.
ProposeParents(n, p) ==
    /\ call = Idle
    /\ HandleRequest(n, p)
    /\ pending' = [pending EXCEPT ![n] = @ \cup {Proposal(n, p)}]
    /\ call' = Broadcast("propose", n, "PRE_PREPARE", <<Proposal(n, p)>>)
    /\ UNCHANGED <<byzantine, partitioned, outcome, recovered, breedingLog>>

ProposalRefused(n) ==
    /\ call = Idle
    /\ ~IsPrimary(n)
    /\ outcome' = "refused"
    /\ UNCHANGED <<vars, byzantine, partitioned, call, recovered, pending, breedingLog>>

\* run_view_change: the replicas start their view changes one after the other.
RunViewChange ==
    /\ call = Idle
    /\ \A n \in Node \ byzantine : view[n] < MaxView
    /\ call' = Broadcast("viewChange", 0, "START", <<>>)
    /\ UNCHANGED <<vars, byzantine, partitioned, outcome, recovered, pending, breedingLog>>

StartNext ==
    /\ call.stage = "START"
    /\ call.at <= N
    /\ LET n == NodeOrder[call.at] IN
       \/ /\ n \notin byzantine
          /\ StartViewChange(n)
          /\ call' = [call EXCEPT !.at = @ + 1, !.out = Append(@, ViewChange(n))]
       \/ /\ n \in byzantine
          /\ call' = [call EXCEPT !.at = @ + 1]
          /\ UNCHANGED vars
    /\ UNCHANGED <<byzantine, partitioned, outcome, recovered, pending, breedingLog>>

-----------------------------------------------------------------------------
(* send: the head of todo to the replicas in turn, responses collected.    *)

NextTarget(c) ==
    IF c.at < N THEN [c EXCEPT !.at = @ + 1]
                ELSE [c EXCEPT !.at = 1, !.todo = Tail(@)]

Deliver ==
    /\ call.stage \notin {"none", "START"}
    /\ call.todo # <<>>
    /\ LET n == NodeOrder[call.at]
           m == Head(call.todo)
       IN  \/ /\ n \in Reachable
              /\ Handle(n, m)
              /\ \/ /\ Response(n, m) = {}
                    /\ call' = NextTarget(call)
                 \/ \E r \in Response(n, m) :
                       call' = NextTarget([call EXCEPT !.out = Append(@, r)])
           \/ /\ n \notin Reachable \/ Ignores(n, m)
              /\ call' = NextTarget(call)
              /\ UNCHANGED vars
    /\ UNCHANGED <<byzantine, partitioned, outcome, recovered, pending, breedingLog>>

\* The responses of one phase are the messages of the next.
NextPhase ==
    /\ call.todo = <<>>
    /\ \/ /\ call.stage = "PRE_PREPARE"
          /\ call' = Broadcast(call.op, call.node, "PREPARE", call.out)
       \/ /\ call.stage = "PREPARE"
          /\ call' = Broadcast(call.op, call.node, "COMMIT", call.out)
       \/ /\ call.stage = "START"
          /\ call.at > N
          /\ call' = Broadcast(call.op, call.node, "VIEW_CHANGE", call.out)
       \/ /\ call.stage = "VIEW_CHANGE"
          /\ call.out # <<>>
          /\ call' = Broadcast(call.op, call.node, "NEW_VIEW", <<Head(call.out)>>)
    /\ UNCHANGED <<vars, byzantine, partitioned, outcome, recovered, pending, breedingLog>>

\* Mutants of RoundDecided: off by one; the replies not counted.
RoundDecidedStrict == Len(call.out) > Quorum
RoundNotCounted == TRUE

RoundDecided == Len(call.out) >= Quorum

\* The replies are counted; the proposer's own batch is bred or aborted.
EndRound ==
    /\ call.stage = "COMMIT"
    /\ call.todo = <<>>
    /\ outcome' = IF RoundDecided THEN "decided" ELSE "failed"
    /\ IF call.op = "propose"
       THEN \E m \in pending[call.node] :
               /\ pending' = [pending EXCEPT ![call.node] = @ \ {m}]
               /\ breedingLog' = IF RoundDecided
                                 THEN [breedingLog EXCEPT ![call.node] = Append(@, m.payload)]
                                 ELSE breedingLog
       ELSE UNCHANGED <<pending, breedingLog>>
    /\ call' = Idle
    /\ UNCHANGED <<vars, byzantine, partitioned, recovered>>

EndViewChange ==
    /\ call.todo = <<>>
    /\ \/ call.stage = "NEW_VIEW" /\ recovered' = "yes"
       \/ call.stage = "VIEW_CHANGE" /\ call.out = <<>> /\ recovered' = "no"
    /\ call' = Idle
    /\ UNCHANGED <<vars, byzantine, partitioned, outcome, pending, breedingLog>>

-----------------------------------------------------------------------------
SetByzantine(n) ==
    /\ call = Idle
    /\ byzantine' = byzantine \cup {n}
    /\ UNCHANGED <<vars, partitioned, call, outcome, recovered, pending, breedingLog>>

SetPartitioned(n) ==
    /\ call = Idle
    /\ partitioned' = partitioned \cup {n}
    /\ UNCHANGED <<vars, byzantine, call, outcome, recovered, pending, breedingLog>>

\* Mutant of ClearFaults: the replicas leave their view changes as well.
ClearFaultsAndViewChanges ==
    /\ call = Idle
    /\ byzantine' = {} /\ partitioned' = {}
    /\ inViewChange' = [n \in Node |-> FALSE]
    /\ UNCHANGED <<view, viewChangeLog, seqNum, voteVars, net,
                   call, outcome, recovered, pending, breedingLog>>

ClearFaults ==
    /\ call = Idle
    /\ byzantine' = {} /\ partitioned' = {}
    /\ UNCHANGED <<vars, call, outcome, recovered, pending, breedingLog>>

\* The steps of the call in progress.
CallStep == StartNext \/ Deliver \/ NextPhase \/ EndRound \/ EndViewChange

NetNext ==
    \/ \E p \in Payload : BroadcastRequest(p)
    \/ RequestRefused
    \/ \E n \in Node, p \in Payload : ProposeParents(n, p)
    \/ \E n \in Node : ProposalRefused(n)
    \/ RunViewChange
    \/ CallStep
    \/ \E n \in Node : SetByzantine(n)
    \/ \E n \in Node : SetPartitioned(n)
    \/ ClearFaults

NetSpec == NetInit /\ [][NetNext]_allVars

-----------------------------------------------------------------------------
\* The slot a round in progress is deciding.
CurrentSlots ==
    IF call.op \in {"request", "propose"}
    THEN {<<view[call.node], seqNum[call.node]>>}
    ELSE {}

Promise == INSTANCE FleetRound WITH
    Replica    <- Node,
    Decision   <- Slots,
    QuorumSize <- 2 * ((N - 1) \div 3) + 1,
    ready      <- Ready,
    decided    <- [n \in Node |-> ExecutedSlots(n) \ CurrentSlots],
    outcome    <- outcome

\* The three phases, run one message at a time with any set of silent and
\* unreachable replicas and any leftovers of earlier rounds and view changes,
\* are atomic to the caller: TRUE exactly when the slot was executed on every
\* replica that can take part, FALSE when it was executed on none, and never
\* FALSE while a quorum could vote.
RoundIsAtomic == Promise!Spec

\* The router only ever does what some transport could do to the replicas, so
\* all that PBFTNode guarantees holds of the fleet (a message is delivered only
\* if a replica sent it, and no call touches a replica behind its handlers).
RefinesPBFT == Spec

Deciders(s) == {n \in Node : s \in ExecutedSlots(n)}

\* The gate of the breeder: between calls no proposal is pending, and a replica
\* has bred no more batches than it has proposed slots that a quorum executed
\* (an aborted proposal breeds nothing, now or later).
BreedsOnlyDecided ==
    call = Idle =>
        \A n \in Node :
            /\ pending[n] = {}
            /\ Len(breedingLog[n]) <=
                  Cardinality({s \in Slots : /\ n \in Senders("PRE_PREPARE", s)
                                             /\ Cardinality(Deciders(s)) >= Quorum})

Supporters(v) ==
    {n \in Node : \E m \in net : m.phase = "VIEW_CHANGE" /\ m.view = v /\ m.node = n}

\* A new view needs VIEW-CHANGEs of Quorum - 1 distinct replicas over this
\* router.  Not of a quorum: the new primary appends its own message when it
\* starts and again when the broadcast brings it back.
NewViewSupport ==
    \A m \in net : m.phase = "NEW_VIEW" => Cardinality(Supporters(m.view)) >= Quorum - 1

\* test_full_view_change_recovery: "After view change, n1 is primary. Consensus
\* should work."  When run_view_change has returned TRUE some replica takes
\* itself for the primary, or no request can be served.
LeaderAfterViewChange == call = Idle /\ recovered = "yes" => Primaries # {}

=============================================================================
