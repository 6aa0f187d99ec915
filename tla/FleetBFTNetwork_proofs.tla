----------------------- MODULE FleetBFTNetwork_proofs -----------------------
(***************************************************************************)
(* Theorems about FleetBFTNetwork, for every number of replicas in every   *)
(* order, every payload set, any faults and every value of the bounds.     *)
(***************************************************************************)
EXTENDS FleetBFTNetwork, PBFTNode_proofs

-----------------------------------------------------------------------------
(* The call in progress.                                                   *)

RoundStages == {"PRE_PREPARE", "PREPARE", "COMMIT"}
ViewStages == {"START", "VIEW_CHANGE", "NEW_VIEW"}

Call ==
    [op : {"idle", "request", "propose", "viewChange"}, node : Node,
     stage : {"none"} \cup RoundStages \cup ViewStages,
     todo : Seq(Message), at : 1 .. N + 1, out : Seq(Message)]

\* The messages of a call are messages of the fleet; send stops at a replica.
CallTypeOK ==
    /\ byzantine \in SUBSET Node /\ partitioned \in SUBSET Node
    /\ call \in Call
    /\ call.stage # "START" => call.at <= N
    /\ call.op \in {"request", "propose"} <=> call.stage \in RoundStages
    /\ call.op = "viewChange" <=> call.stage \in ViewStages
    /\ call.stage \in {"none", "START"} => call.todo = <<>>
    /\ pending \in [Node -> SUBSET {m \in Message : m.payload \in Payload}]
    /\ breedingLog \in [Node -> Seq(Payload)]

\* What the replicas return in a stage.
Answer(stage) ==
    CASE stage = "PRE_PREPARE" -> "PREPARE"
      [] stage = "PREPARE" -> "COMMIT"
      [] stage = "COMMIT" -> "REPLY"
      [] stage = "START" -> "VIEW_CHANGE"
      [] OTHER -> "NEW_VIEW"

RoundSlot == <<view[call.node], seqNum[call.node]>>

\* The call holds sent messages only, of its stage, and in a round of its slot.
InTransit ==
    /\ \A i \in DOMAIN call.todo :
          /\ call.todo[i] \in net /\ call.todo[i].phase = call.stage
          /\ call.stage \in RoundStages => Slot(call.todo[i]) = RoundSlot
    /\ \A i \in DOMAIN call.out :
          /\ call.out[i] \in net /\ call.out[i].phase = Answer(call.stage)
          /\ call.stage \in RoundStages => Slot(call.out[i]) = RoundSlot

\* The messages that the loop over todo has still to hand to replica n.
Awaited(n) ==
    {call.todo[i] : i \in {j \in DOMAIN call.todo :
                              j = 1 => \E k \in call.at .. N : NodeOrder[k] = n}}

AwaitsFrom(n, r) == \E m \in Awaited(n) : m.node = r

Answerers == {call.out[i].node : i \in DOMAIN call.out}

\* What the logs hold for the slot of a round in progress, stage by stage: R
\* are the replicas that take part.
PrePrepareInv ==
    call.stage = "PRE_PREPARE" =>
        /\ \A i \in DOMAIN call.todo :
              /\ call.todo[i].node = Primary(call.todo[i].view)
              /\ call.todo[i].digest = Digest(call.todo[i].payload)
        /\ \A n \in Node :
              /\ Voters(prepareLog[n], RoundSlot) \subseteq Answerers \cap {n}
              /\ Voters(commitLog[n], RoundSlot) = {}
              /\ RoundSlot \notin ExecutedSlots(n)
        /\ Answerers \subseteq Ready
        /\ \A n \in Ready : 
              \/ n \in Answerers /\ RoundSlot \in prePrepareLog[n]
                 /\ n \in Voters(prepareLog[n], RoundSlot)
              \/ Awaited(n) # {}

PrepareInv ==
    call.stage = "PREPARE" =>
        /\ \A i \in DOMAIN call.todo : call.todo[i].node \in Ready
        /\ \A n \in Node :
              /\ Voters(prepareLog[n], RoundSlot) \subseteq Ready
              /\ Voters(commitLog[n], RoundSlot) \subseteq {n} \cap Answerers
              /\ RoundSlot \notin ExecutedSlots(n)
        /\ Answerers \subseteq Ready
        /\ Answerers # {} => Cardinality(Ready) >= Quorum
        /\ \A n \in Ready :
              /\ RoundSlot \in prePrepareLog[n]
              /\ \A r \in Ready : r \in Voters(prepareLog[n], RoundSlot) \/ AwaitsFrom(n, r)
              /\ \/ n \in Answerers
                 \/ Cardinality(Voters(prepareLog[n], RoundSlot)) < Quorum
                 \/ AwaitsFrom(n, n)

CommitInv ==
    call.stage = "COMMIT" =>
        /\ call.todo # <<>> => Cardinality(Ready) >= Quorum
        /\ \A i \in DOMAIN call.todo : call.todo[i].node \in Ready
        /\ \A n \in Node :
              /\ Voters(commitLog[n], RoundSlot) \subseteq Ready
              /\ RoundSlot \in ExecutedSlots(n) => n \in Ready /\ Cardinality(Ready) >= Quorum
        /\ Cardinality(Ready) >= Quorum =>
              \A n \in Ready :
                 /\ \A r \in Ready : r \in Voters(commitLog[n], RoundSlot) \/ AwaitsFrom(n, r)
                 /\ \/ RoundSlot \in ExecutedSlots(n)
                    \/ Cardinality(Voters(commitLog[n], RoundSlot)) < Quorum
                    \/ AwaitsFrom(n, n)
        /\ Len(call.out) = Cardinality(Deciders(RoundSlot))

\* The slots a replica has proposed and a quorum has executed.
WonSlots(n) ==
    {s \in Slots : n \in Senders("PRE_PREPARE", s) /\ Cardinality(Deciders(s)) >= Quorum}

GateInv ==
    \A n \in Node :
        IF call.op = "propose" /\ call.node = n
        THEN /\ \E m \in Message : pending[n] = {m}
             /\ n \in Senders("PRE_PREPARE", RoundSlot)
             /\ Len(breedingLog[n]) <= Cardinality(WonSlots(n) \ {RoundSlot})
        ELSE /\ pending[n] = {}
             /\ Len(breedingLog[n]) <= Cardinality(WonSlots(n))

\* The votes for view v that the router has still to hand to Primary(v).
Undelivered(v) ==
    {m \in net : /\ m.view = v
                 /\ \/ call.stage = "START" /\ \E i \in DOMAIN call.out : m = call.out[i]
                    \/ call.stage = "VIEW_CHANGE" /\ m \in Awaited(Primary(v))}

Counted(v) == Supporters(v) \ {m.node : m \in Undelivered(v)}

\* No replica votes for a view that it has not reached.
VotesReached == \A m \in net : m.phase = "VIEW_CHANGE" => m.view <= view[m.node]

\* A view change collects at most one vote of each replica.
OneVoteEach ==
    /\ call.stage = "START" =>
          \A i \in DOMAIN call.out :
              /\ \E k \in 1 .. call.at - 1 : NodeOrder[k] = call.out[i].node
              /\ \A j \in DOMAIN call.out : call.out[i].node = call.out[j].node => i = j
    /\ call.stage = "VIEW_CHANGE" =>
          \A i, j \in DOMAIN call.todo : call.todo[i].node = call.todo[j].node => i = j

\* The new primary has counted each vote once, and its own once more.
VotesCounted ==
    \A v \in View :
        viewChangeLog[v] <= Cardinality(Counted(v)) +
                               (IF Primary(v) \in Supporters(v) THEN 1 ELSE 0)

ViewInv == VotesReached /\ OneVoteEach /\ VotesCounted /\ NewViewSupport

-----------------------------------------------------------------------------
(* What the steps of a call do to it.                                      *)

\* The messages of a call to be sent again are well formed.
LEMMA BroadcastType ==
    ASSUME NEW op \in {"request", "propose", "viewChange"}, NEW n \in Node,
           NEW stage \in RoundStages \cup ViewStages, NEW msgs \in Seq(Message)
    PROVE  Broadcast(op, n, stage, msgs) \in Call
BY ConstantsAssumption DEF Broadcast, Call

\* An idle router is one in which no call is in any stage.
LEMMA IdleType == Idle \in Call /\ 0 \in Node
BY ConstantsAssumption DEF Idle, Call, Node

\* A call with some of its fields replaced.
LEMMA CallAt ==
    ASSUME NEW c \in Call, NEW i \in 1 .. N + 1
    PROVE  LET d == [c EXCEPT !.at = i] IN
           /\ d \in Call /\ d.at = i /\ d.op = c.op /\ d.node = c.node
           /\ d.stage = c.stage /\ d.todo = c.todo /\ d.out = c.out
<1> DEFINE M == Seq(Message)
<1> HIDE DEF M
<1> QED
  BY DEF Call, M

LEMMA CallOut ==
    ASSUME NEW c \in Call, NEW r \in Message
    PROVE  LET d == [c EXCEPT !.out = Append(@, r)] IN
           /\ d \in Call /\ d.at = c.at /\ d.op = c.op /\ d.node = c.node
           /\ d.stage = c.stage /\ d.todo = c.todo /\ d.out = Append(c.out, r)
<1> DEFINE M == Seq(Message)
           longer == Append(c.out, r)
<1>1. longer \in M
  BY DEF Call
<1> HIDE DEF M, longer
<1>2. LET d == [c EXCEPT !.out = longer] IN
         /\ d \in Call /\ d.at = c.at /\ d.op = c.op /\ d.node = c.node
         /\ d.stage = c.stage /\ d.todo = c.todo /\ d.out = longer
  BY <1>1 DEF Call, M
<1> QED
  BY <1>2 DEF longer

\* The loops of send: the next replica, or the next message from the first one.
LEMMA NextTargetShape ==
    ASSUME NEW c \in Call, c.at <= N, c.todo # <<>>
    PROVE  /\ NextTarget(c) \in Call /\ NextTarget(c).at <= N
           /\ NextTarget(c).op = c.op /\ NextTarget(c).node = c.node
           /\ NextTarget(c).stage = c.stage /\ NextTarget(c).out = c.out
           /\ \/ c.at < N /\ NextTarget(c).at = c.at + 1 /\ NextTarget(c).todo = c.todo
              \/ c.at = N /\ NextTarget(c).at = 1 /\ NextTarget(c).todo = Tail(c.todo)
<1>1. c.at \in 1 .. N
  BY ConstantsAssumption DEF Call
<1>2. CASE c.at < N
  <2>1. NextTarget(c) = [c EXCEPT !.at = c.at + 1] /\ c.at + 1 \in 1 .. N + 1 /\ c.at + 1 <= N
    BY <1>1, <1>2, ConstantsAssumption DEF NextTarget
  <2> QED
    BY <1>2, <2>1, CallAt
<1>3. CASE c.at = N
  <2> DEFINE rest == Tail(c.todo)
  <2>1. NextTarget(c) = [c EXCEPT !.at = 1, !.todo = rest] /\ 1 \in 1 .. N + 1 /\ 1 <= N
    BY <1>1, <1>3, ConstantsAssumption DEF NextTarget
  <2>2. rest \in Seq(Message)
    BY DEF Call
  <2> HIDE DEF rest
  <2>3. /\ NextTarget(c) \in Call /\ NextTarget(c).at = 1 /\ NextTarget(c).op = c.op
        /\ NextTarget(c).node = c.node /\ NextTarget(c).stage = c.stage
        /\ NextTarget(c).todo = rest /\ NextTarget(c).out = c.out
    <3> DEFINE M == Seq(Message)
    <3>1. rest \in M /\ c \in [op : {"idle", "request", "propose", "viewChange"}, node : Node,
                               stage : {"none"} \cup RoundStages \cup ViewStages,
                               todo : M, at : 1 .. N + 1, out : M]
      BY <2>2 DEF Call
    <3> HIDE DEF M
    <3>2. NextTarget(c) \in [op : {"idle", "request", "propose", "viewChange"}, node : Node,
                             stage : {"none"} \cup RoundStages \cup ViewStages,
                             todo : M, at : 1 .. N + 1, out : M]
      BY <2>1, <3>1
    <3>3. /\ NextTarget(c).at = 1 /\ NextTarget(c).op = c.op
          /\ NextTarget(c).node = c.node /\ NextTarget(c).stage = c.stage
          /\ NextTarget(c).todo = rest /\ NextTarget(c).out = c.out
      BY <2>1, <3>1
    <3> QED
      BY <3>2, <3>3 DEF M, Call
  <2> QED
    BY <1>3, <2>1, <2>3 DEF rest
<1> QED
  BY <1>1, <1>2, <1>3, ConstantsAssumption

\* One delivery: the head of todo, to the replica at the position reached.
LEMMA DeliverShape ==
    ASSUME CallTypeOK, Deliver
    PROVE  \E n \in Node, m \in Message :
              /\ n = NodeOrder[call.at] /\ call.at \in 1 .. N
              /\ m = Head(call.todo) /\ call.todo # <<>> /\ m = call.todo[1]
              /\ call.stage \notin {"none", "START"}
              /\ call' \in Call /\ call'.at <= N
              /\ call'.op = call.op /\ call'.node = call.node /\ call'.stage = call.stage
              /\ \/ call.at < N /\ call'.at = call.at + 1 /\ call'.todo = call.todo
                 \/ call.at = N /\ call'.at = 1 /\ call'.todo = Tail(call.todo)
              /\ \/ /\ n \in Reachable /\ Handle(n, m)
                    /\ \/ Response(n, m) = {} /\ call'.out = call.out
                       \/ \E r \in Response(n, m) : call'.out = Append(call.out, r)
                 \/ /\ n \notin Reachable \/ Ignores(n, m)
                    /\ UNCHANGED vars /\ call'.out = call.out
<1> DEFINE n == NodeOrder[call.at]
           m == Head(call.todo)
<1>1. call \in Call /\ call.at \in 1 .. N /\ call.todo # <<>> /\ call.todo \in Seq(Message)
      /\ call.stage \notin {"none", "START"}
  BY ConstantsAssumption DEF CallTypeOK, Call, Deliver
<1>2. n \in Node /\ m \in Message /\ m = call.todo[1]
  BY <1>1, NodeOrderAssumption
<1>3. ASSUME NEW r \in Message
      PROVE  LET c == [call EXCEPT !.out = Append(@, r)] IN
             /\ c \in Call /\ c.at = call.at /\ c.todo = call.todo /\ c.op = call.op
             /\ c.node = call.node /\ c.stage = call.stage /\ c.out = Append(call.out, r)
  BY <1>1, CallOut
<1>4. ASSUME NEW r \in Message, call' = NextTarget([call EXCEPT !.out = Append(@, r)])
      PROVE  /\ call' \in Call /\ call'.at <= N /\ call'.out = Append(call.out, r)
             /\ call'.op = call.op /\ call'.node = call.node /\ call'.stage = call.stage
             /\ \/ call.at < N /\ call'.at = call.at + 1 /\ call'.todo = call.todo
                \/ call.at = N /\ call'.at = 1 /\ call'.todo = Tail(call.todo)
  <2> DEFINE c == [call EXCEPT !.out = Append(@, r)]
  <2>1. c \in Call /\ c.at = call.at /\ c.todo = call.todo /\ c.op = call.op
        /\ c.node = call.node /\ c.stage = call.stage /\ c.out = Append(call.out, r)
    BY <1>3
  <2>2. call' = NextTarget(c)
    BY <1>4
  <2> HIDE DEF c
  <2>3. c.at <= N /\ c.todo # <<>>
    BY <1>1, <2>1, ConstantsAssumption
  <2> QED
    BY <2>1, <2>2, <2>3, NextTargetShape
<1>5. ASSUME call' = NextTarget(call)
      PROVE  /\ call' \in Call /\ call'.at <= N /\ call'.out = call.out
             /\ call'.op = call.op /\ call'.node = call.node /\ call'.stage = call.stage
             /\ \/ call.at < N /\ call'.at = call.at + 1 /\ call'.todo = call.todo
                \/ call.at = N /\ call'.at = 1 /\ call'.todo = Tail(call.todo)
  BY <1>1, <1>5, NextTargetShape, ConstantsAssumption
<1>6. \/ /\ n \in Reachable /\ Handle(n, m)
         /\ \/ Response(n, m) = {} /\ call' = NextTarget(call)
            \/ \E r \in Response(n, m) : call' = NextTarget([call EXCEPT !.out = Append(@, r)])
      \/ /\ n \notin Reachable \/ Ignores(n, m)
         /\ UNCHANGED vars /\ call' = NextTarget(call)
  BY DEF Deliver
<1>7. Response(n, m) \subseteq Message
  BY <1>2, ResponseType
<1> HIDE DEF n, m
<1>8. \/ call' = NextTarget(call)
      \/ \E r \in Message : call' = NextTarget([call EXCEPT !.out = Append(@, r)])
  BY <1>6, <1>7
<1>9. /\ call' \in Call /\ call'.at <= N
      /\ call'.op = call.op /\ call'.node = call.node /\ call'.stage = call.stage
      /\ \/ call.at < N /\ call'.at = call.at + 1 /\ call'.todo = call.todo
         \/ call.at = N /\ call'.at = 1 /\ call'.todo = Tail(call.todo)
  BY <1>4, <1>5, <1>8
<1>10. \/ /\ n \in Reachable /\ Handle(n, m)
          /\ \/ Response(n, m) = {} /\ call'.out = call.out
             \/ \E r \in Response(n, m) : call'.out = Append(call.out, r)
       \/ /\ n \notin Reachable \/ Ignores(n, m)
          /\ UNCHANGED vars /\ call'.out = call.out
  BY <1>4, <1>5, <1>6, <1>7
<1> QED
  BY <1>1, <1>2, <1>9, <1>10 DEF n, m

\* broadcast_request picks a replica that takes itself for the primary.
LEMMA FirstPrimaryIsPrimary ==
    Primaries # {} => FirstPrimary \in Node /\ IsPrimary(FirstPrimary)
<1> SUFFICES ASSUME Primaries # {} PROVE FirstPrimary \in Node /\ IsPrimary(FirstPrimary)
  OBVIOUS
<1>1. Primaries \subseteq Nat
  BY DEF Primaries
<1>2. \E i \in Primaries : \A j \in Primaries : i <= j
  <2> DEFINE R == OpToRel(<, Nat)
  <2>1. IsWellFoundedOn(R, Nat)
    BY NatLessThanWellFounded
  <2>2. \A i, j \in Nat : <<i, j>> \in R <=> i < j
    BY DEF OpToRel
  <2> HIDE DEF R
  <2>3. PICK i \in Primaries : \A j \in Primaries : ~(<<j, i>> \in R)
    BY <1>1, <2>1, WFMin
  <2>4. ASSUME NEW j \in Primaries PROVE i <= j
    <3>1. i \in Nat /\ j \in Nat /\ ~(<<j, i>> \in R)
      BY <1>1, <2>3
    <3>2. ~(j < i)
      BY <2>2, <3>1
    <3> QED
      BY <3>1, <3>2
  <2> QED
    BY <2>4
<1>3. PICK i \in Primaries : FirstPrimary = NodeOrder[i]
  BY <1>2 DEF FirstPrimary
<1> QED
  BY <1>3, NodeOrderAssumption DEF Primaries

\* The message at the head of a call has been sent.
LEMMA HeadInTransit ==
    ASSUME CallTypeOK, InTransit, call.todo # <<>>
    PROVE  /\ 1 \in DOMAIN call.todo /\ call.todo[1] \in net
           /\ call.todo[1].phase = call.stage
           /\ call.stage \in RoundStages => Slot(call.todo[1]) = RoundSlot
<1>1. call.todo \in Seq(Message)
  BY DEF CallTypeOK, Call
<1>2. 1 \in DOMAIN call.todo
  BY <1>1
<1> QED
  BY <1>2 DEF InTransit

\* Every step of the router is a step of the replicas, or leaves them alone.
LEMMA RouterStep ==
    CallTypeOK /\ InTransit /\ [NetNext]_allVars => [Next]_vars
<1> SUFFICES ASSUME CallTypeOK, InTransit, [NetNext]_allVars PROVE [Next]_vars
  OBVIOUS
<1>1. ASSUME NEW p \in Payload, BroadcastRequest(p) PROVE [Next]_vars
  BY <1>1, FirstPrimaryIsPrimary DEF BroadcastRequest, Next
<1>2. ASSUME NEW n \in Node, NEW p \in Payload, ProposeParents(n, p) PROVE [Next]_vars
  BY <1>2 DEF ProposeParents, Next
<1>3. ASSUME StartNext PROVE [Next]_vars
  <2>1. call.at \in 1 .. N
    BY <1>3, ConstantsAssumption DEF StartNext, CallTypeOK, Call
  <2> QED
    BY <1>3, <2>1, NodeOrderAssumption DEF StartNext, Next
<1>4. ASSUME Deliver PROVE [Next]_vars
  <2>1. PICK n \in Node, m \in Message :
           /\ m = call.todo[1] /\ call.todo # <<>>
           /\ Handle(n, m) \/ UNCHANGED vars
    BY <1>4, DeliverShape
  <2> QED
    BY <2>1, HeadInTransit DEF Next
<1>5. ASSUME \/ RequestRefused \/ (\E n \in Node : ProposalRefused(n)) \/ RunViewChange
             \/ NextPhase \/ EndRound \/ EndViewChange \/ ClearFaults
             \/ (\E n \in Node : SetByzantine(n) \/ SetPartitioned(n))
      PROVE  UNCHANGED vars
  BY <1>5 DEF RequestRefused, ProposalRefused, RunViewChange, NextPhase, EndRound,
              EndViewChange, ClearFaults, SetByzantine, SetPartitioned
<1>6. CASE UNCHANGED allVars
  BY <1>6 DEF allVars
<1> QED
  BY <1>1, <1>2, <1>3, <1>4, <1>5, <1>6 DEF NetNext, CallStep

\* What a replica returns in a stage is a message of the next one, in its own
\* name, and in a round for the same slot.
LEMMA AnswerShape ==
    ASSUME NEW n \in Node, NEW m \in Message, NEW r \in Response(n, m)
    PROVE  /\ r \in Message /\ r.phase = Answer(m.phase) /\ r.node = n
           /\ m.phase \in RoundStages => Slot(r) = Slot(m)
<1>1. r \in Message
  BY ResponseType
<1>2. r.phase \in {"PREPARE", "COMMIT", "REPLY", "NEW_VIEW"}
  BY <1>1, ResponseShape, ResponseGuards DEF Message
<1> QED
  BY <1>1, <1>2, ResponseGuards DEF Answer, RoundStages

\* A handler puts its answers in the transport, and in a round it changes no
\* view and numbers nothing.
LEMMA HandleShape ==
    ASSUME NEW n \in Node, NEW m \in Message, Handle(n, m)
    PROVE  /\ ~Ignores(n, m) /\ net' = net \cup Response(n, m) /\ seqNum' = seqNum
           /\ m.phase \in RoundStages => view' = view /\ inViewChange' = inViewChange
<1>1. m.phase = "NEW_VIEW" => Response(n, m) = {}
  BY AnswerShape, ResponseGuards DEF Answer
<1> QED
  BY <1>1 DEF Handle, HandlePrePrepare, HandlePrepare, HandleCommit, HandleViewChange,
              HandleNewView, viewVars, RoundStages

\* A delivery leaves the rest of todo, and adds to out at most the answer.
LEMMA DeliverSequences ==
    ASSUME CallTypeOK, Deliver
    PROVE  /\ \A i \in DOMAIN call'.todo : \E j \in DOMAIN call.todo : call'.todo[i] = call.todo[j]
           /\ \A i \in DOMAIN call'.out :
                 \/ i \in DOMAIN call.out /\ call'.out[i] = call.out[i]
                 \/ /\ i = Len(call.out) + 1 /\ Len(call'.out) = Len(call.out) + 1
                    /\ Handle(NodeOrder[call.at], call.todo[1])
                    /\ call'.out[i] \in Response(NodeOrder[call.at], call.todo[1])
<1>1. PICK n \in Node, m \in Message :
         /\ n = NodeOrder[call.at] /\ m = call.todo[1] /\ call.todo # <<>>
         /\ call'.todo = call.todo \/ call'.todo = Tail(call.todo)
         /\ \/ call'.out = call.out
            \/ Handle(n, m) /\ \E r \in Response(n, m) : call'.out = Append(call.out, r)
  BY DeliverShape
<1>2. call.todo \in Seq(Message) /\ call.out \in Seq(Message)
  BY DEF CallTypeOK, Call
<1>3. ASSUME NEW i \in DOMAIN call'.todo
      PROVE  \E j \in DOMAIN call.todo : call'.todo[i] = call.todo[j]
  <2>1. CASE call'.todo = call.todo
    BY <2>1, <1>3
  <2>2. CASE call'.todo = Tail(call.todo)
    <3>1. i + 1 \in DOMAIN call.todo /\ call'.todo[i] = call.todo[i + 1]
      BY <1>1, <1>2, <1>3, <2>2
    <3> QED
      BY <3>1
  <2> QED
    BY <1>1, <2>1, <2>2
<1>4. ASSUME NEW i \in DOMAIN call'.out
      PROVE  \/ i \in DOMAIN call.out /\ call'.out[i] = call.out[i]
             \/ /\ i = Len(call.out) + 1 /\ Len(call'.out) = Len(call.out) + 1
                /\ Handle(NodeOrder[call.at], call.todo[1])
                /\ call'.out[i] \in Response(NodeOrder[call.at], call.todo[1])
  <2>1. CASE call'.out = call.out
    BY <2>1, <1>4
  <2>2. ASSUME Handle(n, m), NEW r \in Response(n, m), call'.out = Append(call.out, r)
        PROVE  \/ i \in DOMAIN call.out /\ call'.out[i] = call.out[i]
               \/ i = Len(call.out) + 1 /\ Len(call'.out) = Len(call.out) + 1 /\ call'.out[i] = r
    <3>1. r \in Message
      BY ResponseType
    <3> QED
      BY <1>2, <1>4, <2>2, <3>1
  <2> QED
    BY <1>1, <2>1, <2>2
<1> QED
  BY <1>3, <1>4

-----------------------------------------------------------------------------
(* The messages of a call.                                                 *)

RouterInv == CallTypeOK /\ InTransit

\* A request starts a round over its own proposal.
LEMMA RoundStarts ==
    ASSUME TypeOK, RouterInv, NEW n \in Node, NEW p \in Payload, HandleRequest(n, p),
           NEW op \in {"request", "propose"},
           call' = Broadcast(op, n, "PRE_PREPARE", <<Proposal(n, p)>>)
    PROVE  /\ call' \in Call /\ call'.at <= N /\ InTransit'
           /\ Proposal(n, p) \in {m \in Message : m.payload \in Payload}
           /\ RoundSlot' = Slot(Proposal(n, p)) /\ Slot(Proposal(n, p)) = <<view[n], seqNum[n] + 1>>
<1> DEFINE m == Proposal(n, p)
<1>1. m \in Message /\ m.payload = p /\ m.phase = "PRE_PREPARE"
      /\ Slot(m) = <<view[n], seqNum[n] + 1>>
  BY ProposalType DEF HandleRequest, Proposal, Slot
<1>2. m \in net' /\ view' = view /\ seqNum'[n] = seqNum[n] + 1
  BY DEF HandleRequest, viewVars, TypeOK
<1> HIDE DEF m
<1>3. call'.node = n /\ call'.todo = <<m>> /\ call'.out = <<>> /\ call'.stage = "PRE_PREPARE"
      /\ call'.at = 1
  BY DEF Broadcast, m
<1>4. call' \in Call /\ call'.at <= N
  <2>1. <<m>> \in Seq(Message)
    BY <1>1
  <2>2. call' = Broadcast(op, n, "PRE_PREPARE", <<m>>)
    BY DEF m
  <2>3. call' \in Call
    BY <2>1, <2>2, BroadcastType DEF RoundStages
  <2> QED
    BY <2>3, <1>3, ConstantsAssumption
<1>5. RoundSlot' = Slot(m)
  BY <1>1, <1>2, <1>3 DEF RoundSlot
<1>6. InTransit'
  BY <1>1, <1>2, <1>3, <1>5 DEF InTransit
<1> QED
  BY <1>1, <1>4, <1>5, <1>6 DEF m

\* Every step of the router keeps its calls in order.
LEMMA RouterNext == TypeOK /\ RouterInv /\ [NetNext]_allVars => RouterInv'
<1> SUFFICES ASSUME TypeOK, RouterInv, [NetNext]_allVars PROVE RouterInv'
  OBVIOUS
<1> USE DEF RouterInv
<1> DEFINE Faults == byzantine' \in SUBSET Node /\ partitioned' \in SUBSET Node
           Gate == /\ pending' \in [Node -> SUBSET {m \in Message : m.payload \in Payload}]
                   /\ breedingLog' \in [Node -> Seq(Payload)]
<1>0. /\ UNCHANGED <<byzantine, partitioned>> => Faults
      /\ UNCHANGED <<pending, breedingLog>> => Gate
  BY DEF CallTypeOK
<1>1. ASSUME NEW p \in Payload, BroadcastRequest(p) PROVE RouterInv'
  <2>1. FirstPrimary \in Node /\ HandleRequest(FirstPrimary, p)
        /\ call' = Broadcast("request", FirstPrimary, "PRE_PREPARE", <<Proposal(FirstPrimary, p)>>)
    BY <1>1, FirstPrimaryIsPrimary DEF BroadcastRequest
  <2>2. call' \in Call /\ call'.at <= N /\ InTransit'
    BY <2>1, RoundStarts
  <2>3. call'.op = "request" /\ call'.stage = "PRE_PREPARE"
    BY <2>1 DEF Broadcast
  <2>4. Faults /\ Gate
    BY <1>0, <1>1 DEF BroadcastRequest
  <2> QED
    BY <2>2, <2>3, <2>4 DEF CallTypeOK, RoundStages, ViewStages
<1>2. ASSUME NEW n \in Node, NEW p \in Payload, ProposeParents(n, p) PROVE RouterInv'
  <2>1. /\ HandleRequest(n, p)
        /\ call' = Broadcast("propose", n, "PRE_PREPARE", <<Proposal(n, p)>>)
    BY <1>2 DEF ProposeParents
  <2>2. call' \in Call /\ call'.at <= N /\ InTransit'
        /\ Proposal(n, p) \in {m \in Message : m.payload \in Payload}
    BY <2>1, RoundStarts
  <2>3. call'.op = "propose" /\ call'.stage = "PRE_PREPARE"
    BY <2>1 DEF Broadcast
  <2>4. Faults /\ Gate
    BY <1>0, <1>2, <2>2 DEF ProposeParents, CallTypeOK
  <2> QED
    BY <2>2, <2>3, <2>4 DEF CallTypeOK, RoundStages, ViewStages
<1>3. ASSUME RunViewChange PROVE RouterInv'
  <2>1. call' = Broadcast("viewChange", 0, "START", <<>>) /\ 0 \in Node /\ <<>> \in Seq(Message)
    BY <1>3, IdleType DEF RunViewChange
  <2>2. call' \in Call
    BY <2>1, BroadcastType DEF ViewStages
  <2>3. call'.op = "viewChange" /\ call'.stage = "START" /\ call'.todo = <<>> /\ call'.out = <<>>
    BY <2>1 DEF Broadcast
  <2>4. Faults /\ Gate
    BY <1>0, <1>3 DEF RunViewChange
  <2> QED
    BY <2>2, <2>3, <2>4 DEF CallTypeOK, InTransit, RoundStages, ViewStages
<1>4. ASSUME StartNext PROVE RouterInv'
  <2>1. call \in Call /\ call.at \in 1 .. N /\ call.stage = "START" /\ call.todo = <<>>
    BY <1>4, ConstantsAssumption DEF StartNext, CallTypeOK, Call
  <2>2. PICK n \in Node : n = NodeOrder[call.at]
    BY <2>1, NodeOrderAssumption
  <2>3. Faults /\ Gate
    BY <1>0, <1>4 DEF StartNext
  <2>4. CASE StartViewChange(n) /\ call' = [call EXCEPT !.at = @ + 1, !.out = Append(@, ViewChange(n))]
    <3>1. ViewChange(n) \in Message /\ ViewChange(n).phase = "VIEW_CHANGE" /\ ViewChange(n) \in net'
          /\ net \subseteq net'
      BY <2>4, ViewChangeType DEF StartViewChange, ViewChange
    <3>2. /\ call' \in Call /\ call'.op = call.op /\ call'.stage = call.stage
          /\ call'.todo = call.todo /\ call'.out = Append(call.out, ViewChange(n))
      <4> DEFINE c == [call EXCEPT !.out = Append(@, ViewChange(n))]
      <4>1. /\ c \in Call /\ c.op = call.op /\ c.stage = call.stage
            /\ c.todo = call.todo /\ c.out = Append(call.out, ViewChange(n))
        BY <2>1, <3>1, CallOut
      <4>2. call' = [c EXCEPT !.at = call.at + 1]
        BY <2>1, <2>4 DEF Call
      <4> HIDE DEF c
      <4>3. call.at + 1 \in 1 .. N + 1
        BY <2>1, ConstantsAssumption
      <4> QED
        BY <4>1, <4>2, <4>3, CallAt
    <3>3. \A i \in DOMAIN call'.out :
             (i \in DOMAIN call.out /\ call'.out[i] = call.out[i]) \/ call'.out[i] = ViewChange(n)
      BY <2>1, <3>1, <3>2 DEF Call
    <3> QED
      BY <2>1, <2>3, <3>1, <3>2, <3>3
      DEF CallTypeOK, InTransit, RoundStages, ViewStages, Answer
  <2>5. CASE UNCHANGED vars /\ call' = [call EXCEPT !.at = @ + 1]
    <3>1. /\ call' \in Call /\ call'.op = call.op /\ call'.stage = call.stage
          /\ call'.todo = call.todo /\ call'.out = call.out
      <4>1. call.at + 1 \in 1 .. N + 1
        BY <2>1, ConstantsAssumption
      <4> QED
        BY <2>1, <2>5, <4>1, CallAt
    <3> QED
      BY <2>1, <2>3, <2>5, <3>1 DEF CallTypeOK, InTransit, RoundStages, ViewStages, vars
  <2> QED
    BY <1>4, <2>2, <2>4, <2>5 DEF StartNext
<1>5. ASSUME Deliver PROVE RouterInv'
  <2>1. PICK n \in Node, m \in Message :
           /\ n = NodeOrder[call.at] /\ m = call.todo[1] /\ call.todo # <<>>
           /\ call.stage \notin {"none", "START"} /\ call' \in Call /\ call'.at <= N
           /\ call'.op = call.op /\ call'.node = call.node /\ call'.stage = call.stage
           /\ Handle(n, m) \/ UNCHANGED vars
    BY <1>5, DeliverShape
  <2>2. Faults /\ Gate
    BY <1>0, <1>5 DEF Deliver
  <2>3. CallTypeOK'
    BY <2>1, <2>2 DEF CallTypeOK
  <2>4. m.phase = call.stage /\ (call.stage \in RoundStages => Slot(m) = RoundSlot)
    BY <2>1, HeadInTransit
  <2>5. net \subseteq net' /\ (call.stage \in RoundStages => RoundSlot' = RoundSlot)
    <3>1. CASE Handle(n, m)
      BY <2>1, <2>4, <3>1, HandleShape DEF RoundSlot
    <3>2. CASE UNCHANGED vars
      BY <2>1, <3>2 DEF vars, RoundSlot
    <3> QED
      BY <2>1, <3>1, <3>2
  <2>6. ASSUME Handle(n, m), NEW r \in Response(n, m)
        PROVE  /\ r \in net' /\ r.phase = Answer(call.stage)
               /\ call.stage \in RoundStages => Slot(r) = RoundSlot
    BY <2>4, <2>6, HandleShape, AnswerShape
  <2>7. InTransit'
    BY <1>5, <2>1, <2>5, <2>6, DeliverSequences DEF InTransit
  <2> QED
    BY <2>3, <2>7
<1>6. ASSUME NextPhase PROVE RouterInv'
  <2>1. PICK stage \in RoundStages \cup ViewStages, msgs \in Seq(Message) :
           /\ call' = Broadcast(call.op, call.node, stage, msgs)
           /\ \A i \in DOMAIN msgs : \E j \in DOMAIN call.out : msgs[i] = call.out[j]
           /\ stage = Answer(call.stage) /\ stage # "START"
           /\ call.stage \in RoundStages <=> stage \in RoundStages
           /\ call.stage \in ViewStages <=> stage \in ViewStages
    <3>1. call.out \in Seq(Message)
      BY DEF CallTypeOK, Call
    <3>2. CASE call.stage = "VIEW_CHANGE"
      <4>1. call.out # <<>> /\ <<Head(call.out)>> \in Seq(Message) /\ Head(call.out) = call.out[1]
            /\ 1 \in DOMAIN call.out
        BY <1>6, <3>1, <3>2 DEF NextPhase
      <4>2. call' = Broadcast(call.op, call.node, "NEW_VIEW", <<Head(call.out)>>)
        BY <1>6, <3>2 DEF NextPhase
      <4>3. \A i \in DOMAIN <<Head(call.out)>> : <<Head(call.out)>>[i] = call.out[1]
        BY <4>1
      <4> QED
        BY <3>2, <4>1, <4>2, <4>3 DEF RoundStages, ViewStages, Answer
    <3>3. CASE call.stage # "VIEW_CHANGE"
      BY <1>6, <3>1, <3>3 DEF NextPhase, RoundStages, ViewStages, Answer
    <3> QED
      BY <3>2, <3>3
  <2>2. call.op \in {"request", "propose", "viewChange"} /\ call.node \in Node
    BY <2>1 DEF CallTypeOK, Call
  <2>3. call' \in Call
    BY <2>1, <2>2, BroadcastType
  <2>4. /\ call'.op = call.op /\ call'.node = call.node /\ call'.stage = stage
        /\ call'.todo = msgs /\ call'.out = <<>> /\ call'.at = 1
    BY <2>1 DEF Broadcast
  <2>5. Faults /\ Gate /\ net' = net /\ RoundSlot' = RoundSlot
    BY <1>0, <1>6, <2>4 DEF NextPhase, vars, RoundSlot
  <2>6. CallTypeOK'
    <3>1. /\ call'.at <= N /\ call'.stage \notin {"none", "START"}
          /\ call'.op \in {"request", "propose"} <=> call'.stage \in RoundStages
          /\ call'.op = "viewChange" <=> call'.stage \in ViewStages
      BY <2>1, <2>2, <2>4, ConstantsAssumption DEF CallTypeOK, RoundStages, ViewStages
    <3> QED
      BY <2>3, <2>5, <3>1 DEF CallTypeOK
  <2>7. InTransit'
    <3>1. ASSUME NEW i \in DOMAIN msgs
          PROVE  /\ msgs[i] \in net /\ msgs[i].phase = stage
                 /\ stage \in RoundStages => Slot(msgs[i]) = RoundSlot
      <4>1. PICK j \in DOMAIN call.out : msgs[i] = call.out[j]
        BY <2>1, <3>1
      <4> QED
        BY <2>1, <4>1 DEF InTransit
    <3> QED
      BY <2>4, <2>5, <3>1 DEF InTransit
  <2> QED
    BY <2>6, <2>7
<1>7. ASSUME EndRound \/ EndViewChange PROVE RouterInv'
  <2>1. call' = Idle /\ call.node \in Node /\ Faults
    BY <1>0, <1>7 DEF EndRound, EndViewChange, CallTypeOK, Call
  <2>2. Gate
    <3>1. ASSUME NEW m \in pending[call.node]
          PROVE  /\ [pending EXCEPT ![call.node] = @ \ {m}]
                       \in [Node -> SUBSET {q \in Message : q.payload \in Payload}]
                 /\ [breedingLog EXCEPT ![call.node] = Append(@, m.payload)]
                       \in [Node -> Seq(Payload)]
      <4>1. m.payload \in Payload /\ breedingLog[call.node] \in Seq(Payload)
        BY <2>1 DEF CallTypeOK
      <4>2. Append(breedingLog[call.node], m.payload) \in Seq(Payload)
        BY <4>1
      <4> QED
        BY <4>2 DEF CallTypeOK
    <3>2. CASE UNCHANGED <<pending, breedingLog>>
      BY <1>0, <3>2
    <3>3. ASSUME NEW m \in pending[call.node], pending' = [pending EXCEPT ![call.node] = @ \ {m}],
                 \/ breedingLog' = [breedingLog EXCEPT ![call.node] = Append(@, m.payload)]
                 \/ breedingLog' = breedingLog
          PROVE  Gate
      BY <3>1, <3>3 DEF CallTypeOK
    <3> QED
      BY <1>7, <3>2, <3>3 DEF EndRound, EndViewChange
  <2>3. call' \in Call /\ call'.at = 1 /\ call'.op = "idle" /\ call'.stage = "none"
        /\ call'.todo = <<>> /\ call'.out = <<>>
    BY <2>1, IdleType DEF Idle
  <2>4. CallTypeOK'
    BY <2>1, <2>2, <2>3, ConstantsAssumption DEF CallTypeOK, RoundStages, ViewStages
  <2> QED
    BY <2>3, <2>4 DEF InTransit
<1>8. ASSUME \/ RequestRefused \/ (\E n \in Node : ProposalRefused(n)) \/ ClearFaults
             \/ (\E n \in Node : SetByzantine(n) \/ SetPartitioned(n)) \/ UNCHANGED allVars
      PROVE  RouterInv'
  <2>1. call' = call /\ UNCHANGED vars /\ Faults /\ Gate
    BY <1>0, <1>8 DEF RequestRefused, ProposalRefused, ClearFaults, SetByzantine, SetPartitioned,
                      allVars, netVars, CallTypeOK
  <2>2. CallTypeOK'
    BY <2>1 DEF CallTypeOK
  <2>3. InTransit'
    BY <2>1 DEF InTransit, RoundSlot, vars
  <2> QED
    BY <2>2, <2>3
<1> QED
  BY <1>1, <1>2, <1>3, <1>4, <1>5, <1>6, <1>7, <1>8 DEF NetNext, CallStep

-----------------------------------------------------------------------------
(* What is still to be handed to a replica.                                *)

\* The dictionary holds each replica once.
LEMMA PositionUnique == \A i, j \in 1 .. N : NodeOrder[i] = NodeOrder[j] => i = j
<1>1. IsFiniteSet(1 .. N) /\ Cardinality(1 .. N) = N
  BY ConstantsAssumption, FS_Interval
<1>2. NodeOrder \in Surjection(1 .. N, Node)
  BY NodeOrderAssumption DEF Surjection
<1>3. NodeOrder \in Injection(1 .. N, Node)
  BY <1>1, <1>2, NodeFinite, FS_SurjSameCardinalityImpliesInj
<1> QED
  BY <1>3 DEF Injection, IsInjective

\* A phase begins with all of its messages to be handed to every replica, and
\* ends with none.
LEMMA AwaitedAll ==
    ASSUME call.at = 1, NEW n \in Node
    PROVE  Awaited(n) = {call.todo[i] : i \in DOMAIN call.todo}
<1>1. \E k \in call.at .. N : NodeOrder[k] = n
  BY NodeOrderAssumption
<1> QED
  BY <1>1 DEF Awaited

\* Nothing is awaited of a phase without messages.
LEMMA AwaitedNone == call.todo = <<>> => \A n \in Node : Awaited(n) = {}
BY DEF Awaited

\* A delivery strikes the message off the list of its target, and off no other.
LEMMA AwaitedStep ==
    ASSUME CallTypeOK, Deliver, NEW n \in Node, n = NodeOrder[call.at]
    PROVE  /\ \A k \in Node \ {n} : Awaited(k)' = Awaited(k)
           /\ Awaited(n) = Awaited(n)' \cup {call.todo[1]}
           /\ Awaited(n)' = {call.todo[i] : i \in 2 .. Len(call.todo)}
<1> DEFINE Later(at, k) == \E j \in at .. N : NodeOrder[j] = k
<1>0. /\ call.at \in 1 .. N /\ n \in Node /\ call.todo # <<>> /\ N \in Nat
      /\ \/ call.at < N /\ call'.at = call.at + 1 /\ call'.todo = call.todo
         \/ call.at = N /\ call'.at = 1 /\ call'.todo = Tail(call.todo)
  BY DeliverShape, ConstantsAssumption
<1>1. call.todo \in Seq(Message)
  BY DEF CallTypeOK, Call
<1> DEFINE L == Len(call.todo)
<1>2. L \in Nat \ {0} /\ DOMAIN call.todo = 1 .. L
  BY <1>0, <1>1
<1>3. \A k : Awaited(k) = {call.todo[i] : i \in {j \in 1 .. L : j = 1 => Later(call.at, k)}}
  BY <1>2 DEF Awaited
<1>4. Later(call.at, n)
  BY <1>0
<1>5. ASSUME NEW k \in Node
      PROVE  Awaited(k)' = {call.todo[i] : i \in {j \in 1 .. L : j = 1 => k # n /\ Later(call.at, k)}}
  <2>1. CASE call.at < N /\ call'.at = call.at + 1 /\ call'.todo = call.todo
    <3>1. Later(call.at + 1, k) <=> k # n /\ Later(call.at, k)
      <4>1. ASSUME NEW j \in call.at + 1 .. N PROVE NodeOrder[j] # n /\ j \in call.at .. N
        BY <1>0, <4>1, PositionUnique
      <4>2. ASSUME NEW j \in call.at .. N, NodeOrder[j] # n PROVE j \in call.at + 1 .. N
        BY <1>0, <4>2
      <4> QED
        BY <4>1, <4>2
    <3>2. Awaited(k)' = {call'.todo[i] : i \in {j \in DOMAIN call'.todo : j = 1 => Later(call'.at, k)}}
      BY DEF Awaited
    <3> HIDE DEF Later
    <3> QED
      BY <1>2, <2>1, <3>1, <3>2
  <2>2. CASE call.at = N /\ call'.at = 1 /\ call'.todo = Tail(call.todo)
    <3>1. Awaited(k)' = {call'.todo[i] : i \in {j \in DOMAIN call'.todo : j = 1 => Later(call'.at, k)}}
      BY DEF Awaited
    <3>2. Later(1, k)
      BY NodeOrderAssumption
    <3>3. k # n => ~Later(call.at, k)
      BY <1>0, <2>2
    <3>4. DOMAIN call'.todo = 1 .. L - 1 /\ \A i \in 1 .. L - 1 : call'.todo[i] = call.todo[i + 1]
      BY <1>0, <1>1, <2>2
    <3> HIDE DEF Later
    <3>5. Awaited(k)' = {call'.todo[i] : i \in 1 .. L - 1}
      BY <2>2, <3>1, <3>2, <3>4
    <3>6. {call'.todo[i] : i \in 1 .. L - 1} = {call.todo[i] : i \in 2 .. L}
      <4>1. ASSUME NEW i \in 1 .. L - 1 PROVE call'.todo[i] \in {call.todo[j] : j \in 2 .. L}
        BY <1>2, <3>4
      <4>2. ASSUME NEW i \in 2 .. L PROVE call.todo[i] \in {call'.todo[j] : j \in 1 .. L - 1}
        <5>1. i - 1 \in 1 .. L - 1 /\ call'.todo[i - 1] = call.todo[i]
          BY <1>2, <3>4
        <5> QED
          BY <5>1
      <4> QED
        BY <4>1, <4>2
    <3> QED
      <4>1. {j \in 1 .. L : j = 1 => k # n /\ Later(call.at, k)} = 2 .. L
        BY <1>2, <3>3
      <4> QED
        BY <3>5, <3>6, <4>1
  <2> QED
    BY <1>0, <2>1, <2>2
<1> HIDE DEF Later, L
<1>6. {j \in 1 .. L : j = 1 => n # n /\ Later(call.at, n)} = 2 .. L
  BY <1>2
<1>7. {j \in 1 .. L : j = 1 => Later(call.at, n)} = (2 .. L) \cup {1}
  BY <1>2, <1>4
<1>8. Awaited(n)' = {call.todo[i] : i \in 2 .. L}
  BY <1>5, <1>6
<1>9. Awaited(n) = {call.todo[i] : i \in (2 .. L) \cup {1}}
  BY <1>3, <1>7
<1>10. \A k \in Node \ {n} : Awaited(k)' = Awaited(k)
  BY <1>3, <1>5
<1> QED
  <2>1. {call.todo[i] : i \in (2 .. L) \cup {1}} = {call.todo[i] : i \in 2 .. L} \cup {call.todo[1]}
    OBVIOUS
  <2> QED
    BY <1>8, <1>9, <1>10, <2>1 DEF L

-----------------------------------------------------------------------------
(* View changes.                                                           *)

\* No step lets a replica have voted for a view that it has not reached.
LEMMA VotesReachedNext == TypeOK /\ VotesReached /\ [Next]_vars => VotesReached'
<1> SUFFICES ASSUME TypeOK, VotesReached, [Next]_vars,
                    NEW m \in net', m.phase = "VIEW_CHANGE"
             PROVE  m.view <= view'[m.node]
  BY DEF VotesReached
<1>0. net \subseteq Message /\ view \in [Node -> Int] /\ view' \in [Node -> Int]
  <2>1. TypeOK'
    BY NextType
  <2>2. View \subseteq Int
    BY ConstantsAssumption DEF View
  <2> QED
    BY <2>1, <2>2 DEF TypeOK
<1>1. CASE m \in net
  <2>1. m.node \in Node /\ m.view \in Int /\ m.view <= view[m.node]
    BY <1>0, <1>1, ConstantsAssumption DEF Message, View, VotesReached
  <2> QED
    BY <1>0, <2>1, ViewsGrow
<1>2. CASE m \notin net
  <2>1. PICK n \in Node : StartViewChange(n) /\ m = ViewChange(n)
    <3>1. ASSUME NEW n \in Node, NEW p \in Payload, HandleRequest(n, p) PROVE FALSE
      BY <1>2, <3>1 DEF HandleRequest, Proposal
    <3>2. ASSUME NEW n \in Node, NEW q \in net, Handle(n, q) PROVE FALSE
      <4>1. m \in Response(n, q)
        BY <1>0, <1>2, <3>2, HandleShape
      <4> QED
        BY <1>0, <4>1, ResponseGuards
    <3> QED
      BY <1>2, <3>1, <3>2 DEF Next, vars, StartViewChange
  <2> QED
    BY <1>0, <2>1 DEF StartViewChange, ViewChange
<1> QED
  BY <1>1, <1>2

\* Every step keeps the votes of a view change apart.
LEMMA OneVoteEachNext ==
    RouterInv /\ OneVoteEach /\ [NetNext]_allVars => OneVoteEach'
<1> SUFFICES ASSUME RouterInv, OneVoteEach, [NetNext]_allVars PROVE OneVoteEach'
  OBVIOUS
<1>0. call \in Call /\ call.out \in Seq(Message) /\ call.todo \in Seq(Message)
  BY DEF RouterInv, CallTypeOK, Call
<1>1. CASE call'.stage \notin {"START", "VIEW_CHANGE"}
  BY <1>1 DEF OneVoteEach
<1>2. CASE RunViewChange
  BY <1>2 DEF RunViewChange, Broadcast, OneVoteEach
<1>3. CASE StartNext
  <2>1. call.at \in 1 .. N /\ call.stage = "START"
    BY <1>0, <1>3, ConstantsAssumption DEF StartNext, Call
  <2>2. PICK n \in Node : n = NodeOrder[call.at]
    BY <2>1, NodeOrderAssumption
  <2>3. /\ call'.stage = "START" /\ call'.at = call.at + 1
        /\ call'.out = call.out \/ call'.out = Append(call.out, ViewChange(n))
    BY <1>0, <1>3, <2>1, <2>2 DEF StartNext, Call
  <2>4. ViewChange(n).node = n
    BY DEF ViewChange
  <2>5. \A i \in DOMAIN call.out : \E k \in 1 .. call.at - 1 : NodeOrder[k] = call.out[i].node
    BY <2>1 DEF OneVoteEach
  <2>6. \A i \in DOMAIN call.out : call.out[i].node # n
    BY <2>1, <2>2, <2>5, PositionUnique, ConstantsAssumption
  <2>7. \A i \in DOMAIN call'.out :
           \/ i \in DOMAIN call.out /\ call'.out[i] = call.out[i]
           \/ i = Len(call.out) + 1 /\ call'.out[i].node = n
    <3>1. CASE call'.out = call.out
      BY <3>1
    <3>2. CASE call'.out = Append(call.out, ViewChange(n))
      <4> DEFINE r == ViewChange(n)
      <4> HIDE DEF r
      <4>1. call'.out = Append(call.out, r) /\ r.node = n
        BY <2>4, <3>2 DEF r
      <4> QED
        BY <1>0, <4>1
    <3> QED
      BY <2>3, <3>1, <3>2
  <2>8. ASSUME NEW i \in DOMAIN call'.out
        PROVE  \E k \in 1 .. call'.at - 1 : NodeOrder[k] = call'.out[i].node
    <3>1. 1 .. call'.at - 1 = (1 .. call.at - 1) \cup {call.at}
      BY <2>1, <2>3
    <3> QED
      BY <2>2, <2>5, <2>7, <2>8, <3>1
  <2>9. ASSUME NEW i \in DOMAIN call'.out, NEW j \in DOMAIN call'.out,
               call'.out[i].node = call'.out[j].node
        PROVE  i = j
    BY <2>1, <2>6, <2>7, <2>9 DEF OneVoteEach
  <2> QED
    BY <2>3, <2>8, <2>9 DEF OneVoteEach
<1>4. CASE Deliver
  <2>1. /\ call'.stage = call.stage /\ call.stage # "START"
        /\ call'.todo = call.todo \/ (call.todo # <<>> /\ call'.todo = Tail(call.todo))
    <3>1. CallTypeOK
      BY DEF RouterInv
    <3>2. PICK n \in Node, m \in Message :
             /\ call.stage \notin {"none", "START"} /\ call'.stage = call.stage /\ call.todo # <<>>
             /\ call'.todo = call.todo \/ call'.todo = Tail(call.todo)
      BY <1>4, <3>1, DeliverShape
    <3> QED
      BY <3>2
  <2>2. CASE call'.todo = call.todo
    BY <2>1, <2>2 DEF OneVoteEach
  <2>3. CASE call.todo # <<>> /\ call'.todo = Tail(call.todo) /\ call.stage = "VIEW_CHANGE"
    <3>1. \A i \in DOMAIN call'.todo : i \in Int /\ i + 1 \in DOMAIN call.todo /\ call'.todo[i] = call.todo[i + 1]
      BY <1>0, <2>3
    <3>2. ASSUME NEW i \in DOMAIN call'.todo, NEW j \in DOMAIN call'.todo,
                 call'.todo[i].node = call'.todo[j].node
          PROVE  i = j
      <4>1. i + 1 = j + 1
        BY <2>3, <3>1, <3>2 DEF OneVoteEach
      <4> QED
        BY <3>1, <4>1
    <3> QED
      BY <2>1, <3>2 DEF OneVoteEach
  <2> QED
    BY <1>1, <2>1, <2>2, <2>3
<1>5. CASE NextPhase
  <2>1. CASE call.stage = "START"
    <3>1. call'.stage = "VIEW_CHANGE" /\ call'.todo = call.out
      BY <1>5, <2>1 DEF NextPhase, Broadcast
    <3> QED
      BY <2>1, <3>1 DEF OneVoteEach
  <2>2. CASE call.stage # "START"
    <3>1. call'.stage \in {"PREPARE", "COMMIT", "NEW_VIEW"}
      BY <1>5, <2>2 DEF NextPhase, Broadcast
    <3> QED
      BY <1>1, <3>1
  <2> QED
    BY <2>1, <2>2
<1>6. CASE \/ (\E p \in Payload : BroadcastRequest(p))
           \/ (\E n \in Node, p \in Payload : ProposeParents(n, p))
           \/ EndRound \/ EndViewChange
  BY <1>1, <1>6 DEF BroadcastRequest, ProposeParents, EndRound, EndViewChange, Broadcast, Idle
<1>7. CASE call' = call
  BY <1>7 DEF OneVoteEach
<1> QED
  BY <1>2, <1>3, <1>4, <1>5, <1>6, <1>7
  DEF NetNext, CallStep, RequestRefused, ProposalRefused, ClearFaults, SetByzantine,
      SetPartitioned, allVars, netVars

\* A set of replicas that properly holds another has at least one more.
LEMMA OneMoreNode ==
    ASSUME NEW T \in SUBSET Node, NEW S \in SUBSET T, NEW x \in T \ S
    PROVE  Cardinality(S) + 1 <= Cardinality(T)
<1>1. IsFiniteSet(S) /\ S \cup {x} \in SUBSET T /\ T \in SUBSET Node
  BY NodeFinite, FS_Subset
<1>2. Cardinality(S \cup {x}) = Cardinality(S) + 1
  BY <1>1, FS_AddElement
<1> QED
  BY <1>1, <1>2, MoreNodes

\* The bound on the votes counted for v is kept by a step that counts one more
\* vote only when one more voter is counted or the primary has just voted.
LEMMA BoundKept ==
    ASSUME TypeOK, TypeOK', VotesCounted, NEW v \in View,
           Counted(v) \subseteq Counted(v)', Supporters(v) \subseteq Supporters(v)',
           \/ viewChangeLog'[v] = viewChangeLog[v]
           \/ /\ viewChangeLog'[v] <= viewChangeLog[v] + 1
              /\ \/ Counted(v)' # Counted(v)
                 \/ Primary(v) \in Supporters(v)' \ Supporters(v)
    PROVE  viewChangeLog'[v] <= Cardinality(Counted(v)') +
                                   (IF Primary(v) \in Supporters(v)' THEN 1 ELSE 0)
<1>1. viewChangeLog[v] \in Nat /\ viewChangeLog'[v] \in Nat
  BY QuorumIsNat DEF TypeOK
<1>2. Counted(v) \in SUBSET Node /\ Counted(v)' \in SUBSET Node
  BY DEF Counted, Supporters
<1>3. /\ Cardinality(Counted(v)) \in Nat /\ Cardinality(Counted(v)') \in Nat
      /\ Cardinality(Counted(v)) <= Cardinality(Counted(v)')
  BY <1>2, MoreNodes
<1>4. viewChangeLog[v] <= Cardinality(Counted(v)) +
                             (IF Primary(v) \in Supporters(v) THEN 1 ELSE 0)
  BY DEF VotesCounted
<1>5. CASE viewChangeLog'[v] = viewChangeLog[v]
  BY <1>1, <1>3, <1>4, <1>5
<1>6. CASE viewChangeLog'[v] <= viewChangeLog[v] + 1 /\ Counted(v)' # Counted(v)
  <2>1. PICK x \in Counted(v)' : x \notin Counted(v)
    BY <1>6
  <2>2. Cardinality(Counted(v)) + 1 <= Cardinality(Counted(v)')
    BY <1>2, <2>1, OneMoreNode
  <2> QED
    BY <1>1, <1>3, <1>4, <1>6, <2>2
<1>7. CASE viewChangeLog'[v] <= viewChangeLog[v] + 1 /\ Primary(v) \in Supporters(v)' \ Supporters(v)
  BY <1>1, <1>3, <1>4, <1>7
<1> QED
  BY <1>5, <1>6, <1>7

\* A VIEW-CHANGE delivered is counted once, by the primary of its view.
LEMMA VoteDelivered ==
    ASSUME TypeOK, TypeOK', RouterInv, VotesCounted, OneVoteEach,
           Deliver, call.stage = "VIEW_CHANGE", NEW v \in View
    PROVE  /\ Counted(v) \subseteq Counted(v)' /\ Supporters(v) \subseteq Supporters(v)'
           /\ \/ viewChangeLog'[v] = viewChangeLog[v]
              \/ viewChangeLog'[v] <= viewChangeLog[v] + 1 /\ Counted(v)' # Counted(v)
<1> USE DEF RouterInv
<1>1. PICK n \in Node, m \in Message :
         /\ n = NodeOrder[call.at] /\ m = call.todo[1] /\ call.todo # <<>>
         /\ call'.stage = call.stage
         /\ Handle(n, m) \/ UNCHANGED vars
  BY DeliverShape
<1>2. m \in net /\ m.phase = "VIEW_CHANGE"
  BY <1>1, HeadInTransit
<1>3. net \subseteq net' /\ \A r \in net' \ net : r.phase # "VIEW_CHANGE"
  <2>1. CASE Handle(n, m)
    BY <2>1, HandleShape, ResponseGuards
  <2>2. CASE UNCHANGED vars
    BY <2>2 DEF vars
  <2> QED
    BY <1>1, <2>1, <2>2
<1>4. Supporters(v)' = Supporters(v)
  BY <1>3 DEF Supporters
<1>5. Primary(v) \in Node
  BY PrimaryIsNode, ConstantsAssumption DEF View
<1>6. Awaited(Primary(v))' \subseteq Awaited(Primary(v))
  BY <1>1, <1>5, AwaitedStep
<1>7. Awaited(Primary(v)) \subseteq net
  BY DEF Awaited, InTransit
<1>8. Undelivered(v)' = {q \in Awaited(Primary(v))' : q.view = v}
      /\ Undelivered(v) = {q \in Awaited(Primary(v)) : q.view = v}
  BY <1>1, <1>3, <1>6, <1>7 DEF Undelivered, Primary
<1>9. Counted(v) \subseteq Counted(v)'
  BY <1>4, <1>6, <1>8 DEF Counted
<1>10. CASE Handle(n, m) /\ n = Primary(v) /\ m.view = v
  <2>1. viewChangeLog' = [viewChangeLog EXCEPT ![v] = Appended(viewChangeLog[v])]
    BY <1>2, <1>10 DEF Handle, HandlePrePrepare, HandlePrepare, HandleCommit, HandleViewChange,
                       HandleNewView
  <2>2. viewChangeLog'[v] <= viewChangeLog[v] + 1
    BY <2>1, QuorumIsNat DEF Appended, TypeOK
  <2>3. m \in Undelivered(v) /\ m.node \in Supporters(v)
    <3>1. m.node \in Node
      BY DEF Message
    <3> QED
      BY <1>1, <1>2, <1>8, <1>10, <3>1, AwaitedStep DEF Supporters
  <2>4. \A q \in Undelivered(v)' : q.node # m.node
    <3>1. Awaited(Primary(v))' = {call.todo[i] : i \in 2 .. Len(call.todo)}
      BY <1>1, <1>10, AwaitedStep
    <3>2. call.todo \in Seq(Message)
      BY DEF CallTypeOK, Call
    <3>3. \A i \in 2 .. Len(call.todo) : call.todo[i].node # call.todo[1].node
      BY <3>2 DEF OneVoteEach
    <3> QED
      BY <1>1, <1>8, <3>1, <3>3
  <2>5. m.node \in Counted(v)' /\ m.node \notin Counted(v)
    BY <1>4, <2>3, <2>4 DEF Counted
  <2> QED
    BY <1>4, <1>9, <2>2, <2>5
<1>11. CASE ~(Handle(n, m) /\ n = Primary(v) /\ m.view = v)
  <2>1. viewChangeLog'[v] = viewChangeLog[v]
    <3>1. CASE Handle(n, m)
      <4>1. viewChangeLog' = IF n = Primary(m.view)
                             THEN [viewChangeLog EXCEPT ![m.view] = Appended(@)]
                             ELSE viewChangeLog
        BY <1>2, <3>1 DEF Handle, HandlePrePrepare, HandlePrepare, HandleCommit,
                          HandleViewChange, HandleNewView
      <4> QED
        BY <1>11, <3>1, <4>1 DEF TypeOK
    <3>2. CASE UNCHANGED vars
      BY <3>2 DEF vars
    <3> QED
      BY <1>1, <3>1, <3>2
  <2> QED
    BY <1>4, <1>9, <2>1
<1> QED
  BY <1>10, <1>11

\* A VIEW-CHANGE sent is undelivered, and the primary counts its own at once.
LEMMA VoteSent ==
    ASSUME TypeOK, TypeOK', RouterInv, VotesReached, StartNext, NEW v \in View
    PROVE  /\ Counted(v) \subseteq Counted(v)' /\ Supporters(v) \subseteq Supporters(v)'
           /\ \/ viewChangeLog'[v] = viewChangeLog[v]
              \/ /\ viewChangeLog'[v] <= viewChangeLog[v] + 1
                 /\ Primary(v) \in Supporters(v)' \ Supporters(v)
<1>1. call.stage = "START" /\ call.at \in 1 .. N /\ call \in Call /\ call.out \in Seq(Message)
      /\ call'.stage = "START"
  <2>1. call.stage = "START" /\ call.at \in 1 .. N /\ call \in Call
    BY ConstantsAssumption DEF StartNext, RouterInv, CallTypeOK, Call
  <2> QED
    BY <2>1 DEF StartNext, Call
<1>2. PICK n \in Node : n = NodeOrder[call.at]
  BY <1>1, NodeOrderAssumption
<1>3. CASE StartViewChange(n) /\ call' = [call EXCEPT !.at = @ + 1, !.out = Append(@, ViewChange(n))]
  <2> DEFINE r == ViewChange(n)
  <2>1. /\ r \in Message /\ r.phase = "VIEW_CHANGE" /\ r.view = view[n] + 1 /\ r.node = n
        /\ view[n] + 1 \in View /\ view[n] \in Int
    BY <1>3, ViewChangeType, ConstantsAssumption DEF StartViewChange, ViewChange, TypeOK, View
  <2>2. net' = net \cup {r}
    BY <1>3 DEF StartViewChange
  <2>3. call'.out = Append(call.out, r)
    BY <1>1, <1>3 DEF Call
  <2> HIDE DEF r
  <2>4. \A q : (\E i \in DOMAIN call'.out : q = call'.out[i])
                  => q = r \/ \E i \in DOMAIN call.out : q = call.out[i]
    BY <1>1, <2>1, <2>3
  <2>5. Undelivered(v)' \subseteq Undelivered(v) \cup {r}
    BY <1>1, <2>2, <2>4 DEF Undelivered
  <2>6. r.view = v => n \notin Supporters(v)
    BY <2>1 DEF Supporters, VotesReached
  <2>7. Supporters(v)' = Supporters(v) \cup (IF r.view = v THEN {n} ELSE {})
    BY <2>1, <2>2 DEF Supporters
  <2>8. Counted(v) \subseteq Counted(v)'
    <3>1. CASE r.view = v
      BY <2>1, <2>5, <2>6, <2>7, <3>1 DEF Counted
    <3>2. CASE r.view # v
      <4>1. Undelivered(v)' \subseteq Undelivered(v)
        BY <2>5, <3>2 DEF Undelivered
      <4> QED
        BY <2>7, <3>2, <4>1 DEF Counted
    <3> QED
      BY <3>1, <3>2
  <2>9. \/ viewChangeLog'[v] = viewChangeLog[v]
        \/ viewChangeLog'[v] <= viewChangeLog[v] + 1 /\ v = r.view /\ n = Primary(v)
    <3>1. viewChangeLog' = IF n = Primary(view[n] + 1)
                           THEN [viewChangeLog EXCEPT ![view[n] + 1] = Appended(@)]
                           ELSE viewChangeLog
      BY <1>3 DEF StartViewChange
    <3>2. Appended(viewChangeLog[v]) <= viewChangeLog[v] + 1
      BY QuorumIsNat DEF Appended, TypeOK
    <3> QED
      BY <2>1, <3>1, <3>2 DEF TypeOK
  <2> QED
    BY <2>6, <2>7, <2>8, <2>9
<1>4. CASE UNCHANGED vars /\ call' = [call EXCEPT !.at = @ + 1]
  <2>1. call'.out = call.out /\ UNCHANGED <<net, viewChangeLog>>
    BY <1>1, <1>4 DEF Call, vars
  <2> QED
    BY <1>1, <2>1 DEF Counted, Undelivered, Supporters
<1> QED
  BY <1>2, <1>3, <1>4 DEF StartNext

\* Every step keeps the bound on the votes counted for each view.
LEMMA VotesCountedNext ==
    TypeOK /\ RouterInv /\ VotesReached /\ OneVoteEach /\ VotesCounted /\ [NetNext]_allVars
        => VotesCounted'
<1> SUFFICES ASSUME TypeOK, RouterInv, VotesReached, OneVoteEach, VotesCounted,
                    [NetNext]_allVars, NEW v \in View
             PROVE  viewChangeLog'[v] <= Cardinality(Counted(v)') +
                                            (IF Primary(v) \in Supporters(v)' THEN 1 ELSE 0)
  BY DEF VotesCounted, Primary, View
<1> DEFINE Kept ==
      /\ Counted(v) \subseteq Counted(v)' /\ Supporters(v) \subseteq Supporters(v)'
      /\ viewChangeLog'[v] = viewChangeLog[v]
<1>1. TypeOK' /\ [Next]_vars
  BY RouterStep, NextType DEF RouterInv
<1>2. Supporters(v) \subseteq Supporters(v)'
  BY <1>1, LogsGrow DEF Supporters
<1>3. ASSUME viewChangeLog' = viewChangeLog,
             call'.stage \notin {"START", "VIEW_CHANGE"} \/ (call'.todo = <<>> /\ call'.out = <<>>)
      PROVE  Kept
  <2>1. call'.todo = <<>> => Awaited(Primary(v))' = {}
    BY DEF Awaited
  <2>2. Undelivered(v)' = {}
    BY <1>3, <2>1 DEF Undelivered
  <2> QED
    BY <1>2, <1>3, <2>2 DEF Counted
<1>4. CASE StartNext
  BY <1>1, <1>4, VoteSent, BoundKept
<1>5. CASE Deliver
  <2>1. CASE call.stage = "VIEW_CHANGE"
    BY <1>1, <1>5, <2>1, VoteDelivered, BoundKept
  <2>2. CASE call.stage # "VIEW_CHANGE"
    <3>1. PICK n \in Node, m \in Message :
             /\ m = call.todo[1] /\ call.todo # <<>> /\ call'.stage = call.stage
             /\ call.stage # "START"
             /\ Handle(n, m) \/ UNCHANGED vars
      BY <1>5, DeliverShape DEF RouterInv
    <3>2. m.phase # "VIEW_CHANGE"
      BY <2>2, <3>1, HeadInTransit DEF RouterInv
    <3>3. viewChangeLog' = viewChangeLog
      BY <3>1, <3>2 DEF Handle, HandlePrePrepare, HandlePrepare, HandleCommit, HandleViewChange,
                        HandleNewView, viewVars, vars
    <3> QED
      BY <1>1, <1>3, <2>2, <3>1, <3>3, BoundKept
  <2> QED
    BY <2>1, <2>2
<1>6. CASE NextPhase
  <2>1. viewChangeLog' = viewChangeLog /\ net' = net
    BY <1>6 DEF NextPhase, vars
  <2>2. CASE call.stage = "START"
    <3>1. call'.stage = "VIEW_CHANGE" /\ call'.todo = call.out /\ call'.at = 1
      BY <1>6, <2>2 DEF NextPhase, Broadcast
    <3>2. Primary(v) \in Node
      BY PrimaryIsNode, ConstantsAssumption DEF View
    <3>3. Awaited(Primary(v))' = {call'.todo[i] : i \in DOMAIN call'.todo}
      BY <3>1, <3>2, NodeOrderAssumption DEF Awaited, Primary
    <3>4. Undelivered(v)' = Undelivered(v)
      BY <2>1, <2>2, <3>1, <3>3 DEF Undelivered, Primary
    <3> QED
      BY <1>1, <1>2, <2>1, <3>4, BoundKept DEF Counted, Supporters
  <2>3. CASE call.stage # "START"
    <3>1. call'.stage \in {"PREPARE", "COMMIT", "NEW_VIEW"}
      BY <1>6, <2>3 DEF NextPhase, Broadcast
    <3> QED
      BY <1>1, <1>3, <2>1, <3>1, BoundKept
  <2> QED
    BY <2>2, <2>3
<1>7. CASE \/ (\E p \in Payload : BroadcastRequest(p))
           \/ (\E n \in Node, p \in Payload : ProposeParents(n, p))
           \/ RunViewChange \/ EndRound \/ EndViewChange
  <2>1. viewChangeLog' = viewChangeLog
    BY <1>7 DEF BroadcastRequest, ProposeParents, HandleRequest, RunViewChange, EndRound,
                EndViewChange, viewVars, vars
  <2>2. call'.stage \notin {"START", "VIEW_CHANGE"} \/ (call'.todo = <<>> /\ call'.out = <<>>)
    BY <1>7 DEF BroadcastRequest, ProposeParents, RunViewChange, EndRound, EndViewChange,
                Broadcast, Idle
  <2> QED
    BY <1>1, <1>3, <2>1, <2>2, BoundKept
<1>8. CASE UNCHANGED <<vars, call>>
  <2>1. Kept
    <3>1. net' = net /\ call' = call /\ viewChangeLog' = viewChangeLog
      BY <1>8 DEF vars
    <3>2. Awaited(Primary(v))' = Awaited(Primary(v))
      BY <3>1 DEF Awaited, Primary
    <3>3. Undelivered(v)' = Undelivered(v)
      BY <3>1, <3>2 DEF Undelivered
    <3> QED
      BY <1>2, <3>1, <3>3 DEF Counted, Supporters
  <2> QED
    BY <1>1, <2>1, BoundKept
<1> QED
  BY <1>4, <1>5, <1>6, <1>7, <1>8
  DEF NetNext, CallStep, RequestRefused, ProposalRefused, ClearFaults, SetByzantine,
      SetPartitioned, allVars, netVars

\* A new view is announced on the count, and the count does not exceed the
\* voters by more than the primary's second vote.
LEMMA NewViewSupportNext ==
    TypeOK /\ RouterInv /\ ViewInv /\ [NetNext]_allVars => NewViewSupport'
<1> SUFFICES ASSUME TypeOK, RouterInv, ViewInv, [NetNext]_allVars,
                    NEW m \in net', m.phase = "NEW_VIEW"
             PROVE  Cardinality(Supporters(m.view)') >= Quorum - 1
  BY DEF NewViewSupport, Quorum, F
<1>1. TypeOK' /\ [Next]_vars /\ VotesCounted'
  BY RouterStep, NextType, VotesCountedNext DEF RouterInv, ViewInv
<1>2. \A v \in View : /\ Supporters(v) \in SUBSET Supporters(v)' /\ Supporters(v)' \in SUBSET Node
                      /\ Cardinality(Supporters(v)) \in Nat /\ Cardinality(Supporters(v)') \in Nat
                      /\ Cardinality(Supporters(v)) <= Cardinality(Supporters(v)')
  <2>1. \A v \in View : Supporters(v) \in SUBSET Supporters(v)' /\ Supporters(v)' \in SUBSET Node
    BY <1>1, LogsGrow DEF Supporters
  <2> QED
    BY <2>1, MoreNodes
<1>3. CASE m \in net
  <2>1. m.view \in View
    BY <1>3 DEF TypeOK, Message
  <2> QED
    BY <1>2, <1>3, <2>1, QuorumIsNat DEF ViewInv, NewViewSupport
<1>4. CASE m \notin net
  <2>1. PICK n \in Node, q \in net : Handle(n, q) /\ m \in Response(n, q)
    BY <1>1, <1>4, NewMessages
  <2>2. /\ q \in Message /\ q.phase = "VIEW_CHANGE" /\ AnnouncesView(n, q) /\ m.view = q.view
    BY <2>1, ResponseGuards DEF TypeOK
  <2>3. m.view \in View
    BY <2>2 DEF Message
  <2>4. viewChangeLog'[m.view] >= Quorum
    <3>1. viewChangeLog' = [viewChangeLog EXCEPT ![m.view] = Appended(viewChangeLog[m.view])]
          /\ Appended(viewChangeLog[m.view]) >= Quorum
      BY <2>1, <2>2 DEF Handle, HandlePrePrepare, HandlePrepare, HandleCommit,
                        HandleViewChange, HandleNewView, AnnouncesView
    <3> QED
      BY <2>3, <3>1 DEF TypeOK
  <2>5. Counted(m.view)' \in SUBSET Supporters(m.view)'
    BY DEF Counted
  <2>6. /\ Cardinality(Counted(m.view)') \in Nat
        /\ Cardinality(Counted(m.view)') <= Cardinality(Supporters(m.view)')
    BY <1>2, <2>3, <2>5, MoreNodes
  <2>7. viewChangeLog'[m.view] <= Cardinality(Counted(m.view)') + 1
    <3>1. viewChangeLog'[m.view] <= Cardinality(Counted(m.view)') +
                                       (IF Primary(m.view) \in Supporters(m.view)' THEN 1 ELSE 0)
      BY <1>1, <2>3 DEF VotesCounted, Primary, View
    <3> QED
      BY <2>3, <2>6, <3>1, <1>1, QuorumIsNat DEF TypeOK
  <2>8. viewChangeLog'[m.view] \in Nat
    BY <1>1, <2>3, QuorumIsNat DEF TypeOK
  <2> QED
    BY <1>2, <2>3, <2>4, <2>6, <2>7, <2>8, QuorumIsNat
<1> QED
  BY <1>3, <1>4

\* Every step keeps what is claimed of view changes.
LEMMA ViewInvNext == TypeOK /\ RouterInv /\ ViewInv /\ [NetNext]_allVars => ViewInv'
BY RouterStep, VotesReachedNext, OneVoteEachNext, VotesCountedNext, NewViewSupportNext
DEF ViewInv, RouterInv

\* A new router keeps calls in order, and has counted no votes.
LEMMA NetInitInv == NetInit => TypeOK /\ RouterInv /\ ViewInv
<1> SUFFICES ASSUME NetInit PROVE TypeOK /\ RouterInv /\ ViewInv
  OBVIOUS
<1>1. TypeOK
  BY InitType DEF NetInit
<1>2. RouterInv
  BY IdleType, ConstantsAssumption
  DEF NetInit, RouterInv, CallTypeOK, InTransit, Idle, RoundStages, ViewStages
<1>3. net = {} /\ viewChangeLog = [v \in View |-> 0] /\ call.stage = "none"
  BY DEF NetInit, Init, Idle
<1>4. VotesCounted
  <2>1. \A v \in View : Supporters(v) = {} /\ Counted(v) = {}
    BY <1>3 DEF Supporters, Counted
  <2> QED
    BY <1>3, <2>1, FS_EmptySet DEF VotesCounted
<1>5. VotesReached /\ OneVoteEach /\ NewViewSupport
  BY <1>3 DEF VotesReached, OneVoteEach, NewViewSupport
<1> QED
  BY <1>1, <1>2, <1>4, <1>5 DEF ViewInv

\* The replicas of the fleet behave as PBFTNode says of replicas over any
\* transport: whatever is proved of those holds of the fleet.
THEOREM FleetRefinesPBFT == NetSpec => RefinesPBFT
<1>1. TypeOK /\ RouterInv /\ [NetNext]_allVars => (TypeOK /\ RouterInv)' /\ [Next]_vars
  BY RouterStep, RouterNext, NextType DEF RouterInv
<1>2. NetInit => Init
  BY DEF NetInit
<1> QED
  BY <1>1, <1>2, NetInitInv, PTL DEF NetSpec, RefinesPBFT, Spec

\* Over the router a new view rests on the votes of at least Quorum - 1 distinct
\* replicas, whatever view changes were begun before and abandoned.
THEOREM NewViewsSupported == NetSpec => []NewViewSupport
<1>1. TypeOK /\ RouterInv /\ ViewInv /\ [NetNext]_allVars => (TypeOK /\ RouterInv /\ ViewInv)'
  BY RouterStep, RouterNext, NextType, ViewInvNext DEF RouterInv
<1>2. ViewInv => NewViewSupport
  BY DEF ViewInv
<1> QED
  BY <1>1, <1>2, NetInitInv, PTL DEF NetSpec

-----------------------------------------------------------------------------
(* Rounds.                                                                 *)

RoundInv == PrePrepareInv /\ PrepareInv /\ CommitInv

\* A slot that a primary is about to number has no votes and no executions.
LEMMA FreshSlot ==
    ASSUME TypeOK, AgreementInv, CertInv, NEW n \in Node, IsPrimary(n), seqNum[n] < MaxSeq,
           NEW s, s = <<view[n], seqNum[n] + 1>>
    PROVE  /\ Senders("PRE_PREPARE", s) = {}
           /\ \A k \in Node : /\ Voters(prepareLog[k], s) = {} /\ Voters(commitLog[k], s) = {}
                              /\ s \notin ExecutedSlots(k)
<1>1. view[n] \in View /\ seqNum[n] \in Int /\ seqNum[n] + 1 \in SeqNum /\ s \in Slots
  BY ConstantsAssumption DEF TypeOK, SeqNum, Slots
<1>2. \A m \in net : m.phase = "PRE_PREPARE" => Slot(m) # s
  <2> SUFFICES ASSUME NEW m \in net, m.phase = "PRE_PREPARE", Slot(m) = s PROVE FALSE
    OBVIOUS
  <2>1. m.view = view[n] /\ m.seq = seqNum[n] + 1
    BY DEF Slot
  <2>2. m.node = n /\ m.seq <= seqNum[m.node]
    BY <2>1 DEF AgreementInv, ProposalsNumbered, IsPrimary
  <2> QED
    BY <1>1, <2>1, <2>2
<1>3. \A m \in net : m.phase \in Votes => Slot(m) # s
  BY <1>2 DEF AgreementInv, VotesProposed
<1>4. \A k \in Node : Voters(prepareLog[k], s) = {} /\ Voters(commitLog[k], s) = {}
  BY <1>1, <1>3 DEF CertInv, VotesSent, Voters, Senders, Sent, Votes
<1>5. \A k \in Node : s \notin ExecutedSlots(k)
  BY <1>4, FS_EmptySet, QuorumIsNat DEF CertInv, ExecutionsBacked
<1> QED
  BY <1>2, <1>4, <1>5 DEF Senders, Sent

\* A round begins with nothing voted.
LEMMA RoundInvStarts ==
    ASSUME TypeOK, RouterInv, AgreementInv, CertInv, NEW n \in Node, NEW p \in Payload,
           HandleRequest(n, p), NEW op \in {"request", "propose"},
           call' = Broadcast(op, n, "PRE_PREPARE", <<Proposal(n, p)>>)
    PROVE  RoundInv'
<1> DEFINE m == Proposal(n, p)
           s == <<view[n], seqNum[n] + 1>>
<1>1. RoundSlot' = s
  BY RoundStarts
<1>2. \A k \in Node : /\ Voters(prepareLog[k], s) = {} /\ Voters(commitLog[k], s) = {}
                      /\ s \notin ExecutedSlots(k)
  <2> HIDE DEF s
  <2>1. IsPrimary(n) /\ seqNum[n] < MaxSeq
    BY DEF HandleRequest
  <2> QED
    BY <2>1, FreshSlot DEF s
<1>3. UNCHANGED <<prepareLog, commitLog, executed>>
  BY DEF HandleRequest
<1>4. /\ call'.stage = "PRE_PREPARE" /\ call'.todo = <<m>> /\ call'.out = <<>> /\ call'.at = 1
      /\ m.node = Primary(m.view) /\ m.digest = Digest(m.payload)
  BY DEF Broadcast, Proposal, HandleRequest, IsPrimary
<1> HIDE DEF m, s
<1>5. Answerers' = {}
  BY <1>4 DEF Answerers
<1>6. \A k \in Node : /\ Voters(prepareLog'[k], RoundSlot') = {} /\ Voters(commitLog'[k], RoundSlot') = {}
                      /\ RoundSlot' \notin ExecutedSlots(k)'
  BY <1>1, <1>2, <1>3 DEF ExecutedSlots
<1>7. \A k \in Node : Awaited(k)' # {}
  <2> SUFFICES ASSUME NEW k \in Node PROVE m \in Awaited(k)'
    OBVIOUS
  <2>1. \E j \in 1 .. N : NodeOrder[j] = k
    BY NodeOrderAssumption
  <2>2. 1 \in DOMAIN call'.todo /\ call'.todo[1] = m
    BY <1>4
  <2> QED
    BY <1>4, <2>1, <2>2 DEF Awaited
<1>8. PrePrepareInv'
  <2>1. \A i \in DOMAIN call'.todo : call'.todo[i] = m
    BY <1>4
  <2>2. \A k \in Ready' : k \in Node
    BY DEF Ready, Reachable
  <2> QED
    BY <1>4, <1>5, <1>6, <1>7, <2>1, <2>2 DEF PrePrepareInv
<1> QED
  BY <1>4, <1>8 DEF RoundInv, PrepareInv, CommitInv

\* A delivery of a round: a replica that takes part handles the message, and is
\* then among the answerers if it returned anything; another one is untouched.
LEMMA RoundDelivery ==
    ASSUME TypeOK, RouterInv, PrePrepareInv, Deliver, call.stage \in RoundStages
    PROVE  \E n \in Node, m \in net :
              /\ m.phase = call.stage /\ Slot(m) = RoundSlot /\ m.node \in Node
              /\ \E i \in DOMAIN call.todo : m = call.todo[i]
              /\ \A i \in DOMAIN call'.todo : \E j \in DOMAIN call.todo : call'.todo[i] = call.todo[j]
              /\ call.todo # <<>>
              /\ RoundSlot' = RoundSlot /\ Ready' = Ready /\ call'.stage = call.stage
              /\ \A k \in Node \ {n} : Awaited(k)' = Awaited(k)
              /\ Awaited(n) = Awaited(n)' \cup {m}
              /\ \/ /\ n \notin Ready /\ UNCHANGED vars
                    /\ Answerers' = Answerers /\ Len(call'.out) = Len(call.out)
                 \/ /\ n \in Ready /\ Handle(n, m)
                    /\ \/ /\ Response(n, m) = {}
                          /\ Answerers' = Answerers /\ Len(call'.out) = Len(call.out)
                       \/ /\ Response(n, m) # {}
                          /\ Answerers' = Answerers \cup {n} /\ Len(call'.out) = Len(call.out) + 1
<1> USE DEF RouterInv
<1>1. PICK n \in Node, m \in Message :
         /\ n = NodeOrder[call.at] /\ m = call.todo[1] /\ call.todo # <<>>
         /\ call'.stage = call.stage /\ call'.node = call.node
         /\ \/ /\ n \in Reachable /\ Handle(n, m)
               /\ \/ Response(n, m) = {} /\ call'.out = call.out
                  \/ \E r \in Response(n, m) : call'.out = Append(call.out, r)
            \/ /\ n \notin Reachable \/ Ignores(n, m)
               /\ UNCHANGED vars /\ call'.out = call.out
  BY DeliverShape
<1>2. /\ m \in net /\ m.phase = call.stage /\ Slot(m) = RoundSlot /\ m.node \in Node
      /\ 1 \in DOMAIN call.todo /\ m = call.todo[1]
  BY <1>1, HeadInTransit DEF Message
<1>3. /\ \A k \in Node \ {n} : Awaited(k)' = Awaited(k)
      /\ Awaited(n) = Awaited(n)' \cup {m}
  BY <1>1, AwaitedStep
<1>4. view' = view /\ seqNum' = seqNum /\ inViewChange' = inViewChange
  BY <1>1, <1>2, HandleShape DEF vars
<1>5. RoundSlot' = RoundSlot /\ Ready' = Ready
  BY <1>1, <1>4 DEF RoundSlot, Ready, Reachable, Deliver
<1>6. Ignores(n, m) <=> inViewChange[n]
  BY <1>1, <1>2 DEF Ignores, RoundStages, PrePrepareInv
<1>7. \A i \in DOMAIN call'.todo : \E j \in DOMAIN call.todo : call'.todo[i] = call.todo[j]
  BY DeliverSequences
<1>8. call.out \in Seq(Message)
  BY DEF CallTypeOK, Call
<1>9. ASSUME NEW r \in Response(n, m), call'.out = Append(call.out, r)
      PROVE  Answerers' = Answerers \cup {n} /\ Len(call'.out) = Len(call.out) + 1
  <2>1. r \in Message /\ r.node = n
    BY AnswerShape
  <2>2. /\ Len(call.out) \in Nat /\ DOMAIN call.out = 1 .. Len(call.out)
        /\ DOMAIN call'.out = (1 .. Len(call.out)) \cup {Len(call.out) + 1}
        /\ \A i \in 1 .. Len(call.out) : call'.out[i] = call.out[i]
        /\ call'.out[Len(call.out) + 1] = r /\ Len(call'.out) = Len(call.out) + 1
    BY <1>8, <1>9, <2>1
  <2> QED
    BY <2>1, <2>2 DEF Answerers
<1>10. call'.out = call.out => Answerers' = Answerers /\ Len(call'.out) = Len(call.out)
  BY DEF Answerers
<1>11. \/ /\ n \notin Ready /\ UNCHANGED vars /\ call'.out = call.out
       \/ /\ n \in Ready /\ Handle(n, m)
          /\ \/ Response(n, m) = {} /\ call'.out = call.out
             \/ \E r \in Response(n, m) : call'.out = Append(call.out, r)
  <2>1. Handle(n, m) => ~Ignores(n, m)
    BY HandleShape
  <2> QED
    BY <1>1, <1>6, <2>1 DEF Ready
<1> QED
  BY <1>1, <1>2, <1>3, <1>5, <1>7, <1>9, <1>10, <1>11

\* What a replica that takes part returns.
LEMMA RoundResponse ==
    ASSUME NEW n \in Node, NEW m \in Message, ~Ignores(n, m)
    PROVE  /\ m.phase = "PRE_PREPARE" => Response(n, m) # {}
           /\ m.phase = "PREPARE" => (Response(n, m) # {} <=> Prepared(n, m))
           /\ m.phase = "COMMIT" => (Response(n, m) # {} <=> Committed(n, m))
BY DEF Response

\* First phase: every replica that takes part accepts the proposal.
LEMMA PrePrepareStep ==
    ASSUME TypeOK, RouterInv, RoundInv, Deliver, call.stage = "PRE_PREPARE"
    PROVE  PrePrepareInv'
<1> USE DEF RoundInv
<1>0. PICK s : s = RoundSlot
  OBVIOUS
<1>1. PICK n \in Node, m \in net :
         /\ m.phase = call.stage /\ Slot(m) = s /\ m.node \in Node
         /\ \A i \in DOMAIN call'.todo : \E j \in DOMAIN call.todo : call'.todo[i] = call.todo[j]
         /\ RoundSlot' = s /\ Ready' = Ready
         /\ \A k \in Node \ {n} : Awaited(k)' = Awaited(k)
         /\ \/ n \notin Ready /\ UNCHANGED vars /\ Answerers' = Answerers
            \/ /\ n \in Ready /\ Handle(n, m)
               /\ \/ Response(n, m) = {} /\ Answerers' = Answerers
                  \/ Response(n, m) # {} /\ Answerers' = Answerers \cup {n}
  BY <1>0, RoundDelivery DEF RoundStages
<1>2. Ready \subseteq Node
  BY DEF Ready, Reachable
<1>3. \A i \in DOMAIN call'.todo :
         /\ call'.todo[i].node = Primary(call'.todo[i].view)
         /\ call'.todo[i].digest = Digest(call'.todo[i].payload)
  BY <1>0, <1>1 DEF PrePrepareInv
<1>4. CASE n \notin Ready /\ UNCHANGED vars /\ Answerers' = Answerers
  <2>1. /\ UNCHANGED <<prePrepareLog, prepareLog, commitLog>>
        /\ \A k \in Node : ExecutedSlots(k)' = ExecutedSlots(k)
    BY <1>4 DEF vars, ExecutedSlots
  <2> QED
    BY <1>0, <1>1, <1>2, <1>3, <1>4, <2>1 DEF PrePrepareInv
<1>5. CASE n \in Ready /\ Handle(n, m)
  <2>1. ~Ignores(n, m) /\ m \in Message
    BY <1>5, HandleShape DEF TypeOK
  <2>2. Answerers' = Answerers \cup {n}
    BY <1>1, <1>5, <2>1, RoundResponse
  <2>3. /\ prePrepareLog' = [prePrepareLog EXCEPT ![n] = @ \cup {s}]
        /\ prepareLog' = [prepareLog EXCEPT ![n] = @ \cup {<<s, n>>}]
        /\ UNCHANGED <<commitLog, executed>>
    BY <1>1, <1>5 DEF Handle, HandlePrePrepare, HandlePrepare, HandleCommit, HandleViewChange,
                      HandleNewView
  <2>4. /\ s \in prePrepareLog'[n] /\ \A k \in Node \ {n} : prePrepareLog'[k] = prePrepareLog[k]
        /\ Voters(prepareLog'[n], s) = Voters(prepareLog[n], s) \cup {n}
        /\ \A k \in Node \ {n} : prepareLog'[k] = prepareLog[k]
        /\ \A k \in Node : ExecutedSlots(k)' = ExecutedSlots(k)
    <3>1. s \in prePrepareLog'[n] /\ \A k \in Node \ {n} : prePrepareLog'[k] = prePrepareLog[k]
      BY <2>3 DEF TypeOK
    <3>2. /\ prepareLog'[n] = prepareLog[n] \cup {<<s, n>>}
          /\ \A k \in Node \ {n} : prepareLog'[k] = prepareLog[k]
      BY <2>3 DEF TypeOK
    <3>3. Voters(prepareLog'[n], s) = Voters(prepareLog[n], s) \cup {n}
      BY <3>2, VotersWith
    <3>4. \A k \in Node : ExecutedSlots(k)' = ExecutedSlots(k)
      <4>1. executed' = executed
        BY <2>3
      <4> QED
        BY <4>1 DEF ExecutedSlots
    <3> QED
      BY <3>1, <3>2, <3>3, <3>4
  <2>5. \A k \in Node : /\ Voters(prepareLog'[k], s) \subseteq Answerers' \cap {k}
                        /\ Voters(commitLog'[k], s) = {}
                        /\ s \notin ExecutedSlots(k)'
    <3>1. ASSUME NEW k \in Node
          PROVE  /\ Voters(prepareLog[k], s) \subseteq Answerers \cap {k}
                 /\ Voters(commitLog[k], s) = {} /\ s \notin ExecutedSlots(k)
      BY <1>0 DEF PrePrepareInv
    <3>2. commitLog' = commitLog
      BY <2>3
    <3> QED
      BY <2>2, <2>4, <3>1, <3>2
  <2>6. Answerers' \subseteq Ready
    BY <1>0, <1>5, <2>2 DEF PrePrepareInv
  <2>7. \A k \in Ready : \/ k \in Answerers' /\ s \in prePrepareLog'[k] /\ k \in Voters(prepareLog'[k], s)
                         \/ Awaited(k)' # {}
    BY <1>0, <1>1, <1>2, <2>2, <2>4 DEF PrePrepareInv
  <2> QED
    BY <1>0, <1>1, <1>3, <2>5, <2>6, <2>7 DEF PrePrepareInv
<1> QED
  BY <1>1, <1>4, <1>5

\* A replica of Ready that awaited r's vote has it now, or awaits it still.
LEMMA AwaitsStep ==
    ASSUME NEW n \in Node, NEW m,
           \A k \in Node \ {n} : Awaited(k)' = Awaited(k),
           Awaited(n) = Awaited(n)' \cup {m}
    PROVE  \A k, r \in Node : AwaitsFrom(k, r) => AwaitsFrom(k, r)' \/ (k = n /\ r = m.node)
BY DEF AwaitsFrom

\* Second phase: a replica commits when a quorum has prepared.
LEMMA PrepareStep ==
    ASSUME TypeOK, RouterInv, RoundInv, Deliver, call.stage = "PREPARE"
    PROVE  PrepareInv'
<1> USE DEF RoundInv
<1>0. PICK s : s = RoundSlot
  OBVIOUS
<1>1. PICK n \in Node, m \in net :
         /\ m.phase = call.stage /\ Slot(m) = s /\ m.node \in Node
         /\ \E i \in DOMAIN call.todo : m = call.todo[i]
         /\ \A i \in DOMAIN call'.todo : \E j \in DOMAIN call.todo : call'.todo[i] = call.todo[j]
         /\ RoundSlot' = s /\ Ready' = Ready
         /\ \A k \in Node \ {n} : Awaited(k)' = Awaited(k)
         /\ Awaited(n) = Awaited(n)' \cup {m}
         /\ \/ n \notin Ready /\ UNCHANGED vars /\ Answerers' = Answerers
            \/ /\ n \in Ready /\ Handle(n, m)
               /\ \/ Response(n, m) = {} /\ Answerers' = Answerers
                  \/ Response(n, m) # {} /\ Answerers' = Answerers \cup {n}
  BY <1>0, RoundDelivery DEF RoundStages
<1>2. Ready \subseteq Node /\ m.node \in Ready
  BY <1>1 DEF Ready, Reachable, PrepareInv
<1>3. \A i \in DOMAIN call'.todo : call'.todo[i].node \in Ready
  BY <1>0, <1>1 DEF PrepareInv
<1>4. \A k, r \in Node : AwaitsFrom(k, r) => AwaitsFrom(k, r)' \/ (k = n /\ r = m.node)
  BY <1>1, AwaitsStep
<1>5. CASE n \notin Ready /\ UNCHANGED vars /\ Answerers' = Answerers
  <2>1. /\ UNCHANGED <<prePrepareLog, prepareLog, commitLog>>
        /\ \A k \in Node : ExecutedSlots(k)' = ExecutedSlots(k)
    BY <1>5 DEF vars, ExecutedSlots
  <2>2. \A k \in Ready, r \in Node : AwaitsFrom(k, r) => AwaitsFrom(k, r)'
    BY <1>2, <1>4, <1>5
  <2> QED
    BY <1>0, <1>1, <1>2, <1>3, <1>5, <2>1, <2>2 DEF PrepareInv
<1>6. CASE n \in Ready /\ Handle(n, m)
  <2>1. ~Ignores(n, m) /\ m \in Message
    BY <1>6, HandleShape DEF TypeOK
  <2>2. /\ prepareLog' = [prepareLog EXCEPT ![n] = @ \cup {<<s, m.node>>}]
        /\ commitLog' = IF Prepared(n, m)
                        THEN [commitLog EXCEPT ![n] = @ \cup {<<s, n>>}]
                        ELSE commitLog
        /\ UNCHANGED <<prePrepareLog, executed>>
    BY <1>1, <1>6 DEF Handle, HandlePrePrepare, HandlePrepare, HandleCommit, HandleViewChange,
                      HandleNewView
  <2>3. /\ Voters(prepareLog'[n], s) = Voters(prepareLog[n], s) \cup {m.node}
        /\ \A k \in Node \ {n} : prepareLog'[k] = prepareLog[k]
        /\ \A k \in Node \ {n} : commitLog'[k] = commitLog[k]
        /\ Prepared(n, m) => Voters(commitLog'[n], s) = Voters(commitLog[n], s) \cup {n}
        /\ ~Prepared(n, m) => commitLog' = commitLog
        /\ \A k \in Node : ExecutedSlots(k)' = ExecutedSlots(k)
    <3>1. /\ prepareLog'[n] = prepareLog[n] \cup {<<s, m.node>>}
          /\ \A k \in Node \ {n} : prepareLog'[k] = prepareLog[k] /\ commitLog'[k] = commitLog[k]
      BY <2>2 DEF TypeOK
    <3>2. Voters(prepareLog'[n], s) = Voters(prepareLog[n], s) \cup {m.node}
      BY <1>1, <3>1, VotersWith
    <3>3. ASSUME Prepared(n, m)
          PROVE  Voters(commitLog'[n], s) = Voters(commitLog[n], s) \cup {n}
      <4>1. commitLog'[n] = commitLog[n] \cup {<<s, n>>}
        BY <2>2, <3>3 DEF TypeOK
      <4> QED
        BY <4>1, VotersWith
    <3>4. ~Prepared(n, m) => commitLog' = commitLog
      BY <2>2
    <3>5. \A k \in Node : ExecutedSlots(k)' = ExecutedSlots(k)
      <4>1. executed' = executed
        BY <2>2
      <4> QED
        BY <4>1 DEF ExecutedSlots
    <3> QED
      BY <3>1, <3>2, <3>3, <3>4, <3>5
  <2>4. Prepared(n, m) <=> Cardinality(Voters(prepareLog'[n], s)) >= Quorum
    BY <1>0, <1>1, <1>6, <2>3 DEF Prepared, PrepareInv
  <2>5. /\ Prepared(n, m) => Answerers' = Answerers \cup {n}
        /\ ~Prepared(n, m) => Answerers' = Answerers
    BY <1>1, <1>6, <2>1, RoundResponse
  <2>6. \A k \in Node : Voters(prepareLog'[k], s) \subseteq Ready
    BY <1>0, <1>2, <2>3 DEF PrepareInv
  <2>7. \A k \in Node : Voters(commitLog'[k], s) \subseteq {k} \cap Answerers' /\ s \notin ExecutedSlots(k)'
    BY <1>0, <2>3, <2>5 DEF PrepareInv
  <2>8. Answerers' \subseteq Ready
    BY <1>0, <1>6, <2>5 DEF PrepareInv
  <2>9. Answerers' # {} => Cardinality(Ready) >= Quorum
    <3>1. CASE Prepared(n, m)
      <4>1. Voters(prepareLog'[n], s) \in SUBSET Ready /\ Ready \in SUBSET Node
        BY <1>2, <2>6
      <4> QED
        BY <2>4, <3>1, <4>1, MoreNodes, QuorumIsNat
    <3>2. CASE ~Prepared(n, m)
      BY <1>0, <2>5, <3>2 DEF PrepareInv
    <3> QED
      BY <3>1, <3>2
  <2>10. ASSUME NEW k \in Ready
         PROVE  /\ s \in prePrepareLog'[k]
                /\ \A r \in Ready : r \in Voters(prepareLog'[k], s) \/ AwaitsFrom(k, r)'
                /\ \/ k \in Answerers'
                   \/ Cardinality(Voters(prepareLog'[k], s)) < Quorum
                   \/ AwaitsFrom(k, k)'
    <3>1. s \in prePrepareLog'[k]
      BY <1>0, <2>2 DEF PrepareInv
    <3>2. ASSUME NEW r \in Ready PROVE r \in Voters(prepareLog'[k], s) \/ AwaitsFrom(k, r)'
      BY <1>0, <1>2, <1>4, <2>3 DEF PrepareInv
    <3>3. CASE k = n
      <4>1. Cardinality(Voters(prepareLog'[n], s)) \in Nat
        BY <1>2, <2>6, MoreNodes
      <4> QED
        BY <2>4, <2>5, <3>1, <3>2, <3>3, <4>1, QuorumIsNat
    <3>4. CASE k # n
      <4>1. prepareLog'[k] = prepareLog[k] /\ (AwaitsFrom(k, k) => AwaitsFrom(k, k)')
        BY <1>2, <1>4, <2>3, <3>4
      <4>2. Answerers \subseteq Answerers'
        BY <2>5
      <4> QED
        BY <1>0, <3>1, <3>2, <4>1, <4>2 DEF PrepareInv
    <3> QED
      BY <3>3, <3>4
  <2> QED
    BY <1>0, <1>1, <1>3, <2>6, <2>7, <2>8, <2>9, <2>10 DEF PrepareInv
<1> QED
  BY <1>1, <1>5, <1>6

\* handle_commit executes its slot on its replica, if at all.
LEMMA SlotExecuted ==
    ASSUME TypeOK, NEW n \in Node, NEW m \in net, HandleCommit(n, m)
    PROVE  \A k \in Node : ExecutedSlots(k)' = IF k = n /\ Committed(n, m)
                                               THEN ExecutedSlots(k) \cup {Slot(m)}
                                               ELSE ExecutedSlots(k)
<1>1. CASE Committed(n, m)
  <2>1. [Next]_vars
    BY DEF Next, Handle
  <2>2. ASSUME NEW k \in Node \ {n} PROVE ExecutedSlots(k)' = ExecutedSlots(k)
    BY <1>1, ExecutedAppend DEF ExecutedSlots
  <2>3. ExecutedSlots(n)' = ExecutedSlots(n) \cup {Slot(m)}
    <3>1. executed'[n] # executed[n]
      <4>1. Len(executed'[n]) = Len(executed[n]) + 1 /\ Len(executed[n]) \in Nat
        BY <1>1, ExecutedAppend
      <4> QED
        BY <4>1
    <3>2. PICK q \in net : ExecutedSlots(n)' = ExecutedSlots(n) \cup {Slot(q)}
      BY <2>1, <3>1, ExecutedSlotsGrow
    <3>3. Slot(m) \in ExecutedSlots(n)'
      <4>1. /\ executed'[n][Len(executed[n]) + 1].slot = Slot(m)
            /\ Len(executed[n]) + 1 \in DOMAIN executed'[n]
        BY <1>1, ExecutedAppend
      <4> QED
        BY <4>1 DEF ExecutedSlots
    <3>4. Slot(m) \notin ExecutedSlots(n)
      BY <1>1 DEF Committed
    <3> QED
      BY <3>2, <3>3, <3>4
  <2> QED
    BY <1>1, <2>2, <2>3
<1>2. CASE ~Committed(n, m)
  <2>1. executed' = executed
    BY <1>2 DEF HandleCommit
  <2> QED
    BY <1>2, <2>1 DEF ExecutedSlots
<1> QED
  BY <1>1, <1>2

\* Third phase: a replica executes when a quorum has committed, and replies
\* when it does.
LEMMA CommitStep ==
    ASSUME TypeOK, RouterInv, RoundInv, Deliver, call.stage = "COMMIT"
    PROVE  CommitInv'
<1> USE DEF RoundInv
<1>0. PICK s : s = RoundSlot
  OBVIOUS
<1>1. PICK n \in Node, m \in net :
         /\ m.phase = call.stage /\ Slot(m) = s /\ m.node \in Node
         /\ \E i \in DOMAIN call.todo : m = call.todo[i]
         /\ \A i \in DOMAIN call'.todo : \E j \in DOMAIN call.todo : call'.todo[i] = call.todo[j]
         /\ call.todo # <<>>
         /\ RoundSlot' = s /\ Ready' = Ready
         /\ \A k \in Node \ {n} : Awaited(k)' = Awaited(k)
         /\ Awaited(n) = Awaited(n)' \cup {m}
         /\ \/ n \notin Ready /\ UNCHANGED vars /\ Len(call'.out) = Len(call.out)
            \/ /\ n \in Ready /\ Handle(n, m)
               /\ \/ Response(n, m) = {} /\ Len(call'.out) = Len(call.out)
                  \/ Response(n, m) # {} /\ Len(call'.out) = Len(call.out) + 1
  BY <1>0, RoundDelivery DEF RoundStages
<1>2. Ready \in SUBSET Node /\ m.node \in Ready /\ Cardinality(Ready) >= Quorum
  BY <1>1 DEF Ready, Reachable, CommitInv
<1>3. \A i \in DOMAIN call'.todo : call'.todo[i].node \in Ready
  BY <1>1 DEF CommitInv
<1>4. \A k, r \in Node : AwaitsFrom(k, r) => AwaitsFrom(k, r)' \/ (k = n /\ r = m.node)
  BY <1>1, AwaitsStep
<1>5. CASE n \notin Ready /\ UNCHANGED vars /\ Len(call'.out) = Len(call.out)
  <2>1. /\ UNCHANGED <<commitLog, executed>>
        /\ \A k \in Node : ExecutedSlots(k)' = ExecutedSlots(k)
    BY <1>5 DEF vars, ExecutedSlots
  <2>2. \A k \in Ready, r \in Node : AwaitsFrom(k, r) => AwaitsFrom(k, r)'
    BY <1>2, <1>4, <1>5
  <2>3. Deciders(s)' = Deciders(s)
    BY <2>1 DEF Deciders
  <2> QED
    BY <1>0, <1>1, <1>2, <1>3, <1>5, <2>1, <2>2, <2>3 DEF CommitInv
<1>6. CASE n \in Ready /\ Handle(n, m)
  <2>1. ~Ignores(n, m) /\ m \in Message
    BY <1>6, HandleShape DEF TypeOK
  <2>2. HandleCommit(n, m)
    BY <1>1, <1>6 DEF Handle, HandlePrePrepare, HandlePrepare, HandleViewChange, HandleNewView
  <2>3. /\ Voters(commitLog'[n], s) = Voters(commitLog[n], s) \cup {m.node}
        /\ \A k \in Node \ {n} : commitLog'[k] = commitLog[k]
    <3>1. /\ commitLog'[n] = commitLog[n] \cup {<<s, m.node>>}
          /\ \A k \in Node \ {n} : commitLog'[k] = commitLog[k]
      BY <1>1, <2>2 DEF HandleCommit, TypeOK
    <3> QED
      BY <1>1, <3>1, VotersWith
  <2>4. Committed(n, m) <=> /\ Cardinality(Voters(commitLog'[n], s)) >= Quorum
                            /\ s \notin ExecutedSlots(n)
    BY <1>1, <2>3 DEF Committed
  <2>5. Len(call'.out) = IF Committed(n, m) THEN Len(call.out) + 1 ELSE Len(call.out)
    BY <1>1, <1>6, <2>1, RoundResponse
  <2>6. \A k \in Node : ExecutedSlots(k)' = IF k = n /\ Committed(n, m)
                                            THEN ExecutedSlots(k) \cup {s}
                                            ELSE ExecutedSlots(k)
    BY <1>1, <2>2, SlotExecuted
  <2>7. Len(call'.out) = Cardinality(Deciders(s)')
    <3>1. Len(call.out) = Cardinality(Deciders(s)) /\ IsFiniteSet(Deciders(s))
      <4>1. Deciders(s) \in SUBSET Node
        BY DEF Deciders
      <4> QED
        BY <1>0, <4>1, NodeFinite, FS_Subset DEF CommitInv
    <3>2. CASE Committed(n, m)
      <4>1. Deciders(s)' = Deciders(s) \cup {n} /\ n \notin Deciders(s)
        BY <2>4, <2>6, <3>2 DEF Deciders
      <4> QED
        BY <2>5, <3>1, <3>2, <4>1, FS_AddElement
    <3>3. CASE ~Committed(n, m)
      <4>1. Deciders(s)' = Deciders(s)
        BY <2>6, <3>3 DEF Deciders
      <4> QED
        BY <2>5, <3>1, <3>3, <4>1
    <3> QED
      BY <3>2, <3>3
  <2>8. ASSUME NEW k \in Node
        PROVE  /\ Voters(commitLog'[k], s) \subseteq Ready
               /\ s \in ExecutedSlots(k)' => k \in Ready
    <3>1. Voters(commitLog[k], s) \subseteq Ready /\ (s \in ExecutedSlots(k) => k \in Ready)
      BY <1>0 DEF CommitInv
    <3> QED
      BY <1>2, <1>6, <2>3, <2>6, <3>1
  <2>9. ASSUME NEW k \in Ready
        PROVE  /\ \A r \in Ready : r \in Voters(commitLog'[k], s) \/ AwaitsFrom(k, r)'
               /\ \/ s \in ExecutedSlots(k)'
                  \/ Cardinality(Voters(commitLog'[k], s)) < Quorum
                  \/ AwaitsFrom(k, k)'
    <3>1. /\ \A r \in Ready : r \in Voters(commitLog[k], s) \/ AwaitsFrom(k, r)
          /\ \/ s \in ExecutedSlots(k)
             \/ Cardinality(Voters(commitLog[k], s)) < Quorum
             \/ AwaitsFrom(k, k)
      BY <1>0, <1>2 DEF CommitInv
    <3>2. ASSUME NEW r \in Ready PROVE r \in Voters(commitLog'[k], s) \/ AwaitsFrom(k, r)'
      BY <1>2, <1>4, <2>3, <3>1
    <3>3. CASE k = n
      <4>1. Cardinality(Voters(commitLog'[n], s)) \in Nat
        BY <1>2, <2>8, MoreNodes
      <4> QED
        BY <2>4, <2>6, <3>2, <3>3, <4>1, QuorumIsNat
    <3>4. CASE k # n
      <4>1. commitLog'[k] = commitLog[k] /\ (AwaitsFrom(k, k) => AwaitsFrom(k, k)')
        BY <1>2, <1>4, <2>3, <3>4
      <4>2. ExecutedSlots(k)' = ExecutedSlots(k)
        BY <1>2, <2>6, <3>4
      <4> QED
        BY <3>1, <3>2, <4>1, <4>2
    <3> QED
      BY <3>3, <3>4
  <2> QED
    BY <1>1, <1>2, <1>3, <2>7, <2>8, <2>9 DEF CommitInv
<1> QED
  BY <1>1, <1>5, <1>6

\* At the end of the first phase the replicas that take part have prepared.
LEMMA PrepareStarts ==
    ASSUME TypeOK, RouterInv, PrePrepareInv, NextPhase, call.stage = "PRE_PREPARE"
    PROVE  PrepareInv'
<1>0. PICK s : s = RoundSlot
  OBVIOUS
<1>1. /\ call'.stage = "PREPARE" /\ call'.todo = call.out /\ call'.out = <<>> /\ call'.at = 1
      /\ call'.node = call.node /\ call.todo = <<>>
  BY DEF NextPhase, Broadcast
<1>2. UNCHANGED vars /\ Ready' = Ready /\ RoundSlot' = s
  BY <1>0, <1>1 DEF NextPhase, vars, Ready, Reachable, RoundSlot
<1>3. Ready \subseteq Node
  BY DEF Ready, Reachable
<1>4. \A n \in Ready : n \in Answerers /\ s \in prePrepareLog[n] /\ n \in Voters(prepareLog[n], s)
  BY <1>0, <1>1, <1>3, AwaitedNone DEF PrePrepareInv
<1>5. Answerers' = {}
  BY <1>1 DEF Answerers
<1>6. \A i \in DOMAIN call'.todo : call'.todo[i].node \in Ready
  BY <1>1 DEF PrePrepareInv, Answerers
<1>7. \A n, r \in Ready : AwaitsFrom(n, r)'
  <2> SUFFICES ASSUME NEW n \in Ready, NEW r \in Ready PROVE AwaitsFrom(n, r)'
    OBVIOUS
  <2>1. PICK i \in DOMAIN call'.todo : call'.todo[i].node = r
    BY <1>1, <1>4 DEF Answerers
  <2>2. \E k \in 1 .. N : NodeOrder[k] = n
    BY <1>3, NodeOrderAssumption
  <2>3. call'.todo[i] \in Awaited(n)'
    BY <1>1, <2>1, <2>2 DEF Awaited
  <2> QED
    BY <2>1, <2>3 DEF AwaitsFrom
<1>8. \A n \in Node : /\ Voters(prepareLog[n], s) \subseteq Ready
                      /\ Voters(commitLog[n], s) = {} /\ s \notin ExecutedSlots(n)
  BY <1>0 DEF PrePrepareInv
<1>9. /\ UNCHANGED <<prePrepareLog, prepareLog, commitLog>>
      /\ \A k \in Node : ExecutedSlots(k)' = ExecutedSlots(k)
  BY <1>2 DEF vars, ExecutedSlots
<1> QED
  BY <1>1, <1>2, <1>3, <1>4, <1>5, <1>6, <1>7, <1>8, <1>9 DEF PrepareInv

\* At the end of the second phase those have all committed if they are a quorum,
\* and otherwise none has.
LEMMA CommitStarts ==
    ASSUME TypeOK, RouterInv, PrepareInv, NextPhase, call.stage = "PREPARE"
    PROVE  CommitInv'
<1>0. PICK s : s = RoundSlot
  OBVIOUS
<1>1. /\ call'.stage = "COMMIT" /\ call'.todo = call.out /\ call'.out = <<>> /\ call'.at = 1
      /\ call'.node = call.node /\ call.todo = <<>>
  BY DEF NextPhase, Broadcast
<1>2. UNCHANGED vars /\ Ready' = Ready /\ RoundSlot' = s
  BY <1>0, <1>1 DEF NextPhase, vars, Ready, Reachable, RoundSlot
<1>3. Ready \in SUBSET Node
  BY DEF Ready, Reachable
<1>4. \A n, r \in Ready : ~AwaitsFrom(n, r)
  BY <1>1, <1>3, AwaitedNone DEF AwaitsFrom
<1>5. \A i \in DOMAIN call'.todo : call'.todo[i].node \in Ready /\ Cardinality(Ready) >= Quorum
  BY <1>1 DEF PrepareInv, Answerers
<1>6. ASSUME Cardinality(Ready) >= Quorum, NEW n \in Ready, NEW r \in Ready
      PROVE  AwaitsFrom(n, r)'
  <2>1. Voters(prepareLog[r], s) = Ready
    <3>1. \A k \in Ready : k \in Voters(prepareLog[r], s)
      BY <1>0, <1>4 DEF PrepareInv
    <3>2. Voters(prepareLog[r], s) \subseteq Ready
      BY <1>0, <1>3 DEF PrepareInv
    <3> QED
      BY <3>1, <3>2
  <2>2. r \in Answerers
    <3>1. Cardinality(Ready) \in Nat
      BY <1>3, MoreNodes
    <3> QED
      BY <1>0, <1>4, <1>6, <2>1, <3>1, QuorumIsNat DEF PrepareInv
  <2>3. PICK i \in DOMAIN call'.todo : call'.todo[i].node = r
    BY <1>1, <2>2 DEF Answerers
  <2>4. \E k \in 1 .. N : NodeOrder[k] = n
    BY <1>3, NodeOrderAssumption
  <2>5. call'.todo[i] \in Awaited(n)'
    BY <1>1, <2>3, <2>4 DEF Awaited
  <2> QED
    BY <2>3, <2>5 DEF AwaitsFrom
<1>7. \A n \in Node : Voters(commitLog[n], s) \subseteq Ready /\ s \notin ExecutedSlots(n)
  BY <1>0 DEF PrepareInv
<1>8. /\ UNCHANGED commitLog /\ \A k \in Node : ExecutedSlots(k)' = ExecutedSlots(k)
  BY <1>2 DEF vars, ExecutedSlots
<1>9. Len(call'.out) = 0 /\ Cardinality(Deciders(s)') = 0
  <2>1. Deciders(s)' = {}
    BY <1>7, <1>8 DEF Deciders
  <2> QED
    BY <1>1, <2>1, FS_EmptySet
<1>10. call'.todo # <<>> => Cardinality(Ready) >= Quorum
  <2>1. call'.todo \in Seq(Message)
    BY <1>1 DEF RouterInv, CallTypeOK, Call
  <2>2. call'.todo # <<>> => 1 \in DOMAIN call'.todo
    BY <2>1
  <2> QED
    BY <1>5, <2>2
<1> QED
  BY <1>1, <1>2, <1>3, <1>5, <1>6, <1>7, <1>8, <1>9, <1>10 DEF CommitInv

\* Every step keeps what is claimed of the round in progress.
LEMMA RoundInvNext ==
    TypeOK /\ RouterInv /\ AgreementInv /\ CertInv /\ RoundInv /\ [NetNext]_allVars => RoundInv'
<1> SUFFICES ASSUME TypeOK, RouterInv, AgreementInv, CertInv, RoundInv, [NetNext]_allVars
             PROVE  RoundInv'
  OBVIOUS
<1>0. call'.stage \notin RoundStages => RoundInv'
  BY DEF RoundInv, PrePrepareInv, PrepareInv, CommitInv, RoundStages
<1>1. ASSUME NEW p \in Payload, BroadcastRequest(p) PROVE RoundInv'
  <2>1. FirstPrimary \in Node /\ HandleRequest(FirstPrimary, p)
        /\ call' = Broadcast("request", FirstPrimary, "PRE_PREPARE", <<Proposal(FirstPrimary, p)>>)
    BY <1>1, FirstPrimaryIsPrimary DEF BroadcastRequest
  <2> QED
    BY <2>1, RoundInvStarts
<1>2. ASSUME NEW n \in Node, NEW p \in Payload, ProposeParents(n, p) PROVE RoundInv'
  BY <1>2, RoundInvStarts DEF ProposeParents
<1>3. CASE Deliver
  <2>1. call'.stage = call.stage
    <3>1. CallTypeOK
      BY DEF RouterInv
    <3> QED
      BY <1>3, <3>1, DeliverShape
  <2>2. CASE call.stage = "PRE_PREPARE"
    BY <1>3, <2>1, <2>2, PrePrepareStep DEF RoundInv, PrepareInv, CommitInv
  <2>3. CASE call.stage = "PREPARE"
    BY <1>3, <2>1, <2>3, PrepareStep DEF RoundInv, PrePrepareInv, CommitInv
  <2>4. CASE call.stage = "COMMIT"
    BY <1>3, <2>1, <2>4, CommitStep DEF RoundInv, PrePrepareInv, PrepareInv
  <2> QED
    BY <1>0, <2>1, <2>2, <2>3, <2>4 DEF RoundStages
<1>4. CASE NextPhase
  <2>1. CASE call.stage = "PRE_PREPARE"
    <3>1. call'.stage = "PREPARE"
      BY <1>4, <2>1 DEF NextPhase, Broadcast
    <3> QED
      BY <1>4, <2>1, <3>1, PrepareStarts DEF RoundInv, PrePrepareInv, CommitInv
  <2>2. CASE call.stage = "PREPARE"
    <3>1. call'.stage = "COMMIT"
      BY <1>4, <2>2 DEF NextPhase, Broadcast
    <3> QED
      BY <1>4, <2>2, <3>1, CommitStarts DEF RoundInv, PrePrepareInv, PrepareInv
  <2>3. CASE call.stage \in ViewStages
    <3>1. call'.stage \in ViewStages
      BY <1>4, <2>3 DEF NextPhase, Broadcast, ViewStages
    <3> QED
      BY <1>0, <3>1 DEF ViewStages, RoundStages
  <2> QED
    BY <1>4, <2>1, <2>2, <2>3 DEF NextPhase, ViewStages
<1>5. CASE RunViewChange \/ EndRound \/ EndViewChange
  <2>1. call'.stage \in {"START", "none"}
    BY <1>5 DEF RunViewChange, EndRound, EndViewChange, Broadcast, Idle
  <2> QED
    BY <1>0, <2>1 DEF RoundStages
<1>6. CASE StartNext
  <2>1. call'.stage = "START"
    <3>1. call \in Call /\ call.stage = "START"
      BY <1>6 DEF StartNext, RouterInv, CallTypeOK
    <3> QED
      BY <1>6, <3>1 DEF StartNext, Call
  <2> QED
    BY <1>0, <2>1 DEF RoundStages
<1>7. CASE call = Idle /\ call' = call
  BY <1>0, <1>7 DEF Idle, RoundStages
<1>8. CASE UNCHANGED allVars
  <2>1. /\ UNCHANGED <<call, prePrepareLog, prepareLog, commitLog, executed>>
        /\ RoundSlot' = RoundSlot /\ Ready' = Ready /\ Answerers' = Answerers
    BY <1>8 DEF allVars, vars, netVars, RoundSlot, Ready, Reachable, Answerers
  <2>2. \A n \in Node : Awaited(n)' = Awaited(n) /\ ExecutedSlots(n)' = ExecutedSlots(n)
    BY <2>1 DEF Awaited, ExecutedSlots
  <2>3. \A n, r \in Node : AwaitsFrom(n, r)' <=> AwaitsFrom(n, r)
    BY <2>2 DEF AwaitsFrom
  <2>4. Deciders(RoundSlot)' = Deciders(RoundSlot)
    BY <2>1, <2>2 DEF Deciders
  <2>5. Ready \subseteq Node
    BY DEF Ready, Reachable
  <2>6. PrePrepareInv'
    BY <2>1, <2>2, <2>5 DEF RoundInv, PrePrepareInv
  <2>7. PrepareInv'
    BY <2>1, <2>2, <2>3, <2>5 DEF RoundInv, PrepareInv
  <2>8. CommitInv'
    BY <2>1, <2>2, <2>3, <2>4, <2>5 DEF RoundInv, CommitInv
  <2> QED
    BY <2>6, <2>7, <2>8 DEF RoundInv
<1> QED
  BY <1>1, <1>2, <1>3, <1>4, <1>5, <1>6, <1>7, <1>8
  DEF NetNext, CallStep, RequestRefused, ProposalRefused, ClearFaults, SetByzantine,
      SetPartitioned

\* A round that ends has decided its slot on exactly the replicas that took
\* part if those are a quorum, and on none otherwise; the count of replies says
\* which.
LEMMA RoundEnds ==
    ASSUME CommitInv, call.stage = "COMMIT", call.todo = <<>>
    PROVE  \/ /\ Cardinality(Ready) >= Quorum /\ RoundDecided
              /\ \A n \in Node : RoundSlot \in ExecutedSlots(n) <=> n \in Ready
           \/ /\ Cardinality(Ready) < Quorum /\ ~RoundDecided
              /\ \A n \in Node : RoundSlot \notin ExecutedSlots(n)
<1>1. Ready \in SUBSET Node /\ Cardinality(Ready) \in Nat
  <2>1. Ready \in SUBSET Node
    BY DEF Ready, Reachable
  <2> QED
    BY <2>1, MoreNodes
<1>2. \A n, r \in Ready : ~AwaitsFrom(n, r)
  BY <1>1, AwaitedNone DEF AwaitsFrom
<1>3. CASE Cardinality(Ready) >= Quorum
  <2>1. ASSUME NEW n \in Ready PROVE RoundSlot \in ExecutedSlots(n)
    <3>1. \A r \in Ready : r \in Voters(commitLog[n], RoundSlot)
      BY <1>2, <1>3 DEF CommitInv
    <3>2. Voters(commitLog[n], RoundSlot) = Ready
      BY <1>1, <3>1 DEF CommitInv
    <3> QED
      BY <1>1, <1>2, <1>3, <3>2, QuorumIsNat DEF CommitInv
  <2>2. Deciders(RoundSlot) = Ready
    BY <1>1, <2>1 DEF Deciders, CommitInv
  <2>3. RoundDecided
    BY <1>3, <2>2 DEF CommitInv, RoundDecided
  <2> QED
    BY <1>3, <2>2, <2>3 DEF Deciders
<1>4. CASE Cardinality(Ready) < Quorum
  <2>1. \A n \in Node : RoundSlot \notin ExecutedSlots(n)
    BY <1>1, <1>4, QuorumIsNat DEF CommitInv
  <2>2. Deciders(RoundSlot) = {}
    BY <2>1 DEF Deciders
  <2>3. Len(call.out) = 0
    BY <2>2, FS_EmptySet DEF CommitInv
  <2> QED
    BY <1>4, <2>1, <2>3, QuorumIsNat DEF RoundDecided
<1> QED
  BY <1>1, <1>3, <1>4, QuorumIsNat

-----------------------------------------------------------------------------
(* A round is atomic.                                                      *)

\* What the caller of the router sees of the executions.
Decided == [n \in Node |-> ExecutedSlots(n) \ CurrentSlots]

FleetInv == TypeOK /\ RouterInv /\ AgreementInv /\ CertInv /\ RoundInv

\* What is asked of the replicas and what is asked of the router go together.
LEMMA FleetInvNext == FleetInv /\ [NetNext]_allVars => FleetInv' /\ [Next]_vars
<1> SUFFICES ASSUME FleetInv, [NetNext]_allVars PROVE FleetInv' /\ [Next]_vars
  OBVIOUS
<1>1. [Next]_vars
  BY RouterStep DEF FleetInv, RouterInv
<1>2. RouterInv'
  BY RouterNext DEF FleetInv
<1>3. TypeOK' /\ AgreementInv' /\ CertInv'
  BY <1>1, NextType, AgreementNext, CertNext DEF FleetInv
<1>4. RoundInv'
  BY RoundInvNext DEF FleetInv
<1> QED
  BY <1>1, <1>2, <1>3, <1>4 DEF FleetInv

LEMMA FleetInvInit == NetInit => FleetInv
<1> SUFFICES ASSUME NetInit PROVE FleetInv
  OBVIOUS
<1>1. Init /\ net = {} /\ call.stage = "none"
  BY DEF NetInit, Init, Idle
<1>2. AgreementInv
  BY <1>1 DEF AgreementInv, ProposalsNumbered, OneProposalPerSlot, VotesProposed, Sent
<1>3. RoundInv
  BY <1>1 DEF RoundInv, PrePrepareInv, PrepareInv, CommitInv
<1> QED
  BY <1>1, <1>2, <1>3, NetInitInv, CertInit DEF FleetInv

\* The slot in progress is that of a round; there is none in a view change.
LEMMA CurrentSlotsAre ==
    ASSUME CallTypeOK
    PROVE  CurrentSlots = IF call.stage \in RoundStages THEN {RoundSlot} ELSE {}
BY DEF CallTypeOK, CurrentSlots, RoundSlot

\* Starting a round decides nothing: its slot was executed nowhere.
LEMMA DecidedStarts ==
    ASSUME FleetInv, FleetInv', NEW n \in Node, NEW p \in Payload, HandleRequest(n, p),
           NEW op \in {"request", "propose"}, call = Idle,
           call' = Broadcast(op, n, "PRE_PREPARE", <<Proposal(n, p)>>)
    PROVE  Decided' = Decided
<1>0. PICK s : s = <<view[n], seqNum[n] + 1>>
  OBVIOUS
<1>1. CurrentSlots' = {s}
  <2>1. RoundSlot' = s
    BY <1>0, RoundStarts DEF FleetInv
  <2>2. call'.stage \in RoundStages
    BY DEF Broadcast, RoundStages
  <2> QED
    BY <2>1, <2>2 DEF FleetInv, RouterInv, CallTypeOK, CurrentSlots, RoundSlot
<1>2. CurrentSlots = {}
  BY DEF CurrentSlots, Idle
<1>3. \A k \in Node : s \notin ExecutedSlots(k)
  <2>1. IsPrimary(n) /\ seqNum[n] < MaxSeq
    BY DEF HandleRequest
  <2> QED
    BY <1>0, <2>1, FreshSlot DEF FleetInv
<1>4. \A k \in Node : ExecutedSlots(k)' = ExecutedSlots(k)
  BY DEF HandleRequest, ExecutedSlots
<1> QED
  BY <1>1, <1>2, <1>3, <1>4 DEF Decided

\* A delivery decides nothing the caller can see before the round has ended.
LEMMA DecidedDelivers ==
    ASSUME FleetInv, FleetInv', Deliver
    PROVE  Decided' = Decided /\ (call.stage \in RoundStages => Ready' = Ready)
<1> USE DEF FleetInv
<1>1. CallTypeOK /\ CallTypeOK'
  BY DEF RouterInv
<1>2. CurrentSlots = IF call.stage \in RoundStages THEN {RoundSlot} ELSE {}
  BY <1>1, CurrentSlotsAre
<1>3. CurrentSlots' = IF call'.stage \in RoundStages THEN {RoundSlot'} ELSE {}
  BY <1>1 DEF CallTypeOK, CurrentSlots, RoundSlot
<1>4. PICK n \in Node, m \in Message :
         /\ m = Head(call.todo) /\ m = call.todo[1] /\ call.todo # <<>>
         /\ call'.stage = call.stage /\ call.stage \notin {"none", "START"}
         /\ Handle(n, m) \/ UNCHANGED vars
  BY <1>1, DeliverShape
<1>5. m \in net /\ m.phase = call.stage
  BY <1>4, HeadInTransit DEF RouterInv
<1>6. ASSUME NEW k \in Node
      PROVE  \/ ExecutedSlots(k)' = ExecutedSlots(k)
             \/ call.stage = "COMMIT" /\ ExecutedSlots(k)' = ExecutedSlots(k) \cup {Slot(m)}
  <2>1. CASE call.stage # "COMMIT" \/ UNCHANGED vars
    <3>1. executed' = executed
      BY <1>4, <1>5, <2>1
      DEF vars, voteVars, Handle, HandlePrePrepare, HandlePrepare, HandleCommit, HandleViewChange,
          HandleNewView
    <3> QED
      BY <3>1 DEF ExecutedSlots
  <2>2. CASE call.stage = "COMMIT" /\ Handle(n, m)
    <3>1. HandleCommit(n, m)
      BY <1>5, <2>2 DEF Handle, HandlePrePrepare, HandlePrepare, HandleViewChange, HandleNewView
    <3> QED
      BY <1>5, <2>2, <3>1, SlotExecuted
  <2> QED
    BY <1>4, <2>1, <2>2
<1>7. CASE call.stage \in RoundStages
  <2>1. Ready' = Ready /\ RoundSlot' = RoundSlot
    BY <1>7, RoundDelivery DEF RoundInv
  <2>2. Slot(m) = RoundSlot
    BY <1>4, <1>7, HeadInTransit DEF RouterInv
  <2>3. CurrentSlots = {RoundSlot} /\ CurrentSlots' = {RoundSlot}
    BY <1>2, <1>3, <1>4, <1>7, <2>1
  <2> QED
    BY <1>6, <2>1, <2>2, <2>3 DEF Decided
<1>8. CASE call.stage \notin RoundStages
  BY <1>2, <1>3, <1>4, <1>6, <1>8 DEF Decided, RoundStages
<1> QED
  BY <1>7, <1>8

\* The sets of the abstract rounds are counted as those of the router.
LEMMA SameCardinality == \A S : Promise!Cardinality(S) = Cardinality(S)
BY DEF Promise!Cardinality, Cardinality

\* The end of a round is the atomic step: what its slot's executions add up to.
LEMMA RoundEndsAtOnce ==
    ASSUME FleetInv, EndRound
    PROVE  \/ \E s \in Slots : Promise!Decide(s)
           \/ Promise!Fail
<1> USE DEF FleetInv
<1>1. CallTypeOK /\ CommitInv /\ call.stage = "COMMIT" /\ call.todo = <<>>
  BY DEF RouterInv, RoundInv, EndRound
<1>2. CurrentSlots = {RoundSlot} /\ CurrentSlots' = {} /\ RoundSlot \in Slots
  <2>1. call.node \in Node
    BY <1>1 DEF CallTypeOK, Call
  <2> QED
    BY <1>1, <2>1, CurrentSlotsAre
    DEF EndRound, Idle, CurrentSlots, RoundSlot, Slots, TypeOK, RoundStages
<1>3. Ready' = Ready /\ \A n \in Node : ExecutedSlots(n)' = ExecutedSlots(n)
  BY DEF EndRound, vars, Ready, Reachable, ExecutedSlots
<1>4. /\ \A n \in Node : Decided[n] = ExecutedSlots(n) \ {RoundSlot}
      /\ Decided' = [n \in Node |-> ExecutedSlots(n)]
  BY <1>2, <1>3 DEF Decided
<1>5. CASE /\ Cardinality(Ready) >= Quorum /\ RoundDecided
           /\ \A n \in Node : RoundSlot \in ExecutedSlots(n) <=> n \in Ready
  <2>1. outcome' = "decided"
    BY <1>5 DEF EndRound
  <2>2. \A n \in Node : RoundSlot \notin Decided[n]
    BY <1>4
  <2>3. Decided' = [n \in Node |-> IF n \in Ready THEN Decided[n] \cup {RoundSlot} ELSE Decided[n]]
    BY <1>4, <1>5
  <2>4. Promise!Decide(RoundSlot)
    BY <1>3, <1>5, <2>1, <2>2, <2>3, SameCardinality DEF Promise!Decide, Decided, Quorum, F
  <2> QED
    BY <1>2, <2>4
<1>6. CASE /\ Cardinality(Ready) < Quorum /\ ~RoundDecided
           /\ \A n \in Node : RoundSlot \notin ExecutedSlots(n)
  <2>1. outcome' = "failed"
    BY <1>6 DEF EndRound
  <2>2. Decided' = Decided
    BY <1>4, <1>6 DEF Decided
  <2> QED
    BY <1>3, <1>6, <2>1, <2>2, SameCardinality DEF Promise!Fail, Decided, Quorum, F
<1> QED
  BY <1>1, <1>5, <1>6, RoundEnds

\* Each step of the router is a step of the atomic rounds, or is not seen.
LEMMA RoundStep ==
    ASSUME FleetInv, FleetInv', [NetNext]_allVars
    PROVE  [Promise!Next]_(Promise!roundVars)
<1> DEFINE Stutter == [Promise!Next]_(Promise!roundVars)
<1>0. CallTypeOK
  BY DEF FleetInv, RouterInv
<1>1. Ready' = Ready /\ Decided' = Decided /\ outcome' = outcome => Stutter
  BY DEF Promise!roundVars, Decided
<1>2. Decided' = Decided /\ outcome' = outcome => Stutter
  <2>1. Ready' \in SUBSET Node
    BY DEF Ready, Reachable
  <2> QED
    BY <2>1 DEF Promise!Next, Promise!Reconfigure, Decided
<1>3. Ready' = Ready /\ Decided' = Decided /\ outcome' = "refused" => Stutter
  BY DEF Promise!Next, Promise!Refuse, Decided
<1>4. UNCHANGED <<view, seqNum, executed>> /\ CurrentSlots' = CurrentSlots => Decided' = Decided
  BY DEF Decided, ExecutedSlots
<1>5. UNCHANGED <<byzantine, partitioned, inViewChange>> => Ready' = Ready
  BY DEF Ready, Reachable
<1>6. UNCHANGED <<call, vars>> => CurrentSlots' = CurrentSlots
  BY DEF CurrentSlots, vars
<1> HIDE DEF Stutter
<1>7. ASSUME NEW p \in Payload, BroadcastRequest(p) PROVE Stutter
  <2>1. FirstPrimary \in Node /\ HandleRequest(FirstPrimary, p)
        /\ call' = Broadcast("request", FirstPrimary, "PRE_PREPARE", <<Proposal(FirstPrimary, p)>>)
        /\ call = Idle /\ outcome' = outcome
    BY <1>7, FirstPrimaryIsPrimary DEF BroadcastRequest
  <2> QED
    BY <1>2, <2>1, DecidedStarts
<1>8. ASSUME NEW n \in Node, NEW p \in Payload, ProposeParents(n, p) PROVE Stutter
  <2>1. HandleRequest(n, p) /\ call = Idle /\ outcome' = outcome
        /\ call' = Broadcast("propose", n, "PRE_PREPARE", <<Proposal(n, p)>>)
    BY <1>8 DEF ProposeParents
  <2> QED
    BY <1>2, <2>1, DecidedStarts
<1>9. ASSUME RequestRefused \/ \E n \in Node : ProposalRefused(n) PROVE Stutter
  <2>1. UNCHANGED <<vars, byzantine, partitioned, call>> /\ outcome' = "refused"
    BY <1>9 DEF RequestRefused, ProposalRefused
  <2> QED
    BY <1>3, <1>4, <1>5, <1>6, <2>1 DEF vars
<1>10. ASSUME RunViewChange PROVE Stutter
  <2>1. CurrentSlots = {} /\ CurrentSlots' = {}
    BY <1>10 DEF RunViewChange, Idle, Broadcast, CurrentSlots
  <2> QED
    BY <1>2, <1>4, <1>10, <2>1 DEF RunViewChange, vars
<1>11. ASSUME StartNext PROVE Stutter
  <2>1. call.op = "viewChange" /\ call'.op = call.op
    <3>1. call \in Call /\ call.op = "viewChange"
      BY <1>0, <1>11 DEF StartNext, CallTypeOK, ViewStages
    <3> QED
      BY <1>11, <3>1 DEF StartNext, Call
  <2>2. executed' = executed
    BY <1>11 DEF StartNext, StartViewChange, voteVars, vars
  <2>3. CurrentSlots = {} /\ CurrentSlots' = {}
    BY <2>1 DEF CurrentSlots
  <2>4. Decided' = Decided
    BY <2>2, <2>3 DEF Decided, ExecutedSlots
  <2> QED
    BY <1>2, <1>11, <2>4 DEF StartNext
<1>12. ASSUME Deliver PROVE Stutter
  BY <1>2, <1>12, DecidedDelivers DEF Deliver
<1>13. ASSUME NextPhase PROVE Stutter
  <2>1. UNCHANGED vars /\ call'.op = call.op /\ call'.node = call.node /\ outcome' = outcome
    BY <1>13 DEF NextPhase, Broadcast
  <2>2. CurrentSlots' = CurrentSlots
    BY <2>1 DEF CurrentSlots, vars
  <2> QED
    BY <1>2, <1>4, <2>1, <2>2 DEF vars
<1>14. ASSUME EndRound PROVE Stutter
  BY <1>14, RoundEndsAtOnce DEF Stutter, Promise!Next
<1>15. ASSUME EndViewChange PROVE Stutter
  <2>1. CurrentSlots = {} /\ CurrentSlots' = {}
    BY <1>0, <1>15 DEF EndViewChange, CallTypeOK, Idle, CurrentSlots, RoundStages
  <2> QED
    BY <1>2, <1>4, <1>15, <2>1 DEF EndViewChange, vars
<1>16. ASSUME UNCHANGED <<vars, call, outcome>> PROVE Stutter
  BY <1>2, <1>4, <1>6, <1>16 DEF vars
<1> QED
  BY <1>7, <1>8, <1>9, <1>10, <1>11, <1>12, <1>13, <1>14, <1>15, <1>16
  DEF Stutter, NetNext, CallStep, SetByzantine, SetPartitioned, ClearFaults, allVars, netVars

\* The rounds of the router, whose phases run one message at a time amid
\* silent and unreachable replicas and the leftovers of earlier rounds and view
\* changes, are atomic to their caller.
THEOREM RoundsAreAtomic == NetSpec => RoundIsAtomic
<1>1. NetInit => Promise!Init
  <2> SUFFICES ASSUME NetInit PROVE Promise!Init
    OBVIOUS
  <2>1. Ready = Node
    BY DEF NetInit, Init, Ready, Reachable
  <2>2. \A n \in Node : ExecutedSlots(n) = {}
    BY DEF NetInit, Init, ExecutedSlots
  <2>3. [n \in Node |-> ExecutedSlots(n) \ CurrentSlots] = [n \in Node |-> {}]
    BY <2>2
  <2> QED
    BY <2>1, <2>3 DEF NetInit, Promise!Init
<1>2. FleetInv /\ [NetNext]_allVars => FleetInv' /\ [Promise!Next]_(Promise!roundVars)
  BY FleetInvNext, RoundStep
<1> QED
  BY <1>1, <1>2, FleetInvInit, PTL DEF NetSpec, RoundIsAtomic, Promise!Spec

-----------------------------------------------------------------------------
(* The breeding gate.                                                      *)

\* There are finitely many slots, so those a replica has won can be counted.
LEMMA SomeSlots ==
    ASSUME NEW S \in SUBSET Slots, NEW T \in SUBSET S
    PROVE  /\ IsFiniteSet(S) /\ Cardinality(S) \in Nat /\ Cardinality(T) \in Nat
           /\ Cardinality(T) <= Cardinality(S)
<1>1. IsFiniteSet(View) /\ IsFiniteSet(SeqNum)
  BY ConstantsAssumption, FS_Interval DEF View, SeqNum
<1>2. IsFiniteSet(Slots)
  BY <1>1, FS_Product DEF Slots
<1> QED
  BY <1>2, FS_Subset, FS_CardinalityType

\* What a replica has won stays won.
LEMMA WonSlotsGrow ==
    ASSUME TypeOK, TypeOK', [Next]_vars, NEW n \in Node
    PROVE  WonSlots(n) \subseteq WonSlots(n)' /\ WonSlots(n) \subseteq Slots
<1>1. \A k \in Node : ExecutedSlots(k) \subseteq ExecutedSlots(k)'
  BY ExecutedSlotsGrow
<1>2. ASSUME NEW s, Cardinality(Deciders(s)) >= Quorum PROVE Cardinality(Deciders(s)') >= Quorum
  <2>1. Deciders(s)' \in SUBSET Node /\ Deciders(s) \in SUBSET Deciders(s)'
    BY <1>1 DEF Deciders
  <2> QED
    BY <1>2, <2>1, MoreNodes, QuorumIsNat
<1>3. \A s : Senders("PRE_PREPARE", s) \subseteq Senders("PRE_PREPARE", s)'
  BY LogsGrow
<1> QED
  BY <1>2, <1>3 DEF WonSlots

\* A step that leaves the gate alone, and the round of a proposal in progress,
\* keeps what is claimed of the gate.
LEMMA GateKept ==
    ASSUME TypeOK, TypeOK', GateInv, [Next]_vars, UNCHANGED <<pending, breedingLog>>,
           CallTypeOK,
           \/ call.op # "propose" /\ call'.op # "propose"
           \/ call'.op = call.op /\ call'.node = call.node /\ RoundSlot' = RoundSlot
    PROVE  GateInv'
<1>0. PICK s : s = RoundSlot
  OBVIOUS
<1>1. PICK t : t = RoundSlot'
  OBVIOUS
<1>2. ASSUME NEW n \in Node
      PROVE  IF call'.op = "propose" /\ call'.node = n
             THEN /\ \E m \in Message : pending'[n] = {m}
                  /\ n \in Senders("PRE_PREPARE", t)'
                  /\ Len(breedingLog'[n]) <= Cardinality(WonSlots(n)' \ {t})
             ELSE /\ pending'[n] = {}
                  /\ Len(breedingLog'[n]) <= Cardinality(WonSlots(n)')
  <2>1. PICK won : won = WonSlots(n)
    OBVIOUS
  <2>2. PICK more : more = WonSlots(n)'
    OBVIOUS
  <2>3. won \in SUBSET more /\ more \in SUBSET Slots
    <3>1. WonSlots(n) \subseteq WonSlots(n)'
      BY WonSlotsGrow
    <3>2. WonSlots(n)' \subseteq Slots
      BY DEF WonSlots
    <3> QED
      BY <2>1, <2>2, <3>1, <3>2
  <2>4. Len(breedingLog[n]) \in Nat
    BY DEF CallTypeOK
  <2>5. CASE call.op = "propose" /\ call.node = n
    <3>1. call'.op = "propose" /\ call'.node = n /\ s = t
      BY <1>0, <1>1, <2>5
    <3>2. Senders("PRE_PREPARE", s) \subseteq Senders("PRE_PREPARE", s)'
      BY LogsGrow
    <3>3. /\ \E m \in Message : pending[n] = {m}
          /\ n \in Senders("PRE_PREPARE", s)
          /\ Len(breedingLog[n]) <= Cardinality(won \ {s})
      BY <1>0, <2>1, <2>5 DEF GateInv
    <3>4. Cardinality(won \ {s}) <= Cardinality(more \ {s})
          /\ Cardinality(won \ {s}) \in Nat /\ Cardinality(more \ {s}) \in Nat
      <4>1. more \ {s} \in SUBSET Slots /\ won \ {s} \in SUBSET (more \ {s})
        BY <2>3
      <4> QED
        BY <4>1, SomeSlots
    <3>5. n \in Senders("PRE_PREPARE", t)'
      BY <3>1, <3>2, <3>3
    <3>6. Len(breedingLog'[n]) <= Cardinality(WonSlots(n)' \ {t})
      <4>1. Len(breedingLog'[n]) <= Cardinality(more \ {s})
        BY <2>4, <3>3, <3>4
      <4> QED
        BY <2>2, <3>1, <4>1
    <3> QED
      BY <3>1, <3>3, <3>5, <3>6
  <2>6. CASE ~(call.op = "propose" /\ call.node = n)
    <3>1. ~(call'.op = "propose" /\ call'.node = n)
      BY <2>6
    <3>2. Cardinality(won) <= Cardinality(more) /\ Cardinality(won) \in Nat /\ Cardinality(more) \in Nat
      BY <2>3, SomeSlots
    <3>3. pending[n] = {} /\ Len(breedingLog[n]) <= Cardinality(won)
      BY <2>1, <2>6 DEF GateInv
    <3>4. Len(breedingLog'[n]) <= Cardinality(more)
      BY <2>4, <3>2, <3>3
    <3> QED
      BY <2>2, <3>1, <3>3, <3>4
  <2> QED
    BY <2>5, <2>6
<1> QED
  BY <1>1, <1>2 DEF GateInv, Senders, Sent

\* A proposal is pending for a slot that nobody has executed.
LEMMA GateProposes ==
    ASSUME FleetInv, FleetInv', GateInv, [Next]_vars, NEW k \in Node, NEW p \in Payload,
           ProposeParents(k, p)
    PROVE  GateInv'
<1> USE DEF FleetInv
<1>0. PICK s : s = <<view[k], seqNum[k] + 1>>
  OBVIOUS
<1>1. /\ HandleRequest(k, p) /\ call = Idle
      /\ call' = Broadcast("propose", k, "PRE_PREPARE", <<Proposal(k, p)>>)
      /\ pending' = [pending EXCEPT ![k] = @ \cup {Proposal(k, p)}] /\ breedingLog' = breedingLog
  BY DEF ProposeParents
<1>2. /\ RoundSlot' = s /\ Slot(Proposal(k, p)) = s /\ Proposal(k, p) \in Message
  BY <1>0, <1>1, RoundStarts
<1>3. call'.op = "propose" /\ call'.node = k /\ call.op = "idle"
  BY <1>1 DEF Broadcast, Idle
<1>4. k \in Senders("PRE_PREPARE", s)'
  <2>1. Proposal(k, p) \in net' /\ Proposal(k, p).phase = "PRE_PREPARE" /\ Proposal(k, p).node = k
    BY <1>1 DEF HandleRequest, Proposal
  <2> QED
    BY <1>2, <2>1 DEF Senders, Sent
<1>5. Senders("PRE_PREPARE", s) = {}
  <2>1. IsPrimary(k) /\ seqNum[k] < MaxSeq
    BY <1>1 DEF HandleRequest
  <2> QED
    BY <1>0, <2>1, FreshSlot
<1>6. ASSUME NEW n \in Node
      PROVE  /\ Len(breedingLog'[n]) <= Cardinality(WonSlots(n)' \ {s})
             /\ Len(breedingLog'[n]) <= Cardinality(WonSlots(n)')
  <2>1. PICK won : won = WonSlots(n)
    OBVIOUS
  <2>2. PICK more : more = WonSlots(n)'
    OBVIOUS
  <2>3. won \in SUBSET (more \ {s}) /\ more \in SUBSET Slots
    <3>1. WonSlots(n) \subseteq WonSlots(n)'
      BY WonSlotsGrow
    <3>2. WonSlots(n)' \subseteq Slots
      BY DEF WonSlots
    <3>3. s \notin WonSlots(n)
      BY <1>5 DEF WonSlots
    <3> QED
      BY <2>1, <2>2, <3>1, <3>2, <3>3
  <2>4. /\ Cardinality(won) <= Cardinality(more \ {s}) /\ Cardinality(more \ {s}) <= Cardinality(more)
        /\ Cardinality(won) \in Nat /\ Cardinality(more \ {s}) \in Nat /\ Cardinality(more) \in Nat
    <3>1. more \ {s} \in SUBSET Slots
      BY <2>3
    <3> QED
      BY <2>3, <3>1, SomeSlots
  <2>5. Len(breedingLog[n]) \in Nat
    BY DEF RouterInv, CallTypeOK
  <2>6. Len(breedingLog[n]) <= Cardinality(won)
    BY <1>3, <2>1 DEF GateInv
  <2>7. Len(breedingLog[n]) <= Cardinality(more \ {s}) /\ Len(breedingLog[n]) <= Cardinality(more)
    BY <2>4, <2>5, <2>6
  <2> QED
    BY <1>1, <2>2, <2>7
<1>7. /\ pending'[k] = {Proposal(k, p)}
      /\ \A n \in Node \ {k} : pending'[n] = {}
  <2>1. \A n \in Node : pending[n] = {}
    BY <1>3 DEF GateInv
  <2>2. pending \in [Node -> SUBSET {m \in Message : m.payload \in Payload}]
    BY DEF RouterInv, CallTypeOK
  <2> QED
    BY <1>1, <2>1, <2>2
<1> QED
  BY <1>2, <1>3, <1>4, <1>6, <1>7 DEF GateInv, Senders, Sent

\* The batch of a round is bred when its slot has just been won, and only then.
LEMMA GateDecides ==
    ASSUME FleetInv, FleetInv', GateInv, EndRound
    PROVE  GateInv'
<1> USE DEF FleetInv
<1>0. PICK s : s = RoundSlot
  OBVIOUS
<1>1. /\ call.stage = "COMMIT" /\ call.todo = <<>> /\ call' = Idle /\ UNCHANGED vars
      /\ call'.op = "idle"
  BY DEF EndRound, Idle
<1>2. \A n \in Node : WonSlots(n)' = WonSlots(n)
  BY <1>1 DEF vars, WonSlots, Senders, Sent, Deciders, ExecutedSlots
<1>3. CASE call.op # "propose"
  <2>1. UNCHANGED <<pending, breedingLog>>
    BY <1>3 DEF EndRound
  <2>2. CallTypeOK /\ [Next]_vars
    BY <1>1 DEF RouterInv
  <2> QED
    BY <1>1, <1>3, <2>1, <2>2, GateKept
<1>4. CASE call.op = "propose"
  <2>1. PICK k : k = call.node
    OBVIOUS
  <2>2. k \in Node
    BY <2>1 DEF RouterInv, CallTypeOK, Call
  <2>3. PICK m \in pending[k] :
           /\ pending' = [pending EXCEPT ![k] = @ \ {m}]
           /\ breedingLog' = IF RoundDecided
                             THEN [breedingLog EXCEPT ![k] = Append(@, m.payload)]
                             ELSE breedingLog
    BY <1>4, <2>1 DEF EndRound
  <2>4. /\ pending \in [Node -> SUBSET {q \in Message : q.payload \in Payload}]
        /\ breedingLog \in [Node -> Seq(Payload)]
    BY DEF RouterInv, CallTypeOK
  <2>5. pending'[k] = {} /\ \A n \in Node \ {k} : pending'[n] = {} /\ breedingLog'[n] = breedingLog[n]
    <3>1. \E q \in Message : pending[k] = {q}
      BY <1>4, <2>1, <2>2, Zenon DEF GateInv
    <3>2. pending[k] = {m}
      BY <2>3, <3>1
    <3>3. \A n \in Node \ {k} : pending[n] = {}
      BY <2>1 DEF GateInv
    <3> QED
      BY <2>2, <2>3, <2>4, <3>2, <3>3
  <2>6. PICK won : won = WonSlots(k)
    OBVIOUS
  <2>7. /\ k \in Senders("PRE_PREPARE", s) /\ Len(breedingLog[k]) <= Cardinality(won \ {s})
        /\ Len(breedingLog[k]) \in Nat
    <3>1. /\ k \in Senders("PRE_PREPARE", RoundSlot)
          /\ Len(breedingLog[k]) <= Cardinality(WonSlots(k) \ {RoundSlot})
      BY <1>4, <2>1, <2>2, Zenon DEF GateInv
    <3>2. Len(breedingLog[k]) \in Nat
      BY <2>2, <2>4
    <3> QED
      BY <1>0, <2>6, <3>1, <3>2
  <2>8. won \in SUBSET Slots /\ IsFiniteSet(won) /\ Cardinality(won) \in Nat
        /\ Cardinality(won \ {s}) = IF s \in won THEN Cardinality(won) - 1 ELSE Cardinality(won)
    <3>1. won \in SUBSET Slots
      BY <2>6 DEF WonSlots
    <3> QED
      BY <3>1, SomeSlots, FS_RemoveElement
  <2>9. Len(breedingLog'[k]) <= Cardinality(won)
    <3>1. CASE RoundDecided
      <4>1. s \in won
        <5>1. CommitInv
          BY DEF RoundInv
        <5>2. Cardinality(Deciders(s)) >= Quorum
          BY <1>0, <1>1, <3>1, <5>1 DEF CommitInv, RoundDecided
        <5>3. s \in Slots
          BY <1>0, <2>1, <2>2 DEF RoundSlot, Slots, TypeOK
        <5> QED
          BY <2>6, <2>7, <5>2, <5>3 DEF WonSlots
      <4>2. Len(breedingLog'[k]) = Len(breedingLog[k]) + 1
        <5>1. breedingLog'[k] = Append(breedingLog[k], m.payload)
          BY <2>2, <2>3, <2>4, <3>1
        <5>2. breedingLog[k] \in Seq(Payload) /\ m.payload \in Payload
          BY <2>2, <2>3, <2>4
        <5> QED
          BY <5>1, <5>2
      <4> QED
        BY <2>7, <2>8, <4>1, <4>2
    <3>2. CASE ~RoundDecided
      <4>1. breedingLog'[k] = breedingLog[k]
        BY <2>3, <3>2
      <4> QED
        BY <2>7, <2>8, <4>1
    <3> QED
      BY <3>1, <3>2
  <2>10. \A n \in Node \ {k} : Len(breedingLog[n]) <= Cardinality(WonSlots(n))
    BY <2>1 DEF GateInv
  <2> QED
    BY <1>1, <1>2, <2>5, <2>6, <2>9, <2>10 DEF GateInv
<1> QED
  BY <1>3, <1>4

LEMMA GateNext == FleetInv /\ GateInv /\ [NetNext]_allVars => GateInv'
<1> SUFFICES ASSUME FleetInv, GateInv, [NetNext]_allVars PROVE GateInv'
  OBVIOUS
<1>0. FleetInv' /\ [Next]_vars /\ TypeOK /\ TypeOK' /\ CallTypeOK
  BY FleetInvNext DEF FleetInv, RouterInv
<1>1. ASSUME UNCHANGED <<pending, breedingLog>>,
             \/ call.op # "propose" /\ call'.op # "propose"
             \/ call'.op = call.op /\ call'.node = call.node /\ RoundSlot' = RoundSlot
      PROVE  GateInv'
  BY <1>0, <1>1, GateKept
<1>2. call.op = "propose" => call.stage \in RoundStages
  BY <1>0 DEF CallTypeOK
<1>3. ASSUME NEW p \in Payload, BroadcastRequest(p) PROVE GateInv'
  BY <1>1, <1>3 DEF BroadcastRequest, Broadcast, Idle
<1>4. ASSUME NEW n \in Node, NEW p \in Payload, ProposeParents(n, p) PROVE GateInv'
  BY <1>0, <1>4, GateProposes
<1>5. CASE RunViewChange
  BY <1>1, <1>5 DEF RunViewChange, Broadcast, Idle
<1>6. CASE StartNext
  <2>1. call.op = "viewChange" /\ call'.op = call.op
    <3>1. call \in Call /\ call.op = "viewChange"
      BY <1>0, <1>6 DEF StartNext, CallTypeOK, ViewStages
    <3> QED
      BY <1>6, <3>1 DEF StartNext, Call
  <2> QED
    BY <1>1, <1>6, <2>1 DEF StartNext
<1>7. CASE Deliver
  <2>1. call'.op = call.op /\ call'.node = call.node
    BY <1>0, <1>7, DeliverShape
  <2>2. call.op = "propose" => RoundSlot' = RoundSlot
    BY <1>2, <1>7, RoundDelivery DEF FleetInv, RoundInv
  <2> QED
    BY <1>1, <1>7, <2>1, <2>2 DEF Deliver
<1>8. CASE NextPhase
  <2>1. call'.op = call.op /\ call'.node = call.node /\ RoundSlot' = RoundSlot
    BY <1>8 DEF NextPhase, Broadcast, RoundSlot, vars
  <2> QED
    BY <1>1, <1>8, <2>1 DEF NextPhase
<1>9. CASE EndRound
  BY <1>0, <1>9, GateDecides
<1>10. CASE EndViewChange
  <2>1. call.op # "propose" /\ call'.op # "propose"
    BY <1>2, <1>10 DEF EndViewChange, Idle, RoundStages
  <2> QED
    BY <1>1, <1>10, <2>1 DEF EndViewChange
<1>11. CASE UNCHANGED <<vars, call, pending, breedingLog>>
  BY <1>1, <1>11 DEF RoundSlot, vars
<1> QED
  BY <1>3, <1>4, <1>5, <1>6, <1>7, <1>8, <1>9, <1>10, <1>11
  DEF NetNext, CallStep, RequestRefused, ProposalRefused, SetByzantine, SetPartitioned,
      ClearFaults, allVars, netVars

\* Between calls no proposal is pending, and a replica has bred no more batches
\* than it has proposed slots that a quorum executed.
THEOREM BreedsOnlyTheDecided == NetSpec => []BreedsOnlyDecided
<1>1. NetInit => GateInv
  <2> SUFFICES ASSUME NetInit, NEW n \in Node
               PROVE  call.op # "propose" /\ pending[n] = {}
                      /\ Len(breedingLog[n]) <= Cardinality(WonSlots(n))
    BY DEF GateInv
  <2>1. WonSlots(n) \in SUBSET Slots
    BY DEF WonSlots
  <2>2. Cardinality(WonSlots(n)) \in Nat
    BY <2>1, SomeSlots
  <2> QED
    BY <2>2 DEF NetInit, Idle
<1>2. FleetInv /\ GateInv /\ [NetNext]_allVars => (FleetInv /\ GateInv)'
  BY FleetInvNext, GateNext
<1>3. GateInv => BreedsOnlyDecided
  <2> SUFFICES ASSUME GateInv, call = Idle PROVE BreedsOnlyDecided
    BY DEF BreedsOnlyDecided
  <2>1. call.op # "propose"
    BY DEF Idle
  <2> QED
    BY <2>1 DEF GateInv, BreedsOnlyDecided, WonSlots
<1> QED
  BY <1>1, <1>2, <1>3, FleetInvInit, PTL DEF NetSpec

\* What is proved of replicas over any transport holds of the fleet, whatever
\* faults are injected and whichever calls are made.
COROLLARY FleetKeepsPBFT ==
    NetSpec => [](Agreement /\ CommitCertificate /\ DecisionSurvives /\ ExecutedOnce /\ ViewAnnounced)
BY FleetRefinesPBFT, AgreementHolds, CertificatesHold, DecisionsSurvive, ExecutesOnce,
   ViewsAnnounced, PTL DEF RefinesPBFT
=============================================================================
