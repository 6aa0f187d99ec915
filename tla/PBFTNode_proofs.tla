--------------------------- MODULE PBFTNode_proofs ---------------------------
(***************************************************************************)
(* Theorems about PBFTNode, for every number of replicas, every payload    *)
(* set and every value of the bounds.                                      *)
(***************************************************************************)
EXTENDS PBFTNode, FiniteSetTheorems, TLAPS

\* The primary of a view is a replica (primary_id indexes the sorted list).
LEMMA PrimaryIsNode == \A v \in Nat : Primary(v) \in Node
BY ConstantsAssumption DEF Primary, Node

\* Quorum and fault bound are naturals, and a quorum is not empty.
LEMMA QuorumIsNat == F \in Nat /\ Quorum \in Nat /\ Quorum >= 1
BY ConstantsAssumption DEF F, Quorum

\* The counted length of a VIEW_CHANGE list stays within a quorum.
LEMMA AppendedType == \A c \in 0 .. Quorum : Appended(c) \in 0 .. Quorum
BY QuorumIsNat DEF Appended

\* The answer to a message of the fleet is a message of the fleet.
LEMMA VoteType ==
    ASSUME NEW n \in Node, NEW m \in Message,
           NEW phase \in {"PREPARE", "COMMIT", "REPLY"}
    PROVE  /\ Vote(n, m, phase) \in Message
           /\ Vote(n, m, phase).phase = phase
           /\ Slot(Vote(n, m, phase)) = Slot(m)
           /\ Vote(n, m, phase).digest = m.digest
           /\ Vote(n, m, phase).payload = Empty
           /\ Vote(n, m, phase).node = n
<1>1. Vote(n, m, phase) \in Message
  BY DEF Vote, Message
<1> QED
  BY <1>1 DEF Vote, Message, Slot

\* A message of the protocol names a (view, seq) pair within the bounds.
LEMMA SlotType == \A m \in Message : Slot(m) \in Slots
BY DEF Slot, Message, Slots

\* Whatever a handler returns is a message of the protocol.
LEMMA ResponseType ==
    ASSUME NEW n \in Node, NEW m \in Message
    PROVE  Response(n, m) \subseteq Message
<1>1. Vote(n, m, "PREPARE") \in Message /\ Vote(n, m, "COMMIT") \in Message
  BY VoteType
<1>2. [Vote(n, m, "REPLY") EXCEPT !.payload = Execute(m.payload)] \in Message
  BY VoteType DEF Message, Execute
<1>3. NewView(n, m.view) \in Message
  BY ConstantsAssumption DEF NewView, Message, SeqNum
<1> QED
  BY <1>1, <1>2, <1>3 DEF Response

\* The keys of _executed are slots.
LEMMA ExecutedSlotsType ==
    ASSUME TypeOK, NEW n \in Node
    PROVE  ExecutedSlots(n) \subseteq Slots
<1>1. executed[n] \in Seq([slot : Slots, result : Payload \cup {Empty}])
  BY DEF TypeOK
<1>2. \A i \in DOMAIN executed[n] : executed[n][i] \in [slot : Slots, result : Payload \cup {Empty}]
  <2> DEFINE T == [slot : Slots, result : Payload \cup {Empty}]
  <2> HIDE DEF T
  <2>1. executed[n] \in Seq(T)
    BY <1>1 DEF T
  <2>2. \A i \in DOMAIN executed[n] : executed[n][i] \in T
    BY <2>1
  <2> QED
    BY <2>2 DEF T
<1> QED
  BY <1>2 DEF ExecutedSlots

\* The PRE-PREPARE that handle_request returns is a message of the protocol,
\* and names a slot.
LEMMA ProposalType ==
    ASSUME TypeOK, NEW n \in Node, NEW p \in Payload, seqNum[n] < MaxSeq
    PROVE  /\ Proposal(n, p) \in Message
           /\ seqNum[n] + 1 \in SeqNum
           /\ <<view[n], seqNum[n] + 1>> \in Slots
<1>1. seqNum[n] + 1 \in SeqNum
  BY ConstantsAssumption DEF TypeOK, SeqNum
<1>2. view[n] \in View
  BY DEF TypeOK
<1>3. Proposal(n, p) \in Message
  BY <1>1, <1>2 DEF Proposal, Message
<1> QED
  BY <1>1, <1>2, <1>3 DEF Slots

\* So is the VIEW_CHANGE that start_view_change returns.
LEMMA ViewChangeType ==
    ASSUME TypeOK, NEW n \in Node, view[n] < MaxView
    PROVE  ViewChange(n) \in Message /\ view[n] + 1 \in View
<1>1. view[n] + 1 \in View
  BY ConstantsAssumption DEF TypeOK, View
<1>2. lastCheckpoint[n] \in SeqNum
  BY DEF TypeOK
<1> QED
  BY <1>1, <1>2 DEF ViewChange, Message

-----------------------------------------------------------------------------
(* Type correctness, which is inductive as it stands.                      *)

\* A new replica is of its type.
LEMMA InitType == Init => TypeOK
BY ConstantsAssumption, QuorumIsNat DEF Init, TypeOK, View, SeqNum

\* Every handler keeps every variable in its type.
LEMMA NextType == TypeOK /\ [Next]_vars => TypeOK'
<1> SUFFICES ASSUME TypeOK, [Next]_vars PROVE TypeOK'
  OBVIOUS
<1>1. ASSUME NEW n \in Node, NEW p \in Payload, HandleRequest(n, p)
      PROVE  TypeOK'
  <2>1. Proposal(n, p) \in Message /\ seqNum[n] + 1 \in SeqNum
        /\ <<view[n], seqNum[n] + 1>> \in Slots
    BY <1>1, ProposalType DEF HandleRequest
  <2> QED
    BY <1>1, <2>1 DEF HandleRequest, viewVars, TypeOK
<1>2. ASSUME NEW n \in Node, StartViewChange(n)
      PROVE  TypeOK'
  <2>1. ViewChange(n) \in Message /\ view[n] + 1 \in View
    BY <1>2, ViewChangeType DEF StartViewChange
  <2>2. viewChangeLog' \in [View -> 0 .. Quorum]
    BY <1>2, <2>1, AppendedType DEF StartViewChange, TypeOK
  <2> QED
    BY <1>2, <2>1, <2>2 DEF StartViewChange, voteVars, TypeOK
<1>3. ASSUME NEW n \in Node, NEW m \in net, HandlePrePrepare(n, m)
      PROVE  TypeOK'
  <2>1. m \in Message /\ Slot(m) \in Slots /\ Response(n, m) \subseteq Message
    BY SlotType, ResponseType DEF TypeOK
  <2>2. prepareLog' \in [Node -> SUBSET (Slots \X Node)]
    <3>1. prepareLog' = [prepareLog EXCEPT ![n] = prepareLog[n] \cup {<<Slot(m), n>>}]
      BY <1>3 DEF HandlePrePrepare
    <3>2. prepareLog \in [Node -> SUBSET (Slots \X Node)]
      BY DEF TypeOK
    <3> QED
      BY <2>1, <3>1, <3>2
  <2>3. prePrepareLog' \in [Node -> SUBSET Slots]
    BY <1>3, <2>1 DEF HandlePrePrepare, TypeOK
  <2>4. net' \subseteq Message
    BY <1>3, <2>1 DEF HandlePrePrepare, TypeOK
  <2> QED
    BY <1>3, <2>2, <2>3, <2>4 DEF HandlePrePrepare, viewVars, TypeOK
<1>4. ASSUME NEW n \in Node, NEW m \in net, HandlePrepare(n, m)
      PROVE  TypeOK'
  <2>1. m \in Message /\ Slot(m) \in Slots /\ Response(n, m) \subseteq Message
    BY SlotType, ResponseType DEF TypeOK
  <2>2. <<Slot(m), m.node>> \in Slots \X Node /\ <<Slot(m), n>> \in Slots \X Node
    BY <2>1 DEF Message
  <2>3. prepareLog' \in [Node -> SUBSET (Slots \X Node)]
    <3>1. prepareLog' = [prepareLog EXCEPT ![n] = prepareLog[n] \cup {<<Slot(m), m.node>>}]
      BY <1>4 DEF HandlePrepare
    <3>2. prepareLog \in [Node -> SUBSET (Slots \X Node)]
      BY DEF TypeOK
    <3> QED
      BY <2>2, <3>1, <3>2
  <2>4. commitLog' \in [Node -> SUBSET (Slots \X Node)]
    BY <1>4, <2>2 DEF HandlePrepare, TypeOK
  <2>5. net' \subseteq Message
    BY <1>4, <2>1 DEF HandlePrepare, TypeOK
  <2> QED
    BY <1>4, <2>3, <2>4, <2>5 DEF HandlePrepare, viewVars, TypeOK
<1>5. ASSUME NEW n \in Node, NEW m \in net, HandleCommit(n, m)
      PROVE  TypeOK'
  <2>1. m \in Message /\ Slot(m) \in Slots /\ Response(n, m) \subseteq Message
    BY SlotType, ResponseType DEF TypeOK
  <2>2. m.node \in Node /\ m.seq \in SeqNum /\ m.payload \in Payload \cup {Empty}
    BY <2>1 DEF Message
  <2> DEFINE entry == [slot |-> Slot(m), result |-> Execute(m.payload)]
  <2>3. entry \in [slot : Slots, result : Payload \cup {Empty}]
    BY <2>1, <2>2 DEF Execute
  <2>4. executed' \in [Node -> Seq([slot : Slots, result : Payload \cup {Empty}])]
    <3>1. \/ executed' = executed
          \/ executed' = [executed EXCEPT ![n] = Append(executed[n], entry)]
      BY <1>5 DEF HandleCommit
    <3>2. Append(executed[n], entry) \in Seq([slot : Slots, result : Payload \cup {Empty}])
      <4> HIDE DEF entry
      <4>1. executed[n] \in Seq([slot : Slots, result : Payload \cup {Empty}])
        BY DEF TypeOK
      <4> QED
        BY <2>3, <4>1
    <3> HIDE DEF entry
    <3> QED
      BY <3>1, <3>2 DEF TypeOK
  <2>5. lastCheckpoint' \in [Node -> SeqNum]
    BY <1>5, <2>2 DEF HandleCommit, TypeOK
  <2>6. commitLog' \in [Node -> SUBSET (Slots \X Node)]
    BY <1>5, <2>1, <2>2 DEF HandleCommit, TypeOK
  <2>7. net' \subseteq Message
    BY <1>5, <2>1 DEF HandleCommit, TypeOK
  <2> QED
    BY <1>5, <2>4, <2>5, <2>6, <2>7 DEF HandleCommit, viewVars, TypeOK
<1>6. ASSUME NEW n \in Node, NEW m \in net, HandleViewChange(n, m)
      PROVE  TypeOK'
  <2>1. m \in Message /\ m.view \in View /\ Response(n, m) \subseteq Message
    BY ResponseType DEF TypeOK, Message
  <2>2. viewChangeLog' \in [View -> 0 .. Quorum]
    BY <1>6, <2>1, AppendedType DEF HandleViewChange, TypeOK
  <2> QED
    BY <1>6, <2>1, <2>2 DEF HandleViewChange, voteVars, TypeOK
<1>7. ASSUME NEW n \in Node, NEW m \in net, HandleNewView(n, m)
      PROVE  TypeOK'
  <2>1. m.view \in View
    BY DEF TypeOK, Message
  <2> QED
    BY <1>7, <2>1 DEF HandleNewView, voteVars, TypeOK
<1>8. CASE UNCHANGED vars
  BY <1>8 DEF vars, TypeOK
<1> QED
  BY <1>1, <1>2, <1>3, <1>4, <1>5, <1>6, <1>7, <1>8 DEF Next, Handle

\* Every variable of every replica keeps its type, and only messages of the
\* protocol are ever in the transport.
THEOREM TypeCorrect == Spec => []TypeOK
BY InitType, NextType, PTL DEF Spec

-----------------------------------------------------------------------------
(* Views.                                                                  *)

\* No step takes a replica back to an earlier view.
LEMMA ViewsGrow ==
    ASSUME TypeOK, [Next]_vars, NEW k \in Node
    PROVE  view'[k] >= view[k]
<1>0. view \in [Node -> Int]
  BY ConstantsAssumption DEF TypeOK, View
<1>1. ASSUME NEW n \in Node, NEW p \in Payload, HandleRequest(n, p)
      PROVE  view' = view
  BY <1>1 DEF HandleRequest, viewVars
<1>2. ASSUME NEW n \in Node, StartViewChange(n)
      PROVE  view'[k] >= view[k]
  BY <1>0, <1>2 DEF StartViewChange
<1>3. ASSUME NEW n \in Node, NEW m \in net, Handle(n, m), ~HandleNewView(n, m)
      PROVE  view' = view
  BY <1>3 DEF Handle, HandlePrePrepare, HandlePrepare, HandleCommit, HandleViewChange, viewVars
<1>4. ASSUME NEW n \in Node, NEW m \in net, HandleNewView(n, m)
      PROVE  view'[k] >= view[k]
  <2>1. m.view \in Int /\ m.view >= view[n]
    <3>1. m.view \in Int
      BY ConstantsAssumption DEF TypeOK, Message, View
    <3> QED
      BY <1>0, <1>4, <3>1 DEF HandleNewView, Ignores
  <2> QED
    BY <1>0, <1>4, <2>1 DEF HandleNewView
<1>5. CASE UNCHANGED vars
  BY <1>0, <1>5 DEF vars
<1> QED
  BY <1>0, <1>1, <1>2, <1>3, <1>4, <1>5 DEF Next

\* No replica ever returns to an earlier view.
THEOREM ViewMonotonic == Spec => ViewNeverDecreases
<1>1. TypeOK /\ [Next]_vars => [\A n \in Node : view'[n] >= view[n]]_vars
  BY ViewsGrow
<1> QED
  BY <1>1, TypeCorrect, PTL DEF Spec, ViewNeverDecreases

-----------------------------------------------------------------------------
(* Agreement.  Votes are counted per slot and not per digest, so agreement *)
(* rests on the primary numbering no slot twice (its seq_num grows across  *)
(* its views) and on every answer copying slot and digest.                 *)

Votes == {"PREPARE", "COMMIT", "REPLY"}

\* A proposal comes from the primary of its view and has used up its number.
ProposalsNumbered ==
    \A m \in net : m.phase = "PRE_PREPARE" =>
        m.node = Primary(m.view) /\ m.seq <= seqNum[m.node]

OneProposalPerSlot ==
    \A m1, m2 \in net :
        m1.phase = "PRE_PREPARE" /\ m2.phase = "PRE_PREPARE" /\ Slot(m1) = Slot(m2)
            => m1.digest = m2.digest

VotesProposed ==
    \A r \in net : r.phase \in Votes =>
        \E m \in net : m.phase = "PRE_PREPARE" /\ Slot(m) = Slot(r) /\ m.digest = r.digest

AgreementInv == ProposalsNumbered /\ OneProposalPerSlot /\ VotesProposed

\* An answer is never a proposal, and a vote only answers a proposal or a vote,
\* for the same slot and digest, in the answering replica's name.
LEMMA ResponseShape ==
    ASSUME NEW n \in Node, NEW m \in Message, NEW r \in Response(n, m)
    PROVE  /\ r.phase # "PRE_PREPARE"
           /\ r.phase \in Votes =>
                 /\ m.phase \in Votes \cup {"PRE_PREPARE"}
                 /\ Slot(r) = Slot(m) /\ r.digest = m.digest /\ r.node = n
<1>1. \A phase \in Votes :
         /\ Vote(n, m, phase).phase = phase
         /\ Slot(Vote(n, m, phase)) = Slot(m)
         /\ Vote(n, m, phase).digest = m.digest
         /\ Vote(n, m, phase).node = n
  BY VoteType DEF Votes
<1> DEFINE reply == [Vote(n, m, "REPLY") EXCEPT !.payload = Execute(m.payload)]
<1>2. /\ reply.phase = "REPLY" /\ Slot(reply) = Slot(m)
      /\ reply.digest = m.digest /\ reply.node = n
  BY <1>1, VoteType DEF Votes, Message, Slot
<1>3. NewView(n, m.view).phase = "NEW_VIEW"
  BY DEF NewView
<1>4. \/ m.phase = "PRE_PREPARE" /\ r = Vote(n, m, "PREPARE")
      \/ m.phase = "PREPARE" /\ r = Vote(n, m, "COMMIT")
      \/ m.phase = "COMMIT" /\ r = reply
      \/ r = NewView(n, m.view)
  BY DEF Response
<1> HIDE DEF reply
<1> QED
  BY <1>1, <1>2, <1>3, <1>4 DEF Votes

\* Every handler keeps the numbering of proposals and the pedigree of votes.
LEMMA AgreementNext == TypeOK /\ AgreementInv /\ [Next]_vars => AgreementInv'
<1> SUFFICES ASSUME TypeOK, AgreementInv, [Next]_vars PROVE AgreementInv'
  OBVIOUS
<1>0. net \subseteq Message /\ seqNum \in [Node -> Nat] /\ view \in [Node -> Nat]
  BY ConstantsAssumption DEF TypeOK, SeqNum, View
<1>1. ASSUME NEW n \in Node, NEW p \in Payload, HandleRequest(n, p)
      PROVE  AgreementInv'
  <2> DEFINE new == Proposal(n, p)
  <2>1. /\ net' = net \cup {new} /\ n = Primary(view[n])
        /\ seqNum' = [seqNum EXCEPT ![n] = seqNum[n] + 1]
    BY <1>1 DEF HandleRequest, IsPrimary
  <2>2. /\ new.phase = "PRE_PREPARE" /\ new.view = view[n] /\ new.seq = seqNum[n] + 1
        /\ new.node = n /\ Slot(new) = <<view[n], seqNum[n] + 1>>
    BY DEF Proposal, Slot
  <2> HIDE DEF new
  <2>3. \A m \in net : m.node \in Node /\ m.seq \in Nat
    BY <1>0 DEF Message, SeqNum
  <2>4. ProposalsNumbered'
    BY <1>0, <2>1, <2>2, <2>3 DEF AgreementInv, ProposalsNumbered
  <2>5. \A m \in net : m.phase = "PRE_PREPARE" => Slot(m) # Slot(new)
    <3> SUFFICES ASSUME NEW m \in net, m.phase = "PRE_PREPARE", Slot(m) = Slot(new)
                 PROVE  FALSE
      OBVIOUS
    <3>1. m.view = view[n] /\ m.seq = seqNum[n] + 1
      BY <2>2 DEF Slot
    <3>2. m.node = n /\ m.seq <= seqNum[n]
      BY <2>1, <3>1 DEF AgreementInv, ProposalsNumbered
    <3> QED
      BY <1>0, <3>1, <3>2
  <2>6. OneProposalPerSlot'
    BY <2>1, <2>5 DEF AgreementInv, OneProposalPerSlot
  <2>7. VotesProposed'
    BY <2>1, <2>2 DEF AgreementInv, VotesProposed, Votes
  <2> QED
    BY <2>4, <2>6, <2>7 DEF AgreementInv
<1>2. ASSUME NEW n \in Node, StartViewChange(n)
      PROVE  AgreementInv'
  <2>1. net' = net \cup {ViewChange(n)} /\ seqNum' = seqNum
    BY <1>2 DEF StartViewChange
  <2>2. ViewChange(n).phase = "VIEW_CHANGE"
    BY DEF ViewChange
  <2> QED
    BY <2>1, <2>2 DEF AgreementInv, ProposalsNumbered, OneProposalPerSlot, VotesProposed, Votes
<1>3. ASSUME NEW n \in Node, NEW m \in net, Handle(n, m)
      PROVE  AgreementInv'
  <2>1. net' \subseteq net \cup Response(n, m) /\ net \subseteq net' /\ seqNum' = seqNum
    BY <1>3 DEF Handle, HandlePrePrepare, HandlePrepare, HandleCommit, HandleViewChange,
                HandleNewView
  <2>2. \A r \in Response(n, m) :
           /\ r.phase # "PRE_PREPARE"
           /\ r.phase \in Votes =>
                 /\ m.phase \in Votes \cup {"PRE_PREPARE"}
                 /\ Slot(r) = Slot(m) /\ r.digest = m.digest
    BY <1>0, ResponseShape
  <2>3. ProposalsNumbered' /\ OneProposalPerSlot'
    BY <2>1, <2>2 DEF AgreementInv, ProposalsNumbered, OneProposalPerSlot
  <2>4. VotesProposed'
    BY <2>1, <2>2 DEF AgreementInv, VotesProposed
  <2> QED
    BY <2>3, <2>4 DEF AgreementInv
<1>4. CASE UNCHANGED vars
  BY <1>4 DEF vars, AgreementInv, ProposalsNumbered, OneProposalPerSlot, VotesProposed
<1> QED
  BY <1>1, <1>2, <1>3, <1>4 DEF Next

\* Whatever is lost, delayed, reordered or delivered twice, and through any
\* view changes, all votes for a slot are for the one operation its primary
\* proposed.
THEOREM AgreementHolds == Spec => []Agreement
<1>1. Init => AgreementInv
  BY DEF Init, AgreementInv, ProposalsNumbered, OneProposalPerSlot, VotesProposed
<1>2. AgreementInv => Agreement
  BY DEF AgreementInv, OneProposalPerSlot, VotesProposed, Agreement, Sent, Votes
<1> QED
  BY <1>1, <1>2, TypeCorrect, AgreementNext, PTL DEF Spec
-----------------------------------------------------------------------------
(* Certificates.  A vote in a log was sent by its sender, a COMMIT is sent *)
(* by a replica whose own log holds a quorum of PREPAREs, and an execution *)
(* leaves a quorum of COMMITs in the log of the replica.  Logs and the     *)
(* transport only grow, so none of this is ever lost.                      *)

VotesSent ==
    \A n \in Node : \A s \in Slots : \A p \in Node :
        /\ <<s, p>> \in prepareLog[n] => p \in Senders("PREPARE", s)
        /\ <<s, p>> \in commitLog[n] => p \in Senders("COMMIT", s)

CommitsBacked ==
    \A m \in net : m.phase = "COMMIT" =>
        /\ Slot(m) \in prePrepareLog[m.node]
        /\ Cardinality(Voters(prepareLog[m.node], Slot(m))) >= Quorum

ExecutionsBacked ==
    \A n \in Node : \A s \in ExecutedSlots(n) : Cardinality(Voters(commitLog[n], s)) >= Quorum

CertInv == VotesSent /\ CommitsBacked /\ ExecutionsBacked

\* The fleet is finite, of N replicas.
LEMMA NodeFinite == IsFiniteSet(Node) /\ Cardinality(Node) = N
BY ConstantsAssumption, FS_Interval DEF Node

\* A set of replicas that holds another has at least as many.
LEMMA MoreNodes ==
    ASSUME NEW S \in SUBSET Node, NEW T \in SUBSET S
    PROVE  /\ Cardinality(S) \in Nat /\ Cardinality(T) \in Nat
           /\ Cardinality(T) <= Cardinality(S)
BY NodeFinite, FS_Subset, FS_CardinalityType

\* The voters of a log that has grown are no fewer.
LEMMA MoreVoters ==
    ASSUME NEW log, NEW more, NEW s, log \subseteq more, Cardinality(Voters(log, s)) >= Quorum
    PROVE  Cardinality(Voters(more, s)) >= Quorum
<1>1. Voters(more, s) \in SUBSET Node /\ Voters(log, s) \in SUBSET Voters(more, s)
  BY DEF Voters
<1> QED
  BY <1>1, MoreNodes, QuorumIsNat

\* A log to which the vote <<s, p>> was added has p among the voters for s.
LEMMA VotersWith ==
    ASSUME NEW log, NEW s, NEW p \in Node
    PROVE  Voters(log \cup {<<s, p>>}, s) = Voters(log, s) \cup {p}
BY DEF Voters

\* What a handler returns, and on which condition: a COMMIT on a certificate of
\* PREPAREs, a reply on one of COMMITs.
LEMMA ResponseGuards ==
    ASSUME NEW n \in Node, NEW m \in Message, NEW r \in Response(n, m)
    PROVE  /\ ~Ignores(n, m)
           /\ r.phase = "PREPARE" => m.phase = "PRE_PREPARE" /\ Slot(r) = Slot(m) /\ r.node = n
           /\ r.phase = "COMMIT" =>
                 m.phase = "PREPARE" /\ Prepared(n, m) /\ Slot(r) = Slot(m) /\ r.node = n
           /\ r.phase = "REPLY" =>
                 m.phase = "COMMIT" /\ Committed(n, m) /\ Slot(r) = Slot(m) /\ r.node = n
           /\ r.phase = "NEW_VIEW" =>
                 m.phase = "VIEW_CHANGE" /\ AnnouncesView(n, m) /\ r.view = m.view /\ r.node = n
           /\ r.phase # "VIEW_CHANGE"
<1>1. \A phase \in Votes :
         /\ Vote(n, m, phase).phase = phase
         /\ Slot(Vote(n, m, phase)) = Slot(m)
         /\ Vote(n, m, phase).node = n
  BY VoteType DEF Votes
<1> DEFINE reply == [Vote(n, m, "REPLY") EXCEPT !.payload = Execute(m.payload)]
<1>2. reply.phase = "REPLY" /\ Slot(reply) = Slot(m) /\ reply.node = n
  BY <1>1, VoteType DEF Votes, Message, Slot
<1>3. NewView(n, m.view).phase = "NEW_VIEW" /\ NewView(n, m.view).view = m.view
      /\ NewView(n, m.view).node = n
  BY DEF NewView
<1>4. /\ ~Ignores(n, m)
      /\ \/ m.phase = "PRE_PREPARE" /\ r = Vote(n, m, "PREPARE")
         \/ m.phase = "PREPARE" /\ Prepared(n, m) /\ r = Vote(n, m, "COMMIT")
         \/ m.phase = "COMMIT" /\ Committed(n, m) /\ r = reply
         \/ m.phase = "VIEW_CHANGE" /\ AnnouncesView(n, m) /\ r = NewView(n, m.view)
  BY DEF Response
<1> HIDE DEF reply
<1> QED
  BY <1>1, <1>2, <1>3, <1>4 DEF Votes

\* The answers that are not withheld.
LEMMA ResponseSent ==
    ASSUME NEW n \in Node, NEW m \in Message, ~Ignores(n, m)
    PROVE  /\ m.phase = "PRE_PREPARE" =>
                 \E r \in Response(n, m) : r.phase = "PREPARE" /\ Slot(r) = Slot(m) /\ r.node = n
           /\ m.phase = "PREPARE" /\ Prepared(n, m) =>
                 \E r \in Response(n, m) : r.phase = "COMMIT" /\ Slot(r) = Slot(m) /\ r.node = n
           /\ m.phase = "COMMIT" /\ Committed(n, m) =>
                 \E r \in Response(n, m) : r.phase = "REPLY" /\ Slot(r) = Slot(m) /\ r.node = n
           /\ m.phase = "VIEW_CHANGE" /\ AnnouncesView(n, m) =>
                 \E r \in Response(n, m) : r.phase = "NEW_VIEW" /\ r.view = m.view
<1>1. \A phase \in Votes :
         /\ Vote(n, m, phase).phase = phase
         /\ Slot(Vote(n, m, phase)) = Slot(m)
         /\ Vote(n, m, phase).node = n
  BY VoteType DEF Votes
<1> DEFINE reply == [Vote(n, m, "REPLY") EXCEPT !.payload = Execute(m.payload)]
<1>2. reply.phase = "REPLY" /\ Slot(reply) = Slot(m) /\ reply.node = n
  BY <1>1, VoteType DEF Votes, Message, Slot
<1>3. NewView(n, m.view).phase = "NEW_VIEW" /\ NewView(n, m.view).view = m.view
  BY DEF NewView
<1>4. /\ m.phase = "PRE_PREPARE" => Vote(n, m, "PREPARE") \in Response(n, m)
      /\ m.phase = "PREPARE" /\ Prepared(n, m) => Vote(n, m, "COMMIT") \in Response(n, m)
      /\ m.phase = "COMMIT" /\ Committed(n, m) => reply \in Response(n, m)
      /\ m.phase = "VIEW_CHANGE" /\ AnnouncesView(n, m) => NewView(n, m.view) \in Response(n, m)
  BY DEF Response
<1> HIDE DEF reply
<1> QED
  BY <1>1, <1>2, <1>3, <1>4 DEF Votes

\* Logs, transport and executions only grow.
LEMMA LogsGrow ==
    ASSUME TypeOK, [Next]_vars
    PROVE  /\ net \subseteq net'
           /\ \A n \in Node : /\ prePrepareLog[n] \subseteq prePrepareLog'[n]
                              /\ prepareLog[n] \subseteq prepareLog'[n]
                              /\ commitLog[n] \subseteq commitLog'[n]
           /\ \A phase, s : Senders(phase, s) \subseteq Senders(phase, s)'
<1> DEFINE Grown ==
      /\ net \subseteq net'
      /\ \A n \in Node : /\ prePrepareLog[n] \subseteq prePrepareLog'[n]
                         /\ prepareLog[n] \subseteq prepareLog'[n]
                         /\ commitLog[n] \subseteq commitLog'[n]
<1>1. Grown
  <2>1. ASSUME NEW n \in Node, NEW p \in Payload, HandleRequest(n, p)
        PROVE  Grown
    BY <2>1 DEF HandleRequest, TypeOK
  <2>2. ASSUME NEW n \in Node, StartViewChange(n)
        PROVE  Grown
    BY <2>2 DEF StartViewChange, voteVars
  <2>3. ASSUME NEW n \in Node, NEW m \in net, HandlePrePrepare(n, m)
        PROVE  Grown
    BY <2>3 DEF HandlePrePrepare, TypeOK
  <2>4. ASSUME NEW n \in Node, NEW m \in net, HandlePrepare(n, m)
        PROVE  Grown
    BY <2>4 DEF HandlePrepare, TypeOK
  <2>5. ASSUME NEW n \in Node, NEW m \in net, HandleCommit(n, m)
        PROVE  Grown
    BY <2>5 DEF HandleCommit, TypeOK
  <2>6. ASSUME NEW n \in Node, NEW m \in net, HandleViewChange(n, m) \/ HandleNewView(n, m)
        PROVE  Grown
    BY <2>6 DEF HandleViewChange, HandleNewView, voteVars
  <2>7. CASE UNCHANGED vars
    BY <2>7 DEF vars
  <2> QED
    BY <2>1, <2>2, <2>3, <2>4, <2>5, <2>6, <2>7 DEF Next, Handle
<1> QED
  BY <1>1 DEF Senders, Sent

\* Every step that adds messages: a request, a view change, or an answer.
LEMMA NewMessages ==
    ASSUME TypeOK, [Next]_vars, NEW r \in net' \ net
    PROVE  \/ r.phase \in {"PRE_PREPARE", "VIEW_CHANGE"}
           \/ \E n \in Node, m \in net : Handle(n, m) /\ r \in Response(n, m)
<1>1. ASSUME NEW n \in Node, NEW p \in Payload, HandleRequest(n, p)
      PROVE  r.phase = "PRE_PREPARE"
  BY <1>1 DEF HandleRequest, Proposal
<1>2. ASSUME NEW n \in Node, StartViewChange(n)
      PROVE  r.phase = "VIEW_CHANGE"
  BY <1>2 DEF StartViewChange, ViewChange
<1>3. ASSUME NEW n \in Node, NEW m \in net, Handle(n, m)
      PROVE  r \in Response(n, m)
  BY <1>3 DEF Handle, HandlePrePrepare, HandlePrepare, HandleCommit, HandleViewChange,
              HandleNewView
<1> QED
  BY <1>1, <1>2, <1>3 DEF Next, vars

\* An execution appends the slot of the COMMIT that completed the certificate.
LEMMA ExecutedAppend ==
    ASSUME TypeOK, NEW n \in Node, NEW m \in net, HandleCommit(n, m), Committed(n, m)
    PROVE  /\ Len(executed'[n]) = Len(executed[n]) + 1
           /\ DOMAIN executed[n] = 1 .. Len(executed[n]) /\ Len(executed[n]) \in Nat
           /\ DOMAIN executed'[n] = 1 .. Len(executed[n]) + 1
           /\ \A i \in 1 .. Len(executed[n]) : executed'[n][i] = executed[n][i]
           /\ executed'[n][Len(executed[n]) + 1].slot = Slot(m)
           /\ \A k \in Node \ {n} : executed'[k] = executed[k]
<1> DEFINE T == [slot : Slots, result : Payload \cup {Empty}]
           entry == [slot |-> Slot(m), result |-> Execute(m.payload)]
<1>1. executed' = [executed EXCEPT ![n] = Append(executed[n], entry)]
  BY DEF HandleCommit
<1>2. executed \in [Node -> Seq(T)]
  BY DEF TypeOK
<1>3. entry.slot = Slot(m)
  OBVIOUS
<1> HIDE DEF T, entry
<1>4. executed[n] \in Seq(T) /\ executed'[n] = Append(executed[n], entry)
      /\ \A k \in Node \ {n} : executed'[k] = executed[k]
  BY <1>1, <1>2
<1> QED
  BY <1>3, <1>4

\* The slots executed change by an execution only, and by its slot.
LEMMA ExecutedSlotsGrow ==
    ASSUME TypeOK, [Next]_vars, NEW n \in Node
    PROVE  \/ /\ executed'[n] = executed[n]
              /\ ExecutedSlots(n)' = ExecutedSlots(n)
           \/ \E m \in net : /\ HandleCommit(n, m) /\ Committed(n, m)
                             /\ ExecutedSlots(n)' = ExecutedSlots(n) \cup {Slot(m)}
<1>1. CASE executed'[n] = executed[n]
  BY <1>1 DEF ExecutedSlots
<1>2. CASE executed'[n] # executed[n]
  <2>1. PICK k \in Node, m \in net : HandleCommit(k, m) /\ Committed(k, m)
    <3>1. \E k \in Node, m \in net : HandleCommit(k, m)
      BY <1>2 DEF Next, vars, Handle, HandleRequest, StartViewChange, HandlePrePrepare,
                  HandlePrepare, HandleViewChange, HandleNewView, voteVars
    <3>2. \A k \in Node, m \in net : HandleCommit(k, m) => Committed(k, m)
      BY <1>2 DEF HandleCommit
    <3> QED
      BY <3>1, <3>2
  <2>2. k = n
    BY <1>2, <2>1, ExecutedAppend
  <2>3. ExecutedSlots(n)' = {executed'[n][i].slot : i \in DOMAIN executed'[n]}
    BY DEF ExecutedSlots
  <2> DEFINE L == Len(executed[n])
  <2>4. /\ DOMAIN executed[n] = 1 .. L /\ L \in Nat
        /\ DOMAIN executed'[n] = (1 .. L) \cup {L + 1}
        /\ \A i \in 1 .. L : executed'[n][i] = executed[n][i]
        /\ executed'[n][L + 1].slot = Slot(m)
    BY <2>1, <2>2, ExecutedAppend
  <2> HIDE DEF L
  <2>5. ExecutedSlots(n)' = ExecutedSlots(n) \cup {Slot(m)}
    BY <2>3, <2>4 DEF ExecutedSlots
  <2> QED
    BY <2>1, <2>2, <2>5
<1> QED
  BY <1>1, <1>2

\* Every step keeps the certificates.
LEMMA CertNext == TypeOK /\ CertInv /\ [Next]_vars => CertInv'
<1> SUFFICES ASSUME TypeOK, CertInv, [Next]_vars PROVE CertInv'
  OBVIOUS
<1>0. net \subseteq Message
  BY DEF TypeOK
<1>1. VotesSent'
  <2> SUFFICES ASSUME NEW n \in Node, NEW s \in Slots, NEW p \in Node
               PROVE  /\ <<s, p>> \in prepareLog'[n] => p \in Senders("PREPARE", s)'
                      /\ <<s, p>> \in commitLog'[n] => p \in Senders("COMMIT", s)'
    BY DEF VotesSent
  <2>1. ASSUME <<s, p>> \in prepareLog'[n], <<s, p>> \notin prepareLog[n]
        PROVE  p \in Senders("PREPARE", s)'
    <3>1. \E m \in net : \/ HandlePrePrepare(n, m) /\ s = Slot(m) /\ p = n
                         \/ HandlePrepare(n, m) /\ s = Slot(m) /\ p = m.node
      <4>1. PICK k \in Node, m \in net : HandlePrePrepare(k, m) \/ HandlePrepare(k, m)
        BY <2>1 DEF Next, vars, Handle, HandleRequest, StartViewChange, HandleCommit,
                    HandleViewChange, HandleNewView, voteVars
      <4>2. CASE HandlePrePrepare(k, m)
        BY <2>1, <4>2 DEF HandlePrePrepare, TypeOK
      <4>3. CASE HandlePrepare(k, m)
        BY <2>1, <4>3 DEF HandlePrepare, TypeOK
      <4> QED
        BY <4>1, <4>2, <4>3
    <3>2. ASSUME NEW m \in net, HandlePrePrepare(n, m), s = Slot(m), p = n
          PROVE  p \in Senders("PREPARE", s)'
      BY <1>0, <3>2, ResponseSent DEF HandlePrePrepare, Senders, Sent
    <3>3. ASSUME NEW m \in net, HandlePrepare(n, m), s = Slot(m), p = m.node
          PROVE  p \in Senders("PREPARE", s)'
      BY <3>3 DEF HandlePrepare, Senders, Sent
    <3> QED
      BY <3>1, <3>2, <3>3
  <2>2. ASSUME <<s, p>> \in commitLog'[n], <<s, p>> \notin commitLog[n]
        PROVE  p \in Senders("COMMIT", s)'
    <3>1. \E m \in net : \/ HandlePrepare(n, m) /\ Prepared(n, m) /\ s = Slot(m) /\ p = n
                         \/ HandleCommit(n, m) /\ s = Slot(m) /\ p = m.node
      <4>1. PICK k \in Node, m \in net : HandlePrepare(k, m) \/ HandleCommit(k, m)
        BY <2>2 DEF Next, vars, Handle, HandleRequest, StartViewChange, HandlePrePrepare,
                    HandleViewChange, HandleNewView, voteVars
      <4>2. CASE HandlePrepare(k, m)
        BY <2>2, <4>2 DEF HandlePrepare, TypeOK
      <4>3. CASE HandleCommit(k, m)
        BY <2>2, <4>3 DEF HandleCommit, TypeOK
      <4> QED
        BY <4>1, <4>2, <4>3
    <3>2. ASSUME NEW m \in net, HandlePrepare(n, m), Prepared(n, m), s = Slot(m), p = n
          PROVE  p \in Senders("COMMIT", s)'
      BY <1>0, <3>2, ResponseSent DEF HandlePrepare, Senders, Sent
    <3>3. ASSUME NEW m \in net, HandleCommit(n, m), s = Slot(m), p = m.node
          PROVE  p \in Senders("COMMIT", s)'
      BY <3>3 DEF HandleCommit, Senders, Sent
    <3> QED
      BY <3>1, <3>2, <3>3
  <2>3. <<s, p>> \in prepareLog[n] => p \in Senders("PREPARE", s)'
    BY LogsGrow DEF CertInv, VotesSent
  <2>4. <<s, p>> \in commitLog[n] => p \in Senders("COMMIT", s)'
    BY LogsGrow DEF CertInv, VotesSent
  <2> QED
    BY <2>1, <2>2, <2>3, <2>4
<1>2. CommitsBacked'
  <2> SUFFICES ASSUME NEW c \in net', c.phase = "COMMIT"
               PROVE  /\ Slot(c) \in prePrepareLog'[c.node]
                      /\ Cardinality(Voters(prepareLog'[c.node], Slot(c))) >= Quorum
    BY DEF CommitsBacked, Slot, Voters, Node, Quorum, F
  <2>1. CASE c \in net
    <3>1. c.node \in Node
      BY <1>0, <2>1 DEF Message
    <3> QED
      BY <2>1, <3>1, LogsGrow, MoreVoters DEF CertInv, CommitsBacked
  <2>2. CASE c \notin net
    <3>1. PICK n \in Node, m \in net : Handle(n, m) /\ c \in Response(n, m)
      BY <2>2, NewMessages
    <3>2. m.phase = "PREPARE" /\ Prepared(n, m) /\ Slot(c) = Slot(m) /\ c.node = n
      BY <1>0, <3>1, ResponseGuards
    <3>3. /\ prepareLog'[n] = prepareLog[n] \cup {<<Slot(m), m.node>>}
          /\ prePrepareLog'[n] = prePrepareLog[n]
      BY <3>1, <3>2 DEF Handle, HandlePrePrepare, HandlePrepare, HandleCommit, HandleViewChange,
                        HandleNewView, TypeOK
    <3>4. m.node \in Node
      BY <1>0 DEF Message
    <3>5. Voters(prepareLog'[n], Slot(m)) = Voters(prepareLog[n], Slot(m)) \cup {m.node}
      BY <3>3, <3>4, VotersWith
    <3> QED
      BY <3>2, <3>3, <3>5 DEF Prepared
  <2> QED
    BY <2>1, <2>2
<1>3. ExecutionsBacked'
  <2> SUFFICES ASSUME NEW n \in Node, NEW s \in ExecutedSlots(n)'
               PROVE  Cardinality(Voters(commitLog'[n], s)) >= Quorum
    BY DEF ExecutionsBacked, Voters, Node, Quorum, F
  <2>1. CASE s \in ExecutedSlots(n)
    BY <2>1, LogsGrow, MoreVoters DEF CertInv, ExecutionsBacked
  <2>2. CASE s \notin ExecutedSlots(n)
    <3>1. PICK m \in net : HandleCommit(n, m) /\ Committed(n, m) /\ s = Slot(m)
      BY <2>2, ExecutedSlotsGrow
    <3>2. commitLog'[n] = commitLog[n] \cup {<<s, m.node>>} /\ m.node \in Node
      BY <1>0, <3>1 DEF HandleCommit, TypeOK, Message
    <3> QED
      BY <3>1, <3>2, VotersWith DEF Committed
  <2> QED
    BY <2>1, <2>2
<1> QED
  BY <1>1, <1>2, <1>3 DEF CertInv

\* No vote, no execution at the start.
LEMMA CertInit == Init => CertInv
BY DEF Init, CertInv, VotesSent, CommitsBacked, ExecutionsBacked, ExecutedSlots

\* Certificates hold throughout.
LEMMA CertAlways == Spec => [](TypeOK /\ CertInv)
BY CertInit, CertNext, TypeCorrect, PTL DEF Spec

\* A slot that was executed was committed by a quorum.
LEMMA ExecutedCommitted ==
    ASSUME TypeOK, CertInv, NEW n \in Node, NEW s \in ExecutedSlots(n)
    PROVE  /\ Senders("COMMIT", s) \in SUBSET Node
           /\ Cardinality(Senders("COMMIT", s)) >= Quorum
           /\ \A p \in Senders("COMMIT", s) : s \in prePrepareLog[p]
           /\ \A p \in Senders("COMMIT", s) : Cardinality(Voters(prepareLog[p], s)) >= Quorum
<1>1. s \in Slots
  BY ExecutedSlotsType
<1>2. Senders("COMMIT", s) \in SUBSET Node
  BY DEF Senders, Sent, TypeOK, Message
<1>3. Voters(commitLog[n], s) \in SUBSET Senders("COMMIT", s)
  BY <1>1 DEF CertInv, VotesSent, Voters
<1>4. Cardinality(Voters(commitLog[n], s)) >= Quorum
  BY DEF CertInv, ExecutionsBacked
<1>5. Cardinality(Senders("COMMIT", s)) >= Quorum
  BY <1>2, <1>3, <1>4, MoreNodes, QuorumIsNat
<1> QED
  BY <1>2, <1>5 DEF CertInv, CommitsBacked, Senders, Sent

\* Whatever is lost, delayed, reordered or delivered twice, an execution rests
\* on COMMITs of a quorum of distinct replicas, each of which had PREPAREs of a
\* quorum of distinct replicas.
THEOREM CertificatesHold == Spec => []CommitCertificate
<1>1. TypeOK /\ CertInv => CommitCertificate
  <2> SUFFICES ASSUME TypeOK, CertInv, NEW n \in Node, NEW s \in ExecutedSlots(n)
               PROVE  /\ Cardinality(Senders("COMMIT", s)) >= Quorum
                      /\ \A p \in Senders("COMMIT", s) :
                            /\ Voters(prepareLog[p], s) \subseteq Senders("PREPARE", s)
                            /\ Cardinality(Voters(prepareLog[p], s)) >= Quorum
    BY DEF CommitCertificate
  <2>1. s \in Slots
    BY ExecutedSlotsType
  <2>2. \A p \in Node : Voters(prepareLog[p], s) \subseteq Senders("PREPARE", s)
    BY <2>1 DEF CertInv, VotesSent, Voters
  <2> QED
    BY <2>2, ExecutedCommitted
<1> QED
  BY <1>1, CertAlways, PTL

\* Two quorums share a replica.
QuorumsMeet ==
    \A P, Q \in SUBSET Node :
        Cardinality(P) >= Quorum /\ Cardinality(Q) >= Quorum => P \cap Q # {}

LEMMA LargeQuorums == N \notin {2, 3, 6} => 2 * Quorum > N
<1>. SUFFICES ASSUME N \notin {2, 3, 6} PROVE 2 * Quorum > N
  OBVIOUS
<1>1. N \in Nat /\ N >= 1 /\ F \in Nat /\ 3 * F <= N - 1 /\ N - 1 < 3 * F + 3
  BY ConstantsAssumption DEF F
<1>2. CASE F >= 2
  BY <1>1, <1>2 DEF Quorum
<1>3. CASE F = 0
  BY <1>1, <1>3 DEF Quorum
<1>4. CASE F = 1
  BY <1>1, <1>4 DEF Quorum
<1>. QED BY <1>1, <1>2, <1>3, <1>4

\* The quorum that a replica computes from the size of its fleet, 2f+1 with
\* f = (n-1) div 3, is one that any two of which meet for every size but three: two
\* halves of a fleet of 6 are quorums without a common replica.
THEOREM WhereQuorumsMeet == QuorumsMeet <=> N \notin {2, 3, 6}
<1>1. ASSUME N \notin {2, 3, 6}, NEW P \in SUBSET Node, NEW Q \in SUBSET Node,
             Cardinality(P) >= Quorum, Cardinality(Q) >= Quorum
      PROVE  P \cap Q # {}
  <2>1. Cardinality(P) \in Nat /\ Cardinality(Q) \in Nat /\ P \subseteq Node /\ Q \subseteq Node
    BY MoreNodes
  <2>2. Cardinality(P) + Cardinality(Q) > Cardinality(Node)
    BY <1>1, <2>1, LargeQuorums, NodeFinite, QuorumIsNat, ConstantsAssumption
  <2>. QED BY <2>1, <2>2, NodeFinite, FS_MajoritiesIntersect
<1>2. ASSUME N \in {2, 3, 6} PROVE ~QuorumsMeet
  <2> DEFINE P == 0 .. Quorum - 1
             Q == Quorum .. 2 * Quorum - 1
  <2>1. Quorum \in Nat /\ 2 * Quorum <= N /\ N \in Nat
    BY <1>2 DEF Quorum, F
  <2>2. P \in SUBSET Node /\ Q \in SUBSET Node /\ P \cap Q = {}
    BY <2>1 DEF Node
  <2>3. Cardinality(P) = Quorum /\ Cardinality(Q) = Quorum
    BY <2>1, FS_Interval
  <2> HIDE DEF P, Q
  <2>. QED BY <2>1, <2>2, <2>3 DEF QuorumsMeet
<1>. QED BY <1>1, <1>2 DEF QuorumsMeet

\* Two quorums meet but in fleets of 2, 3 and 6, and those who committed a slot
\* accepted its proposal: every quorum has a member that knows each slot executed.
THEOREM DecisionsSurvive == Spec => []DecisionSurvives
<1>1. TypeOK /\ CertInv => DecisionSurvives
  <2> SUFFICES ASSUME TypeOK, CertInv, N \notin {2, 3, 6}, NEW n \in Node, NEW s \in ExecutedSlots(n),
                      NEW Q \in SUBSET Node, Cardinality(Q) >= Quorum
               PROVE  \E p \in Q : s \in prePrepareLog[p]
    BY DEF DecisionSurvives
  <2> DEFINE C == Senders("COMMIT", s)
  <2>1. C \in SUBSET Node /\ Cardinality(C) >= Quorum /\ \A p \in C : s \in prePrepareLog[p]
    BY ExecutedCommitted
  <2> HIDE DEF C
  <2>2. C \cap Q # {}
    BY <2>1, WhereQuorumsMeet DEF QuorumsMeet
  <2> QED
    BY <2>1, <2>2
<1> QED
  BY <1>1, CertAlways, PTL

-----------------------------------------------------------------------------
(* Executions and replies.                                                 *)

\* Every step keeps the executed slots distinct, and the replies those of the
\* executed slots.
LEMMA OnceNext == TypeOK /\ ExecutedOnce /\ [Next]_vars => ExecutedOnce'
<1> SUFFICES ASSUME TypeOK, ExecutedOnce, [Next]_vars, NEW n \in Node
             PROVE  /\ \A i, j \in DOMAIN executed'[n] :
                          executed'[n][i].slot = executed'[n][j].slot => i = j
                    /\ \A s \in Slots : s \in ExecutedSlots(n)' <=> n \in Senders("REPLY", s)'
  BY DEF ExecutedOnce, Node, Slots, View, SeqNum
<1>0. net \subseteq Message
  BY DEF TypeOK
<1>1. \A i, j \in DOMAIN executed'[n] : executed'[n][i].slot = executed'[n][j].slot => i = j
  <2>1. CASE executed'[n] = executed[n]
    BY <2>1 DEF ExecutedOnce
  <2>2. ASSUME NEW m \in net, HandleCommit(n, m), Committed(n, m)
        PROVE  <1>1
    <3> DEFINE L == Len(executed[n])
    <3>1. /\ DOMAIN executed[n] = 1 .. L /\ L \in Nat
          /\ DOMAIN executed'[n] = (1 .. L) \cup {L + 1}
          /\ \A i \in 1 .. L : executed'[n][i] = executed[n][i]
          /\ executed'[n][L + 1].slot = Slot(m)
      BY <2>2, ExecutedAppend
    <3>2. \A i \in 1 .. L : executed[n][i].slot # Slot(m)
      BY <2>2, <3>1 DEF Committed, ExecutedSlots
    <3> HIDE DEF L
    <3> QED
      BY <3>1, <3>2 DEF ExecutedOnce
  <2> QED
    BY <2>1, <2>2, ExecutedSlotsGrow
<1>2. ASSUME NEW s \in Slots, s \in ExecutedSlots(n)'
      PROVE  n \in Senders("REPLY", s)'
  <2>1. CASE s \in ExecutedSlots(n)
    BY <2>1, LogsGrow DEF ExecutedOnce
  <2>2. CASE s \notin ExecutedSlots(n)
    <3>1. PICK m \in net : HandleCommit(n, m) /\ Committed(n, m) /\ s = Slot(m)
      BY <1>2, <2>2, ExecutedSlotsGrow
    <3> QED
      BY <1>0, <3>1, ResponseSent DEF HandleCommit, Senders, Sent
  <2> QED
    BY <2>1, <2>2
<1>3. ASSUME NEW s \in Slots, n \in Senders("REPLY", s)'
      PROVE  s \in ExecutedSlots(n)'
  <2>1. CASE n \in Senders("REPLY", s)
    BY <2>1, ExecutedSlotsGrow DEF ExecutedOnce
  <2>2. CASE n \notin Senders("REPLY", s)
    <3>1. PICK r \in net' : r.phase = "REPLY" /\ Slot(r) = s /\ r.node = n
      BY <1>3 DEF Senders, Sent, Slot
    <3>2. r \notin net
      BY <2>2, <3>1 DEF Senders, Sent
    <3>3. PICK k \in Node, m \in net : Handle(k, m) /\ r \in Response(k, m)
      BY <3>1, <3>2, NewMessages
    <3>4. m.phase = "COMMIT" /\ Committed(k, m) /\ Slot(m) = s /\ k = n
      BY <1>0, <3>1, <3>3, ResponseGuards
    <3>5. HandleCommit(n, m)
      BY <3>3, <3>4 DEF Handle, HandlePrePrepare, HandlePrepare, HandleViewChange, HandleNewView
    <3>6. /\ DOMAIN executed'[n] = 1 .. Len(executed[n]) + 1 /\ Len(executed[n]) \in Nat
          /\ executed'[n][Len(executed[n]) + 1].slot = s
      BY <3>4, <3>5, ExecutedAppend
    <3> QED
      BY <3>6 DEF ExecutedSlots
  <2> QED
    BY <2>1, <2>2
<1> QED
  BY <1>1, <1>2, <1>3

\* However often COMMITs arrive, and after any view changes, a replica executes
\* a slot once and has answered exactly the slots it executed.
THEOREM ExecutesOnce == Spec => []ExecutedOnce
<1>1. Init => ExecutedOnce
  BY DEF Init, ExecutedOnce, ExecutedSlots, Senders, Sent
<1> QED
  BY <1>1, OnceNext, TypeCorrect, PTL DEF Spec

-----------------------------------------------------------------------------
(* Announced views.                                                        *)

\* Every step keeps the announcement of the views that replicas work in.
LEMMA AnnouncedNext == TypeOK /\ ViewAnnounced /\ [Next]_vars => ViewAnnounced'
<1> SUFFICES ASSUME TypeOK, ViewAnnounced, [Next]_vars PROVE ViewAnnounced'
  OBVIOUS
<1>0. net \subseteq Message /\ view \in [Node -> Nat]
  BY ConstantsAssumption DEF TypeOK, View
<1>1. ASSUME NEW m \in net', m.phase = "NEW_VIEW"
      PROVE  m.node = Primary(m.view) /\ \E r \in net' : r.phase = "VIEW_CHANGE" /\ r.view = m.view
  <2>1. CASE m \in net
    BY <1>1, <2>1, LogsGrow DEF ViewAnnounced
  <2>2. CASE m \notin net
    <3>1. PICK n \in Node, q \in net : Handle(n, q) /\ m \in Response(n, q)
      BY <1>1, <2>2, NewMessages
    <3>2. q.phase = "VIEW_CHANGE" /\ AnnouncesView(n, q) /\ m.view = q.view /\ m.node = n
      BY <1>0, <1>1, <3>1, ResponseGuards
    <3> QED
      BY <3>2, LogsGrow DEF AnnouncesView
  <2> QED
    BY <2>1, <2>2
<1>2. ASSUME NEW n \in Node, ~inViewChange'[n], view'[n] > 0
      PROVE  \E m \in net' : m.phase = "NEW_VIEW" /\ m.view >= view'[n]
  <2>1. CASE inViewChange'[n] = inViewChange[n] /\ view'[n] = view[n]
    BY <1>2, <2>1, LogsGrow DEF ViewAnnounced
  <2>2. ASSUME NEW k \in Node, StartViewChange(k)
        PROVE  inViewChange'[n] = inViewChange[n] /\ view'[n] = view[n]
    BY <1>2, <2>2 DEF StartViewChange, TypeOK
  <2>3. ASSUME NEW k \in Node, NEW q \in net, HandleViewChange(k, q), inViewChange'[n] # inViewChange[n]
        PROVE  \E m \in net' : m.phase = "NEW_VIEW" /\ m.view >= view'[n]
    <3>1. AnnouncesView(k, q) /\ k = n /\ view'[n] = view[n] /\ q.view >= view[n]
      <4>1. q.view \in Nat
        BY <1>0, ConstantsAssumption DEF Message, View
      <4>2. AnnouncesView(k, q) /\ inViewChange' = [inViewChange EXCEPT ![k] = FALSE] /\ view' = view
        BY <2>3 DEF HandleViewChange
      <4>3. k = n
        BY <2>3, <4>2 DEF TypeOK
      <4>4. ~(q.view < view[k])
        BY <2>3 DEF HandleViewChange, Ignores
      <4> QED
        BY <1>0, <4>1, <4>2, <4>3, <4>4
    <3>2. \E m \in Response(n, q) : m.phase = "NEW_VIEW" /\ m.view = q.view
      BY <1>0, <2>3, <3>1, ResponseSent DEF HandleViewChange
    <3> QED
      BY <2>3, <3>1, <3>2 DEF HandleViewChange
  <2>4. ASSUME NEW k \in Node, NEW q \in net, HandleViewChange(k, q)
        PROVE  view' = view
    BY <2>4 DEF HandleViewChange
  <2>5. ASSUME NEW k \in Node, NEW q \in net, HandleNewView(k, q)
        PROVE  \/ inViewChange'[n] = inViewChange[n] /\ view'[n] = view[n]
               \/ \E m \in net' : m.phase = "NEW_VIEW" /\ m.view >= view'[n]
    <3>1. q.view \in Nat
      BY <1>0, ConstantsAssumption DEF Message, View
    <3>2. /\ q.phase = "NEW_VIEW" /\ net' = net
          /\ view' = [view EXCEPT ![k] = q.view] /\ inViewChange' = [inViewChange EXCEPT ![k] = FALSE]
      BY <2>5 DEF HandleNewView
    <3>3. ASSUME k = n PROVE q \in net' /\ q.phase = "NEW_VIEW" /\ q.view >= view'[n]
      <4>1. view'[n] = q.view
        BY <1>0, <3>2, <3>3
      <4> QED
        BY <3>1, <3>2, <4>1
    <3>4. ASSUME k # n PROVE inViewChange'[n] = inViewChange[n] /\ view'[n] = view[n]
      BY <3>2, <3>4 DEF TypeOK
    <3> QED
      BY <3>3, <3>4
  <2>6. ASSUME NEW k \in Node, NEW p \in Payload, HandleRequest(k, p)
        PROVE  inViewChange' = inViewChange /\ view' = view
    BY <2>6 DEF HandleRequest, viewVars
  <2>7. ASSUME NEW k \in Node, NEW q \in net, HandlePrePrepare(k, q) \/ HandlePrepare(k, q) \/ HandleCommit(k, q)
        PROVE  inViewChange' = inViewChange /\ view' = view
    BY <2>7 DEF HandlePrePrepare, HandlePrepare, HandleCommit, viewVars
  <2>8. CASE UNCHANGED vars
    BY <2>1, <2>8 DEF vars
  <2> QED
    BY <2>1, <2>2, <2>3, <2>4, <2>5, <2>6, <2>7, <2>8 DEF Next, Handle
<1> QED
  BY <1>1, <1>2 DEF ViewAnnounced, Primary, Node

\* No stale message lets a replica work in a view that its primary, or that of a
\* later view, has not announced.
THEOREM ViewsAnnounced == Spec => []ViewAnnounced
<1>1. Init => ViewAnnounced
  BY DEF Init, ViewAnnounced
<1> QED
  BY <1>1, AnnouncedNext, TypeCorrect, PTL DEF Spec
=============================================================================
