------------------------------ MODULE PBFTNode ------------------------------
(***************************************************************************)
(* The PBFT replica of swarm/fleet_bft_qd.py (class PBFTNode), every       *)
(* handler an action, among replicas that follow the code over a transport *)
(* that loses, delays, reorders and duplicates messages but forges none.   *)
(* A message that a handler returns is put in net; a replica may handle    *)
(* any message of net, any number of times, or never (a crashed replica is *)
(* one that handles nothing more: nothing is persisted).                   *)
(*                                                                         *)
(* Replicas are 0 .. N-1, their index in the sorted list all_nodes.  The   *)
(* vote logs are dictionaries (view, seq) -> set of senders; a log is here *)
(* the set of pairs <<slot, sender>>.  Signatures, timestamps and the      *)
(* confidence of a message change no branch and are left out.              *)
(***************************************************************************)
EXTENDS Integers, Sequences, FiniteSets

CONSTANTS
    N,                   \* len(all_nodes)
    Payload,             \* the operations a client may request
    Empty,               \* the payload {} of PREPARE and COMMIT, and those of VIEW_CHANGE
                         \* and NEW_VIEW, which no handler reads
    CheckpointInterval,  \* 100 in handle_commit
    MaxView,             \* bound: no view change starts from this view
    MaxSeq               \* bound: requests one replica may number

ASSUME ConstantsAssumption ==
    /\ N \in Nat \ {0}
    /\ Empty \notin Payload
    /\ CheckpointInterval \in Nat \ {0}
    /\ MaxView \in Nat
    /\ MaxSeq \in Nat

VARIABLES
    view,            \* view_number of each replica
    seqNum,          \* seq_num: only a replica acting as primary advances it
    inViewChange,    \* _in_view_change
    prePrepareLog,   \* slots with a PRE-PREPARE logged, per replica
    prepareLog,      \* _prepare_log
    commitLog,       \* _commit_log
    viewChangeLog,   \* length of the _view_change_log[v] that Primary(v) keeps
    executed,        \* the entries of _executed, in the order of the executions
    lastCheckpoint,  \* max(_checkpoints.keys()), 0 if empty: all that is read of it
    net              \* every message a handler has returned

voteVars == <<prePrepareLog, prepareLog, commitLog, executed, lastCheckpoint>>
viewVars == <<view, inViewChange, viewChangeLog>>
vars == <<view, seqNum, inViewChange, prePrepareLog, prepareLog, commitLog,
          viewChangeLog, executed, lastCheckpoint, net>>

Node == 0 .. N - 1
F == (N - 1) \div 3
QuorumOfTwoF == 2 * F                      \* mutant of Quorum: off by one
Quorum == 2 * F + 1
View == 0 .. MaxView
SeqNum == 0 .. MaxSeq
Slots == View \X SeqNum

Primary(v) == v % N
IsPrimary(n) == Primary(view[n]) = n

\* SHA-256 of the canonical payload, taken to be free of collisions.
Digest(p) == <<"sha256", p>>
NoDigest == <<"none">>

Message ==
    [phase   : {"PRE_PREPARE", "PREPARE", "COMMIT", "REPLY", "VIEW_CHANGE", "NEW_VIEW"},
     view    : View,
     seq     : SeqNum,
     digest  : {Digest(p) : p \in Payload} \cup {NoDigest},
     payload : Payload \cup {Empty},
     node    : Node]

Slot(m) == <<m.view, m.seq>>

Voters(log, s) == {p \in Node : <<s, p>> \in log}

\* Base _execute: the result of an operation is its payload.
Execute(payload) == payload

ExecutedSlots(n) == {executed[n][i].slot : i \in DOMAIN executed[n]}

-----------------------------------------------------------------------------
(* What a handler returns.                                                 *)

\* The reply to m in the next phase, for the same slot and digest.
Vote(n, m, phase) == [m EXCEPT !.phase = phase, !.payload = Empty, !.node = n]

Proposal(n, p) ==
    [phase |-> "PRE_PREPARE", view |-> view[n], seq |-> seqNum[n] + 1,
     digest |-> Digest(p), payload |-> p, node |-> n]

ViewChange(n) ==
    [phase |-> "VIEW_CHANGE", view |-> view[n] + 1, seq |-> lastCheckpoint[n],
     digest |-> NoDigest, payload |-> Empty, node |-> n]

NewView(n, v) ==
    [phase |-> "NEW_VIEW", view |-> v, seq |-> 0,
     digest |-> NoDigest, payload |-> Empty, node |-> n]

\* The early returns: m changes nothing at n.
Ignores(n, m) ==
    \/ m.phase \in {"PRE_PREPARE", "PREPARE", "COMMIT"} /\ inViewChange[n]
    \/ m.phase = "PRE_PREPARE" /\ m.node # Primary(m.view)
    \/ m.phase = "PRE_PREPARE" /\ m.digest # Digest(m.payload)
    \/ m.phase = "VIEW_CHANGE" /\ m.view < view[n]
    \/ m.phase = "NEW_VIEW" /\ (m.view < view[n] \/ ~inViewChange[n])
    \/ m.phase = "REPLY"

\* With m counted, n has a PRE-PREPARE and a quorum of PREPAREs for m's slot.
Prepared(n, m) ==
    /\ Slot(m) \in prePrepareLog[n]
    /\ Cardinality(Voters(prepareLog[n], Slot(m)) \cup {m.node}) >= Quorum

\* Mutants of Committed: one vote too few; the executed slots not looked up.
CommittedEarly(n, m) ==
    /\ Cardinality(Voters(commitLog[n], Slot(m)) \cup {m.node}) >= Quorum - 1
    /\ Slot(m) \notin ExecutedSlots(n)
CommittedAgain(n, m) == Cardinality(Voters(commitLog[n], Slot(m)) \cup {m.node}) >= Quorum

\* With m counted, n has a quorum of COMMITs for a slot it has not executed.
Committed(n, m) ==
    /\ Cardinality(Voters(commitLog[n], Slot(m)) \cup {m.node}) >= Quorum
    /\ Slot(m) \notin ExecutedSlots(n)

\* The list of view v is only read by Primary(v), against quorum: its length
\* is kept up to Quorum.
Appended(count) == IF count < Quorum THEN count + 1 ELSE count

\* Mutant of AnnouncesView: one message too few.
AnnouncesViewEarly(n, m) ==
    n = Primary(m.view) /\ Appended(viewChangeLog[m.view]) >= Quorum - 1

AnnouncesView(n, m) == n = Primary(m.view) /\ Appended(viewChangeLog[m.view]) >= Quorum

\* The message, if any, that n returns for m.
Response(n, m) ==
    CASE Ignores(n, m) -> {}
      [] ~Ignores(n, m) /\ m.phase = "PRE_PREPARE" -> {Vote(n, m, "PREPARE")}
      [] ~Ignores(n, m) /\ m.phase = "PREPARE" ->
            IF Prepared(n, m) THEN {Vote(n, m, "COMMIT")} ELSE {}
      [] ~Ignores(n, m) /\ m.phase = "COMMIT" ->
            IF Committed(n, m)
            THEN {[Vote(n, m, "REPLY") EXCEPT !.payload = Execute(m.payload)]}
            ELSE {}
      [] ~Ignores(n, m) /\ m.phase = "VIEW_CHANGE" ->
            IF AnnouncesView(n, m) THEN {NewView(n, m.view)} ELSE {}
      [] OTHER -> {}

-----------------------------------------------------------------------------
Init ==
    /\ view = [n \in Node |-> 0]
    /\ seqNum = [n \in Node |-> 0]
    /\ inViewChange = [n \in Node |-> FALSE]
    /\ prePrepareLog = [n \in Node |-> {}]
    /\ prepareLog = [n \in Node |-> {}]
    /\ commitLog = [n \in Node |-> {}]
    /\ viewChangeLog = [v \in View |-> 0]
    /\ executed = [n \in Node |-> <<>>]
    /\ lastCheckpoint = [n \in Node |-> 0]
    /\ net = {}

\* Mutant of HandleRequest: seq_num is not advanced.
HandleRequestNoAdvance(n, p) ==
    /\ IsPrimary(n)
    /\ seqNum[n] < MaxSeq
    /\ prePrepareLog' = [prePrepareLog EXCEPT ![n] = @ \cup {<<view[n], seqNum[n] + 1>>}]
    /\ net' = net \cup {Proposal(n, p)}
    /\ UNCHANGED <<viewVars, seqNum, prepareLog, commitLog, executed, lastCheckpoint>>

\* The primary numbers a request, even while its own view change is running.
HandleRequest(n, p) ==
    /\ IsPrimary(n)
    /\ seqNum[n] < MaxSeq
    /\ seqNum' = [seqNum EXCEPT ![n] = @ + 1]
    /\ prePrepareLog' = [prePrepareLog EXCEPT ![n] = @ \cup {<<view[n], seqNum[n] + 1>>}]
    /\ net' = net \cup {Proposal(n, p)}
    /\ UNCHANGED <<viewVars, prepareLog, commitLog, executed, lastCheckpoint>>

\* A replica compares the proposal with the primary of m.view, not with its own view.
HandlePrePrepare(n, m) ==
    /\ m.phase = "PRE_PREPARE"
    /\ ~Ignores(n, m)
    /\ prePrepareLog' = [prePrepareLog EXCEPT ![n] = @ \cup {Slot(m)}]
    /\ prepareLog' = [prepareLog EXCEPT ![n] = @ \cup {<<Slot(m), n>>}]
    /\ net' = net \cup Response(n, m)
    /\ UNCHANGED <<viewVars, seqNum, commitLog, executed, lastCheckpoint>>

\* Every PREPARE from the quorum on is answered with a COMMIT.
HandlePrepare(n, m) ==
    /\ m.phase = "PREPARE"
    /\ ~Ignores(n, m)
    /\ prepareLog' = [prepareLog EXCEPT ![n] = @ \cup {<<Slot(m), m.node>>}]
    /\ commitLog' = IF Prepared(n, m)
                    THEN [commitLog EXCEPT ![n] = @ \cup {<<Slot(m), n>>}]
                    ELSE commitLog
    /\ net' = net \cup Response(n, m)
    /\ UNCHANGED <<viewVars, seqNum, prePrepareLog, executed, lastCheckpoint>>

\* What is executed is the payload of the COMMIT that completes the quorum.
HandleCommit(n, m) ==
    /\ m.phase = "COMMIT"
    /\ ~Ignores(n, m)
    /\ commitLog' = [commitLog EXCEPT ![n] = @ \cup {<<Slot(m), m.node>>}]
    /\ IF Committed(n, m)
       THEN /\ executed' = [executed EXCEPT ![n] =
                              Append(@, [slot |-> Slot(m), result |-> Execute(m.payload)])]
            /\ lastCheckpoint' = IF m.seq % CheckpointInterval = 0 /\ m.seq > lastCheckpoint[n]
                                 THEN [lastCheckpoint EXCEPT ![n] = m.seq]
                                 ELSE lastCheckpoint
       ELSE UNCHANGED <<executed, lastCheckpoint>>
    /\ net' = net \cup Response(n, m)
    /\ UNCHANGED <<viewVars, seqNum, prePrepareLog, prepareLog>>

\* Mutant of StartViewChange: _in_view_change is not set.
StartViewChangeOpen(n) ==
    /\ view[n] < MaxView
    /\ view' = [view EXCEPT ![n] = @ + 1]
    /\ viewChangeLog' = IF n = Primary(view[n] + 1)
                        THEN [viewChangeLog EXCEPT ![view[n] + 1] = Appended(@)]
                        ELSE viewChangeLog
    /\ net' = net \cup {ViewChange(n)}
    /\ UNCHANGED <<seqNum, inViewChange, voteVars>>

StartViewChange(n) ==
    /\ view[n] < MaxView
    /\ inViewChange' = [inViewChange EXCEPT ![n] = TRUE]
    /\ view' = [view EXCEPT ![n] = @ + 1]
    /\ viewChangeLog' = IF n = Primary(view[n] + 1)
                        THEN [viewChangeLog EXCEPT ![view[n] + 1] = Appended(@)]
                        ELSE viewChangeLog
    /\ net' = net \cup {ViewChange(n)}
    /\ UNCHANGED <<seqNum, voteVars>>

\* The list counts messages, not senders; announcing a view leaves view[n] alone.
HandleViewChange(n, m) ==
    /\ m.phase = "VIEW_CHANGE"
    /\ ~Ignores(n, m)
    /\ viewChangeLog' = IF n = Primary(m.view)
                        THEN [viewChangeLog EXCEPT ![m.view] = Appended(@)]
                        ELSE viewChangeLog
    /\ inViewChange' = IF AnnouncesView(n, m)
                       THEN [inViewChange EXCEPT ![n] = FALSE]
                       ELSE inViewChange
    /\ net' = net \cup Response(n, m)
    /\ UNCHANGED <<view, seqNum, voteVars>>

HandleNewView(n, m) ==
    /\ m.phase = "NEW_VIEW"
    /\ ~Ignores(n, m)
    /\ view' = [view EXCEPT ![n] = m.view]
    /\ inViewChange' = [inViewChange EXCEPT ![n] = FALSE]
    /\ UNCHANGED <<seqNum, voteVars, viewChangeLog, net>>

\* One call of the handler the transport picks for m.
Handle(n, m) ==
    \/ HandlePrePrepare(n, m)
    \/ HandlePrepare(n, m)
    \/ HandleCommit(n, m)
    \/ HandleViewChange(n, m)
    \/ HandleNewView(n, m)

Next ==
    \E n \in Node :
        \/ \E p \in Payload : HandleRequest(n, p)
        \/ StartViewChange(n)
        \/ \E m \in net : Handle(n, m)

Spec == Init /\ [][Next]_vars

-----------------------------------------------------------------------------
TypeOK ==
    /\ view \in [Node -> View]
    /\ seqNum \in [Node -> SeqNum]
    /\ inViewChange \in [Node -> BOOLEAN]
    /\ prePrepareLog \in [Node -> SUBSET Slots]
    /\ prepareLog \in [Node -> SUBSET (Slots \X Node)]
    /\ commitLog \in [Node -> SUBSET (Slots \X Node)]
    /\ viewChangeLog \in [View -> 0 .. Quorum]
    /\ executed \in [Node -> Seq([slot : Slots, result : Payload \cup {Empty}])]
    /\ lastCheckpoint \in [Node -> SeqNum]
    /\ net \subseteq Message

Sent(phase, s) == {m \in net : m.phase = phase /\ Slot(m) = s}
Senders(phase, s) == {m.node : m \in Sent(phase, s)}

\* Replicas that answer for the same slot answer for the same operation, the
\* one its primary proposed: a slot is never numbered twice, across view
\* changes and retransmissions, and no vote changes the digest (the logs are
\* keyed by slot alone and would count votes for different digests together).
Agreement ==
    \A r \in net : r.phase \in {"PREPARE", "COMMIT", "REPLY"} =>
        /\ \E m \in Sent("PRE_PREPARE", Slot(r)) : m.digest = r.digest
        /\ \A m \in Sent("PRE_PREPARE", Slot(r)) : m.digest = r.digest

\* What a replica executed rests on a full certificate: a quorum of distinct
\* replicas committed the slot, and each of those saw a quorum of distinct
\* replicas prepare it, however often each message was delivered.
CommitCertificate ==
    \A n \in Node : \A s \in ExecutedSlots(n) :
        /\ Cardinality(Senders("COMMIT", s)) >= Quorum
        /\ \A p \in Senders("COMMIT", s) :
              /\ Voters(prepareLog[p], s) \subseteq Senders("PREPARE", s)
              /\ Cardinality(Voters(prepareLog[p], s)) >= Quorum

\* In a fleet of any size but 2, 3 and 6, the quorum of 2f+1 is one by which
\* decisions survive: whichever quorum is left, one of its members has accepted
\* the proposal of every slot that any replica has executed.
DecisionSurvives ==
    N \notin {2, 3, 6} =>
        \A n \in Node : \A s \in ExecutedSlots(n) : \A Q \in SUBSET Node :
            Cardinality(Q) >= Quorum => \E p \in Q : s \in prePrepareLog[p]

\* A replica executes a slot at most once, and has answered exactly the slots
\* it executed, although COMMITs keep arriving after the quorum and again after
\* a view change.
ExecutedOnce ==
    \A n \in Node :
        /\ \A i, j \in DOMAIN executed[n] :
              executed[n][i].slot = executed[n][j].slot => i = j
        /\ \A s \in Slots : s \in ExecutedSlots(n) <=> n \in Senders("REPLY", s)

\* A replica works in a later view only when that view, or a later one, was
\* announced by its own primary, after a replica had asked for it.
ViewAnnounced ==
    /\ \A n \in Node : ~inViewChange[n] /\ view[n] > 0 =>
          \E m \in net : m.phase = "NEW_VIEW" /\ m.view >= view[n]
    /\ \A m \in net : m.phase = "NEW_VIEW" =>
          /\ m.node = Primary(m.view)
          /\ \E r \in net : r.phase = "VIEW_CHANGE" /\ r.view = m.view

\* No replica ever goes back to an earlier view, whatever old NEW-VIEW or
\* VIEW-CHANGE reaches it.
ViewNeverDecreases == [][\A n \in Node : view'[n] >= view[n]]_vars

\* The docstrings of handle_commit and of the class: on a quorum of COMMITs the
\* replica executes the operation, the one its primary proposed for the slot.
ExecutesProposal ==
    \A n \in Node : \A i \in DOMAIN executed[n] :
        \E m \in Sent("PRE_PREPARE", executed[n][i].slot) :
            executed[n][i].result = Execute(m.payload)

=============================================================================
