---------------------------- MODULE TieredStorage ----------------------------
(***************************************************************************)
(* Tiers of one vector table (swarm/tiered_mesh_storage.py): a hot one in  *)
(* memory, a warm one in SQLite, archives in files.  Callers insert and    *)
(* query while the maintenance thread moves rows down.  A move takes a row *)
(* out of one tier and puts it into the other in two steps, and no lock is *)
(* held from one to the other.                                             *)
(*                                                                         *)
(* Rows are those of MeshRows.  Of the archives the model keeps what a     *)
(* query can find: the first row of an agent that was archived.            *)
(***************************************************************************)
EXTENDS MeshRows, FiniteSets

CONSTANTS
    Fitness,      \* of each row
    Feverish,     \* the rows with too high a thermal pressure for the hot tier
    Caller,       \* threads that insert and query
    HotMinFitness, HotMaxAge, WarmMaxAge, HotMaxEntries, EmergencyCapacity,
    AccessThreshold, ArchiveInterval,
    MaxTime,      \* bound: the clock
    MaxFaults     \* bound: writes that fail and crashes

ASSUME TieredAssumption ==
    /\ Fitness \in [Entry -> Nat]
    /\ Feverish \subseteq Entry
    /\ {HotMinFitness, HotMaxAge, WarmMaxAge, HotMaxEntries, EmergencyCapacity,
        AccessThreshold, ArchiveInterval, MaxTime, MaxFaults} \subseteq Nat

VARIABLES
    hot,          \* _entries of the base table
    warm,         \* warm_entries in SQLite
    cold,         \* what _cold_query finds in the archives
    now,          \* the clock
    accesses,     \* _access_counts, up to the threshold
    op,           \* where each caller is
    upkeep,       \* where the maintenance thread is
    closing,      \* _stop_maintenance
    faults,       \* failures so far
    accepted,     \* history: agents a row of which was accepted
    spilled       \* history: agents whose row was lost between two tiers by a write that failed

tieredVars == <<hot, warm, cold, now, accesses, op, upkeep, closing, faults, accepted, spilled>>

Put(tier, e) == [tier EXCEPT ![e.agent] = e]
OfferTo(tier, e) == [tier EXCEPT ![e.agent] = Winner(@, e)]
Without(tier, agents) == [a \in Agent |-> IF a \in agents THEN None ELSE tier[a]]
Agents(rows) == {e.agent : e \in rows}

HotAged(e) == now > e.time + HotMaxAge
WarmAged(e) == now > e.time + WarmMaxAge
ShouldBeHot(e) == Fitness[e] >= HotMinFitness /\ ~HotAged(e)

Idle == [at |-> "idle"]
Asleep == [at |-> IF closing THEN "ended" ELSE "asleep"]
Querying(c, a) == op[c].at \in {"warm", "cold"} /\ op[c].agent = a

\* A row of the agent is in the hands of a thread, in neither tier.
InHand(a) ==
    \/ \E c \in Caller : op[c].at = "spill" /\ op[c].victim.agent = a
    \/ \E c \in Caller : op[c].at = "lift" /\ op[c].row.agent = a
    \/ upkeep.at = "spill" /\ upkeep.row.agent = a

\* The queries under way for an agent whose row is being moved may miss it.
Disturbed(a) == [c \in Caller |-> IF Querying(c, a) THEN [op[c] EXCEPT !.sure = FALSE] ELSE op[c]]

TieredInit ==
    /\ hot = [a \in Agent |-> None] /\ warm = hot /\ cold = hot
    /\ now = 0
    /\ accesses = [a \in Agent |-> 0]
    /\ op = [c \in Caller |-> Idle]
    /\ upkeep = [at |-> "asleep"]
    /\ closing = FALSE
    /\ faults = 0
    /\ accepted = {} /\ spilled = {}
------------------------------------------------------------------------------
Accept(a) == accepted' = accepted \cup {a} /\ spilled' = spilled \ {a}
Fault == faults < MaxFaults /\ faults' = faults + 1

\* insert(): the tier is chosen; for the hot one its size is read first.
InsertHot(c, e) ==
    /\ op[c] = Idle /\ e.time <= now /\ ShouldBeHot(e)
    /\ op' = [op EXCEPT ![c] =
                 [at |-> IF Cardinality(Rows(hot)) >= EmergencyCapacity THEN "choose" ELSE "insert", row |-> e]]
    /\ UNCHANGED <<hot, warm, cold, now, accesses, upkeep, closing, faults, accepted, spilled>>
InsertWarm(c, e) ==
    /\ op[c] = Idle /\ e.time <= now /\ ~ShouldBeHot(e)
    /\ warm' = Put(warm, e)
    /\ Accept(e.agent)
    /\ UNCHANGED <<hot, cold, now, accesses, op, upkeep, closing, faults>>

\* _demote_oldest_hot(): the worst row of those read, if any, is popped.
Worst(e) == \A f \in Rows(hot) : Fitness[e] < Fitness[f] \/ (Fitness[e] = Fitness[f] /\ e.time <= f.time)
ChooseVictim(c) ==
    /\ op[c].at = "choose"
    /\ \/ Rows(hot) = {} /\ op' = [op EXCEPT ![c].at = "insert"]
       \/ \E v \in Rows(hot) :
             Worst(v) /\ op' = [op EXCEPT ![c] = [at |-> "demote", row |-> op[c].row, victim |-> v]]
    /\ UNCHANGED <<hot, warm, cold, now, accesses, upkeep, closing, faults, accepted, spilled>>
Demote(c) ==
    /\ op[c].at = "demote"
    /\ hot' = Without(hot, {op[c].victim.agent})
    /\ op' = [Disturbed(op[c].victim.agent) EXCEPT ![c].at = "spill"]
    /\ UNCHANGED <<warm, cold, now, accesses, upkeep, closing, faults, accepted, spilled>>
Spill(c) ==
    /\ op[c].at = "spill"
    /\ warm' = Put(warm, op[c].victim)
    /\ op' = [op EXCEPT ![c] = [at |-> "insert", row |-> op[c].row]]
    /\ UNCHANGED <<hot, cold, now, accesses, upkeep, closing, faults, accepted, spilled>>
\* The write raises: insert() is over, the victim is in no tier any more.
SpillRaises(c) ==
    /\ op[c].at = "spill" /\ Fault
    /\ spilled' = spilled \cup {op[c].victim.agent}
    /\ op' = [op EXCEPT ![c] = Idle]
    /\ UNCHANGED <<hot, warm, cold, now, accesses, upkeep, closing, accepted>>
\* The base table takes the row, or keeps a better one.
FinishInsert(c) ==
    /\ op[c].at = "insert"
    /\ hot' = OfferTo(hot, op[c].row)
    /\ Accept(op[c].row.agent)
    /\ op' = [op EXCEPT ![c] = Idle]
    /\ UNCHANGED <<warm, cold, now, accesses, upkeep, closing, faults>>
------------------------------------------------------------------------------
\* query(): the access is counted, then one tier is read after the other.
QueryHot(c, a) ==
    /\ op[c] = Idle
    /\ accesses' = [accesses EXCEPT ![a] = IF @ < AccessThreshold THEN @ + 1 ELSE @]
    /\ op' = IF hot[a] # None THEN op
             ELSE [op EXCEPT ![c] = [at |-> "warm", agent |-> a, sure |-> a \in accepted \ spilled /\ ~InHand(a)]]
    /\ UNCHANGED <<hot, warm, cold, now, upkeep, closing, faults, accepted, spilled>>
QueryWarm(c) ==
    /\ op[c].at = "warm"
    /\ LET a == op[c].agent
       IN op' = [op EXCEPT ![c] = IF warm[a] = None THEN [@ EXCEPT !.at = "cold"]
                                  ELSE IF accesses[a] < AccessThreshold THEN Idle
                                  ELSE [at |-> "promote", row |-> warm[a]]]
    /\ UNCHANGED <<hot, warm, cold, now, accesses, upkeep, closing, faults, accepted, spilled>>
QueryCold(c) ==
    /\ op[c].at = "cold"
    /\ op' = [op EXCEPT ![c] = Idle]
    /\ UNCHANGED <<hot, warm, cold, now, accesses, upkeep, closing, faults, accepted, spilled>>

\* _maybe_promote(): nothing without room, else the warm row goes, and what was read is inserted.
PromoteFull(c) ==
    /\ op[c].at = "promote" /\ Cardinality(Rows(hot)) >= HotMaxEntries
    /\ op' = [op EXCEPT ![c] = Idle]
    /\ UNCHANGED <<hot, warm, cold, now, accesses, upkeep, closing, faults, accepted, spilled>>
Promote(c) ==
    /\ op[c].at = "promote" /\ Cardinality(Rows(hot)) < HotMaxEntries
    /\ warm' = Without(warm, {op[c].row.agent})
    /\ op' = [Disturbed(op[c].row.agent) EXCEPT ![c].at = "lift"]
    /\ UNCHANGED <<hot, cold, now, accesses, upkeep, closing, faults, accepted, spilled>>
Lift(c) ==
    /\ op[c].at = "lift"
    /\ hot' = OfferTo(hot, op[c].row)
    /\ op' = [op EXCEPT ![c] = Idle]
    /\ UNCHANGED <<warm, cold, now, accesses, upkeep, closing, faults, accepted, spilled>>
------------------------------------------------------------------------------
\* _run_maintenance(): the hot rows to demote are read at once.
Wake ==
    /\ upkeep.at = "asleep"
    /\ upkeep' = [at |-> "sweep", left |-> {e \in Rows(hot) : HotAged(e) \/ e \in Feverish}]
    /\ UNCHANGED <<hot, warm, cold, now, accesses, op, closing, faults, accepted, spilled>>
SweepPop(e) ==
    /\ upkeep.at = "sweep" /\ e \in upkeep.left
    /\ hot' = Without(hot, {e.agent})
    /\ op' = Disturbed(e.agent)
    /\ upkeep' = [at |-> "spill", row |-> e, left |-> upkeep.left \ {e}]
    /\ UNCHANGED <<warm, cold, now, accesses, closing, faults, accepted, spilled>>
SweepSpill ==
    /\ upkeep.at = "spill"
    /\ warm' = Put(warm, upkeep.row)
    /\ upkeep' = [at |-> "sweep", left |-> upkeep.left]
    /\ UNCHANGED <<hot, cold, now, accesses, op, closing, faults, accepted, spilled>>
\* The write raises, and the pass is over.
SweepSpillRaises ==
    /\ upkeep.at = "spill" /\ Fault
    /\ spilled' = spilled \cup {upkeep.row.agent}
    /\ upkeep' = Asleep
    /\ UNCHANGED <<hot, warm, cold, now, accesses, op, closing, accepted>>

\* The warm rows to archive are read; they go to a file, and are then deleted
\* by agent, in one transaction.
SelectOld ==
    /\ upkeep.at = "sweep" /\ upkeep.left = {}
    /\ LET old == {e \in Rows(warm) : WarmAged(e)}
       IN upkeep' = IF Cardinality(old) >= ArchiveInterval THEN [at |-> "archive", rows |-> old] ELSE Asleep
    /\ UNCHANGED <<hot, warm, cold, now, accesses, op, closing, faults, accepted, spilled>>
Archived(rows) ==
    [a \in Agent |-> IF cold[a] # None \/ a \notin Agents(rows) THEN cold[a] ELSE CHOOSE e \in rows : e.agent = a]
\* Mutant: the rows are deleted, and no file was written first.
ArchiveLast ==
    /\ upkeep.at = "archive"
    /\ warm' = Without(warm, Agents(upkeep.rows))
    /\ upkeep' = [upkeep EXCEPT !.at = "purge"]
    /\ UNCHANGED <<hot, cold, now, accesses, op, closing, faults, accepted, spilled>>
Archive ==
    /\ upkeep.at = "archive"
    /\ cold' = Archived(upkeep.rows)
    /\ upkeep' = [upkeep EXCEPT !.at = "purge"]
    /\ UNCHANGED <<hot, warm, now, accesses, op, closing, faults, accepted, spilled>>
Purge ==
    /\ upkeep.at = "purge"
    /\ warm' = Without(warm, Agents(upkeep.rows))
    /\ upkeep' = Asleep
    /\ UNCHANGED <<hot, cold, now, accesses, op, closing, faults, accepted, spilled>>
\* The file or the transaction fails: the warm rows stay.
PassRaises ==
    /\ upkeep.at \in {"archive", "purge"} /\ Fault
    /\ upkeep' = Asleep
    /\ UNCHANGED <<hot, warm, cold, now, accesses, op, closing, accepted, spilled>>
------------------------------------------------------------------------------
Tick ==
    /\ now < MaxTime
    /\ now' = now + 1
    /\ UNCHANGED <<hot, warm, cold, accesses, op, upkeep, closing, faults, accepted, spilled>>

\* close(): a thread that sleeps makes one more pass before it looks.
CloseStorage ==
    /\ closing' = TRUE
    /\ UNCHANGED <<hot, warm, cold, now, accesses, op, upkeep, faults, accepted, spilled>>

\* The process ends, and another one opens the same database and files.
CrashRestart ==
    /\ Fault
    /\ hot' = [a \in Agent |-> None]
    /\ accesses' = [a \in Agent |-> 0]
    /\ op' = [c \in Caller |-> Idle]
    /\ upkeep' = [at |-> "asleep"]
    /\ closing' = FALSE
    /\ accepted' = {a \in accepted : warm[a] # None \/ cold[a] # None}
    /\ spilled' = {}
    /\ UNCHANGED <<warm, cold, now>>

CallStep(c) ==
    \/ \E e \in Entry : InsertHot(c, e) \/ InsertWarm(c, e)
    \/ ChooseVictim(c) \/ Demote(c) \/ Spill(c) \/ SpillRaises(c) \/ FinishInsert(c)
    \/ \E a \in Agent : QueryHot(c, a)
    \/ QueryWarm(c) \/ QueryCold(c) \/ PromoteFull(c) \/ Promote(c) \/ Lift(c)
PassStep ==
    \/ Wake \/ (\E e \in Entry : SweepPop(e)) \/ SweepSpill \/ SweepSpillRaises
    \/ SelectOld \/ Archive \/ Purge \/ PassRaises

TieredNext == (\E c \in Caller : CallStep(c)) \/ PassStep \/ Tick \/ CloseStorage \/ CrashRestart
TieredSpec == TieredInit /\ [][TieredNext]_tieredVars
------------------------------------------------------------------------------
\* Rows are promoted, demoted by callers and by the maintenance thread, archived
\* and overwritten while a query reads the tiers from the top to the bottom.  A
\* query that began when an agent was in a tier misses it only when a promotion
\* or a demotion has had that agent in its hands meanwhile, or the write of a
\* demotion failed behind the pop: no crossing of moves loses an agent, and
\* archiving alone hides none.
MissesExplained ==
    \A c \in Caller : op[c].at = "cold" /\ op[c].sure => cold[op[c].agent] # None
==============================================================================
