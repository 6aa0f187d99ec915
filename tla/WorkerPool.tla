------------------------------ MODULE WorkerPool ------------------------------
(***************************************************************************)
(* The pool of worker threads of swarm/worker_pool.py and its use of a     *)
(* ThermalBudget that others use as well.  spawn_worker() holds the lock   *)
(* of the pool from its checks to the start of the thread; kill_worker()   *)
(* gives it up while it joins the thread, and goes on alike whether the    *)
(* thread has ended or the join has timed out.                             *)
(*                                                                         *)
(* The lifecycle that a record reports decides nothing here and is left    *)
(* out; a thread that ends by itself changes no record.                    *)
(***************************************************************************)
EXTENDS Integers, FiniteSets

CONSTANTS
    Agent,         \* all agents of the budget
    PoolAgent,     \* those that are ids of workers
    Killer,        \* threads that call kill_worker() or kill_all()
    MaxWorkers,    \* max_workers
    MaxSlots,      \* slots of the default device
    None

VARIABLES
    useAuction, current, allocations, bidQueue, ticks,   \* the ThermalBudget, direct mode
    worker,      \* the record of each worker: its worker_state, None if there is no record
    spawning,    \* the worker for which a parent gave way, before its slot is allocated
    joining      \* the worker that each killer is joining

slotVars == <<useAuction, current, allocations, bidQueue, ticks>>
poolVars == <<worker, spawning, joining>>

Thermal == INSTANCE ThermalBudget WITH
    Device <- {"gpu"}, Configured <- {"gpu"}, MaxAgents <- [d \in {"gpu"} |-> MaxSlots],
    NoDevice <- None, AuctionInterval <- 1, Rank <- {}, MaxBids <- 0

PoolInit ==
    /\ worker = [a \in PoolAgent |-> None]
    /\ spawning = None
    /\ joining = [k \in Killer |-> None]

Unlocked == spawning = None
Active == {a \in PoolAgent : worker[a] # None}
MaySpawn(a) == Unlocked /\ Cardinality(Active) < MaxWorkers /\ worker[a] = None

-----------------------------------------------------------------------------
SpawnWorker(a) ==
    /\ MaySpawn(a)
    /\ Thermal!Allocate(a, "gpu")
    /\ worker' = [worker EXCEPT ![a] = "RUNNING"]
    /\ UNCHANGED <<spawning, joining>>

\* On a full device the parent gives way; its slot is free for anybody until
\* the worker's is allocated.
SacrificeFor(a, parent) ==
    /\ MaySpawn(a)
    /\ Thermal!ParentSacrifice(parent, "gpu")
    /\ spawning' = a
    /\ UNCHANGED <<worker, joining>>

\* The allocation may find the slot gone: spawn_worker raises.
SpawnAfterSacrifice ==
    /\ ~Unlocked
    /\ \/ /\ Thermal!Allocate(spawning, "gpu")
          /\ worker' = [worker EXCEPT ![spawning] = "RUNNING"]
       \/ /\ ~Thermal!CanAllocate(spawning, "gpu")
          /\ UNCHANGED <<slotVars, worker>>
    /\ spawning' = None
    /\ UNCHANGED joining

\* kill_worker() up to the join.
KillWorker(k, a) ==
    /\ Unlocked /\ joining[k] = None
    /\ worker[a] # None
    /\ worker' = [worker EXCEPT ![a] = "STOPPING"]
    /\ joining' = [joining EXCEPT ![k] = a]
    /\ UNCHANGED <<slotVars, spawning>>

\* kill_worker() after the join: slot and record go by the id, whoever has it by
\* now; without a record the deletion raises, when the slot has been released.
ReapWorker(k) ==
    /\ Unlocked /\ joining[k] # None
    /\ \/ Thermal!Release(joining[k])
       \/ allocations[joining[k]] = None /\ UNCHANGED slotVars
    /\ worker' = [worker EXCEPT ![joining[k]] = None]
    /\ joining' = [joining EXCEPT ![k] = None]
    /\ UNCHANGED spawning

PoolNext ==
    \/ \E a \in PoolAgent :
        \/ SpawnWorker(a)
        \/ \E parent \in Agent : SacrificeFor(a, parent)
        \/ \E k \in Killer : KillWorker(k, a)
    \/ SpawnAfterSacrifice
    \/ \E k \in Killer : ReapWorker(k)

-----------------------------------------------------------------------------
\* Type of the pool.
PoolTypeOK ==
    /\ worker \in [PoolAgent -> {None, "RUNNING", "STOPPING"}]
    /\ spawning \in PoolAgent \cup {None}
    /\ joining \in [Killer -> PoolAgent \cup {None}]

\* A slot of a worker is that of a record, however spawns, sacrifices and two
\* kills of one worker cross: kill_all() would give every slot back.
WorkersHoldSlots == \A a \in PoolAgent : allocations[a] # None => worker[a] # None
=============================================================================
