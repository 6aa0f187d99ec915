---------------------------- MODULE BreederDaemon ----------------------------
(***************************************************************************)
(* The scheduler of swarm/breeder_daemon_v2.py (class BreederDaemonV2).    *)
(* A stepper is a thread that calls step(): the daemon's own, and that of  *)
(* any caller (FleetConductorV2.beat, auto_breed).  step() takes no lock,  *)
(* so its reads and writes of shared state are actions of their own.  The  *)
(* SQLite tables (queue, lifecycle) survive a crash; the room map, the     *)
(* thermal budget, the grid and the steps in progress do not.              *)
(*                                                                         *)
(* A ticket has one parent here: the mate takes part in no branch but the  *)
(* FLUX and trajectory checks, whose verdicts are nondeterministic.  The   *)
(* map _fsm is written with each lifecycle row and reloaded from the table *)
(* by start(): it is the table.                                            *)
(***************************************************************************)
EXTENDS Integers, Sequences, FiniteSets

CONSTANTS
    Stepper,
    MaxChildren,       \* bound: children the daemon may create
    PoolAgent,         \* agents of the worker pool, which shares the budget
    Killer,            \* threads that kill workers of the pool
    MaxWorkers,        \* max_workers of the pool
    Room,              \* rooms of the grid, naturals
    MaxSlots,          \* max_agents of the GPU
    HysteresisTicks,   \* hysteresis_ticks
    Priority,          \* priorities of the requests
    MaxRequests,       \* bound: calls of queue_breed
    MaxCrashes,        \* bound
    None               \* no agent, no device, no room

ASSUME DaemonAssumption ==
    /\ MaxChildren \in Nat /\ MaxSlots \in Nat /\ MaxRequests \in Nat /\ MaxCrashes \in Nat
    /\ HysteresisTicks \in Nat /\ MaxWorkers \in Nat
    /\ Room \subseteq Nat /\ Priority \subseteq Nat
    /\ IsFiniteSet(Stepper)
    /\ PoolAgent \cap (1 .. MaxChildren) = {}   \* agent ids are drawn afresh
    /\ None \notin (1 .. MaxChildren) \cup PoolAgent \cup Room
    /\ None \notin {"gpu", "EGG", "COMPETE", "SUNSET", "RUNNING", "STOPPING"}

Child == 1 .. MaxChildren
Agent == Child \cup PoolAgent
Request == 1 .. MaxRequests

VARIABLES
    queue,         \* unprocessed rows of breed_queue, in the order of enqueued_at
    lifecycle,     \* table lifecycle: the state of each child, None if it has no row
    rooms,         \* _room_allocations: the child in each room
    cold,          \* rooms of the grid that have not fired since their rebirth
    blockedTicks,  \* _thermal_blocked_ticks, up to HysteresisTicks
    useAuction, current, allocations, bidQueue, ticks,   \* the ThermalBudget, direct mode
    worker, spawning, joining,   \* the WorkerPool
    pc,            \* where each stepper is in step()
    job,           \* its locals: ticket, room, old agent, child
    requested,     \* calls of queue_breed so far
    crashes,
    children,      \* what became of each request: the children bred for it,
    dropped        \* and the requests aborted, failed or lost in a crash

slotVars == <<useAuction, current, allocations, bidQueue, ticks>>
poolVars == <<worker, spawning, joining>>
gridVars == <<rooms, cold>>
fateVars == <<children, dropped>>
daemonVars == <<queue, lifecycle, gridVars, blockedTicks, pc, job, requested, crashes, fateVars>>
vars == <<daemonVars, slotVars, poolVars>>

Thermal == INSTANCE ThermalBudget WITH
    Device <- {"gpu"}, Configured <- {"gpu"}, MaxAgents <- [d \in {"gpu"} |-> MaxSlots],
    NoDevice <- None, AuctionInterval <- 1, Rank <- {}, MaxBids <- 0
Pool == INSTANCE WorkerPool

\* A row; ids are never reused while a row or a stepper has them.
Held == {queue[i].id : i \in DOMAIN queue} \cup {job[w].ticket.id : w \in Stepper}
NewIdByLength == Len(queue) + 1   \* mutant of NewId: an id is used again
NewId == CHOOSE id \in 1 .. Cardinality(Held) + 1 :
            id \notin Held /\ \A k \in 1 .. id - 1 : k \in Held

Enqueue(request, parent, priority) ==
    queue' = Append(queue, [id |-> NewId, request |-> request, parent |-> parent,
                            priority |-> priority])

\* ORDER BY priority DESC, enqueued_at ASC LIMIT 1
\* Mutant: enqueued_at DESC.
FirstIsLatest == CHOOSE i \in DOMAIN queue :
                    \A j \in DOMAIN queue :
                       \/ queue[j].priority < queue[i].priority
                       \/ queue[j].priority = queue[i].priority /\ i >= j
First == CHOOSE i \in DOMAIN queue :
            \A j \in DOMAIN queue :
               \/ queue[j].priority < queue[i].priority
               \/ queue[j].priority = queue[i].priority /\ i <= j

NoTicket == [id |-> 0, request |-> 0, parent |-> None, priority |-> 0]
NoJob == [ticket |-> NoTicket, room |-> None, old |-> None, child |-> None]

RoomOf(a) == {r \in Room : rooms[r] = a}
Coldest == CHOOSE r \in cold : \A s \in cold : r <= s

-----------------------------------------------------------------------------
Goto(w, label) == pc' = [pc EXCEPT ![w] = label]
Done(w) == pc' = [pc EXCEPT ![w] = "idle"] /\ job' = [job EXCEPT ![w] = NoJob]

\* The step returns or raises, and its ticket is gone.
Drop(w) ==
    /\ dropped' = dropped \cup {job[w].ticket.request}
    /\ Done(w)

\* Mutant of Requeue: the request is not put back.
RequeueForgotten(w, priority) == Done(w) /\ UNCHANGED <<queue, dropped>>

\* The ticket is gone as well when the INSERT raises (see WriteFails).
Requeue(w, priority) ==
    \/ /\ Enqueue(job[w].ticket.request, job[w].ticket.parent, priority)
       /\ Done(w)
       /\ UNCHANGED dropped
    \/ Drop(w) /\ UNCHANGED queue

Init ==
    /\ queue = <<>>
    /\ lifecycle = [c \in Child |-> None]
    /\ rooms = [r \in Room |-> None]
    /\ cold = Room
    /\ blockedTicks = 0
    /\ useAuction = FALSE /\ Thermal!BudgetInit
    /\ Pool!PoolInit
    /\ pc = [w \in Stepper |-> "idle"]
    /\ job = [w \in Stepper |-> NoJob]
    /\ requested = 0 /\ crashes = 0
    /\ children = [q \in Request |-> {}]
    /\ dropped = {}

QueueBreed(parent, priority) ==
    /\ requested < MaxRequests
    /\ requested' = requested + 1
    /\ Enqueue(requested + 1, parent, priority)
    /\ UNCHANGED <<lifecycle, gridVars, blockedTicks, slotVars, pc, job, crashes, fateVars>>

-----------------------------------------------------------------------------
(* step(): dequeue_breed is a SELECT and an UPDATE, in no transaction.     *)

SelectTicket(w) ==
    /\ pc[w] = "idle"
    /\ queue # <<>>
    /\ job' = [job EXCEPT ![w].ticket = queue[First]]
    /\ Goto(w, "selected")
    /\ UNCHANGED <<queue, lifecycle, gridVars, blockedTicks, slotVars, requested, crashes, fateVars>>

\* UPDATE ... WHERE ticket_id = id, a primary key: the row may have been marked before.
Unprocessed(id) ==
    IF \E i \in DOMAIN queue : queue[i].id = id
    THEN LET i == CHOOSE i \in DOMAIN queue : queue[i].id = id
         IN  SubSeq(queue, 1, i - 1) \o SubSeq(queue, i + 1, Len(queue))
    ELSE queue

MarkProcessed(w) ==
    /\ pc[w] = "selected"
    /\ queue' = Unprocessed(job[w].ticket.id)
    /\ Goto(w, "dequeued")
    /\ UNCHANGED <<lifecycle, gridVars, blockedTicks, slotVars, job, requested, crashes, fateVars>>

\* circuit_breaker flags a parent: the ticket is aborted.
AbortTicket(w) ==
    /\ pc[w] = "dequeued"
    /\ Drop(w)
    /\ UNCHANGED <<queue, lifecycle, gridVars, blockedTicks, slotVars, requested, crashes, children>>

\* _check_thermal: can_spawn; then the hysteresis; then the sacrifice.
CheckThermal(w) ==
    /\ pc[w] = "dequeued"
    /\ IF Thermal!HasRoom("gpu")
       THEN /\ blockedTicks' = 0
            /\ Goto(w, "admitted")
            /\ UNCHANGED <<queue, job, dropped>>
       ELSE IF blockedTicks + 1 < HysteresisTicks
            THEN blockedTicks' = blockedTicks + 1 /\ Requeue(w, job[w].ticket.priority)
            ELSE /\ blockedTicks' = HysteresisTicks
                 /\ Goto(w, "blocked")
                 /\ UNCHANGED <<queue, job, dropped>>
    /\ UNCHANGED <<lifecycle, gridVars, slotVars, requested, crashes, children>>

SacrificeParent(w) ==
    LET parent == job[w].ticket.parent IN
    /\ pc[w] = "blocked"
    /\ \/ /\ \/ Thermal!HasRoom("gpu") /\ UNCHANGED slotVars
             \/ Thermal!ParentSacrifice(parent, "gpu")
          /\ blockedTicks' = 0
          /\ Goto(w, "admitted")
          /\ UNCHANGED <<queue, job, dropped>>
       \/ /\ ~Thermal!HasRoom("gpu") /\ ~Thermal!SacrificeHelps(parent, "gpu")
          /\ Requeue(w, job[w].ticket.priority)
          /\ UNCHANGED <<slotVars, blockedTicks>>
    /\ UNCHANGED <<lifecycle, gridVars, requested, crashes, children>>

\* _check_flux_gating
GateParent(w) ==
    /\ pc[w] = "admitted"
    /\ \/ Goto(w, "gated") /\ UNCHANGED <<queue, job, dropped>>
       \/ Requeue(w, job[w].ticket.priority)
    /\ UNCHANGED <<lifecycle, gridVars, blockedTicks, slotVars, requested, crashes, children>>

-----------------------------------------------------------------------------
(* _allocate_room: the first cold room, whose agent goes.                  *)

PickRoom(w) ==
    /\ pc[w] = "gated"
    /\ \/ /\ cold = {}
          /\ Requeue(w, job[w].ticket.priority)
       \/ /\ cold # {}
          /\ job' = [job EXCEPT ![w].room = Coldest, ![w].old = rooms[Coldest]]
          /\ Goto(w, IF rooms[Coldest] = None THEN "roomed" ELSE "evicting")
          /\ UNCHANGED <<queue, dropped>>
    /\ UNCHANGED <<lifecycle, gridVars, blockedTicks, slotVars, requested, crashes, children>>

\* thermal.release, which does nothing for an agent without a slot.
FreeSlot(a) ==
    \/ Thermal!Release(a)
    \/ allocations[a] = None /\ UNCHANGED slotVars

\* Mutant of EvictAgent: the slot is not released.
EvictAgentOnly(w) ==
    /\ pc[w] = "evicting"
    /\ Goto(w, "vacating")
    /\ UNCHANGED <<queue, lifecycle, gridVars, blockedTicks, slotVars, job, requested,
                   crashes, fateVars>>

EvictAgent(w) ==
    /\ pc[w] = "evicting"
    /\ FreeSlot(job[w].old)
    /\ Goto(w, "vacating")
    /\ UNCHANGED <<queue, lifecycle, gridVars, blockedTicks, job, requested, crashes, fateVars>>

\* del _room_allocations[room]: whoever is there now, KeyError if nobody is.
VacateRoom(w) ==
    /\ pc[w] = "vacating"
    /\ \/ /\ rooms[job[w].room] # None
          /\ rooms' = [rooms EXCEPT ![job[w].room] = None]
          /\ Goto(w, "retiring")
          /\ UNCHANGED <<job, dropped>>
       \/ /\ rooms[job[w].room] = None
          /\ Drop(w)
          /\ UNCHANGED rooms
    /\ UNCHANGED <<queue, lifecycle, cold, blockedTicks, slotVars, requested, crashes, children>>

RetireAgent(w) ==
    /\ pc[w] = "retiring"
    /\ lifecycle' = [lifecycle EXCEPT ![job[w].old] = "SUNSET"]
    /\ Goto(w, "roomed")
    /\ UNCHANGED <<queue, gridVars, blockedTicks, slotVars, job, requested, crashes, fateVars>>

-----------------------------------------------------------------------------
(* _spawn_child                                                            *)

\* _flux_path_a_check: only a parent, or mate, in a room is checked; a rejected
\* ticket loses one priority, and the room stays empty.
CheckPathA(w) ==
    LET t == job[w].ticket IN
    /\ pc[w] = "roomed"
    /\ \/ Goto(w, "vetted") /\ UNCHANGED <<queue, job, dropped>>
       \/ /\ \E r \in Room : rooms[r] # None
          /\ Requeue(w, IF t.priority = 0 THEN 0 ELSE t.priority - 1)
    /\ UNCHANGED <<lifecycle, gridVars, blockedTicks, slotVars, requested, crashes, children>>

\* _place_child_egg: a fresh agent id.
PlaceEgg(w) ==
    LET fresh == {c \in Child : lifecycle[c] = None} IN
    /\ pc[w] = "vetted"
    /\ fresh # {}
    /\ LET c == CHOOSE c \in fresh : \A d \in fresh : c <= d IN
       /\ lifecycle' = [lifecycle EXCEPT ![c] = "EGG"]
       /\ job' = [job EXCEPT ![w].child = c]
       /\ children' = [children EXCEPT ![job[w].ticket.request] = @ \cup {c}]
    /\ Goto(w, "hatched")
    /\ UNCHANGED <<queue, gridVars, blockedTicks, slotVars, requested, crashes, dropped>>

\* _transition_to_compete: the room is reborn, hence cold, before the child has it.
Compete(w) ==
    /\ pc[w] = "hatched"
    /\ cold' = cold \cup {job[w].room}
    /\ lifecycle' = [lifecycle EXCEPT ![job[w].child] = "COMPETE"]
    /\ Goto(w, "competing")
    /\ UNCHANGED <<queue, rooms, blockedTicks, slotVars, job, requested, crashes, fateVars>>

\* The result of thermal.allocate is not looked at.
AllocateSlot(w) ==
    /\ pc[w] = "competing"
    /\ \/ Thermal!Allocate(job[w].child, "gpu")
       \/ ~Thermal!HasRoom("gpu") /\ UNCHANGED slotVars
    /\ Goto(w, "allocated")
    /\ UNCHANGED <<queue, lifecycle, gridVars, blockedTicks, job, requested, crashes, fateVars>>

OccupyRoom(w) ==
    /\ pc[w] = "allocated"
    /\ rooms' = [rooms EXCEPT ![job[w].room] = job[w].child]
    /\ Goto(w, "placed")
    /\ UNCHANGED <<queue, lifecycle, cold, blockedTicks, slotVars, job, requested, crashes, fateVars>>

\* verify_lineage: a child that fails is retired in three steps.
CheckLineage(w) ==
    /\ pc[w] = "placed"
    /\ \/ Done(w) /\ UNCHANGED lifecycle
       \/ /\ lifecycle' = [lifecycle EXCEPT ![job[w].child] = "SUNSET"]
          /\ Goto(w, "rejected")
          /\ UNCHANGED job
    /\ UNCHANGED <<queue, gridVars, blockedTicks, slotVars, requested, crashes, fateVars>>

\* Mutant of RejectChild: the slot is not released.
RejectChildOnly(w) ==
    /\ pc[w] = "rejected"
    /\ Goto(w, "removing")
    /\ UNCHANGED <<queue, lifecycle, gridVars, blockedTicks, slotVars, job, requested,
                   crashes, fateVars>>

RejectChild(w) ==
    /\ pc[w] = "rejected"
    /\ FreeSlot(job[w].child)
    /\ Goto(w, "removing")
    /\ UNCHANGED <<queue, lifecycle, gridVars, blockedTicks, job, requested, crashes, fateVars>>

\* del _room_allocations[room], as in VacateRoom; the step is over either way.
RemoveChild(w) ==
    /\ pc[w] = "removing"
    /\ rooms' = [rooms EXCEPT ![job[w].room] = None]
    /\ Done(w)
    /\ UNCHANGED <<queue, lifecycle, cold, blockedTicks, slotVars, requested, crashes, fateVars>>

\* A write to the database raises (it is locked or full): _run_loop logs it and
\* goes on with the next step.  The row of a ticket not yet marked is still there.
Unborn == {"dequeued", "blocked", "admitted", "gated", "evicting", "vacating",
           "retiring", "roomed", "vetted"}
WriteFails(w) ==
    /\ pc[w] \in {"selected", "retiring", "vetted", "hatched", "placed"}
    /\ cold' = IF pc[w] = "hatched" THEN cold \cup {job[w].room} ELSE cold
    /\ dropped' = IF pc[w] \in Unborn THEN dropped \cup {job[w].ticket.request} ELSE dropped
    /\ Done(w)
    /\ UNCHANGED <<queue, lifecycle, rooms, blockedTicks, slotVars, requested, crashes, children>>

Step(w) ==
    \/ SelectTicket(w) \/ MarkProcessed(w) \/ AbortTicket(w)
    \/ CheckThermal(w) \/ SacrificeParent(w) \/ GateParent(w)
    \/ PickRoom(w) \/ EvictAgent(w) \/ VacateRoom(w) \/ RetireAgent(w)
    \/ CheckPathA(w) \/ PlaceEgg(w) \/ Compete(w) \/ AllocateSlot(w) \/ OccupyRoom(w)
    \/ CheckLineage(w) \/ RejectChild(w) \/ RemoveChild(w)
    \/ WriteFails(w)

-----------------------------------------------------------------------------
(* The daemon's surroundings.                                              *)

PoolStep == Pool!PoolNext /\ UNCHANGED daemonVars

RoomFires(r) ==
    /\ r \in cold
    /\ cold' = cold \ {r}
    /\ UNCHANGED <<queue, lifecycle, rooms, blockedTicks, slotVars, pc, job, requested, crashes, fateVars>>

\* The process dies and is started again: start() reloads the lifecycle table.
CrashRestart ==
    /\ crashes < MaxCrashes
    /\ crashes' = crashes + 1
    /\ rooms' = [r \in Room |-> None]
    /\ cold' = Room
    /\ blockedTicks' = 0
    /\ Thermal!Reset
    /\ worker' = [a \in PoolAgent |-> None] /\ spawning' = None /\ joining' = [k \in Killer |-> None]
    /\ pc' = [w \in Stepper |-> "idle"]
    /\ job' = [w \in Stepper |-> NoJob]
    /\ dropped' = dropped \cup {job[w].ticket.request : w \in {v \in Stepper : pc[v] \in Unborn}}
    /\ UNCHANGED <<queue, lifecycle, requested, children>>

DaemonStep(w) == Step(w) /\ UNCHANGED poolVars

Next ==
    \/ /\ \/ \E p \in PoolAgent \cup {c \in Child : lifecycle[c] # None}, k \in Priority : QueueBreed(p, k)
          \/ \E r \in Room : RoomFires(r)
       /\ UNCHANGED poolVars
    \/ \E w \in Stepper : DaemonStep(w)
    \/ PoolStep
    \/ CrashRestart

Spec == Init /\ [][Next]_vars

\* _run_loop calls step() again and again, and an UPDATE that is tried again and
\* again succeeds in the end (SQLite waits for a lock before it raises).
FairSpec ==
    Spec /\ \A w \in Stepper : WF_vars(DaemonStep(w)) /\ SF_vars(MarkProcessed(w) /\ UNCHANGED poolVars)

-----------------------------------------------------------------------------
TypeOK ==
    /\ \A i \in DOMAIN queue : /\ queue[i].request \in Request
                               /\ queue[i].parent \in Agent
                               /\ \A j \in DOMAIN queue : queue[i].id = queue[j].id => i = j
    /\ lifecycle \in [Child -> {None, "EGG", "COMPETE", "SUNSET"}]
    /\ rooms \in [Room -> Child \cup {None}]
    /\ cold \subseteq Room
    /\ blockedTicks \in 0 .. HysteresisTicks
    /\ Thermal!TypeOK /\ Pool!PoolTypeOK
    /\ \A w \in Stepper : pc[w] \in Unborn => job[w].ticket.request \in Request
    /\ children \in [Request -> SUBSET Child]
    /\ dropped \subseteq Request

\* No slot leaks, whatever fails halfway, is sacrificed, rejected, requeued or
\* killed: a child that holds one sits in a room, where the next reuse of the
\* room will release it (the gap is the one between thermal.allocate and the
\* room map), and a worker that holds one has a record, by which it is killed.
NoSlotLeaks ==
    /\ Pool!WorkersHoldSlots
    /\ \A c \in Child : allocations[c] # None =>
          \/ RoomOf(c) # {}
          \/ \E w \in Stepper : pc[w] = "allocated" /\ job[w].child = c

\* An agent recorded as SUNSET has neither a room nor a slot, now or after a
\* restart, and never comes back to either (a rejected child loses both last).
RetiredHoldNothing ==
    \A c \in Child : lifecycle[c] = "SUNSET" =>
        \/ RoomOf(c) = {} /\ allocations[c] = None
        \/ \E w \in Stepper : pc[w] \in {"rejected", "removing"} /\ job[w].child = c

Tickets(q) == {i \in DOMAIN queue : queue[i].request = q}
InHand(q) == {w \in Stepper : pc[w] \in Unborn /\ job[w].ticket.request = q}

\* A request is in one place: one row of the queue, one step in progress, one
\* child, or dropped (aborted, failed, or lost in a crash).  However often it is
\* put back, it is neither forgotten nor bred twice.
RequestAccounted ==
    \A q \in 1 .. requested :
        Cardinality(Tickets(q)) + Cardinality(InHand(q)) + Cardinality(children[q])
            + (IF q \in dropped THEN 1 ELSE 0) = 1

\* A ticket of the highest priority that is waiting gets its turn: tickets that
\* are put back over and over, by a full budget or a FLUX verdict, go behind it.
TopTicket(q) == \E i \in Tickets(q) : \A k \in Priority : queue[i].priority >= k
TopTicketGetsTurn == \A q \in Request : TopTicket(q) ~> ~TopTicket(q)

\* dequeue_breed: "Pop the highest-priority unprocessed breed request."  One
\* request, one child.
ServedOnce == \A q \in Request : Cardinality(children[q]) <= 1

=============================================================================
