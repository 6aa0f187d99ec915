---------------------------- MODULE FleetConductor ----------------------------
(***************************************************************************)
(* The conductor of nexus/fleet_conductor_v2.py.  Threads call start(),    *)
(* beat(), get_status() and shutdown(), which walk over the subsystems     *)
(* without holding the lock of the conductor, and spawn_agent(), which     *)
(* asks the circuit breaker, runs the task and tells the breaker how it    *)
(* went.  Each visit to a subsystem is an action.                          *)
(*                                                                         *)
(* The router owns a breaker of its own that nobody tells anything: it is  *)
(* always OPEN, and a task runs in the caller or is handed to a subagent,  *)
(* which counts as a success.  Subsystems whose factory asks for others    *)
(* (sda, breeder) are left out.                                            *)
(***************************************************************************)
EXTENDS SubsystemWrapper, GatewayPacing, Sequences, FiniteSets

CONSTANTS
    Order,        \* _subsystems, in order
    Ticked,       \* those that beat() ticks, in its order
    Queried,      \* those that get_status() asks for at its end
    Dashboard,    \* there is a dashboard: every beat ends with get_status()
    Beater,       \* threads that call beat()
    Operator,     \* threads that call start(), get_status(), register_node(), shutdown()
    Caller,       \* threads that call spawn_agent()
    Task,
    QueueLimit    \* _queued_tasks_limit

\* Every instance of the subsystem "pacing" is a breaker.
\* _subsystems holds every wrapper.
ASSUME ConductorAssumption ==
    /\ Instance = Made /\ QueueLimit \in Nat
    /\ \A s \in Sub : \E k \in DOMAIN Order : Order[k] = s
    /\ "pacing" \in Sub
    /\ \A walk \in {Order, Ticked, Queried} : walk \in Seq(Sub) /\ "pacing" \notin {Ticked[k] : k \in DOMAIN Ticked}

VARIABLES
    started, down,     \* _started and _shutdown
    thread,            \* what each thread does, and what is left of its walk
    before,            \* history: what was alive when the thread called shutdown()
    call,              \* spawn_agent() of each caller
    queue,             \* _queued_tasks
    told,              \* history: tasks that were reported as queued and not drained since
    full               \* history: those that found no room

conductorVars == <<wrapperVars, pacingVars, started, down, thread, before, call, queue, told, full>>
callVars == <<call, queue, told, full>>

Thread == Beater \cup Operator
Phase == {"idle", "start", "beat", "tick", "restart", "revive", "status", "query", "shutdown"}
Resting == [at |-> "idle", todo |-> <<>>, on |-> None]
NoCall == [at |-> "idle", pacing |-> None, task |-> None]

ConductorInit ==
    /\ WrapperInit /\ PacingInit
    /\ started = FALSE /\ down = FALSE
    /\ thread = [t \in Thread |-> Resting]
    /\ before = [t \in Thread |-> {}]
    /\ call = [c \in Caller |-> NoCall]
    /\ queue = <<>> /\ told = {} /\ full = {}

Goes(t, at, todo, on) == thread' = [thread EXCEPT ![t] = [at |-> at, todo |-> todo, on |-> on]]
At(t, at) == thread[t].at = at /\ thread[t].todo # <<>>
Next1(t) == Head(thread[t].todo)
Rest(t) == Tail(thread[t].todo)
------------------------------------------------------------------------------
Start(t) ==
    /\ thread[t] = Resting /\ ~started
    /\ started' = TRUE /\ down' = FALSE
    /\ Goes(t, "start", Order, None)
    /\ UNCHANGED <<wrapperVars, before, callVars, pacingVars>>

StartStep(t) ==
    /\ At(t, "start")
    /\ \E i \in Made \cup {None} : Ensure(Next1(t), i)
    /\ Goes(t, "start", Rest(t), None)
    /\ UNCHANGED <<started, down, before, callVars, pacingVars>>

\* beat() asks once, at its start, whether the conductor is shut down.
Beat(t) ==
    /\ thread[t] = Resting /\ ~down
    /\ Goes(t, "beat", Ticked, None)
    /\ UNCHANGED <<wrapperVars, started, down, before, callVars, pacingVars>>

BeatStep(t) ==
    /\ At(t, "beat")
    /\ \E i \in Made \cup {None} :
        /\ Ensure(Next1(t), i)
        /\ IF i = None THEN Goes(t, "beat", Rest(t), None) ELSE Goes(t, "tick", thread[t].todo, i)
    /\ UNCHANGED <<started, down, before, callVars, pacingVars>>

Poor(s) == failures[s] >= RestartAt
\* Mutant: the exception logged, and no look at the health.
TickLogged(t) ==
    /\ At(t, "tick")
    /\ Returns(Next1(t), thread[t].on) \/ Raises(Next1(t), thread[t].on)
    /\ Goes(t, "beat", Rest(t), None)
    /\ UNCHANGED <<instance, health, failures, made, stopped, broken, started, down, before, callVars, pacingVars>>
\* The subsystem is ticked under no lock of the conductor; when it raises,
\* _maybe_auto_restart looks at its health, and sleeps if that is poor.
Tick(t) ==
    /\ At(t, "tick")
    /\ \/ Returns(Next1(t), thread[t].on) /\ Goes(t, "beat", Rest(t), None)
       \/ /\ Raises(Next1(t), thread[t].on)
          /\ IF Poor(Next1(t)) THEN Goes(t, "restart", thread[t].todo, None)
                               ELSE Goes(t, "beat", Rest(t), None)
    /\ UNCHANGED <<instance, health, failures, made, stopped, broken, started, down, before, callVars, pacingVars>>

\* restart() when the sleep is over, without another look at the health.
RestartStep(t) ==
    /\ At(t, "restart")
    /\ Destroy(Next1(t))
    /\ Goes(t, "revive", thread[t].todo, None)
    /\ UNCHANGED <<started, down, before, callVars, pacingVars>>

ReviveStep(t) ==
    /\ At(t, "revive")
    /\ \E i \in Made \cup {None} : Ensure(Next1(t), i)
    /\ Goes(t, "beat", Rest(t), None)
    /\ UNCHANGED <<started, down, before, callVars, pacingVars>>

GetStatus(t) ==
    /\ \/ thread[t] = Resting /\ t \in Operator
       \/ Dashboard /\ thread[t].at = "beat" /\ thread[t].todo = <<>>
    /\ Goes(t, "status", Order, None)
    /\ UNCHANGED <<wrapperVars, started, down, before, callVars, pacingVars>>

StatusStep(t) ==
    /\ At(t, "status")
    /\ HealthCheck(Next1(t))
    /\ IF Next1(t) = "pacing" /\ instance["pacing"] # None
       THEN GetPacingStatus(instance["pacing"]) ELSE UNCHANGED pacingVars
    /\ IF Rest(t) # <<>> THEN Goes(t, "status", Rest(t), None) ELSE Goes(t, "query", Queried, None)
    /\ UNCHANGED <<started, down, before, callVars>>

\* The drift, the diversity and the agents are asked of instances that are
\* created if they are not there.
QueryStep(t) ==
    /\ At(t, "query")
    /\ \E i \in Made \cup {None} : Ensure(Next1(t), i)
    /\ Goes(t, "query", Rest(t), None)
    /\ UNCHANGED <<started, down, before, callVars, pacingVars>>

\* register_node() asks for the same subsystems; what it tells them is theirs.
RegisterNode(t) ==
    /\ thread[t] = Resting
    /\ Goes(t, "query", Queried, None)
    /\ UNCHANGED <<wrapperVars, started, down, before, callVars, pacingVars>>

Shutdown(t) ==
    /\ thread[t] = Resting /\ ~down
    /\ down' = TRUE /\ started' = FALSE
    /\ Goes(t, "shutdown", Order, None)
    /\ before' = [before EXCEPT ![t] = Live]
    /\ UNCHANGED <<wrapperVars, callVars, pacingVars>>

\* Mutant: subsystems of poor health left alone.
ShutdownHealthy(t) ==
    /\ At(t, "shutdown")
    /\ IF health[Next1(t)] = "failed" THEN UNCHANGED wrapperVars ELSE Destroy(Next1(t))
    /\ Goes(t, "shutdown", Rest(t), None)
    /\ UNCHANGED <<started, down, before, callVars, pacingVars>>
ShutdownStep(t) ==
    /\ At(t, "shutdown")
    /\ Destroy(Next1(t))
    /\ Goes(t, "shutdown", Rest(t), None)
    /\ UNCHANGED <<started, down, before, callVars, pacingVars>>

Return(t) ==
    /\ thread[t].todo = <<>> /\ thread[t] # Resting
    /\ thread[t].at = "beat" => ~Dashboard
    /\ thread' = [thread EXCEPT ![t] = Resting]
    /\ before' = [before EXCEPT ![t] = {}]
    /\ UNCHANGED <<wrapperVars, started, down, callVars, pacingVars>>

ThreadStep(t) ==
    \/ StartStep(t) \/ BeatStep(t) \/ Tick(t) \/ RestartStep(t) \/ ReviveStep(t)
    \/ (thread[t] # Resting /\ GetStatus(t)) \/ StatusStep(t) \/ QueryStep(t)
    \/ ShutdownStep(t) \/ Return(t)
------------------------------------------------------------------------------
Calls(c, at) == call' = [call EXCEPT ![c].at = at]

\* A task may be offered again when it is known to wait nowhere.
SpawnAgent(c, task) ==
    /\ call[c] = NoCall
    /\ task \notin told \ full /\ \A d \in Caller : call[d].task # task
    /\ \E i \in Made \cup {None} :
        /\ Ensure("pacing", i)
        /\ call' = [call EXCEPT ![c] = [at |-> IF i = None THEN "run" ELSE "ask", pacing |-> i, task |-> task]]
    /\ told' = told \ {task} /\ full' = full \ {task}
    /\ UNCHANGED <<started, down, thread, before, queue, pacingVars>>

AskPacing(c) ==
    /\ call[c].at = "ask"
    /\ \E allowed \in BOOLEAN :
        /\ CanDispatch(call[c].pacing, allowed)
        /\ Calls(c, IF allowed THEN "run" ELSE "refused")
    /\ UNCHANGED <<wrapperVars, started, down, thread, before, queue, told, full>>

\* The task is over; the breaker asked before is told, be it still in use or not.
Finish(c, outcome) ==
    /\ call[c].at = "run"
    /\ IF call[c].pacing = None THEN UNCHANGED pacingVars ELSE Record(call[c].pacing, outcome)
    /\ call' = [call EXCEPT ![c] = NoCall]
    /\ UNCHANGED <<wrapperVars, started, down, thread, before, queue, told, full>>

\* The caller is told that the task is queued, whether there was room or not.
Enqueue(c) ==
    /\ call[c].at = "refused"
    /\ LET task == call[c].task
       IN /\ told' = told \cup {task}
          /\ IF Len(queue) < QueueLimit
             THEN queue' = Append(queue, task) /\ UNCHANGED full
             ELSE full' = full \cup {task} /\ UNCHANGED queue
    /\ call' = [call EXCEPT ![c] = NoCall]
    /\ UNCHANGED <<wrapperVars, started, down, thread, before, pacingVars>>

Taken(n) == {queue[k] : k \in 1 .. n}
\* Mutant: the last one handed out stays in the list.
DrainShort(n) ==
    /\ n \in 1 .. Len(queue)
    /\ queue' = SubSeq(queue, n, Len(queue))
    /\ told' = told \ Taken(n)
    /\ UNCHANGED <<wrapperVars, started, down, thread, before, call, full, pacingVars>>
\* drain_queue() that finds n tasks.
Drain(n) ==
    /\ n \in 1 .. Len(queue)
    /\ queue' = SubSeq(queue, n + 1, Len(queue))
    /\ told' = told \ Taken(n)
    /\ UNCHANGED <<wrapperVars, started, down, thread, before, call, full, pacingVars>>

CallStep(c) == AskPacing(c) \/ (\E o \in Outcome : Finish(c, o)) \/ Enqueue(c)

Time == Elapse /\ UNCHANGED <<wrapperVars, started, down, thread, before, callVars>>
GoesWrong ==
    /\ \E k \in DOMAIN Ticked, i \in Made : Breaks(Ticked[k], i)
    /\ UNCHANGED <<started, down, thread, before, callVars, pacingVars>>

ConductorNext ==
    \/ \E t \in Operator : Start(t) \/ GetStatus(t) \/ RegisterNode(t) \/ Shutdown(t)
    \/ \E t \in Beater : Beat(t)
    \/ \E t \in Thread : ThreadStep(t)
    \/ \E c \in Caller : CallStep(c) \/ \E task \in Task : SpawnAgent(c, task)
    \/ \E n \in 1 .. QueueLimit : Drain(n)
    \/ Time \/ GoesWrong

ConductorSafe == ConductorInit /\ [][ConductorNext]_conductorVars
------------------------------------------------------------------------------
\* Type of the state.
ConductorTypeOK ==
    /\ WrapperTypeOK /\ PacingTypeOK
    /\ started \in BOOLEAN /\ down \in BOOLEAN
    /\ \A t \in Thread : thread[t].at \in Phase /\ thread[t].on \in Made \cup {None}
    /\ \A c \in Caller : call[c] = NoCall \/ (call[c].at \in {"ask", "run", "refused"} /\ call[c].task \in Task)
    /\ queue \in Seq(Task) /\ Len(queue) <= QueueLimit

\* What was alive when shutdown() was called has been told to stop when it
\* returns, although beats, restarts and status queries go on beside it.
NothingSurvives ==
    \A t \in Thread : thread[t].at = "shutdown" =>
        \A x \in before[t] : x \in stopped \/ \E k \in DOMAIN thread[t].todo : thread[t].todo[k] = x[1]

\* A task reported as queued waits in the list, once, until it is drained;
\* only a full list drops it.
QueuedOnce ==
    \A task \in Task :
        Cardinality({k \in DOMAIN queue : queue[k] = task}) = IF task \in told \ full THEN 1 ELSE 0

\* A subsystem that failed its checks and fails its ticks is torn down, as long
\* as beat() is called and the conductor is not shut down.
FailingIsRestarted ==
    \A k \in DOMAIN Ticked, i \in Made :
        (instance[Ticked[k]] = i /\ <<Ticked[k], i>> \in broken /\ failures[Ticked[k]] = RestartAt)
            ~> (instance[Ticked[k]] # i \/ down)

\* A closed breaker does not stay closed while agents go on being spawned: the
\* timeouts of calls let through before prolong its backoff only so often, and
\* refused calls do not.
CircuitRecovers ==
    \A i \in Made : (instance["pacing"] = i /\ breaker[i].state = "CLOSED")
                    ~> (instance["pacing"] # i \/ breaker[i].state # "CLOSED")
==============================================================================
