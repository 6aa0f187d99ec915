--------------------------- MODULE MCFleetConductor ---------------------------
(***************************************************************************)
(* Two subsystems, one of them the breaker, and beside them the event bus  *)
(* and the thermal budget.  A behaviour follows two threads that call      *)
(* beat(), or one of them and an operator, or callers and the breaker, or  *)
(* one caller while the conductor is shut down around it and gives it      *)
(* another breaker, or two emits on the bus, or the agents that use a      *)
(* budget of one device of one slot, one of two and one not configured:    *)
(* focus, chosen at the start.                                             *)
(***************************************************************************)
EXTENDS FleetConductor, FleetEventBus, ThermalBudget

CONSTANTS beat1, beat2, oper, call1, call2, task1, task2

MCOrder == <<"metronome", "pacing">>
MCTicked == <<"metronome">>
MCMaxAgents == [d \in Device |-> IF d = "gpu" THEN 1 ELSE IF d = "cpu" THEN 2 ELSE 0]

VARIABLE focus
mcVars == <<conductorVars, busVars, thermalVars, focus>>
Focus == {"beats", "shutdown", "calls", "handover", "bus", "slots"}
Conducting == focus \notin {"bus", "slots"}
Calling == focus \in {"calls", "handover"}
Within ==
    /\ focus = "beats" => thread[oper] = Resting
    /\ focus = "shutdown" => thread[beat2] = Resting
    /\ focus = "calls" => \A t \in Thread : thread[t] = Resting
    /\ focus = "handover" => call[call2] = NoCall /\ faults = 0
    /\ IF Calling THEN \A t \in Thread : thread[t].at \in {"idle", "shutdown"}
       ELSE (\A c \in Caller : call[c] = NoCall) /\ \A i \in Instance : breaker[i] = Fresh

\* A bid for a device that is not configured is alone, and a third one makes
\* three agents compete for one device.
BidsWithin ==
    /\ Len(bidQueue) > 1 => \A i \in DOMAIN bidQueue : bidQueue[i].device \in Configured
    /\ Len(bidQueue) = MaxBids =>
          /\ Cardinality({bidQueue[i].agent : i \in DOMAIN bidQueue}) = MaxBids
          /\ Cardinality({bidQueue[i].device : i \in DOMAIN bidQueue}) = 1

Kept == UNCHANGED <<busVars, thermalVars, focus>> /\ Within'

MCInit == ConductorInit /\ BusInit /\ BudgetInit /\ focus \in Focus /\ (useAuction => focus = "slots")
MCNext ==
    \/ Conducting /\ ConductorNext /\ Kept
    \/ focus = "bus" /\ BusNext /\ UNCHANGED <<conductorVars, thermalVars, focus>>
    \/ focus = "slots" /\ BudgetNext /\ BidsWithin' /\ UNCHANGED <<conductorVars, busVars, focus>>

\* Calls of subsystems, tasks and walks end; beat() is called again and again,
\* agents are spawned again and again, and time passes.
Beating(t) == ThreadStep(t) \/ (t \in Beater /\ Beat(t))
Spawning(c) == CallStep(c) \/ \E task \in Task : SpawnAgent(c, task)
MCSpec ==
    /\ MCInit /\ [][MCNext]_mcVars
    /\ \A t \in Thread : WF_mcVars(Conducting /\ Beating(t) /\ Kept)
    /\ \A c \in Caller : WF_mcVars(Calling /\ Spawning(c) /\ Kept)
    /\ WF_mcVars(Calling /\ Time /\ Kept)
==============================================================================
