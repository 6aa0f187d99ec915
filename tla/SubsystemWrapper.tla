--------------------------- MODULE SubsystemWrapper ---------------------------
(***************************************************************************)
(* The wrappers of nexus/fleet_conductor_v2.py around the subsystems of a  *)
(* conductor: lazy creation, health, tear-down.  ensure(), health_check()  *)
(* and destroy() hold the lock of the wrapper, hence one action each;      *)
(* restart() gives the lock up between destroy() and ensure().             *)
(*                                                                         *)
(* Instances are numbered in the order their factory made them.  Wrappers  *)
(* that are not enabled do nothing and are left out.                       *)
(***************************************************************************)
EXTENDS Naturals

CONSTANTS
    Sub,         \* the enabled subsystems
    MaxMade,     \* bound: instances a factory makes; then it raises
    MaxFaults,   \* bound: factories, calls and instances that fail by chance
    None

ASSUME WrapperAssumption == MaxMade \in Nat \ {0} /\ MaxFaults \in Nat /\ None \notin Nat

VARIABLES
    instance,   \* of each wrapper
    health,     \* health.state
    failures,   \* health.consecutive_failures, up to RestartAt
    made,       \* how many instances each factory has made
    stopped,    \* instances whose shutdown(), close() or stop() was called
    broken,     \* instances that raise whatever is asked of them
    faults      \* of MaxFaults

wrapperVars == <<instance, health, failures, made, stopped, broken, faults>>

Made == 1 .. MaxMade
Live == {x \in Sub \X Made : instance[x[1]] = x[2]}

\* The number of failed checks from which on a subsystem is restarted.
RestartAt == 3
OneMore(n) == IF n < RestartAt THEN n + 1 ELSE n

Fault == faults < MaxFaults /\ faults' = faults + 1

WrapperInit ==
    /\ instance = [s \in Sub |-> None]
    /\ health = [s \in Sub |-> "disabled"]
    /\ failures = [s \in Sub |-> 0]
    /\ made = [s \in Sub |-> 0]
    /\ stopped = {} /\ broken = {} /\ faults = 0
------------------------------------------------------------------------------
Create(s) ==
    /\ made[s] < MaxMade
    /\ made' = [made EXCEPT ![s] = @ + 1]
    /\ instance' = [instance EXCEPT ![s] = made[s] + 1]
    /\ health' = [health EXCEPT ![s] = "healthy"]
    /\ failures' = [failures EXCEPT ![s] = 0]
    /\ UNCHANGED <<stopped, broken, faults>>

FactoryRaises(s) ==
    /\ Fault \/ (made[s] = MaxMade /\ UNCHANGED faults)
    /\ health' = [health EXCEPT ![s] = "failed"]
    /\ failures' = [failures EXCEPT ![s] = OneMore(@)]
    /\ UNCHANGED <<instance, made, stopped, broken>>

\* Mutant: the instance made before is not looked for.
EnsureAnew(s, i) ==
    \/ Create(s) /\ i = made'[s]
    \/ FactoryRaises(s) /\ i = None
\* ensure() that returns i.
Ensure(s, i) ==
    \/ instance[s] # None /\ i = instance[s] /\ UNCHANGED wrapperVars
    \/ instance[s] = None /\ Create(s) /\ i = made'[s]
    \/ instance[s] = None /\ FactoryRaises(s) /\ i = None

\* An instance goes wrong and stays wrong.
Breaks(s, i) ==
    /\ <<s, i>> \in Live \ broken
    /\ Fault
    /\ broken' = broken \cup {<<s, i>>}
    /\ UNCHANGED <<instance, health, failures, made, stopped>>

\* A call of instance i returns, or raises: always when it is broken, perhaps
\* when it has been stopped, and now and then by chance.
Returns(s, i) == <<s, i>> \notin broken /\ UNCHANGED faults
Raises(s, i) == Fault \/ (<<s, i>> \in broken \cup stopped /\ UNCHANGED faults)

\* health_check(), which asks the instance for its status.
HealthCheck(s) ==
    /\ \/ /\ instance[s] = None
          /\ health' = [health EXCEPT ![s] = "disabled"]
          /\ UNCHANGED <<failures, faults>>
       \/ /\ instance[s] # None /\ Returns(s, instance[s])
          /\ health' = [health EXCEPT ![s] = "healthy"]
          /\ failures' = [failures EXCEPT ![s] = 0]
       \/ /\ instance[s] # None /\ Raises(s, instance[s])
          /\ failures' = [failures EXCEPT ![s] = OneMore(@)]
          /\ health' = [health EXCEPT ![s] = IF failures'[s] >= RestartAt THEN "failed" ELSE "degraded"]
    /\ UNCHANGED <<instance, made, stopped, broken>>

\* destroy(); an instance that raises when told to stop is dropped all the same.
Destroy(s) ==
    /\ IF instance[s] = None THEN UNCHANGED <<instance, health, stopped>>
       ELSE /\ stopped' = stopped \cup {<<s, instance[s]>>}
            /\ instance' = [instance EXCEPT ![s] = None]
            /\ health' = [health EXCEPT ![s] = "disabled"]
    /\ UNCHANGED <<failures, made, broken, faults>>
------------------------------------------------------------------------------
\* Type of the wrappers.
WrapperTypeOK ==
    /\ instance \in [Sub -> Made \cup {None}]
    /\ health \in [Sub -> {"healthy", "degraded", "failed", "disabled"}]
    /\ failures \in [Sub -> 0 .. RestartAt]
    /\ made \in [Sub -> 0 .. MaxMade]
    /\ stopped \subseteq Sub \X Made /\ broken \subseteq Sub \X Made
    /\ faults \in 0 .. MaxFaults

\* However calls of ensure(), restart() and destroy() cross, an instance that a
\* factory made is the one in the wrapper, or was told to stop: never forgotten
\* while it runs, and never both.
NoneForgotten ==
    \A s \in Sub : \A i \in 1 .. made[s] : (<<s, i>> \in stopped) # (instance[s] = i)

\* health.state tells the truth about the instance when threads create, check
\* and destroy it in any order: what is healthy or degraded is there, what is
\* disabled is not.
HealthTruthful ==
    \A s \in Sub :
        /\ health[s] \in {"healthy", "degraded"} => instance[s] # None
        /\ health[s] = "disabled" => instance[s] = None

\* A wrapper neither forgets an instance it made nor misreports the one it has.
InstancesKept == NoneForgotten /\ HealthTruthful
==============================================================================
