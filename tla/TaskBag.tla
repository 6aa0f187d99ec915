------------------------------- MODULE TaskBag -------------------------------
(***************************************************************************)
(* What a queue of tasks promises to those who use it: a task that runs is *)
(* given to nobody else until its time is over, and a task leaves the bag  *)
(* only when somebody reports it done or its failures reach the limit.     *)
(***************************************************************************)
EXTENDS Naturals

CONSTANTS Id, Worker, MaxRetries, Nobody

VARIABLES
    present,    \* the tasks in the bag
    runner,     \* who runs each task
    failures,   \* reported for the task since it was submitted
    buried      \* tasks given up

bagVars == <<present, runner, failures, buried>>

Init ==
    /\ present = {}
    /\ runner = [i \in Id |-> Nobody]
    /\ failures = [i \in Id |-> 0]
    /\ buried = {}

Freed(i) == runner' = [runner EXCEPT ![i] = Nobody]

\* Submitting a task again starts it anew.
Submit(i) ==
    /\ present' = present \cup {i}
    /\ Freed(i)
    /\ failures' = [failures EXCEPT ![i] = 0]
    /\ UNCHANGED buried

Take(i, w) ==
    /\ i \in present /\ runner[i] = Nobody
    /\ runner' = [runner EXCEPT ![i] = w]
    /\ UNCHANGED <<present, failures, buried>>

\* The time of the tasks in S is over.
Lapse(S) ==
    /\ runner' = [i \in Id |-> IF i \in S THEN Nobody ELSE runner[i]]
    /\ UNCHANGED <<present, failures, buried>>

GiveBack(i) ==
    /\ Freed(i)
    /\ UNCHANGED <<present, failures, buried>>

Fail(i) ==
    /\ i \in present /\ failures[i] + 1 < MaxRetries
    /\ Freed(i)
    /\ failures' = [failures EXCEPT ![i] = @ + 1]
    /\ UNCHANGED <<present, buried>>

Leave(i) ==
    /\ i \in present
    /\ present' = present \ {i}
    /\ Freed(i)
    /\ failures' = [failures EXCEPT ![i] = 0]

Bury(i) ==
    /\ failures[i] + 1 >= MaxRetries
    /\ Leave(i)
    /\ buried' = buried \cup {i}

Finish(i) == Leave(i) /\ UNCHANGED buried

Clear ==
    /\ buried' = {}
    /\ UNCHANGED <<present, runner, failures>>

Next ==
    \/ \E i \in Id : Submit(i) \/ GiveBack(i) \/ Fail(i) \/ Bury(i) \/ Finish(i)
    \/ \E i \in Id, w \in Worker : Take(i, w)
    \/ \E S \in SUBSET Id : Lapse(S)
    \/ Clear

Spec == Init /\ [][Next]_bagVars
==============================================================================
