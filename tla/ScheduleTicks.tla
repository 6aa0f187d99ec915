----------------------------- MODULE ScheduleTicks -----------------------------
(***************************************************************************)
(* The schedules of fleet/fleet_bernstein_scheduler.py: registrations with *)
(* a cron expression and a policy for missed windows, and tick(), which    *)
(* fires what is due.  tick() takes the lock only to copy the list of      *)
(* schedules and to write last_fire_at, which it does by id when all fires *)
(* of the schedule are over; register_schedule() may have put another      *)
(* registration under that id meanwhile.                                   *)
(*                                                                         *)
(* The unit of time is the minute, to which cron rounds.  What a fire      *)
(* dispatches may succeed, fail or be refused by the breaker: the window   *)
(* is spent either way.                                                    *)
(***************************************************************************)
EXTENDS Naturals, Sequences, FiniteSets

CONSTANTS
    Schedule,       \* ids
    Cron,           \* sets of minutes
    CatchUpLimit,   \* catch_up_limit
    Ticker,         \* threads that call tick()
    MaxMade,        \* bound: registrations
    MaxMinute,      \* bound
    Absent          \* no registration

ASSUME SchedulesAssumption ==
    /\ Cron \subseteq SUBSET Nat
    /\ CatchUpLimit \in Nat /\ MaxMade \in Nat /\ MaxMinute \in Nat \ {0, 1}
    /\ Absent \notin Nat

VARIABLES
    now,         \* the minute
    schedules,   \* _schedules: the registration under each id
    made,        \* the registrations ever made, with what they were made with
    lastFire,    \* last_fire_at of each, 0 as long as it is not set
    tick,        \* what each thread has in hand
    fired,       \* history: the windows each registration has been fired for
    logged,      \* history: the windows in its counterfactual receipts
    repeated,    \* history: registrations fired for a window not behind all they were fired for before
    mixed        \* history: ids in the hands of two ticks at once

scheduleVars == <<now, schedules, made, lastFire, tick, fired, logged, repeated, mixed>>

Registration == [id : Schedule, cron : Cron, catchUp : BOOLEAN, opaque : BOOLEAN, at : Nat]
Made == 1 .. MaxMade
NoTick == [now |-> 0, todo |-> {}, on |-> Absent, anchor |-> 0, fires |-> 0, skipped |-> {}]

SchedulesInit ==
    /\ now = 2
    /\ schedules = [i \in Schedule |-> Absent]
    /\ made = <<>>
    /\ lastFire = [o \in Made |-> 0]
    /\ tick = [t \in Ticker |-> NoTick]
    /\ fired = [o \in Made |-> {}]
    /\ logged = [o \in Made |-> {}]
    /\ repeated = {} /\ mixed = {}
------------------------------------------------------------------------------
\* register_schedule(); an id in use gets the new registration.  A task_spec
\* may be one that json.dumps does not take: opaque.
Register(i, cron, catchUp, opaque) ==
    /\ Len(made) < MaxMade
    /\ made' = Append(made, [id |-> i, cron |-> cron, catchUp |-> catchUp, opaque |-> opaque, at |-> now])
    /\ schedules' = [schedules EXCEPT ![i] = Len(made) + 1]
    /\ UNCHANGED <<now, lastFire, tick, fired, logged, repeated, mixed>>

Unregister(i) ==
    /\ schedules[i] # Absent
    /\ schedules' = [schedules EXCEPT ![i] = Absent]
    /\ UNCHANGED <<now, made, lastFire, tick, fired, logged, repeated, mixed>>

InHand(t) == tick[t].todo \cup ({tick[t].on} \ {Absent})
Ids(objects) == {made[o].id : o \in objects}

\* tick() up to the copy of the list.
Begin(t) ==
    LET registered == {schedules[i] : i \in Schedule} \ {Absent}
    IN
    /\ tick[t] = NoTick /\ registered # {}
    /\ tick' = [tick EXCEPT ![t].now = now, ![t].todo = registered]
    /\ mixed' = mixed \cup (Ids(registered) \cap UNION {Ids(InHand(u)) : u \in Ticker \ {t}})
    /\ UNCHANGED <<now, schedules, made, lastFire, fired, logged, repeated>>

\* last_fire_at is read under no lock.
Take(t, o) ==
    /\ tick[t].on = Absent /\ o \in tick[t].todo
    /\ tick' = [tick EXCEPT ![t].todo = @ \ {o}, ![t].on = o, ![t].fires = 0, ![t].skipped = {},
                            ![t].anchor = IF lastFire[o] # 0 THEN lastFire[o] ELSE tick[t].now - 1]
    /\ UNCHANGED <<now, schedules, made, lastFire, fired, logged, repeated, mixed>>

Due(t) == {m \in made[tick[t].on].cron : tick[t].anchor < m /\ m <= tick[t].now}
Earliest(S) == CHOOSE m \in S : \A n \in S : m <= n
Latest(S) == CHOOSE m \in S : \A n \in S : n <= m

\* When the object has nothing left to do the thread takes the next, or returns.
Left(t) == IF tick[t].todo = {} THEN NoTick ELSE [tick[t] EXCEPT !.on = Absent]

\* _fire() of the next window: the earliest, or the latest when missed windows
\* are to be skipped.  The hash of an opaque task_spec raises behind the
\* dispatch, and tick() goes on with the next schedule.
MayCatchUp(t) == tick[t].fires < CatchUpLimit
Fire(t) ==
    /\ tick[t].on # Absent /\ Due(t) # {}
    /\ LET o == tick[t].on
           m == IF made[o].catchUp THEN Earliest(Due(t)) ELSE Latest(Due(t))
       IN /\ made[o].catchUp => MayCatchUp(t)
          /\ fired' = [fired EXCEPT ![o] = @ \cup {m}]
          /\ repeated' = IF \E n \in fired[o] : n >= m THEN repeated \cup {o} ELSE repeated
          /\ tick' = [tick EXCEPT ![t] =
                        IF made[o].opaque THEN Left(t)
                        ELSE [tick[t] EXCEPT !.anchor = m, !.fires = @ + 1,
                                             !.skipped = @ \cup {n \in Due(t) : n < m}]]
    /\ UNCHANGED <<now, schedules, made, lastFire, logged, mixed>>

\* What _tick_one has come to when it fires no more: the windows beyond the
\* limit are skipped as well.
Passed(t) == tick[t].skipped \cup Due(t)
Reached(t) == Latest({tick[t].anchor} \cup Due(t))
Finished(t) == tick[t].on # Absent /\ (Due(t) = {} \/ (made[tick[t].on].catchUp /\ ~MayCatchUp(t)))

\* Mutant: last_fire_at is where the tick began.
EndWhereBegun(t) ==
    /\ Finished(t)
    /\ LET o == tick[t].on
           i == made[o].id
       IN /\ logged' = [logged EXCEPT ![o] = @ \cup Passed(t)]
          /\ lastFire' = IF schedules[i] = Absent THEN lastFire
                         ELSE [lastFire EXCEPT ![schedules[i]] = tick[t].now - 1]
    /\ tick' = [tick EXCEPT ![t] = Left(t)]
    /\ UNCHANGED <<now, schedules, made, fired, repeated, mixed>>
\* Mutant: the loop ends at the limit, and the windows beyond it are forgotten.
EndAtLimit(t) ==
    /\ Finished(t)
    /\ LET o == tick[t].on
           i == made[o].id
       IN /\ logged' = [logged EXCEPT ![o] = @ \cup tick[t].skipped]
          /\ lastFire' = IF schedules[i] = Absent THEN lastFire
                         ELSE [lastFire EXCEPT ![schedules[i]] = tick[t].now]
    /\ tick' = [tick EXCEPT ![t] = Left(t)]
    /\ UNCHANGED <<now, schedules, made, fired, repeated, mixed>>
\* The end of _tick_one: the counterfactual receipt, and last_fire_at written to
\* whatever is registered under the id.
End(t) ==
    /\ Finished(t)
    /\ LET o == tick[t].on
           i == made[o].id
       IN /\ logged' = [logged EXCEPT ![o] = @ \cup Passed(t)]
          /\ lastFire' = IF schedules[i] = Absent THEN lastFire
                         ELSE [lastFire EXCEPT ![schedules[i]] = Reached(t)]
    /\ tick' = [tick EXCEPT ![t] = Left(t)]
    /\ UNCHANGED <<now, schedules, made, fired, repeated, mixed>>

TickStep(t) == (\E o \in Made : Take(t, o)) \/ Fire(t) \/ End(t)

Minute ==
    /\ now < MaxMinute /\ now' = now + 1
    /\ UNCHANGED <<schedules, made, lastFire, tick, fired, logged, repeated, mixed>>

SchedulesNext ==
    \/ \E i \in Schedule : Unregister(i) \/ \E c \in Cron, catchUp, opaque \in BOOLEAN : Register(i, c, catchUp, opaque)
    \/ \E t \in Ticker : Begin(t) \/ TickStep(t)
    \/ Minute

SchedulesSafe == SchedulesInit /\ [][SchedulesNext]_scheduleVars

\* beat() is called again and again, and what a fire dispatches returns.
SchedulesSpec ==
    SchedulesSafe /\ \A t \in Ticker : WF_scheduleVars(Begin(t)) /\ WF_scheduleVars(TickStep(t))
------------------------------------------------------------------------------
\* Type of the scheduler.
SchedulesTypeOK ==
    /\ now \in 1 .. MaxMinute
    /\ made \in Seq(Registration) /\ Len(made) <= MaxMade
    /\ schedules \in [Schedule -> (1 .. Len(made)) \cup {Absent}]
    /\ lastFire \in [Made -> 0 .. MaxMinute]
    /\ tick \in [Ticker -> [now : 0 .. MaxMinute, todo : SUBSET (1 .. Len(made)),
                            on : (1 .. Len(made)) \cup {Absent}, anchor : 0 .. MaxMinute,
                            fires : Nat, skipped : SUBSET (1 .. MaxMinute)]]
    /\ \A t \in Ticker : InHand(t) # {} => tick[t].now > 0
    /\ fired \in [Made -> SUBSET (1 .. MaxMinute)] /\ logged \in [Made -> SUBSET (1 .. MaxMinute)]
    /\ repeated \subseteq 1 .. Len(made) /\ mixed \subseteq Schedule

\* A registration is fired for its windows in order and for none of them twice,
\* however long its tasks run, whatever is caught up, skipped or registered
\* anew under its id meanwhile; unless two ticks have it in hand at once, or its
\* task_spec cannot be hashed.
FiredOnce ==
    \A o \in repeated : made[o].opaque \/ made[o].id \in mixed

\* From its first tick on, no window of a registration is lost: it is fired, or
\* named in a receipt as skipped, unless the registration goes first, or two
\* ticks have it in hand at once.
Registered(o) == \E i \in Schedule : schedules[i] = o
Owed(o, m) ==
    /\ Registered(o) /\ ~made[o].opaque /\ made[o].id \notin mixed
    /\ lastFire[o] # 0 /\ lastFire[o] < m
    /\ m \in made[o].cron /\ made[o].at < m /\ m <= now
WindowsAnswered ==
    \A o \in Made, m \in UNION Cron :
        Owed(o, m) ~> (m \in fired[o] \cup logged[o] \/ ~Registered(o) \/ made[o].id \in mixed)
==============================================================================
