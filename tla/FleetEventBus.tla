---------------------------- MODULE FleetEventBus ----------------------------
(***************************************************************************)
(* The fleet's event bus (nexus/fleet_event_bus.py) for one event type.    *)
(* on() and off() change the list of handlers under the lock; an emit runs *)
(* through that same list by its index and holds no lock while the         *)
(* handlers run, so threads and handlers may change it under way.          *)
(*                                                                         *)
(* Registrations are numbered.  Handlers do what any thread may do:        *)
(* register, remove and emit; the one of an emit inside another counts as  *)
(* an emitter of its own.                                                  *)
(***************************************************************************)
EXTENDS Naturals, Sequences, FiniteSets, SequencesExt

CONSTANTS
    Emitter,      \* emits that may be under way at once
    MaxHandlers,  \* bound: registrations
    MaxEvents     \* bound: events

ASSUME BusAssumption == MaxHandlers \in Nat /\ MaxEvents \in Nat

VARIABLES
    handlers,     \* _handlers of the type: the registrations in their order
    subscribed,   \* registrations so far
    events,       \* events so far
    emit          \* where each emit is in the list

busVars == <<handlers, subscribed, events, emit>>

NoEmit == [under |-> FALSE, index |-> 0, last |-> 0, owed |-> {}, shifts |-> 0]

BusInit ==
    /\ handlers = <<>> /\ subscribed = 0 /\ events = 0
    /\ emit = [t \in Emitter |-> NoEmit]
------------------------------------------------------------------------------
\* on() and on_async()
\* Mutant: the newest handler is the first to be called.
OnFirst ==
    /\ subscribed < MaxHandlers
    /\ subscribed' = subscribed + 1
    /\ handlers' = <<subscribed + 1>> \o handlers
    /\ UNCHANGED <<events, emit>>
On ==
    /\ subscribed < MaxHandlers
    /\ subscribed' = subscribed + 1
    /\ handlers' = Append(handlers, subscribed + 1)
    /\ UNCHANGED <<events, emit>>

\* off() of the handler found at index p: what is behind it moves up, and the
\* emits that are past it will skip one.
Off(p) ==
    /\ p \in DOMAIN handlers
    /\ handlers' = RemoveAt(handlers, p)
    /\ emit' = [t \in Emitter |->
                   [emit[t] EXCEPT !.owed = @ \ {handlers[p]},
                                   !.shifts = IF p <= emit[t].index THEN @ + 1 ELSE @]]
    /\ UNCHANGED <<subscribed, events>>

\* emit() and emit_async(): the list is taken, not copied.
Emit(t) ==
    /\ ~emit[t].under /\ events < MaxEvents
    /\ events' = events + 1
    /\ emit' = IF handlers = <<>> THEN emit
               ELSE [emit EXCEPT ![t] = [NoEmit EXCEPT !.under = TRUE, !.owed = Range(handlers)]]
    /\ UNCHANGED <<handlers, subscribed>>

\* One turn of the loop: the filter says no, the handler is called, or its
\* coroutine scheduled, or any of them raises, which is logged.
NextHandler(t) == handlers[emit[t].index + 1]
Turn(t) ==
    /\ emit[t].under /\ emit[t].index < Len(handlers)
    /\ emit' = [emit EXCEPT ![t].index = @ + 1, ![t].last = NextHandler(t), ![t].owed = @ \ {NextHandler(t)}]
    /\ UNCHANGED <<handlers, subscribed, events>>
EndEmit(t) ==
    /\ emit[t].under /\ emit[t].index >= Len(handlers)
    /\ emit' = [emit EXCEPT ![t] = NoEmit]
    /\ UNCHANGED <<handlers, subscribed, events>>

BusNext ==
    \/ On \/ \E p \in 1 .. MaxHandlers : Off(p)
    \/ \E t \in Emitter : Emit(t) \/ Turn(t) \/ EndEmit(t)
BusSpec == BusInit /\ [][BusNext]_busVars
------------------------------------------------------------------------------
\* Whatever is registered and removed while an event is emitted, by its handlers
\* or by others: no handler has a second turn or one before a handler registered
\* earlier, and of those that were there all along the emit has passed over only
\* as many as registrations before them were removed meanwhile.
Coming(t) == {handlers[i] : i \in (emit[t].index + 1) .. Len(handlers)}
TurnsInOrder ==
    \A t \in Emitter : emit[t].under =>
        /\ \A h \in Coming(t) : h > emit[t].last
        /\ Cardinality(emit[t].owed \ Coming(t)) <= emit[t].shifts
==============================================================================
