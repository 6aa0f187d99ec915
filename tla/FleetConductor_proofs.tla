------------------------ MODULE FleetConductor_proofs -------------------------
(***************************************************************************)
(* For every set of subsystems, threads, callers and tasks, and every      *)
(* bound: wrappers lose no instance, a shutdown leaves none of those it    *)
(* met alive, a queued task waits once, a breaker reopens on successes     *)
(* only; and for every number of emits, handlers and events, the event bus *)
(* calls handlers in their order.                                          *)
(***************************************************************************)
EXTENDS FleetConductor, FleetEventBus, SequenceTheorems, FiniteSetTheorems, TLAPS

(***************************************************************************)
(* The wrappers.  An instance is the last its factory made, or was told to *)
(* stop: this is why none is forgotten.                                    *)
(***************************************************************************)
MadeInOrder ==
    /\ \A s \in Sub : instance[s] # None => instance[s] <= made[s]
    /\ \A s \in Sub : \A i \in Made : <<s, i>> \in stopped => i <= made[s]
WrapperInv == WrapperTypeOK /\ InstancesKept /\ MadeInOrder

\* No step takes back that an instance was made or stopped.
NothingUndone == stopped \subseteq stopped' /\ \A s \in Sub : made[s] <= made'[s]

LEMMA WrapperInitially == WrapperInit => WrapperInv
<1>. SUFFICES ASSUME WrapperInit PROVE WrapperInv
  OBVIOUS
<1>1. WrapperTypeOK
  BY WrapperAssumption DEF WrapperInit, WrapperTypeOK, Made, RestartAt
<1>2. InstancesKept
  BY DEF WrapperInit, InstancesKept, NoneForgotten, HealthTruthful
<1>3. MadeInOrder
  BY DEF WrapperInit, MadeInOrder
<1>. QED BY <1>1, <1>2, <1>3 DEF WrapperInv

LEMMA WrapperStutters ==
    ASSUME WrapperInv, UNCHANGED <<instance, health, failures, made, stopped, broken>>, faults' \in 0 .. MaxFaults
    PROVE  WrapperInv' /\ NothingUndone
BY DEF WrapperInv, WrapperTypeOK, InstancesKept, NoneForgotten, HealthTruthful, MadeInOrder, NothingUndone

LEMMA CreateKeeps ==
    ASSUME WrapperInv, NEW s \in Sub, instance[s] = None, Create(s)
    PROVE  WrapperInv' /\ NothingUndone /\ made'[s] \in Made
<1>. USE WrapperAssumption DEF WrapperInv
<1>1. /\ made[s] \in Nat /\ made[s] + 1 \in Made
      /\ made' = [made EXCEPT ![s] = made[s] + 1]
      /\ instance' = [instance EXCEPT ![s] = made[s] + 1]
      /\ health' = [health EXCEPT ![s] = "healthy"]
      /\ failures' = [failures EXCEPT ![s] = 0]
      /\ stopped' = stopped /\ broken' = broken /\ faults' = faults
  BY DEF Create, WrapperTypeOK, Made
<1>2. WrapperTypeOK'
  BY <1>1 DEF WrapperTypeOK, Made, RestartAt
<1>3. NoneForgotten'
  <2>. SUFFICES ASSUME NEW r \in Sub, NEW i \in 1 .. made'[r]
                PROVE  (<<r, i>> \in stopped') # (instance'[r] = i)
    BY DEF NoneForgotten
  <2>1. CASE r # s
    BY <1>1, <2>1 DEF WrapperTypeOK, InstancesKept, NoneForgotten
  <2>2. CASE r = s /\ i = made[s] + 1
    <3>1. <<r, i>> \notin stopped
      BY <1>1, <2>2 DEF MadeInOrder
    <3>. QED BY <1>1, <2>2, <3>1 DEF WrapperTypeOK
  <2>3. CASE r = s /\ i # made[s] + 1
    <3>1. i \in 1 .. made[s]
      BY <1>1, <2>3 DEF WrapperTypeOK
    <3>2. (<<s, i>> \in stopped) # (instance[s] = i)
      BY <3>1, <2>3 DEF InstancesKept, NoneForgotten
    <3>3. instance[s] # i /\ instance'[s] # i
      BY <1>1, <2>3, <3>1 DEF WrapperTypeOK
    <3>. QED BY <1>1, <2>3, <3>2, <3>3
  <2>. QED BY <2>1, <2>2, <2>3
<1>4. HealthTruthful'
  BY <1>1 DEF WrapperTypeOK, InstancesKept, HealthTruthful
<1>5. MadeInOrder'
  BY <1>1 DEF WrapperTypeOK, MadeInOrder, Made
<1>6. NothingUndone /\ made'[s] \in Made
  BY <1>1 DEF WrapperTypeOK, NothingUndone
<1>. QED BY <1>2, <1>3, <1>4, <1>5, <1>6 DEF InstancesKept

LEMMA FactoryRaisesKeeps ==
    ASSUME WrapperInv, NEW s \in Sub, instance[s] = None, FactoryRaises(s)
    PROVE  WrapperInv' /\ NothingUndone
<1>. USE WrapperAssumption DEF WrapperInv
<1>1. /\ health' = [health EXCEPT ![s] = "failed"]
      /\ failures' = [failures EXCEPT ![s] = OneMore(failures[s])]
      /\ UNCHANGED <<instance, made, stopped, broken>>
      /\ faults' \in 0 .. MaxFaults
  BY DEF FactoryRaises, Fault, WrapperTypeOK
<1>2. WrapperTypeOK'
  BY <1>1 DEF WrapperTypeOK, OneMore, RestartAt
<1>3. NoneForgotten' /\ MadeInOrder' /\ NothingUndone
  BY <1>1 DEF WrapperTypeOK, InstancesKept, NoneForgotten, MadeInOrder, NothingUndone
<1>4. HealthTruthful'
  BY <1>1 DEF WrapperTypeOK, InstancesKept, HealthTruthful
<1>. QED BY <1>2, <1>3, <1>4 DEF InstancesKept

LEMMA EnsureKeeps ==
    ASSUME WrapperInv, NEW s \in Sub, NEW i, Ensure(s, i)
    PROVE  WrapperInv' /\ NothingUndone /\ i \in Made \cup {None}
<1>1. CASE instance[s] # None /\ i = instance[s] /\ UNCHANGED wrapperVars
  BY <1>1, WrapperStutters DEF wrapperVars, WrapperInv, WrapperTypeOK
<1>2. CASE instance[s] = None /\ Create(s) /\ i = made'[s]
  BY <1>2, CreateKeeps
<1>3. CASE instance[s] = None /\ FactoryRaises(s) /\ i = None
  BY <1>3, FactoryRaisesKeeps
<1>. QED BY <1>1, <1>2, <1>3 DEF Ensure

LEMMA BreaksKeeps ==
    ASSUME WrapperInv, NEW s \in Sub, NEW i \in Made, Breaks(s, i)
    PROVE  WrapperInv' /\ NothingUndone
<1>. USE WrapperAssumption DEF WrapperInv
<1>1. /\ UNCHANGED <<instance, health, failures, made, stopped>>
      /\ broken' \subseteq Sub \X Made /\ faults' \in 0 .. MaxFaults
  BY DEF Breaks, Fault, WrapperTypeOK
<1>2. WrapperTypeOK'
  BY <1>1 DEF WrapperTypeOK
<1>. QED BY <1>1, <1>2 DEF WrapperTypeOK, InstancesKept, NoneForgotten, HealthTruthful, MadeInOrder, NothingUndone

LEMMA CallKeeps ==
    ASSUME WrapperInv, NEW s, NEW i, Returns(s, i) \/ Raises(s, i)
    PROVE  faults' \in 0 .. MaxFaults
BY WrapperAssumption DEF WrapperInv, WrapperTypeOK, Returns, Raises, Fault

LEMMA HealthCheckKeeps ==
    ASSUME WrapperInv, NEW s \in Sub, HealthCheck(s)
    PROVE  WrapperInv' /\ NothingUndone
<1>. USE DEF WrapperInv
<1>1. UNCHANGED <<instance, made, stopped, broken>>
  BY DEF HealthCheck
<1>2. NoneForgotten' /\ MadeInOrder' /\ NothingUndone
  BY <1>1 DEF WrapperTypeOK, InstancesKept, NoneForgotten, MadeInOrder, NothingUndone
<1>3. CASE /\ instance[s] = None
           /\ health' = [health EXCEPT ![s] = "disabled"]
           /\ UNCHANGED <<failures, faults>>
  BY <1>1, <1>2, <1>3 DEF WrapperTypeOK, InstancesKept, HealthTruthful
<1>4. CASE /\ instance[s] # None /\ Returns(s, instance[s])
           /\ health' = [health EXCEPT ![s] = "healthy"]
           /\ failures' = [failures EXCEPT ![s] = 0]
  <2>1. faults' \in 0 .. MaxFaults
    BY <1>4, CallKeeps
  <2>2. WrapperTypeOK'
    BY <1>1, <1>4, <2>1 DEF WrapperTypeOK, RestartAt
  <2>3. HealthTruthful'
    BY <1>1, <1>4 DEF WrapperTypeOK, InstancesKept, HealthTruthful
  <2>. QED BY <1>2, <2>2, <2>3 DEF InstancesKept
<1>5. CASE /\ instance[s] # None /\ Raises(s, instance[s])
           /\ failures' = [failures EXCEPT ![s] = OneMore(@)]
           /\ health' = [health EXCEPT ![s] = IF failures'[s] >= RestartAt THEN "failed" ELSE "degraded"]
  <2>1. faults' \in 0 .. MaxFaults
    BY <1>5, CallKeeps
  <2>2. WrapperTypeOK'
    BY <1>1, <1>5, <2>1 DEF WrapperTypeOK, RestartAt, OneMore
  <2>3. HealthTruthful'
    BY <1>1, <1>5 DEF WrapperTypeOK, InstancesKept, HealthTruthful
  <2>. QED BY <1>2, <2>2, <2>3 DEF InstancesKept
<1>. QED BY <1>3, <1>4, <1>5 DEF HealthCheck

\* destroy() leaves nothing of the subsystem alive.
LEMMA DestroyKeeps ==
    ASSUME WrapperInv, NEW s \in Sub, Destroy(s)
    PROVE  /\ WrapperInv' /\ NothingUndone
           /\ \A i \in 1 .. made[s] : <<s, i>> \in stopped'
<1>. USE DEF WrapperInv
<1>1. CASE instance[s] = None
  <2>1. UNCHANGED <<instance, health, failures, made, stopped, broken, faults>>
    BY <1>1 DEF Destroy
  <2>2. WrapperInv' /\ NothingUndone
    BY <2>1, WrapperStutters DEF WrapperTypeOK
  <2>3. \A i \in 1 .. made[s] : <<s, i>> \in stopped
    <3>. TAKE i \in 1 .. made[s]
    <3>1. instance[s] # i
      BY <1>1, WrapperAssumption
    <3>. QED BY <3>1 DEF InstancesKept, NoneForgotten
  <2>. QED BY <2>1, <2>2, <2>3
<1>2. CASE instance[s] # None
  <2>1. /\ stopped' = stopped \cup {<<s, instance[s]>>}
        /\ instance' = [instance EXCEPT ![s] = None]
        /\ health' = [health EXCEPT ![s] = "disabled"]
        /\ UNCHANGED <<failures, made, broken, faults>>
        /\ instance[s] \in Made
    BY <1>2 DEF Destroy, WrapperTypeOK
  <2>2. WrapperTypeOK'
    BY <2>1 DEF WrapperTypeOK
  <2>3. NoneForgotten'
    <3>. SUFFICES ASSUME NEW r \in Sub, NEW i \in 1 .. made[r]
                  PROVE  (<<r, i>> \in stopped') # (instance'[r] = i)
      BY <2>1 DEF NoneForgotten
    <3>1. (<<r, i>> \in stopped) # (instance[r] = i)
      BY DEF InstancesKept, NoneForgotten
    <3>2. CASE r # s
      BY <2>1, <3>1, <3>2 DEF WrapperTypeOK
    <3>3. CASE r = s
      BY <2>1, <3>1, <3>3, WrapperAssumption DEF WrapperTypeOK
    <3>. QED BY <3>2, <3>3
  <2>4. HealthTruthful'
    BY <2>1 DEF WrapperTypeOK, InstancesKept, HealthTruthful
  <2>5. MadeInOrder' /\ NothingUndone
    BY <2>1, <1>2 DEF WrapperTypeOK, MadeInOrder, NothingUndone
  <2>6. \A i \in 1 .. made[s] : <<s, i>> \in stopped'
    BY <2>1 DEF InstancesKept, NoneForgotten
  <2>. QED BY <2>2, <2>3, <2>4, <2>5, <2>6 DEF InstancesKept
<1>. QED BY <1>1, <1>2
------------------------------------------------------------------------------
(***************************************************************************)
(* The breakers.  What a trial has counted was earned in it, and nothing   *)
(* is counted outside one.                                                 *)
(***************************************************************************)
EarnedIn(b, n) ==
    /\ b.state = "HALF_OPEN" => b.probeSuccesses <= n /\ b.probeSuccesses < Reopen
    /\ b.state # "HALF_OPEN" => b.probeSuccesses = 0
PacingInv == PacingTypeOK /\ \A i \in Instance : EarnedIn(breaker[i], earned[i])

\* A step from b to c that leaves m successes earned opens a breaker on enough of them.
Earns(b, c, m) == b.state # "OPEN" /\ c.state = "OPEN" => m = Reopen

LEMMA LeastType == \A m, n \in Nat : Least(m, n) \in Nat /\ Least(m, n) <= m /\ Least(m, n) <= n
BY DEF Least

LEMMA TransitionType ==
    ASSUME NEW b \in Breaker, NEW s \in {"OPEN", "HALF_OPEN", "CLOSED"}
    PROVE  /\ Transition(b, s) \in Breaker
           /\ Transition(b, s).state = s
           /\ b.state # s /\ s # "HALF_OPEN" => Transition(b, s).probeSuccesses = 0
           /\ s = "HALF_OPEN" \/ b.state = s => Transition(b, s).probeSuccesses = b.probeSuccesses
<1>1. CASE b.state = s
  BY <1>1 DEF Transition, Breaker
<1>2. CASE b.state # s
  <2>1. PICK c : c = [b EXCEPT !.state = s, !.sinceClosed = 0,
                               !.timeouts = IF s = "OPEN" THEN 0 ELSE b.timeouts,
                               !.probeSuccesses = IF s = "HALF_OPEN" THEN b.probeSuccesses ELSE 0]
    OBVIOUS
  <2>2. Transition(b, s) = c
    BY <1>2, <2>1 DEF Transition
  <2>3. /\ 0 \in 0 .. HardMax /\ 0 \in 0 .. MostTimeouts /\ 0 \in 0 .. Reopen
    BY PacingAssumption DEF MostTimeouts
  <2>4. /\ c \in Breaker /\ c.state = s
        /\ c.probeSuccesses = IF s = "HALF_OPEN" THEN b.probeSuccesses ELSE 0
    BY <2>1, <2>3 DEF Breaker
  <2>. QED BY <1>2, <2>2, <2>4
<1>. QED BY <1>1, <1>2

LEMMA LookedKeeps ==
    ASSUME NEW b \in Breaker, NEW n \in 0 .. Reopen, EarnedIn(b, n)
    PROVE  Looked(b) \in Breaker /\ EarnedIn(Looked(b), n) /\ Earns(b, Looked(b), n)
<1>1. CASE Looked(b) = b
  BY <1>1 DEF Earns
<1>2. CASE b.state = "CLOSED" /\ Looked(b) = Transition(b, "HALF_OPEN")
  BY <1>2, TransitionType, PacingAssumption DEF EarnedIn, Earns
<1>. QED BY <1>1, <1>2 DEF Looked

LEMMA AskedKeeps ==
    ASSUME NEW b \in Breaker, NEW n \in 0 .. Reopen, EarnedIn(b, n)
    PROVE  Asked(b) \in Breaker /\ EarnedIn(Asked(b), n) /\ Earns(b, Asked(b), n)
<1>1. PICK l : l = Looked(b)
  OBVIOUS
<1>2. l \in Breaker /\ EarnedIn(l, n) /\ Earns(b, l, n)
  BY <1>1, LookedKeeps
<1>3. Asked(b) = l \/ (l.state = "HALF_OPEN" /\ Asked(b) = [l EXCEPT !.sinceProbe = 0])
  BY <1>1 DEF Asked
<1>. QED BY <1>2, <1>3 DEF Breaker, EarnedIn, Earns

LEMMA RecordedKeeps ==
    ASSUME NEW b \in Breaker, NEW n \in 0 .. Reopen, EarnedIn(b, n), NEW o \in Outcome,
           NEW m, m = IF Recorded(b, o).state = "CLOSED" THEN 0
                      ELSE IF o = "success" THEN Least(n + 1, Reopen) ELSE n
    PROVE  /\ Recorded(b, o) \in Breaker /\ m \in 0 .. Reopen
           /\ EarnedIn(Recorded(b, o), m) /\ Earns(b, Recorded(b, o), m)
<1>. USE PacingAssumption
<1>0. m \in 0 .. Reopen
  BY DEF Least
<1>1. CASE o = "success"
  <2>1. PICK s : s = [b EXCEPT !.timeouts = 0,
                               !.probeSuccesses = IF b.state = "HALF_OPEN" THEN b.probeSuccesses + 1 ELSE b.probeSuccesses]
    OBVIOUS
  <2>2. Recorded(b, o) = IF s.probeSuccesses >= Reopen THEN Transition(s, "OPEN") ELSE s
    BY <1>1, <2>1 DEF Recorded
  <2>3. /\ s \in Breaker /\ s.state = b.state
        /\ s.probeSuccesses = IF b.state = "HALF_OPEN" THEN b.probeSuccesses + 1 ELSE b.probeSuccesses
    <3>1. /\ 0 \in 0 .. MostTimeouts
          /\ (IF b.state = "HALF_OPEN" THEN b.probeSuccesses + 1 ELSE b.probeSuccesses) \in 0 .. Reopen
      BY DEF Breaker, EarnedIn, MostTimeouts
    <3>. QED BY <2>1, <3>1 DEF Breaker
  <2>4. CASE s.probeSuccesses >= Reopen
    <3>1. b.state = "HALF_OPEN" /\ n + 1 >= Reopen
      BY <2>3, <2>4 DEF EarnedIn, Breaker
    <3>2. Recorded(b, o) = Transition(s, "OPEN") /\ m = Reopen
      BY <1>1, <2>2, <2>4, <2>3, <3>1, TransitionType DEF Least
    <3>. QED BY <1>0, <2>3, <3>1, <3>2, TransitionType DEF EarnedIn, Earns
  <2>5. CASE ~ (s.probeSuccesses >= Reopen)
    <3>1. Recorded(b, o) = s
      BY <2>2, <2>5
    <3>2. b.state = "HALF_OPEN" => m = Least(n + 1, Reopen)
      BY <1>1, <3>1, <2>3
    <3>. QED BY <1>0, <2>3, <2>5, <3>1, <3>2 DEF EarnedIn, Earns, Least, Breaker
  <2>. QED BY <2>4, <2>5
<1>2. CASE o = "failure"
  <2>1. Recorded(b, o) = [b EXCEPT !.timeouts = 0]
    BY <1>2 DEF Recorded
  <2>2. Recorded(b, o) \in Breaker /\ Recorded(b, o).state = b.state /\ Recorded(b, o).probeSuccesses = b.probeSuccesses
    BY <2>1 DEF Breaker, MostTimeouts
  <2>3. m = IF b.state = "CLOSED" THEN 0 ELSE n
    BY <1>2, <2>2
  <2>. QED BY <1>0, <2>2, <2>3 DEF EarnedIn, Earns
<1>3. CASE o = "timeout"
  <2>1. PICK t : t = [b EXCEPT !.timeouts = Least(b.timeouts + 1, MostTimeouts)]
    OBVIOUS
  <2>2. Recorded(b, o) = IF t.timeouts >= MaxTimeouts THEN Transition(t, "CLOSED") ELSE t
    BY <1>3, <2>1 DEF Recorded
  <2>3. t \in Breaker /\ t.state = b.state /\ t.probeSuccesses = b.probeSuccesses
    BY <2>1 DEF Breaker, MostTimeouts, Least
  <2>4. CASE Recorded(b, o) = t
    <3>1. m = IF b.state = "CLOSED" THEN 0 ELSE n
      BY <1>3, <2>3, <2>4
    <3>. QED BY <1>0, <2>3, <2>4, <3>1 DEF EarnedIn, Earns
  <2>5. CASE Recorded(b, o) = Transition(t, "CLOSED")
    <3>1. /\ Recorded(b, o) \in Breaker /\ Recorded(b, o).state = "CLOSED"
          /\ Recorded(b, o).probeSuccesses = 0
      BY <2>3, <2>5, TransitionType DEF EarnedIn
    <3>. QED BY <1>0, <3>1 DEF EarnedIn, Earns
  <2>. QED BY <2>2, <2>4, <2>5
<1>. QED BY <1>1, <1>2, <1>3 DEF Outcome
------------------------------------------------------------------------------
(***************************************************************************)
(* The event bus.  Registrations are numbered upwards, so that the list is *)
(* always in their order, whoever is removed from it.                      *)
(***************************************************************************)
EmitRow(n) == [under : BOOLEAN, index : Nat, last : 0 .. n, owed : SUBSET (1 .. n), shifts : Nat]
BusTypeOK ==
    /\ subscribed \in Nat /\ events \in Nat
    /\ handlers \in Seq(1 .. subscribed)
    /\ emit \in [Emitter -> EmitRow(subscribed)]
InOrder == \A i, j \in DOMAIN handlers : i < j => handlers[i] < handlers[j]
Behind(t) == \A h \in Coming(t) : h > emit[t].last
PassedOver(t) == emit[t].owed \ Coming(t)
BusInv ==
    /\ BusTypeOK /\ InOrder
    /\ \A t \in Emitter : emit[t].under => Behind(t) /\ Cardinality(PassedOver(t)) <= emit[t].shifts

LEMMA RemoveAtFacts ==
    ASSUME NEW S, NEW s \in Seq(S), NEW p \in DOMAIN s
    PROVE  /\ RemoveAt(s, p) \in Seq(S) /\ Len(RemoveAt(s, p)) = Len(s) - 1
           /\ \A q \in 1 .. Len(s) - 1 : RemoveAt(s, p)[q] = IF q < p THEN s[q] ELSE s[q + 1]
<1>1. p \in 1 .. Len(s) /\ Len(s) \in Nat
  BY LenProperties
<1>2. PICK a : a = SubSeq(s, 1, p - 1)
  OBVIOUS
<1>3. PICK b : b = SubSeq(s, p + 1, Len(s))
  OBVIOUS
<1>4. a \in Seq(S) /\ Len(a) = p - 1 /\ \A q \in 1 .. p - 1 : a[q] = s[q]
  BY <1>1, <1>2, SubSeqProperties
<1>5. b \in Seq(S) /\ Len(b) = Len(s) - p /\ \A q \in 1 .. Len(s) - p : b[q] = s[p + q]
  BY <1>1, <1>3, SubSeqProperties
<1>6. RemoveAt(s, p) = a \o b
  BY <1>2, <1>3 DEF RemoveAt
<1>7. /\ a \o b \in Seq(S) /\ Len(a \o b) = Len(s) - 1
      /\ \A q \in 1 .. Len(s) - 1 : (a \o b)[q] = IF q <= Len(a) THEN a[q] ELSE b[q - Len(a)]
  BY <1>1, <1>4, <1>5, ConcatProperties
<1>8. ASSUME NEW q \in 1 .. Len(s) - 1
      PROVE  (a \o b)[q] = IF q < p THEN s[q] ELSE s[q + 1]
  <2>1. CASE q < p
    BY <1>1, <1>4, <1>7, <2>1
  <2>2. CASE ~ (q < p)
    <3>1. (a \o b)[q] = b[q - (p - 1)] /\ q - (p - 1) \in 1 .. Len(s) - p
      BY <1>1, <1>4, <1>7, <2>2
    <3>2. p + (q - (p - 1)) = q + 1
      BY <1>1
    <3>. QED BY <1>5, <2>2, <3>1, <3>2
  <2>. QED BY <2>1, <2>2
<1>. QED BY <1>6, <1>7, <1>8

LEMMA CountedPassedOver ==
    ASSUME BusTypeOK, NEW t \in Emitter
    PROVE  IsFiniteSet(PassedOver(t)) /\ Cardinality(PassedOver(t)) \in Nat
<1>1. PassedOver(t) \in SUBSET (1 .. subscribed) /\ IsFiniteSet(1 .. subscribed)
  BY FS_Interval DEF BusTypeOK, PassedOver, EmitRow
<1>. QED BY <1>1, FS_Subset, FS_CardinalityType

\* An emit whose handlers have not changed but by registrations goes on as before.
LEMMA OnKeeps ==
    ASSUME BusInv, On
    PROVE  BusInv'
<1>. DEFINE n == subscribed + 1
<1>1. /\ subscribed' = n /\ events' = events /\ emit' = emit
      /\ handlers' = Append(handlers, n)
  BY DEF On
<1>2. subscribed \in Nat /\ n \in 1 .. n /\ 1 .. subscribed \subseteq 1 .. n /\ handlers \in Seq(1 .. n)
  BY SeqMonotonic DEF BusInv, BusTypeOK
<1>3. /\ handlers' \in Seq(1 .. n) /\ Len(handlers') = Len(handlers) + 1 /\ Len(handlers) \in Nat
      /\ handlers'[Len(handlers) + 1] = n
      /\ \A i \in 1 .. Len(handlers) : handlers'[i] = handlers[i] /\ handlers[i] \in 1 .. subscribed
  BY <1>1, <1>2, AppendProperties, LenProperties, ElementOfSeq DEF BusInv, BusTypeOK
<1>4. BusTypeOK'
  <2>1. emit' \in [Emitter -> EmitRow(n)]
    BY <1>1, <1>2 DEF BusInv, BusTypeOK, EmitRow
  <2>. QED BY <1>1, <1>2, <1>3, <2>1 DEF BusInv, BusTypeOK
<1>5. InOrder'
  <2>1. DOMAIN handlers = 1 .. Len(handlers) /\ DOMAIN handlers' = 1 .. Len(handlers) + 1
    BY <1>2, <1>3, LenProperties
  <2>. SUFFICES ASSUME NEW i \in 1 .. Len(handlers) + 1, NEW j \in 1 .. Len(handlers) + 1, i < j
                PROVE  handlers'[i] < handlers'[j]
    BY <2>1 DEF InOrder
  <2>2. i \in 1 .. Len(handlers) /\ (j \in 1 .. Len(handlers) \/ j = Len(handlers) + 1)
    BY <1>3
  <2>3. handlers'[i] = handlers[i] /\ i \in DOMAIN handlers /\ handlers[i] \in 1 .. subscribed
    BY <1>3, <2>1, <2>2
  <2>4. CASE j = Len(handlers) + 1
    BY <1>2, <1>3, <2>3, <2>4
  <2>5. CASE j \in 1 .. Len(handlers)
    <3>1. handlers'[j] = handlers[j] /\ j \in DOMAIN handlers
      BY <1>3, <2>1, <2>5
    <3>. QED BY <2>3, <3>1 DEF BusInv, InOrder
  <2>. QED BY <2>2, <2>4, <2>5
<1>6. ASSUME NEW t \in Emitter, emit'[t].under
      PROVE  Behind(t)' /\ Cardinality(PassedOver(t)') <= emit'[t].shifts
  <2>1. /\ emit[t].under /\ emit[t].index \in Nat /\ emit[t].last \in 0 .. subscribed
        /\ emit[t].shifts \in Nat
    BY <1>1, <1>6 DEF BusInv, BusTypeOK, EmitRow
  <2>2. Coming(t) \subseteq Coming(t)' /\ Coming(t)' \subseteq Coming(t) \cup {n}
    BY <1>1, <1>3, <2>1 DEF Coming
  <2>3. Behind(t)'
    BY <1>1, <1>2, <2>1, <2>2 DEF BusInv, Behind
  <2>4. PassedOver(t)' \subseteq PassedOver(t)
    BY <1>1, <2>2 DEF PassedOver
  <2>5. Cardinality(PassedOver(t)') <= Cardinality(PassedOver(t)) /\ Cardinality(PassedOver(t)') \in Nat
    BY <2>4, CountedPassedOver, FS_Subset, FS_CardinalityType DEF BusInv
  <2>6. Cardinality(PassedOver(t)) <= emit[t].shifts /\ Cardinality(PassedOver(t)) \in Nat
    BY <2>1, CountedPassedOver DEF BusInv
  <2>. QED BY <1>1, <2>1, <2>3, <2>5, <2>6
<1>. QED BY <1>4, <1>5, <1>6 DEF BusInv

\* What moves up is passed over by an emit that is behind it, and one by no more.
LEMMA OffKeeps ==
    ASSUME BusInv, NEW p, Off(p)
    PROVE  BusInv'
<1>1. /\ p \in DOMAIN handlers /\ handlers' = RemoveAt(handlers, p)
      /\ UNCHANGED <<subscribed, events>>
      /\ \A t \in Emitter : emit'[t] = [emit[t] EXCEPT !.owed = emit[t].owed \ {handlers[p]},
                                !.shifts = IF p <= emit[t].index THEN emit[t].shifts + 1 ELSE emit[t].shifts]
  BY DEF Off
<1>a. PICK g : g = handlers
  OBVIOUS
<1>b. PICK l : l = handlers'
  OBVIOUS
<1>c. PICK n : n = subscribed
  OBVIOUS
<1>2. /\ g \in Seq(1 .. n) /\ Len(g) \in Nat /\ p \in 1 .. Len(g)
      /\ DOMAIN g = 1 .. Len(g)
      /\ \A i \in 1 .. Len(g) : g[i] \in 1 .. n
      /\ n \in Nat
  BY <1>1, <1>a, <1>c, LenProperties, ElementOfSeq DEF BusInv, BusTypeOK
<1>3. /\ l \in Seq(1 .. n) /\ Len(l) = Len(g) - 1 /\ DOMAIN l = 1 .. Len(l)
      /\ \A q \in 1 .. Len(l) : l[q] = IF q < p THEN g[q] ELSE g[q + 1]
  <2>1. l = RemoveAt(g, p)
    BY <1>1, <1>a, <1>b
  <2>2. /\ l \in Seq(1 .. n) /\ Len(l) = Len(g) - 1
        /\ \A q \in 1 .. Len(g) - 1 : l[q] = IF q < p THEN g[q] ELSE g[q + 1]
    BY <1>2, <2>1, RemoveAtFacts
  <2>. QED BY <2>2, LenProperties
<1>d. p \in Nat /\ 1 <= p /\ p <= Len(g) /\ Len(g) \in Nat /\ Len(l) \in Nat /\ Len(l) = Len(g) - 1
  BY <1>2, <1>3, LenProperties
<1>4. BusTypeOK'
  <2>1. ASSUME NEW t \in Emitter
        PROVE  emit'[t] \in EmitRow(n)
    <3>1. PICK e : e = emit[t]
      OBVIOUS
    <3>2. e \in EmitRow(n)
      BY <1>c, <3>1 DEF BusInv, BusTypeOK
    <3>3. PICK o : o = e.owed \ {handlers[p]}
      OBVIOUS
    <3>4. PICK m : m = IF p <= e.index THEN e.shifts + 1 ELSE e.shifts
      OBVIOUS
    <3>5. emit'[t] = [e EXCEPT !.owed = o, !.shifts = m]
      BY <1>1, <3>1, <3>3, <3>4
    <3>6. o \in SUBSET (1 .. n) /\ m \in Nat
      BY <3>2, <3>3, <3>4 DEF EmitRow
    <3>. QED BY <3>2, <3>5, <3>6 DEF EmitRow
  <2>2. emit' \in [Emitter -> EmitRow(n)]
    BY <2>1 DEF Off
  <2>. QED BY <1>1, <1>b, <1>c, <1>3, <2>2 DEF BusInv, BusTypeOK
<1>5. InOrder'
  <2>. SUFFICES ASSUME NEW i \in DOMAIN l, NEW j \in DOMAIN l, i < j
                PROVE  l[i] < l[j]
    BY <1>b DEF InOrder
  <2>1. PICK k : k = IF i < p THEN i ELSE i + 1
    OBVIOUS
  <2>2. PICK m : m = IF j < p THEN j ELSE j + 1
    OBVIOUS
  <2>3. i \in 1 .. Len(g) - 1 /\ j \in 1 .. Len(g) - 1
    BY <1>3
  <2>4. k \in 1 .. Len(g) /\ m \in 1 .. Len(g) /\ k < m
    BY <1>d, <2>1, <2>2, <2>3
  <2>5. l[i] = g[k] /\ l[j] = g[m]
    BY <1>3, <2>1, <2>2, <2>3
  <2>. QED BY <1>a, <1>2, <2>4, <2>5 DEF BusInv, InOrder
<1>6. ASSUME NEW t \in Emitter, emit'[t].under
      PROVE  Behind(t)' /\ Cardinality(PassedOver(t)') <= emit'[t].shifts
  <2>1. PICK e : e = emit[t]
    OBVIOUS
  <2>2. PICK h : h = g[p]
    OBVIOUS
  <2>0. e \in EmitRow(n)
    BY <1>c, <2>1 DEF BusInv, BusTypeOK
  <2>3. /\ e.under /\ emit'[t].index = e.index /\ emit'[t].last = e.last
        /\ emit'[t].owed = e.owed \ {h}
        /\ emit'[t].shifts = IF p <= e.index THEN e.shifts + 1 ELSE e.shifts
        /\ e.index \in Nat /\ e.shifts \in Nat
    <3>1. PICK o : o = e.owed \ {h}
      OBVIOUS
    <3>2. PICK m : m = IF p <= e.index THEN e.shifts + 1 ELSE e.shifts
      OBVIOUS
    <3>3. emit'[t] = [e EXCEPT !.owed = o, !.shifts = m]
      BY <1>1, <1>a, <2>1, <2>2, <3>1, <3>2
    <3>. QED BY <1>6, <2>0, <3>1, <3>2, <3>3 DEF EmitRow
  <2>4. Coming(t) = {g[i] : i \in (e.index + 1) .. Len(g)}
    BY <1>a, <2>1 DEF Coming
  <2>5. Coming(t)' = {l[i] : i \in (e.index + 1) .. Len(l)}
    BY <1>b, <2>3 DEF Coming
  <2>6. Coming(t)' \subseteq Coming(t)
    <3>1. ASSUME NEW i \in (e.index + 1) .. Len(l)
          PROVE  l[i] \in Coming(t)
      <4>1. i \in 1 .. Len(l) /\ i \in (e.index + 1) .. Len(g) /\ i + 1 \in (e.index + 1) .. Len(g)
        BY <1>d, <2>3
      <4>2. l[i] = g[i] \/ l[i] = g[i + 1]
        BY <1>3, <4>1
      <4>. QED BY <2>4, <4>1, <4>2
    <3>. QED BY <2>5, <3>1
  <2>7. Behind(t)'
    BY <2>1, <2>3, <2>6 DEF BusInv, Behind
  <2>8. /\ IsFiniteSet(PassedOver(t)) /\ Cardinality(PassedOver(t)) \in Nat
        /\ Cardinality(PassedOver(t)) <= e.shifts
    BY <2>1, <2>3, CountedPassedOver DEF BusInv
  <2>9. CASE e.index < p
    <3>1. ASSUME NEW x \in Coming(t), x # h
          PROVE  x \in Coming(t)'
      <4>1. PICK i \in (e.index + 1) .. Len(g) : x = g[i]
        BY <2>4
      <4>2. i # p /\ i \in Nat
        BY <2>2, <2>3, <3>1, <4>1
      <4>3. CASE i < p
        <5>1. i \in (e.index + 1) .. Len(l) /\ i \in 1 .. Len(l)
          BY <1>d, <2>3, <4>1, <4>3
        <5>2. l[i] = x
          BY <1>3, <4>1, <4>3, <5>1
        <5>. QED BY <2>5, <5>1, <5>2
      <4>4. CASE i > p
        <5>1. /\ i - 1 \in (e.index + 1) .. Len(l) /\ i - 1 \in 1 .. Len(l)
              /\ ~ (i - 1 < p) /\ (i - 1) + 1 = i
          BY <1>d, <2>3, <2>9, <4>1, <4>4
        <5>2. l[i - 1] = x
          BY <1>3, <4>1, <5>1
        <5>. QED BY <2>5, <5>1, <5>2
      <4>. QED BY <1>2, <4>2, <4>3, <4>4
    <3>2. PassedOver(t)' \subseteq PassedOver(t)
      BY <2>1, <2>3, <3>1 DEF PassedOver
    <3>3. Cardinality(PassedOver(t)') <= Cardinality(PassedOver(t)) /\ Cardinality(PassedOver(t)') \in Nat
      BY <2>8, <3>2, FS_Subset, FS_CardinalityType
    <3>. QED BY <1>2, <2>3, <2>7, <2>8, <2>9, <3>3
  <2>10. CASE p <= e.index
    <3>1. PICK x : x = g[e.index + 1]
      OBVIOUS
    <3>2. ASSUME NEW y \in Coming(t), y # x
          PROVE  y \in Coming(t)'
      <4>1. PICK i \in (e.index + 1) .. Len(g) : y = g[i]
        BY <2>4
      <4>2. i # e.index + 1
        BY <3>1, <3>2, <4>1
      <4>3. /\ i - 1 \in (e.index + 1) .. Len(l) /\ i - 1 \in 1 .. Len(l)
            /\ ~ (i - 1 < p) /\ (i - 1) + 1 = i
        BY <1>d, <2>3, <2>10, <4>1, <4>2
      <4>4. l[i - 1] = y
        BY <1>3, <4>1, <4>3
      <4>. QED BY <2>5, <4>3, <4>4
    <3>3. PassedOver(t)' \subseteq PassedOver(t) \cup {x}
      BY <2>1, <2>3, <3>2 DEF PassedOver
    <3>4. IsFiniteSet(PassedOver(t) \cup {x}) /\ Cardinality(PassedOver(t) \cup {x}) \in Nat
          /\ Cardinality(PassedOver(t) \cup {x}) <= Cardinality(PassedOver(t)) + 1
      <4>1. PICK P : P = PassedOver(t)
        OBVIOUS
      <4>2. IsFiniteSet(P) /\ Cardinality(P) \in Nat
        BY <2>8, <4>1
      <4>3. /\ IsFiniteSet(P \cup {x})
            /\ Cardinality(P \cup {x}) = IF x \in P THEN Cardinality(P) ELSE Cardinality(P) + 1
        BY <4>2, FS_AddElement
      <4>. QED BY <4>1, <4>2, <4>3
    <3>5. Cardinality(PassedOver(t)') <= Cardinality(PassedOver(t) \cup {x}) /\ Cardinality(PassedOver(t)') \in Nat
      BY <3>3, <3>4, FS_Subset, FS_CardinalityType
    <3>6. emit'[t].shifts = e.shifts + 1 /\ e.shifts \in Nat
      BY <2>3, <2>10
    <3>. QED BY <2>7, <2>8, <3>4, <3>5, <3>6
  <2>. QED BY <1>2, <2>3, <2>9, <2>10
<1>. QED BY <1>4, <1>5, <1>6 DEF BusInv

LEMMA UnmovedKeeps ==
    ASSUME handlers' = handlers, NEW u \in Emitter, emit'[u] = emit[u]
    PROVE  Coming(u)' = Coming(u) /\ PassedOver(u)' = PassedOver(u) /\ (Behind(u) => Behind(u)')
<1>1. Coming(u)' = Coming(u)
  BY DEF Coming
<1>. QED BY <1>1 DEF PassedOver, Behind

LEMMA EmitKeeps ==
    ASSUME BusInv, NEW t \in Emitter, Emit(t)
    PROVE  BusInv'
<1>1. PICK n : n = subscribed
  OBVIOUS
<1>2. /\ UNCHANGED <<handlers, subscribed>> /\ events' = events + 1
      /\ \/ emit' = emit
         \/ emit' = [emit EXCEPT ![t] = [NoEmit EXCEPT !.under = TRUE, !.owed = Range(handlers)]]
  BY DEF Emit
<1>3. Range(handlers) \subseteq 1 .. n
  BY <1>1, LenProperties, ElementOfSeq DEF BusInv, BusTypeOK, Range
<1>4. PICK e : e = [NoEmit EXCEPT !.under = TRUE, !.owed = Range(handlers)]
  OBVIOUS
<1>5. e \in EmitRow(n) /\ e.index = 0 /\ e.last = 0 /\ e.shifts = 0 /\ e.owed = Range(handlers)
  <2>1. PICK S : S = Range(handlers)
    OBVIOUS
  <2>2. S \in SUBSET (1 .. n) /\ n \in Nat
    BY <1>1, <1>3, <2>1 DEF BusInv, BusTypeOK
  <2>3. e = [under |-> TRUE, index |-> 0, last |-> 0, owed |-> S, shifts |-> 0]
    BY <1>4, <2>1 DEF NoEmit
  <2>. QED BY <2>1, <2>2, <2>3 DEF EmitRow
<1>6. emit' \in [Emitter -> EmitRow(n)]
  BY <1>1, <1>2, <1>4, <1>5 DEF BusInv, BusTypeOK
<1>7. ASSUME NEW u \in Emitter, emit'[u].under
      PROVE  Behind(u)' /\ Cardinality(PassedOver(u)') <= emit'[u].shifts
  <2>1. CASE emit'[u] = emit[u]
    BY <1>2, <1>7, <2>1, UnmovedKeeps DEF BusInv
  <2>2. CASE emit'[u] = e
    <3>1. Coming(u)' = {handlers[i] : i \in 1 .. Len(handlers)}
      BY <1>2, <1>5, <2>2 DEF Coming
    <3>2. Coming(u)' = Range(handlers) /\ Coming(u)' \subseteq 1 .. n
      BY <1>3, <3>1, LenProperties DEF BusInv, BusTypeOK, Range
    <3>3. PassedOver(u)' = {}
      BY <1>5, <2>2, <3>2 DEF PassedOver
    <3>4. Behind(u)'
      BY <1>5, <2>2, <3>2 DEF Behind
    <3>. QED BY <1>5, <2>2, <3>3, <3>4, FS_EmptySet
  <2>. QED BY <1>2, <1>4, <2>1, <2>2 DEF BusInv, BusTypeOK
<1>. QED BY <1>1, <1>2, <1>6, <1>7 DEF BusInv, BusTypeOK, InOrder

\* The handler whose turn it is leaves what is coming and what is owed together.
LEMMA TurnKeeps ==
    ASSUME BusInv, NEW t \in Emitter, Turn(t)
    PROVE  BusInv'
<1>a. PICK g : g = handlers
  OBVIOUS
<1>b. PICK n : n = subscribed
  OBVIOUS
<1>c. PICK e : e = emit[t]
  OBVIOUS
<1>1. e \in EmitRow(n) /\ e.index \in Nat /\ e.under
  BY <1>b, <1>c DEF BusInv, BusTypeOK, EmitRow, Turn
<1>2. /\ g \in Seq(1 .. n) /\ Len(g) \in Nat /\ DOMAIN g = 1 .. Len(g)
      /\ \A i \in 1 .. Len(g) : g[i] \in 1 .. n
      /\ n \in Nat
  BY <1>a, <1>b, LenProperties, ElementOfSeq DEF BusInv, BusTypeOK
<1>3. e.index + 1 \in 1 .. Len(g)
  BY <1>1, <1>2, <1>a, <1>c DEF Turn
<1>4. PICK h : h = g[e.index + 1]
  OBVIOUS
<1>5. PICK f : f = [e EXCEPT !.index = e.index + 1, !.last = h, !.owed = e.owed \ {h}]
  OBVIOUS
<1>6. /\ f \in EmitRow(n) /\ f.index = e.index + 1 /\ f.last = h /\ f.owed = e.owed \ {h}
      /\ f.shifts = e.shifts /\ e.shifts \in Nat
  <2>1. h \in 0 .. n /\ e.index + 1 \in Nat /\ e.owed \ {h} \in SUBSET (1 .. n)
    BY <1>1, <1>2, <1>3, <1>4 DEF EmitRow
  <2>. QED BY <1>1, <1>5, <2>1 DEF EmitRow
<1>7. emit' = [emit EXCEPT ![t] = f] /\ UNCHANGED <<handlers, subscribed, events>>
  <2>1. NextHandler(t) = h
    BY <1>a, <1>c, <1>4 DEF NextHandler
  <2>2. PICK k : k = NextHandler(t)
    OBVIOUS
  <2>3. /\ emit' = [emit EXCEPT ![t].index = e.index + 1, ![t].last = k, ![t].owed = e.owed \ {k}]
        /\ UNCHANGED <<handlers, subscribed, events>>
    BY <1>c, <2>2 DEF Turn
  <2>4. emit' = [emit EXCEPT ![t] = [e EXCEPT !.index = e.index + 1, !.last = k, !.owed = e.owed \ {k}]]
    BY <1>c, <2>3
  <2>. QED BY <1>5, <2>1, <2>2, <2>3, <2>4
<1>8. BusTypeOK'
  BY <1>b, <1>6, <1>7 DEF BusInv, BusTypeOK
<1>9. ASSUME NEW u \in Emitter, emit'[u].under
      PROVE  Behind(u)' /\ Cardinality(PassedOver(u)') <= emit'[u].shifts
  <2>1. CASE u # t
    <3>1. emit'[u] = emit[u]
      BY <1>7, <2>1 DEF BusInv, BusTypeOK
    <3>. QED BY <1>7, <1>9, <3>1, UnmovedKeeps DEF BusInv
  <2>2. CASE u = t
    <3>1. emit'[u] = f
      BY <1>7, <2>2 DEF BusInv, BusTypeOK
    <3>2. Coming(u)' = {g[i] : i \in (e.index + 2) .. Len(g)}
      BY <1>a, <1>1, <1>6, <1>7, <3>1 DEF Coming
    <3>3. Coming(u) = {g[i] : i \in (e.index + 1) .. Len(g)}
      BY <1>a, <1>c, <2>2 DEF Coming
    <3>4. Behind(u)'
      <4>1. ASSUME NEW i \in (e.index + 2) .. Len(g)
            PROVE  g[i] > h
        <5>1. i \in 1 .. Len(g) /\ e.index + 1 < i
          BY <1>1, <1>2
        <5>2. g[e.index + 1] < g[i]
          BY <1>a, <1>2, <1>3, <5>1 DEF BusInv, InOrder
        <5>. QED BY <1>2, <1>3, <1>4, <5>1, <5>2
      <4>. QED BY <1>6, <3>1, <3>2, <4>1 DEF Behind
    <3>5. ASSUME NEW x \in Coming(u), x # h
          PROVE  x \in Coming(u)'
      <4>1. PICK i \in (e.index + 1) .. Len(g) : x = g[i]
        BY <3>3
      <4>2. i # e.index + 1
        BY <1>4, <3>5, <4>1
      <4>3. i \in (e.index + 2) .. Len(g)
        BY <1>1, <1>2, <4>1, <4>2
      <4>. QED BY <3>2, <4>1, <4>3
    <3>6. PassedOver(u)' \subseteq PassedOver(u)
      BY <1>c, <1>6, <2>2, <3>1, <3>5 DEF PassedOver
    <3>7. PICK P : P = PassedOver(u)
      OBVIOUS
    <3>8. PICK R : R = PassedOver(u)'
      OBVIOUS
    <3>9. IsFiniteSet(P) /\ Cardinality(P) \in Nat /\ Cardinality(P) <= e.shifts
      BY <1>c, <1>1, <2>2, <3>7, CountedPassedOver DEF BusInv
    <3>10. Cardinality(R) <= Cardinality(P) /\ Cardinality(R) \in Nat
      BY <3>6, <3>7, <3>8, <3>9, FS_Subset, FS_CardinalityType
    <3>. QED BY <1>6, <3>1, <3>4, <3>8, <3>9, <3>10
  <2>. QED BY <2>1, <2>2
<1>. QED BY <1>7, <1>8, <1>9 DEF BusInv, InOrder

LEMMA EndEmitKeeps ==
    ASSUME BusInv, NEW t \in Emitter, EndEmit(t)
    PROVE  BusInv'
<1>1. emit' = [emit EXCEPT ![t] = NoEmit] /\ UNCHANGED <<handlers, subscribed, events>>
  BY DEF EndEmit
<1>2. NoEmit \in EmitRow(subscribed) /\ ~NoEmit.under
  BY DEF BusInv, BusTypeOK, NoEmit, EmitRow
<1>3. BusTypeOK'
  BY <1>1, <1>2 DEF BusInv, BusTypeOK
<1>4. ASSUME NEW u \in Emitter, emit'[u].under
      PROVE  Behind(u)' /\ Cardinality(PassedOver(u)') <= emit'[u].shifts
  <2>1. emit'[u] = emit[u]
    BY <1>1, <1>2, <1>4 DEF BusInv, BusTypeOK
  <2>. QED BY <1>1, <1>4, <2>1, UnmovedKeeps DEF BusInv
<1>. QED BY <1>1, <1>3, <1>4 DEF BusInv, InOrder

LEMMA BusInitially == BusInit => BusInv
<1>. SUFFICES ASSUME BusInit PROVE BusInv
  OBVIOUS
<1>1. handlers = <<>> /\ subscribed = 0 /\ events = 0 /\ emit = [t \in Emitter |-> NoEmit]
  BY DEF BusInit
<1>2. NoEmit \in EmitRow(0) /\ ~NoEmit.under
  BY DEF NoEmit, EmitRow
<1>3. BusTypeOK
  BY <1>1, <1>2, EmptySeq DEF BusTypeOK
<1>4. InOrder
  BY <1>1, EmptySeq, LenProperties DEF InOrder
<1>. QED BY <1>1, <1>2, <1>3, <1>4 DEF BusInv

LEMMA BusStep == BusInv /\ [BusNext]_busVars => BusInv'
<1>. SUFFICES ASSUME BusInv, [BusNext]_busVars PROVE BusInv'
  OBVIOUS
<1>1. CASE UNCHANGED busVars
  BY <1>1, UnmovedKeeps DEF busVars, BusInv, BusTypeOK, InOrder
<1>. QED BY <1>1, OnKeeps, OffKeeps, EmitKeeps, TurnKeeps, EndEmitKeeps DEF BusNext

\* For every number of emits under way, of registrations and of events: whatever
\* is registered and removed while an event is emitted (on(), off() and the walk
\* of emit() over the shared list), every handler has its turn once and in the
\* order of registration, but for as many as were shifted past the index.
THEOREM HandlersInTurn == BusSpec => []TurnsInOrder
<1>1. BusInv => TurnsInOrder
  BY DEF BusInv, TurnsInOrder, Behind, PassedOver
<1>. QED BY <1>1, BusInitially, BusStep, PTL DEF BusSpec
------------------------------------------------------------------------------
(***************************************************************************)
(* The breakers of the conductor.                                          *)
(***************************************************************************)
EarnedSteps == \A i \in Instance : Earns(breaker[i], breaker'[i], earned'[i])

LEMMA PacingInitially == PacingInit => PacingInv
<1>. SUFFICES ASSUME PacingInit PROVE PacingInv
  OBVIOUS
<1>1. /\ 0 \in 0 .. MostTimeouts /\ 0 \in 0 .. Reopen /\ 0 \in 0 .. HardMax /\ 1 \in 0 .. 1
      /\ Reopen \in Nat
  BY PacingAssumption DEF MostTimeouts
<1>2. Fresh \in Breaker /\ EarnedIn(Fresh, 0)
  BY <1>1 DEF Fresh, Breaker, EarnedIn
<1>. QED BY <1>1, <1>2 DEF PacingInit, PacingInv, PacingTypeOK

LEMMA PacingStutters ==
    ASSUME PacingInv, UNCHANGED pacingVars
    PROVE  PacingInv' /\ EarnedSteps
BY DEF PacingInv, PacingTypeOK, pacingVars, EarnedSteps, Earns

\* A step of breaker i to c, by which it has earned m.
LEMMA OneBreakerMoves ==
    ASSUME PacingInv, NEW i \in Instance, NEW c \in Breaker, NEW m \in 0 .. Reopen,
           breaker' = [breaker EXCEPT ![i] = c], earned' = [earned EXCEPT ![i] = m],
           EarnedIn(c, m), Earns(breaker[i], c, m)
    PROVE  PacingInv' /\ EarnedSteps
<1>1. PacingTypeOK'
  BY DEF PacingInv, PacingTypeOK
<1>2. ASSUME NEW j \in Instance
      PROVE  EarnedIn(breaker'[j], earned'[j]) /\ Earns(breaker[j], breaker'[j], earned'[j])
  <2>1. CASE j = i
    <3>1. breaker'[j] = c /\ earned'[j] = m
      BY <2>1 DEF PacingInv, PacingTypeOK
    <3>. QED BY <2>1, <3>1
  <2>2. CASE j # i
    <3>1. breaker'[j] = breaker[j] /\ earned'[j] = earned[j]
      BY <2>2 DEF PacingInv, PacingTypeOK
    <3>. QED BY <3>1 DEF PacingInv, Earns
  <2>. QED BY <2>1, <2>2
<1>. QED BY <1>1, <1>2 DEF PacingInv, EarnedSteps

LEMMA CanDispatchKeeps ==
    ASSUME PacingInv, NEW i \in Instance, NEW allowed, CanDispatch(i, allowed)
    PROVE  PacingInv' /\ EarnedSteps
<1>1. breaker[i] \in Breaker /\ earned[i] \in 0 .. Reopen /\ EarnedIn(breaker[i], earned[i])
  BY DEF PacingInv, PacingTypeOK
<1>2. breaker' = [breaker EXCEPT ![i] = Asked(breaker[i])] /\ earned' = [earned EXCEPT ![i] = earned[i]]
  BY DEF CanDispatch, PacingInv, PacingTypeOK
<1>3. PICK c : c = Asked(breaker[i])
  OBVIOUS
<1>4. PICK m : m = earned[i]
  OBVIOUS
<1>5. c \in Breaker /\ EarnedIn(c, m) /\ Earns(breaker[i], c, m)
  BY <1>1, <1>3, <1>4, AskedKeeps
<1>. QED BY <1>1, <1>2, <1>3, <1>4, <1>5, OneBreakerMoves

LEMMA GetPacingStatusKeeps ==
    ASSUME PacingInv, NEW i \in Instance, GetPacingStatus(i)
    PROVE  PacingInv' /\ EarnedSteps
<1>1. breaker[i] \in Breaker /\ earned[i] \in 0 .. Reopen /\ EarnedIn(breaker[i], earned[i])
  BY DEF PacingInv, PacingTypeOK
<1>2. breaker' = [breaker EXCEPT ![i] = Looked(breaker[i])] /\ earned' = [earned EXCEPT ![i] = earned[i]]
  BY DEF GetPacingStatus, PacingInv, PacingTypeOK
<1>3. PICK c : c = Looked(breaker[i])
  OBVIOUS
<1>4. PICK m : m = earned[i]
  OBVIOUS
<1>5. c \in Breaker /\ EarnedIn(c, m) /\ Earns(breaker[i], c, m)
  BY <1>1, <1>3, <1>4, LookedKeeps
<1>. QED BY <1>1, <1>2, <1>3, <1>4, <1>5, OneBreakerMoves

LEMMA RecordKeeps ==
    ASSUME PacingInv, NEW i \in Instance, NEW o \in Outcome, Record(i, o)
    PROVE  PacingInv' /\ EarnedSteps
<1>1. PICK b : b = breaker[i]
  OBVIOUS
<1>2. PICK n : n = earned[i]
  OBVIOUS
<1>3. b \in Breaker /\ n \in 0 .. Reopen /\ EarnedIn(b, n)
  BY <1>1, <1>2 DEF PacingInv, PacingTypeOK
<1>4. PICK c : c = Recorded(b, o)
  OBVIOUS
<1>5. PICK m : m = IF Recorded(b, o).state = "CLOSED" THEN 0
                   ELSE IF o = "success" THEN Least(n + 1, Reopen) ELSE n
  OBVIOUS
<1>6. c \in Breaker /\ m \in 0 .. Reopen /\ EarnedIn(c, m) /\ Earns(b, c, m)
  BY <1>3, <1>4, <1>5, RecordedKeeps
<1>7. breaker' = [breaker EXCEPT ![i] = c]
  BY <1>1, <1>4 DEF Record
<1>8. breaker'[i] = c
  BY <1>7 DEF PacingInv, PacingTypeOK
<1>9. earned' = [earned EXCEPT ![i] = m]
  BY <1>1, <1>2, <1>4, <1>5, <1>8 DEF Record
<1>. QED BY <1>1, <1>6, <1>7, <1>9, OneBreakerMoves

LEMMA ElapseKeeps ==
    ASSUME PacingInv, Elapse
    PROVE  PacingInv' /\ EarnedSteps
<1>1. earned' = earned
  BY DEF Elapse
<1>2. ASSUME NEW i \in Instance
      PROVE  /\ breaker'[i] \in Breaker /\ EarnedIn(breaker'[i], earned[i])
             /\ Earns(breaker[i], breaker'[i], earned[i])
  <2>1. PICK b : b = breaker[i]
    OBVIOUS
  <2>2. b \in Breaker /\ EarnedIn(b, earned[i])
    BY <2>1 DEF PacingInv, PacingTypeOK
  <2>3. PICK a : a = IF b.state = "CLOSED" THEN Least(b.sinceClosed + 1, HardMax) ELSE b.sinceClosed
    OBVIOUS
  <2>4. breaker'[i] = [b EXCEPT !.sinceProbe = 1, !.sinceClosed = a]
    BY <2>1, <2>3 DEF Elapse
  <2>5. a \in 0 .. HardMax
    BY <2>2, <2>3, PacingAssumption DEF Breaker, Least
  <2>6. PICK c : c = breaker'[i]
    OBVIOUS
  <2>7. c \in Breaker /\ c.state = b.state /\ c.probeSuccesses = b.probeSuccesses
    <3>1. c = [b EXCEPT !.sinceProbe = 1, !.sinceClosed = a] /\ 1 \in 0 .. 1
      BY <2>4, <2>6
    <3>. QED BY <2>2, <2>5, <3>1 DEF Breaker
  <2>. QED BY <2>1, <2>2, <2>6, <2>7 DEF EarnedIn, Earns
<1>3. PacingTypeOK'
  BY <1>1, <1>2 DEF Elapse, PacingInv, PacingTypeOK
<1>. QED BY <1>1, <1>2, <1>3 DEF PacingInv, EarnedSteps
------------------------------------------------------------------------------
(***************************************************************************)
(* The threads.  What was alive when shutdown() began has been made, so    *)
(* that each visit finds it in the wrapper or already told to stop.        *)
(***************************************************************************)
ThreadRow == [at : Phase, todo : Seq(Sub), on : Made \cup {None}]
Remembered(t) ==
    \A s \in Sub : \A i \in Made : <<s, i>> \in before[t] =>
        /\ i <= made[s]
        /\ thread[t].at = "shutdown" =>
              <<s, i>> \in stopped \/ \E k \in DOMAIN thread[t].todo : thread[t].todo[k] = s
ThreadInv ==
    /\ started \in BOOLEAN /\ down \in BOOLEAN
    /\ thread \in [Thread -> ThreadRow]
    /\ before \in [Thread -> SUBSET (Sub \X Made)]
    /\ \A t \in Thread : Remembered(t)

LEMMA WalkFacts ==
    /\ Order \in Seq(Sub) /\ Ticked \in Seq(Sub) /\ Queried \in Seq(Sub) /\ <<>> \in Seq(Sub)
    /\ \A s \in Sub : \E k \in DOMAIN Order : Order[k] = s
    /\ "pacing" \in Sub /\ Instance = Made
BY ConductorAssumption, EmptySeq

LEMMA NextVisit ==
    ASSUME ThreadInv, NEW t \in Thread, NEW at, At(t, at)
    PROVE  /\ Next1(t) \in Sub /\ Rest(t) \in Seq(Sub) /\ thread[t].todo \in Seq(Sub)
           /\ \A k \in DOMAIN thread[t].todo :
                 thread[t].todo[k] = Next1(t) \/ \E l \in DOMAIN Rest(t) : Rest(t)[l] = thread[t].todo[k]
<1>1. PICK w : w = thread[t].todo
  OBVIOUS
<1>2. w \in Seq(Sub) /\ w # <<>>
  BY <1>1 DEF ThreadInv, ThreadRow, At
<1>3. /\ Head(w) \in Sub /\ Tail(w) \in Seq(Sub) /\ Len(Tail(w)) = Len(w) - 1 /\ Head(w) = w[1]
      /\ \A k \in 1 .. Len(Tail(w)) : Tail(w)[k] = w[k + 1]
      /\ Len(w) \in Nat /\ DOMAIN w = 1 .. Len(w) /\ DOMAIN Tail(w) = 1 .. Len(Tail(w))
  BY <1>2, HeadTailProperties, LenProperties
<1>4. ASSUME NEW k \in 1 .. Len(w), k # 1
      PROVE  k - 1 \in DOMAIN Tail(w) /\ Tail(w)[k - 1] = w[k]
  <2>1. k - 1 \in 1 .. Len(Tail(w)) /\ (k - 1) + 1 = k
    BY <1>3, <1>4
  <2>. QED BY <1>3, <2>1
<1>. QED BY <1>1, <1>2, <1>3, <1>4 DEF Next1, Rest

\* A thread that is not in shutdown() afterwards.
LEMMA ThreadMoves ==
    ASSUME ThreadInv, WrapperInv, WrapperInv', NothingUndone, started' \in BOOLEAN, down' \in BOOLEAN,
           NEW t \in Thread, NEW r \in ThreadRow, r.at # "shutdown",
           thread' = [thread EXCEPT ![t] = r], before' = before
    PROVE  ThreadInv'
<1>1. thread' \in [Thread -> ThreadRow] /\ before' \in [Thread -> SUBSET (Sub \X Made)]
  BY DEF ThreadInv
<1>2. ASSUME NEW u \in Thread
      PROVE  Remembered(u)'
  <2>. SUFFICES ASSUME NEW s \in Sub, NEW i \in Made, <<s, i>> \in before[u]
                PROVE  /\ i <= made'[s]
                       /\ thread'[u].at = "shutdown" =>
                             <<s, i>> \in stopped' \/ \E k \in DOMAIN thread'[u].todo : thread'[u].todo[k] = s
    BY DEF Remembered
  <2>1. i <= made[s] /\ made[s] <= made'[s] /\ made[s] \in Nat /\ made'[s] \in Nat /\ i \in Nat
    BY DEF ThreadInv, Remembered, NothingUndone, WrapperInv, WrapperTypeOK, Made
  <2>2. i <= made'[s]
    BY <2>1
  <2>3. CASE u = t
    <3>1. thread'[u].at # "shutdown"
      BY <2>3 DEF ThreadInv
    <3>. QED BY <2>2, <3>1
  <2>4. CASE u # t
    <3>1. thread'[u] = thread[u]
      BY <2>4 DEF ThreadInv
    <3>. QED BY <2>2, <3>1 DEF ThreadInv, Remembered, NothingUndone
  <2>. QED BY <2>3, <2>4
<1>. QED BY <1>1, <1>2 DEF ThreadInv

LEMMA ThreadGoes ==
    ASSUME ThreadInv, WrapperInv, WrapperInv', NothingUndone, started' \in BOOLEAN, down' \in BOOLEAN,
           NEW t \in Thread, NEW at \in Phase \ {"shutdown"}, NEW todo \in Seq(Sub), NEW on \in Made \cup {None},
           Goes(t, at, todo, on), before' = before
    PROVE  ThreadInv'
<1>1. PICK r : r = [at |-> at, todo |-> todo, on |-> on]
  OBVIOUS
<1>2. r \in ThreadRow /\ r.at # "shutdown" /\ thread' = [thread EXCEPT ![t] = r]
  BY <1>1 DEF ThreadRow, Goes
<1>. QED BY <1>2, ThreadMoves

LEMMA ThreadStutters ==
    ASSUME ThreadInv, WrapperInv, WrapperInv', NothingUndone, UNCHANGED <<started, down, thread, before>>
    PROVE  ThreadInv'
<1>1. ASSUME NEW u \in Thread
      PROVE  Remembered(u)'
  <2>. SUFFICES ASSUME NEW s \in Sub, NEW i \in Made, <<s, i>> \in before[u]
                PROVE  /\ i <= made'[s]
                       /\ thread[u].at = "shutdown" =>
                             <<s, i>> \in stopped' \/ \E k \in DOMAIN thread[u].todo : thread[u].todo[k] = s
    BY DEF Remembered
  <2>1. i <= made[s] /\ made[s] <= made'[s] /\ made[s] \in Nat /\ made'[s] \in Nat /\ i \in Nat
    BY DEF ThreadInv, Remembered, NothingUndone, WrapperInv, WrapperTypeOK, Made
  <2>2. i <= made'[s]
    BY <2>1
  <2>. QED BY <2>2 DEF ThreadInv, Remembered, NothingUndone
<1>. QED BY <1>1 DEF ThreadInv

LEMMA ShutdownBegins ==
    ASSUME ThreadInv, WrapperInv, NEW t \in Thread, Shutdown(t)
    PROVE  ThreadInv'
<1>1. /\ down' = TRUE /\ started' = FALSE /\ UNCHANGED wrapperVars
      /\ thread' = [thread EXCEPT ![t] = [at |-> "shutdown", todo |-> Order, on |-> None]]
      /\ before' = [before EXCEPT ![t] = Live]
  BY DEF Shutdown, Goes
<1>2. PICK r : r = [at |-> "shutdown", todo |-> Order, on |-> None]
  OBVIOUS
<1>3. r \in ThreadRow /\ r.todo = Order
  BY <1>2, WalkFacts DEF ThreadRow, Phase
<1>4. thread' \in [Thread -> ThreadRow]
  BY <1>1, <1>2, <1>3 DEF ThreadInv
<1>5. before' \in [Thread -> SUBSET (Sub \X Made)]
  BY <1>1 DEF ThreadInv, Live
<1>6. ASSUME NEW u \in Thread
      PROVE  Remembered(u)'
  <2>1. CASE u # t
    <3>1. thread'[u] = thread[u] /\ before'[u] = before[u] /\ made' = made /\ stopped' = stopped
      BY <1>1, <2>1 DEF ThreadInv, wrapperVars
    <3>. QED BY <3>1 DEF ThreadInv, Remembered
  <2>2. CASE u = t
    <3>1. thread'[u] = r /\ before'[u] = Live /\ made' = made /\ stopped' = stopped
      BY <1>1, <1>2, <2>2 DEF ThreadInv, wrapperVars
    <3>2. ASSUME NEW s \in Sub, NEW i \in Made, <<s, i>> \in Live
          PROVE  i <= made[s] /\ \E k \in DOMAIN r.todo : r.todo[k] = s
      <4>1. instance[s] = i /\ i # None
        BY <3>2, WrapperAssumption DEF Live, Made
      <4>. QED BY <1>3, <4>1, WalkFacts DEF WrapperInv, MadeInOrder
    <3>. QED BY <3>1, <3>2 DEF Remembered
  <2>. QED BY <2>1, <2>2
<1>. QED BY <1>1, <1>4, <1>5, <1>6 DEF ThreadInv

LEMMA ShutdownVisits ==
    ASSUME ThreadInv, WrapperInv, NEW t \in Thread, ShutdownStep(t)
    PROVE  ThreadInv' /\ WrapperInv' /\ NothingUndone
<1>1. /\ At(t, "shutdown") /\ Destroy(Next1(t)) /\ UNCHANGED <<started, down, before>>
      /\ thread' = [thread EXCEPT ![t] = [at |-> "shutdown", todo |-> Rest(t), on |-> None]]
  BY DEF ShutdownStep, Goes
<1>2. PICK w : w = Rest(t)
  OBVIOUS
<1>3. /\ Next1(t) \in Sub /\ w \in Seq(Sub) /\ thread[t].at = "shutdown"
      /\ \A k \in DOMAIN thread[t].todo :
            thread[t].todo[k] = Next1(t) \/ \E l \in DOMAIN w : w[l] = thread[t].todo[k]
  BY <1>1, <1>2, NextVisit DEF At
<1>4. PICK r : r = [at |-> "shutdown", todo |-> w, on |-> None]
  OBVIOUS
<1>5. r \in ThreadRow /\ r.todo = w
  BY <1>3, <1>4 DEF ThreadRow, Phase
<1>6. WrapperInv' /\ NothingUndone /\ \A i \in 1 .. made[Next1(t)] : <<Next1(t), i>> \in stopped'
  BY <1>1, <1>3, DestroyKeeps
<1>7. thread' \in [Thread -> ThreadRow] /\ before' \in [Thread -> SUBSET (Sub \X Made)]
  BY <1>1, <1>2, <1>4, <1>5 DEF ThreadInv
<1>8. ASSUME NEW u \in Thread
      PROVE  Remembered(u)'
  <2>. SUFFICES ASSUME NEW s \in Sub, NEW i \in Made, <<s, i>> \in before[u]
                PROVE  /\ i <= made'[s]
                       /\ thread'[u].at = "shutdown" =>
                             <<s, i>> \in stopped' \/ \E k \in DOMAIN thread'[u].todo : thread'[u].todo[k] = s
    BY <1>1 DEF Remembered
  <2>1. i <= made[s] /\ made[s] <= made'[s] /\ made[s] \in Nat /\ made'[s] \in Nat /\ i \in Nat /\ 1 <= i
    BY <1>6 DEF ThreadInv, Remembered, NothingUndone, WrapperInv, WrapperTypeOK, Made
  <2>2. i <= made'[s] /\ i \in 1 .. made[s]
    BY <2>1
  <2>3. CASE u = t
    <3>1. thread'[u] = r
      BY <1>1, <1>2, <1>4, <2>3 DEF ThreadInv
    <3>2. <<s, i>> \in stopped \/ \E k \in DOMAIN thread[t].todo : thread[t].todo[k] = s
      BY <1>3, <2>3 DEF ThreadInv, Remembered
    <3>3. <<s, i>> \in stopped' \/ \E l \in DOMAIN w : w[l] = s
      BY <1>3, <1>6, <2>2, <3>2 DEF NothingUndone
    <3>. QED BY <1>5, <2>2, <3>1, <3>3
  <2>4. CASE u # t
    <3>1. thread'[u] = thread[u]
      BY <1>1, <2>4 DEF ThreadInv
    <3>. QED BY <1>6, <2>2, <3>1 DEF ThreadInv, Remembered, NothingUndone
  <2>. QED BY <2>3, <2>4
<1>. QED BY <1>1, <1>6, <1>7, <1>8 DEF ThreadInv

LEMMA ThreadReturns ==
    ASSUME ThreadInv, WrapperInv, NEW t \in Thread, Return(t)
    PROVE  ThreadInv'
<1>1. /\ thread' = [thread EXCEPT ![t] = Resting] /\ before' = [before EXCEPT ![t] = {}]
      /\ UNCHANGED <<wrapperVars, started, down>>
  BY DEF Return
<1>2. Resting \in ThreadRow
  BY WalkFacts DEF Resting, ThreadRow, Phase
<1>3. thread' \in [Thread -> ThreadRow] /\ before' \in [Thread -> SUBSET (Sub \X Made)]
  BY <1>1, <1>2 DEF ThreadInv
<1>4. ASSUME NEW u \in Thread
      PROVE  Remembered(u)'
  <2>1. made' = made /\ stopped' = stopped
    BY <1>1 DEF wrapperVars
  <2>2. CASE u = t
    <3>1. before'[u] = {}
      BY <1>1, <2>2 DEF ThreadInv
    <3>. QED BY <3>1 DEF Remembered
  <2>3. CASE u # t
    <3>1. thread'[u] = thread[u] /\ before'[u] = before[u]
      BY <1>1, <2>3 DEF ThreadInv
    <3>. QED BY <2>1, <3>1 DEF ThreadInv, Remembered
  <2>. QED BY <2>2, <2>3
<1>. QED BY <1>1, <1>3, <1>4 DEF ThreadInv
------------------------------------------------------------------------------
(***************************************************************************)
(* Calls of spawn_agent() and the list of postponed tasks.  A task is in   *)
(* the hands of one caller, or it is known where it waits.                 *)
(***************************************************************************)
CallRow == [at : {"idle", "ask", "run", "refused"}, pacing : Made \cup {None}, task : Task \cup {None}]
UnderWay(c) == call[c].at \in {"ask", "run", "refused"} /\ call[c].task \in Task
CallTypeOK ==
    /\ call \in [Caller -> CallRow]
    /\ \A c \in Caller : call[c] = NoCall \/ UnderWay(c)
    /\ \A c \in Caller : call[c].at = "ask" => call[c].pacing \in Made
InHand ==
    \A c \in Caller : UnderWay(c) =>
        /\ call[c].task \notin told \cup full
        /\ \A d \in Caller : d # c /\ UnderWay(d) => call[d].task # call[c].task
QueueTypeOK ==
    /\ queue \in Seq(Task) /\ Len(queue) <= QueueLimit
    /\ told \subseteq Task /\ full \subseteq Task
InQueue(task) == \E k \in DOMAIN queue : queue[k] = task
QueueInv ==
    /\ \A i, j \in DOMAIN queue : queue[i] = queue[j] => i = j
    /\ \A task \in Task : InQueue(task) <=> task \in told \ full
CallInv == CallTypeOK /\ InHand /\ QueueTypeOK /\ QueueInv

LEMMA NoCallFacts == NoCall \in CallRow /\ NoCall.at = "idle"
BY DEF NoCall, CallRow

LEMMA CallStutters ==
    ASSUME CallInv, UNCHANGED callVars
    PROVE  CallInv'
BY DEF CallInv, callVars, CallTypeOK, InHand, UnderWay, QueueTypeOK, QueueInv, InQueue

LEMMA SpawnAgentKeeps ==
    ASSUME CallInv, NEW c \in Caller, NEW task \in Task, NEW i \in Made \cup {None},
           task \notin told \ full, \A d \in Caller : call[d].task # task,
           call' = [call EXCEPT ![c] = [at |-> IF i = None THEN "run" ELSE "ask", pacing |-> i, task |-> task]],
           told' = told \ {task}, full' = full \ {task}, queue' = queue
    PROVE  CallInv'
<1>1. PICK r : r = [at |-> IF i = None THEN "run" ELSE "ask", pacing |-> i, task |-> task]
  OBVIOUS
<1>2. /\ r \in CallRow /\ r.at \in {"ask", "run", "refused"} /\ r.task = task
      /\ r.at = "ask" => r.pacing \in Made
  BY <1>1 DEF CallRow
<1>3. /\ call' = [call EXCEPT ![c] = r] /\ call'[c] = r
      /\ \A d \in Caller : d # c => call'[d] = call[d]
  BY <1>1 DEF CallInv, CallTypeOK
<1>4. CallTypeOK'
  BY <1>2, <1>3 DEF CallInv, CallTypeOK, UnderWay
<1>5. InHand'
  BY <1>2, <1>3 DEF CallInv, InHand, UnderWay
<1>6. QueueTypeOK' /\ QueueInv'
  BY DEF CallInv, QueueTypeOK, QueueInv, InQueue
<1>. QED BY <1>4, <1>5, <1>6 DEF CallInv

\* A call that goes on with the same task.
LEMMA CallGoes ==
    ASSUME CallInv, NEW c \in Caller, UnderWay(c), NEW at \in {"run", "refused"}, Calls(c, at),
           UNCHANGED <<queue, told, full>>
    PROVE  CallInv'
<1>1. PICK b : b = call[c]
  OBVIOUS
<1>2. PICK r : r = [b EXCEPT !.at = at]
  OBVIOUS
<1>3. b \in CallRow /\ b.task \in Task
  BY <1>1 DEF CallInv, CallTypeOK, UnderWay
<1>4. r \in CallRow /\ r.at = at /\ r.task = b.task
  BY <1>2, <1>3 DEF CallRow
<1>5. call' = [call EXCEPT ![c] = r]
  BY <1>1, <1>2 DEF Calls
<1>6. call'[c] = r /\ \A d \in Caller : d # c => call'[d] = call[d]
  BY <1>5 DEF CallInv, CallTypeOK
<1>7. CallTypeOK'
  BY <1>3, <1>4, <1>5, <1>6 DEF CallInv, CallTypeOK, UnderWay
<1>8. \A d \in Caller : call'[d].task = call[d].task /\ (UnderWay(d)' => UnderWay(d))
  BY <1>1, <1>4, <1>6 DEF UnderWay
<1>9. InHand'
  BY <1>8 DEF CallInv, InHand
<1>10. QueueTypeOK' /\ QueueInv'
  BY DEF CallInv, QueueTypeOK, QueueInv, InQueue
<1>. QED BY <1>7, <1>9, <1>10 DEF CallInv

\* A call that is over.
LEMMA CallEnds ==
    ASSUME CallInv, NEW c \in Caller, call' = [call EXCEPT ![c] = NoCall]
    PROVE  /\ CallTypeOK' /\ ~UnderWay(c)'
           /\ \A d \in Caller : d # c => call'[d] = call[d]
<1>1. call'[c] = NoCall /\ \A d \in Caller : d # c => call'[d] = call[d]
  BY DEF CallInv, CallTypeOK
<1>2. ~UnderWay(c)' /\ CallTypeOK'
  BY <1>1, NoCallFacts DEF CallInv, CallTypeOK, UnderWay
<1>. QED BY <1>1, <1>2

LEMMA FinishKeeps ==
    ASSUME CallInv, NEW c \in Caller, call' = [call EXCEPT ![c] = NoCall], UNCHANGED <<queue, told, full>>
    PROVE  CallInv'
<1>1. CallTypeOK' /\ ~UnderWay(c)' /\ \A d \in Caller : d # c => call'[d] = call[d]
  BY CallEnds
<1>2. InHand'
  BY <1>1 DEF CallInv, InHand, UnderWay
<1>3. QueueTypeOK' /\ QueueInv'
  BY DEF CallInv, QueueTypeOK, QueueInv, InQueue
<1>. QED BY <1>1, <1>2, <1>3 DEF CallInv

LEMMA EnqueueKeeps ==
    ASSUME CallInv, NEW c \in Caller, Enqueue(c)
    PROVE  CallInv'
<1>1. PICK task : task = call[c].task
  OBVIOUS
<1>2. /\ UnderWay(c) /\ task \in Task /\ task \notin told /\ task \notin full
      /\ \A d \in Caller : d # c /\ UnderWay(d) => call[d].task # task
  BY <1>1, NoCallFacts DEF Enqueue, CallInv, CallTypeOK, UnderWay, InHand
<1>3. /\ told' = told \cup {task} /\ call' = [call EXCEPT ![c] = NoCall]
      /\ \/ Len(queue) < QueueLimit /\ queue' = Append(queue, task) /\ full' = full
         \/ full' = full \cup {task} /\ queue' = queue
  BY <1>1 DEF Enqueue
<1>4. CallTypeOK' /\ ~UnderWay(c)' /\ \A d \in Caller : d # c => call'[d] = call[d]
  BY <1>3, CallEnds
<1>5. InHand'
  BY <1>2, <1>3, <1>4 DEF CallInv, InHand, UnderWay
<1>6. QueueTypeOK' /\ QueueInv'
  <2>1. CASE full' = full \cup {task} /\ queue' = queue
    BY <1>2, <1>3, <2>1 DEF CallInv, QueueTypeOK, QueueInv, InQueue
  <2>2. CASE Len(queue) < QueueLimit /\ queue' = Append(queue, task) /\ full' = full
    <3>1. PICK q : q = queue
      OBVIOUS
    <3>2. PICK r : r = queue'
      OBVIOUS
    <3>3. q \in Seq(Task) /\ Len(q) \in Nat /\ DOMAIN q = 1 .. Len(q)
      BY <3>1, LenProperties DEF CallInv, QueueTypeOK
    <3>4. /\ r \in Seq(Task) /\ Len(r) = Len(q) + 1 /\ r[Len(q) + 1] = task
          /\ \A k \in 1 .. Len(q) : r[k] = q[k]
      BY <1>2, <2>2, <3>1, <3>2, <3>3, AppendProperties
    <3>5. DOMAIN r = 1 .. Len(q) + 1
      BY <3>4, LenProperties
    <3>6. \A k \in DOMAIN q : q[k] # task
      BY <1>2, <3>1 DEF CallInv, QueueInv, InQueue
    <3>7. \A i, j \in DOMAIN q : q[i] = q[j] => i = j
      BY <3>1 DEF CallInv, QueueInv
    <3>8. \A i \in DOMAIN r : i \in DOMAIN q \/ i = Len(q) + 1
      BY <3>3, <3>5
    <3>9. \A i, j \in DOMAIN r : r[i] = r[j] => i = j
      BY <3>3, <3>4, <3>6, <3>7, <3>8
    <3>10. DOMAIN q \subseteq DOMAIN r /\ Len(q) + 1 \in DOMAIN r
      BY <3>3, <3>5
    <3>11. \A x : (\E k \in DOMAIN r : r[k] = x) <=> x = task \/ (\E k \in DOMAIN q : q[k] = x)
      BY <3>3, <3>4, <3>8, <3>10
    <3>12. QueueInv'
      BY <1>2, <1>3, <2>2, <3>1, <3>2, <3>9, <3>11 DEF CallInv, QueueInv, InQueue
    <3>13. QueueTypeOK'
      <4>1. QueueLimit \in Nat
        BY ConductorAssumption
      <4>2. Len(r) <= QueueLimit
        BY <2>2, <3>1, <3>3, <3>4, <4>1
      <4>3. told' \subseteq Task /\ full' \subseteq Task
        BY <1>2, <1>3, <2>2 DEF CallInv, QueueTypeOK
      <4>. QED BY <3>2, <3>4, <4>2, <4>3 DEF QueueTypeOK
    <3>. QED BY <3>12, <3>13
  <2>. QED BY <1>3, <2>1, <2>2
<1>. QED BY <1>4, <1>5, <1>6 DEF CallInv

LEMMA DrainKeeps ==
    ASSUME CallInv, NEW n, Drain(n)
    PROVE  CallInv'
<1>1. /\ n \in 1 .. Len(queue) /\ queue' = SubSeq(queue, n + 1, Len(queue))
      /\ told' = told \ Taken(n) /\ UNCHANGED <<call, full>>
  BY DEF Drain
<1>2. CallTypeOK' /\ InHand'
  BY <1>1 DEF CallInv, CallTypeOK, InHand, UnderWay
<1>3. PICK q : q = queue
  OBVIOUS
<1>4. PICK r : r = queue'
  OBVIOUS
<1>5. q \in Seq(Task) /\ Len(q) \in Nat /\ DOMAIN q = 1 .. Len(q) /\ n \in 1 .. Len(q) /\ n \in Nat
  BY <1>1, <1>3, LenProperties DEF CallInv, QueueTypeOK
<1>6. r = SubSeq(q, n + 1, Len(q))
  BY <1>1, <1>3, <1>4
<1>7. /\ r \in Seq(Task) /\ Len(r) = Len(q) - n
      /\ \A k \in 1 .. Len(q) - n : r[k] = q[n + k]
  <2>1. \A k \in (n + 1) .. Len(q) : q[k] \in Task
    BY <1>5, ElementOfSeq
  <2>2. PICK m : m = n + 1
    OBVIOUS
  <2>3. m \in Int /\ Len(q) \in Int /\ Len(q) - m + 1 = Len(q) - n /\ m <= Len(q) + 1
    BY <1>5, <2>2
  <2>4. /\ r \in Seq(Task) /\ Len(r) = IF m <= Len(q) THEN Len(q) - m + 1 ELSE 0
        /\ \A k \in 1 .. Len(q) - m + 1 : r[k] = q[m + k - 1]
    BY <1>6, <2>1, <2>2, <2>3, SubSeqProperties
  <2>5. Len(r) = Len(q) - n
    <3>1. CASE m <= Len(q)
      BY <2>3, <2>4, <3>1
    <3>2. CASE ~ (m <= Len(q))
      <4>1. Len(r) = 0
        BY <2>4, <3>2
      <4>2. PICK z : z = Len(q)
        OBVIOUS
      <4>3. z \in Int /\ n \in Int /\ n <= z /\ ~ (n + 1 <= z)
        BY <1>5, <2>2, <3>2, <4>2
      <4>. QED BY <4>1, <4>2, <4>3
    <3>. QED BY <3>1, <3>2
  <2>6. ASSUME NEW k \in 1 .. Len(q) - n
        PROVE  r[k] = q[n + k]
    <3>1. k \in 1 .. Len(q) - m + 1
      BY <2>3
    <3>2. m + k - 1 = n + k
      BY <1>5, <2>2
    <3>. QED BY <2>4, <3>1, <3>2
  <2>. QED BY <2>4, <2>5, <2>6
<1>8. DOMAIN r = 1 .. Len(q) - n
  BY <1>7, LenProperties
<1>9. \A k \in DOMAIN r : n + k \in DOMAIN q /\ r[k] = q[n + k] /\ ~ (n + k <= n)
  BY <1>5, <1>7, <1>8
<1>10. \A i, j \in DOMAIN q : q[i] = q[j] => i = j
  BY <1>3 DEF CallInv, QueueInv
<1>11. \A i, j \in DOMAIN r : r[i] = r[j] => i = j
  <2>. SUFFICES ASSUME NEW i \in DOMAIN r, NEW j \in DOMAIN r, r[i] = r[j]
                PROVE  i = j
    OBVIOUS
  <2>1. n + i = n + j
    BY <1>9, <1>10
  <2>. QED BY <1>5, <1>8, <2>1
<1>12. ASSUME NEW x
       PROVE  (\E k \in DOMAIN r : r[k] = x) <=> x \notin Taken(n) /\ \E k \in DOMAIN q : q[k] = x
  <2>1. Taken(n) = {q[k] : k \in 1 .. n}
    BY <1>3 DEF Taken
  <2>2. ASSUME NEW k \in DOMAIN r, r[k] = x
        PROVE  x \notin Taken(n) /\ \E l \in DOMAIN q : q[l] = x
    <3>1. n + k \in DOMAIN q /\ q[n + k] = x
      BY <1>9, <2>2
    <3>2. ASSUME NEW l \in 1 .. n, q[l] = x
          PROVE  FALSE
      <4>1. l \in DOMAIN q
        BY <1>5
      <4>2. l = n + k
        BY <1>10, <3>1, <3>2, <4>1
      <4>. QED BY <1>5, <1>8, <4>2
    <3>. QED BY <2>1, <3>1, <3>2
  <2>3. ASSUME x \notin Taken(n), NEW k \in DOMAIN q, q[k] = x
        PROVE  \E l \in DOMAIN r : r[l] = x
    <3>1. k \notin 1 .. n
      BY <2>1, <2>3
    <3>2. k - n \in DOMAIN r /\ n + (k - n) = k
      BY <1>5, <1>8, <3>1
    <3>3. r[k - n] = x
      BY <1>9, <2>3, <3>2
    <3>. QED BY <3>2, <3>3
  <2>. QED BY <2>2, <2>3
<1>13. QueueInv'
  BY <1>1, <1>3, <1>4, <1>11, <1>12 DEF CallInv, QueueInv, InQueue
<1>14. QueueTypeOK'
  <2>1. QueueLimit \in Nat /\ Len(q) <= QueueLimit
    BY <1>3, ConductorAssumption DEF CallInv, QueueTypeOK
  <2>2. Len(r) <= QueueLimit
    BY <1>5, <1>7, <2>1
  <2>3. told' \subseteq Task /\ full' \subseteq Task
    BY <1>1 DEF CallInv, QueueTypeOK
  <2>. QED BY <1>4, <1>7, <2>2, <2>3 DEF QueueTypeOK
<1>. QED BY <1>2, <1>13, <1>14 DEF CallInv
------------------------------------------------------------------------------
(***************************************************************************)
(* The conductor: every step is one of a wrapper, of a breaker, of a       *)
(* thread and of a call, and most are the stutter of all but one or two.   *)
(***************************************************************************)
ConductorInv == WrapperInv /\ PacingInv /\ ThreadInv /\ CallInv
Kept == ConductorInv' /\ EarnedSteps

LEMMA WrapperUnchanged ==
    ASSUME WrapperInv, UNCHANGED wrapperVars
    PROVE  WrapperInv' /\ NothingUndone
BY WrapperStutters DEF wrapperVars, WrapperInv, WrapperTypeOK

\* Steps of a thread, but for shutdown(), that leave calls and breakers alone.
LEMMA OnlyThreadGoes ==
    ASSUME ConductorInv, WrapperInv', NothingUndone, started' \in BOOLEAN, down' \in BOOLEAN,
           NEW t \in Thread, NEW at \in Phase \ {"shutdown"}, NEW todo \in Seq(Sub), NEW on \in Made \cup {None},
           Goes(t, at, todo, on), before' = before, UNCHANGED <<callVars, pacingVars>>
    PROVE  Kept
<1>1. ThreadInv'
  BY ThreadGoes DEF ConductorInv
<1>2. CallInv' /\ PacingInv' /\ EarnedSteps
  BY CallStutters, PacingStutters DEF ConductorInv
<1>. QED BY <1>1, <1>2 DEF ConductorInv, Kept

LEMMA WalksBegin ==
    ASSUME ConductorInv, NEW t \in Thread, Start(t) \/ Beat(t) \/ GetStatus(t) \/ RegisterNode(t)
    PROVE  Kept
<1>1. /\ UNCHANGED <<wrapperVars, callVars, pacingVars>> /\ before' = before
      /\ started' \in BOOLEAN /\ down' \in BOOLEAN
  BY DEF Start, Beat, GetStatus, RegisterNode, ConductorInv, ThreadInv
<1>2. WrapperInv' /\ NothingUndone
  BY <1>1, WrapperUnchanged DEF ConductorInv
<1>3. \/ Goes(t, "start", Order, None) \/ Goes(t, "beat", Ticked, None)
      \/ Goes(t, "status", Order, None) \/ Goes(t, "query", Queried, None)
  BY DEF Start, Beat, GetStatus, RegisterNode
<1>. QED BY <1>1, <1>2, <1>3, WalkFacts, OnlyThreadGoes DEF Phase

LEMMA VisitsGoOn ==
    ASSUME ConductorInv, NEW t \in Thread, StartStep(t) \/ BeatStep(t) \/ ReviveStep(t) \/ QueryStep(t)
    PROVE  Kept
<1>1. PICK at \in {"start", "beat", "revive", "query"} : At(t, at)
  BY DEF StartStep, BeatStep, ReviveStep, QueryStep
<1>2. /\ UNCHANGED <<started, down, before, callVars, pacingVars>>
      /\ \E i \in Made \cup {None} : Ensure(Next1(t), i) /\
            \/ Goes(t, "start", Rest(t), None) \/ Goes(t, "beat", Rest(t), None)
            \/ Goes(t, "query", Rest(t), None) \/ Goes(t, "tick", thread[t].todo, i)
  BY DEF StartStep, BeatStep, ReviveStep, QueryStep
<1>3. PICK i \in Made \cup {None} : Ensure(Next1(t), i) /\
            \/ Goes(t, "start", Rest(t), None) \/ Goes(t, "beat", Rest(t), None)
            \/ Goes(t, "query", Rest(t), None) \/ Goes(t, "tick", thread[t].todo, i)
  BY <1>2
<1>4. Next1(t) \in Sub /\ Rest(t) \in Seq(Sub) /\ thread[t].todo \in Seq(Sub)
  BY <1>1, NextVisit DEF ConductorInv
<1>5. WrapperInv' /\ NothingUndone
  BY <1>3, <1>4, EnsureKeeps DEF ConductorInv
<1>6. started' \in BOOLEAN /\ down' \in BOOLEAN
  BY <1>2 DEF ConductorInv, ThreadInv
<1>. QED BY <1>2, <1>3, <1>4, <1>5, <1>6, OnlyThreadGoes DEF Phase

LEMMA TickKeeps ==
    ASSUME ConductorInv, NEW t \in Thread, Tick(t)
    PROVE  Kept
<1>1. /\ At(t, "tick") /\ UNCHANGED <<instance, health, failures, made, stopped, broken, started, down, before, callVars, pacingVars>>
      /\ Returns(Next1(t), thread[t].on) \/ Raises(Next1(t), thread[t].on)
      /\ Goes(t, "beat", Rest(t), None) \/ Goes(t, "restart", thread[t].todo, None)
  BY DEF Tick
<1>2. Rest(t) \in Seq(Sub) /\ thread[t].todo \in Seq(Sub)
  BY <1>1, NextVisit DEF ConductorInv
<1>3. faults' \in 0 .. MaxFaults
  BY <1>1, CallKeeps DEF ConductorInv
<1>4. WrapperInv' /\ NothingUndone
  BY <1>1, <1>3, WrapperStutters DEF ConductorInv
<1>5. started' \in BOOLEAN /\ down' \in BOOLEAN /\ before' = before /\ UNCHANGED <<callVars, pacingVars>>
  BY <1>1 DEF ConductorInv, ThreadInv
<1>. QED BY <1>1, <1>2, <1>4, <1>5, OnlyThreadGoes DEF Phase

LEMMA RestartKeeps ==
    ASSUME ConductorInv, NEW t \in Thread, RestartStep(t)
    PROVE  Kept
<1>1. /\ At(t, "restart") /\ Destroy(Next1(t)) /\ UNCHANGED <<started, down, before, callVars, pacingVars>>
      /\ Goes(t, "revive", thread[t].todo, None)
  BY DEF RestartStep
<1>2. Next1(t) \in Sub /\ thread[t].todo \in Seq(Sub)
  BY <1>1, NextVisit DEF ConductorInv
<1>3. WrapperInv' /\ NothingUndone
  BY <1>1, <1>2, DestroyKeeps DEF ConductorInv
<1>4. started' \in BOOLEAN /\ down' \in BOOLEAN /\ before' = before /\ UNCHANGED <<callVars, pacingVars>>
  BY <1>1 DEF ConductorInv, ThreadInv
<1>. QED BY <1>1, <1>2, <1>3, <1>4, OnlyThreadGoes DEF Phase

LEMMA StatusKeeps ==
    ASSUME ConductorInv, NEW t \in Thread, StatusStep(t)
    PROVE  Kept
<1>1. /\ At(t, "status") /\ HealthCheck(Next1(t)) /\ UNCHANGED <<started, down, before, callVars>>
      /\ Goes(t, "status", Rest(t), None) \/ Goes(t, "query", Queried, None)
      /\ \/ instance["pacing"] # None /\ GetPacingStatus(instance["pacing"])
         \/ UNCHANGED pacingVars
  BY DEF StatusStep
<1>2. Next1(t) \in Sub /\ Rest(t) \in Seq(Sub)
  BY <1>1, NextVisit DEF ConductorInv
<1>3. WrapperInv' /\ NothingUndone
  BY <1>1, <1>2, HealthCheckKeeps DEF ConductorInv
<1>4. started' \in BOOLEAN /\ down' \in BOOLEAN /\ before' = before /\ UNCHANGED callVars
  BY <1>1 DEF ConductorInv, ThreadInv
<1>5. instance["pacing"] # None => instance["pacing"] \in Instance
  BY WalkFacts DEF ConductorInv, WrapperInv, WrapperTypeOK
<1>6. PacingInv' /\ EarnedSteps
  BY <1>1, <1>5, GetPacingStatusKeeps, PacingStutters DEF ConductorInv
<1>7. ThreadInv'
  BY <1>1, <1>2, <1>3, <1>4, WalkFacts, ThreadGoes DEF ConductorInv, Phase
<1>8. CallInv'
  BY <1>4, CallStutters DEF ConductorInv
<1>. QED BY <1>3, <1>6, <1>7, <1>8 DEF ConductorInv, Kept

LEMMA ShutdownKeeps ==
    ASSUME ConductorInv, NEW t \in Thread, Shutdown(t) \/ ShutdownStep(t) \/ Return(t)
    PROVE  Kept
<1>1. UNCHANGED <<callVars, pacingVars>>
  BY DEF Shutdown, ShutdownStep, Return
<1>2. CallInv' /\ PacingInv' /\ EarnedSteps
  BY <1>1, CallStutters, PacingStutters DEF ConductorInv
<1>3. CASE Shutdown(t)
  <2>1. ThreadInv' /\ WrapperInv'
    BY <1>3, ShutdownBegins, WrapperUnchanged DEF ConductorInv, Shutdown
  <2>. QED BY <1>2, <2>1 DEF ConductorInv, Kept
<1>4. CASE ShutdownStep(t)
  BY <1>2, <1>4, ShutdownVisits DEF ConductorInv, Kept
<1>5. CASE Return(t)
  <2>1. ThreadInv' /\ WrapperInv'
    BY <1>5, ThreadReturns, WrapperUnchanged DEF ConductorInv, Return
  <2>. QED BY <1>2, <2>1 DEF ConductorInv, Kept
<1>. QED BY <1>3, <1>4, <1>5

LEMMA ThreadStepKeeps ==
    ASSUME ConductorInv, NEW t \in Thread, ThreadStep(t)
    PROVE  Kept
BY WalksBegin, VisitsGoOn, TickKeeps, RestartKeeps, StatusKeeps, ShutdownKeeps DEF ThreadStep

\* Steps of a call leave the threads alone.
LEMMA SpawnKeeps ==
    ASSUME ConductorInv, NEW c \in Caller, NEW task \in Task, SpawnAgent(c, task)
    PROVE  Kept
<1>1. /\ task \notin told \ full /\ \A d \in Caller : call[d].task # task
      /\ told' = told \ {task} /\ full' = full \ {task}
      /\ UNCHANGED <<started, down, thread, before, queue, pacingVars>>
  BY DEF SpawnAgent
<1>2. PICK i \in Made \cup {None} :
        /\ Ensure("pacing", i)
        /\ call' = [call EXCEPT ![c] = [at |-> IF i = None THEN "run" ELSE "ask", pacing |-> i, task |-> task]]
  BY DEF SpawnAgent
<1>3. WrapperInv' /\ NothingUndone
  BY <1>2, WalkFacts, EnsureKeeps DEF ConductorInv
<1>4. ThreadInv'
  BY <1>1, <1>3, ThreadStutters DEF ConductorInv
<1>5. CallInv'
  BY <1>1, <1>2, SpawnAgentKeeps DEF ConductorInv
<1>6. PacingInv' /\ EarnedSteps
  BY <1>1, PacingStutters DEF ConductorInv
<1>. QED BY <1>3, <1>4, <1>5, <1>6 DEF ConductorInv, Kept

LEMMA CallStepKeeps ==
    ASSUME ConductorInv, NEW c \in Caller, CallStep(c)
    PROVE  Kept
<1>1. UNCHANGED <<wrapperVars, started, down, thread, before>>
  BY DEF CallStep, AskPacing, Finish, Enqueue
<1>2. WrapperInv' /\ ThreadInv'
  BY <1>1, WrapperUnchanged, ThreadStutters DEF ConductorInv
<1>3. CASE AskPacing(c)
  <2>1. PICK allowed \in BOOLEAN :
          CanDispatch(call[c].pacing, allowed) /\ Calls(c, IF allowed THEN "run" ELSE "refused")
    BY <1>3 DEF AskPacing
  <2>2. call[c].pacing \in Instance /\ UnderWay(c)
    BY <1>3, WalkFacts, NoCallFacts DEF AskPacing, ConductorInv, CallInv, CallTypeOK
  <2>3. PacingInv' /\ EarnedSteps
    BY <2>1, <2>2, CanDispatchKeeps DEF ConductorInv
  <2>4. (IF allowed THEN "run" ELSE "refused") \in {"run", "refused"} /\ UNCHANGED <<queue, told, full>>
    BY <1>3 DEF AskPacing
  <2>5. CallInv'
    BY <2>1, <2>2, <2>4, CallGoes DEF ConductorInv
  <2>. QED BY <1>2, <2>3, <2>5 DEF ConductorInv, Kept
<1>4. ASSUME NEW o \in Outcome, Finish(c, o)
      PROVE  Kept
  <2>1. /\ call[c].at = "run" /\ call' = [call EXCEPT ![c] = NoCall] /\ UNCHANGED <<queue, told, full>>
        /\ UNCHANGED pacingVars \/ (call[c].pacing # None /\ Record(call[c].pacing, o))
    BY <1>4 DEF Finish
  <2>2. call[c].pacing # None => call[c].pacing \in Instance
    BY WalkFacts DEF ConductorInv, CallInv, CallTypeOK, CallRow
  <2>3. PacingInv' /\ EarnedSteps
    BY <2>1, <2>2, RecordKeeps, PacingStutters DEF ConductorInv
  <2>4. CallInv'
    BY <2>1, FinishKeeps DEF ConductorInv
  <2>. QED BY <1>2, <2>3, <2>4 DEF ConductorInv, Kept
<1>5. CASE Enqueue(c)
  <2>1. CallInv'
    BY <1>5, EnqueueKeeps DEF ConductorInv
  <2>2. PacingInv' /\ EarnedSteps
    BY <1>5, PacingStutters DEF ConductorInv, Enqueue
  <2>. QED BY <1>2, <2>1, <2>2 DEF ConductorInv, Kept
<1>. QED BY <1>3, <1>4, <1>5 DEF CallStep

LEMMA SurroundingsKeep ==
    ASSUME ConductorInv, (\E n \in 1 .. QueueLimit : Drain(n)) \/ Time \/ GoesWrong
    PROVE  Kept
<1>1. ASSUME NEW n, Drain(n)
      PROVE  Kept
  <2>1. UNCHANGED <<wrapperVars, started, down, thread, before, pacingVars>>
    BY <1>1 DEF Drain
  <2>2. WrapperInv' /\ ThreadInv' /\ PacingInv' /\ EarnedSteps
    BY <2>1, WrapperUnchanged, ThreadStutters, PacingStutters DEF ConductorInv
  <2>3. CallInv'
    BY <1>1, DrainKeeps DEF ConductorInv
  <2>. QED BY <2>2, <2>3 DEF ConductorInv, Kept
<1>2. CASE Time
  <2>1. Elapse /\ UNCHANGED <<wrapperVars, started, down, thread, before, callVars>>
    BY <1>2 DEF Time
  <2>2. WrapperInv' /\ ThreadInv' /\ CallInv'
    BY <2>1, WrapperUnchanged, ThreadStutters, CallStutters DEF ConductorInv
  <2>3. PacingInv' /\ EarnedSteps
    BY <2>1, ElapseKeeps DEF ConductorInv
  <2>. QED BY <2>2, <2>3 DEF ConductorInv, Kept
<1>3. CASE GoesWrong
  <2>1. PICK k \in DOMAIN Ticked, i \in Made : Breaks(Ticked[k], i)
    BY <1>3 DEF GoesWrong
  <2>2. Ticked[k] \in Sub
    BY WalkFacts, LenProperties, ElementOfSeq
  <2>3. WrapperInv' /\ NothingUndone
    BY <2>1, <2>2, BreaksKeeps DEF ConductorInv
  <2>4. UNCHANGED <<started, down, thread, before, callVars, pacingVars>>
    BY <1>3 DEF GoesWrong
  <2>5. ThreadInv' /\ CallInv' /\ PacingInv' /\ EarnedSteps
    BY <2>3, <2>4, ThreadStutters, CallStutters, PacingStutters DEF ConductorInv
  <2>. QED BY <2>3, <2>5 DEF ConductorInv, Kept
<1>. QED BY <1>1, <1>2, <1>3

LEMMA ConductorStep == ConductorInv /\ [ConductorNext]_conductorVars => Kept
<1>. SUFFICES ASSUME ConductorInv, [ConductorNext]_conductorVars PROVE Kept
  OBVIOUS
<1>1. CASE UNCHANGED conductorVars
  <2>1. UNCHANGED <<wrapperVars, pacingVars, started, down, thread, before, callVars>>
    BY <1>1 DEF conductorVars, callVars
  <2>2. WrapperInv' /\ ThreadInv' /\ CallInv' /\ PacingInv' /\ EarnedSteps
    BY <2>1, WrapperUnchanged, ThreadStutters, CallStutters, PacingStutters DEF ConductorInv
  <2>. QED BY <2>2 DEF ConductorInv, Kept
<1>2. ASSUME NEW t \in Operator, Start(t) \/ GetStatus(t) \/ RegisterNode(t) \/ Shutdown(t)
      PROVE  Kept
  BY <1>2, WalksBegin, ShutdownKeeps DEF Thread
<1>3. ASSUME NEW t \in Beater, Beat(t)
      PROVE  Kept
  BY <1>3, WalksBegin DEF Thread
<1>. QED BY <1>1, <1>2, <1>3, ThreadStepKeeps, CallStepKeeps, SpawnKeeps, SurroundingsKeep DEF ConductorNext

LEMMA ConductorInitially == ConductorInit => ConductorInv
<1>. SUFFICES ASSUME ConductorInit PROVE ConductorInv
  OBVIOUS
<1>1. WrapperInv /\ PacingInv
  BY WrapperInitially, PacingInitially DEF ConductorInit
<1>2. ThreadInv
  <2>1. Resting \in ThreadRow
    BY WalkFacts DEF Resting, ThreadRow, Phase
  <2>2. thread \in [Thread -> ThreadRow] /\ before \in [Thread -> SUBSET (Sub \X Made)]
    BY <2>1 DEF ConductorInit
  <2>3. \A t \in Thread : Remembered(t)
    BY DEF ConductorInit, Remembered
  <2>. QED BY <2>2, <2>3 DEF ConductorInit, ThreadInv
<1>3. CallInv
  <2>1. \A c \in Caller : call[c] = NoCall
    BY DEF ConductorInit
  <2>2. CallTypeOK /\ InHand
    BY <2>1, NoCallFacts DEF ConductorInit, CallTypeOK, InHand, UnderWay
  <2>3. queue = <<>> /\ told = {} /\ full = {}
    BY DEF ConductorInit
  <2>4. QueueLimit \in Nat
    BY ConductorAssumption
  <2>5. queue \in Seq(Task) /\ Len(queue) = 0 /\ DOMAIN queue = {}
    BY <2>3, EmptySeq, LenProperties
  <2>6. QueueTypeOK
    BY <2>3, <2>4, <2>5 DEF QueueTypeOK
  <2>7. QueueInv
    BY <2>3, <2>5 DEF QueueInv, InQueue
  <2>. QED BY <2>2, <2>6, <2>7 DEF CallInv
<1>. QED BY <1>1, <1>2, <1>3 DEF ConductorInv

LEMMA ConductorInvariant == ConductorSafe => []ConductorInv
<1>1. ConductorInv /\ [ConductorNext]_conductorVars => ConductorInv'
  BY ConductorStep DEF Kept
<1>. QED BY <1>1, ConductorInitially, PTL DEF ConductorSafe

\* For every set of subsystems, threads, callers and tasks, every reachable
\* state of the conductor, its wrappers and its breakers is well typed.
THEOREM ConductorTypeCorrect == ConductorSafe => []ConductorTypeOK
<1>1. ConductorInv => ConductorTypeOK
  BY DEF ConductorInv, ConductorTypeOK, WrapperInv, PacingInv, ThreadInv, ThreadRow,
         CallInv, CallTypeOK, UnderWay, QueueTypeOK
<1>. QED BY <1>1, ConductorInvariant, PTL

\* However start(), beat(), restarts, status queries and shutdown() cross, for
\* every number of threads: a wrapper neither forgets an instance that its
\* factory made nor misreports the one it has.
THEOREM WrappersKeepInstances == ConductorSafe => []InstancesKept
<1>1. ConductorInv => InstancesKept
  BY DEF ConductorInv, WrapperInv
<1>. QED BY <1>1, ConductorInvariant, PTL

\* For every order of visits and every number of threads beside it: shutdown()
\* leaves nothing alive that was alive when it was called.
THEOREM ShutdownIsComplete == ConductorSafe => []NothingSurvives
<1>1. ConductorInv => NothingSurvives
  BY DEF ConductorInv, ThreadInv, Remembered, NothingSurvives
<1>. QED BY <1>1, ConductorInvariant, PTL

\* For every limit and every number of callers: a task that spawn_agent()
\* reports as queued is in the list once until drain_queue() hands it out, unless
\* the list was full.
THEOREM QueuedTasksWaitOnce == ConductorSafe => []QueuedOnce
<1>1. ConductorInv => QueuedOnce
  <2>. SUFFICES ASSUME ConductorInv, NEW task \in Task
                PROVE  Cardinality({k \in DOMAIN queue : queue[k] = task}) = IF task \in told \ full THEN 1 ELSE 0
    BY DEF QueuedOnce
  <2>1. CASE task \in told \ full
    <3>1. PICK k \in DOMAIN queue : queue[k] = task
      BY <2>1 DEF ConductorInv, CallInv, QueueInv, InQueue
    <3>2. {l \in DOMAIN queue : queue[l] = task} = {k}
      BY <3>1 DEF ConductorInv, CallInv, QueueInv
    <3>. QED BY <2>1, <3>2, FS_Singleton
  <2>2. CASE task \notin told \ full
    <3>1. {l \in DOMAIN queue : queue[l] = task} = {}
      BY <2>2 DEF ConductorInv, CallInv, QueueInv, InQueue
    <3>. QED BY <2>2, <3>1, FS_EmptySet
  <2>. QED BY <2>1, <2>2
<1>. QED BY <1>1, ConductorInvariant, PTL

\* For every limit of the breaker and every mixture of calls, late answers and
\* status queries: a closed breaker opens only when successes_to_reopen successes
\* were reported since it closed.
THEOREM BreakersEarnReopening == ConductorSafe => ReopensOnSuccesses
<1>1. ConductorInv /\ [ConductorNext]_conductorVars =>
        [\A i \in Instance : breaker[i].state # "OPEN" /\ breaker'[i].state = "OPEN" => earned'[i] = Reopen]_breaker
  BY ConductorStep DEF Kept, EarnedSteps, Earns
<1>. QED BY <1>1, ConductorInvariant, PTL DEF ConductorSafe, ReopensOnSuccesses
===============================================================================
