------------------------ MODULE BreederDaemon_proofs ------------------------
(***************************************************************************)
(* Theorems about BreederDaemon.  For any threads that call step(): its    *)
(* types, and that they and the worker pool use the shared budget as       *)
(* ThermalBudget says, which is never overcommitted.  For a daemon alone   *)
(* in step() (the run breeder_race shows what two threads do to it): what  *)
(* it keeps of its slots, rooms and requests.  All for every number of     *)
(* rooms, slots, workers, killers, requests and crashes.                   *)
(***************************************************************************)
EXTENDS BreederDaemon, FiniteSetTheorems, WellFoundedInduction, TLAPS

OneStepper == \E w : Stepper = {w}

-----------------------------------------------------------------------------
(* Types.                                                                  *)

\* The steps in which a room, its old agent, or a child has been chosen.
WithOld == {"evicting", "vacating", "retiring"}
WithChild == {"hatched", "competing", "allocated", "placed", "rejected", "removing"}
WithRoom == WithOld \cup {"roomed", "vetted"} \cup WithChild
Label == {"idle", "selected", "dequeued", "blocked", "admitted", "gated"} \cup WithRoom

Row == [id : Nat, request : Request, parent : Agent, priority : Nat]
Job == [ticket : Row \cup {NoTicket}, room : Room \cup {None}, old : Child \cup {None},
        child : Child \cup {None}]

\* A step has read what it goes on to use.
LocalsRead ==
    \A w \in Stepper :
        /\ pc[w] # "idle" => job[w].ticket \in Row
        /\ pc[w] \in WithRoom => job[w].room \in Room
        /\ pc[w] \in WithOld => job[w].old \in Child
        /\ pc[w] \in WithChild => job[w].child \in Child

IdsUnique == \A i, j \in DOMAIN queue : queue[i].id = queue[j].id => i = j

DaemonTypeOK ==
    /\ queue \in Seq(Row) /\ IdsUnique
    /\ lifecycle \in [Child -> {None, "EGG", "COMPETE", "SUNSET"}]
    /\ rooms \in [Room -> Child \cup {None}]
    /\ cold \subseteq Room
    /\ blockedTicks \in 0 .. HysteresisTicks
    /\ pc \in [Stepper -> Label] /\ job \in [Stepper -> Job] /\ LocalsRead
    /\ requested \in 0 .. MaxRequests
    /\ children \in [Request -> SUBSET Child]
    /\ dropped \subseteq Request

SlotsTypeOK == Thermal!TypeOK /\ Pool!PoolTypeOK

-----------------------------------------------------------------------------
(* Slots and rooms, with one stepper.                                      *)

\* A child has one room, and none before it is in the lifecycle table.
OneRoomEach == \A r, s \in Room : rooms[r] = rooms[s] /\ rooms[r] # None => r = s
UnbornHoldNothing ==
    \A c \in Child : lifecycle[c] = None => RoomOf(c) = {} /\ allocations[c] = None

\* What the stepper has made sure of for the room, the old agent and the child.
Reusing ==
    \A w \in Stepper :
        /\ pc[w] \in {"evicting", "vacating"} => rooms[job[w].room] = job[w].old
        /\ pc[w] \in {"vacating", "retiring"} => allocations[job[w].old] = None
        /\ pc[w] = "retiring" => RoomOf(job[w].old) = {}
        /\ pc[w] \in {"retiring", "roomed", "vetted", "hatched", "competing", "allocated"} =>
              rooms[job[w].room] = None
        /\ pc[w] \in {"hatched", "competing", "allocated"} =>
              RoomOf(job[w].child) = {} /\ lifecycle[job[w].child] \in {"EGG", "COMPETE"}
        /\ pc[w] \in {"placed", "rejected", "removing"} => rooms[job[w].room] = job[w].child
        /\ pc[w] = "removing" => allocations[job[w].child] = None

RoomInv == OneRoomEach /\ UnbornHoldNothing /\ Reusing /\ NoSlotLeaks /\ RetiredHoldNothing

-----------------------------------------------------------------------------
(* Requests, with one stepper.                                             *)

Waiting == {queue[i].request : i \in DOMAIN queue}
Stepping == {job[w].ticket.request : w \in {v \in Stepper : pc[v] \in Unborn}}
Bred == {q \in Request : children[q] # {}}

\* A request has one row, and one child, at most; and it is in one place only.
OneRowEach == \A i, j \in DOMAIN queue : queue[i].request = queue[j].request => i = j
OneChildEach == \A q \in Request : \A c, d \in children[q] : c = d
OnePlaceEach ==
    /\ Waiting \cup Stepping \cup Bred \cup dropped = 1 .. requested
    /\ Waiting \cap (Stepping \cup Bred \cup dropped) = {}
    /\ Stepping \cap (Bred \cup dropped) = {}
    /\ Bred \cap dropped = {}

\* Between its SELECT and its UPDATE the stepper's ticket is still a row.
Selected ==
    \A w \in Stepper :
        pc[w] = "selected" => \E i \in DOMAIN queue : queue[i] = job[w].ticket

PlaceInv == OneRowEach /\ OneChildEach /\ OnePlaceEach /\ Selected

-----------------------------------------------------------------------------
(* The budget and the pool.                                                *)

Slotted == Thermal!TypeOK

LEMMA ChildrenAreAgents ==
    /\ Child \subseteq Agent /\ PoolAgent \subseteq Agent /\ None \notin Agent
    /\ Child \cap PoolAgent = {} /\ Child \subseteq Nat /\ Room \subseteq Nat /\ None \notin Room
BY DaemonAssumption DEF Child, Agent

\* release and parent_sacrifice_before_spawn take the slot of one agent.
LEMMA ReleaseShape ==
    ASSUME Slotted, NEW a \in Agent, Thermal!Release(a) \/ Thermal!ParentSacrifice(a, "gpu")
    PROVE  Slotted' /\ allocations' = [allocations EXCEPT ![a] = None]
<1>1. Thermal!Release(a)
  BY DEF Thermal!ParentSacrifice
<1>2. /\ current' = [current EXCEPT ![allocations[a]] = @ - 1]
      /\ allocations' = [allocations EXCEPT ![a] = None]
      /\ UNCHANGED <<useAuction, bidQueue, ticks>>
  BY <1>1 DEF Thermal!Release
<1>3. allocations[a] = "gpu"
  BY <1>1, ChildrenAreAgents DEF Slotted, Thermal!TypeOK, Thermal!Release
<1>4. current' \in [{"gpu"} -> Int]
  BY <1>2, <1>3 DEF Slotted, Thermal!TypeOK
<1>5. allocations' \in [Agent -> {"gpu"} \cup {None}]
  BY <1>2 DEF Slotted, Thermal!TypeOK
<1> QED
  BY <1>2, <1>4, <1>5 DEF Slotted, Thermal!TypeOK

LEMMA FreeSlotShape ==
    ASSUME Slotted, NEW a \in Agent, FreeSlot(a)
    PROVE  Slotted' /\ allocations' = [allocations EXCEPT ![a] = None]
<1>1. CASE Thermal!Release(a)
  BY <1>1, ReleaseShape
<1>2. CASE allocations[a] = None /\ UNCHANGED slotVars
  BY <1>2 DEF Slotted, Thermal!TypeOK, slotVars
<1> QED
  BY <1>1, <1>2 DEF FreeSlot

\* allocate gives a slot to one agent.
LEMMA AllocateShape ==
    ASSUME Slotted, NEW a \in Agent, Thermal!Allocate(a, "gpu")
    PROVE  Slotted' /\ allocations' = [allocations EXCEPT ![a] = "gpu"]
BY DEF Slotted, Thermal!TypeOK, Thermal!Allocate, Thermal!Take

\* The budget of the pool is that of the daemon.
LEMMA SameBudget ==
    ASSUME NEW a
    PROVE  /\ Pool!Thermal!Allocate(a, "gpu") <=> Thermal!Allocate(a, "gpu")
           /\ Pool!Thermal!Release(a) <=> Thermal!Release(a)
           /\ Pool!Thermal!ParentSacrifice(a, "gpu") <=> Thermal!ParentSacrifice(a, "gpu")
BY DEF Thermal!Allocate, Thermal!CanAllocate, Thermal!HasRoom, Thermal!Take, Thermal!Release,
       Thermal!ParentSacrifice, Thermal!SacrificeHelps, Pool!Thermal!Allocate,
       Pool!Thermal!CanAllocate, Pool!Thermal!HasRoom, Pool!Thermal!Take, Pool!Thermal!Release,
       Pool!Thermal!ParentSacrifice, Pool!Thermal!SacrificeHelps

\* The pool gives slots to its workers only, each with a record, and takes them
\* from anybody.
LEMMA PoolShape ==
    ASSUME Slotted, Pool!PoolTypeOK, Pool!PoolNext
    PROVE  /\ Slotted' /\ Pool!PoolTypeOK' /\ (Pool!WorkersHoldSlots => Pool!WorkersHoldSlots')
           /\ \A c \in Child : allocations'[c] \in {allocations[c], None}
<1> DEFINE Good == /\ Slotted' /\ Pool!PoolTypeOK' /\ (Pool!WorkersHoldSlots => Pool!WorkersHoldSlots')
                   /\ \A c \in Child : allocations'[c] \in {allocations[c], None}
<1>1. /\ allocations \in [Agent -> {"gpu", None}]
      /\ worker \in [PoolAgent -> {None, "RUNNING", "STOPPING"}]
      /\ spawning \in PoolAgent \cup {None} /\ joining \in [Killer -> PoolAgent \cup {None}]
  BY DEF Slotted, Thermal!TypeOK, Pool!PoolTypeOK
<1>2. ASSUME NEW a \in PoolAgent, Thermal!Allocate(a, "gpu"),
             worker' = [worker EXCEPT ![a] = "RUNNING"],
             spawning' \in PoolAgent \cup {None}, joining' = joining
      PROVE  Good
  <2>1. Slotted' /\ allocations' = [allocations EXCEPT ![a] = "gpu"]
    BY <1>2, AllocateShape, ChildrenAreAgents
  <2>2. Pool!PoolTypeOK'
    BY <1>1, <1>2 DEF Pool!PoolTypeOK
  <2>3. \A c \in Child : allocations'[c] = allocations[c]
    BY <1>1, <2>1, ChildrenAreAgents
  <2>4. Pool!WorkersHoldSlots => Pool!WorkersHoldSlots'
    BY <1>1, <1>2, <2>1, ChildrenAreAgents, DaemonAssumption DEF Pool!WorkersHoldSlots
  <2> QED
    BY <2>1, <2>2, <2>3, <2>4
<1>3. ASSUME NEW a \in Agent, Thermal!Release(a) \/ Thermal!ParentSacrifice(a, "gpu")
      PROVE  /\ Slotted' /\ \A c \in Child : allocations'[c] \in {allocations[c], None}
             /\ \A p \in PoolAgent : allocations'[p] # None => allocations[p] # None /\ p # a
  <2>1. Slotted' /\ allocations' = [allocations EXCEPT ![a] = None]
    BY <1>3, ReleaseShape
  <2> QED
    BY <1>1, <2>1, ChildrenAreAgents
<1>4. ASSUME UNCHANGED slotVars
      PROVE  Slotted' /\ allocations' = allocations
  BY <1>4 DEF slotVars, Slotted, Thermal!TypeOK
<1>5. ASSUME NEW a \in PoolAgent, Pool!SpawnWorker(a) PROVE Good
  BY <1>1, <1>2, <1>5, SameBudget DEF Pool!SpawnWorker
<1>6. ASSUME NEW a \in PoolAgent, NEW parent \in Agent, Pool!SacrificeFor(a, parent) PROVE Good
  BY <1>1, <1>3, <1>6, SameBudget DEF Pool!SacrificeFor, Pool!PoolTypeOK, Pool!WorkersHoldSlots
<1>7. ASSUME NEW a \in PoolAgent, NEW k \in Killer, Pool!KillWorker(k, a) PROVE Good
  <2>1. /\ UNCHANGED slotVars /\ worker' = [worker EXCEPT ![a] = "STOPPING"]
        /\ joining' = [joining EXCEPT ![k] = a] /\ spawning' = spawning
    BY <1>7 DEF Pool!KillWorker, Pool!slotVars, slotVars
  <2>2. Pool!PoolTypeOK'
    BY <1>1, <2>1 DEF Pool!PoolTypeOK
  <2>3. Pool!WorkersHoldSlots => Pool!WorkersHoldSlots'
    BY <1>1, <1>4, <2>1, DaemonAssumption DEF Pool!WorkersHoldSlots
  <2> QED
    BY <1>4, <2>1, <2>2, <2>3
<1>8. ASSUME Pool!SpawnAfterSacrifice PROVE Good
  <2>1. spawning \in PoolAgent /\ spawning' = None /\ joining' = joining
    BY <1>1, <1>8 DEF Pool!SpawnAfterSacrifice, Pool!Unlocked
  <2>2. CASE Thermal!Allocate(spawning, "gpu") /\ worker' = [worker EXCEPT ![spawning] = "RUNNING"]
    BY <1>2, <2>1, <2>2
  <2>3. CASE UNCHANGED <<slotVars, worker>>
    BY <1>1, <1>4, <2>1, <2>3 DEF Pool!PoolTypeOK, Pool!WorkersHoldSlots
  <2> QED
    BY <1>8, <2>2, <2>3, SameBudget DEF Pool!SpawnAfterSacrifice, Pool!slotVars, slotVars
<1>9. ASSUME NEW k \in Killer, Pool!ReapWorker(k) PROVE Good
  <2>1. PICK a \in PoolAgent : a = joining[k]
    BY <1>1, <1>9 DEF Pool!ReapWorker
  <2>2. worker' = [worker EXCEPT ![a] = None] /\ spawning' = spawning
        /\ joining' = [joining EXCEPT ![k] = None]
    BY <1>9, <2>1 DEF Pool!ReapWorker
  <2>3. Pool!PoolTypeOK'
    BY <1>1, <2>2 DEF Pool!PoolTypeOK
  <2>4. \/ Thermal!Release(a)
        \/ allocations[a] = None /\ UNCHANGED slotVars
    BY <1>9, <2>1, SameBudget DEF Pool!ReapWorker, Pool!slotVars, slotVars
  <2>5. /\ Slotted' /\ \A c \in Child : allocations'[c] \in {allocations[c], None}
        /\ \A p \in PoolAgent : allocations'[p] # None => allocations[p] # None /\ p # a
    BY <1>3, <1>4, <2>4, ChildrenAreAgents
  <2>6. Pool!WorkersHoldSlots => Pool!WorkersHoldSlots'
    BY <1>1, <2>2, <2>5 DEF Pool!WorkersHoldSlots
  <2> QED
    BY <2>3, <2>5, <2>6
<1> QED
  BY <1>5, <1>6, <1>7, <1>8, <1>9 DEF Pool!PoolNext

-----------------------------------------------------------------------------
(* The queue.                                                              *)

\* Every set of naturals that is not empty has a least member.
LEMMA Least ==
    ASSUME NEW S \in SUBSET Nat, S # {}
    PROVE  \E m \in S : \A j \in S : m <= j
<1> DEFINE R == OpToRel(<, Nat)
<1>1. IsWellFoundedOn(R, Nat)
  BY NatLessThanWellFounded
<1>2. \A i, j \in Nat : <<i, j>> \in R <=> i < j
  BY DEF OpToRel
<1> HIDE DEF R
<1>3. PICK m \in S : \A j \in S : ~(<<j, m>> \in R)
  BY <1>1, WFMin
<1>4. ASSUME NEW j \in S PROVE m <= j
  <2>1. m \in Nat /\ j \in Nat /\ ~(<<j, m>> \in R)
    BY <1>3
  <2>2. ~(j < m)
    BY <1>2, <2>1
  <2> QED
    BY <2>1, <2>2
<1> QED
  BY <1>4

\* An id that no row and no stepper has.
LEMMA NewIdFresh == queue \in Seq(Row) => NewId \in Nat /\ NewId \notin Held
<1> SUFFICES ASSUME queue \in Seq(Row) PROVE NewId \in Nat /\ NewId \notin Held
  OBVIOUS
<1> DEFINE k == Cardinality(Held)
           S == {id \in 1 .. k + 1 : id \notin Held}
<1>1. IsFiniteSet(Held) /\ k \in Nat
  <2>1. IsFiniteSet(DOMAIN queue)
    BY FS_Interval
  <2>2. IsFiniteSet({queue[i].id : i \in DOMAIN queue})
    <3> DEFINE ids == {queue[i].id : i \in DOMAIN queue}
               f == [i \in DOMAIN queue |-> queue[i].id]
    <3>1. f \in Surjection(DOMAIN queue, ids)
      BY DEF Surjection
    <3> QED
      BY <2>1, <3>1, FS_Surjection
  <2>3. IsFiniteSet({job[w].ticket.id : w \in Stepper})
    <3> DEFINE ids == {job[w].ticket.id : w \in Stepper}
               f == [w \in Stepper |-> job[w].ticket.id]
    <3>1. f \in Surjection(Stepper, ids)
      BY DEF Surjection
    <3> QED
      BY DaemonAssumption, <3>1, FS_Surjection
  <2>4. IsFiniteSet(Held)
    BY <2>2, <2>3, FS_Union DEF Held
  <2> QED
    BY <2>4, FS_CardinalityType
<1>2. S # {}
  <2> SUFFICES ASSUME 1 .. k + 1 \subseteq Held PROVE FALSE
    OBVIOUS
  <2>1. Cardinality(1 .. k + 1) <= k
    BY <1>1, FS_Subset
  <2>2. Cardinality(1 .. k + 1) = k + 1
    BY <1>1, FS_Interval
  <2> QED
    BY <1>1, <2>1, <2>2
<1>3. \E m \in S : \A j \in S : m <= j
  <2>1. S \in SUBSET Nat
    BY <1>1
  <2> HIDE DEF S
  <2> QED
    BY <1>2, <2>1, Least
<1>4. \E m \in 1 .. k + 1 : m \notin Held /\ \A j \in 1 .. m - 1 : j \in Held
  <2>1. PICK m \in S : \A j \in S : m <= j
    BY <1>3
  <2>2. ASSUME NEW j \in 1 .. m - 1, j \notin Held PROVE FALSE
    <3>1. j \in S
      BY <1>1, <2>2
    <3> QED
      BY <2>1, <2>2, <3>1
  <2> QED
    BY <2>1, <2>2
<1>5. NewId \in 1 .. k + 1 /\ NewId \notin Held
  BY <1>4 DEF NewId
<1> QED
  BY <1>1, <1>5

\* The UPDATE takes the row of its id away, and no other.
LEMMA UnprocessedShape ==
    ASSUME queue \in Seq(Row), IdsUnique, NEW id
    PROVE  /\ Unprocessed(id) \in Seq(Row)
           /\ \E f \in [DOMAIN Unprocessed(id) -> DOMAIN queue] :
                 /\ \A j \in DOMAIN Unprocessed(id) :
                       Unprocessed(id)[j] = queue[f[j]] /\ queue[f[j]].id # id
                 /\ \A j, k \in DOMAIN Unprocessed(id) : f[j] = f[k] => j = k
                 /\ \A i \in DOMAIN queue :
                       queue[i].id # id => \E j \in DOMAIN Unprocessed(id) : f[j] = i
<1>1. CASE \A i \in DOMAIN queue : queue[i].id # id
  <2>1. Unprocessed(id) = queue
    BY <1>1 DEF Unprocessed
  <2> DEFINE f == [j \in DOMAIN queue |-> j]
  <2>2. f \in [DOMAIN queue -> DOMAIN queue]
    OBVIOUS
  <2> QED
    BY <1>1, <2>1, <2>2
<1>2. CASE \E i \in DOMAIN queue : queue[i].id = id
  <2>1. PICK i \in DOMAIN queue :
           /\ queue[i].id = id
           /\ Unprocessed(id) = SubSeq(queue, 1, i - 1) \o SubSeq(queue, i + 1, Len(queue))
    BY <1>2 DEF Unprocessed
  <2>2. PICK n \in Nat : n = Len(queue) /\ DOMAIN queue = 1 .. n /\ i \in 1 .. n
    OBVIOUS
  <2>3. PICK u : u = Unprocessed(id)
    OBVIOUS
  <2>4. /\ u \in Seq(Row) /\ Len(u) = n - 1 /\ DOMAIN u = 1 .. n - 1
        /\ \A j \in 1 .. n - 1 : u[j] = queue[IF j < i THEN j ELSE j + 1]
    <3>1. PICK a : a = SubSeq(queue, 1, i - 1)
      OBVIOUS
    <3>2. PICK b : b = SubSeq(queue, i + 1, n)
      OBVIOUS
    <3> HIDE DEF Row
    <3>3. a \in Seq(Row) /\ Len(a) = i - 1 /\ \A j \in 1 .. i - 1 : a[j] = queue[j]
      BY <2>2, <3>1
    <3>4. b \in Seq(Row) /\ Len(b) = n - i /\ \A j \in 1 .. n - i : b[j] = queue[i + j]
      BY <2>2, <3>2
    <3>5. u = a \o b
      BY <2>1, <2>2, <2>3, <3>1, <3>2
    <3>6. u \in Seq(Row) /\ Len(u) = n - 1 /\ DOMAIN u = 1 .. n - 1
      BY <2>2, <3>3, <3>4, <3>5
    <3>7. ASSUME NEW j \in 1 .. n - 1 PROVE u[j] = queue[IF j < i THEN j ELSE j + 1]
      <4>1. CASE j < i
        BY <2>2, <3>3, <3>4, <3>5, <4>1
      <4>2. CASE j >= i
        <5>1. u[j] = b[j - (i - 1)]
          BY <2>2, <3>3, <3>4, <3>5, <4>2
        <5>2. j - (i - 1) \in 1 .. n - i /\ i + (j - (i - 1)) = j + 1
          BY <2>2, <4>2
        <5>3. b[j - (i - 1)] = queue[j + 1]
          <6> DEFINE h == j - (i - 1)
          <6>1. h \in 1 .. n - i /\ i + h = j + 1
            BY <5>2
          <6> HIDE DEF h
          <6>2. b[h] = queue[i + h]
            BY <3>4, <6>1
          <6> QED
            BY <6>1, <6>2 DEF h
        <5> QED
          BY <2>2, <4>2, <5>1, <5>3
      <4> QED
        BY <2>2, <4>1, <4>2
    <3> QED
      BY <3>6, <3>7
  <2> DEFINE f == [j \in 1 .. n - 1 |-> IF j < i THEN j ELSE j + 1]
  <2>5. f \in [1 .. n - 1 -> 1 .. n]
    BY <2>2
  <2>6. \A j \in 1 .. n - 1 : u[j] = queue[f[j]] /\ f[j] # i /\ f[j] \in DOMAIN queue
    BY <2>2, <2>4
  <2>7. \A j, k \in 1 .. n - 1 : f[j] = f[k] => j = k
    BY <2>2
  <2>8. ASSUME NEW m \in 1 .. n, m # i PROVE \E j \in 1 .. n - 1 : f[j] = m
    <3>1. CASE m < i
      BY <2>2, <3>1
    <3>2. CASE m > i
      <4>1. m - 1 \in 1 .. n - 1 /\ f[m - 1] = m
        BY <2>2, <3>2
      <4> QED
        BY <4>1
    <3> QED
      BY <2>2, <2>8, <3>1, <3>2
  <2>9. \A m \in DOMAIN queue : queue[m].id = id <=> m = i
    BY <2>1 DEF IdsUnique
  <2> HIDE DEF f
  <2> QED
    BY <2>2, <2>3, <2>4, <2>5, <2>6, <2>7, <2>8, <2>9
<1> QED
  BY <1>1, <1>2

\* A row is put at the end.
LEMMA EnqueueShape ==
    ASSUME queue \in Seq(Row), IdsUnique, NEW q \in Request, NEW p \in Agent, NEW k \in Nat,
           Enqueue(q, p, k)
    PROVE  /\ \E row \in Row : row.request = q /\ queue' = Append(queue, row)
           /\ queue' \in Seq(Row) /\ IdsUnique'
<1>1. PICK row : row = [id |-> NewId, request |-> q, parent |-> p, priority |-> k]
  OBVIOUS
<1>2. /\ row \in Row /\ row.request = q /\ row.id = NewId
      /\ \A i \in DOMAIN queue : queue[i].id # row.id
  BY <1>1, NewIdFresh DEF Row, Held
<1>3. queue' = Append(queue, row)
  BY <1>1 DEF Enqueue
<1> HIDE DEF Row
<1>4. queue' \in Seq(Row) /\ DOMAIN queue' = 1 .. Len(queue) + 1 /\ DOMAIN queue = 1 .. Len(queue)
      /\ Len(queue) \in Nat
      /\ \A i \in DOMAIN queue : queue'[i] = queue[i]
      /\ queue'[Len(queue) + 1] = row
  BY <1>2, <1>3
<1>5. IdsUnique'
  <2> SUFFICES ASSUME NEW i \in DOMAIN queue', NEW j \in DOMAIN queue', queue'[i].id = queue'[j].id
               PROVE  i = j
    BY DEF IdsUnique
  <2>1. CASE i \in DOMAIN queue /\ j \in DOMAIN queue
    BY <1>4, <2>1 DEF IdsUnique
  <2>2. CASE i \in DOMAIN queue /\ j = Len(queue) + 1
    BY <1>2, <1>4, <2>2
  <2>3. CASE i = Len(queue) + 1 /\ j \in DOMAIN queue
    BY <1>2, <1>4, <2>3
  <2> QED
    BY <1>4, <2>1, <2>2, <2>3
<1> QED
  BY <1>2, <1>3, <1>4, <1>5

\* Among finitely many priorities there is a first of the highest.
LEMMA SomeFirst ==
    ASSUME NEW n \in Nat, n >= 1, NEW p \in [1 .. n -> Nat]
    PROVE  \E i \in 1 .. n : \A j \in 1 .. n : p[j] < p[i] \/ (p[j] = p[i] /\ i <= j)
<1> DEFINE HasFirst(m) == \E i \in 1 .. m : \A j \in 1 .. m : p[j] < p[i] \/ (p[j] = p[i] /\ i <= j)
           S == {m \in 1 .. n : ~HasFirst(m)}
<1>3. S \in SUBSET Nat /\ S \subseteq 1 .. n
  OBVIOUS
<1>4. SUFFICES ASSUME S # {} PROVE FALSE
  <2>1. n \in 1 .. n
    OBVIOUS
  <2>2. S = {} => HasFirst(n)
    BY <2>1
  <2> QED
    BY <2>2
<1>5. PICK m \in S : \A k \in S : m <= k
  <2> HIDE DEF S
  <2> QED
    BY <1>3, <1>4, Least
<1>6. m \in 1 .. n /\ ~HasFirst(m)
  OBVIOUS
<1>7. CASE m = 1
  <2>1. \A j \in 1 .. 1 : j = 1
    OBVIOUS
  <2>2. HasFirst(1)
    BY <2>1
  <2> QED
    BY <1>6, <1>7, <2>2
<1>8. CASE m # 1
  <2>1. m - 1 \in Nat /\ m \in Nat /\ m - 1 < m /\ m - 1 \in 1 .. n
    BY <1>6, <1>8
  <2>2. m - 1 \notin S
    <3> HIDE DEF S
    <3> QED
      BY <1>5, <2>1
  <2>3. PICK i \in 1 .. m - 1 : \A j \in 1 .. m - 1 : p[j] < p[i] \/ (p[j] = p[i] /\ i <= j)
    BY <2>1, <2>2
  <2>4. /\ \A j \in 1 .. m : j \in 1 .. m - 1 \/ j = m
        /\ \A j \in 1 .. m : j \in 1 .. n /\ p[j] \in Nat
        /\ m \in 1 .. m /\ i \in 1 .. m /\ p[m] \in Nat /\ p[i] \in Nat
    BY <2>1
  <2>5. CASE p[m] <= p[i]
    <3>1. \A j \in 1 .. m : p[j] < p[i] \/ (p[j] = p[i] /\ i <= j)
      <4> SUFFICES ASSUME NEW j \in 1 .. m PROVE p[j] < p[i] \/ (p[j] = p[i] /\ i <= j)
        OBVIOUS
      <4>1. CASE j \in 1 .. m - 1
        BY <2>3, <4>1
      <4>2. CASE j = m
        BY <2>4, <2>5, <4>2
      <4> QED
        BY <2>4, <4>1, <4>2
    <3> QED
      BY <1>6, <2>4, <3>1
  <2>6. CASE p[i] < p[m]
    <3>1. \A j \in 1 .. m : p[j] < p[m] \/ (p[j] = p[m] /\ m <= j)
      <4> SUFFICES ASSUME NEW j \in 1 .. m PROVE p[j] < p[m] \/ (p[j] = p[m] /\ m <= j)
        OBVIOUS
      <4>1. CASE j \in 1 .. m - 1
        BY <2>3, <2>4, <2>6, <4>1
      <4>2. CASE j = m
        BY <2>1, <4>2
      <4> QED
        BY <2>4, <4>1, <4>2
    <3> QED
      BY <1>6, <2>4, <3>1
  <2> QED
    BY <2>4, <2>5, <2>6
<1> QED
  BY <1>7, <1>8

\* The SELECT finds a row if there is one.
LEMMA FirstShape == queue \in Seq(Row) /\ queue # <<>> => First \in DOMAIN queue
<1> SUFFICES ASSUME queue \in Seq(Row), queue # <<>> PROVE First \in DOMAIN queue
  OBVIOUS
<1>1. PICK n \in Nat : n = Len(queue)
  OBVIOUS
<1>2. n >= 1 /\ DOMAIN queue = 1 .. n /\ \A i \in 1 .. n : queue[i] \in Row
  BY <1>1
<1> DEFINE p == [i \in 1 .. n |-> queue[i].priority]
<1>3. p \in [1 .. n -> Nat]
  BY <1>2 DEF Row
<1>4. \E i \in 1 .. n : \A j \in 1 .. n : p[j] < p[i] \/ (p[j] = p[i] /\ i <= j)
  <2> HIDE DEF p
  <2> QED
    BY <1>2, <1>3, SomeFirst
<1>5. \E i \in DOMAIN queue : \A j \in DOMAIN queue :
         \/ queue[j].priority < queue[i].priority
         \/ queue[j].priority = queue[i].priority /\ i <= j
  BY <1>2, <1>4
<1> QED
  BY <1>5 DEF First

\* The rooms are numbered, so the first cold one is defined.
LEMMA ColdestShape == cold \subseteq Room /\ cold # {} => Coldest \in cold
BY Least, ChildrenAreAgents DEF Coldest

-----------------------------------------------------------------------------
(* A step of a stepper.                                                    *)

\* w goes to l with the locals j, and what is used at l has been read.
Move(w, l, j) ==
    /\ pc' = [pc EXCEPT ![w] = l] /\ job' = [job EXCEPT ![w] = j]
    /\ l \in Label /\ j \in Job
    /\ l # "idle" => j.ticket \in Row
    /\ l \in WithRoom => j.room \in Room
    /\ l \in WithOld => j.old \in Child
    /\ l \in WithChild => j.child \in Child

\* What becomes of the ticket in the step.
Selects(w, l, j) ==
    /\ pc[w] = "idle" /\ l = "selected" /\ \E i \in DOMAIN queue : j.ticket = queue[i]
    /\ UNCHANGED <<queue, fateVars>>
Takes(w, l, j) ==
    /\ pc[w] = "selected" /\ l = "dequeued" /\ j.ticket = job[w].ticket
    /\ queue' = Unprocessed(job[w].ticket.id)
    /\ UNCHANGED fateVars
GoesOn(w, l, j) ==
    /\ pc[w] \in Unborn /\ l \in Unborn /\ j.ticket = job[w].ticket
    /\ UNCHANGED <<queue, fateVars>>
PutsBack(w, l, j) ==
    /\ pc[w] \in Unborn /\ l = "idle"
    /\ \E row \in Row : row.request = job[w].ticket.request /\ queue' = Append(queue, row)
    /\ IdsUnique' /\ queue' \in Seq(Row)
    /\ UNCHANGED fateVars
Loses(w, l, j) ==
    /\ pc[w] \in Unborn /\ l = "idle"
    /\ dropped' = dropped \cup {job[w].ticket.request}
    /\ UNCHANGED <<queue, children>>
Breeds(w, l, j) ==
    /\ pc[w] = "vetted" /\ l = "hatched" /\ j.ticket = job[w].ticket
    /\ children' = [children EXCEPT ![job[w].ticket.request] = @ \cup {j.child}]
    /\ UNCHANGED <<queue, dropped>>
IsDone(w, l, j) ==
    /\ pc[w] \notin Unborn /\ l \notin Unborn \cup {"selected"}
    /\ UNCHANGED <<queue, fateVars>>

Fate(w, l, j) ==
    \/ Selects(w, l, j) \/ Takes(w, l, j) \/ GoesOn(w, l, j) \/ PutsBack(w, l, j)
    \/ Loses(w, l, j) \/ Breeds(w, l, j) \/ IsDone(w, l, j)

LEMMA LabelOf ==
    ASSUME DaemonTypeOK, NEW w \in Stepper
    PROVE  /\ pc[w] \in Label /\ job[w] \in Job /\ Unborn \subseteq Label /\ "idle" \notin Unborn
           /\ pc[w] \in Unborn => /\ job[w].ticket \in Row /\ job[w].ticket.request \in Request
                                  /\ job[w].ticket.parent \in Agent
                                  /\ job[w].ticket.priority \in Nat
BY DEF DaemonTypeOK, LocalsRead, Label, Unborn, WithRoom, WithOld, WithChild, Row

LEMMA NoJobType == NoJob \in Job
BY DEF NoJob, Job

\* The step ends, with nothing in hand.
LEMMA DoneMoves ==
    ASSUME DaemonTypeOK, NEW w \in Stepper, Done(w)
    PROVE  Move(w, "idle", NoJob)
BY NoJobType DEF Done, Move, Label, WithRoom, WithOld, WithChild

\* A step that only goes on keeps its locals.
LEMMA GotoMoves ==
    ASSUME DaemonTypeOK, NEW w \in Stepper, NEW l \in Label, Goto(w, l), job' = job,
           pc[w] # "idle",
           l \in WithRoom => job[w].room \in Room,
           l \in WithOld => job[w].old \in Child,
           l \in WithChild => job[w].child \in Child
    PROVE  Move(w, l, job[w])
BY DEF DaemonTypeOK, LocalsRead, Goto, Move

LEMMA DropLoses ==
    ASSUME DaemonTypeOK, NEW w \in Stepper, pc[w] \in Unborn, Drop(w), UNCHANGED <<queue, children>>
    PROVE  Move(w, "idle", NoJob) /\ Loses(w, "idle", NoJob)
BY DoneMoves DEF Drop, Loses

LEMMA RequeueMoves ==
    ASSUME DaemonTypeOK, NEW w \in Stepper, pc[w] \in Unborn, NEW k \in Nat, Requeue(w, k),
           UNCHANGED children
    PROVE  /\ Move(w, "idle", NoJob)
           /\ PutsBack(w, "idle", NoJob) \/ Loses(w, "idle", NoJob)
<1>1. CASE Drop(w) /\ UNCHANGED queue
  BY <1>1, DropLoses
<1>2. CASE /\ Enqueue(job[w].ticket.request, job[w].ticket.parent, k)
           /\ Done(w) /\ UNCHANGED dropped
  <2>1. /\ \E row \in Row : row.request = job[w].ticket.request /\ queue' = Append(queue, row)
        /\ queue' \in Seq(Row) /\ IdsUnique'
    BY <1>2, LabelOf, EnqueueShape DEF DaemonTypeOK
  <2> QED
    BY <1>2, <2>1, DoneMoves DEF PutsBack, fateVars
<1> QED
  BY <1>1, <1>2 DEF Requeue

\* What a step reads into its locals.
LEMMA JobShape ==
    \E T : /\ Job = [ticket : T, room : Room \cup {None}, old : Child \cup {None}, child : Child \cup {None}]
          /\ \A t \in Row : t \in T
BY DEF Job

LEMMA TicketRead ==
    ASSUME NEW b \in Job, NEW t \in Row, NEW n, n = [b EXCEPT !.ticket = t]
    PROVE  n \in Job /\ n.ticket = t
<1>1. PICK T : /\ Job = [ticket : T, room : Room \cup {None}, old : Child \cup {None},
                        child : Child \cup {None}]
               /\ \A u \in Row : u \in T
  BY JobShape
<1> QED
  BY <1>1

LEMMA ChildRead ==
    ASSUME NEW b \in Job, NEW c \in Child, NEW n, n = [b EXCEPT !.child = c]
    PROVE  n \in Job /\ n.ticket = b.ticket /\ n.room = b.room /\ n.child = c
<1>1. PICK T : /\ Job = [ticket : T, room : Room \cup {None}, old : Child \cup {None},
                        child : Child \cup {None}]
               /\ \A u \in Row : u \in T
  BY JobShape
<1> QED
  BY <1>1

\* Every step of a stepper moves it, and does one thing to its ticket.
LEMMA StepFate ==
    ASSUME DaemonTypeOK, NEW w \in Stepper, Step(w)
    PROVE  \E l \in Label, j \in Job : Move(w, l, j) /\ Fate(w, l, j)
<1> DEFINE Good == \E l \in Label, j \in Job : Move(w, l, j) /\ Fate(w, l, j)
<1> SUFFICES Good
  OBVIOUS
<1>1. /\ pc[w] \in Label /\ job[w] \in Job /\ "idle" \in Label /\ NoJob \in Job
      /\ pc[w] # "idle" => job[w].ticket \in Row
      /\ pc[w] \in WithRoom => job[w].room \in Room
      /\ pc[w] \in WithOld => job[w].old \in Child
      /\ pc[w] \in WithChild => job[w].child \in Child
      /\ pc[w] \in Unborn => job[w].ticket.request \in Request /\ job[w].ticket.priority \in Nat
  BY LabelOf, NoJobType DEF DaemonTypeOK, LocalsRead, Label
<1> PICK b \in Job : b = job[w]
  BY <1>1
<1>2. ASSUME NEW l \in Label, Goto(w, l), job' = job, UNCHANGED <<queue, fateVars>>, pc[w] # "idle",
             l \in WithRoom => job[w].room \in Room,
             l \in WithOld => job[w].old \in Child,
             l \in WithChild => job[w].child \in Child,
             \/ pc[w] \in Unborn /\ l \in Unborn
             \/ pc[w] \notin Unborn /\ l \notin Unborn \cup {"selected"}
      PROVE  Good
  BY <1>1, <1>2, GotoMoves DEF Fate, GoesOn, IsDone
<1>3. ASSUME pc[w] \in Unborn, Drop(w), UNCHANGED <<queue, children>> PROVE Good
  BY <1>1, <1>3, DropLoses DEF Fate
<1>4. ASSUME pc[w] \in Unborn, NEW k \in Nat, Requeue(w, k), UNCHANGED children PROVE Good
  BY <1>1, <1>4, RequeueMoves DEF Fate
<1>5. ASSUME pc[w] \notin Unborn, Done(w), UNCHANGED <<queue, fateVars>> PROVE Good
  BY <1>1, <1>5, DoneMoves DEF Fate, IsDone, Unborn
<1>6. ASSUME SelectTicket(w) PROVE Good
  <2>1. PICK row \in Row : row = queue[First] /\ \E i \in DOMAIN queue : row = queue[i]
    BY <1>6, FirstShape DEF SelectTicket, DaemonTypeOK
  <2>2. PICK j : j = [b EXCEPT !.ticket = row]
    OBVIOUS
  <2>5. j \in Job /\ j.ticket = row
    BY <2>1, <2>2, TicketRead
  <2>3. Move(w, "selected", j)
    BY <1>6, <2>1, <2>2, <2>5 DEF SelectTicket, Goto, Move, Label, WithRoom, WithOld, WithChild,
                            DaemonTypeOK
  <2>4. Selects(w, "selected", j)
    BY <1>6, <2>1, <2>2, <2>5 DEF SelectTicket, Selects, fateVars
  <2> QED
    BY <2>3, <2>4, <2>5 DEF Fate, Label
<1>7. ASSUME MarkProcessed(w) PROVE Good
  <2>1. Move(w, "dequeued", job[w])
    BY <1>1, <1>7, GotoMoves DEF MarkProcessed, Label, WithRoom, WithOld, WithChild
  <2>2. Takes(w, "dequeued", job[w])
    BY <1>7 DEF MarkProcessed, Takes
  <2> QED
    BY <1>1, <2>1, <2>2 DEF Fate, Label
<1>8. ASSUME AbortTicket(w) PROVE Good
  BY <1>3, <1>8 DEF AbortTicket, Unborn
<1>9. ASSUME CheckThermal(w) PROVE Good
  <2>1. CASE Goto(w, "admitted") /\ UNCHANGED <<queue, job, dropped>>
    BY <1>1, <1>2, <1>9, <2>1 DEF CheckThermal, Unborn, Label, WithRoom, WithOld, WithChild, fateVars
  <2>2. CASE Requeue(w, job[w].ticket.priority)
    BY <1>1, <1>4, <1>9, <2>2 DEF CheckThermal, Unborn
  <2>3. CASE Goto(w, "blocked") /\ UNCHANGED <<queue, job, dropped>>
    BY <1>1, <1>2, <1>9, <2>3 DEF CheckThermal, Unborn, Label, WithRoom, WithOld, WithChild, fateVars
  <2> QED
    BY <1>9, <2>1, <2>2, <2>3 DEF CheckThermal
<1>10. ASSUME SacrificeParent(w) PROVE Good
  <2>1. CASE Goto(w, "admitted") /\ UNCHANGED <<queue, job, dropped>>
    BY <1>1, <1>2, <1>10, <2>1 DEF SacrificeParent, Unborn, Label, WithRoom, WithOld, WithChild, fateVars
  <2>2. CASE Requeue(w, job[w].ticket.priority)
    BY <1>1, <1>4, <1>10, <2>2 DEF SacrificeParent, Unborn
  <2> QED
    BY <1>10, <2>1, <2>2 DEF SacrificeParent
<1>11. ASSUME GateParent(w) PROVE Good
  <2>1. CASE Goto(w, "gated") /\ UNCHANGED <<queue, job, dropped>>
    BY <1>1, <1>2, <1>11, <2>1 DEF GateParent, Unborn, Label, WithRoom, WithOld, WithChild, fateVars
  <2>2. CASE Requeue(w, job[w].ticket.priority)
    BY <1>1, <1>4, <1>11, <2>2 DEF GateParent, Unborn
  <2> QED
    BY <1>11, <2>1, <2>2 DEF GateParent
<1>12. ASSUME PickRoom(w) PROVE Good
  <2>1. CASE Requeue(w, job[w].ticket.priority)
    BY <1>1, <1>4, <1>12, <2>1 DEF PickRoom, Unborn
  <2>2. CASE /\ cold # {} /\ job' = [job EXCEPT ![w].room = Coldest, ![w].old = rooms[Coldest]]
             /\ Goto(w, IF rooms[Coldest] = None THEN "roomed" ELSE "evicting")
             /\ UNCHANGED <<queue, dropped>>
    <3>1. PICK r \in Room : r = Coldest
      BY <2>2, ColdestShape DEF DaemonTypeOK
    <3>2. PICK a \in Child \cup {None} : a = rooms[r]
      BY DEF DaemonTypeOK
    <3>3. PICK l \in {"roomed", "evicting"} : /\ l = IF a = None THEN "roomed" ELSE "evicting"
                                              /\ l = "evicting" => a \in Child
      OBVIOUS
    <3>8. PICK T : /\ Job = [ticket : T, room : Room \cup {None}, old : Child \cup {None},
                            child : Child \cup {None}]
                   /\ \A u \in Row : u \in T
      BY JobShape
    <3>4. PICK j : j = [b EXCEPT !.room = r, !.old = a]
      OBVIOUS
    <3>7. j \in Job /\ j.ticket = b.ticket /\ j.room = r /\ j.old = a
      BY <3>4, <3>8
    <3>5. Move(w, l, j)
      BY <1>1, <1>12, <2>2, <3>1, <3>2, <3>3, <3>4, <3>7
         DEF PickRoom, Goto, Move, Label, WithRoom, WithOld, WithChild, DaemonTypeOK
    <3>6. GoesOn(w, l, j)
      BY <1>12, <2>2, <3>3, <3>7 DEF PickRoom, GoesOn, Unborn, fateVars
    <3> QED
      BY <3>3, <3>5, <3>6, <3>7 DEF Fate, Move
  <2> QED
    BY <1>12, <2>1, <2>2 DEF PickRoom
<1>13. ASSUME EvictAgent(w) PROVE Good
  BY <1>1, <1>2, <1>13 DEF EvictAgent, Unborn, Label, WithRoom, WithOld, WithChild, fateVars
<1>14. ASSUME VacateRoom(w) PROVE Good
  <2>1. CASE Goto(w, "retiring") /\ UNCHANGED <<job, dropped>>
    BY <1>1, <1>2, <1>14, <2>1 DEF VacateRoom, Unborn, Label, WithRoom, WithOld, WithChild, fateVars
  <2>2. CASE Drop(w)
    BY <1>3, <1>14, <2>2 DEF VacateRoom, Unborn
  <2> QED
    BY <1>14, <2>1, <2>2 DEF VacateRoom
<1>15. ASSUME RetireAgent(w) PROVE Good
  BY <1>1, <1>2, <1>15 DEF RetireAgent, Unborn, Label, WithRoom, WithOld, WithChild, fateVars
<1>16. ASSUME CheckPathA(w) PROVE Good
  <2>1. CASE Goto(w, "vetted") /\ UNCHANGED <<queue, job, dropped>>
    BY <1>1, <1>2, <1>16, <2>1 DEF CheckPathA, Unborn, Label, WithRoom, WithOld, WithChild, fateVars
  <2>2. PICK k : k = IF job[w].ticket.priority = 0 THEN 0 ELSE job[w].ticket.priority - 1
    OBVIOUS
  <2>3. CASE Requeue(w, k)
    <3>1. pc[w] \in Unborn /\ k \in Nat
      BY <1>1, <1>16, <2>2 DEF CheckPathA, Unborn
    <3> QED
      BY <1>4, <1>16, <2>3, <3>1 DEF CheckPathA
  <2> QED
    BY <1>16, <2>1, <2>2, <2>3 DEF CheckPathA
<1>17. ASSUME PlaceEgg(w) PROVE Good
  <2>1. PICK c \in Child :
           /\ job' = [job EXCEPT ![w].child = c]
           /\ children' = [children EXCEPT ![job[w].ticket.request] = @ \cup {c}]
    <3> DEFINE fresh == {c \in Child : lifecycle[c] = None}
    <3>1. fresh # {} /\ fresh \in SUBSET Nat
      BY <1>17, ChildrenAreAgents DEF PlaceEgg
    <3>2. \E c \in fresh : \A d \in fresh : c <= d
      <4> HIDE DEF fresh
      <4> QED
        BY <3>1, Least
    <3>3. (CHOOSE c \in fresh : \A d \in fresh : c <= d) \in Child
      BY <3>2
    <3> QED
      BY <1>17, <3>3 DEF PlaceEgg
  <2>2. PICK j : j = [b EXCEPT !.child = c]
    OBVIOUS
  <2>5. j \in Job /\ j.ticket = b.ticket /\ j.room = b.room /\ j.child = c
    BY <2>1, <2>2, ChildRead
  <2>3. Move(w, "hatched", j)
    BY <1>1, <1>17, <2>1, <2>2, <2>5
       DEF PlaceEgg, Goto, Move, Label, WithRoom, WithOld, WithChild, DaemonTypeOK
  <2>4. Breeds(w, "hatched", j)
    BY <1>17, <2>1, <2>5 DEF PlaceEgg, Breeds
  <2> QED
    BY <2>3, <2>4, <2>5 DEF Fate, Move
<1>18. ASSUME Compete(w) PROVE Good
  BY <1>1, <1>2, <1>18 DEF Compete, Unborn, Label, WithRoom, WithOld, WithChild
<1>19. ASSUME AllocateSlot(w) PROVE Good
  BY <1>1, <1>2, <1>19 DEF AllocateSlot, Unborn, Label, WithRoom, WithOld, WithChild
<1>20. ASSUME OccupyRoom(w) PROVE Good
  BY <1>1, <1>2, <1>20 DEF OccupyRoom, Unborn, Label, WithRoom, WithOld, WithChild
<1>21. ASSUME CheckLineage(w) PROVE Good
  <2>1. CASE Done(w)
    BY <1>5, <1>21, <2>1 DEF CheckLineage, Unborn
  <2>2. CASE Goto(w, "rejected") /\ job' = job
    BY <1>1, <1>2, <1>21, <2>2 DEF CheckLineage, Unborn, Label, WithRoom, WithOld, WithChild
  <2> QED
    BY <1>21, <2>1, <2>2 DEF CheckLineage
<1>22. ASSUME RejectChild(w) PROVE Good
  BY <1>1, <1>2, <1>22 DEF RejectChild, Unborn, Label, WithRoom, WithOld, WithChild
<1>23. ASSUME RemoveChild(w) PROVE Good
  BY <1>5, <1>23 DEF RemoveChild, Unborn
<1>24. ASSUME WriteFails(w) PROVE Good
  <2>1. CASE pc[w] \in Unborn
    BY <1>3, <1>24, <2>1 DEF WriteFails, Drop
  <2>2. CASE pc[w] \notin Unborn
    BY <1>5, <1>24, <2>2 DEF WriteFails, fateVars
  <2> QED
    BY <2>1, <2>2
<1> HIDE DEF Good
<1> QED
  BY <1>6, <1>7, <1>8, <1>9, <1>10, <1>11, <1>12, <1>13, <1>14, <1>15, <1>16, <1>17, <1>18,
     <1>19, <1>20, <1>21, <1>22, <1>23, <1>24 DEF Step

-----------------------------------------------------------------------------
(* Type correctness.                                                       *)

LEMMA InitTyped == Init => DaemonTypeOK /\ SlotsTypeOK
<1> SUFFICES ASSUME Init PROVE DaemonTypeOK /\ SlotsTypeOK
  OBVIOUS
<1>1. queue \in Seq(Row) /\ IdsUnique
  BY DEF Init, IdsUnique
<1>2. pc \in [Stepper -> Label] /\ job \in [Stepper -> Job] /\ LocalsRead
  BY NoJobType DEF Init, LocalsRead, Label, WithRoom, WithOld, WithChild
<1>3. SlotsTypeOK
  BY DEF Init, SlotsTypeOK, Thermal!BudgetInit, Thermal!TypeOK, Pool!PoolInit, Pool!PoolTypeOK
<1> QED
  BY <1>1, <1>2, <1>3, DaemonAssumption DEF Init, DaemonTypeOK

\* A step leaves the queue, the locals and the fates well typed.
LEMMA FateTyped ==
    ASSUME DaemonTypeOK, NEW w \in Stepper, NEW l \in Label, NEW j \in Job, Move(w, l, j), Fate(w, l, j)
    PROVE  /\ queue' \in Seq(Row) /\ IdsUnique'
           /\ pc' \in [Stepper -> Label] /\ job' \in [Stepper -> Job] /\ LocalsRead'
           /\ children' \in [Request -> SUBSET Child] /\ dropped' \subseteq Request
<1>1. pc' \in [Stepper -> Label] /\ job' \in [Stepper -> Job] /\ LocalsRead'
  BY DEF DaemonTypeOK, Move, LocalsRead
<1>2. /\ pc[w] \in Unborn => job[w].ticket.request \in Request
      /\ queue \in Seq(Row) /\ IdsUnique
      /\ children \in [Request -> SUBSET Child] /\ dropped \subseteq Request
  BY LabelOf DEF DaemonTypeOK
<1>3. ASSUME UNCHANGED queue PROVE queue' \in Seq(Row) /\ IdsUnique'
  BY <1>2, <1>3 DEF IdsUnique
<1>4. ASSUME UNCHANGED fateVars
      PROVE  children' \in [Request -> SUBSET Child] /\ dropped' \subseteq Request
  BY <1>2, <1>4 DEF fateVars
<1>5. CASE Takes(w, l, j)
  <2>1. PICK id : id = job[w].ticket.id
    OBVIOUS
  <2>5. PICK u : u = Unprocessed(id)
    OBVIOUS
  <2>2. /\ u \in Seq(Row)
        /\ \E f \in [DOMAIN u -> DOMAIN queue] :
              /\ \A i \in DOMAIN u : u[i] = queue[f[i]]
              /\ \A i, k \in DOMAIN u : f[i] = f[k] => i = k
    BY <1>2, <2>5, UnprocessedShape
  <2>3. queue' = u
    BY <1>5, <2>1, <2>5 DEF Takes
  <2>4. IdsUnique'
    BY <1>2, <2>2, <2>3 DEF IdsUnique
  <2> QED
    BY <1>1, <1>4, <1>5, <2>2, <2>3, <2>4 DEF Takes
<1>6. CASE PutsBack(w, l, j)
  BY <1>1, <1>4, <1>6 DEF PutsBack
<1>7. CASE Loses(w, l, j)
  BY <1>1, <1>2, <1>3, <1>7 DEF Loses
<1>8. CASE Breeds(w, l, j)
  <2>1. pc[w] \in Unborn /\ j.child \in Child
    BY <1>8 DEF Breeds, Unborn, Move, WithChild
  <2> QED
    BY <1>1, <1>2, <1>3, <1>8, <2>1 DEF Breeds
<1>9. CASE Selects(w, l, j) \/ GoesOn(w, l, j) \/ IsDone(w, l, j)
  BY <1>1, <1>3, <1>4, <1>9 DEF Selects, GoesOn, IsDone
<1> QED
  BY <1>5, <1>6, <1>7, <1>8, <1>9 DEF Fate

\* A step leaves the other tables well typed.
LEMMA TablesTyped ==
    ASSUME DaemonTypeOK, NEW w \in Stepper, Step(w)
    PROVE  /\ lifecycle' \in [Child -> {None, "EGG", "COMPETE", "SUNSET"}]
           /\ rooms' \in [Room -> Child \cup {None}]
           /\ cold' \subseteq Room /\ blockedTicks' \in 0 .. HysteresisTicks /\ requested' = requested
<1>1. /\ lifecycle \in [Child -> {None, "EGG", "COMPETE", "SUNSET"}]
      /\ rooms \in [Room -> Child \cup {None}]
      /\ cold \subseteq Room /\ blockedTicks \in 0 .. HysteresisTicks
      /\ pc[w] \in WithRoom => job[w].room \in Room
      /\ pc[w] \in WithChild => job[w].child \in Child
  BY DEF DaemonTypeOK, LocalsRead
<1>2. /\ "hatched" \in WithRoom /\ "allocated" \in WithRoom /\ "allocated" \in WithChild
  BY DEF WithRoom, WithChild
<1>3. CASE \/ SelectTicket(w) \/ MarkProcessed(w) \/ AbortTicket(w)
           \/ GateParent(w) \/ PickRoom(w) \/ EvictAgent(w) \/ CheckPathA(w) \/ AllocateSlot(w)
           \/ RejectChild(w)
  BY <1>1, <1>3 DEF SelectTicket, MarkProcessed, AbortTicket, GateParent, PickRoom, EvictAgent,
                    CheckPathA, AllocateSlot, RejectChild, gridVars
<1>4. CASE CheckThermal(w) \/ SacrificeParent(w)
  <2>1. blockedTicks' \in {0, blockedTicks, HysteresisTicks}
           \/ (blockedTicks + 1 < HysteresisTicks /\ blockedTicks' = blockedTicks + 1)
    BY <1>4 DEF CheckThermal, SacrificeParent
  <2>2. blockedTicks' \in 0 .. HysteresisTicks
    BY <1>1, <2>1, DaemonAssumption
  <2>3. UNCHANGED <<lifecycle, rooms, cold, requested>>
    BY <1>4 DEF CheckThermal, SacrificeParent, gridVars
  <2> QED
    BY <1>1, <2>2, <2>3
<1>5. CASE VacateRoom(w) \/ OccupyRoom(w) \/ RemoveChild(w)
  BY <1>1, <1>2, <1>5 DEF VacateRoom, OccupyRoom, RemoveChild
<1>6. CASE RetireAgent(w) \/ PlaceEgg(w) \/ CheckLineage(w)
  BY <1>1, <1>6 DEF RetireAgent, PlaceEgg, CheckLineage, gridVars
<1>7. CASE Compete(w) \/ WriteFails(w)
  BY <1>1, <1>2, <1>7 DEF Compete, WriteFails
<1> QED
  BY <1>3, <1>4, <1>5, <1>6, <1>7 DEF Step

\* It takes slots away, from a parent that gives way, the old agent or the child,
\* and gives none but the child's.
LEMMA SlotsTyped ==
    ASSUME DaemonTypeOK, Slotted, NEW w \in Stepper, Step(w)
    PROVE  /\ Slotted'
           /\ \A p \in PoolAgent : allocations'[p] \in {allocations[p], None}
           /\ ~AllocateSlot(w) => \A c \in Child : allocations'[c] \in {allocations[c], None}
<1>1. /\ pc[w] \in WithOld => job[w].old \in Child
      /\ pc[w] \in WithChild => job[w].child \in Child
      /\ allocations \in [Agent -> {"gpu", None}]
  BY DEF DaemonTypeOK, LocalsRead, Slotted, Thermal!TypeOK
<1>2. CASE UNCHANGED slotVars
  BY <1>2 DEF slotVars, Slotted, Thermal!TypeOK
<1>3. ASSUME NEW a \in Agent, FreeSlot(a)
      PROVE  Slotted' /\ \A x \in Agent : allocations'[x] \in {allocations[x], None}
  <2>1. Slotted' /\ allocations' = [allocations EXCEPT ![a] = None]
    BY <1>3, FreeSlotShape
  <2> QED
    BY <1>1, <2>1, ChildrenAreAgents
<1>4. CASE SacrificeParent(w)
  <2>1. job[w].ticket.parent \in Agent
    BY <1>4, LabelOf DEF SacrificeParent, Unborn
  <2>2. CASE Thermal!ParentSacrifice(job[w].ticket.parent, "gpu")
    <3>1. Slotted' /\ allocations' = [allocations EXCEPT ![job[w].ticket.parent] = None]
      BY <2>1, <2>2, ReleaseShape
    <3> QED
      BY <1>1, <2>1, <3>1, ChildrenAreAgents
  <2> QED
    BY <1>2, <1>4, <2>2 DEF SacrificeParent
<1>5. CASE EvictAgent(w)
  <2>1. job[w].old \in Agent
    BY <1>1, <1>5, ChildrenAreAgents DEF EvictAgent, WithOld
  <2> QED
    BY <1>3, <1>5, <2>1, ChildrenAreAgents DEF EvictAgent
<1>6. CASE AllocateSlot(w)
  <2>1. PICK c \in Child : c = job[w].child
    BY <1>1, <1>6 DEF AllocateSlot, WithChild
  <2>2. CASE Thermal!Allocate(c, "gpu")
    <3>1. Slotted' /\ allocations' = [allocations EXCEPT ![c] = "gpu"]
      BY <2>1, <2>2, AllocateShape, ChildrenAreAgents
    <3> QED
      BY <1>1, <1>6, <3>1, ChildrenAreAgents
  <2> QED
    BY <1>2, <1>6, <2>1, <2>2 DEF AllocateSlot
<1>7. CASE RejectChild(w)
  <2>1. job[w].child \in Agent
    BY <1>1, <1>7, ChildrenAreAgents DEF RejectChild, WithChild
  <2> QED
    BY <1>3, <1>7, <2>1, ChildrenAreAgents DEF RejectChild
<1>8. CASE ~(SacrificeParent(w) \/ EvictAgent(w) \/ AllocateSlot(w) \/ RejectChild(w))
  BY <1>2, <1>8
     DEF Step, SelectTicket, MarkProcessed, AbortTicket, CheckThermal, GateParent, PickRoom,
         VacateRoom, RetireAgent, CheckPathA, PlaceEgg, Compete, OccupyRoom, CheckLineage,
         RemoveChild, WriteFails
<1> QED
  BY <1>4, <1>5, <1>6, <1>7, <1>8

\* A call of queue_breed.
LEMMA QueueBreedTyped ==
    ASSUME DaemonTypeOK, NEW p \in PoolAgent \cup {c \in Child : lifecycle[c] # None},
           NEW k \in Priority, QueueBreed(p, k)
    PROVE  /\ DaemonTypeOK' /\ requested' = requested + 1 /\ requested + 1 \in Request
           /\ \E row \in Row : row.request = requested + 1 /\ queue' = Append(queue, row)
<1>1. p \in Agent /\ k \in Nat /\ requested + 1 \in Request /\ requested' \in 0 .. MaxRequests
      /\ requested' = requested + 1
  BY DaemonAssumption DEF DaemonTypeOK, QueueBreed, Request, Agent
<1>2. /\ \E row \in Row : row.request = requested + 1 /\ queue' = Append(queue, row)
      /\ queue' \in Seq(Row) /\ IdsUnique'
  BY <1>1, EnqueueShape DEF DaemonTypeOK, QueueBreed
<1>3. UNCHANGED <<lifecycle, rooms, cold, blockedTicks, pc, job, children, dropped>>
  BY DEF QueueBreed, gridVars, fateVars
<1> QED
  BY <1>1, <1>2, <1>3 DEF DaemonTypeOK, LocalsRead

LEMMA TypesNext == DaemonTypeOK /\ SlotsTypeOK /\ [Next]_vars => DaemonTypeOK' /\ SlotsTypeOK'
<1> SUFFICES ASSUME DaemonTypeOK, SlotsTypeOK, [Next]_vars PROVE DaemonTypeOK' /\ SlotsTypeOK'
  OBVIOUS
<1>1. ASSUME UNCHANGED <<slotVars, poolVars>> PROVE SlotsTypeOK'
  BY <1>1 DEF SlotsTypeOK, slotVars, poolVars, Thermal!TypeOK, Pool!PoolTypeOK
<1>2. ASSUME UNCHANGED daemonVars PROVE DaemonTypeOK'
  BY <1>2 DEF DaemonTypeOK, daemonVars, gridVars, fateVars, IdsUnique, LocalsRead
<1>3. ASSUME NEW p \in PoolAgent \cup {c \in Child : lifecycle[c] # None}, NEW k \in Priority,
             QueueBreed(p, k), UNCHANGED poolVars
      PROVE  DaemonTypeOK' /\ SlotsTypeOK'
  BY <1>1, <1>3, QueueBreedTyped DEF QueueBreed
<1>4. ASSUME NEW r \in Room, RoomFires(r), UNCHANGED poolVars PROVE DaemonTypeOK' /\ SlotsTypeOK'
  BY <1>1, <1>4 DEF RoomFires, DaemonTypeOK, IdsUnique, LocalsRead, fateVars
<1>5. ASSUME NEW w \in Stepper, DaemonStep(w) PROVE DaemonTypeOK' /\ SlotsTypeOK'
  <2>1. PICK l \in Label, j \in Job : Move(w, l, j) /\ Fate(w, l, j)
    BY <1>5, StepFate DEF DaemonStep
  <2>2. /\ queue' \in Seq(Row) /\ IdsUnique'
        /\ pc' \in [Stepper -> Label] /\ job' \in [Stepper -> Job] /\ LocalsRead'
        /\ children' \in [Request -> SUBSET Child] /\ dropped' \subseteq Request
    BY <2>1, FateTyped
  <2>3. /\ lifecycle' \in [Child -> {None, "EGG", "COMPETE", "SUNSET"}]
        /\ rooms' \in [Room -> Child \cup {None}]
        /\ cold' \subseteq Room /\ blockedTicks' \in 0 .. HysteresisTicks /\ requested' = requested
    BY <1>5, TablesTyped DEF DaemonStep
  <2>4. DaemonTypeOK'
    BY <2>2, <2>3 DEF DaemonTypeOK
  <2>5. Thermal!TypeOK'
    BY <1>5, SlotsTyped DEF DaemonStep, SlotsTypeOK, Slotted
  <2>6. Pool!PoolTypeOK'
    BY <1>5 DEF DaemonStep, SlotsTypeOK, poolVars, Pool!PoolTypeOK
  <2> QED
    BY <2>4, <2>5, <2>6 DEF SlotsTypeOK
<1>6. ASSUME PoolStep PROVE DaemonTypeOK' /\ SlotsTypeOK'
  BY <1>2, <1>6, PoolShape DEF PoolStep, SlotsTypeOK, Slotted
<1>7. ASSUME CrashRestart PROVE DaemonTypeOK' /\ SlotsTypeOK'
  <2>1. /\ rooms' \in [Room -> Child \cup {None}] /\ cold' \subseteq Room
        /\ blockedTicks' \in 0 .. HysteresisTicks
        /\ UNCHANGED <<queue, lifecycle, requested, children>>
    BY <1>7, DaemonAssumption DEF CrashRestart
  <2>2. pc' \in [Stepper -> Label] /\ job' \in [Stepper -> Job] /\ LocalsRead'
    BY <1>7, NoJobType DEF CrashRestart, LocalsRead, Label, WithRoom, WithOld, WithChild
  <2>3. dropped' \subseteq Request
    BY <1>7, LabelOf DEF CrashRestart, DaemonTypeOK
  <2>4. SlotsTypeOK'
    BY <1>7 DEF CrashRestart, SlotsTypeOK, Thermal!Reset, Thermal!TypeOK, Pool!PoolTypeOK
  <2> QED
    BY <2>1, <2>2, <2>3, <2>4 DEF DaemonTypeOK, IdsUnique
<1>8. CASE UNCHANGED vars
  BY <1>1, <1>2, <1>8 DEF vars
<1> QED
  BY <1>3, <1>4, <1>5, <1>6, <1>7, <1>8 DEF Next

LEMMA TypesImplyTypeOK == DaemonTypeOK /\ SlotsTypeOK => TypeOK
<1> SUFFICES ASSUME DaemonTypeOK, SlotsTypeOK PROVE TypeOK
  OBVIOUS
<1>1. \A i \in DOMAIN queue : /\ queue[i].request \in Request
                              /\ queue[i].parent \in Agent
                              /\ \A j \in DOMAIN queue : queue[i].id = queue[j].id => i = j
  <2> SUFFICES ASSUME NEW i \in DOMAIN queue
               PROVE  /\ queue[i].request \in Request /\ queue[i].parent \in Agent
                      /\ \A j \in DOMAIN queue : queue[i].id = queue[j].id => i = j
    OBVIOUS
  <2>1. queue[i] \in Row
    BY DEF DaemonTypeOK
  <2> QED
    BY <2>1 DEF Row, DaemonTypeOK, IdsUnique
<1>2. \A w \in Stepper : pc[w] \in Unborn => job[w].ticket.request \in Request
  BY LabelOf
<1>3. Thermal!TypeOK /\ Pool!PoolTypeOK
  BY DEF SlotsTypeOK
<1>4. /\ lifecycle \in [Child -> {None, "EGG", "COMPETE", "SUNSET"}]
      /\ rooms \in [Room -> Child \cup {None}]
      /\ cold \subseteq Room
      /\ blockedTicks \in 0 .. HysteresisTicks
      /\ children \in [Request -> SUBSET Child]
      /\ dropped \subseteq Request
  BY DEF DaemonTypeOK
<1> QED
  BY <1>1, <1>2, <1>3, <1>4 DEF TypeOK

\* The type invariant, for any threads that call step(), whatever they do to
\* one another: the ids of the waiting rows are distinct, every row and every
\* ticket in hand is one of the requests of queue_breed, and the slots, rooms
\* and lifecycle rows are those of known agents.
THEOREM TypeCorrect == Spec => []TypeOK
<1>1. Init => DaemonTypeOK /\ SlotsTypeOK
  BY InitTyped
<1>2. DaemonTypeOK /\ SlotsTypeOK /\ [Next]_vars => (DaemonTypeOK /\ SlotsTypeOK)'
  BY TypesNext
<1>3. DaemonTypeOK /\ SlotsTypeOK => TypeOK
  BY TypesImplyTypeOK
<1> QED
  BY <1>1, <1>2, <1>3, PTL DEF Spec

-----------------------------------------------------------------------------
(* A request is in one place.                                              *)

\* A row is put at the end of the queue.
LEMMA RowAdded ==
    ASSUME queue \in Seq(Row), NEW row \in Row, queue' = Append(queue, row), row.request \notin Waiting,
           OneRowEach
    PROVE  OneRowEach' /\ Waiting' = Waiting \cup {row.request}
<1>1. PICK n \in Nat : n = Len(queue) /\ DOMAIN queue = 1 .. n
  OBVIOUS
<1> HIDE DEF Row
<1>2. /\ DOMAIN queue' = 1 .. n + 1 /\ queue'[n + 1] = row
      /\ \A i \in 1 .. n : queue'[i] = queue[i]
  BY <1>1
<1>3. \A i \in 1 .. n + 1 : i \in 1 .. n \/ i = n + 1
  BY <1>1
<1>4. OneRowEach'
  <2> SUFFICES ASSUME NEW i \in DOMAIN queue', NEW k \in DOMAIN queue',
                      queue'[i].request = queue'[k].request
               PROVE  i = k
    BY DEF OneRowEach
  <2>1. CASE i \in 1 .. n /\ k \in 1 .. n
    BY <1>1, <1>2, <2>1 DEF OneRowEach
  <2>2. CASE i \in 1 .. n /\ k = n + 1
    BY <1>1, <1>2, <2>2 DEF Waiting
  <2>3. CASE i = n + 1 /\ k \in 1 .. n
    BY <1>1, <1>2, <2>3 DEF Waiting
  <2> QED
    BY <1>2, <1>3, <2>1, <2>2, <2>3
<1>5. \A q : q \in Waiting' <=> q \in Waiting \/ q = row.request
  BY <1>1, <1>2, <1>3 DEF Waiting
<1> QED
  BY <1>4, <1>5

\* The selected row is taken away.
LEMMA RowTaken ==
    ASSUME queue \in Seq(Row), IdsUnique, OneRowEach, NEW i \in DOMAIN queue, NEW t, t = queue[i],
           queue' = Unprocessed(t.id)
    PROVE  OneRowEach' /\ Waiting' = Waiting \ {t.request}
<1>1. PICK u : u = Unprocessed(t.id)
  OBVIOUS
<1>2. PICK f \in [DOMAIN u -> DOMAIN queue] :
         /\ \A k \in DOMAIN u : u[k] = queue[f[k]] /\ queue[f[k]].id # t.id
         /\ \A j, k \in DOMAIN u : f[j] = f[k] => j = k
         /\ \A m \in DOMAIN queue : queue[m].id # t.id => \E k \in DOMAIN u : f[k] = m
  BY <1>1, UnprocessedShape
<1>3. queue' = u
  BY <1>1
<1>4. OneRowEach'
  BY <1>2, <1>3 DEF OneRowEach
<1>5. \A m \in DOMAIN queue : queue[m].id = t.id <=> queue[m].request = t.request
  BY DEF OneRowEach, IdsUnique
<1>6. \A q : q \in Waiting' <=> q \in Waiting /\ q # t.request
  <2>1. \A q : q \in Waiting' <=> \E k \in DOMAIN u : u[k].request = q
    BY <1>3 DEF Waiting
  <2>2. \A q : q \in Waiting <=> \E m \in DOMAIN queue : queue[m].request = q
    BY DEF Waiting
  <2> QED
    BY <1>2, <1>5, <2>1, <2>2
<1> QED
  BY <1>4, <1>6

\* Whatever a step does to its ticket, the request stays in one place.
LEMMA FateKeepsPlace ==
    ASSUME NEW w, Stepper = {w}, DaemonTypeOK, PlaceInv, NEW l \in Label, NEW j \in Job,
           Move(w, l, j), Fate(w, l, j), UNCHANGED requested
    PROVE  PlaceInv'
<1> DEFINE q == job[w].ticket.request
<1>1. /\ pc'[w] = l /\ job'[w] = j
      /\ queue \in Seq(Row) /\ IdsUnique
      /\ pc[w] \in Unborn => q \in Request
      /\ children \in [Request -> SUBSET Child]
  BY LabelOf DEF DaemonTypeOK, Move
<1>2. /\ Stepping = IF pc[w] \in Unborn THEN {q} ELSE {}
      /\ Stepping' = IF l \in Unborn THEN {j.ticket.request} ELSE {}
  BY <1>1 DEF Stepping
<1>3. ASSUME UNCHANGED queue PROVE Waiting' = Waiting /\ OneRowEach'
  BY <1>3 DEF Waiting, OneRowEach, PlaceInv
<1>4. ASSUME UNCHANGED children PROVE Bred' = Bred /\ OneChildEach'
  BY <1>4 DEF Bred, OneChildEach, PlaceInv
<1>5. ASSUME l # "selected" PROVE Selected'
  BY <1>1, <1>5 DEF Selected
<1>6. CASE Selects(w, l, j)
  <2>1. Selected' /\ l \notin Unborn /\ pc[w] \notin Unborn
    BY <1>1, <1>6 DEF Selects, Selected, Unborn
  <2> QED
    BY <1>2, <1>3, <1>4, <1>6, <2>1 DEF Selects, fateVars, PlaceInv, OnePlaceEach
<1>7. CASE Takes(w, l, j)
  <2>1. l \in Unborn /\ pc[w] \notin Unborn /\ Selected'
    BY <1>5, <1>7 DEF Takes, Unborn
  <2>2. PICK i \in DOMAIN queue : job[w].ticket = queue[i]
    BY <1>7 DEF Takes, PlaceInv, Selected
  <2>3. OneRowEach' /\ Waiting' = Waiting \ {q}
    BY <1>1, <1>7, <2>2, RowTaken DEF Takes, PlaceInv
  <2>4. q \in Waiting
    BY <2>2 DEF Waiting
  <2>5. j.ticket.request = q /\ UNCHANGED <<children, dropped>>
    BY <1>7 DEF Takes, fateVars
  <2> HIDE DEF q
  <2>6. OnePlaceEach'
    BY <1>2, <1>4, <2>1, <2>3, <2>4, <2>5 DEF PlaceInv, OnePlaceEach
  <2> QED
    BY <1>4, <2>1, <2>3, <2>5, <2>6 DEF PlaceInv
<1>8. CASE GoesOn(w, l, j)
  <2>1. Selected' /\ Stepping' = Stepping
    BY <1>2, <1>5, <1>8 DEF GoesOn, Unborn
  <2> QED
    BY <1>3, <1>4, <1>8, <2>1 DEF GoesOn, fateVars, PlaceInv, OnePlaceEach
<1>9. CASE PutsBack(w, l, j)
  <2>1. l \notin Unborn /\ pc[w] \in Unborn /\ Selected' /\ UNCHANGED <<children, dropped>>
    BY <1>5, <1>9 DEF PutsBack, Unborn, fateVars
  <2>2. PICK row \in Row : row.request = q /\ queue' = Append(queue, row)
    BY <1>9 DEF PutsBack
  <2>3. q \notin Waiting
    BY <1>2, <2>1 DEF PlaceInv, OnePlaceEach
  <2>4. OneRowEach' /\ Waiting' = Waiting \cup {q}
    BY <1>1, <2>2, <2>3, RowAdded DEF PlaceInv
  <2> HIDE DEF q
  <2>5. OnePlaceEach'
    BY <1>2, <1>4, <2>1, <2>4 DEF PlaceInv, OnePlaceEach
  <2> QED
    BY <1>4, <2>1, <2>4, <2>5 DEF PlaceInv
<1>10. CASE Loses(w, l, j)
  <2>1. /\ l \notin Unborn /\ pc[w] \in Unborn /\ Selected'
        /\ UNCHANGED <<queue, children>> /\ dropped' = dropped \cup {q}
    BY <1>5, <1>10 DEF Loses, Unborn
  <2> HIDE DEF q
  <2>2. OnePlaceEach'
    BY <1>2, <1>3, <1>4, <2>1 DEF PlaceInv, OnePlaceEach
  <2> QED
    BY <1>3, <1>4, <2>1, <2>2 DEF PlaceInv
<1>11. CASE Breeds(w, l, j)
  <2>1. /\ l \notin Unborn /\ pc[w] \in Unborn /\ Selected'
        /\ UNCHANGED <<queue, dropped>> /\ q \in Request
        /\ children' = [children EXCEPT ![q] = @ \cup {j.child}]
    BY <1>1, <1>5, <1>11 DEF Breeds, Unborn
  <2>2. children[q] = {}
    BY <1>2, <2>1 DEF PlaceInv, OnePlaceEach, Bred
  <2> HIDE DEF q
  <2>3. Bred' = Bred \cup {q} /\ OneChildEach'
    BY <1>1, <2>1, <2>2 DEF Bred, OneChildEach, PlaceInv
  <2>4. OnePlaceEach'
    BY <1>2, <1>3, <2>1, <2>3 DEF PlaceInv, OnePlaceEach
  <2> QED
    BY <1>3, <2>1, <2>3, <2>4 DEF PlaceInv
<1>12. CASE IsDone(w, l, j)
  <2>1. Selected' /\ Stepping' = Stepping
    BY <1>2, <1>5, <1>12 DEF IsDone, Unborn
  <2> QED
    BY <1>3, <1>4, <1>12, <2>1 DEF IsDone, fateVars, PlaceInv, OnePlaceEach
<1> QED
  BY <1>6, <1>7, <1>8, <1>9, <1>10, <1>11, <1>12 DEF Fate

LEMMA PlaceNext ==
    ASSUME OneStepper, DaemonTypeOK, PlaceInv, [Next]_vars
    PROVE  PlaceInv'
<1> PICK w : Stepper = {w}
  BY DEF OneStepper
<1>1. ASSUME UNCHANGED <<queue, pc, job, requested, children, dropped>> PROVE PlaceInv'
  BY <1>1 DEF PlaceInv, OneRowEach, OneChildEach, OnePlaceEach, Selected, Waiting, Stepping, Bred
<1>2. ASSUME NEW p \in PoolAgent \cup {c \in Child : lifecycle[c] # None}, NEW k \in Priority,
             QueueBreed(p, k)
      PROVE  PlaceInv'
  <2>1. PICK row \in Row : row.request = requested + 1 /\ queue' = Append(queue, row)
    BY <1>2, QueueBreedTyped
  <2>2. requested' = requested + 1 /\ requested \in Nat /\ queue \in Seq(Row)
    BY <1>2, QueueBreedTyped, DaemonAssumption DEF DaemonTypeOK
  <2>3. requested + 1 \notin Waiting \cup Stepping \cup Bred \cup dropped
    BY <2>2 DEF PlaceInv, OnePlaceEach
  <2>4. OneRowEach' /\ Waiting' = Waiting \cup {requested + 1}
    BY <2>1, <2>2, <2>3, RowAdded DEF PlaceInv
  <2>5. UNCHANGED <<pc, job, children, dropped>>
    BY <1>2 DEF QueueBreed, fateVars
  <2>6. Stepping' = Stepping /\ Bred' = Bred /\ OneChildEach'
    BY <2>5 DEF Stepping, Bred, OneChildEach, PlaceInv
  <2>7. 1 .. requested' = (1 .. requested) \cup {requested + 1}
    BY <2>2
  <2>8. OnePlaceEach'
    BY <2>3, <2>4, <2>5, <2>6, <2>7 DEF PlaceInv, OnePlaceEach
  <2>9. Selected'
    <3> SUFFICES ASSUME NEW v \in Stepper, pc[v] = "selected"
                 PROVE  \E i \in DOMAIN queue' : queue'[i] = job[v].ticket
      BY <2>5 DEF Selected
    <3>1. PICK i \in DOMAIN queue : queue[i] = job[v].ticket
      BY DEF PlaceInv, Selected
    <3> HIDE DEF Row
    <3>2. i \in DOMAIN queue' /\ queue'[i] = queue[i]
      BY <2>1, <2>2
    <3> QED
      BY <3>1, <3>2
  <2> QED
    BY <2>4, <2>6, <2>8, <2>9 DEF PlaceInv
<1>3. ASSUME DaemonStep(w) PROVE PlaceInv'
  <2>1. PICK l \in Label, j \in Job : Move(w, l, j) /\ Fate(w, l, j)
    BY <1>3, StepFate DEF DaemonStep
  <2>2. requested' = requested
    BY <1>3, TablesTyped DEF DaemonStep
  <2> QED
    BY <2>1, <2>2, FateKeepsPlace
<1>4. ASSUME CrashRestart PROVE PlaceInv'
  <2>1. /\ UNCHANGED <<queue, requested, children>> /\ pc' = [v \in Stepper |-> "idle"]
        /\ dropped' = dropped \cup Stepping
    BY <1>4 DEF CrashRestart, Stepping
  <2>2. Stepping' = {} /\ Selected'
    BY <2>1 DEF Stepping, Selected, Unborn
  <2>3. Waiting' = Waiting /\ Bred' = Bred /\ OneRowEach' /\ OneChildEach'
    BY <2>1 DEF Waiting, Bred, OneRowEach, OneChildEach, PlaceInv
  <2>4. OnePlaceEach'
    BY <2>1, <2>2, <2>3 DEF PlaceInv, OnePlaceEach
  <2> QED
    BY <2>2, <2>3, <2>4 DEF PlaceInv
<1>5. ASSUME PoolStep \/ UNCHANGED vars PROVE PlaceInv'
  BY <1>1, <1>5 DEF PoolStep, vars, daemonVars, fateVars
<1>6. ASSUME NEW r \in Room, RoomFires(r) PROVE PlaceInv'
  BY <1>1, <1>6 DEF RoomFires, fateVars
<1> QED
  BY <1>2, <1>3, <1>4, <1>5, <1>6 DEF Next

LEMMA InitInPlace == Init => PlaceInv
<1> SUFFICES ASSUME Init PROVE PlaceInv
  OBVIOUS
<1>1. Waiting = {} /\ Stepping = {} /\ Bred = {} /\ dropped = {} /\ 1 .. requested = {}
  BY DEF Init, Waiting, Stepping, Bred, Unborn
<1>2. OneRowEach /\ OneChildEach /\ Selected
  BY DEF Init, OneRowEach, OneChildEach, Selected
<1> QED
  BY <1>1, <1>2 DEF PlaceInv, OnePlaceEach

\* One place each is one count each.
LEMMA PlacesCounted ==
    ASSUME OneStepper, DaemonTypeOK, PlaceInv
    PROVE  RequestAccounted
<1> PICK w : Stepper = {w}
  BY DEF OneStepper
<1> SUFFICES ASSUME NEW q \in 1 .. requested
             PROVE  Cardinality(Tickets(q)) + Cardinality(InHand(q)) + Cardinality(children[q])
                        + (IF q \in dropped THEN 1 ELSE 0) = 1
  BY DEF RequestAccounted
<1>1. q \in Request /\ q \in Waiting \cup Stepping \cup Bred \cup dropped
  BY DaemonAssumption DEF DaemonTypeOK, Request, PlaceInv, OnePlaceEach
<1>2. Cardinality(Tickets(q)) = IF q \in Waiting THEN 1 ELSE 0
  <2>1. CASE q \in Waiting
    <3>1. PICK i \in DOMAIN queue : queue[i].request = q
      BY <2>1 DEF Waiting
    <3>2. Tickets(q) = {i}
      BY <3>1 DEF Tickets, PlaceInv, OneRowEach
    <3> QED
      BY <2>1, <3>2, FS_Singleton
  <2>2. CASE q \notin Waiting
    <3>1. Tickets(q) = {}
      BY <2>2 DEF Waiting, Tickets
    <3> QED
      BY <2>2, <3>1, FS_EmptySet
  <2> QED
    BY <2>1, <2>2
<1>3. Cardinality(InHand(q)) = IF q \in Stepping THEN 1 ELSE 0
  <2>1. CASE q \in Stepping
    <3>1. InHand(q) = {w}
      BY <2>1 DEF InHand, Stepping
    <3> QED
      BY <2>1, <3>1, FS_Singleton
  <2>2. CASE q \notin Stepping
    <3>1. InHand(q) = {}
      BY <2>2 DEF InHand, Stepping
    <3> QED
      BY <2>2, <3>1, FS_EmptySet
  <2> QED
    BY <2>1, <2>2
<1>4. Cardinality(children[q]) = IF q \in Bred THEN 1 ELSE 0
  <2>1. CASE q \in Bred
    <3>1. PICK c : c \in children[q]
      BY <2>1 DEF Bred
    <3>2. children[q] = {c}
      BY <1>1, <3>1 DEF PlaceInv, OneChildEach
    <3> QED
      BY <2>1, <3>2, FS_Singleton
  <2>2. CASE q \notin Bred
    <3>1. children[q] = {}
      BY <1>1, <2>2 DEF Bred
    <3> QED
      BY <2>2, <3>1, FS_EmptySet
  <2> QED
    BY <2>1, <2>2
<1> QED
  BY <1>1, <1>2, <1>3, <1>4 DEF PlaceInv, OnePlaceEach

\* With one thread in step(), a request of queue_breed is in one place at all
\* times, however often it is put back, whatever write fails and whenever the
\* process dies: it waits in one row, is in hand, has one child, or was dropped.
THEOREM RequestsAccounted == OneStepper => (Spec => []RequestAccounted)
<1> SUFFICES ASSUME OneStepper PROVE Spec => []RequestAccounted
  OBVIOUS
<1>1. Init => DaemonTypeOK /\ SlotsTypeOK /\ PlaceInv
  BY InitTyped, InitInPlace
<1>2. DaemonTypeOK /\ SlotsTypeOK /\ PlaceInv /\ [Next]_vars
         => (DaemonTypeOK /\ SlotsTypeOK /\ PlaceInv)'
  BY TypesNext, PlaceNext
<1>3. DaemonTypeOK /\ PlaceInv => RequestAccounted
  BY PlacesCounted
<1> QED
  BY <1>1, <1>2, <1>3, PTL DEF Spec

-----------------------------------------------------------------------------
(* Slots and rooms.                                                        *)

\* Where nothing is given to a child, only what the stepper relies on is to be shown.
LEMMA NothingGiven ==
    ASSUME NEW w, Stepper = {w}, DaemonTypeOK, RoomInv, Pool!WorkersHoldSlots',
           UNCHANGED <<rooms, lifecycle>>,
           \A c \in Child : allocations'[c] \in {allocations[c], None},
           \/ UNCHANGED <<pc, job>>
           \/ Reusing' /\ pc[w] \notin {"allocated", "rejected", "removing"}
           \/ Reusing' /\ pc[w] = "rejected" /\ pc'[w] = "removing" /\ UNCHANGED job
    PROVE  RoomInv'
<1>1. OneRoomEach' /\ UnbornHoldNothing'
  BY DEF RoomInv, OneRoomEach, UnbornHoldNothing, RoomOf
<1>2. Reusing'
  <2>1. CASE UNCHANGED <<pc, job>>
    <3>1. /\ pc[w] \in WithOld => job[w].old \in Child
          /\ pc[w] \in WithChild => job[w].child \in Child
      BY DEF DaemonTypeOK, LocalsRead
    <3> QED
      BY <2>1, <3>1 DEF RoomInv, Reusing, RoomOf, WithOld, WithChild
  <2> QED
    BY <2>1
<1>3. NoSlotLeaks'
  BY DEF RoomInv, NoSlotLeaks, RoomOf
<1>4. RetiredHoldNothing'
  BY DEF RoomInv, RetiredHoldNothing, RoomOf
<1> QED
  BY <1>1, <1>2, <1>3, <1>4 DEF RoomInv

\* Up to the choice of a room, and after the step, the stepper relies on nothing.
LEMMA NothingChosen ==
    ASSUME NEW w, Stepper = {w},
           pc'[w] \in {"idle", "selected", "dequeued", "blocked", "admitted", "gated"}
    PROVE  Reusing'
BY DEF Reusing

\* The pool's records outlive what a step does to its slots.
LEMMA PoolKept ==
    ASSUME DaemonTypeOK, Slotted, RoomInv, NEW w \in Stepper, DaemonStep(w)
    PROVE  Pool!WorkersHoldSlots'
<1>1. worker' = worker /\ \A p \in PoolAgent : allocations'[p] \in {allocations[p], None}
  BY SlotsTyped DEF DaemonStep, poolVars
<1> QED
  BY <1>1 DEF RoomInv, NoSlotLeaks, Pool!WorkersHoldSlots

\* The steps that end, or that choose no room yet.
LEMMA EarlySteps ==
    ASSUME NEW w, Stepper = {w}, DaemonTypeOK, Slotted, RoomInv, DaemonStep(w),
           \/ SelectTicket(w) \/ MarkProcessed(w) \/ AbortTicket(w) \/ CheckThermal(w)
           \/ SacrificeParent(w) \/ GateParent(w) \/ WriteFails(w)
    PROVE  RoomInv'
<1>1. /\ Pool!WorkersHoldSlots'
      /\ ~AllocateSlot(w) => \A c \in Child : allocations'[c] \in {allocations[c], None}
      /\ pc \in [Stepper -> Label] /\ w \in Stepper
  BY PoolKept, SlotsTyped DEF DaemonStep, DaemonTypeOK
<1>2. UNCHANGED <<rooms, lifecycle>> /\ ~AllocateSlot(w)
      /\ pc[w] \notin {"allocated", "rejected", "removing"}
  BY DEF SelectTicket, MarkProcessed, AbortTicket, CheckThermal, SacrificeParent, GateParent,
         WriteFails, AllocateSlot, gridVars
<1>3. pc'[w] \in {"idle", "selected", "dequeued", "blocked", "admitted", "gated"}
  BY <1>1 DEF SelectTicket, MarkProcessed, AbortTicket, CheckThermal, SacrificeParent, GateParent,
         WriteFails, Goto, Requeue, Drop, Done
<1> QED
  BY <1>1, <1>2, <1>3, NothingGiven, NothingChosen

\* A room is chosen; its agent, if it has one, loses its slot.
LEMMA ChoosingSteps ==
    ASSUME NEW w, Stepper = {w}, DaemonTypeOK, Slotted, RoomInv, DaemonStep(w),
           PickRoom(w) \/ EvictAgent(w) \/ CheckPathA(w)
    PROVE  RoomInv'
<1>1. /\ Pool!WorkersHoldSlots'
      /\ ~AllocateSlot(w) => \A c \in Child : allocations'[c] \in {allocations[c], None}
      /\ pc \in [Stepper -> Label] /\ w \in Stepper /\ job \in [Stepper -> Job]
  BY PoolKept, SlotsTyped DEF DaemonStep, DaemonTypeOK
<1>2. UNCHANGED <<rooms, lifecycle>> /\ ~AllocateSlot(w)
      /\ pc[w] \notin {"allocated", "rejected", "removing"}
  BY DEF PickRoom, EvictAgent, CheckPathA, AllocateSlot, gridVars
<1>3. Reusing'
  <2>1. CASE PickRoom(w)
    <3>1. CASE Requeue(w, job[w].ticket.priority)
      BY <1>1, <3>1, NothingChosen DEF Requeue, Drop, Done
    <3>2. CASE /\ cold # {} /\ job' = [job EXCEPT ![w].room = Coldest, ![w].old = rooms[Coldest]]
               /\ Goto(w, IF rooms[Coldest] = None THEN "roomed" ELSE "evicting")
      <4>1. PICK r \in Room : r = Coldest
        BY <3>2, ColdestShape DEF DaemonTypeOK
      <4>2. PICK a : a = rooms[r]
        OBVIOUS
      <4>3. PICK b \in Job : b = job[w]
        BY <1>1
      <4>4. PICK j : j = [b EXCEPT !.room = r, !.old = a]
        OBVIOUS
      <4>5. j.room = r /\ j.old = a
        BY <4>3, <4>4 DEF Job
      <4>6. job'[w] = j
        BY <1>1, <3>2, <4>1, <4>2, <4>3, <4>4
      <4>7. pc'[w] = IF a = None THEN "roomed" ELSE "evicting"
        BY <1>1, <3>2, <4>1, <4>2 DEF Goto
      <4> QED
        BY <1>2, <4>2, <4>5, <4>6, <4>7 DEF Reusing
    <3> QED
      BY <2>1, <3>1, <3>2 DEF PickRoom
  <2>2. CASE EvictAgent(w)
    <3>1. job[w].old \in Child /\ rooms[job[w].room] = job[w].old
      BY <1>1, <2>2 DEF EvictAgent, DaemonTypeOK, LocalsRead, WithOld, RoomInv, Reusing
    <3>4. PICK a \in Agent : a = job[w].old
      BY <3>1, ChildrenAreAgents
    <3>5. allocations' = [allocations EXCEPT ![a] = None]
      BY <2>2, <3>4, FreeSlotShape DEF EvictAgent
    <3>2. allocations'[job[w].old] = None
      BY <3>4, <3>5 DEF Slotted, Thermal!TypeOK
    <3>3. pc'[w] = "vacating" /\ job' = job
      BY <1>1, <2>2 DEF EvictAgent, Goto
    <3> QED
      BY <1>2, <3>1, <3>2, <3>3 DEF Reusing
  <2>3. CASE CheckPathA(w)
    <3>1. CASE pc'[w] = "idle"
      BY <3>1, NothingChosen
    <3>2. CASE Goto(w, "vetted") /\ job' = job
      BY <1>1, <1>2, <2>3, <3>2 DEF CheckPathA, Goto, RoomInv, Reusing
    <3> QED
      BY <1>1, <2>3, <3>1, <3>2 DEF CheckPathA, Requeue, Drop, Done
  <2> QED
    BY <2>1, <2>2, <2>3
<1> QED
  BY <1>1, <1>2, <1>3, NothingGiven

\* The old agent leaves the room it alone is in, and its slot is gone.
LEMMA VacateSteps ==
    ASSUME NEW w, Stepper = {w}, DaemonTypeOK, Slotted, RoomInv, DaemonStep(w),
           VacateRoom(w) \/ RetireAgent(w)
    PROVE  RoomInv'
<1>1. PICK r \in Room, a \in Child : r = job[w].room /\ a = job[w].old
  BY DEF VacateRoom, RetireAgent, DaemonTypeOK, LocalsRead, WithOld, WithRoom
<1>2. /\ Pool!WorkersHoldSlots' /\ UNCHANGED allocations
      /\ pc \in [Stepper -> Label] /\ w \in Stepper /\ job \in [Stepper -> Job]
      /\ rooms \in [Room -> Child \cup {None}] /\ None \notin Child
      /\ lifecycle \in [Child -> {None, "EGG", "COMPETE", "SUNSET"}]
  BY PoolKept, ChildrenAreAgents DEF VacateRoom, RetireAgent, slotVars, DaemonTypeOK
<1>3. CASE VacateRoom(w)
  <2>1. rooms[r] = a /\ allocations[a] = None
    BY <1>1, <1>3 DEF VacateRoom, RoomInv, Reusing
  <2>11. rooms[job[w].room] # None
    BY <1>1, <1>2, <2>1
  <2>2. /\ rooms' = [rooms EXCEPT ![r] = None] /\ UNCHANGED <<lifecycle, job>> /\ pc'[w] = "retiring"
    BY <1>1, <1>2, <1>3, <2>11 DEF VacateRoom, Goto
  <2>3. /\ rooms'[r] = None /\ \A s \in Room : s # r => rooms'[s] = rooms[s]
        /\ \A s \in Room : s # r => rooms[s] # a
    BY <1>2, <2>1, <2>2 DEF RoomInv, OneRoomEach
  <2>4. OneRoomEach'
    BY <2>3 DEF RoomInv, OneRoomEach
  <2>5. UnbornHoldNothing'
    BY <1>2, <2>2, <2>3 DEF RoomInv, UnbornHoldNothing, RoomOf
  <2>6. Reusing'
    <3>1. pc'[w] = "retiring" /\ job'[w].room = r /\ job'[w].old = a /\ allocations'[a] = None
      BY <1>1, <1>2, <2>1, <2>2
    <3>2. {s \in Room : rooms'[s] = a} = {}
      BY <1>2, <2>3
    <3> QED
      BY <2>3, <3>1, <3>2 DEF Reusing, RoomOf
  <2>7. ASSUME NEW c \in Child, c # a PROVE RoomOf(c)' = RoomOf(c)
    <3>1. \A s \in Room : rooms'[s] = c <=> rooms[s] = c
      BY <1>2, <2>1, <2>3, <2>7
    <3> QED
      BY <3>1 DEF RoomOf
  <2>8. RoomOf(a)' = {} /\ pc[w] = "vacating"
    BY <1>2, <1>3, <2>3 DEF RoomOf, VacateRoom
  <2>9. NoSlotLeaks'
    BY <1>2, <2>1, <2>7, <2>8 DEF RoomInv, NoSlotLeaks
  <2>10. RetiredHoldNothing'
    BY <1>2, <2>1, <2>2, <2>7, <2>8 DEF RoomInv, RetiredHoldNothing
  <2> QED
    BY <2>4, <2>5, <2>6, <2>9, <2>10 DEF RoomInv
<1>4. CASE RetireAgent(w)
  <2>1. rooms[r] = None /\ allocations[a] = None /\ RoomOf(a) = {} /\ pc[w] = "retiring"
    BY <1>1, <1>4 DEF RetireAgent, RoomInv, Reusing
  <2>2. /\ UNCHANGED <<rooms, job>> /\ lifecycle' = [lifecycle EXCEPT ![a] = "SUNSET"]
        /\ pc'[w] = "roomed"
    BY <1>1, <1>2, <1>4 DEF RetireAgent, Goto, gridVars
  <2>3. /\ lifecycle'[a] = "SUNSET" /\ \A c \in Child : c # a => lifecycle'[c] = lifecycle[c]
        /\ \A c \in Child : RoomOf(c)' = RoomOf(c)
    BY <1>2, <2>2 DEF RoomOf
  <2>4. OneRoomEach'
    BY <2>2 DEF RoomInv, OneRoomEach
  <2>5. UnbornHoldNothing'
    BY <1>2, <2>3, DaemonAssumption DEF RoomInv, UnbornHoldNothing
  <2>6. Reusing'
    BY <1>1, <1>2, <2>1, <2>2 DEF Reusing
  <2>7. NoSlotLeaks'
    BY <1>2, <2>1, <2>3 DEF RoomInv, NoSlotLeaks
  <2>8. RetiredHoldNothing'
    BY <1>2, <2>1, <2>3 DEF RoomInv, RetiredHoldNothing
  <2> QED
    BY <2>4, <2>5, <2>6, <2>7, <2>8 DEF RoomInv
<1> QED
  BY <1>3, <1>4

\* The child gets its lifecycle rows and its slot before it has the room.
LEMMA HatchSteps ==
    ASSUME NEW w, Stepper = {w}, DaemonTypeOK, Slotted, RoomInv, DaemonStep(w),
           PlaceEgg(w) \/ Compete(w) \/ AllocateSlot(w)
    PROVE  RoomInv'
<1>1. /\ Pool!WorkersHoldSlots'
      /\ pc \in [Stepper -> Label] /\ w \in Stepper /\ job \in [Stepper -> Job]
      /\ rooms \in [Room -> Child \cup {None}] /\ None \notin Child
      /\ lifecycle \in [Child -> {None, "EGG", "COMPETE", "SUNSET"}]
      /\ None \notin {"EGG", "COMPETE", "SUNSET"}
      /\ UNCHANGED rooms /\ \A c \in Child : RoomOf(c)' = RoomOf(c)
  BY PoolKept, ChildrenAreAgents, DaemonAssumption
     DEF PlaceEgg, Compete, AllocateSlot, gridVars, DaemonTypeOK, RoomOf
<1>2. OneRoomEach'
  BY <1>1 DEF RoomInv, OneRoomEach
<1>3. PICK r \in Room : r = job[w].room
  BY DEF PlaceEgg, Compete, AllocateSlot, DaemonTypeOK, LocalsRead, WithRoom, WithChild
<1>4. rooms[r] = None /\ pc[w] \in {"vetted", "hatched", "competing"}
  BY <1>3 DEF PlaceEgg, Compete, AllocateSlot, RoomInv, Reusing
<1>5. CASE PlaceEgg(w)
  <2>1. PICK c \in Child : /\ lifecycle[c] = None /\ lifecycle' = [lifecycle EXCEPT ![c] = "EGG"]
                           /\ job' = [job EXCEPT ![w].child = c]
    <3> DEFINE fresh == {c \in Child : lifecycle[c] = None}
    <3>1. fresh # {} /\ fresh \in SUBSET Nat
      BY <1>5, ChildrenAreAgents DEF PlaceEgg
    <3>2. \E c \in fresh : \A d \in fresh : c <= d
      <4> HIDE DEF fresh
      <4> QED
        BY <3>1, Least
    <3>3. (CHOOSE c \in fresh : \A d \in fresh : c <= d) \in fresh
      BY <3>2
    <3> QED
      BY <1>5, <3>3 DEF PlaceEgg
  <2>2. PICK b \in Job : b = job[w]
    BY <1>1
  <2>3. PICK j : j = [b EXCEPT !.child = c]
    OBVIOUS
  <2>4. j \in Job /\ j.room = r /\ j.child = c
    BY <1>3, <2>2, <2>3, ChildRead
  <2>5. pc'[w] = "hatched" /\ job'[w] = j /\ UNCHANGED allocations
    BY <1>1, <1>5, <2>1, <2>2, <2>3 DEF PlaceEgg, Goto, slotVars
  <2>6. RoomOf(c) = {} /\ allocations[c] = None
    BY <2>1 DEF RoomInv, UnbornHoldNothing
  <2>7. lifecycle'[c] = "EGG" /\ \A d \in Child : d # c => lifecycle'[d] = lifecycle[d]
    BY <1>1, <2>1
  <2>8. UnbornHoldNothing'
    BY <1>1, <2>5, <2>7 DEF RoomInv, UnbornHoldNothing
  <2>9. Reusing'
    <3>1. {s \in Room : rooms[s] = c} = {}
      BY <2>6 DEF RoomOf
    <3> QED
      BY <1>1, <1>4, <2>4, <2>5, <2>7, <3>1 DEF Reusing, RoomOf
  <2>10. NoSlotLeaks'
    BY <1>1, <1>4, <2>5 DEF RoomInv, NoSlotLeaks
  <2>11. RetiredHoldNothing'
    BY <1>1, <1>4, <2>5, <2>7 DEF RoomInv, RetiredHoldNothing
  <2> QED
    BY <1>2, <2>8, <2>9, <2>10, <2>11 DEF RoomInv
<1>6. CASE Compete(w) \/ AllocateSlot(w)
  <2>1. PICK c \in Child : c = job[w].child
    BY <1>6 DEF Compete, AllocateSlot, DaemonTypeOK, LocalsRead, WithChild
  <2>2. RoomOf(c) = {} /\ lifecycle[c] \in {"EGG", "COMPETE"} /\ UNCHANGED job
    BY <1>6, <2>1 DEF Compete, AllocateSlot, RoomInv, Reusing
  <2>3. /\ lifecycle'[c] \in {"EGG", "COMPETE"}
        /\ \A d \in Child : d # c => lifecycle'[d] = lifecycle[d]
    BY <1>1, <1>6, <2>1, <2>2 DEF Compete, AllocateSlot
  <2>4. /\ \/ pc'[w] = "allocated"
           \/ pc'[w] = "competing" /\ UNCHANGED allocations
        /\ \A d \in Child : d # c => allocations'[d] = allocations[d]
    <3>1. CASE Compete(w)
      BY <1>1, <3>1 DEF Compete, Goto, slotVars
    <3>2. CASE AllocateSlot(w)
      <4>1. CASE Thermal!Allocate(c, "gpu")
        <5>1. allocations' = [allocations EXCEPT ![c] = "gpu"]
          BY <4>1, AllocateShape, ChildrenAreAgents
        <5> QED
          BY <1>1, <3>2, <5>1, ChildrenAreAgents DEF AllocateSlot, Goto, Slotted, Thermal!TypeOK
      <4>2. CASE UNCHANGED slotVars
        BY <1>1, <3>2, <4>2 DEF AllocateSlot, Goto, slotVars
      <4> QED
        BY <2>1, <3>2, <4>1, <4>2 DEF AllocateSlot
    <3> QED
      BY <1>6, <3>1, <3>2
  <2>5. UnbornHoldNothing'
    BY <1>1, <2>3, <2>4 DEF RoomInv, UnbornHoldNothing
  <2>6. Reusing'
    <3>1. {s \in Room : rooms[s] = c} = {}
      BY <2>2 DEF RoomOf
    <3> QED
      BY <1>1, <1>3, <1>4, <2>1, <2>2, <2>3, <2>4, <3>1 DEF Reusing, RoomOf
  <2>7. NoSlotLeaks'
    BY <1>1, <1>4, <2>1, <2>2, <2>4 DEF RoomInv, NoSlotLeaks
  <2>8. RetiredHoldNothing'
    BY <1>1, <1>4, <2>3, <2>4 DEF RoomInv, RetiredHoldNothing
  <2> QED
    BY <1>2, <2>5, <2>6, <2>7, <2>8 DEF RoomInv
<1> QED
  BY <1>5, <1>6

\* The child takes the room, and keeps it or, rejected, loses its slot and then the room.
LEMMA PlacingSteps ==
    ASSUME NEW w, Stepper = {w}, DaemonTypeOK, Slotted, RoomInv, DaemonStep(w),
           OccupyRoom(w) \/ CheckLineage(w) \/ RejectChild(w) \/ RemoveChild(w)
    PROVE  RoomInv'
<1>1. /\ Pool!WorkersHoldSlots'
      /\ pc \in [Stepper -> Label] /\ w \in Stepper /\ job \in [Stepper -> Job]
      /\ rooms \in [Room -> Child \cup {None}] /\ None \notin Child
      /\ lifecycle \in [Child -> {None, "EGG", "COMPETE", "SUNSET"}]
      /\ None \notin {"EGG", "COMPETE", "SUNSET"}
  BY PoolKept, ChildrenAreAgents, DaemonAssumption DEF DaemonTypeOK
<1>2. PICK r \in Room, c \in Child : r = job[w].room /\ c = job[w].child
  BY DEF OccupyRoom, CheckLineage, RejectChild, RemoveChild, DaemonTypeOK, LocalsRead, WithRoom,
         WithChild
<1>3. CASE OccupyRoom(w)
  <2>1. /\ rooms[r] = None /\ RoomOf(c) = {} /\ lifecycle[c] \in {"EGG", "COMPETE"}
        /\ pc[w] = "allocated"
    BY <1>2, <1>3 DEF OccupyRoom, RoomInv, Reusing
  <2>2. /\ rooms' = [rooms EXCEPT ![r] = c] /\ UNCHANGED <<lifecycle, allocations, job>>
        /\ pc'[w] = "placed"
    BY <1>1, <1>2, <1>3 DEF OccupyRoom, Goto, slotVars
  <2>3. /\ rooms'[r] = c /\ \A s \in Room : s # r => rooms'[s] = rooms[s]
        /\ \A s \in Room : rooms[s] # c
    BY <1>1, <2>1, <2>2 DEF RoomOf
  <2>4. OneRoomEach'
    BY <2>3 DEF RoomInv, OneRoomEach
  <2>5. ASSUME NEW d \in Child, d # c PROVE RoomOf(d)' = RoomOf(d)
    <3>1. \A s \in Room : rooms'[s] = d <=> rooms[s] = d
      BY <1>1, <2>1, <2>3, <2>5
    <3> QED
      BY <3>1 DEF RoomOf
  <2>6. RoomOf(c)' # {}
    BY <2>3 DEF RoomOf
  <2>7. UnbornHoldNothing'
    BY <1>1, <2>1, <2>2, <2>5 DEF RoomInv, UnbornHoldNothing
  <2>8. Reusing'
    BY <1>2, <2>2, <2>3 DEF Reusing
  <2>9. NoSlotLeaks'
    BY <1>1, <1>2, <2>2, <2>5, <2>6 DEF RoomInv, NoSlotLeaks
  <2>10. RetiredHoldNothing'
    BY <2>1, <2>2, <2>5 DEF RoomInv, RetiredHoldNothing
  <2> QED
    BY <2>4, <2>7, <2>8, <2>9, <2>10 DEF RoomInv
<1>4. CASE CheckLineage(w)
  <2>1. CASE Done(w) /\ UNCHANGED lifecycle
    <3>1. UNCHANGED <<rooms, allocations, lifecycle>> /\ pc[w] = "placed" /\ pc'[w] = "idle"
      BY <1>1, <1>4, <2>1 DEF CheckLineage, Done, gridVars, slotVars
    <3> QED
      BY <1>1, <3>1, NothingGiven, NothingChosen
  <2>2. CASE /\ lifecycle' = [lifecycle EXCEPT ![job[w].child] = "SUNSET"]
             /\ Goto(w, "rejected") /\ UNCHANGED job
    <3>1. /\ UNCHANGED <<rooms, allocations, job>> /\ pc[w] = "placed" /\ pc'[w] = "rejected"
          /\ rooms[r] = c
      BY <1>1, <1>2, <1>4, <2>2 DEF CheckLineage, Goto, gridVars, slotVars, RoomInv, Reusing
    <3>2. lifecycle'[c] = "SUNSET" /\ \A d \in Child : d # c => lifecycle'[d] = lifecycle[d]
      BY <1>1, <1>2, <2>2
    <3>3. \A d \in Child : RoomOf(d)' = RoomOf(d)
      BY <3>1 DEF RoomOf
    <3>4. OneRoomEach'
      BY <3>1 DEF RoomInv, OneRoomEach
    <3>5. UnbornHoldNothing'
      BY <1>1, <3>1, <3>2, <3>3 DEF RoomInv, UnbornHoldNothing
    <3>6. Reusing'
      BY <1>2, <3>1 DEF Reusing
    <3>7. NoSlotLeaks'
      BY <1>1, <3>1, <3>3 DEF RoomInv, NoSlotLeaks
    <3>8. RetiredHoldNothing'
      BY <1>2, <3>1, <3>2, <3>3 DEF RoomInv, RetiredHoldNothing
    <3> QED
      BY <3>4, <3>5, <3>6, <3>7, <3>8 DEF RoomInv
  <2> QED
    BY <1>4, <2>1, <2>2 DEF CheckLineage
<1>5. CASE RejectChild(w)
  <2>1. allocations' = [allocations EXCEPT ![c] = None]
    BY <1>2, <1>5, FreeSlotShape, ChildrenAreAgents DEF RejectChild
  <2>2. allocations'[c] = None /\ \A d \in Child : allocations'[d] \in {allocations[d], None}
    BY <2>1, ChildrenAreAgents DEF Slotted, Thermal!TypeOK
  <2>3. UNCHANGED <<rooms, lifecycle, job>> /\ pc[w] = "rejected" /\ pc'[w] = "removing"
        /\ rooms[r] = c
    BY <1>1, <1>2, <1>5 DEF RejectChild, Goto, gridVars, RoomInv, Reusing
  <2>4. Reusing'
    BY <1>2, <2>2, <2>3 DEF Reusing
  <2> QED
    BY <1>1, <2>2, <2>3, <2>4, NothingGiven
<1>6. CASE RemoveChild(w)
  <2>1. rooms[r] = c /\ allocations[c] = None /\ pc[w] = "removing"
    BY <1>2, <1>6 DEF RemoveChild, RoomInv, Reusing
  <2>2. /\ rooms' = [rooms EXCEPT ![r] = None] /\ UNCHANGED <<lifecycle, allocations>>
        /\ pc'[w] = "idle"
    BY <1>1, <1>2, <1>6 DEF RemoveChild, Done, slotVars
  <2>3. /\ rooms'[r] = None /\ \A s \in Room : s # r => rooms'[s] = rooms[s] /\ rooms[s] # c
    BY <1>1, <2>1, <2>2 DEF RoomInv, OneRoomEach
  <2>4. OneRoomEach'
    BY <2>3 DEF RoomInv, OneRoomEach
  <2>5. ASSUME NEW d \in Child, d # c PROVE RoomOf(d)' = RoomOf(d)
    <3>1. \A s \in Room : rooms'[s] = d <=> rooms[s] = d
      BY <1>1, <2>1, <2>3, <2>5
    <3> QED
      BY <3>1 DEF RoomOf
  <2>6. RoomOf(c)' = {}
    BY <1>1, <2>3 DEF RoomOf
  <2>7. UnbornHoldNothing'
    BY <2>1, <2>2, <2>5, <2>6 DEF RoomInv, UnbornHoldNothing
  <2>8. Reusing'
    BY <2>2, NothingChosen
  <2>9. NoSlotLeaks'
    BY <1>1, <2>1, <2>2, <2>5 DEF RoomInv, NoSlotLeaks
  <2>10. RetiredHoldNothing'
    BY <1>2, <2>1, <2>2, <2>5, <2>6 DEF RoomInv, RetiredHoldNothing
  <2> QED
    BY <2>4, <2>7, <2>8, <2>9, <2>10 DEF RoomInv
<1> QED
  BY <1>3, <1>4, <1>5, <1>6

LEMMA InitRoomInv == Init => RoomInv
<1> SUFFICES ASSUME Init PROVE RoomInv
  OBVIOUS
<1>1. /\ rooms = [r \in Room |-> None] /\ allocations = [a \in Agent |-> None]
      /\ lifecycle = [c \in Child |-> None] /\ pc = [w \in Stepper |-> "idle"]
      /\ None \notin Child /\ None # "SUNSET" /\ Child \subseteq Agent /\ PoolAgent \subseteq Agent
  BY ChildrenAreAgents, DaemonAssumption DEF Init, Thermal!BudgetInit
<1>2. OneRoomEach /\ Reusing
  BY <1>1 DEF OneRoomEach, Reusing
<1>3. UnbornHoldNothing
  BY <1>1 DEF UnbornHoldNothing, RoomOf
<1>4. NoSlotLeaks
  BY <1>1 DEF NoSlotLeaks, Pool!WorkersHoldSlots
<1>5. RetiredHoldNothing
  BY <1>1 DEF RetiredHoldNothing
<1> QED
  BY <1>2, <1>3, <1>4, <1>5 DEF RoomInv

\* Nothing is held after a crash.
LEMMA CrashClears == DaemonTypeOK /\ CrashRestart => RoomInv'
<1> SUFFICES ASSUME DaemonTypeOK, CrashRestart PROVE RoomInv'
  OBVIOUS
<1>1. /\ rooms' = [r \in Room |-> None] /\ allocations' = [a \in Agent |-> None]
      /\ pc' = [w \in Stepper |-> "idle"]
      /\ None \notin Child /\ Child \subseteq Agent /\ PoolAgent \subseteq Agent
  BY ChildrenAreAgents DEF CrashRestart, Thermal!Reset
<1>2. OneRoomEach' /\ Reusing'
  BY <1>1 DEF OneRoomEach, Reusing
<1>3. \A c \in Child : RoomOf(c)' = {} /\ allocations'[c] = None
  BY <1>1 DEF RoomOf
<1>4. UnbornHoldNothing' /\ RetiredHoldNothing'
  BY <1>3 DEF UnbornHoldNothing, RetiredHoldNothing
<1>5. NoSlotLeaks'
  BY <1>1, <1>3 DEF NoSlotLeaks, Pool!WorkersHoldSlots
<1> QED
  BY <1>2, <1>4, <1>5 DEF RoomInv

LEMMA RoomNext ==
    ASSUME OneStepper, DaemonTypeOK, SlotsTypeOK, RoomInv, [Next]_vars
    PROVE  RoomInv'
<1> PICK w : Stepper = {w}
  BY DEF OneStepper
<1>1. Slotted /\ Pool!PoolTypeOK /\ Pool!WorkersHoldSlots
  BY DEF SlotsTypeOK, Slotted, RoomInv, NoSlotLeaks
<1>2. ASSUME UNCHANGED <<rooms, lifecycle, pc, job, worker, allocations>> PROVE RoomInv'
  <2>1. Pool!WorkersHoldSlots'
    BY <1>1, <1>2 DEF Pool!WorkersHoldSlots
  <2> QED
    BY <1>2, <2>1, NothingGiven
<1>3. ASSUME DaemonStep(w) PROVE RoomInv'
  BY <1>1, <1>3, EarlySteps, ChoosingSteps, VacateSteps, HatchSteps, PlacingSteps DEF DaemonStep, Step
<1>4. ASSUME PoolStep PROVE RoomInv'
  <2>1. Pool!WorkersHoldSlots' /\ \A c \in Child : allocations'[c] \in {allocations[c], None}
    BY <1>1, <1>4, PoolShape DEF PoolStep
  <2>2. UNCHANGED <<rooms, lifecycle, pc, job>>
    BY <1>4 DEF PoolStep, daemonVars, gridVars
  <2> QED
    BY <2>1, <2>2, NothingGiven
<1>5. ASSUME CrashRestart PROVE RoomInv'
  BY <1>5, CrashClears
<1>6. ASSUME NEW p, NEW k, QueueBreed(p, k), UNCHANGED poolVars PROVE RoomInv'
  BY <1>2, <1>6 DEF QueueBreed, gridVars, slotVars, poolVars
<1>7. ASSUME NEW r, RoomFires(r), UNCHANGED poolVars PROVE RoomInv'
  BY <1>2, <1>7 DEF RoomFires, slotVars, poolVars
<1>8. CASE UNCHANGED vars
  BY <1>2, <1>8 DEF vars, daemonVars, gridVars, slotVars, poolVars
<1> QED
  BY <1>3, <1>4, <1>5, <1>6, <1>7, <1>8 DEF Next

LEMMA RoomInvHolds == OneStepper => (Spec => []RoomInv)
<1> SUFFICES ASSUME OneStepper PROVE Spec => []RoomInv
  OBVIOUS
<1>1. Init => DaemonTypeOK /\ SlotsTypeOK /\ RoomInv
  BY InitTyped, InitRoomInv
<1>2. DaemonTypeOK /\ SlotsTypeOK /\ RoomInv /\ [Next]_vars
         => (DaemonTypeOK /\ SlotsTypeOK /\ RoomInv)'
  BY TypesNext, RoomNext
<1> QED
  BY <1>1, <1>2, PTL DEF Spec

\* With one thread in step(), beside any number of killers, a slot of the device
\* is always on its way back: the child that holds it sits in a room, or is about
\* to; the worker that holds it has a record.  It is the case however writes fail,
\* parents are sacrificed, children rejected, workers killed and processes restarted.
THEOREM SlotsDoNotLeak == OneStepper => (Spec => []NoSlotLeaks)
<1> SUFFICES ASSUME OneStepper PROVE Spec => []NoSlotLeaks
  OBVIOUS
<1>1. Spec => []RoomInv
  BY RoomInvHolds
<1>2. RoomInv => NoSlotLeaks
  BY DEF RoomInv
<1> QED
  BY <1>1, <1>2, PTL

\* With one thread in step(), an agent recorded as SUNSET has neither a room nor a
\* slot, but for a rejected child until its step ends.
THEOREM RetiredForGood == OneStepper => (Spec => []RetiredHoldNothing)
<1> SUFFICES ASSUME OneStepper PROVE Spec => []RetiredHoldNothing
  OBVIOUS
<1>1. Spec => []RoomInv
  BY RoomInvHolds
<1>2. RoomInv => RetiredHoldNothing
  BY DEF RoomInv
<1> QED
  BY <1>1, <1>2, PTL

\* With one thread in step(), a request is bred once ("Pop the highest-priority
\* unprocessed breed request"); the run breeder_race breeds one twice, with two.
THEOREM AloneServesOnce == OneStepper => (Spec => []ServedOnce)
<1> SUFFICES ASSUME OneStepper PROVE Spec => []ServedOnce
  OBVIOUS
<1>1. Init => DaemonTypeOK /\ SlotsTypeOK /\ PlaceInv
  BY InitTyped, InitInPlace
<1>2. DaemonTypeOK /\ SlotsTypeOK /\ PlaceInv /\ [Next]_vars
         => (DaemonTypeOK /\ SlotsTypeOK /\ PlaceInv)'
  BY TypesNext, PlaceNext
<1>3. PlaceInv => ServedOnce
  <2> SUFFICES ASSUME PlaceInv, NEW q \in Request PROVE Cardinality(children[q]) <= 1
    BY DEF ServedOnce
  <2>1. CASE children[q] = {}
    BY <2>1, FS_EmptySet
  <2>2. CASE children[q] # {}
    <3>1. PICK c : c \in children[q]
      BY <2>2
    <3>2. children[q] = {c}
      BY <3>1 DEF PlaceInv, OneChildEach
    <3>3. Cardinality({c}) = 1
      BY FS_Singleton
    <3> QED
      BY <3>2, <3>3
  <2> QED
    BY <2>1, <2>2
<1> QED
  BY <1>1, <1>2, <1>3, PTL DEF Spec

-----------------------------------------------------------------------------
(* The shared budget, for any number of threads in step().                 *)

\* What a call does to the budget.
BudgetCall ==
    \/ \E a \in Agent : Thermal!Allocate(a, "gpu")
    \/ \E a \in Agent : Thermal!Release(a)
    \/ \E a \in Agent : Thermal!ParentSacrifice(a, "gpu")
    \/ Thermal!Reset
    \/ UNCHANGED slotVars

LEMMA StepCallsBudget ==
    ASSUME DaemonTypeOK, NEW w \in Stepper, Step(w)
    PROVE  BudgetCall
<1>1. /\ pc[w] \in WithOld => job[w].old \in Agent
      /\ pc[w] \in WithChild => job[w].child \in Agent
  BY ChildrenAreAgents DEF DaemonTypeOK, LocalsRead
<1>2. CASE UNCHANGED slotVars
  BY <1>2 DEF BudgetCall
<1>3. CASE SacrificeParent(w)
  <2>1. job[w].ticket.parent \in Agent
    BY <1>3, LabelOf DEF SacrificeParent, Unborn
  <2>. QED BY <1>2, <1>3, <2>1 DEF SacrificeParent, BudgetCall
<1>4. CASE EvictAgent(w)
  BY <1>1, <1>2, <1>4 DEF EvictAgent, FreeSlot, BudgetCall, WithOld
<1>5. CASE AllocateSlot(w)
  BY <1>1, <1>2, <1>5 DEF AllocateSlot, BudgetCall, WithChild
<1>6. CASE RejectChild(w)
  BY <1>1, <1>2, <1>6 DEF RejectChild, FreeSlot, BudgetCall, WithChild
<1>7. CASE ~(SacrificeParent(w) \/ EvictAgent(w) \/ AllocateSlot(w) \/ RejectChild(w))
  BY <1>2, <1>7
     DEF Step, SelectTicket, MarkProcessed, AbortTicket, CheckThermal, GateParent, PickRoom,
         VacateRoom, RetireAgent, CheckPathA, PlaceEgg, Compete, OccupyRoom, CheckLineage,
         RemoveChild, WriteFails
<1>. QED BY <1>3, <1>4, <1>5, <1>6, <1>7

LEMMA PoolCallsBudget ==
    ASSUME Pool!PoolTypeOK, Pool!PoolNext
    PROVE  BudgetCall
<1>1. /\ spawning \in Agent \cup {None} /\ PoolAgent \subseteq Agent
      /\ \A k \in Killer : joining[k] \in Agent \cup {None}
  BY ChildrenAreAgents DEF Pool!PoolTypeOK
<1>2. CASE UNCHANGED slotVars
  BY <1>2 DEF BudgetCall
<1>3. ASSUME NEW a \in PoolAgent, Pool!SpawnWorker(a) PROVE BudgetCall
  BY <1>1, <1>3, SameBudget DEF Pool!SpawnWorker, BudgetCall
<1>4. ASSUME NEW a \in PoolAgent, NEW parent \in Agent, Pool!SacrificeFor(a, parent) PROVE BudgetCall
  BY <1>4, SameBudget DEF Pool!SacrificeFor, BudgetCall
<1>5. ASSUME NEW a \in PoolAgent, NEW k \in Killer, Pool!KillWorker(k, a) PROVE BudgetCall
  BY <1>2, <1>5 DEF Pool!KillWorker, Pool!slotVars, slotVars
<1>6. ASSUME Pool!SpawnAfterSacrifice PROVE BudgetCall
  BY <1>1, <1>2, <1>6, SameBudget
     DEF Pool!SpawnAfterSacrifice, Pool!Unlocked, Pool!slotVars, slotVars, BudgetCall
<1>7. ASSUME NEW k \in Killer, Pool!ReapWorker(k) PROVE BudgetCall
  BY <1>1, <1>2, <1>7, SameBudget DEF Pool!ReapWorker, Pool!slotVars, slotVars, BudgetCall
<1>. QED BY <1>3, <1>4, <1>5, <1>6, <1>7 DEF Pool!PoolNext

LEMMA NextCallsBudget ==
    ASSUME DaemonTypeOK, SlotsTypeOK, [Next]_vars
    PROVE  BudgetCall
<1>1. ASSUME NEW p, NEW k, QueueBreed(p, k) PROVE BudgetCall
  BY <1>1 DEF QueueBreed, BudgetCall
<1>2. ASSUME NEW r \in Room, RoomFires(r) PROVE BudgetCall
  BY <1>2 DEF RoomFires, BudgetCall
<1>3. ASSUME NEW w \in Stepper, DaemonStep(w) PROVE BudgetCall
  BY <1>3, StepCallsBudget DEF DaemonStep
<1>4. CASE PoolStep
  BY <1>4, PoolCallsBudget DEF PoolStep, SlotsTypeOK
<1>5. CASE CrashRestart
  BY <1>5 DEF CrashRestart, BudgetCall
<1>6. CASE UNCHANGED vars
  BY <1>6 DEF vars, BudgetCall
<1>. QED BY <1>1, <1>2, <1>3, <1>4, <1>5, <1>6 DEF Next

\* Whatever threads step, spawn, kill and crash, they use the budget only as
\* ThermalBudget says: a step in any of them is one operation of the budget, or none.
THEOREM BudgetUsedAsSpecified == Spec => Thermal!BudgetSpec
<1>1. Init => DaemonTypeOK /\ SlotsTypeOK /\ Thermal!BudgetInit
  BY InitTyped DEF Init
<1>2. DaemonTypeOK /\ SlotsTypeOK /\ [Next]_vars => DaemonTypeOK' /\ SlotsTypeOK'
  BY TypesNext
<1>3. BudgetCall => [Thermal!BudgetNext]_(Thermal!thermalVars)
  BY DEF BudgetCall, Thermal!BudgetNext, Thermal!thermalVars, slotVars
<1>4. DaemonTypeOK /\ SlotsTypeOK /\ [Next]_vars => [Thermal!BudgetNext]_(Thermal!thermalVars)
  BY <1>3, NextCallsBudget
<1>. QED BY <1>1, <1>2, <1>4, PTL DEF Spec, Thermal!BudgetSpec

-----------------------------------------------------------------------------
\* The count of the device is the number of its holders, who are no more than it
\* has slots for.
BudgetKept ==
    /\ useAuction = FALSE /\ bidQueue = <<>>
    /\ IsFiniteSet(Thermal!Holders("gpu"))
    /\ current["gpu"] = Cardinality(Thermal!Holders("gpu"))
    /\ current["gpu"] <= MaxSlots

LEMMA SameCount == \A S : Thermal!Cardinality(S) = Cardinality(S)
BY DEF Thermal!Cardinality, Cardinality

LEMMA EmptyBudget ==
    ASSUME current = [d \in {"gpu"} |-> 0], allocations = [a \in Agent |-> None],
           useAuction = FALSE, bidQueue = <<>>
    PROVE  BudgetKept
<1>1. Thermal!Holders("gpu") = {}
  BY DaemonAssumption DEF Thermal!Holders
<1>. QED BY <1>1, FS_EmptySet, DaemonAssumption DEF BudgetKept

LEMMA TakeKeepsBudget ==
    ASSUME Slotted, BudgetKept, NEW a \in Agent, Thermal!Allocate(a, "gpu")
    PROVE  BudgetKept'
<1>1. /\ current' = [current EXCEPT !["gpu"] = @ + 1]
      /\ allocations' = [allocations EXCEPT ![a] = "gpu"]
      /\ UNCHANGED <<useAuction, bidQueue>>
      /\ allocations[a] = None /\ current["gpu"] < MaxSlots
  BY DEF Thermal!Allocate, Thermal!CanAllocate, Thermal!HasRoom, Thermal!Take
<1>2. /\ allocations \in [Agent -> {"gpu", None}] /\ current \in [{"gpu"} -> Int]
  BY DEF Slotted, Thermal!TypeOK
<1>3. Thermal!Holders("gpu")' = Thermal!Holders("gpu") \cup {a}
  BY <1>1, <1>2 DEF Thermal!Holders
<1>4. a \notin Thermal!Holders("gpu")
  BY <1>1, DaemonAssumption DEF Thermal!Holders
<1>5. /\ IsFiniteSet(Thermal!Holders("gpu")')
      /\ Cardinality(Thermal!Holders("gpu")') = Cardinality(Thermal!Holders("gpu")) + 1
  BY <1>3, <1>4, FS_AddElement DEF BudgetKept
<1>6. current'["gpu"] = current["gpu"] + 1
  BY <1>1, <1>2
<1>7. current'["gpu"] <= MaxSlots
  BY <1>1, <1>2, <1>6, DaemonAssumption
<1>. QED BY <1>1, <1>5, <1>6, <1>7 DEF BudgetKept

LEMMA ReleaseKeepsBudget ==
    ASSUME Slotted, BudgetKept, NEW a \in Agent, Thermal!Release(a)
    PROVE  BudgetKept'
<1>2. /\ allocations \in [Agent -> {"gpu", None}] /\ current \in [{"gpu"} -> Int]
  BY DEF Slotted, Thermal!TypeOK
<1>1. /\ current' = [current EXCEPT !["gpu"] = @ - 1]
      /\ allocations' = [allocations EXCEPT ![a] = None]
      /\ UNCHANGED <<useAuction, bidQueue>>
      /\ allocations[a] = "gpu"
  BY <1>2 DEF Thermal!Release
<1>3. Thermal!Holders("gpu")' = Thermal!Holders("gpu") \ {a}
  BY <1>1, <1>2, DaemonAssumption DEF Thermal!Holders
<1>4. a \in Thermal!Holders("gpu")
  BY <1>1 DEF Thermal!Holders
<1>5. /\ IsFiniteSet(Thermal!Holders("gpu")')
      /\ Cardinality(Thermal!Holders("gpu")') = Cardinality(Thermal!Holders("gpu")) - 1
  BY <1>3, <1>4, FS_RemoveElement DEF BudgetKept
<1>6. current'["gpu"] = current["gpu"] - 1
  BY <1>1, <1>2
<1>7. current'["gpu"] <= MaxSlots
  BY <1>2, <1>6, DaemonAssumption DEF BudgetKept
<1>. QED BY <1>1, <1>5, <1>6, <1>7 DEF BudgetKept

LEMMA CallKeepsBudget ==
    ASSUME Slotted, BudgetKept, BudgetCall
    PROVE  BudgetKept'
<1>1. CASE Thermal!Reset
  <2>1. Thermal!Holders("gpu")' = {}
    BY <1>1, DaemonAssumption DEF Thermal!Reset, Thermal!Holders
  <2>2. IsFiniteSet(Thermal!Holders("gpu")') /\ Cardinality(Thermal!Holders("gpu")') = 0
    BY <2>1, FS_EmptySet
  <2>3. current'["gpu"] = 0 /\ bidQueue' = <<>> /\ useAuction' = FALSE
    BY <1>1 DEF Thermal!Reset, BudgetKept
  <2>. QED BY <2>2, <2>3, DaemonAssumption DEF BudgetKept
<1>2. CASE UNCHANGED slotVars
  BY <1>2 DEF slotVars, BudgetKept, Thermal!Holders
<1>. QED BY <1>1, <1>2, TakeKeepsBudget, ReleaseKeepsBudget DEF BudgetCall, Thermal!ParentSacrifice

\* The budget that threads in step(), spawns and kills share, a sacrificed parent
\* between its release and the slot of its child included, hands out no more slots
\* than the device has, and counts each that is held, for any number of threads.
THEOREM SharedBudgetKept == Spec => [](Thermal!NeverOvercommitted /\ Thermal!DirectSlotsAccounted)
<1>1. Init => DaemonTypeOK /\ SlotsTypeOK /\ BudgetKept
  BY InitTyped, EmptyBudget DEF Init, Thermal!BudgetInit
<1>2. /\ DaemonTypeOK /\ SlotsTypeOK /\ BudgetKept /\ [Next]_vars
         => DaemonTypeOK' /\ SlotsTypeOK' /\ BudgetKept'
  BY TypesNext, NextCallsBudget, CallKeepsBudget DEF SlotsTypeOK, Slotted
<1>3. BudgetKept => Thermal!NeverOvercommitted /\ Thermal!DirectSlotsAccounted
  <2>. SUFFICES ASSUME BudgetKept PROVE Thermal!NeverOvercommitted /\ Thermal!DirectSlotsAccounted
    OBVIOUS
  <2>1. Cardinality(Thermal!Holders("gpu")) \in Nat
    BY FS_CardinalityType DEF BudgetKept
  <2>. QED BY <2>1, SameCount DEF BudgetKept, Thermal!NeverOvercommitted, Thermal!DirectSlotsAccounted,
                       Thermal!SlotsAccounted
<1>. QED BY <1>1, <1>2, <1>3, PTL DEF Spec

\* A worker that holds a slot has a record, by which it can be killed, however many
\* threads step, evict and sacrifice beside the pool.
THEOREM WorkersSlotsRecorded == Spec => []Pool!WorkersHoldSlots
<1>1. Init => DaemonTypeOK /\ SlotsTypeOK /\ Pool!WorkersHoldSlots
  BY InitTyped DEF Init, Thermal!BudgetInit, Pool!WorkersHoldSlots, Agent
<1>2. DaemonTypeOK /\ SlotsTypeOK /\ Pool!WorkersHoldSlots /\ [Next]_vars
         => DaemonTypeOK' /\ SlotsTypeOK' /\ Pool!WorkersHoldSlots'
  <2>. SUFFICES ASSUME DaemonTypeOK, SlotsTypeOK, Pool!WorkersHoldSlots, [Next]_vars
                PROVE  Pool!WorkersHoldSlots'
    BY TypesNext
  <2>1. ASSUME UNCHANGED <<slotVars, poolVars>> PROVE Pool!WorkersHoldSlots'
    BY <2>1 DEF slotVars, poolVars, Pool!WorkersHoldSlots
  <2>2. ASSUME NEW p, NEW k, QueueBreed(p, k), UNCHANGED poolVars PROVE Pool!WorkersHoldSlots'
    BY <2>1, <2>2 DEF QueueBreed
  <2>3. ASSUME NEW r \in Room, RoomFires(r), UNCHANGED poolVars PROVE Pool!WorkersHoldSlots'
    BY <2>1, <2>3 DEF RoomFires
  <2>4. ASSUME NEW w \in Stepper, DaemonStep(w) PROVE Pool!WorkersHoldSlots'
    <3>1. worker' = worker /\ \A p \in PoolAgent : allocations'[p] \in {allocations[p], None}
      BY <2>4, SlotsTyped DEF DaemonStep, poolVars, SlotsTypeOK, Slotted
    <3>. QED BY <3>1 DEF Pool!WorkersHoldSlots
  <2>5. CASE PoolStep
    BY <2>5, PoolShape DEF PoolStep, SlotsTypeOK, Slotted
  <2>6. CASE CrashRestart
    BY <2>6, ChildrenAreAgents DEF CrashRestart, Thermal!Reset, Pool!WorkersHoldSlots
  <2>7. CASE UNCHANGED vars
    BY <2>1, <2>7 DEF vars
  <2>. QED BY <2>2, <2>3, <2>4, <2>5, <2>6, <2>7 DEF Next
<1>. QED BY <1>1, <1>2, PTL DEF Spec
=============================================================================
