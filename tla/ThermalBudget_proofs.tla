------------------------ MODULE ThermalBudget_proofs ------------------------
(***************************************************************************)
(* Theorems about ThermalBudget for every set of agents and devices and    *)
(* every budget: the direct mode counts the holders, and in either mode no *)
(* device is given out more often than it has slots and no bid passes over *)
(* a better one.                                                           *)
(***************************************************************************)
EXTENDS ThermalBudget, FiniteSetTheorems, SequenceTheorems, WellFoundedInduction, TLAPS

\* What the direct mode preserves: nothing is ever queued, every count is the
\* number of holders, and no count exceeds its maximum.
Accounted ==
    /\ current \in [Device -> Nat]
    /\ allocations \in [Agent -> Device \cup {NoDevice}]
    /\ bidQueue = <<>>
    /\ \A d \in Device : current[d] = Cardinality(Holders(d)) /\ current[d] <= MaxAgents[d]

DirectInv == useAuction \in BOOLEAN /\ (~useAuction => Accounted)

\* The holders of a device are some of the agents, so they can be counted.
LEMMA HoldersFinite ==
    ASSUME NEW d
    PROVE  IsFiniteSet(Holders(d)) /\ Cardinality(Holders(d)) \in Nat
<1>1. Holders(d) \subseteq Agent
  BY DEF Holders
<1>2. IsFiniteSet(Holders(d))
  BY <1>1, BudgetAssumption, FS_Subset
<1> QED
  BY <1>2, FS_CardinalityType

\* A slot given to an agent without one, on a device with room.
LEMMA TakeAccounted ==
    ASSUME Accounted, NEW a \in Agent, NEW d \in Device,
           allocations[a] = NoDevice, HasRoom(d), Take(a, d)
    PROVE  Accounted'
<1>1. /\ current' = [current EXCEPT ![d] = @ + 1]
      /\ allocations' = [allocations EXCEPT ![a] = d]
      /\ bidQueue' = <<>>
  BY DEF Take, Accounted
<1>2. /\ current' \in [Device -> Nat]
      /\ allocations' \in [Agent -> Device \cup {NoDevice}]
  BY <1>1 DEF Accounted
<1>3. ASSUME NEW e \in Device
      PROVE  current'[e] = Cardinality(Holders(e)') /\ current'[e] <= MaxAgents[e]
  <2>1. CASE e = d
    <3>1. Holders(e)' = Holders(e) \cup {a}
      BY <1>1, <2>1 DEF Holders, Accounted
    <3>2. a \notin Holders(e)
      BY <2>1, BudgetAssumption DEF Holders
    <3>3. Cardinality(Holders(e) \cup {a}) = Cardinality(Holders(e)) + 1
      BY <3>2, HoldersFinite, FS_AddElement
    <3>4. current'[e] = current[e] + 1
      BY <1>1, <2>1 DEF Accounted
    <3> QED
      BY <3>1, <3>3, <3>4, <2>1, BudgetAssumption DEF Accounted, HasRoom
  <2>2. CASE e # d
    <3>1. Holders(e)' = Holders(e)
      BY <1>1, <2>2, BudgetAssumption DEF Holders, Accounted
    <3>2. current'[e] = current[e]
      BY <1>1, <2>2 DEF Accounted
    <3> QED
      BY <3>1, <3>2 DEF Accounted
  <2> QED
    BY <2>1, <2>2
<1> QED
  BY <1>1, <1>2, <1>3 DEF Accounted

\* A slot taken back from the agent that held it.
LEMMA ReleaseAccounted ==
    ASSUME Accounted, NEW a \in Agent, Release(a)
    PROVE  Accounted'
<1> DEFINE d == allocations[a]
<1>1. /\ d \in Device
      /\ current' = [current EXCEPT ![d] = @ - 1]
      /\ allocations' = [allocations EXCEPT ![a] = NoDevice]
      /\ bidQueue' = <<>>
  BY DEF Release, Accounted
<1>2. a \in Holders(d)
  BY DEF Holders
<1>3. Cardinality(Holders(d) \ {a}) = Cardinality(Holders(d)) - 1
  BY <1>2, HoldersFinite, FS_RemoveElement
<1>4. IsFiniteSet(Holders(d) \ {a})
  BY HoldersFinite, FS_RemoveElement
<1>5. Cardinality(Holders(d) \ {a}) \in Nat
  BY <1>4, FS_CardinalityType
<1>6. current[d] - 1 \in Nat /\ current[d] - 1 = Cardinality(Holders(d) \ {a})
  BY <1>1, <1>3, <1>5 DEF Accounted
<1>7. current' \in [Device -> Nat] /\ allocations' \in [Agent -> Device \cup {NoDevice}]
  BY <1>1, <1>6 DEF Accounted
<1>8. ASSUME NEW e \in Device
      PROVE  current'[e] = Cardinality(Holders(e)') /\ current'[e] <= MaxAgents[e]
  <2>1. CASE e = d
    <3>1. Holders(e)' = Holders(e) \ {a}
      BY <1>1, <2>1, BudgetAssumption DEF Holders, Accounted
    <3>2. current'[e] = current[e] - 1
      BY <1>1, <2>1 DEF Accounted
    <3> QED
      BY <3>1, <3>2, <1>6, <2>1, BudgetAssumption DEF Accounted
  <2>2. CASE e # d
    <3>1. Holders(e)' = Holders(e)
      BY <1>1, <2>2, BudgetAssumption DEF Holders, Accounted
    <3>2. current'[e] = current[e]
      BY <1>1, <2>2 DEF Accounted
    <3> QED
      BY <3>1, <3>2 DEF Accounted
  <2> QED
    BY <2>1, <2>2
<1> QED
  BY <1>1, <1>7, <1>8 DEF Accounted

\* With no slot held every count is zero.
LEMMA EmptyAccounted ==
    ASSUME current = [d \in Device |-> 0], allocations = [a \in Agent |-> NoDevice], bidQueue = <<>>
    PROVE  Accounted
<1>1. \A d \in Device : Holders(d) = {}
  BY BudgetAssumption DEF Holders
<1>2. \A d \in Device : Cardinality(Holders(d)) = 0
  BY <1>1, FS_EmptySet
<1> QED
  BY <1>2, BudgetAssumption DEF Accounted

\* Every method keeps the direct mode accounted.
LEMMA DirectNext == DirectInv /\ [BudgetNext]_thermalVars => DirectInv'
<1> SUFFICES ASSUME DirectInv, [BudgetNext]_thermalVars PROVE DirectInv'
  OBVIOUS
<1>1. useAuction' = useAuction
  BY DEF BudgetNext, thermalVars, Allocate, Take, Release, ParentSacrifice, SpawnWithThermalCheck,
         QueueBid, BudgetTick, Reset
<1>2. SUFFICES ASSUME ~useAuction PROVE Accounted'
  BY <1>1 DEF DirectInv
<1>3. Accounted
  BY <1>2 DEF DirectInv
<1>4. ASSUME NEW a \in Agent, NEW d \in Device, Allocate(a, d) PROVE Accounted'
  BY <1>3, <1>4, TakeAccounted DEF Allocate, CanAllocate
<1>5. ASSUME NEW a \in Agent, Release(a) PROVE Accounted'
  BY <1>3, <1>5, ReleaseAccounted
<1>6. ASSUME NEW a \in Agent, NEW d \in Device, ParentSacrifice(a, d) PROVE Accounted'
  BY <1>3, <1>6, ReleaseAccounted DEF ParentSacrifice
<1>7. ASSUME NEW a \in Agent, NEW c \in [1 .. Cardinality(Device) -> Device],
             SpawnWithThermalCheck(a, c)
      PROVE  Accounted'
  <2>1. PICK i \in DOMAIN c : HasRoom(c[i]) /\ Take(a, c[i])
    BY <1>7 DEF SpawnWithThermalCheck
  <2>2. c[i] \in Device /\ allocations[a] = NoDevice
    BY <1>7 DEF SpawnWithThermalCheck
  <2> QED
    BY <1>3, <2>1, <2>2, TakeAccounted
<1>8. ASSUME NEW b \in Bid, QueueBid(b) PROVE Accounted'
  BY <1>2, <1>8 DEF QueueBid
<1>9. ASSUME BudgetTick PROVE Accounted'
  <2>1. UNCHANGED <<current, allocations, bidQueue>>
    BY <1>3, <1>9 DEF BudgetTick, Accounted
  <2> QED
    BY <1>3, <2>1 DEF Accounted, Holders
<1>10. ASSUME Reset PROVE Accounted'
  <2>1. /\ current' = [d \in Device |-> 0]
        /\ allocations' = [a \in Agent |-> NoDevice]
        /\ bidQueue' = <<>>
    BY <1>10 DEF Reset
  <2>2. \A d \in Device : Holders(d)' = {}
    BY <2>1, BudgetAssumption DEF Holders
  <2>3. \A d \in Device : Cardinality(Holders(d)') = 0
    BY <2>2, FS_EmptySet
  <2> QED
    BY <2>1, <2>3, BudgetAssumption DEF Accounted
<1>11. ASSUME UNCHANGED thermalVars PROVE Accounted'
  BY <1>3, <1>11 DEF thermalVars, Accounted, Holders
<1> QED
  BY <1>4, <1>5, <1>6, <1>7, <1>8, <1>9, <1>10, <1>11 DEF BudgetNext

\* The accounting is an invariant of the budget.
LEMMA DirectInvariant == BudgetSpec => []DirectInv
<1>1. BudgetInit => DirectInv
  BY EmptyAccounted DEF BudgetInit, DirectInv
<1> QED
  BY <1>1, DirectNext, PTL DEF BudgetSpec

\* Without the auction, the count of a device is the number of agents that hold
\* its slots, after any sequence of calls from any number of threads.
THEOREM DirectSlotsAccountedHolds == BudgetSpec => []DirectSlotsAccounted
<1>1. DirectInv => DirectSlotsAccounted
  BY DEF DirectInv, Accounted, DirectSlotsAccounted, SlotsAccounted
<1> QED
  BY <1>1, DirectInvariant, PTL

-----------------------------------------------------------------------------
(* Both modes.                                                             *)

BudgetInv ==
    /\ TypeOK
    /\ \A d \in Device : 0 <= current[d]
    /\ NeverOvercommitted

\* R orders S strictly and totally.
Ordered(S, R) ==
    /\ \A x, y \in S : x # y => <<x, y>> \in R \/ <<y, x>> \in R
    /\ \A x, y, z \in S : <<x, y>> \in R /\ <<y, z>> \in R => <<x, z>> \in R
    /\ \A x \in S : <<x, x>> \notin R
First(m, S, R) == m \in S /\ \A x \in S \ {m} : <<m, x>> \in R

\* Something that is ordered strictly and totally, and finite, has a first
\* member: the sets of what is before each one are ordered by inclusion.
LEMMA FirstExists ==
    ASSUME NEW S, IsFiniteSet(S), S # {}, NEW R, Ordered(S, R)
    PROVE  \E m : First(m, S, R)
<1> USE DEF Ordered, First
<1> DEFINE Ahead(m) == {x \in S : <<x, m>> \in R}
           B == {Ahead(m) : m \in S}
<1>1. \A m \in S : Ahead(m) \in FiniteSubsetsOf(S)
  BY FS_Subset DEF FiniteSubsetsOf
<1>2. B \subseteq FiniteSubsetsOf(S) /\ B # {}
  <2> HIDE DEF Ahead
  <2> QED
    BY <1>1
<1>3. PICK b \in B : \A c \in B : ~(<<c, b>> \in StrictSubsetOrdering(S))
  <2> HIDE DEF B
  <2> QED
    BY <1>2, WFMin, FS_StrictSubsetOrderingWellFounded
<1>4. PICK m \in S : b = Ahead(m)
  OBVIOUS
<1>5. ASSUME NEW x \in S \ {m}, <<x, m>> \in R PROVE FALSE
  <2>1. Ahead(x) \subseteq Ahead(m) /\ x \in Ahead(m) /\ x \notin Ahead(x)
    BY <1>5
  <2>2. Ahead(x) \in B /\ Ahead(x) # Ahead(m) /\ Ahead(x) \in SUBSET S /\ Ahead(m) \in SUBSET S
    BY <2>1
  <2> HIDE DEF Ahead, B
  <2> QED
    BY <1>3, <1>4, <2>1, <2>2 DEF StrictSubsetOrdering
<1> QED
  BY <1>5

LEMMA QueueFacts ==
    ASSUME TypeOK
    PROVE  /\ Len(bidQueue) \in Nat /\ DOMAIN bidQueue = 1 .. Len(bidQueue) /\ IsFiniteSet(DOMAIN bidQueue)
           /\ \A i \in DOMAIN bidQueue :
                 /\ bidQueue[i].agent \in Agent /\ bidQueue[i].device \in Device
                 /\ bidQueue[i].rank \in Nat /\ i \in Nat
<1>1. bidQueue \in Seq(Bid) /\ Len(bidQueue) \in Nat /\ DOMAIN bidQueue = 1 .. Len(bidQueue)
  BY LenProperties DEF TypeOK
<1>2. IsFiniteSet(1 .. Len(bidQueue))
  BY <1>1, FS_Interval
<1>3. ASSUME NEW i \in DOMAIN bidQueue
      PROVE  bidQueue[i].agent \in Agent /\ bidQueue[i].device \in Device /\ bidQueue[i].rank \in Nat /\ i \in Nat
  <2>1. bidQueue[i] \in Bid
    BY <1>1, <1>3, ElementOfSeq
  <2>2. i \in Nat
    BY <1>1, <1>3
  <2>3. Rank \subseteq Nat
    BY BudgetAssumption
  <2> QED
    BY <2>1, <2>2, <2>3 DEF Bid
<1> QED
  BY <1>1, <1>2, <1>3

\* Bids are sorted: strictly, and any two of them.
LEMMA BeatsOrder ==
    ASSUME TypeOK, NEW i \in DOMAIN bidQueue, NEW j \in DOMAIN bidQueue, NEW k \in DOMAIN bidQueue
    PROVE  /\ ~Beats(i, i)
           /\ Beats(i, j) /\ Beats(j, k) => Beats(i, k)
           /\ i # j /\ bidQueue[i].device = bidQueue[j].device => Beats(i, j) \/ Beats(j, i)
BY QueueFacts DEF Beats

LEMMA NamedOrder ==
    ASSUME TypeOK, NEW d, NEW e, NEW f
    PROVE  /\ ~NamedBefore(d, d)
           /\ NamedBefore(d, e) /\ NamedBefore(e, f) => NamedBefore(d, f)
<1>1. ~NamedBefore(d, d)
  BY QueueFacts DEF NamedBefore
<1>2. ASSUME NamedBefore(d, e), NamedBefore(e, f) PROVE NamedBefore(d, f)
  <2>1. PICK i \in DOMAIN bidQueue : bidQueue[i].device = d /\ \A n \in 1 .. i : bidQueue[n].device # e
    BY <1>2 DEF NamedBefore
  <2>2. PICK j \in DOMAIN bidQueue : bidQueue[j].device = e /\ \A n \in 1 .. j : bidQueue[n].device # f
    BY <1>2 DEF NamedBefore
  <2>3. i \in Nat /\ j \in Nat /\ 1 <= j /\ ~(j \in 1 .. i)
    BY <2>1, <2>2, QueueFacts
  <2>4. \A n \in 1 .. i : n \in 1 .. j
    BY <2>3
  <2> QED
    BY <2>1, <2>2, <2>4 DEF NamedBefore
<1> QED
  BY <1>1, <1>2

LEMMA NamedTotal ==
    ASSUME TypeOK, NEW i \in DOMAIN bidQueue, NEW j \in DOMAIN bidQueue, bidQueue[i].device # bidQueue[j].device
    PROVE  NamedBefore(bidQueue[i].device, bidQueue[j].device) \/ NamedBefore(bidQueue[j].device, bidQueue[i].device)
<1> DEFINE S == {n \in DOMAIN bidQueue : bidQueue[n].device \in {bidQueue[i].device, bidQueue[j].device}}
           R == {q \in S \X S : q[1] < q[2]}
<1>1. IsFiniteSet(S) /\ S # {} /\ S \subseteq Nat
  BY QueueFacts, FS_Subset
<1>2. \A x, y \in S : <<x, y>> \in R <=> x < y
  OBVIOUS
<1>3. PICK m \in S : \A x \in S \ {m} : <<m, x>> \in R
  <2>1. Ordered(S, R)
    <3> HIDE DEF R, S
    <3>1. \A x, y \in S : x # y => x < y \/ y < x
      BY <1>1
    <3>2. \A x, y, z \in S : x < y /\ y < z => x < z
      BY <1>1
    <3>3. \A x \in S : ~(x < x)
      BY <1>1
    <3> QED
      BY <1>2, <3>1, <3>2, <3>3 DEF Ordered
  <2>2. IsFiniteSet(S) /\ S # {}
    BY <1>1
  <2> HIDE DEF R, S
  <2> QED
    BY <2>1, <2>2, FirstExists DEF First
<1>4. \A x \in S : ~(x < m)
  <2> HIDE DEF R, S
  <2> SUFFICES ASSUME NEW x \in S, x < m PROVE FALSE
    OBVIOUS
  <2>1. x # m /\ ~(m < x)
    BY <1>1
  <2> QED
    BY <1>2, <1>3, <2>1
<1>5. \A n \in 1 .. m : n = m \/ bidQueue[n].device \notin {bidQueue[i].device, bidQueue[j].device}
  <2> SUFFICES ASSUME NEW n \in 1 .. m, n # m PROVE n \notin S /\ n \in DOMAIN bidQueue
    OBVIOUS
  <2>1. m \in 1 .. Len(bidQueue) /\ Len(bidQueue) \in Nat
    BY QueueFacts
  <2> QED
    BY <1>4, <2>1, QueueFacts
<1>6. m \in DOMAIN bidQueue /\ bidQueue[m].device \in {bidQueue[i].device, bidQueue[j].device}
  OBVIOUS
<1> HIDE DEF S, R
<1> QED
  BY <1>5, <1>6 DEF NamedBefore

LEMMA PrecedesOrder ==
    ASSUME TypeOK, NEW i \in DOMAIN bidQueue, NEW j \in DOMAIN bidQueue, NEW k \in DOMAIN bidQueue
    PROVE  /\ ~Precedes(i, i)
           /\ Precedes(i, j) /\ Precedes(j, k) => Precedes(i, k)
           /\ i # j => Precedes(i, j) \/ Precedes(j, i)
<1>1. \A m, n \in {i, j, k} : Beats(m, n) => bidQueue[m].device = bidQueue[n].device
  BY DEF Beats
<1>2. ~Precedes(i, i)
  BY BeatsOrder, NamedOrder DEF Precedes
<1>3. Precedes(i, j) /\ Precedes(j, k) => Precedes(i, k)
  BY <1>1, BeatsOrder, NamedOrder DEF Precedes
<1>4. i # j => Precedes(i, j) \/ Precedes(j, i)
  BY BeatsOrder, NamedTotal DEF Precedes
<1> QED
  BY <1>2, <1>3, <1>4

\* The first and the last win of a winner are wins of that agent.
LEMMA WinsFacts ==
    ASSUME TypeOK, NEW a \in Winners
    PROVE  /\ FirstWin(a) \in Wins(a)
           /\ WonDevice(a) \in Device
           /\ \A i : Wins(a) = {i} => FirstWin(a) = i /\ WonDevice(a) = bidQueue[i].device
<1> DEFINE R == {q \in Wins(a) \X Wins(a) : Precedes(q[1], q[2])}
           Back == {q \in Wins(a) \X Wins(a) : Precedes(q[2], q[1])}
<1>1. Wins(a) \subseteq DOMAIN bidQueue /\ IsFiniteSet(Wins(a)) /\ Wins(a) # {}
  <2>1. Wins(a) \subseteq DOMAIN bidQueue /\ Wins(a) # {}
    BY DEF Wins, WinningBids, Winners
  <2> QED
    BY <2>1, QueueFacts, FS_Subset
<1>2. /\ \A x, y \in Wins(a) : <<x, y>> \in R <=> Precedes(x, y)
      /\ \A x, y \in Wins(a) : <<x, y>> \in Back <=> Precedes(y, x)
  OBVIOUS
<1>3. /\ \A x, y \in Wins(a) : x # y => Precedes(x, y) \/ Precedes(y, x)
      /\ \A x, y, z \in Wins(a) : Precedes(x, y) /\ Precedes(y, z) => Precedes(x, z)
      /\ \A x \in Wins(a) : ~Precedes(x, x)
  BY <1>1, PrecedesOrder
<1> HIDE DEF R, Back
<1>4. Ordered(Wins(a), R)
  BY <1>2, <1>3 DEF Ordered
<1>5. Ordered(Wins(a), Back)
  BY <1>2, <1>3 DEF Ordered
<1>6. \E m : First(m, Wins(a), R)
  BY <1>1, <1>4, FirstExists
<1>7. \E m : First(m, Wins(a), Back)
  BY <1>1, <1>5, FirstExists
<1>8. FirstWin(a) \in Wins(a)
  <2>1. \E m \in Wins(a) : \A x \in Wins(a) \ {m} : Precedes(m, x)
    BY <1>2, <1>6 DEF First
  <2> QED
    BY <2>1 DEF FirstWin
<1> DEFINE last == CHOOSE i \in Wins(a) : \A j \in Wins(a) \ {i} : Precedes(j, i)
<1>9. last \in Wins(a)
  <2>1. \E m \in Wins(a) : \A x \in Wins(a) \ {m} : Precedes(x, m)
    BY <1>2, <1>7 DEF First
  <2> QED
    BY <2>1
<1>10. WonDevice(a) = bidQueue[last].device
  BY DEF WonDevice
<1> HIDE DEF last
<1>11. WonDevice(a) \in Device
  BY <1>1, <1>9, <1>10, QueueFacts
<1> QED
  BY <1>8, <1>9, <1>10, <1>11

\* An auction grants no more slots of a device than are free: consider the last
\* of those it grants.
Grants(d) == {a \in Winners : Granted(a) /\ WonDevice(a) = d}

LEMMA GrantsFit ==
    ASSUME BudgetInv, NEW d \in Device
    PROVE  /\ IsFiniteSet(Grants(d)) /\ Cardinality(Grants(d)) \in Nat
           /\ current[d] + Cardinality(Grants(d)) <= MaxAgents[d]
<1> USE DEF BudgetInv
<1>1. Winners \subseteq Agent /\ Grants(d) \subseteq Winners
  BY QueueFacts DEF Winners, WinningBids, Grants
<1>2. IsFiniteSet(Winners)
  BY <1>1, BudgetAssumption, FS_Subset
<1>3. IsFiniteSet(Grants(d)) /\ Cardinality(Grants(d)) \in Nat
  BY <1>1, <1>2, FS_Subset, FS_CardinalityType
<1>4. current[d] \in Int /\ MaxAgents[d] \in Nat /\ current[d] <= MaxAgents[d]
  BY BudgetAssumption DEF TypeOK, NeverOvercommitted
<1>5. CASE Grants(d) = {}
  BY <1>3, <1>4, <1>5, FS_EmptySet
<1>6. CASE Grants(d) # {}
  <2> DEFINE R == {q \in Grants(d) \X Grants(d) : Precedes(FirstWin(q[2]), FirstWin(q[1]))}
  <2>1. \A x, y \in Grants(d) : <<x, y>> \in R <=> Precedes(FirstWin(y), FirstWin(x))
    OBVIOUS
  <2> HIDE DEF R
  <2>2. \A x \in Grants(d) : FirstWin(x) \in DOMAIN bidQueue /\ bidQueue[FirstWin(x)].agent = x
    <3> SUFFICES ASSUME NEW x \in Grants(d)
                 PROVE  FirstWin(x) \in DOMAIN bidQueue /\ bidQueue[FirstWin(x)].agent = x
      OBVIOUS
    <3>1. FirstWin(x) \in Wins(x)
      BY <1>1, WinsFacts
    <3> QED
      BY <3>1 DEF Wins, WinningBids
  <2>3. \A x, y \in Grants(d) : x # y => FirstWin(x) # FirstWin(y)
    BY <2>2
  <2>4. /\ \A x, y \in Grants(d) : x # y => Precedes(FirstWin(x), FirstWin(y)) \/ Precedes(FirstWin(y), FirstWin(x))
        /\ \A x, y, z \in Grants(d) : Precedes(FirstWin(x), FirstWin(y)) /\ Precedes(FirstWin(y), FirstWin(z))
              => Precedes(FirstWin(x), FirstWin(z))
        /\ \A x \in Grants(d) : ~Precedes(FirstWin(x), FirstWin(x))
    BY <2>2, <2>3, PrecedesOrder
  <2>5. Ordered(Grants(d), R)
    BY <2>1, <2>4 DEF Ordered
  <2>6. \E m : First(m, Grants(d), R)
    <3>1. IsFiniteSet(Grants(d))
      BY <1>3
    <3> QED
      BY <1>6, <2>5, <3>1, FirstExists
  <2>7. PICK m \in Grants(d) : \A x \in Grants(d) \ {m} : Precedes(FirstWin(x), FirstWin(m))
    BY <2>1, <2>6 DEF First
  <2> DEFINE A == {b \in Winners : WonDevice(b) = WonDevice(m) /\ Precedes(FirstWin(b), FirstWin(m))}
  <2>8. Cardinality(A) < MaxAgents[d] - current[d]
    BY DEF Grants, Granted
  <2>9. Grants(d) \ {m} \subseteq A
    BY <1>1, <2>7 DEF Grants
  <2>10. IsFiniteSet(A)
    BY <1>2, FS_Subset
  <2> HIDE DEF A
  <2>11. Cardinality(Grants(d) \ {m}) <= Cardinality(A) /\ Cardinality(A) \in Nat
    BY <2>9, <2>10, FS_Subset, FS_CardinalityType
  <2>12. Cardinality(Grants(d) \ {m}) = Cardinality(Grants(d)) - 1
    BY <1>3, <2>7, FS_RemoveElement
  <2> QED
    BY <1>3, <1>4, <2>8, <2>11, <2>12
<1> QED
  BY <1>5, <1>6

LEMMA AuctionKeeps ==
    ASSUME BudgetInv, RunAuction
    PROVE  /\ current' \in [Device -> Int] /\ allocations' \in [Agent -> Device \cup {NoDevice}]
           /\ \A d \in Device : 0 <= current'[d]
           /\ NeverOvercommitted'
<1> USE DEF BudgetInv
<1> DEFINE G == {a \in Winners : Granted(a)}
<1>1. /\ current' = [d \in Device |-> current[d] + Cardinality({a \in G : WonDevice(a) = d})]
      /\ allocations' = [a \in Agent |-> IF a \in G THEN WonDevice(a) ELSE allocations[a]]
  BY DEF RunAuction
<1>2. \A d \in Device : {a \in G : WonDevice(a) = d} = Grants(d)
  BY DEF Grants
<1>3. \A a \in G : WonDevice(a) \in Device
  BY WinsFacts
<1> HIDE DEF G
<1>4. \A d \in Device : current'[d] = current[d] + Cardinality(Grants(d))
  BY <1>1, <1>2
<1>5. allocations' \in [Agent -> Device \cup {NoDevice}]
  BY <1>1, <1>3 DEF TypeOK
<1>6. ASSUME NEW d \in Device
      PROVE  /\ current'[d] \in Int /\ 0 <= current'[d]
             /\ Cardinality(Holders(d)') <= current'[d] /\ current'[d] <= MaxAgents[d]
  <2>1. /\ current[d] \in Int /\ 0 <= current[d] /\ MaxAgents[d] \in Nat
        /\ Cardinality(Holders(d)) <= current[d]
    BY BudgetAssumption DEF TypeOK, NeverOvercommitted
  <2>2. IsFiniteSet(Grants(d)) /\ Cardinality(Grants(d)) \in Nat /\ current[d] + Cardinality(Grants(d)) <= MaxAgents[d]
    BY GrantsFit
  <2>3. Holders(d)' \subseteq Holders(d) \cup Grants(d)
    BY <1>1, <1>2 DEF Holders
  <2>4. /\ IsFiniteSet(Holders(d)) /\ IsFiniteSet(Holders(d) \cap Grants(d))
        /\ Cardinality(Holders(d)) \in Nat /\ Cardinality(Holders(d) \cap Grants(d)) \in Nat
    BY HoldersFinite, FS_Subset, FS_CardinalityType
  <2>5. /\ IsFiniteSet(Holders(d) \cup Grants(d))
        /\ Cardinality(Holders(d) \cup Grants(d))
              = Cardinality(Holders(d)) + Cardinality(Grants(d)) - Cardinality(Holders(d) \cap Grants(d))
    BY <2>2, <2>4, FS_Union
  <2>6. Cardinality(Holders(d)') <= Cardinality(Holders(d) \cup Grants(d)) /\ Cardinality(Holders(d)') \in Nat
    BY <2>3, <2>5, FS_Subset, FS_CardinalityType
  <2>7. current'[d] = current[d] + Cardinality(Grants(d))
    BY <1>4
  <2>8. Cardinality(Holders(d)') <= Cardinality(Holders(d)) + Cardinality(Grants(d))
    BY <2>2, <2>4, <2>5, <2>6
  <2> QED
    BY <2>1, <2>2, <2>4, <2>6, <2>7, <2>8
<1>7. current' = [d \in Device |-> current'[d]]
  BY <1>1
<1> QED
  BY <1>5, <1>6, <1>7 DEF NeverOvercommitted

LEMMA TakeKeeps ==
    ASSUME BudgetInv, NEW a \in Agent, NEW d \in Device, allocations[a] = NoDevice, HasRoom(d), Take(a, d)
    PROVE  BudgetInv'
<1> USE DEF BudgetInv
<1>1. /\ current' = [current EXCEPT ![d] = @ + 1]
      /\ allocations' = [allocations EXCEPT ![a] = d]
      /\ UNCHANGED <<useAuction, bidQueue, ticks>>
  BY DEF Take
<1>2. TypeOK'
  BY <1>1 DEF TypeOK
<1>3. ASSUME NEW e \in Device
      PROVE  0 <= current'[e] /\ Cardinality(Holders(e)') <= current'[e] /\ current'[e] <= MaxAgents[e]
  <2>1. /\ current[e] \in Int /\ MaxAgents[e] \in Nat /\ 0 <= current[e]
        /\ Cardinality(Holders(e)) <= current[e] /\ current[e] <= MaxAgents[e]
        /\ Cardinality(Holders(e)) \in Nat
    BY BudgetAssumption, HoldersFinite DEF TypeOK, NeverOvercommitted
  <2>2. CASE e = d
    <3>1. Holders(e)' = Holders(e) \cup {a} /\ a \notin Holders(e)
      BY <1>1, <2>2, BudgetAssumption DEF Holders, TypeOK
    <3>2. Cardinality(Holders(e)') = Cardinality(Holders(e)) + 1
      BY <3>1, HoldersFinite, FS_AddElement
    <3>3. current'[e] = current[e] + 1 /\ current[e] < MaxAgents[e]
      BY <1>1, <2>2 DEF TypeOK, HasRoom
    <3> QED
      BY <2>1, <3>2, <3>3
  <2>3. CASE e # d
    <3>1. Holders(e)' = Holders(e) /\ current'[e] = current[e]
      BY <1>1, <2>3, BudgetAssumption DEF Holders, TypeOK
    <3> QED
      BY <2>1, <3>1
  <2> QED
    BY <2>2, <2>3
<1> QED
  BY <1>2, <1>3 DEF NeverOvercommitted

LEMMA ReleaseKeeps ==
    ASSUME BudgetInv, NEW a \in Agent, Release(a)
    PROVE  BudgetInv'
<1> USE DEF BudgetInv
<1>1. PICK d \in Device : d = allocations[a]
  BY DEF Release, TypeOK
<1>2. /\ current' = [current EXCEPT ![d] = @ - 1]
      /\ allocations' = [allocations EXCEPT ![a] = NoDevice]
      /\ UNCHANGED <<useAuction, bidQueue, ticks>>
  BY <1>1 DEF Release
<1>3. TypeOK'
  BY <1>2 DEF TypeOK
<1>4. ASSUME NEW e \in Device
      PROVE  0 <= current'[e] /\ Cardinality(Holders(e)') <= current'[e] /\ current'[e] <= MaxAgents[e]
  <2>1. /\ current[e] \in Int /\ MaxAgents[e] \in Nat /\ 0 <= current[e]
        /\ Cardinality(Holders(e)) <= current[e] /\ current[e] <= MaxAgents[e]
        /\ Cardinality(Holders(e)) \in Nat
    BY BudgetAssumption, HoldersFinite DEF TypeOK, NeverOvercommitted
  <2>2. CASE e = d
    <3>1. Holders(e)' = Holders(e) \ {a} /\ a \in Holders(e)
      BY <1>1, <1>2, <2>2, BudgetAssumption DEF Holders, TypeOK
    <3>2. /\ Cardinality(Holders(e)') = Cardinality(Holders(e)) - 1 /\ IsFiniteSet(Holders(e)')
      BY <3>1, HoldersFinite, FS_RemoveElement
    <3>3. Cardinality(Holders(e)') \in Nat
      BY <3>2, FS_CardinalityType
    <3>4. current'[e] = current[e] - 1
      BY <1>2, <2>2 DEF TypeOK
    <3> QED
      BY <2>1, <3>2, <3>3, <3>4
  <2>3. CASE e # d
    <3>1. Holders(e)' = Holders(e) /\ current'[e] = current[e]
      BY <1>1, <1>2, <2>3, BudgetAssumption DEF Holders, TypeOK
    <3> QED
      BY <2>1, <3>1
  <2> QED
    BY <2>2, <2>3
<1> QED
  BY <1>3, <1>4 DEF NeverOvercommitted

LEMMA NothingHeld ==
    ASSUME current = [d \in Device |-> 0], allocations = [a \in Agent |-> NoDevice], bidQueue = <<>>,
           useAuction \in BOOLEAN, ticks \in 0 .. AuctionInterval - 1
    PROVE  BudgetInv
<1>1. TypeOK
  BY DEF TypeOK
<1>2. \A d \in Device : Cardinality(Holders(d)) = 0
  <2>1. \A d \in Device : Holders(d) = {}
    BY BudgetAssumption DEF Holders
  <2> QED
    BY <2>1, FS_EmptySet
<1> QED
  BY <1>1, <1>2, BudgetAssumption DEF BudgetInv, NeverOvercommitted

\* Whatever is called in either mode.
LEMMA BudgetStep == BudgetInv /\ [BudgetNext]_thermalVars => BudgetInv'
<1> SUFFICES ASSUME BudgetInv, [BudgetNext]_thermalVars PROVE BudgetInv'
  OBVIOUS
<1>1. ASSUME NEW a \in Agent, NEW d \in Device, Allocate(a, d) PROVE BudgetInv'
  BY <1>1, TakeKeeps DEF Allocate, CanAllocate
<1>2. ASSUME NEW a \in Agent, Release(a) PROVE BudgetInv'
  BY <1>2, ReleaseKeeps
<1>3. ASSUME NEW a \in Agent, NEW d \in Device, ParentSacrifice(a, d) PROVE BudgetInv'
  BY <1>3, ReleaseKeeps DEF ParentSacrifice
<1>4. ASSUME NEW a \in Agent, NEW c \in [1 .. Cardinality(Device) -> Device], SpawnWithThermalCheck(a, c)
      PROVE  BudgetInv'
  <2>1. PICK i \in DOMAIN c : HasRoom(c[i]) /\ Take(a, c[i])
    BY <1>4 DEF SpawnWithThermalCheck
  <2>2. c[i] \in Device /\ allocations[a] = NoDevice
    BY <1>4 DEF SpawnWithThermalCheck
  <2> QED
    BY <2>1, <2>2, TakeKeeps
<1>5. ASSUME NEW b \in Bid, QueueBid(b) PROVE BudgetInv'
  <2>1. bidQueue' \in Seq(Bid) /\ UNCHANGED <<useAuction, current, allocations, ticks>>
    BY <1>5, AppendProperties DEF QueueBid, BudgetInv, TypeOK
  <2> QED
    BY <2>1 DEF BudgetInv, TypeOK, NeverOvercommitted, Holders
<1>6. CASE BudgetTick
  <2>1. ticks' \in 0 .. AuctionInterval - 1 /\ useAuction' = useAuction
    <3>1. AuctionInterval \in Nat \ {0} /\ ticks \in Nat
      BY BudgetAssumption DEF BudgetInv, TypeOK
    <3> QED
      BY <1>6, <3>1 DEF BudgetTick
  <2>2. bidQueue' = <<>> \/ bidQueue' = bidQueue
    BY <1>6 DEF BudgetTick
  <2>3. bidQueue' \in Seq(Bid)
    BY <2>2, EmptySeq DEF BudgetInv, TypeOK
  <2>4. CASE RunAuction
    BY <2>1, <2>3, <2>4, AuctionKeeps DEF BudgetInv, TypeOK
  <2>5. CASE UNCHANGED <<current, allocations>>
    BY <2>1, <2>3, <2>5 DEF BudgetInv, TypeOK, NeverOvercommitted, Holders
  <2> QED
    BY <1>6, <2>4, <2>5 DEF BudgetTick
<1>7. CASE Reset
  <2>1. TypeOK'
    BY <1>7 DEF Reset, BudgetInv, TypeOK
  <2>2. \A d \in Device : Cardinality(Holders(d)') = 0 /\ current'[d] = 0
    <3>1. \A d \in Device : Holders(d)' = {}
      BY <1>7, BudgetAssumption DEF Reset, Holders
    <3> QED
      BY <1>7, <3>1, FS_EmptySet DEF Reset
  <2> QED
    BY <2>1, <2>2, BudgetAssumption DEF BudgetInv, NeverOvercommitted
<1>8. CASE UNCHANGED thermalVars
  BY <1>8 DEF thermalVars, BudgetInv, TypeOK, NeverOvercommitted, Holders
<1> QED
  BY <1>1, <1>2, <1>3, <1>4, <1>5, <1>6, <1>7, <1>8 DEF BudgetNext

LEMMA BudgetInvariant == BudgetSpec => []BudgetInv
<1>1. BudgetInit => BudgetInv
  <2> SUFFICES ASSUME BudgetInit PROVE BudgetInv
    OBVIOUS
  <2>1. 0 \in 0 .. AuctionInterval - 1
    BY BudgetAssumption
  <2> QED
    BY <2>1, NothingHeld DEF BudgetInit
<1> QED
  BY <1>1, BudgetStep, PTL DEF BudgetSpec

\* With or without the auction, no device has more holders than it counts, and
\* counts no more than it has slots: an agent that wins twice, wins what it has
\* or leaves one device for another costs slots, and never makes one
\* (ThermalBudget.tick, spawn and release).
THEOREM BudgetNeverOvercommitted == BudgetSpec => []NeverOvercommitted
<1>1. BudgetInv => NeverOvercommitted
  BY DEF BudgetInv
<1> QED
  BY <1>1, BudgetInvariant, PTL

\* The sets that a better bid for the same device is counted by are smaller.
LEMMA BetterIsAhead ==
    ASSUME TypeOK, NEW i \in DOMAIN bidQueue, NEW j \in DOMAIN bidQueue, Beats(i, j)
    PROVE  /\ j \in WinningBids => i \in WinningBids
           /\ \A k \in DOMAIN bidQueue : Precedes(k, i) => Precedes(k, j)
<1>1. bidQueue[i].device = bidQueue[j].device
  BY DEF Beats
<1>2. ASSUME j \in WinningBids PROVE i \in WinningBids
  <2> DEFINE I == {k \in DOMAIN bidQueue : Beats(k, i)}
             J == {k \in DOMAIN bidQueue : Beats(k, j)}
  <2>1. I \subseteq J
    BY BeatsOrder
  <2>2. IsFiniteSet(I) /\ IsFiniteSet(J)
    BY QueueFacts, FS_Subset
  <2>3. Cardinality(J) < MaxAgents[bidQueue[i].device]
    BY <1>1, <1>2 DEF WinningBids
  <2>4. (Cardinality(I) < MaxAgents[bidQueue[i].device]) => i \in WinningBids
    BY DEF WinningBids
  <2>5. MaxAgents[bidQueue[i].device] \in Nat
    BY QueueFacts, BudgetAssumption
  <2> HIDE DEF I, J
  <2>6. Cardinality(I) <= Cardinality(J) /\ Cardinality(I) \in Nat /\ Cardinality(J) \in Nat
    BY <2>1, <2>2, FS_Subset, FS_CardinalityType
  <2> QED
    BY <2>3, <2>4, <2>5, <2>6
<1>3. ASSUME NEW k \in DOMAIN bidQueue, Precedes(k, i) PROVE Precedes(k, j)
  BY <1>1, <1>3, BeatsOrder DEF Precedes
<1> QED
  BY <1>2, <1>3

\* An agent that bids once wins with that bid, if at all.
LEMMA OneBidOneWin ==
    ASSUME TypeOK, NEW i \in DOMAIN bidQueue, BidsOnce(bidQueue[i].agent)
    PROVE  bidQueue[i].agent \in Winners => i \in WinningBids /\ Wins(bidQueue[i].agent) = {i}
<1> DEFINE S == {n \in DOMAIN bidQueue : bidQueue[n].agent = bidQueue[i].agent}
<1>1. IsFiniteSet(S) /\ Cardinality(S) = 1 /\ i \in S
  BY QueueFacts, FS_Subset DEF BidsOnce
<1>2. S = {i}
  <2> HIDE DEF S
  <2>1. IsFiniteSet({i}) /\ Cardinality({i}) = 1 /\ {i} \in SUBSET S
    BY <1>1, FS_Singleton
  <2> QED
    BY <1>1, <2>1, FS_Subset
<1>3. Wins(bidQueue[i].agent) \subseteq S /\ Wins(bidQueue[i].agent) \subseteq WinningBids
  BY DEF Wins, WinningBids
<1>4. bidQueue[i].agent \in Winners => Wins(bidQueue[i].agent) # {}
  BY DEF Wins, Winners
<1> HIDE DEF S
<1> QED
  BY <1>2, <1>3, <1>4

\* A step that grants a device to a bid grants it to every better one.
LEMMA BetterBidGranted ==
    ASSUME BudgetInv, RunAuction, NEW i \in DOMAIN bidQueue, NEW j \in DOMAIN bidQueue,
           BidsOnce(bidQueue[i].agent), BidsOnce(bidQueue[j].agent), Beats(i, j),
           allocations[bidQueue[j].agent] # bidQueue[j].device,
           allocations'[bidQueue[j].agent] = bidQueue[j].device
    PROVE  allocations'[bidQueue[i].agent] = bidQueue[j].device
<1> DEFINE a == bidQueue[i].agent
           b == bidQueue[j].agent
           d == bidQueue[j].device
           Ahead(c) == {e \in Winners : WonDevice(e) = WonDevice(c) /\ Precedes(FirstWin(e), FirstWin(c))}
<1>1. a \in Agent /\ b \in Agent /\ d \in Device /\ bidQueue[i].device = d
  BY QueueFacts DEF BudgetInv, Beats
<1>2. b \in Winners /\ Granted(b) /\ WonDevice(b) = d
  BY <1>1 DEF RunAuction
<1>3. j \in WinningBids /\ Wins(b) = {j}
  BY <1>2, OneBidOneWin DEF BudgetInv
<1>4. i \in WinningBids /\ a \in Winners
  BY <1>3, BetterIsAhead DEF BudgetInv, Winners
<1>5. Wins(a) = {i}
  BY <1>4, OneBidOneWin DEF BudgetInv
<1>6. FirstWin(b) = j /\ FirstWin(a) = i /\ WonDevice(a) = d
  BY <1>1, <1>2, <1>3, <1>4, <1>5, WinsFacts DEF BudgetInv
<1>7. Ahead(a) \subseteq Ahead(b)
  <2> SUFFICES ASSUME NEW e \in Winners, Precedes(FirstWin(e), i) PROVE Precedes(FirstWin(e), j)
    BY <1>2, <1>6 DEF First
  <2>1. FirstWin(e) \in DOMAIN bidQueue
    BY WinsFacts DEF BudgetInv, Wins, WinningBids
  <2> QED
    BY <2>1, BetterIsAhead DEF BudgetInv
<1>8. Winners \subseteq Agent
  BY QueueFacts DEF BudgetInv, Winners, WinningBids
<1>9. IsFiniteSet(Winners)
  BY <1>8, BudgetAssumption, FS_Subset
<1>10. IsFiniteSet(Ahead(a)) /\ IsFiniteSet(Ahead(b))
  BY <1>9, FS_Subset
<1>11. Cardinality(Ahead(b)) < MaxAgents[d] - current[d]
  BY <1>2 DEF Granted
<1>12. MaxAgents[d] \in Nat /\ current[d] \in Int
  BY <1>1, BudgetAssumption DEF BudgetInv, TypeOK
<1>13. Granted(a)
  <2>1. Granted(a) <=> Cardinality(Ahead(a)) < MaxAgents[d] - current[d]
    BY <1>6 DEF Granted
  <2> HIDE DEF Ahead
  <2>2. Cardinality(Ahead(a)) <= Cardinality(Ahead(b)) /\ Cardinality(Ahead(a)) \in Nat /\ Cardinality(Ahead(b)) \in Nat
    BY <1>7, <1>10, FS_Subset, FS_CardinalityType
  <2> QED
    BY <1>11, <1>12, <2>1, <2>2
<1> QED
  BY <1>1, <1>4, <1>6, <1>13 DEF RunAuction

\* Only an auction gives out a slot and empties the queue.
LEMMA OnlyAuctionsServe ==
    ASSUME BudgetInv, [BudgetNext]_thermalVars, bidQueue # <<>>, bidQueue' = <<>>,
           NEW b \in Agent, NEW d \in Device, allocations[b] # d, allocations'[b] = d
    PROVE  RunAuction
<1>1. CASE BudgetTick
  BY <1>1 DEF BudgetTick
<1>2. CASE Reset
  BY <1>2, BudgetAssumption DEF Reset
<1>3. CASE UNCHANGED thermalVars
  BY <1>3 DEF thermalVars
<1>4. ASSUME NEW x \in Bid, QueueBid(x) PROVE FALSE
  BY <1>4 DEF QueueBid
<1>5. CASE bidQueue' = bidQueue
  BY <1>5
<1> QED
  BY <1>1, <1>2, <1>3, <1>4, <1>5 DEF BudgetNext, Allocate, Release, ParentSacrifice, SpawnWithThermalCheck, Take

\* An auction gives no slot to a bid while it refuses a better one for the same
\* device, of agents that bid once: neither the limits per device nor the few
\* slots that are still free when the results are applied turn the order round
\* (VCGAuction.run_auction and ThermalBudget.tick).
THEOREM BetterBidsWin == BudgetSpec => BetterBidWins
<1> DEFINE Served(i, j) ==
              LET a == bidQueue[i].agent
                  b == bidQueue[j].agent
                  d == bidQueue[i].device
              IN  /\ a # b /\ BidsOnce(a) /\ BidsOnce(b)
                  /\ bidQueue[j].device = d
                  /\ bidQueue[i].rank > bidQueue[j].rank
                  /\ allocations[b] # d /\ allocations'[b] = d
                  /\ bidQueue' = <<>>
                  => allocations'[a] = d
<1>1. BudgetInv /\ [BudgetNext]_thermalVars => \A i, j \in DOMAIN bidQueue : Served(i, j)
  <2> SUFFICES ASSUME BudgetInv, [BudgetNext]_thermalVars, NEW i \in DOMAIN bidQueue, NEW j \in DOMAIN bidQueue,
                      BidsOnce(bidQueue[i].agent), BidsOnce(bidQueue[j].agent),
                      bidQueue[j].device = bidQueue[i].device, bidQueue[i].rank > bidQueue[j].rank,
                      allocations[bidQueue[j].agent] # bidQueue[i].device,
                      allocations'[bidQueue[j].agent] = bidQueue[i].device, bidQueue' = <<>>
               PROVE  allocations'[bidQueue[i].agent] = bidQueue[i].device
    OBVIOUS
  <2>1. bidQueue[j].agent \in Agent /\ bidQueue[i].device \in Device /\ bidQueue # <<>>
    BY QueueFacts DEF BudgetInv
  <2>2. RunAuction
    BY <2>1, OnlyAuctionsServe
  <2>3. Beats(i, j)
    BY DEF Beats
  <2> QED
    BY <2>2, <2>3, BetterBidGranted
<1>2. BudgetSpec => [][\A i, j \in DOMAIN bidQueue : Served(i, j)]_thermalVars
  BY <1>1, BudgetInvariant, PTL DEF BudgetSpec
<1> QED
  BY <1>2 DEF BetterBidWins
=============================================================================
