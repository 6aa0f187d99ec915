-------------------------- MODULE WorkQueue_proofs --------------------------
(***************************************************************************)
(* Theorems about WorkQueue, for every set of items, workers, priorities   *)
(* and every timeout.                                                      *)
(***************************************************************************)
EXTENDS WorkQueue, SequenceTheorems, FiniteSetTheorems, TLAPS

\* An item whose claim, or whose claim and retries, are set anew is an item.
LEMMA ItemUpdate ==
    ASSUME NEW x \in Item, NEW c \in Worker \cup {Nothing}, NEW l \in 0 .. Visibility, NEW r \in Nat
    PROVE  /\ [x EXCEPT !.claimed = c, !.left = l] \in Item
           /\ [x EXCEPT !.retries = r, !.claimed = c, !.left = l] \in Item
<1>1. ASSUME NEW y \in Item
      PROVE  [y EXCEPT !.claimed = c, !.left = l] \in Item
  BY DEF Item
<1>2. [x EXCEPT !.retries = r] \in Item
  BY DEF Item
<1> QED
  BY <1>1, <1>2

LEMMA NoTime == 0 \in 0 .. Visibility
BY QueueAssumption

\* notify() takes a waiter from the list, or none.
LEMMA NotifyType ==
    ASSUME waiters \in Seq(Worker), Notify
    PROVE  waiters' \in Seq(Worker)
<1>1. CASE waiters = <<>>
  BY <1>1 DEF Notify
<1>2. CASE waiters # <<>>
  BY <1>2, HeadTailProperties DEF Notify
<1> QED
  BY <1>1, <1>2

\* A waiter that runs on leaves the list.
LEMMA WithoutType ==
    ASSUME waiters \in Seq(Worker), NEW w \in Worker
    PROVE  Without(w) \in Seq(Worker)
<1>1. CASE ~Queued(w)
  BY <1>1 DEF Without
<1>2. CASE Queued(w)
  <2> DEFINE k == CHOOSE j \in DOMAIN waiters : waiters[j] = w
  <2>1. k \in DOMAIN waiters
    BY <1>2 DEF Queued
  <2>2. k \in 1 .. Len(waiters) /\ Len(waiters) \in Nat
    BY <2>1, LenProperties
  <2>3. /\ SubSeq(waiters, 1, k - 1) \in Seq(Worker)
        /\ SubSeq(waiters, k + 1, Len(waiters)) \in Seq(Worker)
    <3> HIDE DEF k
    <3> QED
      BY <2>2, SubSeqProperties
  <2>4. Without(w) = SubSeq(waiters, 1, k - 1) \o SubSeq(waiters, k + 1, Len(waiters))
    BY <1>2 DEF Without
  <2> HIDE DEF k
  <2> QED
    BY <2>3, <2>4, ConcatProperties
<1> QED
  BY <1>1, <1>2

\* What a round of claim() does to the items: it takes one that is ready, or none.
LEMMA RoundType ==
    ASSUME TypeOK, NEW w \in Worker, NEW t \in (0 .. MaxTimeout) \cup {Forever},
           NEW others \in Seq(Worker), Round(w, t, others)
    PROVE  TypeOK'
<1>1. /\ dead' \subseteq Id
      /\ wait' \in [Worker -> (0 .. MaxTimeout) \cup {Forever, Idle}]
      /\ waiters' \in Seq(Worker)
  <2>1. Append(others, w) \in Seq(Worker)
    BY AppendProperties
  <2> QED
    BY <2>1 DEF Round, TypeOK
<1>2. lapsed' \in BOOLEAN
  BY DEF Round, StillLapsed, TypeOK
<1>3. heap' \subseteq Entry /\ held' \in [Worker -> Id \cup {Nothing}]
      /\ items' \in [Id -> Item \cup {Nothing}]
  <2>1. CASE FindNone
    BY <2>1 DEF FindNone, TypeOK
  <2>2. ASSUME NEW e \in heap, Take(w, e)
        PROVE  heap' \subseteq Entry /\ held' \in [Worker -> Id \cup {Nothing}]
               /\ items' \in [Id -> Item \cup {Nothing}]
    <3>1. e.id \in Id /\ items[e.id] \in Item
      BY <2>2 DEF Take, First, Claimable, Ready, Listed, TypeOK, Entry
    <3>2. items' = [items EXCEPT ![e.id] = [items[e.id] EXCEPT !.claimed = w, !.left = Visibility]]
      BY <2>2, <3>1 DEF Take, TypeOK, Item
    <3>3. [items[e.id] EXCEPT !.claimed = w, !.left = Visibility] \in Item
      <4>1. Visibility \in 0 .. Visibility
        BY QueueAssumption
      <4> QED
        BY <3>1, <4>1, ItemUpdate
    <3> QED
      BY <2>2, <3>1, <3>2, <3>3 DEF Take, TypeOK
  <2> QED
    BY <2>1, <2>2 DEF Round
<1> QED
  BY <1>1, <1>2, <1>3 DEF TypeOK

\* One step keeps the type.
LEMMA TypeStep == TypeOK /\ [Next]_vars => TypeOK'
<1> SUFFICES ASSUME TypeOK, [Next]_vars PROVE TypeOK'
  OBVIOUS
<1>1. ASSUME NEW i \in Id, NEW p \in Priority, NEW t \in Reading, Enqueue(i, p, t)
      PROVE  TypeOK'
  <2>1. waiters' \in Seq(Worker)
    BY <1>1, NotifyType DEF Enqueue, TypeOK
  <2>2. [priority |-> p, at |-> t, claimed |-> Nothing, left |-> 0, retries |-> 0] \in Item
    BY QueueAssumption DEF Item
  <2>3. lapsed' \in BOOLEAN
    BY <1>1 DEF Enqueue, StillLapsed, TypeOK
  <2> QED
    BY <1>1, <2>1, <2>2, <2>3 DEF Enqueue, TypeOK, Entry
<1>2. ASSUME NEW w \in Worker, NEW t \in (0 .. MaxTimeout) \cup {Forever}, Claim(w, t)
      PROVE  TypeOK'
  BY <1>2, RoundType DEF Claim, TypeOK
<1>3. ASSUME NEW w \in Worker, Resume(w)
      PROVE  TypeOK'
  <2>1. wait[w] \in (0 .. MaxTimeout) \cup {Forever}
    BY <1>3 DEF Resume, Awake, Waiting, TypeOK
  <2>2. Without(w) \in Seq(Worker)
    BY WithoutType DEF TypeOK
  <2> QED
    BY <1>3, <2>1, <2>2, RoundType DEF Resume
<1>4. ASSUME NEW w \in Worker, NEW i \in Id, Ack(w, i)
      PROVE  TypeOK'
  BY <1>4 DEF Ack, TypeOK
<1>5. ASSUME NEW w \in Worker, NEW i \in Id, Nack(w, i)
      PROVE  TypeOK'
  <2>1. items' \in [Id -> Item \cup {Nothing}]
    <3>1. CASE ~Listed(i) \/ items[i].retries + 1 >= MaxRetries
      BY <1>5, <3>1 DEF Nack, TypeOK
    <3>2. CASE Listed(i) /\ ~(items[i].retries + 1 >= MaxRetries)
      <4>1. items[i] \in Item
        BY <3>2 DEF Listed, TypeOK
      <4>2. items' = [items EXCEPT ![i] =
                [items[i] EXCEPT !.retries = items[i].retries + 1, !.claimed = Nothing, !.left = 0]]
        BY <1>5, <3>2, <4>1 DEF Nack, TypeOK, Item
      <4>4. items[i].retries + 1 \in Nat
        BY <4>1 DEF Item
      <4>3. [items[i] EXCEPT !.retries = items[i].retries + 1, !.claimed = Nothing, !.left = 0] \in Item
        BY <4>1, <4>4, NoTime, ItemUpdate
      <4> QED
        BY <4>2, <4>3 DEF TypeOK
    <3> QED
      BY <3>1, <3>2
  <2>2. waiters' \in Seq(Worker) /\ lapsed' \in BOOLEAN
    BY <1>5, NotifyType DEF Nack, StillLapsed, TypeOK
  <2> QED
    BY <1>5, <2>1, <2>2 DEF Nack, TypeOK
<1>6. ASSUME NEW w \in Worker, NEW i \in Id, Release(w, i)
      PROVE  TypeOK'
  <2>1. items' \in [Id -> Item \cup {Nothing}]
    <3>1. CASE ~Listed(i)
      BY <1>6, <3>1 DEF Release, TypeOK
    <3>2. CASE Listed(i)
      <4>1. items[i] \in Item
        BY <3>2 DEF Listed, TypeOK
      <4>2. items' = [items EXCEPT ![i] = [items[i] EXCEPT !.claimed = Nothing, !.left = 0]]
        BY <1>6, <3>2, <4>1 DEF Release, TypeOK, Item
      <4>3. [items[i] EXCEPT !.claimed = Nothing, !.left = 0] \in Item
        BY <4>1, NoTime, ItemUpdate
      <4> QED
        BY <4>2, <4>3 DEF TypeOK
    <3> QED
      BY <3>1, <3>2
  <2>2. waiters' \in Seq(Worker) /\ lapsed' \in BOOLEAN
    BY <1>6, NotifyType DEF Release, StillLapsed, TypeOK
  <2> QED
    BY <1>6, <2>1, <2>2 DEF Release, TypeOK
<1>7. ASSUME NEW w \in Worker, NEW i \in Id, Forget(w, i)
      PROVE  TypeOK'
  BY <1>7 DEF Forget, TypeOK
<1>8. CASE PurgeDeadLetter
  BY <1>8 DEF PurgeDeadLetter, TypeOK
<1>9. CASE Tick
  <2>1. ASSUME NEW i \in Id
        PROVE  (IF Running(i) THEN [items[i] EXCEPT !.left = @ - 1] ELSE items[i]) \in Item \cup {Nothing}
    <3>1. CASE Running(i)
      <4>1. items[i] \in Item /\ items[i].left > 0
        BY <3>1 DEF Running, Listed, TypeOK
      <4> QED
        BY <3>1, <4>1, QueueAssumption DEF Item
    <3>2. CASE ~Running(i)
      BY <3>2 DEF TypeOK
    <3> QED
      BY <3>1, <3>2
  <2>2. items' \in [Id -> Item \cup {Nothing}]
    BY <1>9, <2>1 DEF Tick
  <2>3. ASSUME NEW w \in Worker
        PROVE  Elapse(wait[w]) \in (0 .. MaxTimeout) \cup {Forever, Idle}
    BY QueueAssumption DEF Elapse, TypeOK
  <2>4. wait' \in [Worker -> (0 .. MaxTimeout) \cup {Forever, Idle}]
    BY <1>9, <2>3 DEF Tick
  <2> QED
    BY <1>9, <2>2, <2>4 DEF Tick, TypeOK
<1>10. CASE UNCHANGED vars
  BY <1>10 DEF vars, TypeOK
<1> QED
  BY <1>1, <1>2, <1>3, <1>4, <1>5, <1>6, <1>7, <1>8, <1>9, <1>10 DEF Next

\* The state of the queue keeps its type, whatever the workers do.
THEOREM QueueTypeCorrect == Spec => []TypeOK
<1>1. Init => TypeOK
  BY QueueAssumption, EmptySeq DEF Init, TypeOK
<1> QED
  BY <1>1, TypeStep, PTL DEF Spec, Safe

\* A step that leaves the rank of every listed item alone, and takes no entry of
\* a listed item off the heap, strands nothing.
LEMMA KeepsEntries ==
    ASSUME NothingStranded,
           \A i \in Id : Listed(i)' => Listed(i) /\ Own(i)' = Own(i),
           \A e \in heap : Listed(e.id) => e \in heap'
    PROVE  NothingStranded'
<1> SUFFICES ASSUME NEW i \in Id, Listed(i)' PROVE Own(i)' \in heap'
  BY DEF NothingStranded
<1>1. Own(i) \in heap /\ Listed(i) /\ Own(i)' = Own(i)
  BY DEF NothingStranded
<1>2. Own(i).id = i
  BY DEF Own
<1> QED
  BY <1>1, <1>2

\* A round of claim() drops entries of absent items only.
LEMMA RoundKeepsEntries ==
    ASSUME TypeOK, NothingStranded, NEW w \in Worker, NEW t, NEW others, Round(w, t, others)
    PROVE  NothingStranded'
<1>1. CASE FindNone
  <2>1. \A i \in Id : Listed(i)' => Listed(i) /\ Own(i)' = Own(i)
    BY <1>1 DEF FindNone, Listed, Own
  <2>2. \A e \in heap : Listed(e.id) => e \in heap'
    BY <1>1 DEF FindNone
  <2> QED
    BY <2>1, <2>2, KeepsEntries
<1>2. ASSUME NEW e \in heap, Take(w, e)
      PROVE  NothingStranded'
  <2>1. e.id \in Id /\ items[e.id] \in Item
    BY <1>2 DEF Take, First, Claimable, Ready, Listed, TypeOK, Entry
  <2>2. ASSUME NEW i \in Id, Listed(i)'
        PROVE  Listed(i) /\ Own(i)' = Own(i)
    <3>1. CASE i = e.id
      <4>1. Listed(i)
        BY <1>2, <3>1 DEF Take, First, Claimable, Ready
      <4>2. items'[i] = [items[i] EXCEPT !.claimed = w, !.left = Visibility]
        BY <1>2, <2>1, <3>1 DEF Take, TypeOK, Item
      <4>3. items'[i].priority = items[i].priority /\ items'[i].at = items[i].at
        BY <4>2, <2>1, <3>1 DEF Item
      <4> QED
        BY <4>1, <4>3 DEF Own
    <3>2. CASE i # e.id
      <4>1. items'[i] = items[i]
        BY <1>2, <2>1, <3>2 DEF Take, TypeOK
      <4> QED
        BY <4>1, <2>2 DEF Own, Listed
    <3> QED
      BY <3>1, <3>2
  <2>3. \A f \in heap : Listed(f.id) => f \in heap'
    BY <1>2 DEF Take
  <2> QED
    BY <2>2, <2>3, KeepsEntries
<1> QED
  BY <1>1, <1>2 DEF Round

\* One step strands no item.
LEMMA StrandedStep == TypeOK /\ NothingStranded /\ [Next]_vars => NothingStranded'
<1> SUFFICES ASSUME TypeOK, NothingStranded, [Next]_vars PROVE NothingStranded'
  OBVIOUS
<1> DEFINE SameRank == \A i \in Id : Listed(i)' => Listed(i) /\ Own(i)' = Own(i)
<1>1. ASSUME NEW i \in Id, NEW p \in Priority, NEW t \in Reading, Enqueue(i, p, t)
      PROVE  NothingStranded'
  <2> SUFFICES ASSUME NEW j \in Id, Listed(j)' PROVE Own(j)' \in heap'
    BY DEF NothingStranded
  <2>1. CASE j = i
    BY <1>1, <2>1 DEF Enqueue, Own, TypeOK
  <2>2. CASE j # i
    <3>1. items'[j] = items[j]
      BY <1>1, <2>2 DEF Enqueue, TypeOK
    <3>2. Own(j)' = Own(j) /\ Listed(j)
      BY <3>1 DEF Own, Listed
    <3> QED
      BY <1>1, <3>2 DEF Enqueue, NothingStranded
  <2> QED
    BY <2>1, <2>2
<1>2. ASSUME NEW w \in Worker, NEW t \in (0 .. MaxTimeout) \cup {Forever}, Claim(w, t)
      PROVE  NothingStranded'
  BY <1>2, RoundKeepsEntries DEF Claim
<1>3. ASSUME NEW w \in Worker, Resume(w)
      PROVE  NothingStranded'
  BY <1>3, RoundKeepsEntries DEF Resume
<1>4. ASSUME heap' = heap, SameRank
      PROVE  NothingStranded'
  BY <1>4, KeepsEntries
<1>5. ASSUME NEW w \in Worker, NEW i \in Id, Ack(w, i) \/ Nack(w, i) \/ Release(w, i)
      PROVE  NothingStranded'
  <2>1. heap' = heap
    BY <1>5 DEF Ack, Nack, Release
  <2>2. ASSUME NEW j \in Id, Listed(j)'
        PROVE  Listed(j) /\ Own(j)' = Own(j)
    <3>1. CASE j # i \/ ~Listed(i)
      <4>1. items'[j] = items[j]
        BY <1>5, <3>1, <2>2 DEF Ack, Nack, Release, TypeOK, Listed
      <4> QED
        BY <4>1, <2>2 DEF Own, Listed
    <3>2. CASE j = i /\ Listed(i)
      <4>1. items[i] \in Item
        BY <3>2 DEF Listed, TypeOK
      <4>2. ~Ack(w, i)
        BY <2>2, <3>2 DEF Ack, Listed, TypeOK
      <4>3. ASSUME Nack(w, i)
            PROVE  items'[i].priority = items[i].priority /\ items'[i].at = items[i].at
        <5>1. ~(items[i].retries + 1 >= MaxRetries)
          BY <4>3, <2>2, <3>2 DEF Nack, Listed, TypeOK
        <5> QED
          BY <4>3, <3>2, <4>1, <5>1 DEF Nack, TypeOK, Item
      <4>4. ASSUME Release(w, i)
            PROVE  items'[i].priority = items[i].priority /\ items'[i].at = items[i].at
        BY <4>4, <3>2, <4>1 DEF Release, TypeOK, Item
      <4> QED
        BY <1>5, <3>2, <4>2, <4>3, <4>4 DEF Own
    <3> QED
      BY <3>1, <3>2
  <2> QED
    BY <1>4, <2>1, <2>2
<1>6. ASSUME NEW w \in Worker, NEW i \in Id, Forget(w, i)
      PROVE  NothingStranded'
  BY <1>6 DEF Forget, NothingStranded, Listed, Own
<1>7. CASE PurgeDeadLetter
  BY <1>7 DEF PurgeDeadLetter, NothingStranded, Listed, Own
<1>8. CASE Tick
  <2>1. ASSUME NEW j \in Id, Listed(j)'
        PROVE  Listed(j) /\ Own(j)' = Own(j)
    <3>1. items'[j] = IF Running(j) THEN [items[j] EXCEPT !.left = @ - 1] ELSE items[j]
      BY <1>8 DEF Tick
    <3>2. CASE Running(j)
      <4>1. items[j] \in Item
        BY <3>2 DEF Running, Listed, TypeOK
      <4> QED
        BY <3>1, <3>2, <4>1 DEF Own, Running, Item
    <3>3. CASE ~Running(j)
      BY <3>1, <3>3, <2>1 DEF Own, Listed
    <3> QED
      BY <3>2, <3>3
  <2> QED
    BY <1>4, <1>8, <2>1 DEF Tick
<1>9. CASE UNCHANGED vars
  BY <1>9 DEF vars, NothingStranded, Listed, Own
<1> QED
  BY <1>1, <1>2, <1>3, <1>5, <1>6, <1>7, <1>8, <1>9 DEF Next

\* No item is ever without its entry in the heap, so none is beyond the reach of
\* claim().
THEOREM NothingIsStranded == Spec => []NothingStranded
<1>1. Init => NothingStranded
  BY DEF Init, NothingStranded, Listed
<1> QED
  BY <1>1, QueueTypeCorrect, StrandedStep, PTL DEF Spec, Safe

\* The entry of a claim that takes a ready item not found under an old entry is
\* the item's own.
LEMMA TakeIsBest ==
    ASSUME TypeOK, NothingStranded, NEW w \in Worker, NEW e \in heap, Take(w, e),
           NEW i \in Id, NEW j \in Id, Ready(i), Ready(j), Running(i)', ~Stale(i)
    PROVE  items[i].priority <= items[j].priority
<1>1. e.id \in Id /\ items[e.id] \in Item
  BY DEF Take, First, Claimable, Ready, Listed, TypeOK, Entry
<1>2. e.id = i
  <2> SUFFICES ASSUME e.id # i PROVE FALSE
    OBVIOUS
  <2>1. items'[i] = items[i]
    BY <1>1 DEF Take, TypeOK
  <2> QED
    BY <2>1 DEF Ready, Running, Listed
<1>3. e = Own(i)
  BY <1>2 DEF Stale
<1>4. Own(j) \in heap /\ Own(j).id = j /\ Own(j).priority = items[j].priority
  BY DEF NothingStranded, Ready, Own
<1>5. Own(j) \in Claimable
  BY <1>4 DEF Claimable
<1>6. Own(j) = e \/ Before(e, Own(j))
  BY <1>5 DEF Take, First
<1>7. items[i] \in Item /\ items[j] \in Item
  BY DEF Ready, Listed, TypeOK
<1>8. items[i].priority \in Nat /\ items[j].priority \in Nat /\ e.priority = items[i].priority
  BY <1>3, <1>7, QueueAssumption DEF Item, Own
<1> QED
  BY <1>4, <1>6, <1>8 DEF Before

\* Only a claim makes a ready item run.
LEMMA OnlyTakeRuns ==
    ASSUME TypeOK, [Next]_vars, NEW i \in Id, Ready(i), Running(i)'
    PROVE  \E w \in Worker, e \in heap : Take(w, e)
<1>1. items[i] \in Item /\ items[i].left = 0
  BY DEF Ready, Listed, TypeOK
<1>2. items'[i] # items[i] /\ items'[i] # Nothing /\ items'[i].left # 0
  BY <1>1 DEF Running, Listed
<1>3. ASSUME NEW k \in Id, NEW p \in Priority, NEW t \in Reading, Enqueue(k, p, t)
      PROVE  FALSE
  BY <1>2, <1>3 DEF Enqueue, TypeOK
<1>4. ASSUME NEW w \in Worker, NEW k \in Id, Ack(w, k) \/ Nack(w, k) \/ Release(w, k) \/ Forget(w, k)
      PROVE  FALSE
  <2>1. i = k
    BY <1>2, <1>4 DEF Ack, Nack, Release, Forget, TypeOK
  <2>2. items'[i].left = 0 \/ items'[i] = Nothing
    BY <1>1, <1>2, <1>4, <2>1 DEF Ack, Nack, Release, Forget, TypeOK, Item
  <2> QED
    BY <1>2, <2>2
<1>5. ~Tick
  <2> SUFFICES ASSUME Tick PROVE FALSE
    OBVIOUS
  <2>1. ~Running(i)
    BY <1>1 DEF Running
  <2> QED
    BY <1>2, <2>1 DEF Tick
<1>6. ~PurgeDeadLetter /\ ~UNCHANGED vars
  BY <1>2 DEF PurgeDeadLetter, vars
<1>7. PICK w \in Worker : (\E t \in (0 .. MaxTimeout) \cup {Forever} : Claim(w, t)) \/ Resume(w)
  BY <1>3, <1>4, <1>5, <1>6 DEF Next
<1>8. FindNone \/ \E e \in heap : Take(w, e)
  BY <1>7 DEF Claim, Resume, Round
<1> QED
  BY <1>2, <1>8 DEF FindNone

\* A claim never passes a better priority by, unless the id it takes was used
\* before.
THEOREM ClaimsBestFirst == Spec => BestFirst
<1>1. TypeOK /\ NothingStranded /\ [Next]_vars =>
        [\A i, j \in Id :
            Ready(i) /\ Ready(j) /\ Running(i)' /\ ~Stale(i) => items[i].priority <= items[j].priority]_vars
  BY OnlyTakeRuns, TakeIsBest
<1> QED
  BY <1>1, QueueTypeCorrect, NothingIsStranded, PTL DEF Spec, Safe, BestFirst

\* The state of the bag that stands for the state of the queue.
Present == {i \in Id : Listed(i)}
Runner == [i \in Id |-> IF Running(i) THEN items[i].claimed ELSE Nothing]
Failures == [i \in Id |-> IF Listed(i) THEN items[i].retries ELSE 0]

\* A step that touches one item changes the bag there only.
LEMMA OneItem ==
    ASSUME NEW i \in Id, \A j \in Id : j # i => items'[j] = items[j]
    PROVE  /\ Present' = IF Listed(i)' THEN Present \cup {i} ELSE Present \ {i}
           /\ Runner' = [Runner EXCEPT ![i] = IF Running(i)' THEN items'[i].claimed ELSE Nothing]
           /\ Failures' = [Failures EXCEPT ![i] = IF Listed(i)' THEN items'[i].retries ELSE 0]
<1>1. \A j \in Id : j # i => (Listed(j)' <=> Listed(j)) /\ (Running(j)' <=> Running(j))
  BY DEF Listed, Running
<1>2. Present' = IF Listed(i)' THEN Present \cup {i} ELSE Present \ {i}
  BY <1>1 DEF Present
<1>3. Runner' = [Runner EXCEPT ![i] = IF Running(i)' THEN items'[i].claimed ELSE Nothing]
  BY <1>1 DEF Runner
<1>4. Failures' = [Failures EXCEPT ![i] = IF Listed(i)' THEN items'[i].retries ELSE 0]
  BY <1>1 DEF Failures
<1> QED
  BY <1>2, <1>3, <1>4

\* A step that leaves items and dead letters alone leaves the bag alone.
LEMMA SameItems ==
    ASSUME items' = items, dead' = dead
    PROVE  UNCHANGED <<Present, Runner, Failures, dead>>
BY DEF Present, Runner, Failures, Listed, Running

\* A round of claim() takes a task of the bag, or leaves it alone.
LEMMA RoundRefines ==
    ASSUME TypeOK, NEW w \in Worker, NEW t, NEW others, Round(w, t, others)
    PROVE  [Bag!Next]_(Bag!bagVars)
<1>1. CASE FindNone
  <2>1. UNCHANGED <<Present, Runner, Failures, dead>>
    BY <1>1, SameItems DEF FindNone, Round
  <2> QED
    BY <2>1 DEF Bag!bagVars, Present, Runner, Failures
<1>2. ASSUME NEW e \in heap, Take(w, e)
      PROVE  [Bag!Next]_(Bag!bagVars)
  <2> DEFINE i == e.id
  <2>1. i \in Id /\ items[i] \in Item /\ Ready(i)
    BY <1>2 DEF Take, First, Claimable, Ready, Listed, TypeOK, Entry
  <2>2. items'[i] = [items[i] EXCEPT !.claimed = w, !.left = Visibility]
    BY <1>2, <2>1 DEF Take, TypeOK, Item
  <2>3. items'[i].claimed = w /\ items'[i].left = Visibility /\ items'[i].retries = items[i].retries
    BY <2>1, <2>2 DEF Item
  <2>4. items'[i] \in Item
    <3>1. Visibility \in 0 .. Visibility
      BY QueueAssumption
    <3>2. [items[i] EXCEPT !.claimed = w, !.left = Visibility] \in Item
      <4> HIDE DEF i
      <4> QED
        BY <2>1, <3>1, ItemUpdate
    <3> QED
      BY <2>2, <3>2
  <2>5. items'[i] # Nothing
    BY <2>4, QueueAssumption
  <2>6. Listed(i)' /\ Running(i)'
    BY <2>3, <2>5, QueueAssumption DEF Listed, Running
  <2>7. \A j \in Id : j # i => items'[j] = items[j]
    BY <1>2, <2>1 DEF Take, TypeOK
  <2>8. /\ Present' = Present /\ Runner' = [Runner EXCEPT ![i] = w]
        /\ Failures' = [Failures EXCEPT ![i] = items[i].retries]
    <3>1. Present' = Present \cup {i}
      BY <2>1, <2>6, <2>7, OneItem
    <3>2. i \in Present
      BY <2>1 DEF Present, Ready
    <3> HIDE DEF i
    <3> QED
      BY <2>1, <2>3, <2>6, <2>7, <3>1, <3>2, OneItem
  <2>9. Failures' = Failures
    BY <2>1, <2>8 DEF Failures, Ready
  <2>10. i \in Present /\ Runner[i] = Nothing
    BY <2>1 DEF Present, Runner, Ready, Running
  <2>11. dead' = dead
    BY DEF Round
  <2>12. Bag!Take(i, w)
    <3> HIDE DEF i
    <3> QED
      BY <2>8, <2>9, <2>10, <2>11 DEF Bag!Take, Present, Runner, Failures
  <2> QED
    BY <2>1, <2>12 DEF Bag!Next
<1> QED
  BY <1>1, <1>2 DEF Round

\* Each step of the queue is a step of the bag or leaves it alone.
LEMMA BagStep == TypeOK /\ TypeOK' /\ [Next]_vars => [Bag!Next]_(Bag!bagVars)
<1> SUFFICES ASSUME TypeOK, TypeOK', [Next]_vars PROVE [Bag!Next]_(Bag!bagVars)
  OBVIOUS
<1> DEFINE BagSame == UNCHANGED <<Present, Runner, Failures, dead>>
<1>0. ASSUME BagSame PROVE [Bag!Next]_(Bag!bagVars)
  BY <1>0 DEF Bag!bagVars, Present, Runner, Failures
<1>1. ASSUME NEW i \in Id, NEW p \in Priority, NEW t \in Reading, Enqueue(i, p, t)
      PROVE  [Bag!Next]_(Bag!bagVars)
  <2> DEFINE new == [priority |-> p, at |-> t, claimed |-> Nothing, left |-> 0, retries |-> 0]
  <2>1. items'[i] = new /\ \A j \in Id : j # i => items'[j] = items[j]
    BY <1>1 DEF Enqueue, TypeOK
  <2>2. new \in Item
    BY QueueAssumption DEF Item
  <2>3. Listed(i)' /\ ~Running(i)' /\ items'[i].retries = 0
    BY <2>1, <2>2, QueueAssumption DEF Listed, Running
  <2>4. /\ Present' = Present \cup {i} /\ Runner' = [Runner EXCEPT ![i] = Nothing]
        /\ Failures' = [Failures EXCEPT ![i] = 0] /\ dead' = dead
    BY <1>1, <2>1, <2>3, OneItem DEF Enqueue
  <2>5. Bag!Submit(i)
    BY <2>4 DEF Bag!Submit, Bag!Freed, Present, Runner, Failures
  <2> QED
    BY <2>5 DEF Bag!Next
<1>2. ASSUME NEW w \in Worker, NEW t \in (0 .. MaxTimeout) \cup {Forever}, Claim(w, t)
      PROVE  [Bag!Next]_(Bag!bagVars)
  BY <1>2, RoundRefines DEF Claim
<1>3. ASSUME NEW w \in Worker, Resume(w)
      PROVE  [Bag!Next]_(Bag!bagVars)
  BY <1>3, RoundRefines DEF Resume
<1>4. ASSUME NEW i \in Id, Listed(i), items' = [items EXCEPT ![i] = Nothing]
      PROVE  /\ i \in Present /\ Present' = Present \ {i}
             /\ Runner' = [Runner EXCEPT ![i] = Nothing] /\ Failures' = [Failures EXCEPT ![i] = 0]
  <2>1. ~Listed(i)' /\ ~Running(i)' /\ \A j \in Id : j # i => items'[j] = items[j]
    BY <1>4 DEF Listed, Running, TypeOK
  <2> QED
    BY <1>4, <2>1, OneItem DEF Present
<1>5. ASSUME NEW w \in Worker, NEW i \in Id, Ack(w, i)
      PROVE  [Bag!Next]_(Bag!bagVars)
  <2>1. CASE Listed(i)
    <3>1. Bag!Finish(i)
      BY <1>4, <1>5, <2>1 DEF Ack, Bag!Finish, Bag!Leave, Bag!Freed, Present, Runner, Failures
    <3> QED
      BY <3>1 DEF Bag!Next
  <2>2. CASE ~Listed(i)
    <3>1. items' = items /\ dead' = dead
      BY <1>5, <2>2 DEF Ack, Listed, TypeOK
    <3> QED
      BY <1>0, <3>1, SameItems
  <2> QED
    BY <2>1, <2>2
<1>6. ASSUME NEW i \in Id, Listed(i), NEW r \in Nat,
             \A j \in Id : j # i => items'[j] = items[j],
             items'[i] \in Item, items'[i].retries = r, items'[i].left = 0
      PROVE  /\ i \in Present /\ Present' = Present
             /\ Runner' = [Runner EXCEPT ![i] = Nothing] /\ Failures' = [Failures EXCEPT ![i] = r]
  <2>4. Listed(i)' /\ ~Running(i)'
    BY <1>6, QueueAssumption DEF Listed, Running
  <2>5. i \in Present
    BY <1>6 DEF Present
  <2>6. Present' = Present \cup {i}
    BY <1>6, <2>4, OneItem
  <2>7. Runner' = [Runner EXCEPT ![i] = Nothing]
    BY <1>6, <2>4, OneItem
  <2>8. Failures' = [Failures EXCEPT ![i] = r]
    BY <1>6, <2>4, OneItem
  <2> QED
    BY <2>5, <2>6, <2>7, <2>8
<1>7. ASSUME NEW w \in Worker, NEW i \in Id, Nack(w, i)
      PROVE  [Bag!Next]_(Bag!bagVars)
  <2>1. CASE ~Listed(i)
    BY <1>0, <1>7, <2>1, SameItems DEF Nack
  <2>2. CASE Listed(i) /\ items[i].retries + 1 >= MaxRetries
    <3>1. items' = [items EXCEPT ![i] = Nothing] /\ dead' = dead \cup {i}
      BY <1>7, <2>2 DEF Nack
    <3>2. Failures[i] = items[i].retries
      BY <2>2 DEF Failures
    <3>3. Bag!Bury(i)
      BY <1>4, <2>2, <3>1, <3>2 DEF Bag!Bury, Bag!Leave, Bag!Freed, Present, Runner, Failures
    <3> QED
      BY <3>3 DEF Bag!Next
  <2>3. CASE Listed(i) /\ ~(items[i].retries + 1 >= MaxRetries)
    <3>1. items[i] \in Item /\ items[i].retries \in Nat
      BY <2>3 DEF Listed, TypeOK, Item
    <3>2. /\ items'[i] = [items[i] EXCEPT !.retries = items[i].retries + 1, !.claimed = Nothing, !.left = 0]
          /\ \A j \in Id : j # i => items'[j] = items[j]
          /\ dead' = dead
      BY <1>7, <2>3, <3>1 DEF Nack, TypeOK, Item
    <3>3. Failures[i] = items[i].retries
      BY <2>3 DEF Failures
    <3>4. /\ i \in Present /\ Present' = Present /\ Runner' = [Runner EXCEPT ![i] = Nothing]
          /\ Failures' = [Failures EXCEPT ![i] = Failures[i] + 1]
      <4>1. items[i].retries + 1 \in Nat
        BY <3>1
      <4>2. [items[i] EXCEPT !.retries = items[i].retries + 1, !.claimed = Nothing, !.left = 0] \in Item
        BY <3>1, <4>1, NoTime, ItemUpdate
      <4>3. items'[i] \in Item
        BY <3>2, <4>2
      <4>4. items'[i].retries = items[i].retries + 1 /\ items'[i].left = 0
        BY <3>1, <3>2 DEF Item
      <4>5. /\ i \in Present /\ Present' = Present /\ Runner' = [Runner EXCEPT ![i] = Nothing]
            /\ Failures' = [Failures EXCEPT ![i] = items[i].retries + 1]
        BY <1>6, <2>3, <3>2, <4>1, <4>3, <4>4
      <4> QED
        BY <3>3, <4>5
    <3>5. Failures[i] + 1 < MaxRetries
      BY <2>3, <3>1, <3>3, QueueAssumption
    <3>6. Bag!Fail(i)
      BY <3>2, <3>4, <3>5 DEF Bag!Fail, Bag!Freed, Present, Runner, Failures
    <3> QED
      BY <3>6 DEF Bag!Next
  <2> QED
    BY <2>1, <2>2, <2>3
<1>8. ASSUME NEW w \in Worker, NEW i \in Id, Release(w, i)
      PROVE  [Bag!Next]_(Bag!bagVars)
  <2>1. CASE ~Listed(i)
    BY <1>0, <1>8, <2>1, SameItems DEF Release
  <2>2. CASE Listed(i)
    <3>1. items[i] \in Item /\ items[i].retries \in Nat
      BY <2>2 DEF Listed, TypeOK, Item
    <3>2. /\ items'[i] = [items[i] EXCEPT !.claimed = Nothing, !.left = 0]
          /\ \A j \in Id : j # i => items'[j] = items[j]
          /\ dead' = dead
      BY <1>8, <2>2, <3>1 DEF Release, TypeOK, Item
    <3>3. items'[i] \in Item
      <4>1. [items[i] EXCEPT !.claimed = Nothing, !.left = 0] \in Item
        BY <3>1, NoTime, ItemUpdate
      <4> QED
        BY <3>2, <4>1
    <3>4. items'[i].retries = items[i].retries /\ items'[i].left = 0
      BY <3>1, <3>2 DEF Item
    <3>5. /\ Present' = Present /\ Runner' = [Runner EXCEPT ![i] = Nothing]
          /\ Failures' = [Failures EXCEPT ![i] = items[i].retries]
      BY <1>6, <2>2, <3>1, <3>2, <3>3, <3>4
    <3>6. Failures' = Failures
      BY <2>2, <3>5 DEF Failures
    <3>7. Bag!GiveBack(i)
      BY <3>2, <3>5, <3>6 DEF Bag!GiveBack, Bag!Freed, Present, Runner, Failures
    <3> QED
      BY <3>7 DEF Bag!Next
  <2> QED
    BY <2>1, <2>2
<1>9. ASSUME NEW w \in Worker, NEW i \in Id, Forget(w, i)
      PROVE  [Bag!Next]_(Bag!bagVars)
  BY <1>0, <1>9, SameItems DEF Forget
<1>10. CASE PurgeDeadLetter
  <2>1. UNCHANGED <<Present, Runner, Failures>> /\ dead' = {}
    BY <1>10 DEF PurgeDeadLetter, Present, Runner, Failures, Listed, Running
  <2>2. Bag!Clear
    BY <2>1 DEF Bag!Clear, Present, Runner, Failures
  <2> QED
    BY <2>2 DEF Bag!Next
<1>11. CASE Tick
  <2> DEFINE Over == {i \in Id : Running(i) /\ items[i].left = 1}
  <2>1. ASSUME NEW i \in Id
        PROVE  /\ Listed(i)' <=> Listed(i)
               /\ Listed(i) => items'[i].retries = items[i].retries /\ items'[i].claimed = items[i].claimed
               /\ Running(i)' <=> Running(i) /\ items[i].left # 1
    <3>1. items'[i] = IF Running(i) THEN [items[i] EXCEPT !.left = @ - 1] ELSE items[i]
      BY <1>11 DEF Tick
    <3>2. CASE Running(i)
      <4>1. items[i] \in Item /\ Listed(i)
        BY <3>2 DEF Running, Listed, TypeOK
      <4>2. items'[i] \in Item \/ items'[i] = Nothing
        BY DEF TypeOK
      <4>3. items[i].left - 1 \in 0 .. Visibility
        BY <3>2, <4>1, QueueAssumption DEF Running, Item
      <4>4. [items[i] EXCEPT !.left = items[i].left - 1] \in Item
        BY <4>1, <4>3 DEF Item
      <4>5. items'[i] # Nothing
        BY <3>1, <3>2, <4>4, QueueAssumption
      <4>6. /\ items'[i].retries = items[i].retries /\ items'[i].claimed = items[i].claimed
            /\ items'[i].left = items[i].left - 1
        BY <3>1, <3>2, <4>1 DEF Item
      <4>7. items[i].left \in Nat
        BY <4>1, QueueAssumption DEF Item
      <4>8. Running(i)' <=> items'[i].left > 0
        BY <4>5 DEF Running, Listed
      <4>9. Running(i)' <=> items[i].left # 1
        BY <3>2, <4>6, <4>7, <4>8 DEF Running
      <4> QED
        BY <3>2, <4>1, <4>5, <4>6, <4>9 DEF Listed
    <3>3. CASE ~Running(i)
      BY <3>1, <3>3 DEF Running, Listed
    <3> QED
      BY <3>2, <3>3
  <2>2. Present' = Present
    BY <2>1 DEF Present
  <2>3. Failures' = Failures
    BY <2>1 DEF Failures
  <2>4. Runner' = [i \in Id |-> IF i \in Over THEN Nothing ELSE Runner[i]]
    <3>1. ASSUME NEW i \in Id
          PROVE  Runner'[i] = IF i \in Over THEN Nothing ELSE Runner[i]
      BY <2>1 DEF Runner, Running
    <3>2. Runner' = [i \in Id |-> Runner'[i]]
      BY DEF Runner
    <3> QED
      BY <3>1, <3>2
  <2>5. dead' = dead
    BY <1>11 DEF Tick
  <2>6. Over \in SUBSET Id
    OBVIOUS
  <2>7. Bag!Lapse(Over)
    <3> HIDE DEF Over
    <3> QED
      BY <2>2, <2>3, <2>4, <2>5 DEF Bag!Lapse, Present, Runner, Failures
  <2> HIDE DEF Over
  <2> QED
    <3>1. \E Some \in SUBSET Id : Bag!Lapse(Some)
      BY <2>6, <2>7 DEF Bag!Lapse
    <3>2. Bag!Next
      BY <3>1, Zenon DEF Bag!Next
    <3> QED
      BY <3>2
<1>12. CASE UNCHANGED vars
  BY <1>0, <1>12, SameItems DEF vars
<1> QED
  BY <1>1, <1>2, <1>3, <1>5, <1>7, <1>8, <1>9, <1>10, <1>11, <1>12 DEF Next

\* The queue implements the bag of tasks: a claim in force is exclusive, and an
\* item leaves by an answer or as a dead letter.
THEOREM QueueKeepsTasks == Spec => KeepsTasks
<1>1. Init => Bag!Init
  BY DEF Init, Bag!Init, Listed, Running
<1> QED
  BY <1>1, QueueTypeCorrect, BagStep, PTL DEF Spec, Safe, KeepsTasks, Bag!Spec
------------------------------------------------------------------------------
\* Of the workers inside claim() each is in the list of waiters at most once,
\* and nobody else is.
WaitersOnce ==
    /\ \A j, k \in DOMAIN waiters : waiters[j] = waiters[k] => j = k
    /\ \A k \in DOMAIN waiters : Waiting(waiters[k])
ReadyItems == {i \in Id : Ready(i)}
WakeInv == TypeOK /\ NothingStranded /\ WaitersOnce /\ NoLostWakeup

\* A set that gains an element at most, where another gains a new one, stays the smaller.
LEMMA BothGrow ==
    ASSUME NEW R, NEW S, NEW N, NEW x, NEW h, IsFiniteSet(R), IsFiniteSet(N),
           Cardinality(R) <= Cardinality(N), S \subseteq R \cup {x}, h \notin N
    PROVE  Cardinality(S) <= Cardinality(N \cup {h})
<1>0. Cardinality(R) \in Nat
  BY FS_CardinalityType
<1>1. IsFiniteSet(R \cup {x}) /\ Cardinality(R \cup {x}) <= Cardinality(R) + 1
  <2>1. IsFiniteSet(R \cup {x}) /\ (Cardinality(R \cup {x}) = Cardinality(R) \/ Cardinality(R \cup {x}) = Cardinality(R) + 1)
    BY FS_AddElement
  <2> QED
    BY <1>0, <2>1
<1>2. Cardinality(S) <= Cardinality(R \cup {x}) /\ Cardinality(S) \in Nat /\ Cardinality(R \cup {x}) \in Nat
  BY <1>1, FS_Subset, FS_CardinalityType
<1>3. Cardinality(N \cup {h}) = Cardinality(N) + 1 /\ Cardinality(N) \in Nat
  BY FS_AddElement, FS_CardinalityType
<1> QED
  BY <1>0, <1>1, <1>2, <1>3

\* A set that loses an element, where another loses one at most, stays the smaller.
LEMMA BothShrink ==
    ASSUME NEW R, NEW S, NEW N, NEW x, NEW w, IsFiniteSet(R), IsFiniteSet(N),
           Cardinality(R) <= Cardinality(N), x \in R, S \subseteq R \ {x}
    PROVE  Cardinality(S) <= Cardinality(N \ {w})
<1>1. IsFiniteSet(R \ {x}) /\ Cardinality(R \ {x}) = Cardinality(R) - 1 /\ Cardinality(R) \in Nat
  BY FS_RemoveElement, FS_CardinalityType
<1>2. Cardinality(S) <= Cardinality(R \ {x}) /\ Cardinality(S) \in Nat
  BY <1>1, FS_Subset, FS_CardinalityType
<1>0. Cardinality(N) \in Nat
  BY FS_CardinalityType
<1>3. Cardinality(N \ {w}) >= Cardinality(N) - 1 /\ Cardinality(N \ {w}) \in Nat
  <2>1. IsFiniteSet(N \ {w}) /\ (Cardinality(N \ {w}) = Cardinality(N) - 1 \/ Cardinality(N \ {w}) = Cardinality(N))
    BY FS_RemoveElement
  <2>2. Cardinality(N \ {w}) \in Nat
    BY <2>1, FS_CardinalityType
  <2> QED
    BY <1>0, <2>1, <2>2
<1> QED
  BY <1>0, <1>1, <1>2, <1>3

LEMMA CountsFinite ==
    /\ \A S \in SUBSET Id : IsFiniteSet(S) /\ Cardinality(S) \in Nat
    /\ \A S \in SUBSET Worker : IsFiniteSet(S) /\ Cardinality(S) \in Nat
<1>1. \A S \in SUBSET Id : IsFiniteSet(S)
  BY QueueAssumption, FS_Subset
<1>2. \A S \in SUBSET Worker : IsFiniteSet(S)
  BY QueueAssumption, FS_Subset
<1> QED
  BY <1>1, <1>2, FS_CardinalityType

\* A ready item has its entry in the heap, so a round that finds none has none to find.
LEMMA FoundNone ==
    ASSUME NothingStranded, Claimable = {}
    PROVE  ReadyItems = {}
<1> SUFFICES ASSUME NEW i \in Id, Ready(i) PROVE FALSE
  BY DEF ReadyItems
<1>1. Own(i) \in heap /\ Own(i).id = i
  BY DEF NothingStranded, Ready, Own
<1> QED
  BY <1>1 DEF Claimable

\* notify() sends the first waiter on its way.
LEMMA NotifySends ==
    ASSUME TypeOK, WaitersOnce, Notify, wait' = wait
    PROVE  /\ WaitersOnce'
           /\ waiters' # <<>> => waiters # <<>> /\ \E h \in Worker : h \notin Notified /\ Notified' = Notified \cup {h}
           /\ waiters' = <<>> \/ waiters # <<>>
<1>0. waiters \in Seq(Worker)
  BY DEF TypeOK
<1>1. CASE waiters = <<>>
  <2>1. waiters' = waiters
    BY <1>1 DEF Notify
  <2> QED
    BY <1>1, <2>1 DEF WaitersOnce, Waiting
<1>2. CASE waiters # <<>>
  <2> PICK n \in Nat : n = Len(waiters)
    BY <1>0
  <2> PICK h : h = waiters[1]
    OBVIOUS
  <2>1. waiters' = Tail(waiters)
    BY <1>2 DEF Notify
  <2>2. DOMAIN waiters = 1 .. n /\ n >= 1
    BY <1>0, <1>2
  <2>3. DOMAIN waiters' = 1 .. n - 1 /\ \A k \in 1 .. n - 1 : waiters'[k] = waiters[k + 1]
    BY <1>0, <1>2, <2>1
  <2>4. WaitersOnce'
    <3>1. ASSUME NEW j \in 1 .. n - 1, NEW k \in 1 .. n - 1, waiters'[j] = waiters'[k]
          PROVE  j = k
      <4>1. j + 1 \in DOMAIN waiters /\ k + 1 \in DOMAIN waiters
        BY <2>2
      <4>2. waiters[j + 1] = waiters[k + 1]
        BY <2>3, <3>1
      <4>3. j + 1 = k + 1
        BY <4>1, <4>2 DEF WaitersOnce
      <4> QED
        BY <4>3
    <3>2. ASSUME NEW k \in 1 .. n - 1
          PROVE  Waiting(waiters[k])'
      <4>1. k + 1 \in DOMAIN waiters
        BY <2>2
      <4> QED
        BY <4>1, <2>3 DEF WaitersOnce, Waiting
    <3> QED
      BY <2>3, <3>1, <3>2 DEF WaitersOnce
  <2>5. h \in Worker /\ 1 \in DOMAIN waiters
    BY <1>0, <2>2
  <2>6. h \notin Notified
    BY <2>5 DEF Notified, Queued
  <2>7. ASSUME NEW x \in Worker
        PROVE  Queued(x)' <=> Queued(x) /\ x # h
    <3>1. ASSUME Queued(x)' PROVE Queued(x) /\ x # h
      <4>1. PICK k \in 1 .. n - 1 : waiters'[k] = x
        BY <3>1, <2>3 DEF Queued
      <4>2. k + 1 \in DOMAIN waiters /\ waiters[k + 1] = x /\ k + 1 # 1
        BY <2>2, <2>3, <4>1
      <4> QED
        BY <4>2, <2>5 DEF Queued, WaitersOnce
    <3>2. ASSUME Queued(x), x # h PROVE Queued(x)'
      <4>1. PICK k \in 1 .. n : waiters[k] = x
        BY <3>2, <2>2 DEF Queued
      <4>2. k - 1 \in 1 .. n - 1 /\ k = (k - 1) + 1
        BY <4>1, <3>2
      <4>3. waiters'[k - 1] = x
        BY <4>1, <4>2, <2>3
      <4> QED
        BY <4>2, <4>3, <2>3 DEF Queued
    <3> QED
      BY <3>1, <3>2
  <2>8. Waiting(h)
    BY <2>5 DEF WaitersOnce
  <2>9. \A x \in Worker : Waiting(x)' <=> Waiting(x)
    BY DEF Waiting
  <2>10. Notified' = Notified \cup {h}
    BY <2>5, <2>7, <2>8, <2>9 DEF Notified
  <2> QED
    BY <1>2, <2>4, <2>5, <2>6, <2>10
<1> QED
  BY <1>1, <1>2

\* A method that makes one item ready and calls notify() keeps the balance.
LEMMA NotifyBalances ==
    ASSUME WakeInv, Notify, StillLapsed, wait' = wait, NEW i \in Id,
           \A j \in Id \ {i} : items'[j] = items[j]
    PROVE  WaitersOnce' /\ NoLostWakeup'
<1>1. WaitersOnce'
  BY NotifySends DEF WakeInv
<1>2. SUFFICES ASSUME waiters' # <<>>, ~lapsed' PROVE Cardinality(ReadyItems') <= Cardinality(Notified')
  BY <1>1 DEF NoLostWakeup, ReadyItems
<1>3. PICK h \in Worker : h \notin Notified /\ Notified' = Notified \cup {h}
  BY <1>2, NotifySends DEF WakeInv
<1>4. waiters # <<>> /\ ~lapsed
  BY <1>2, NotifySends DEF WakeInv, StillLapsed
<1>5. Cardinality(ReadyItems) <= Cardinality(Notified)
  BY <1>4 DEF WakeInv, NoLostWakeup, ReadyItems
<1>6. ReadyItems' \subseteq ReadyItems \cup {i}
  BY DEF ReadyItems, Ready, Listed
<1>7. IsFiniteSet(ReadyItems) /\ IsFiniteSet(Notified)
  BY CountsFinite DEF ReadyItems, Notified
<1>8. Cardinality(ReadyItems') <= Cardinality(Notified \cup {h})
  BY <1>3, <1>5, <1>6, <1>7, BothGrow
<1> QED
  BY <1>3, <1>8

\* Nothing becomes ready, and the waiters stay.
LEMMA FewerReady ==
    ASSUME WakeInv, waiters' = waiters, ReadyItems' \subseteq ReadyItems,
           \A w \in Worker : Waiting(w)' <=> Waiting(w), lapsed => lapsed'
    PROVE  WaitersOnce' /\ NoLostWakeup'
<1>1. waiters \in Seq(Worker)
  BY DEF WakeInv, TypeOK
<1>2. \A k \in DOMAIN waiters : waiters[k] \in Worker
  BY <1>1
<1>3. WaitersOnce'
  BY <1>2 DEF WakeInv, WaitersOnce
<1>4. Notified' = Notified
  BY DEF Notified, Queued
<1>5. Cardinality(ReadyItems') <= Cardinality(ReadyItems) /\ Cardinality(ReadyItems') \in Nat
      /\ Cardinality(ReadyItems) \in Nat /\ Cardinality(Notified) \in Nat
  <2>1. ReadyItems \in SUBSET Id /\ ReadyItems' \in SUBSET Id /\ Notified \in SUBSET Worker
    BY DEF ReadyItems, Notified
  <2> QED
    BY <2>1, CountsFinite, FS_Subset
<1>6. NoLostWakeup' <=> (waiters' # <<>> /\ ~lapsed' => Cardinality(ReadyItems') <= Cardinality(Notified'))
  BY DEF NoLostWakeup, ReadyItems
<1>7. waiters # <<>> /\ ~lapsed => Cardinality(ReadyItems) <= Cardinality(Notified)
  BY DEF WakeInv, NoLostWakeup, ReadyItems
<1> QED
  BY <1>3, <1>4, <1>5, <1>6, <1>7

\* A sequence without the element at one place: what came behind it moves up.
LEMMA WithoutPlace ==
    ASSUME NEW S, NEW s \in Seq(S), NEW p \in DOMAIN s, NEW r,
           r = SubSeq(s, 1, p - 1) \o SubSeq(s, p + 1, Len(s))
    PROVE  /\ r \in Seq(S) /\ Len(r) = Len(s) - 1
           /\ \A q \in 1 .. Len(s) - 1 : r[q] = IF q < p THEN s[q] ELSE s[q + 1]
<1>1. p \in 1 .. Len(s) /\ Len(s) \in Nat
  BY LenProperties
<1>2. PICK a : a = SubSeq(s, 1, p - 1)
  OBVIOUS
<1>3. PICK b : b = SubSeq(s, p + 1, Len(s))
  OBVIOUS
<1>4. a \in Seq(S) /\ Len(a) = p - 1 /\ \A q \in 1 .. p - 1 : a[q] = s[q]
  BY <1>1, <1>2, SubSeqProperties
<1>5. b \in Seq(S) /\ Len(b) = Len(s) - p /\ \A q \in 1 .. Len(s) - p : b[q] = s[p + q]
  BY <1>1, <1>3, SubSeqProperties
<1>6. r = a \o b
  BY <1>2, <1>3
<1>7. /\ a \o b \in Seq(S) /\ Len(a \o b) = Len(s) - 1
      /\ \A q \in 1 .. Len(s) - 1 : (a \o b)[q] = IF q <= Len(a) THEN a[q] ELSE b[q - Len(a)]
  BY ONLY <1>1, <1>4, <1>5, ConcatProperties
<1>8. ASSUME NEW q \in 1 .. Len(s) - 1
      PROVE  (a \o b)[q] = IF q < p THEN s[q] ELSE s[q + 1]
  <2>1. CASE q < p
    <3>1. q <= Len(a) /\ q \in 1 .. p - 1
      BY <1>1, <1>4, <2>1
    <3>2. (a \o b)[q] = a[q]
      BY <1>7, <3>1
    <3> QED
      BY <1>4, <2>1, <3>1, <3>2
  <2>2. CASE ~ (q < p)
    <3>1. (a \o b)[q] = b[q - (p - 1)] /\ q - (p - 1) \in 1 .. Len(s) - p
      <4>1. ~(q <= Len(a)) /\ Len(a) = p - 1
        BY <1>1, <1>4, <2>2
      <4>2. (a \o b)[q] = b[q - Len(a)]
        BY <1>7, <4>1
      <4>3. q - (p - 1) \in 1 .. Len(s) - p
        BY <1>1, <2>2
      <4> QED
        BY <4>1, <4>2, <4>3
    <3>2. p + (q - (p - 1)) = q + 1
      BY <1>1
    <3> QED
      BY <1>5, <2>2, <3>1, <3>2
  <2> QED
    BY <2>1, <2>2
<1> QED
  BY <1>6, <1>7, <1>8

\* The list of waiters without one of them, in the same order.
LEMMA WithoutOne ==
    ASSUME TypeOK, WaitersOnce, NEW w \in Worker
    PROVE  /\ \A j, k \in DOMAIN Without(w) : Without(w)[j] = Without(w)[k] => j = k
           /\ \A x \in Worker : (\E k \in DOMAIN Without(w) : Without(w)[k] = x) <=> Queued(x) /\ x # w
<1>0. waiters \in Seq(Worker)
  BY DEF TypeOK
<1>1. CASE ~Queued(w)
  BY <1>1 DEF Without, WaitersOnce, Queued
<1>2. CASE Queued(w)
  <2> PICK n \in Nat : n = Len(waiters)
    BY <1>0
  <2> PICK k : k = CHOOSE j \in DOMAIN waiters : waiters[j] = w
    OBVIOUS
  <2> PICK s : s = Without(w)
    OBVIOUS
  <2>1. k \in DOMAIN waiters /\ waiters[k] = w
    BY <1>2 DEF Queued
  <2>2. DOMAIN waiters = 1 .. n
    BY <1>0
  <2>3. s = SubSeq(waiters, 1, k - 1) \o SubSeq(waiters, k + 1, Len(waiters))
    BY <1>2 DEF Without
  <2>4. k \in 1 .. n
    BY <2>1, <2>2
  <2>5. /\ DOMAIN s = 1 .. n - 1
        /\ \A j \in 1 .. n - 1 : s[j] = waiters[IF j < k THEN j ELSE j + 1]
    <3>1. /\ s \in Seq(Worker) /\ Len(s) = Len(waiters) - 1
          /\ \A j \in 1 .. Len(waiters) - 1 : s[j] = IF j < k THEN waiters[j] ELSE waiters[j + 1]
      BY ONLY <1>0, <2>1, <2>3, WithoutPlace
    <3>2. n = Len(waiters)
      OBVIOUS
    <3> QED
      BY ONLY <3>1, <3>2, LenProperties, n \in Nat
  <2>6. \A i, j \in 1 .. n : waiters[i] = waiters[j] => i = j
    BY <2>2 DEF WaitersOnce
  <2>7. ASSUME NEW i \in DOMAIN s, NEW j \in DOMAIN s, s[i] = s[j]
        PROVE  i = j
    <3>1. /\ (IF i < k THEN i ELSE i + 1) \in 1 .. n
          /\ (IF j < k THEN j ELSE j + 1) \in 1 .. n
      BY <2>4, <2>5
    <3>2. (IF i < k THEN i ELSE i + 1) = (IF j < k THEN j ELSE j + 1)
      BY <2>5, <2>6, <2>7, <3>1
    <3> QED
      BY <3>2, <2>4, <2>5
  <2>8. ASSUME NEW x \in Worker
        PROVE  (\E j \in DOMAIN s : s[j] = x) <=> Queued(x) /\ x # w
    <3>1. ASSUME NEW j \in DOMAIN s, s[j] = x PROVE Queued(x) /\ x # w
      <4>1. j \in 1 .. n - 1
        BY <2>5
      <4>2. (IF j < k THEN j ELSE j + 1) \in 1 .. n /\ (IF j < k THEN j ELSE j + 1) # k
        <5>1. CASE j < k
          <6>1. j \in 1 .. n /\ j # k
            BY ONLY <4>1, <2>4, <5>1, n \in Nat
          <6> QED
            BY <5>1, <6>1
        <5>2. CASE ~(j < k)
          <6>1. j + 1 \in 1 .. n /\ j + 1 # k
            BY ONLY <4>1, <2>4, <5>2, n \in Nat
          <6> QED
            BY <5>2, <6>1
        <5> QED
          BY <5>1, <5>2
      <4>3. waiters[IF j < k THEN j ELSE j + 1] = x
        BY <4>1, <2>5, <3>1
      <4> QED
        BY <4>2, <4>3, <2>1, <2>2, <2>6 DEF Queued
    <3>2. ASSUME NEW i \in DOMAIN waiters, waiters[i] = x, x # w
          PROVE  \E j \in DOMAIN s : s[j] = x
      <4>1. i \in 1 .. n /\ i # k
        BY <2>1, <2>2, <3>2
      <4>2. CASE i < k
        <5>1. i \in 1 .. n - 1
          BY <4>1, <4>2, <2>4
        <5>2. s[i] = waiters[i]
          BY <5>1, <4>2, <2>5
        <5> QED
          BY <5>1, <5>2, <2>5, <3>2
      <4>3. CASE ~(i < k)
        <5>1. i - 1 \in 1 .. n - 1 /\ ~(i - 1 < k) /\ (i - 1) + 1 = i
          BY <4>1, <4>3, <2>4
        <5>2. s[i - 1] = waiters[i]
          BY <5>1, <2>5
        <5> QED
          BY <5>1, <5>2, <2>5, <3>2
      <4> QED
        BY <4>2, <4>3
    <3> QED
      BY <3>1, <3>2 DEF Queued
  <2> QED
    BY <2>7, <2>8
<1> QED
  BY <1>1, <1>2

\* A round of claim() takes one ready item and one notified worker off the
\* balance, or there was no ready item.
LEMMA RoundBalances ==
    ASSUME WakeInv, NEW w \in Worker, NEW t \in (0 .. MaxTimeout) \cup {Forever},
           NEW others \in Seq(Worker), Round(w, t, others),
           \A j, k \in DOMAIN others : others[j] = others[k] => j = k,
           \A x \in Worker : (\E k \in DOMAIN others : others[k] = x) <=> Queued(x) /\ x # w
    PROVE  WaitersOnce' /\ NoLostWakeup'
<1>0. TypeOK /\ NothingStranded /\ WaitersOnce
  BY DEF WakeInv
<1>00. t # Idle
  BY QueueAssumption
<1>1. PICK n \in Nat : n = Len(others)
  OBVIOUS
<1>2. DOMAIN others = 1 .. n /\ \A k \in 1 .. n : others[k] \in Worker
  BY <1>1
<1>3. \A k \in 1 .. n : others[k] # w /\ Waiting(others[k])
  <2>1. ASSUME NEW k \in 1 .. n
        PROVE  others[k] # w /\ Queued(others[k])
    BY <1>2
  <2> QED
    BY <2>1, <1>0 DEF WaitersOnce, Queued
<1>4. CASE FindNone /\ t # 0 /\ wait' = [wait EXCEPT ![w] = t] /\ waiters' = Append(others, w)
  <2>1. DOMAIN waiters' = 1 .. n + 1 /\ waiters'[n + 1] = w /\ \A k \in 1 .. n : waiters'[k] = others[k]
    BY <1>1, <1>4, AppendProperties
  <2>2. \A x \in Worker : x # w => wait'[x] = wait[x]
    BY <1>4, <1>0 DEF TypeOK
  <2>3. wait'[w] = t
    BY <1>4, <1>0 DEF TypeOK
  <2>4. \A k \in 1 .. n : Waiting(others[k])'
    BY <1>2, <1>3, <2>2 DEF Waiting
  <2>5. ASSUME NEW j \in 1 .. n + 1, NEW k \in 1 .. n + 1, waiters'[j] = waiters'[k]
        PROVE  j = k
    BY <1>2, <1>3, <2>1, <2>5
  <2>6. ASSUME NEW k \in 1 .. n + 1
        PROVE  Waiting(waiters[k])'
    <3>1. CASE k = n + 1
      BY <3>1, <2>1, <2>3, <1>00 DEF Waiting
    <3>2. CASE k \in 1 .. n
      BY <3>2, <2>1, <2>4 DEF Waiting
    <3> QED
      BY <3>1, <3>2
  <2>7. WaitersOnce'
    BY <2>1, <2>5, <2>6 DEF WaitersOnce
  <2>8. ReadyItems' = {}
    <3>1. ReadyItems = {}
      BY <1>0, <1>4, FoundNone DEF FindNone
    <3> QED
      BY <3>1, <1>4 DEF FindNone, ReadyItems, Ready, Listed
  <2>9. Cardinality(ReadyItems') = 0
    BY <2>8, FS_EmptySet
  <2>10. Cardinality(Notified') \in Nat
    <3>1. Notified' \in SUBSET Worker
      BY DEF Notified
    <3> QED
      BY <3>1, CountsFinite
  <2>11. Cardinality(ReadyItems') <= Cardinality(Notified')
    BY <2>9, <2>10
  <2> QED
    BY <2>7, <2>11 DEF NoLostWakeup, ReadyItems
<1>5. CASE ((FindNone /\ t = 0) \/ \E e \in heap : Take(w, e)) /\ wait' = [wait EXCEPT ![w] = Idle] /\ waiters' = others
  <2>1. \A x \in Worker : x # w => wait'[x] = wait[x]
    BY <1>5, <1>0 DEF TypeOK
  <2>2. wait'[w] = Idle
    BY <1>5, <1>0 DEF TypeOK
  <2>3. \A k \in 1 .. n : Waiting(waiters[k])'
    BY <1>2, <1>3, <1>5, <2>1 DEF Waiting
  <2>4. WaitersOnce'
    BY <1>2, <1>5, <2>3 DEF WaitersOnce
  <2>5. Notified' = Notified \ {w}
    <3>1. \A x \in Worker : Queued(x)' <=> Queued(x) /\ x # w
      BY <1>5 DEF Queued
    <3>2. \A x \in Worker : Waiting(x)' <=> Waiting(x) /\ x # w
      BY <2>1, <2>2 DEF Waiting
    <3> QED
      BY <3>1, <3>2 DEF Notified
  <2>6. ReadyItems \in SUBSET Id /\ ReadyItems' \in SUBSET Id /\ Notified \in SUBSET Worker /\ Notified' \in SUBSET Worker
    BY DEF ReadyItems, Notified
  <2>7. CASE FindNone
    <3>1. ReadyItems = {}
      BY <1>0, <2>7, FoundNone DEF FindNone
    <3>2. ReadyItems' = {}
      BY <3>1, <2>7 DEF FindNone, ReadyItems, Ready, Listed
    <3>3. Cardinality(ReadyItems') = 0
      BY <3>2, FS_EmptySet
    <3>4. Cardinality(Notified') \in Nat
      BY <2>6, CountsFinite
    <3>5. Cardinality(ReadyItems') <= Cardinality(Notified')
      BY <3>3, <3>4
    <3> QED
      BY <2>4, <3>5 DEF NoLostWakeup, ReadyItems
  <2>8. ASSUME NEW e \in heap, Take(w, e)
        PROVE  NoLostWakeup'
    <3>1. e.id \in Id /\ Ready(e.id) /\ items[e.id] \in Item
      BY <2>8, <1>0 DEF Take, First, Claimable, Ready, Listed, TypeOK, Entry
    <3>2. \A j \in Id \ {e.id} : items'[j] = items[j]
      BY <2>8, <3>1, <1>0 DEF Take, TypeOK
    <3>3. items'[e.id].left = Visibility
      <4>1. items'[e.id] = [items[e.id] EXCEPT !.claimed = w, !.left = Visibility]
        BY <2>8, <3>1, <1>0 DEF Take, TypeOK, Item
      <4> QED
        BY <4>1, <3>1 DEF Item
    <3>4. ReadyItems' \subseteq ReadyItems \ {e.id}
      BY <3>2, <3>3, QueueAssumption DEF ReadyItems, Ready, Listed
    <3>5. e.id \in ReadyItems
      BY <3>1 DEF ReadyItems
    <3>6. SUFFICES ASSUME waiters' # <<>>, ~lapsed' PROVE Cardinality(ReadyItems') <= Cardinality(Notified')
      BY DEF NoLostWakeup, ReadyItems
    <3>7. waiters # <<>>
      <4>1. n # 0
        BY <3>6, <1>1, <1>5, EmptySeq
      <4>2. 1 \in DOMAIN others /\ others[1] \in Worker
        BY <4>1, <1>2
      <4>3. Queued(others[1])
        BY <4>2
      <4>4. waiters = <<>> => DOMAIN waiters = {}
        OBVIOUS
      <4> QED
        BY <4>3, <4>4 DEF Queued
    <3>8. ~lapsed
      BY <3>6 DEF Round, StillLapsed
    <3>9. Cardinality(ReadyItems) <= Cardinality(Notified)
      BY <3>7, <3>8 DEF WakeInv, NoLostWakeup, ReadyItems
    <3>10. IsFiniteSet(ReadyItems) /\ IsFiniteSet(Notified)
      BY <2>6, CountsFinite
    <3>11. Cardinality(ReadyItems') <= Cardinality(Notified \ {w})
      BY <3>4, <3>5, <3>9, <3>10, BothShrink
    <3> QED
      BY <2>5, <3>11
  <2> QED
    BY <1>5, <2>4, <2>7, <2>8
<1> QED
  BY <1>4, <1>5 DEF Round

\* One step keeps the balance.
LEMMA WakeStep == WakeInv /\ [Next]_vars => WakeInv'
<1> SUFFICES ASSUME WakeInv, [Next]_vars PROVE WakeInv'
  OBVIOUS
<1>0. TypeOK /\ NothingStranded /\ WaitersOnce
  BY DEF WakeInv
<1> SUFFICES WaitersOnce' /\ NoLostWakeup'
  BY <1>0, TypeStep, StrandedStep DEF WakeInv
<1>01. \A i \in Id : Listed(i) => items[i] \in Item
  BY <1>0 DEF TypeOK, Listed
<1>02. wait \in [Worker -> (0 .. MaxTimeout) \cup {Forever, Idle}]
  BY <1>0 DEF TypeOK
<1>1. ASSUME NEW i \in Id, NEW p \in Priority, NEW t \in Reading, Enqueue(i, p, t)
      PROVE  WaitersOnce' /\ NoLostWakeup'
  <2>1. \A j \in Id \ {i} : items'[j] = items[j]
    BY <1>1, <1>0 DEF Enqueue, TypeOK
  <2> QED
    BY <1>1, <2>1, NotifyBalances DEF Enqueue
<1>2. ASSUME NEW w \in Worker, NEW t \in (0 .. MaxTimeout) \cup {Forever}, Claim(w, t)
      PROVE  WaitersOnce' /\ NoLostWakeup'
  <2>1. waiters \in Seq(Worker) /\ \A k \in DOMAIN waiters : waiters[k] # w
    BY <1>2, <1>0 DEF Claim, TypeOK, WaitersOnce
  <2>2. Round(w, t, waiters)
    BY <1>2 DEF Claim
  <2>3. \A j, k \in DOMAIN waiters : waiters[j] = waiters[k] => j = k
    BY <1>0 DEF WaitersOnce
  <2>4. \A x \in Worker : (\E k \in DOMAIN waiters : waiters[k] = x) <=> Queued(x) /\ x # w
    BY <2>1 DEF Queued
  <2> QED
    BY <2>1, <2>2, <2>3, <2>4, RoundBalances
<1>3. ASSUME NEW w \in Worker, Resume(w)
      PROVE  WaitersOnce' /\ NoLostWakeup'
  <2>1. wait[w] \in (0 .. MaxTimeout) \cup {Forever}
    BY <1>3, <1>02 DEF Resume, Awake, Waiting
  <2>2. PICK others \in Seq(Worker) : others = Without(w)
    BY <1>0, WithoutType DEF TypeOK
  <2>3. /\ \A j, k \in DOMAIN others : others[j] = others[k] => j = k
        /\ \A x \in Worker : (\E k \in DOMAIN others : others[k] = x) <=> Queued(x) /\ x # w
    BY <1>0, <2>2, WithoutOne
  <2>4. Round(w, wait[w], others)
    BY <1>3, <2>2 DEF Resume
  <2> QED
    BY <2>1, <2>3, <2>4, RoundBalances
<1>4. ASSUME NEW w \in Worker, NEW i \in Id, Ack(w, i)
      PROVE  WaitersOnce' /\ NoLostWakeup'
  <2>1. ReadyItems' \subseteq ReadyItems
    BY <1>4, <1>0 DEF Ack, ReadyItems, Ready, Listed, TypeOK
  <2> QED
    BY <1>4, <2>1, FewerReady DEF Ack, Waiting
<1>5. ASSUME NEW w \in Worker, NEW i \in Id, Nack(w, i)
      PROVE  WaitersOnce' /\ NoLostWakeup'
  <2>1. wait' = wait
    BY <1>5 DEF Nack
  <2>2. CASE ~Listed(i) \/ items[i].retries + 1 >= MaxRetries
    <3>1. ReadyItems' \subseteq ReadyItems
      BY <1>5, <2>2, <1>0 DEF Nack, ReadyItems, Ready, Listed, TypeOK
    <3>2. waiters' = waiters /\ lapsed' = lapsed
      BY <1>5, <2>2 DEF Nack
    <3> QED
      BY <2>1, <3>1, <3>2, FewerReady DEF Waiting
  <2>3. CASE ~(~Listed(i) \/ items[i].retries + 1 >= MaxRetries)
    <3>1. Notify /\ StillLapsed
      BY <1>5, <2>3 DEF Nack
    <3>2. \A j \in Id \ {i} : items'[j] = items[j]
      BY <1>5, <2>3, <1>0 DEF Nack, TypeOK
    <3> QED
      BY <2>1, <3>1, <3>2, NotifyBalances
  <2> QED
    BY <2>2, <2>3
<1>6. ASSUME NEW w \in Worker, NEW i \in Id, Release(w, i)
      PROVE  WaitersOnce' /\ NoLostWakeup'
  <2>1. wait' = wait
    BY <1>6 DEF Release
  <2>2. CASE ~Listed(i)
    BY <1>6, <2>2, <2>1, FewerReady DEF Release, Waiting, ReadyItems, Ready, Listed
  <2>3. CASE Listed(i)
    <3>1. Notify /\ StillLapsed
      BY <1>6, <2>3 DEF Release
    <3>2. \A j \in Id \ {i} : items'[j] = items[j]
      BY <1>6, <2>3, <1>0 DEF Release, TypeOK
    <3> QED
      BY <2>1, <3>1, <3>2, NotifyBalances
  <2> QED
    BY <2>2, <2>3
<1>7. ASSUME UNCHANGED <<items, waiters, wait, lapsed>>
      PROVE  WaitersOnce' /\ NoLostWakeup'
  BY <1>7, FewerReady DEF Waiting, ReadyItems, Ready, Listed
<1>8. ASSUME Tick
      PROVE  WaitersOnce' /\ NoLostWakeup'
  <2>1. waiters' = waiters
    BY <1>8 DEF Tick
  <2>2. \A w \in Worker : Waiting(w)' <=> Waiting(w)
    <3>1. ASSUME NEW w \in Worker PROVE (wait'[w] = Idle) <=> (wait[w] = Idle)
      <4>1. wait'[w] = Elapse(wait[w])
        BY <1>8 DEF Tick
      <4>2. CASE wait[w] \in 0 .. MaxTimeout
        <5>1. Elapse(wait[w]) \in Nat /\ wait[w] \in Nat
          BY <4>2, QueueAssumption DEF Elapse
        <5> QED
          BY <4>1, <5>1, QueueAssumption
      <4>3. CASE wait[w] \in {Forever, Idle}
        <5>1. Elapse(wait[w]) = wait[w]
          BY <4>3, QueueAssumption DEF Elapse
        <5> QED
          BY <4>1, <5>1
      <4> QED
        BY <4>2, <4>3, <1>02
    <3> QED
      BY <3>1 DEF Waiting
  <2>3. CASE lapsed'
    <3>1. \A k \in DOMAIN waiters : waiters[k] \in Worker
      BY <1>0 DEF TypeOK
    <3> QED
      BY <2>1, <2>2, <2>3, <3>1, <1>0 DEF WaitersOnce, NoLostWakeup
  <2>4. CASE ~lapsed'
    <3>1. CASE waiters = <<>>
      BY <2>1, <3>1 DEF WaitersOnce, NoLostWakeup
    <3>2. CASE waiters # <<>>
      <4>1. ASSUME NEW i \in Id, Ready(i)' PROVE Ready(i)
        <5>1. items'[i] = IF Running(i) THEN [items[i] EXCEPT !.left = @ - 1] ELSE items[i]
          BY <1>8 DEF Tick
        <5>2. CASE Running(i)
          <6>0. items[i] \in Item /\ items[i].left > 0
            BY <5>2, <1>01 DEF Running
          <6>1. items[i].left \in Nat
            BY <6>0, QueueAssumption DEF Item
          <6>3. items[i].left # 1
            BY <5>2, <1>8, <2>4, <3>2 DEF Tick
          <6>2. items'[i].left = items[i].left - 1
            BY <5>1, <5>2, <6>0 DEF Item
          <6> QED
            BY <4>1, <6>0, <6>1, <6>2, <6>3 DEF Ready
        <5>3. CASE ~Running(i)
          BY <4>1, <5>1, <5>3 DEF Ready, Listed
        <5> QED
          BY <5>2, <5>3
      <4>2. ReadyItems' \subseteq ReadyItems
        BY <4>1 DEF ReadyItems
      <4>3. ~lapsed
        BY <1>8, <2>4 DEF Tick
      <4> QED
        BY <2>1, <2>2, <2>4, <4>2, <4>3, FewerReady
    <3> QED
      BY <3>1, <3>2
  <2> QED
    BY <2>3, <2>4
<1> QED
  BY <1>1, <1>2, <1>3, <1>4, <1>5, <1>6, <1>7, <1>8 DEF Next, PurgeDeadLetter, Forget, vars

\* Nobody sleeps beside a ready task that enqueue, nack or release made ready
\* while nobody is on the way to it: there is a notified worker for each.
THEOREM NoWakeupIsLost == Spec => []NoLostWakeup
<1>1. Init => WakeInv
  <2>1. Init => TypeOK
    BY QueueAssumption, EmptySeq DEF Init, TypeOK
  <2>2. Init => NothingStranded
    BY DEF Init, NothingStranded, Listed
  <2>3. Init => WaitersOnce /\ NoLostWakeup
    BY DEF Init, WaitersOnce, NoLostWakeup
  <2> QED
    BY <2>1, <2>2, <2>3 DEF WakeInv
<1>2. WakeInv => NoLostWakeup
  BY DEF WakeInv
<1> QED
  BY <1>1, <1>2, WakeStep, PTL DEF Spec, Safe
==============================================================================
