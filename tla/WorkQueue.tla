------------------------------ MODULE WorkQueue ------------------------------
(***************************************************************************)
(* The work queue of fleet/work_queue.py: producers enqueue, workers claim *)
(* under a visibility timeout and answer with ack, nack or release, or die *)
(* and never answer.  Every method holds one lock, which claim() gives up  *)
(* while it waits on the condition.                                        *)
(*                                                                         *)
(* Time is relative: a claim and a wait have so much time left, and Tick   *)
(* takes one unit from all of them.  created_at only orders the heap; it   *)
(* is any reading of the clock, which enqueue() takes before the lock.     *)
(***************************************************************************)
EXTENDS Naturals, Sequences, FiniteSets

CONSTANTS
    Id,           \* item ids, which compare
    Worker,
    Priority,     \* low numbers first
    Reading,      \* bound: values of created_at
    Visibility,   \* visibility_timeout
    MaxRetries,   \* max_retries
    MaxTimeout,   \* bound: finite timeouts of claim()
    Forever,      \* the timeout None
    Idle,         \* of a worker that is not inside claim()
    Nothing       \* no item, no worker

\* claimed_at and visible_at are one fact to every branch: the time left to the
\* claim, 0 when there is none or it is over.
Item == [priority : Priority, at : Reading, claimed : Worker \cup {Nothing},
         left : 0 .. Visibility, retries : Nat]

ASSUME QueueAssumption ==
    /\ Id \subseteq Nat /\ Priority \subseteq Nat /\ Reading \subseteq Nat
    /\ IsFiniteSet(Id) /\ IsFiniteSet(Worker) /\ IsFiniteSet(Priority) /\ IsFiniteSet(Reading)
    /\ Visibility \in Nat \ {0} /\ MaxRetries \in Nat /\ MaxTimeout \in Nat
    /\ Forever \notin Nat /\ Idle \notin Nat /\ Idle # Forever
    /\ Nothing \notin Item \cup Id \cup Worker

VARIABLES
    items,     \* _items
    heap,      \* _heap; an entry pushed twice changes nothing
    dead,      \* ids in _dead_letter
    waiters,   \* of the condition, in the order they came
    wait,      \* of each worker inside claim(): the time left to its deadline
    held,      \* the item each worker has been given and not yet answered for
    lapsed     \* history: a claim has expired since somebody has been waiting

vars == <<items, heap, dead, waiters, wait, held, lapsed>>

Entry == [priority : Priority, at : Reading, id : Id]

Listed(i) == items[i] # Nothing
\* Mutant: the visibility test forgotten.
ReadyAlways(i) == Listed(i)
\* The test of _try_claim: visible, and not claimed or the claim is over.
Ready(i) == Listed(i) /\ items[i].left = 0

\* Mutant: the priority last in the tuple.
BeforeByAge(e, f) ==
    \/ e.at < f.at
    \/ e.at = f.at /\ e.id < f.id
    \/ e.at = f.at /\ e.id = f.id /\ e.priority < f.priority
\* Tuples compare component by component.
Before(e, f) ==
    \/ e.priority < f.priority
    \/ e.priority = f.priority /\ e.at < f.at
    \/ e.priority = f.priority /\ e.at = f.at /\ e.id < f.id

Waiting(w) == wait[w] # Idle
Queued(w) == \E k \in DOMAIN waiters : waiters[k] = w
\* A waiter runs on when notified, or when its time is over; in the latter
\* case it stays in the list of waiters until it has the lock.
Awake(w) == Waiting(w) /\ (~Queued(w) \/ wait[w] = 0)
Without(w) ==
    IF ~Queued(w) THEN waiters
    ELSE LET k == CHOOSE k \in DOMAIN waiters : waiters[k] = w
         IN SubSeq(waiters, 1, k - 1) \o SubSeq(waiters, k + 1, Len(waiters))

Notify == waiters' = IF waiters = <<>> THEN waiters ELSE Tail(waiters)
StillLapsed == lapsed' = (lapsed /\ waiters' # <<>>)
------------------------------------------------------------------------------
Init ==
    /\ items = [i \in Id |-> Nothing]
    /\ heap = {}
    /\ dead = {}
    /\ waiters = <<>>
    /\ wait = [w \in Worker |-> Idle]
    /\ held = [w \in Worker |-> Nothing]
    /\ lapsed = FALSE

\* enqueue(): an explicit item_id may be in use; its item is replaced, and its
\* old entry stays in the heap.
Enqueue(i, p, t) ==
    /\ items' = [items EXCEPT ![i] = [priority |-> p, at |-> t, claimed |-> Nothing,
                                      left |-> 0, retries |-> 0]]
    /\ heap' = heap \cup {[priority |-> p, at |-> t, id |-> i]}
    /\ Notify /\ StillLapsed
    /\ UNCHANGED <<dead, wait, held>>

Claimable == {e \in heap : Ready(e.id)}
First(e) == e \in Claimable /\ \A f \in Claimable : f = e \/ Before(e, f)

\* Mutant: the entry of the claimed item is not pushed again.
TakePopped(w, e) ==
    /\ First(e)
    /\ items' = [items EXCEPT ![e.id].claimed = w, ![e.id].left = Visibility]
    /\ heap' = heap \ {f \in heap : f = e \/ (Before(f, e) /\ ~Listed(f.id))}
    /\ held' = [held EXCEPT ![w] = e.id]
\* _try_claim() with an item to claim.  Every entry popped is pushed again but
\* those of items that are gone.
Take(w, e) ==
    /\ First(e)
    /\ items' = [items EXCEPT ![e.id].claimed = w, ![e.id].left = Visibility]
    /\ heap' = heap \ {f \in heap : Before(f, e) /\ ~Listed(f.id)}
    /\ held' = [held EXCEPT ![w] = e.id]
FindNone ==
    /\ Claimable = {}
    /\ heap' = {f \in heap : Listed(f.id)}
    /\ UNCHANGED <<items, held>>

\* One round of the loop of claim(), for a worker with time t left, when the
\* others in others wait.
Round(w, t, others) ==
    /\ \/ /\ FindNone /\ t # 0
          /\ wait' = [wait EXCEPT ![w] = t] /\ waiters' = Append(others, w)
       \/ /\ (FindNone /\ t = 0) \/ \E e \in heap : Take(w, e)
          /\ wait' = [wait EXCEPT ![w] = Idle] /\ waiters' = others
    /\ StillLapsed
    /\ UNCHANGED dead

\* A worker handles one task at a time.
Claim(w, t) == ~Waiting(w) /\ held[w] = Nothing /\ Round(w, t, waiters)

\* Mutant: the deadline counted again from every wake-up.
ResumeAfresh(w) ==
    Awake(w) /\ Round(w, IF wait[w] = Forever THEN Forever ELSE MaxTimeout, Without(w))
Resume(w) == Awake(w) /\ Round(w, wait[w], Without(w))

\* ack(): by id, whoever holds the claim by now.
Ack(w, i) ==
    /\ held[w] = i
    /\ items' = [items EXCEPT ![i] = Nothing]
    /\ held' = [held EXCEPT ![w] = Nothing]
    /\ UNCHANGED <<heap, dead, waiters, wait, lapsed>>

Nack(w, i) ==
    /\ held[w] = i
    /\ held' = [held EXCEPT ![w] = Nothing]
    /\ IF ~Listed(i)
       THEN UNCHANGED <<items, dead, waiters, lapsed>>
       ELSE IF items[i].retries + 1 >= MaxRetries
       THEN /\ items' = [items EXCEPT ![i] = Nothing]
            /\ dead' = dead \cup {i}
            /\ UNCHANGED <<waiters, lapsed>>
       ELSE /\ items' = [items EXCEPT ![i].retries = @ + 1, ![i].claimed = Nothing, ![i].left = 0]
            /\ Notify /\ StillLapsed
            /\ UNCHANGED dead
    /\ UNCHANGED <<heap, wait>>

\* Mutant: release() without notify().
ReleaseQuietly(w, i) ==
    /\ held[w] = i
    /\ held' = [held EXCEPT ![w] = Nothing]
    /\ IF Listed(i) THEN items' = [items EXCEPT ![i].claimed = Nothing, ![i].left = 0] ELSE UNCHANGED items
    /\ UNCHANGED <<heap, dead, waiters, wait, lapsed>>
Release(w, i) ==
    /\ held[w] = i
    /\ held' = [held EXCEPT ![w] = Nothing]
    /\ IF ~Listed(i)
       THEN UNCHANGED <<items, waiters, lapsed>>
       ELSE /\ items' = [items EXCEPT ![i].claimed = Nothing, ![i].left = 0]
            /\ Notify /\ StillLapsed
    /\ UNCHANGED <<heap, dead, wait>>

PurgeDeadLetter ==
    /\ dead # {}
    /\ dead' = {}
    /\ UNCHANGED <<items, heap, waiters, wait, held, lapsed>>
------------------------------------------------------------------------------
\* The world outside: time passes, and a worker dies with its task.
Running(i) == Listed(i) /\ items[i].left > 0
Elapse(n) == IF n \in Nat /\ n > 0 THEN n - 1 ELSE n
Tick ==
    /\ items' = [i \in Id |-> IF Running(i) THEN [items[i] EXCEPT !.left = @ - 1] ELSE items[i]]
    /\ wait' = [w \in Worker |-> Elapse(wait[w])]
    /\ lapsed' = (lapsed \/ (waiters # <<>> /\ \E i \in Id : Running(i) /\ items[i].left = 1))
    /\ UNCHANGED <<heap, dead, waiters, held>>

Forget(w, i) ==
    /\ held[w] = i
    /\ held' = [held EXCEPT ![w] = Nothing]
    /\ UNCHANGED <<items, heap, dead, waiters, wait, lapsed>>

Next ==
    \/ \E i \in Id, p \in Priority, t \in Reading : Enqueue(i, p, t)
    \/ \E w \in Worker : (\E t \in (0 .. MaxTimeout) \cup {Forever} : Claim(w, t)) \/ Resume(w)
    \/ \E w \in Worker, i \in Id : Ack(w, i) \/ Nack(w, i) \/ Release(w, i) \/ Forget(w, i)
    \/ PurgeDeadLetter
    \/ Tick

Safe == Init /\ [][Next]_vars

\* Time passes, and a thread that waits for the lock gets it.
Spec == Safe /\ WF_vars(Tick) /\ \A w \in Worker : WF_vars(Resume(w))
------------------------------------------------------------------------------
\* Type of the state.
TypeOK ==
    /\ items \in [Id -> Item \cup {Nothing}]
    /\ heap \subseteq Entry
    /\ dead \subseteq Id
    /\ waiters \in Seq(Worker)
    /\ wait \in [Worker -> (0 .. MaxTimeout) \cup {Forever, Idle}]
    /\ held \in [Worker -> Id \cup {Nothing}]
    /\ lapsed \in BOOLEAN

\* The entry pushed with the item.
Own(i) == [priority |-> items[i].priority, at |-> items[i].at, id |-> i]

\* Every item has its own entry in the heap, through claims, expiries, late
\* answers and reuse of its id: _items and _heap are kept apart, _try_claim pops
\* entries and pushes them back, and an item without an entry is never served.
NothingStranded ==
    \A i \in Id : Listed(i) => Own(i) \in heap

\* A claim takes no item while one of a better priority is ready, as the doc of
\* claim() says; except for an id that was used before, which is found under its
\* old entry.
Stale(i) == \E e \in heap : e.id = i /\ e # Own(i)
BestFirst ==
    [][\A i, j \in Id :
        Ready(i) /\ Ready(j) /\ Running(i)' /\ ~Stale(i) => items[i].priority <= items[j].priority]_vars

\* Nobody sleeps beside a task that enqueue, nack or release made ready: as long
\* as no claim expires, which notifies nobody, there is a notified worker on its
\* way for each ready task.
Notified == {w \in Worker : Waiting(w) /\ ~Queued(w)}
NoLostWakeup ==
    waiters # <<>> /\ ~lapsed => Cardinality({i \in Id : Ready(i)}) <= Cardinality(Notified)

\* A claim with a finite timeout returns, however often its worker is woken for
\* a task that another takes first.
TimedClaimReturns == \A w \in Worker : (wait[w] \in Nat) ~> ~Waiting(w)

\* The queue implements the bag: no task is given out while its claim is in
\* force, and none disappears unanswered.
Bag == INSTANCE TaskBag WITH
    Nobody <- Nothing,
    present <- {i \in Id : Listed(i)},
    runner <- [i \in Id |-> IF Running(i) THEN items[i].claimed ELSE Nothing],
    failures <- [i \in Id |-> IF Listed(i) THEN items[i].retries ELSE 0],
    buried <- dead
KeepsTasks == Bag!Spec
==============================================================================
