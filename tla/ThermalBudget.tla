---------------------------- MODULE ThermalBudget ----------------------------
(***************************************************************************)
(* The compute slots of swarm/thermal.py (class ThermalBudget) and the VCG *)
(* auction of swarm/thermal_auction.py that hands them out.  Every method  *)
(* runs under one lock, so every method is one atomic action whatever the  *)
(* number of threads; a method that returns False or raises and changes    *)
(* nothing is not an action.                                               *)
(*                                                                         *)
(* A bid's (value, fitness) pair is one number, its rank.  Prices change   *)
(* no allocation and are left out.                                         *)
(***************************************************************************)
EXTENDS Integers, Sequences, FiniteSets

CONSTANTS
    Agent,
    Device,            \* the device types of the program
    Configured,        \* those that the budget was built with
    MaxAgents,         \* max_agents of each device, 0 where not configured
    NoDevice,          \* no device
    AuctionInterval,   \* auction_interval, at least 1
    Rank,              \* the ranks a bid may have
    MaxBids            \* bound: bids queued between two auctions

ASSUME BudgetAssumption ==
    /\ IsFiniteSet(Agent)
    /\ Configured \subseteq Device
    /\ MaxAgents \in [Device -> Nat]
    /\ \A d \in Device \ Configured : MaxAgents[d] = 0
    /\ NoDevice \notin Device
    /\ AuctionInterval \in Nat \ {0}
    /\ Rank \subseteq Nat
    /\ MaxBids \in Nat

VARIABLES
    useAuction,    \* use_auction, fixed when the budget is built
    current,       \* current_agents of each device
    allocations,   \* _allocations: the device of each agent, NoDevice if absent
    bidQueue,      \* _bid_queue
    ticks          \* _auction_tick_counter, modulo the interval

thermalVars == <<useAuction, current, allocations, bidQueue, ticks>>

Bid == [agent : Agent, device : Device, rank : Rank]

HasRoomOffByOne(d) == current[d] <= MaxAgents[d]   \* mutant of HasRoom
HasRoom(d) == current[d] < MaxAgents[d]
Holders(d) == {a \in Agent : allocations[a] = d}

BudgetInit ==
    /\ useAuction \in BOOLEAN
    /\ current = [d \in Device |-> 0]
    /\ allocations = [a \in Agent |-> NoDevice]
    /\ bidQueue = <<>>
    /\ ticks = 0

\* Give a a slot of d.
Take(a, d) ==
    /\ current' = [current EXCEPT ![d] = @ + 1]
    /\ allocations' = [allocations EXCEPT ![a] = d]
    /\ UNCHANGED <<useAuction, bidQueue, ticks>>

\* allocate: raises for an agent that has a slot, False for a full device.
CanAllocate(a, d) == allocations[a] = NoDevice /\ HasRoom(d)
Allocate(a, d) == CanAllocate(a, d) /\ Take(a, d)

\* Mutant of Release: the count is not lowered.
ReleaseUncounted(a) ==
    /\ allocations[a] # NoDevice
    /\ allocations' = [allocations EXCEPT ![a] = NoDevice]
    /\ UNCHANGED <<useAuction, current, bidQueue, ticks>>

\* release
Release(a) ==
    /\ allocations[a] # NoDevice
    /\ current' = [current EXCEPT ![allocations[a]] = @ - 1]
    /\ allocations' = [allocations EXCEPT ![a] = NoDevice]
    /\ UNCHANGED <<useAuction, bidQueue, ticks>>

\* parent_sacrifice_before_spawn on a full device: the parent gives its slot
\* up if that makes room for the child, and keeps it if it does not.
SacrificeHelps(parent, d) ==
    /\ d \in Configured
    /\ allocations[parent] # NoDevice
    /\ [current EXCEPT ![allocations[parent]] = @ - 1][d] < MaxAgents[d]
ParentSacrifice(parent, d) ==
    /\ ~HasRoom(d)
    /\ SacrificeHelps(parent, d)
    /\ Release(parent)

\* spawn_with_thermal_check (and spawn without the auction): the preferred
\* device, then the fallbacks in the caller's order.
SpawnWithThermalCheck(a, candidates) ==
    /\ allocations[a] = NoDevice
    /\ \E i \in DOMAIN candidates :
          /\ HasRoom(candidates[i])
          /\ \A j \in 1 .. i - 1 : ~HasRoom(candidates[j])
          /\ Take(a, candidates[i])

\* spawn with the auction: the bid is queued, whatever the agent already has.
QueueBid(b) ==
    /\ useAuction
    /\ Len(bidQueue) < MaxBids
    /\ bidQueue' = Append(bidQueue, b)
    /\ UNCHANGED <<useAuction, current, allocations, ticks>>

-----------------------------------------------------------------------------
(* The auction: on each device the max_agents best bids win, ties going to *)
(* the earlier bid (the sort is stable).  A bid is its place in the queue. *)

\* Mutant of Beats: the sort is not reversed.
BeatsAscending(i, j) ==
    /\ bidQueue[i].device = bidQueue[j].device
    /\ \/ bidQueue[i].rank < bidQueue[j].rank
       \/ bidQueue[i].rank = bidQueue[j].rank /\ i < j

Beats(i, j) ==
    /\ bidQueue[i].device = bidQueue[j].device
    /\ \/ bidQueue[i].rank > bidQueue[j].rank
       \/ bidQueue[i].rank = bidQueue[j].rank /\ i < j

WinningBids ==
    {i \in DOMAIN bidQueue :
        Cardinality({j \in DOMAIN bidQueue : Beats(j, i)}) < MaxAgents[bidQueue[i].device]}

\* The devices are auctioned in the order in which the queue first names them.
NamedBefore(d, e) ==
    \E i \in DOMAIN bidQueue :
        /\ bidQueue[i].device = d
        /\ \A j \in 1 .. i : bidQueue[j].device # e

Precedes(i, j) == Beats(i, j) \/ NamedBefore(bidQueue[i].device, bidQueue[j].device)

\* The results have one entry per winner: its place is that of its first win,
\* its device that of its last.
Winners == {bidQueue[i].agent : i \in WinningBids}
Wins(a) == {i \in WinningBids : bidQueue[i].agent = a}
FirstWin(a) == CHOOSE i \in Wins(a) : \A j \in Wins(a) \ {i} : Precedes(i, j)
WonDevice(a) ==
    bidQueue[CHOOSE i \in Wins(a) : \A j \in Wins(a) \ {i} : Precedes(j, i)].device

\* The results are applied in order, while the device has room.
Granted(a) ==
    Cardinality({b \in Winners : /\ WonDevice(b) = WonDevice(a)
                                 /\ Precedes(FirstWin(b), FirstWin(a))})
        < MaxAgents[WonDevice(a)] - current[WonDevice(a)]

RunAuction ==
    LET G == {a \in Winners : Granted(a)} IN
    /\ current' = [d \in Device |-> current[d] + Cardinality({a \in G : WonDevice(a) = d})]
    /\ allocations' = [a \in Agent |-> IF a \in G THEN WonDevice(a) ELSE allocations[a]]

\* tick
BudgetTick ==
    /\ UNCHANGED useAuction
    /\ ticks' = (ticks + 1) % AuctionInterval
    /\ IF ticks' # 0 \/ bidQueue = <<>>
       THEN UNCHANGED <<current, allocations, bidQueue>>
       ELSE /\ bidQueue' = <<>>
            \* a bid for a device the budget lacks raises once the queue is cleared
            /\ IF \E i \in DOMAIN bidQueue : bidQueue[i].device \notin Configured
               THEN UNCHANGED <<current, allocations>>
               ELSE RunAuction

Reset ==
    /\ current' = [d \in Device |-> 0]
    /\ allocations' = [a \in Agent |-> NoDevice]
    /\ bidQueue' = <<>>
    /\ UNCHANGED <<useAuction, ticks>>

BudgetNext ==
    \/ \E a \in Agent, d \in Device : Allocate(a, d)
    \/ \E a \in Agent : Release(a)
    \/ \E a \in Agent, d \in Device : ParentSacrifice(a, d)
    \/ \E a \in Agent, c \in [1 .. Cardinality(Device) -> Device] :
          ~useAuction /\ SpawnWithThermalCheck(a, c)
    \/ \E b \in Bid : QueueBid(b)
    \/ BudgetTick
    \/ Reset

BudgetSpec == BudgetInit /\ [][BudgetNext]_thermalVars

-----------------------------------------------------------------------------
TypeOK ==
    /\ useAuction \in BOOLEAN
    /\ current \in [Device -> Int]
    /\ allocations \in [Agent -> Device \cup {NoDevice}]
    /\ bidQueue \in Seq(Bid)
    /\ ticks \in 0 .. AuctionInterval - 1

\* No sequence of calls, in either mode, hands out more slots than a device
\* has, or loses count of an agent that holds one.
NeverOvercommitted ==
    \A d \in Device : Cardinality(Holders(d)) <= current[d] /\ current[d] <= MaxAgents[d]

\* DeviceBudget: "current_agents: Currently allocated agents."
SlotsAccounted == \A d \in Device : current[d] = Cardinality(Holders(d))

\* What the budget guarantees without the auction: the count of a device is the
\* number of agents that hold its slots, whatever is released, sacrificed, put
\* back or reset in between.
DirectSlotsAccounted == ~useAuction => SlotsAccounted

\* An auction never gives a slot to a bid and refuses a better one for the same
\* device, however few slots are still free when the results are applied (for
\* agents that bid once).
BidsOnce(a) == Cardinality({i \in DOMAIN bidQueue : bidQueue[i].agent = a}) = 1
BetterBidWins ==
    [][\A i, j \in DOMAIN bidQueue :
          LET a == bidQueue[i].agent
              b == bidQueue[j].agent
              d == bidQueue[i].device
          IN  /\ a # b /\ BidsOnce(a) /\ BidsOnce(b)
              /\ bidQueue[j].device = d
              /\ bidQueue[i].rank > bidQueue[j].rank
              /\ allocations[b] # d /\ allocations'[b] = d
              /\ bidQueue' = <<>>
              => allocations'[a] = d]_thermalVars

=============================================================================
