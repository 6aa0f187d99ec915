--------------------------- MODULE MeshVectorTables --------------------------
(***************************************************************************)
(* Vector tables of one domain (swarm/mesh_vector_tables.py), replicated:  *)
(* each row is a last-writer-wins register, replicas exchange payloads or  *)
(* are merged directly.  Every method holds the lock of its table;         *)
(* merge_remote_table holds it while it waits for the lock of the other    *)
(* and while it applies the rows it has read there.                        *)
(***************************************************************************)
EXTENDS MeshRows, FiniteSets

CONSTANTS
    Table,        \* the replicas
    MaxSent,      \* bound: payloads on their way
    Verifies      \* the rows whose signature each table accepts

ASSUME TablesAssumption ==
    /\ Verifies \in [Table -> SUBSET Entry]
    /\ MaxSent \in Nat
    /\ None \notin Table

VARIABLES
    table,        \* _entries of each table
    sent,         \* the payloads produced; any may be applied late, twice or never
    merging,      \* the table whose lock a merge into this one is waiting for
    fetched,      \* the rows a merge into this one has read and not yet applied
    seen          \* history: the rows each table has been offered and had to judge

tableVars == <<table, sent, merging, fetched, seen>>

Verified(t, c) == [a \in Agent |-> IF c[a] \in Verifies[t] THEN c[a] ELSE None]

TablesInit ==
    /\ table = [t \in Table |-> Empty]
    /\ sent = {}
    /\ merging = [t \in Table |-> None]
    /\ fetched = [t \in Table |-> None]
    /\ seen = [t \in Table |-> {}]
------------------------------------------------------------------------------
Unlocked(t) == merging[t] = None /\ fetched[t] = None

\* The rows of c are offered to t, one after the other.
Offer(t, c) ==
    /\ table' = [table EXCEPT ![t] = Join(@, c)]
    /\ seen' = [seen EXCEPT ![t] = @ \cup Rows(c)]

\* insert(); insert_signed() and a caller that trusts the row skip the check.
Insert(t, e, verify) ==
    /\ Unlocked(t)
    /\ verify => e \in Verifies[t]
    /\ Offer(t, Row(e))
    /\ UNCHANGED <<sent, merging, fetched>>

GetSyncPayload(t) ==
    /\ Unlocked(t) /\ Cardinality(sent) < MaxSent
    /\ sent' = sent \cup {table[t]}
    /\ UNCHANGED <<table, merging, fetched, seen>>

\* apply_sync_payload(): rows that do not verify are left out, the rest merged.
ApplySyncPayload(t, c) ==
    /\ Unlocked(t) /\ c \in sent
    /\ Offer(t, Verified(t, c))
    /\ UNCHANGED <<sent, merging, fetched>>

\* merge_remote_table() takes the lock of t, ...
StartMerge(t, u) ==
    /\ t # u /\ Unlocked(t)
    /\ merging' = [merging EXCEPT ![t] = u]
    /\ UNCHANGED <<table, sent, fetched, seen>>

\* ... keeps it while it takes that of u for as long as it reads the rows, ...
Fetch(t) ==
    /\ merging[t] # None /\ Unlocked(merging[t])
    /\ fetched' = [fetched EXCEPT ![t] = table[merging[t]]]
    /\ merging' = [merging EXCEPT ![t] = None]
    /\ UNCHANGED <<table, sent, seen>>

\* ... applies them and gives its own lock back.
FinishMerge(t) ==
    /\ fetched[t] # None
    /\ Offer(t, fetched[t])
    /\ fetched' = [fetched EXCEPT ![t] = None]
    /\ UNCHANGED <<sent, merging>>

\* The entries of some agents are popped, as recover() does for a delete.
Drop(t, agents) ==
    /\ Unlocked(t)
    /\ table' = [table EXCEPT ![t] = [a \in Agent |-> IF a \in agents THEN None ELSE @[a]]]
    /\ seen' = [seen EXCEPT ![t] = {e \in @ : e.agent \notin agents}]
    /\ UNCHANGED <<sent, merging, fetched>>

\* The process ends, and later a table is restored with the rows of c.
Lose ==
    /\ table' = [t \in Table |-> Empty]
    /\ seen' = [t \in Table |-> {}]
    /\ merging' = [t \in Table |-> None] /\ fetched' = [t \in Table |-> None]
    /\ UNCHANGED sent
Load(t, c) ==
    /\ Unlocked(t)
    /\ table' = [table EXCEPT ![t] = c]
    /\ seen' = [seen EXCEPT ![t] = Rows(c)]
    /\ UNCHANGED <<sent, merging, fetched>>

TablesNext ==
    \/ Lose
    \/ \E t \in Table :
        \/ \E e \in Entry, verify \in BOOLEAN : Insert(t, e, verify)
        \/ GetSyncPayload(t)
        \/ \E c \in sent : ApplySyncPayload(t, c)
        \/ \E u \in Table : StartMerge(t, u)
        \/ Fetch(t) \/ FinishMerge(t)
        \/ \E agents \in SUBSET Agent : Drop(t, agents)
        \/ \E c \in Content : Load(t, c)

TablesSpec == TablesInit /\ [][TablesNext]_tableVars
------------------------------------------------------------------------------
\* Type of the tables.
TablesTypeOK ==
    /\ table \in [Table -> Content]
    /\ sent \subseteq Content
    /\ merging \in [Table -> Table \cup {None}]
    /\ \A t \in Table : merging[t] # t
    /\ fetched \in [Table -> Content \cup {None}]
    /\ seen \in [Table -> SUBSET Entry]

\* Whatever the order in which rows, late and repeated payloads and merges come,
\* a table holds for each agent the best row it was offered: tables offered the
\* same rows are equal, and no row gives way to an older one.
HoldsBest ==
    \A t \in Table, a \in Agent :
        LET offered == {e \in seen[t] : e.agent = a}
        IN IF offered = {} THEN table[t][a] = None
           ELSE table[t][a] \in offered /\ \A e \in offered : e = table[t][a] \/ Beats(table[t][a], e)

\* No merges wait for each other's tables: merge_remote_table is said to avoid
\* holding both locks, and the methods of a table to be thread-safe.
InCircle(t) == \E S \in SUBSET Table : t \in S /\ \A s \in S : merging[s] \in S
MergesDoNotDeadlock == \A t \in Table : ~InCircle(t)
==============================================================================
