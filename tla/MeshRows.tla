-------------------------------- MODULE MeshRows -------------------------------
(***************************************************************************)
(* The rows of vector tables (swarm/mesh_vector_tables.py) and what is     *)
(* kept of two rows of one agent.  Of a row the model keeps its agent,     *)
(* timestamp and the rank of the hash of its signature, which covers the   *)
(* rest of the row.                                                        *)
(***************************************************************************)
EXTENDS Naturals

CONSTANTS
    Agent,
    Entry,        \* the rows that may be written
    None          \* no row

ASSUME RowsAssumption ==
    /\ Entry \subseteq [agent : Agent, time : Nat, hash : Nat]
    /\ None \notin Entry

Content == {c \in [Agent -> Entry \cup {None}] : \A a \in Agent : c[a] # None => c[a].agent = a}
Empty == [a \in Agent |-> None]
Row(e) == [a \in Agent |-> IF a = e.agent THEN e ELSE None]
Rows(c) == {c[a] : a \in Agent} \ {None}

\* Mutant: equal timestamps leave the local row.
BeatsByTime(r, l) == r.time > l.time
\* _crdt_winner takes the remote row.
Beats(r, l) == r.time > l.time \/ (r.time = l.time /\ r.hash < l.hash)

Winner(l, r) == IF r # None /\ (l = None \/ Beats(r, l)) THEN r ELSE l
Join(c, d) == [a \in Agent |-> Winner(c[a], d[a])]
==============================================================================
