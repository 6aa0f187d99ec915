------------------------------- MODULE FleetMesh ------------------------------
(***************************************************************************)
(* Replicated vector tables, one of which keeps a write-ahead log: every   *)
(* write to it is appended to the log, and applied when append() returned  *)
(* TRUE.  The process of the tables crashes, restarts and recovers that    *)
(* table from its log; the others start empty, and payloads produced       *)
(* before the crash still arrive.                                          *)
(***************************************************************************)
EXTENDS MeshVectorTables, MeshWAL

CONSTANT Logged     \* the table with the log

ASSUME MeshAssumption ==
    /\ Logged \in Table
    /\ Op \subseteq [add : Content, drop : SUBSET Agent]
    /\ \A op \in Op : op.drop = {} \/ op.add = Empty

VARIABLE
    durable     \* history: the effect of the writes logged since the last checkpoint

meshVars == <<tableVars, logVars, durable>>

\* A logged operation: an insert or a merge adds rows, a delete drops an agent.
Effect(op, c) == [a \in Agent |-> IF a \in op.drop THEN None ELSE Winner(c[a], op.add[a])]

\* recover() into a fresh table: what the records of file f make of c, in their order ...
ReadFile(f, c) ==
    LET read[p \in 0 .. Len(files[f])] ==
            IF p = 0 THEN c
            ELSE IF p \in Replayed(f) THEN Effect(history[files[f][p].nr].op, read[p - 1])
            ELSE read[p - 1]
    IN read[Len(files[f])]
\* Mutant: the files from the newest to the oldest.
RecoveredBackwards ==
    LET read[f \in 1 .. MaxFiles + 1] ==
            IF f > MaxFiles THEN Empty
            ELSE IF f \in ToReplay THEN ReadFile(f, read[f + 1]) ELSE read[f + 1]
    IN read[1]
\* ... and the files in theirs.
Recovered ==
    LET read[f \in 0 .. MaxFiles] ==
            IF f = 0 THEN Empty
            ELSE IF f \in ToReplay THEN ReadFile(f, read[f - 1]) ELSE read[f - 1]
    IN read[MaxFiles]

MeshInit == TablesInit /\ WalInit /\ durable = Empty
------------------------------------------------------------------------------
\* A write to the logged table.
LoggedWrite(op, rotate) ==
    /\ Unlocked(Logged)
    /\ AppendRecord(op, rotate)
    /\ IF op.drop = {} THEN Offer(Logged, op.add) /\ UNCHANGED <<sent, merging, fetched>>
                       ELSE Drop(Logged, op.drop)
    /\ durable' = Effect(op, durable)

\* append() returned FALSE, and the caller does not go on.
WriteRefused ==
    /\ AppendTorn \/ \E op \in Op : AppendDelayed(op)
    /\ UNCHANGED <<tableVars, durable>>

\* The other tables, and what reads the logged one.
TableStep ==
    /\ open
    /\ \E t \in Table :
        \/ t # Logged /\ \E e \in Entry, verify \in BOOLEAN : Insert(t, e, verify)
        \/ t # Logged /\ \E c \in sent : ApplySyncPayload(t, c)
        \/ GetSyncPayload(t)
        \/ \E u \in Table : StartMerge(t, u)
        \/ Fetch(t)
    /\ UNCHANGED <<logVars, durable>>

EndMerge(t) == open /\ FinishMerge(t) /\ UNCHANGED <<logVars, durable>>

TakeCheckpoint == Checkpoint /\ durable' = Empty /\ UNCHANGED tableVars
MissCheckpoint == CheckpointFails /\ UNCHANGED <<tableVars, durable>>

Crash == CrashLog /\ Lose /\ UNCHANGED durable
Stop == Close /\ Lose /\ UNCHANGED durable
Restart == Reopen /\ Load(Logged, Recovered) /\ UNCHANGED durable

MeshNext ==
    \/ \E op \in Op, rotate \in BOOLEAN : LoggedWrite(op, rotate)
    \/ WriteRefused
    \/ TableStep
    \/ \E t \in Table : EndMerge(t)
    \/ TakeCheckpoint \/ MissCheckpoint
    \/ Crash \/ Stop \/ Restart

MeshSafe == MeshInit /\ [][MeshNext]_meshVars
------------------------------------------------------------------------------
\* When nothing that failed is read back, recovery makes exactly the table that
\* the writes since the last checkpoint make, in the order of append(): files,
\* offsets and deletes are replayed in order, and nothing twice with effect.
Owed == {k \in DOMAIN history : history[k].owed}
Restorable == ReplayedNumbers = Owed => Recovered = durable
==============================================================================
