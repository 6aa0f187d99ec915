------------------------------- MODULE MeshWAL -------------------------------
(***************************************************************************)
(* The write-ahead log of swarm/mesh_wal.py: numbered files of records,    *)
(* rotation, a checkpoint file, crashes, reopening and what recover()      *)
(* reads.  One lock is held by every method, hence one action each.        *)
(*                                                                         *)
(* A file is a sequence of cells: whole records, and the torn bytes of a   *)
(* record that was not written to its end.  Sizes are left out, so any     *)
(* append may be the one that rotates.                                     *)
(***************************************************************************)
EXTENDS Integers, Sequences, FiniteSets

CONSTANTS
    Op,           \* the operations that are logged
    MaxFiles,     \* bound: files created
    MaxRecords,   \* bound: records appended
    MaxTorn,      \* bound: records torn
    Gap,          \* bound: how many cells a torn record may swallow
    Garbled       \* a checkpoint.json that is missing or does not parse

ASSUME LogAssumption ==
    /\ MaxFiles \in Nat \ {0} /\ MaxRecords \in Nat /\ MaxTorn \in Nat /\ Gap \subseteq Nat
    /\ Garbled \notin [file : Nat, offset : Nat]

VARIABLES
    onDisk,       \* numbers of the files in wal_dir
    files,        \* cells of each file
    buffer,       \* records in the buffer of the handle after a failed flush
    checkpoint,   \* content of checkpoint.json
    open,         \* there is a _current_handle
    history       \* every record written whole or kept in the buffer: its operation, and whether recovery owes it

logVars == <<onDisk, files, buffer, checkpoint, open, history>>

File == 1 .. MaxFiles
\* The bytes missing from a torn record are taken from what is written behind
\* it: they may be those of the next gap cells, and then the reader is in step
\* again; with a gap beyond MaxRecords it never is.
Whole == [nr : 1 .. MaxRecords]
Torn == [gap : Gap]
IsTorn(c) == "gap" \in DOMAIN c

\* _current_wal is the last one of wal_files.
Current == CHOOSE f \in onDisk : \A g \in onDisk : g <= f

WalInit ==
    /\ onDisk = {1}
    /\ files = [f \in File |-> <<>>]
    /\ buffer = <<>>
    /\ checkpoint = Garbled
    /\ open = TRUE
    /\ history = <<>>
------------------------------------------------------------------------------
\* What recover() reads.

\* Where it starts in file f; a checkpoint that cannot be read, or whose file is
\* gone, counts as none.
HasCheckpoint == checkpoint # Garbled /\ checkpoint.file \in onDisk
\* Mutant: the offset of the checkpoint applied to every file.
StartEverywhere(f) == IF HasCheckpoint THEN checkpoint.offset + 1 ELSE 1
Start(f) == IF HasCheckpoint /\ checkpoint.file = f THEN checkpoint.offset + 1 ELSE 1
ToReplay == IF HasCheckpoint THEN {f \in onDisk : f >= checkpoint.file} ELSE onDisk

\* The torn records the reader meets, those it is out of step for excepted.
TornFrom(s, from) == {j \in from .. Len(s) : IsTorn(s[j])}
Met(s, from) ==
    CHOOSE E \in SUBSET TornFrom(s, from) :
        \A j \in TornFrom(s, from) : j \in E <=> ~ \E i \in E : i < j /\ j <= i + s[i].gap
\* Positions of file f whose records recover() replays: a record with a short
\* end stops the reading of the file, one that swallowed others fails its CRC.
Replayed(f) ==
    {p \in Start(f) .. Len(files[f]) :
        ~IsTorn(files[f][p])
        /\ ~ \E i \in TornFrom(files[f], Start(f)) \cap Met(files[f], Start(f)) : i < p /\ p <= i + files[f][i].gap}

\* The numbers of all records replayed, in the order of the files.
ReplayedNumbers == UNION {{files[f][p].nr : p \in Replayed(f)} : f \in ToReplay}
------------------------------------------------------------------------------
Number == Len(history) + 1
Recorded(op, owed) == history' = Append(history, [op |-> op, owed |-> owed])

\* The files after flush(), and after a rotation when there is one.
Flushed == [files EXCEPT ![Current] = @ \o buffer]
Target(rotate) == IF rotate THEN Current + 1 ELSE Current

\* append() that returns TRUE.
AppendRecord(op, rotate) ==
    /\ open /\ Number <= MaxRecords /\ Target(rotate) \in File
    /\ onDisk' = onDisk \cup {Target(rotate)}
    /\ files' = [Flushed EXCEPT ![Target(rotate)] =
                   IF rotate THEN <<[nr |-> Number]>> ELSE Append(@, [nr |-> Number])]
    /\ buffer' = <<>>
    /\ Recorded(op, TRUE)
    /\ UNCHANGED <<checkpoint, open>>

\* A part of a record at the end of file content s.
TornEnd(s) ==
    /\ Cardinality(UNION {{<<f, p>> : p \in TornFrom(files[f], 1)} : f \in File}) < MaxTorn
    /\ \E n \in Gap : files' = [s EXCEPT ![Current] = Append(@, [gap |-> n])]

\* append() whose write or flush raises returns FALSE.  If nothing of the record
\* came to the disk nothing has changed; else it was torn, or it stays in the
\* buffer and comes out with the next flush that succeeds.
AppendTorn ==
    /\ open
    /\ TornEnd(Flushed)
    /\ buffer' = <<>>
    /\ UNCHANGED <<onDisk, checkpoint, open, history>>
AppendDelayed(op) ==
    /\ open /\ Number <= MaxRecords
    /\ buffer' = Append(buffer, [nr |-> Number])
    /\ Recorded(op, FALSE)
    /\ UNCHANGED <<onDisk, files, checkpoint, open>>

Newest(n) == {f \in onDisk : Cardinality({g \in onDisk : g > f}) < n}
SettledAll == history' = [k \in DOMAIN history |-> [history[k] EXCEPT !.owed = FALSE]]

\* checkpoint(): the table is not saved, so what was logged before is owed no
\* more.  All but two files are unlinked, unless that raises.
Checkpoint ==
    /\ open
    /\ files' = Flushed
    /\ buffer' = <<>>
    /\ checkpoint' = [file |-> Current, offset |-> Len(Flushed[Current])]
    /\ \E kept \in SUBSET (onDisk \ Newest(2)) : onDisk' = Newest(2) \cup kept
    /\ SettledAll
    /\ UNCHANGED open

\* write_text() is not atomic: it fails, or the process ends, in the middle.
CheckpointFails ==
    /\ open
    /\ files' = Flushed
    /\ buffer' = <<>>
    /\ checkpoint' = Garbled
    /\ UNCHANGED <<onDisk, open, history>>

Close ==
    /\ open
    /\ open' = FALSE
    /\ files' = Flushed
    /\ buffer' = <<>>
    /\ UNCHANGED <<onDisk, checkpoint, history>>

\* The process ends; what the buffer holds is lost, perhaps with a torn end.
CrashLog ==
    /\ open
    /\ open' = FALSE
    /\ buffer' = <<>>
    /\ UNCHANGED files \/ (buffer # <<>> /\ TornEnd(files))
    /\ UNCHANGED <<onDisk, checkpoint, history>>

\* __init__: the last file is opened for appending behind whatever it ends with.
Reopen ==
    /\ ~open
    /\ open' = TRUE
    /\ UNCHANGED <<onDisk, files, buffer, checkpoint, history>>

WalNext ==
    \/ \E op \in Op : AppendDelayed(op) \/ \E rotate \in BOOLEAN : AppendRecord(op, rotate)
    \/ AppendTorn \/ Checkpoint \/ CheckpointFails \/ Close \/ CrashLog \/ Reopen

WalSpec == WalInit /\ [][WalNext]_logVars
------------------------------------------------------------------------------
\* Type of the log.
WalTypeOK ==
    /\ onDisk \subseteq File /\ onDisk # {}
    /\ files \in [File -> Seq(Whole \cup Torn)]
    /\ buffer \in Seq(Whole)
    /\ checkpoint \in [file : File, offset : Nat] \cup {Garbled}
    /\ open \in BOOLEAN
    /\ history \in Seq([op : Op, owed : BOOLEAN])
    /\ Len(history) <= MaxRecords

\* What was appended with TRUE since the last checkpoint is in the files that
\* recovery reads, and is replayed unless a torn record comes before it in the
\* same file: rotation, checkpoints that fail, unlinked files and reopening lose
\* nothing, and a torn record costs no other file.
BehindTorn(f, p) == \E j \in Start(f) .. p - 1 : IsTorn(files[f][j])
DueRecovered ==
    \A k \in DOMAIN history : history[k].owed =>
        \E f \in ToReplay : \E p \in Start(f) .. Len(files[f]) :
            files[f][p] = [nr |-> k] /\ (p \in Replayed(f) \/ BehindTorn(f, p))
==============================================================================
