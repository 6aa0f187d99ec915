------------------------------ MODULE MemoryLog ------------------------------
(***************************************************************************)
(* FleetWAL (swarm/wal.py): the log of the fleet's memory layers, with its *)
(* segments, its checkpoints and what a crash leaves of a write.  One      *)
(* caller appends an entry and then applies it to the layers; a restart    *)
(* opens the log, loads the latest checkpoint and replays what follows it. *)
(*                                                                         *)
(* Sequence numbers are the log's; id numbers the entries ever appended,   *)
(* because a restart may hand out a sequence number again.  A file is read *)
(* up to its first torn record; sizes are counted in records.              *)
(***************************************************************************)
EXTENDS Naturals, Sequences

CONSTANTS
    SegmentSize, CheckpointInterval,
    Nothing, TornBytes,
    MaxEntries,   \* bound: appends
    MaxCrashes    \* bound: crashes

ASSUME MemoryLogAssumption ==
    /\ SegmentSize \in Nat \ {0} /\ CheckpointInterval \in Nat \ {0}
    /\ MaxEntries \in Nat /\ MaxCrashes \in Nat
    /\ TornBytes # Nothing /\ Nothing \notin Nat
    /\ \A ids \in SUBSET (1 .. MaxEntries) : ids # Nothing
    /\ TornBytes \notin [seq : Nat, id : Nat]

VARIABLES
    phase,        \* "up", "down" or "refused" (opening the log raised)
    segments,     \* the files: their header and records
    checkpoints,  \* what the checkpoint file of a sequence number holds
    sequence,     \* _sequence
    since,        \* _entries_since_checkpoint
    applied,      \* ids in the state of the layers
    unapplied,    \* the entry append() returned and the caller has yet to apply
    written,      \* history: entries appended so far
    acknowledged, \* history: ids append() returned
    crashes

memoryVars == <<phase, segments, checkpoints, sequence, since, applied, unapplied, written, acknowledged, crashes>>

Id == 1 .. MaxEntries

\* _read_segment(): <<i, k>> is a record that replay() reaches.
Place == (DOMAIN segments) \X Id
IsRecord(i, k) == i \in DOMAIN segments /\ k \in DOMAIN segments[i].records
Readable(i, k) ==
    /\ IsRecord(i, k)
    /\ segments[i].head = "whole"
    /\ \A j \in 1 .. k : segments[i].records[j] # TornBytes
RecordAt(i, k) == segments[i].records[k]
Before(i, k, j, l) == i < j \/ (i = j /\ k < l)

\* _load_latest_sequence()
LatestSequence(n) ==
    /\ \A i \in DOMAIN segments, k \in Id : Readable(i, k) => RecordAt(i, k).seq <= n
    /\ n = 0 \/ \E i \in DOMAIN segments, k \in Id : Readable(i, k) /\ RecordAt(i, k).seq = n

\* The file the next entry goes to is a new one when the last one is full.
Rotates == \A i \in DOMAIN segments : i = Len(segments) => Len(segments[i].records) >= SegmentSize
\* Mutant: the new file has the number of the last one.
WithOverwritten(record) ==
    IF segments = <<>> THEN << [head |-> "whole", records |-> <<record>>] >>
    ELSE IF Rotates THEN [segments EXCEPT ![Len(segments)].records = <<record>>]
    ELSE [segments EXCEPT ![Len(segments)].records = Append(@, record)]
With(record) ==
    IF Rotates THEN Append(segments, [head |-> "whole", records |-> <<record>>])
    ELSE [segments EXCEPT ![Len(segments)].records = Append(@, record)]

MemoryInit ==
    /\ phase = "up"
    /\ segments = <<>>
    /\ checkpoints = [s \in 0 .. MaxEntries |-> Nothing]
    /\ sequence = 0 /\ since = 0
    /\ applied = {} /\ unapplied = Nothing
    /\ written = 0 /\ acknowledged = {}
    /\ crashes = 0
------------------------------------------------------------------------------
NextEntry == [seq |-> sequence + 1, id |-> written + 1]
CheckpointDue == since + 1 >= CheckpointInterval
MayAppend == phase = "up" /\ unapplied = Nothing /\ written < MaxEntries

\* append(): the entry is on disk, a checkpoint may be due, and only then does
\* the caller get the entry.
AppendEntry ==
    /\ MayAppend
    /\ segments' = With(NextEntry)
    /\ sequence' = sequence + 1 /\ written' = written + 1
    /\ checkpoints' = IF CheckpointDue THEN [checkpoints EXCEPT ![sequence + 1] = applied] ELSE checkpoints
    /\ since' = IF CheckpointDue THEN 0 ELSE since + 1
    /\ unapplied' = written + 1 /\ acknowledged' = acknowledged \cup {written + 1}
    /\ UNCHANGED <<phase, applied, crashes>>

\* The caller applies the entry to its layer (external).
Apply ==
    /\ phase = "up" /\ unapplied # Nothing
    /\ applied' = applied \cup {unapplied}
    /\ unapplied' = Nothing
    /\ UNCHANGED <<phase, segments, checkpoints, sequence, since, written, acknowledged, crashes>>

\* checkpoint(), called between two operations.
CheckpointNow ==
    /\ phase = "up" /\ unapplied = Nothing
    /\ checkpoints' = [checkpoints EXCEPT ![sequence] = applied]
    /\ since' = 0
    /\ UNCHANGED <<phase, segments, sequence, applied, unapplied, written, acknowledged, crashes>>
------------------------------------------------------------------------------
GoDown ==
    /\ crashes < MaxCrashes /\ crashes' = crashes + 1
    /\ phase' = "down"
    /\ applied' = {} /\ unapplied' = Nothing /\ sequence' = 0 /\ since' = 0
    /\ UNCHANGED acknowledged
ProcessEnds ==
    /\ phase = "up" /\ GoDown
    /\ UNCHANGED <<segments, checkpoints, written>>

\* A crash in append(): of the header of a new file, of the record or of the
\* checkpoint only a part is on disk, or all of the record.
CrashInHeader ==
    /\ MayAppend /\ GoDown /\ Rotates
    /\ \E head \in {"headless", "unversioned"} :
          segments' = Append(segments, [head |-> head, records |-> <<>>])
    /\ UNCHANGED <<checkpoints, written>>
CrashInRecord ==
    /\ MayAppend /\ GoDown
    /\ \/ segments' = With(TornBytes) /\ UNCHANGED written
       \/ segments' = With(NextEntry) /\ written' = written + 1
    /\ UNCHANGED checkpoints
CrashInCheckpoint ==
    /\ GoDown
    /\ \/ /\ phase = "up" /\ unapplied = Nothing
          /\ checkpoints' = [checkpoints EXCEPT ![sequence] = TornBytes]
          /\ UNCHANGED <<segments, written>>
       \/ /\ MayAppend /\ CheckpointDue
          /\ segments' = With(NextEntry) /\ written' = written + 1
          /\ checkpoints' = [checkpoints EXCEPT ![sequence + 1] = TornBytes]

\* load_checkpoint(): the file with the highest sequence number, 0 if there is none.
LatestCheckpoint(s) ==
    /\ s = 0 \/ checkpoints[s] # Nothing
    /\ \A r \in (s + 1) .. MaxEntries : checkpoints[r] = Nothing
Snapshot(s) == IF checkpoints[s] = Nothing THEN {} ELSE checkpoints[s]

\* replay(s), onto the state of the checkpoint.
\* Mutant: replay starts one entry late.
RestoredLate(s) ==
    Snapshot(s) \cup {RecordAt(p[1], p[2]).id : p \in {q \in Place : Readable(q[1], q[2]) /\ RecordAt(q[1], q[2]).seq > s + 1}}
Restored(s) ==
    Snapshot(s) \cup {RecordAt(p[1], p[2]).id : p \in {q \in Place : Readable(q[1], q[2]) /\ RecordAt(q[1], q[2]).seq > s}}

Unversioned == \E i \in DOMAIN segments : segments[i].head = "unversioned"
\* Bytes of a later record, read as the rest of a torn one, may not be UTF-8.
TornInside ==
    \E i \in DOMAIN segments : segments[i].head = "whole"
        /\ \E k \in 1 .. Len(segments[i].records) - 1 : segments[i].records[k] = TornBytes

ReopenLog ==
    /\ phase = "down" /\ ~Unversioned
    /\ \E s \in 0 .. MaxEntries :
          /\ LatestCheckpoint(s) /\ checkpoints[s] # TornBytes
          /\ applied' = Restored(s)
    /\ \E n \in 0 .. MaxEntries : LatestSequence(n) /\ sequence' = n
    /\ since' = 0
    /\ phase' = "up"
    /\ UNCHANGED <<segments, checkpoints, unapplied, written, acknowledged, crashes>>
ReopenRaises ==
    /\ phase = "down"
    /\ Unversioned \/ TornInside \/ (\E s \in 0 .. MaxEntries : LatestCheckpoint(s) /\ checkpoints[s] = TornBytes)
    /\ phase' = "refused"
    /\ UNCHANGED <<segments, checkpoints, sequence, since, applied, unapplied, written, acknowledged, crashes>>

MemoryNext ==
    \/ AppendEntry \/ Apply \/ CheckpointNow
    \/ ProcessEnds \/ CrashInHeader \/ CrashInRecord \/ CrashInCheckpoint
    \/ ReopenLog \/ ReopenRaises
MemorySpec == MemoryInit /\ [][MemoryNext]_memoryVars
------------------------------------------------------------------------------
\* "never overwrites": no append, crash or restart changes or hides an entry that
\* replay() reaches, and a new one comes behind all of them and has a greater
\* number, though crashes left records torn and their numbers are handed out
\* again: the number of a checkpoint cuts the log into two parts.
AppendOnly ==
    [][\A i \in DOMAIN segments, k \in Id : Readable(i, k) =>
          /\ Readable(i, k)' /\ RecordAt(i, k)' = RecordAt(i, k)
          /\ \A j \in DOMAIN segments', l \in Id : Readable(j, l)' /\ ~Readable(j, l) =>
                Before(i, k, j, l) /\ RecordAt(i, k).seq < RecordAt(j, l)'.seq
      ]_memoryVars

\* As long as no crash tore a file, a restart would bring back every entry that
\* append() returned, save those of the sequence number of a checkpoint: that
\* checkpoint was taken before the caller could apply the entry.
Intact ==
    /\ \A i \in DOMAIN segments : segments[i].head = "whole" /\ \A k \in DOMAIN segments[i].records : RecordAt(i, k) # TornBytes
    /\ \A s \in 0 .. MaxEntries : checkpoints[s] # TornBytes
OnlyCheckpointEntriesLost ==
    Intact =>
        \A s \in 0 .. MaxEntries : LatestCheckpoint(s) =>
            \A id \in acknowledged \ Restored(s) :
                \E i \in DOMAIN segments, k \in Id :
                    IsRecord(i, k) /\ RecordAt(i, k).id = id /\ checkpoints[RecordAt(i, k).seq] # Nothing
==============================================================================
