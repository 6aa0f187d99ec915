------------------------------ MODULE AuditChain ------------------------------
(***************************************************************************)
(* The audit log of fleet/bernstein_orchestrator.py (HMACAuditChain):      *)
(* records that carry the hash of the one before, kept in memory and       *)
(* appended to a file.  One lock is held by every method, hence one action *)
(* each; the file outlives the process, which may be started again.        *)
(*                                                                         *)
(* Records are numbered as they are signed; the number stands for the hash *)
(* of the record, 0 for the empty hash.  The key comes from the            *)
(* environment, so every record of the file verifies against it.  The list *)
(* in memory is what was loaded and what was signed since; only the hash   *)
(* of its last record decides anything.                                    *)
(***************************************************************************)
EXTENDS Naturals, Sequences

CONSTANTS
    MaxRaised,    \* bound: writes that raise
    MaxSessions,  \* bound: starts of the process
    Corrupt       \* a line that does not parse

ASSUME AuditAssumption ==
    MaxRaised \in Nat /\ MaxSessions \in Nat \ {0} /\ Corrupt \notin [nr : Nat, prev : Nat]

VARIABLES
    lastHash,   \* _last_hash
    lines,      \* of the log file
    ended,      \* the last line has its line feed
    signedIn,   \* history: the session in which each record was signed
    session,    \* of the process
    raised      \* history: writes that raised

auditVars == <<lastHash, lines, ended, signedIn, session, raised>>

AuditRecord == [nr : Nat \ {0}, prev : Nat]

AuditInit ==
    /\ lastHash = 0
    /\ lines = <<>> /\ ended = TRUE
    /\ signedIn = <<>> /\ session = 1 /\ raised = 0
------------------------------------------------------------------------------
Signed == [nr |-> Len(signedIn) + 1, prev |-> lastHash]

\* A line written behind one without line feed continues it.
Written(line) ==
    IF ended THEN Append(lines, line) ELSE [lines EXCEPT ![Len(lines)] = Corrupt]

\* The record is in the chain of this process before it is written.
Chained ==
    /\ lastHash' = Signed.nr
    /\ signedIn' = Append(signedIn, session)
    /\ UNCHANGED session

\* log_decision() that returns.
LogDecision ==
    /\ Chained
    /\ lines' = Written(Signed)
    /\ ended' = TRUE
    /\ UNCHANGED raised

\* _persist raises: nothing of the line is in the file, a part of it, all of it
\* but the line feed, or all of it (fsync raised).
PersistRaises ==
    /\ raised < MaxRaised /\ raised' = raised + 1
    /\ \/ UNCHANGED <<lines, ended>>
       \/ lines' = Written(Corrupt) /\ ended' = FALSE
       \/ lines' = Written(Signed) /\ ended' \in BOOLEAN

\* Mutant: the hash of a record that was not written is not kept.
LogRaisesUnchained ==
    /\ PersistRaises
    /\ signedIn' = Append(signedIn, session)
    /\ UNCHANGED <<lastHash, session>>
\* log_decision() that raises.
LogRaises == PersistRaises /\ Chained

\* The lines that parse, those of them before one, and the hash of the last.
Parsed == {k \in DOMAIN lines : lines[k] # Corrupt}
Before(k) == {j \in Parsed : j < k}
HashOfLast(K) == IF K = {} THEN 0 ELSE lines[CHOOSE k \in K : \A j \in K : j <= k].nr

\* The process ends, and another one loads the log: lines that do not parse are
\* skipped.
Reload ==
    /\ session < MaxSessions /\ session' = session + 1
    /\ lastHash' = HashOfLast(Parsed)
    /\ UNCHANGED <<lines, ended, signedIn, raised>>

\* verify_chain() of a process that has just loaded the log.
Valid == \A k \in Parsed : lines[k].prev = HashOfLast(Before(k))

AuditNext == LogDecision \/ LogRaises \/ Reload
AuditSpec == AuditInit /\ [][AuditNext]_auditVars
------------------------------------------------------------------------------
\* Type of the log.
AuditTypeOK ==
    /\ lastHash \in Nat
    /\ lines \in Seq(AuditRecord \cup {Corrupt}) /\ ended \in BOOLEAN
    /\ lines = <<>> => ended
    /\ signedIn \in Seq(1 .. MaxSessions) /\ session \in 1 .. MaxSessions
    /\ raised \in 0 .. MaxRaised

\* What a process that loads the log would find.
Present == {lines[k].nr : k \in Parsed}

\* A chain that verifies has no gap inside a session: when a record is there,
\* so is every record signed before it in the same session, whatever write
\* raised, tore a line, or lost two lines to a missing line feed.
GapsNoticed ==
    Valid =>
        \A n \in Present, k \in DOMAIN signedIn :
            k < n /\ signedIn[k] = signedIn[n] => k \in Present

\* The log raises no false alarm: as long as no write has raised, it verifies
\* after any restart, and is complete.
NoFalseAlarm == raised = 0 => Valid /\ Present = DOMAIN signedIn

\* The log says neither less nor more than it knows.
ChainHonest == GapsNoticed /\ NoFalseAlarm
==============================================================================
