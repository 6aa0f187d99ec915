----------------------------- MODULE BernsteinRuns -----------------------------
(***************************************************************************)
(* Runs of BernsteinOrchestrator.orchestrate(): a worktree for each task,  *)
(* the tasks, the verification, the merge and the removal of the trees,    *)
(* every decision logged to the audit chain.  Each call is a run in a      *)
(* thread of its own.  All runs share self._spawner, which each of them    *)
(* replaces, and each task is spawned and removed through whatever spawner *)
(* is there at that moment.                                                *)
(*                                                                         *)
(* A worktree and its branch are known by the run that made them and the   *)
(* task: their names have a time stamp.  What becomes of the attempts of a *)
(* task, of the gates and of git is an outcome.  Trees are removed after a *)
(* merge and after a rejection, as the default configuration says.         *)
(***************************************************************************)
EXTENDS AuditChain, FiniteSets

CONSTANTS
    Run,
    Tasks,            \* the task ids of each run, in order
    MaxConcurrent,    \* gateway_max_concurrent
    None              \* no run, no tree

TaskId == UNION {{Tasks[r][k] : k \in DOMAIN Tasks[r]} : r \in Run}
Tree == [by : Run, task : TaskId]

\* A run has tasks, and no two of one id.
ASSUME RunsAssumption ==
    /\ MaxConcurrent \in Nat /\ None \notin Run \cup Tree
    /\ \A r \in Run :
          /\ Tasks[r] \in Seq(TaskId) \ {<<>>}
          /\ \A j, k \in DOMAIN Tasks[r] : Tasks[r][j] = Tasks[r][k] => j = k

VARIABLES
    spawner,     \* the run that made self._spawner
    tracked,     \* _worktrees of the spawner each run has made
    trees,       \* worktrees on the disk
    active,      \* _active_count
    run,         \* of each run: where it is, the tasks left there, those with a tree of their own, those that pass
    overlapped,  \* history: the runs that ran beside each run
    marred       \* history: runs in which log_decision raised

runVars == <<spawner, tracked, trees, active, run, overlapped, marred>>
bernsteinVars == <<auditVars, runVars>>

Place == {"before", "spawning", "spawned", "unspawned", "executing", "scheduled",
          "verifying", "merging", "removing", "over"}

Running == {r \in Run : run[r].at \notin {"before", "over"}}
Count(r) == Len(Tasks[r])

RunsInit ==
    /\ AuditInit
    /\ spawner = None
    /\ tracked = [r \in Run |-> [t \in TaskId |-> None]]
    /\ trees = {}
    /\ active = 0
    /\ run = [r \in Run |-> [at |-> "before", todo |-> Tasks[r], spawned |-> {}, passed |-> {}]]
    /\ overlapped = [r \in Run |-> {}]
    /\ marred = {}
------------------------------------------------------------------------------
Current(r) == Head(run[r].todo)
At(r, place) == run[r].at = place
Moves(r, place) == run' = [run EXCEPT ![r].at = place]
\* On to the next task at place, or when there is none to all tasks at next.
Loops(changed, r, place, next) ==
    LET rest == Tail(run[r].todo)
    IN run' = [run EXCEPT ![r] =
                 [changed EXCEPT !.at = IF rest = <<>> THEN next ELSE place,
                                 !.todo = IF rest = <<>> THEN Tasks[r] ELSE rest]]

\* log_decision() raises, and with it the run: what it spawned stays, its share
\* of the count is given back.
LogFails(r) ==
    /\ LogRaises
    /\ Moves(r, "over")
    /\ active' = active - Count(r)
    /\ marred' = marred \cup {r}

\* orchestrate() up to its first spawn: neither the breaker nor the count of
\* active tasks refuses it.
Start(r) ==
    /\ At(r, "before")
    /\ active < MaxConcurrent
    /\ active' = active + Count(r)
    /\ spawner' = r
    /\ Moves(r, "spawning")
    /\ overlapped' = [s \in Run |-> IF s = r THEN Running
                                    ELSE IF s \in Running THEN overlapped[s] \cup {r} ELSE overlapped[s]]
    /\ UNCHANGED <<auditVars, tracked, trees, marred>>

\* The breaker may refuse at any time.
Refuse(r) ==
    /\ At(r, "before")
    /\ Moves(r, "over")
    /\ (LogDecision /\ UNCHANGED marred) \/ (LogRaises /\ marred' = marred \cup {r})
    /\ UNCHANGED <<spawner, tracked, trees, active, overlapped>>

MakeTree(r) ==
    LET t == Current(r)
        tree == [by |-> r, task |-> t]
    IN
    /\ At(r, "spawning")
    /\ tracked[spawner][t] = None
    /\ tracked' = [tracked EXCEPT ![spawner][t] = tree]
    /\ trees' = trees \cup {tree}
    /\ Moves(r, "spawned")
    /\ UNCHANGED <<auditVars, spawner, active, overlapped, marred>>

\* git raises, or the spawner has a tree for a task of that name.
SpawnFails(r) ==
    /\ At(r, "spawning")
    /\ Moves(r, "unspawned")
    /\ UNCHANGED <<auditVars, spawner, tracked, trees, active, overlapped, marred>>

\* When the entry cannot be written, the task counts as not spawned.
LogSpawn(r) ==
    /\ At(r, "spawned")
    /\ \/ /\ LogDecision
          /\ Loops([run[r] EXCEPT !.spawned = @ \cup {Current(r)}], r, "spawning", "executing")
          /\ UNCHANGED marred
       \/ /\ LogRaises
          /\ Moves(r, "unspawned")
          /\ marred' = marred \cup {r}
    /\ UNCHANGED <<spawner, tracked, trees, active, overlapped>>

LogSpawnFailure(r) ==
    /\ At(r, "unspawned")
    /\ \/ LogDecision /\ Loops(run[r], r, "spawning", "executing") /\ UNCHANGED <<active, marred>>
       \/ LogFails(r)
    /\ UNCHANGED <<spawner, tracked, trees, overlapped>>

\* schedule(): all tasks at once, those without a tree as well; some succeed,
\* at the first attempt, a later one or by the alternate strategy.
Execute(r) ==
    /\ At(r, "executing")
    /\ \E S \in SUBSET {Tasks[r][k] : k \in DOMAIN Tasks[r]} :
          run' = [run EXCEPT ![r].at = "scheduled", ![r].passed = S]
    /\ UNCHANGED <<auditVars, spawner, tracked, trees, active, overlapped, marred>>

LogSchedule(r) ==
    /\ At(r, "scheduled")
    /\ \/ LogDecision /\ Loops(run[r], r, "scheduled", "verifying") /\ UNCHANGED <<active, marred>>
       \/ LogFails(r)
    /\ UNCHANGED <<spawner, tracked, trees, overlapped>>

\* A gate may stop a task that succeeded.
Verify(r) ==
    /\ At(r, "verifying")
    /\ \/ /\ LogDecision
          /\ \E gone \in SUBSET {Current(r)} :
                Loops([run[r] EXCEPT !.passed = @ \ gone], r, "verifying", "merging")
          /\ UNCHANGED <<active, marred>>
       \/ LogFails(r)
    /\ UNCHANGED <<spawner, tracked, trees, overlapped>>

\* merge or reject.
Decide(r) ==
    /\ At(r, "merging")
    /\ \/ LogDecision /\ Moves(r, "removing") /\ UNCHANGED <<active, marred>>
       \/ LogFails(r)
    /\ UNCHANGED <<spawner, tracked, trees, overlapped>>

Returns(r) ==
    /\ Loops(run[r], r, "merging", "over")
    /\ active' = IF Tail(run[r].todo) = <<>> THEN active - Count(r) ELSE active

\* Mutant: only what was merged is removed.
RemoveMerged(r) ==
    LET t == Current(r)
        tree == tracked[spawner][t]
    IN
    /\ At(r, "removing")
    /\ IF t \in run[r].spawned \cap run[r].passed
       THEN trees' = trees \ {tree} /\ tracked' = [tracked EXCEPT ![spawner][t] = None]
       ELSE UNCHANGED <<trees, tracked>>
    /\ Returns(r)
    /\ UNCHANGED <<auditVars, spawner, overlapped, marred>>
\* cleanup() of the tree the spawner has for the task, whosever it is; if it has
\* none, nothing is done.
Remove(r) ==
    LET t == Current(r)
        tree == tracked[spawner][t]
    IN
    /\ At(r, "removing")
    /\ IF t \in run[r].spawned
       THEN trees' = trees \ {tree} /\ tracked' = [tracked EXCEPT ![spawner][t] = None]
       ELSE UNCHANGED <<trees, tracked>>
    /\ Returns(r)
    /\ UNCHANGED <<auditVars, spawner, overlapped, marred>>

RunStep(r) ==
    \/ Start(r) \/ Refuse(r)
    \/ MakeTree(r) \/ SpawnFails(r) \/ LogSpawn(r) \/ LogSpawnFailure(r)
    \/ Execute(r) \/ LogSchedule(r) \/ Verify(r) \/ Decide(r) \/ Remove(r)

\* The process ends: its runs and its count go with it.
Restart ==
    /\ Reload
    /\ spawner' = None
    /\ tracked' = [r \in Run |-> [t \in TaskId |-> None]]
    /\ active' = 0
    /\ run' = [r \in Run |-> IF r \in Running THEN [run[r] EXCEPT !.at = "over"] ELSE run[r]]
    /\ marred' = marred \cup Running
    /\ UNCHANGED <<trees, overlapped>>

RunsNext == Restart \/ \E r \in Run : RunStep(r)
RunsSpec == RunsInit /\ [][RunsNext]_bernsteinVars
------------------------------------------------------------------------------
\* Type of the runs.
RunsTypeOK ==
    /\ AuditTypeOK
    /\ spawner \in Run \cup {None}
    /\ tracked \in [Run -> [TaskId -> Tree \cup {None}]]
    /\ trees \subseteq Tree
    /\ run \in [Run -> [at : Place, todo : Seq(TaskId), spawned : SUBSET TaskId, passed : SUBSET TaskId]]
    /\ overlapped \in [Run -> SUBSET Run] /\ marred \subseteq Run

\* A run keeps the trees it works in until it removes them, although other runs
\* clean up through the same spawner: only one with a task of the same name
\* takes them away.
Rivals(r, t) == {s \in overlapped[r] : \E k \in DOMAIN Tasks[s] : Tasks[s][k] = t}
Removed(r) ==
    IF run[r].at \in {"merging", "removing"} THEN TaskId \ {run[r].todo[k] : k \in DOMAIN run[r].todo} ELSE {}
TreesKept ==
    \A r \in Running : \A t \in run[r].spawned \ Removed(r) :
        [by |-> r, task |-> t] \in trees \/ Rivals(r, t) # {}

\* A run leaves no tree behind, whatever fails to spawn, to run or to pass,
\* unless another run replaced its spawner or its log could not be written.
NoTreeLeft ==
    \A tree \in trees :
        At(tree.by, "over") => overlapped[tree.by] # {} \/ tree.by \in marred

\* However a run ends, its share of _active_count is given back.
CountReturned == Running = {} => active = 0

RunsIsolated == TreesKept /\ NoTreeLeft /\ CountReturned
==============================================================================
