------------------------------ MODULE MCBernstein ------------------------------
(***************************************************************************)
(* The Bernstein layer.  A behaviour follows the audit log, written and    *)
(* loaded by one process after the other; or two runs of orchestrate(),    *)
(* whose log is written or not but never torn; or two threads that tick    *)
(* one schedule; or one of them and schedules that are replaced and        *)
(* removed: focus, chosen at the start.                                    *)
(***************************************************************************)
EXTENDS BernsteinRuns, ScheduleTicks

CONSTANTS
    first, second,   \* runs
    a, b,            \* tasks
    beat1, beat2,    \* threads that call tick()
    MaxSigned        \* bound: records of the log in focus "log"

MCTasks == [r \in {first, second} |-> IF r = first THEN <<a, b>> ELSE <<b>>]
MCCron == {{3, 4}, {4}}

VARIABLE focus
mcVars == <<bernsteinVars, scheduleVars, focus>>
Kept == UNCHANGED focus

Writing == focus = "log" /\ AuditNext /\ Len(signedIn') <= MaxSigned /\ UNCHANGED <<runVars, scheduleVars>>
Orchestrating ==
    /\ focus = "runs" /\ RunsNext /\ UNCHANGED scheduleVars
    /\ raised' + session' <= 2
    /\ raised' + session' # raised + session => lines' = lines /\ Cardinality(Running) <= 1
Scheduling ==
    /\ focus \in {"ticks", "registrations"} /\ SchedulesNext /\ UNCHANGED bernsteinVars
    /\ focus = "ticks" => Len(made') <= 1
    /\ focus = "registrations" => tick'[beat2] = NoTick

MCInit == RunsInit /\ SchedulesInit /\ focus \in {"log", "runs", "ticks", "registrations"}
MCNext == (Writing \/ Orchestrating \/ Scheduling) /\ Kept

MCSpec ==
    /\ MCInit /\ [][MCNext]_mcVars
    /\ \A t \in Ticker : WF_mcVars(Begin(t) /\ Scheduling /\ Kept) /\ WF_mcVars(TickStep(t) /\ Scheduling /\ Kept)
==============================================================================
