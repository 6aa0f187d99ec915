--------------------------- MODULE MCBreederDaemon ---------------------------
(***************************************************************************)
(* One stepper beside the worker pool.  A behaviour has either one worker, *)
(* which two threads kill, or two workers, and then all requests of one    *)
(* priority and no crash: crowded, chosen at the start.                    *)
(***************************************************************************)
EXTENDS BreederDaemon

CONSTANTS p1, p2, k1, k2

VARIABLE crowded
mcVars == <<vars, crowded>>
Within ==
    /\ \A i \in DOMAIN queue : queue[i].parent # p2 /\ (crowded => queue[i].priority = 0)
    /\ IF crowded THEN crashes = 0 /\ joining[k2] = None
                  ELSE worker[p2] = None /\ spawning # p2
Kept == UNCHANGED crowded /\ Within'

MCInit == Init /\ crowded \in BOOLEAN
MCNext == Next /\ Kept
MCSpec ==
    /\ MCInit /\ [][MCNext]_mcVars
    /\ \A w \in Stepper : /\ WF_mcVars(DaemonStep(w) /\ Kept)
                          /\ SF_mcVars(MarkProcessed(w) /\ UNCHANGED poolVars /\ Kept)
==============================================================================
