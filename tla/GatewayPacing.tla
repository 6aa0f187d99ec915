---------------------------- MODULE GatewayPacing ----------------------------
(***************************************************************************)
(* The circuit breaker of fleet/gateway_pacing.py.  OPEN lets calls        *)
(* through, CLOSED (too many timeouts in a row) refuses them until a       *)
(* backoff is over, HALF_OPEN lets one through now and then.  Every method *)
(* holds one lock, hence one action each; a program may own several        *)
(* breakers, one after the other.                                          *)
(*                                                                         *)
(* The unit of time is the half_open_probe_interval, 30 s, which is also   *)
(* what a timeout adds to the backoff.  Ages and the count of timeouts     *)
(* stop where they cannot change an answer any more.                       *)
(***************************************************************************)
EXTENDS Naturals

CONSTANTS
    Instance,      \* breakers
    MaxTimeouts,   \* max_consecutive_timeouts
    LinearMax,     \* linear_backoff_max
    HardMax,       \* exponential_backoff_max
    Reopen         \* successes_to_reopen

\* The count from which on the backoff is the longest.
MostTimeouts == LinearMax + HardMax

ASSUME PacingAssumption ==
    /\ MaxTimeouts \in Nat \ {0} /\ Reopen \in Nat \ {0}
    /\ LinearMax \in Nat /\ HardMax \in Nat /\ LinearMax < HardMax /\ MaxTimeouts <= MostTimeouts

VARIABLES
    breaker,    \* the attributes of each breaker
    earned      \* history: successes each breaker was told of since it was last CLOSED

pacingVars == <<breaker, earned>>

Breaker == [state : {"OPEN", "HALF_OPEN", "CLOSED"},
            timeouts : 0 .. MostTimeouts,    \* _consecutive_timeouts
            probeSuccesses : 0 .. Reopen,    \* _half_open_successes
            sinceClosed : 0 .. HardMax,      \* age of _circuit_closed_at, while CLOSED
            sinceProbe : 0 .. 1]             \* age of _last_probe_time; 1 if there is none
Outcome == {"success", "failure", "timeout"}

Fresh == [state |-> "OPEN", timeouts |-> 0, probeSuccesses |-> 0, sinceClosed |-> 0, sinceProbe |-> 1]

PacingInit == breaker = [i \in Instance |-> Fresh] /\ earned = [i \in Instance |-> 0]
------------------------------------------------------------------------------
Least(m, n) == IF m < n THEN m ELSE n

\* Mutant: the successes of an earlier trial kept when it fails.
TransitionKeeping(b, s) ==
    IF b.state = s THEN b
    ELSE [b EXCEPT !.state = s, !.sinceClosed = 0,
                   !.timeouts = IF s = "OPEN" THEN 0 ELSE @,
                   !.probeSuccesses = IF s = "OPEN" THEN 0 ELSE @]
Transition(b, s) ==
    IF b.state = s THEN b
    ELSE [b EXCEPT !.state = s, !.sinceClosed = 0,
                   !.timeouts = IF s = "OPEN" THEN 0 ELSE @,
                   !.probeSuccesses = IF s = "HALF_OPEN" THEN @ ELSE 0]

\* Linear, then doubling up to the cap.
Backoff(n) ==
    IF n <= LinearMax THEN n
    ELSE LinearMax + Least(2 ^ (n - LinearMax), HardMax - LinearMax)

\* _maybe_transition: any look at the breaker may end its backoff.
Looked(b) ==
    IF b.state = "CLOSED" /\ b.sinceClosed >= Backoff(b.timeouts) THEN Transition(b, "HALF_OPEN") ELSE b

Allows(b) == b.state = "OPEN" \/ (b.state = "HALF_OPEN" /\ b.sinceProbe = 1)
\* Mutant: a refusal starts the backoff anew.
AskedSliding(b) ==
    LET l == Looked(b)
    IN IF l.state = "HALF_OPEN" /\ Allows(l) THEN [l EXCEPT !.sinceProbe = 0] ELSE [l EXCEPT !.sinceClosed = 0]
\* can_dispatch() as it leaves the breaker; it answers Allows(Looked(b)).
Asked(b) ==
    LET l == Looked(b)
    IN IF l.state = "HALF_OPEN" /\ Allows(l) THEN [l EXCEPT !.sinceProbe = 0] ELSE l

\* record_success, record_failure and record_timeout.
Recorded(b, outcome) ==
    CASE outcome = "success" ->
           LET s == [b EXCEPT !.timeouts = 0,
                              !.probeSuccesses = IF b.state = "HALF_OPEN" THEN @ + 1 ELSE @]
           IN IF s.probeSuccesses >= Reopen THEN Transition(s, "OPEN") ELSE s
      [] outcome = "failure" -> [b EXCEPT !.timeouts = 0]
      [] outcome = "timeout" ->
           LET t == [b EXCEPT !.timeouts = Least(@ + 1, MostTimeouts)]
           IN IF t.timeouts >= MaxTimeouts THEN Transition(t, "CLOSED") ELSE t
------------------------------------------------------------------------------
CanDispatch(i, allowed) ==
    /\ allowed = Allows(Looked(breaker[i]))
    /\ breaker' = [breaker EXCEPT ![i] = Asked(@)]
    /\ UNCHANGED earned

GetPacingStatus(i) ==
    /\ breaker' = [breaker EXCEPT ![i] = Looked(@)]
    /\ UNCHANGED earned

Record(i, outcome) ==
    /\ breaker' = [breaker EXCEPT ![i] = Recorded(@, outcome)]
    /\ earned' = [earned EXCEPT ![i] =
         IF breaker'[i].state = "CLOSED" THEN 0
         ELSE IF outcome = "success" THEN Least(@ + 1, Reopen) ELSE @]

Elapse ==
    /\ breaker' = [i \in Instance |->
         [breaker[i] EXCEPT !.sinceProbe = 1,
                            !.sinceClosed = IF breaker[i].state = "CLOSED" THEN Least(@ + 1, HardMax) ELSE @]]
    /\ UNCHANGED earned
------------------------------------------------------------------------------
\* Type of the breakers.
PacingTypeOK == breaker \in [Instance -> Breaker] /\ earned \in [Instance -> 0 .. Reopen]

\* A breaker that was closed opens again only after enough successes reported in
\* its present trial: neither what came in while it was closed nor what a trial
\* that failed has earned counts.  A late answer of a call that was let through
\* before does count when it comes during the trial.
ReopensOnSuccesses ==
    [][\A i \in Instance :
        breaker[i].state # "OPEN" /\ breaker'[i].state = "OPEN" => earned'[i] = Reopen]_breaker
==============================================================================
