-------------------------- MODULE MCCircuitBreaker --------------------------
(***************************************************************************)
(* Three callers with manual resets and openings, two callers without, or  *)
(* one caller alone.                                                       *)
(***************************************************************************)
EXTENDS CircuitBreaker

CONSTANTS c1, c2, c3

ASSUME CallerAssumption == Caller = {c1, c2, c3}

NotManual == INSTANCE CircuitBreaker WITH Manual <- {}

VARIABLE callers

MCvars == <<vars, callers>>

MCInit == Init /\ callers \in {"three", "two", "one"}
MCNext ==
    /\ UNCHANGED callers
    /\ \/ callers = "three" /\ Next
       \/ callers = "two" /\ NotManual!Next /\ pc'[c3] = "idle"
       \/ callers = "one" /\ NotManual!Next /\ pc'[c2] = "idle" /\ pc'[c3] = "idle"

\* If nobody forces the circuit open, it closes for good some time after the
\* service is healthy, even if older failures are recorded later.
RecoversWhenHealthyUnlessForced ==
    callers = "two" /\ service = "healthy" ~> [](state = "closed")

\* A caller who is alone moves the circuit along the documented diagram only:
\* no transition to closed or half-open before its threshold or timeout.
FollowsDiagramAlone == [][callers = "one" => Diagram]_vars

\* The circuit recovers, and gets there as documented.
RecoversAlongDiagram == RecoversWhenHealthyUnlessForced /\ FollowsDiagramAlone
=============================================================================
