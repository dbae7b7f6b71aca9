--------------------------- MODULE CircuitBreaker ---------------------------
(***************************************************************************)
(* CircuitBreaker (infrastructure/circuit_breaker.rs): calls that run at   *)
(* once share a state behind a lock and two atomic counters, and read the  *)
(* one and change the others in separate steps.                            *)
(*                                                                         *)
(* Time is abstracted to whether the reset timeout has passed since the    *)
(* last recorded failure.  total_calls and total_failures are statistics   *)
(* and are left out.                                                       *)
(***************************************************************************)
EXTENDS Integers

CONSTANTS
    Caller,             \* tasks that call through the breaker
    FailureThreshold,
    SuccessThreshold,
    Manual              \* of "reset", "force_open": manual calls that happen

ASSUME ThresholdAssumption ==
    /\ FailureThreshold \in Nat \ {0}
    /\ SuccessThreshold \in Nat \ {0}

VARIABLES
    state,      \* the RwLock<State>
    failures,   \* failure_count
    successes,  \* success_count
    waited,     \* whether the timeout has passed since last_failure_time
    pc,         \* where a caller is
    service     \* whether calls can still fail

vars == <<state, failures, successes, waited, pc, service>>

State == {"closed", "open", "half_open"}
Place == {"idle", "timer", "half_open", "run", "count_success", "close",
          "clear_failures", "failed", "count_failure", "open"}

TypeOK ==
    /\ state \in State
    /\ failures \in Nat
    /\ successes \in Nat
    /\ waited \in {"no", "yes"}
    /\ pc \in [Caller -> Place]
    /\ service \in {"flaky", "healthy"}

\* last_failure_time is 0 at first: the timeout has long passed.
Init ==
    /\ state = "closed"
    /\ failures = 0
    /\ successes = 0
    /\ waited = "yes"
    /\ pc = [c \in Caller |-> "idle"]
    /\ service = "flaky"

Goto(c, from, to) == pc[c] = from /\ pc' = [pc EXCEPT ![c] = to]

-----------------------------------------------------------------------------
(* is_available.                                                           *)

ReadState(c) ==
    /\ Goto(c, "idle", IF state = "open" THEN "timer" ELSE "run")
    /\ UNCHANGED <<state, failures, successes, waited, service>>

\* Mutant: the comparison with the timeout is the wrong way round.
CheckTimeout_Inverted(c) ==
    /\ Goto(c, "timer", IF waited = "no" THEN "half_open" ELSE "idle")
    /\ UNCHANGED <<state, failures, successes, waited, service>>

\* Refused with CircuitOpen until the timeout has passed.
CheckTimeout(c) ==
    /\ Goto(c, "timer", IF waited = "yes" THEN "half_open" ELSE "idle")
    /\ UNCHANGED <<state, failures, successes, waited, service>>

\* Mutant: the call is let through and the state stays open.
TransitionToHalfOpen_Forgets(c) ==
    /\ Goto(c, "half_open", "run")
    /\ UNCHANGED <<state, failures, successes, waited, service>>

TransitionToHalfOpen(c) ==
    /\ Goto(c, "half_open", "run")
    /\ IF state = "open"
       THEN state' = "half_open" /\ failures' = 0 /\ successes' = 0
       ELSE UNCHANGED <<state, failures, successes>>
    /\ UNCHANGED <<waited, service>>

-----------------------------------------------------------------------------
(* record_success: the state is read, then acted on.                       *)

Succeed(c) ==
    /\ Goto(c, "run", CASE state = "half_open" -> "count_success"
                        [] state = "closed" -> "clear_failures"
                        [] state = "open" -> "idle")
    /\ UNCHANGED <<state, failures, successes, waited, service>>

\* Mutant: a success takes one failure off the count.
ClearFailures_ByOne(c) ==
    /\ Goto(c, "clear_failures", "idle")
    /\ failures' = failures - 1
    /\ UNCHANGED <<state, successes, waited, service>>

ClearFailures(c) ==
    /\ Goto(c, "clear_failures", "idle")
    /\ failures' = 0
    /\ UNCHANGED <<state, successes, waited, service>>

\* Mutant: one success more than the threshold is asked for.
CountSuccess_OneMore(c) ==
    /\ successes' = successes + 1
    /\ Goto(c, "count_success", IF successes' > SuccessThreshold THEN "close" ELSE "idle")
    /\ UNCHANGED <<state, failures, waited, service>>

CountSuccess(c) ==
    /\ successes' = successes + 1
    /\ Goto(c, "count_success", IF successes' >= SuccessThreshold THEN "close" ELSE "idle")
    /\ UNCHANGED <<state, failures, waited, service>>

Close ==
    IF state # "closed" THEN state' = "closed" /\ failures' = 0 /\ successes' = 0
    ELSE UNCHANGED <<state, failures, successes>>

TransitionToClosed(c) ==
    /\ Goto(c, "close", "idle")
    /\ Close
    /\ UNCHANGED <<waited, service>>

-----------------------------------------------------------------------------
(* record_failure: last_failure_time is set, the state read, then acted on.*)

Fail(c) ==
    /\ service = "flaky"
    /\ Goto(c, "run", "failed")
    /\ waited' = "no"
    /\ UNCHANGED <<state, failures, successes, service>>

ReadStateAfterFailure(c) ==
    /\ Goto(c, "failed", CASE state = "closed" -> "count_failure"
                           [] state = "half_open" -> "open"
                           [] state = "open" -> "idle")
    /\ UNCHANGED <<state, failures, successes, waited, service>>

\* Mutant: the count before the addition is compared.
CountFailure_Before(c) ==
    /\ failures' = failures + 1
    /\ Goto(c, "count_failure", IF failures >= FailureThreshold THEN "open" ELSE "idle")
    /\ UNCHANGED <<state, successes, waited, service>>

CountFailure(c) ==
    /\ failures' = failures + 1
    /\ Goto(c, "count_failure", IF failures' >= FailureThreshold THEN "open" ELSE "idle")
    /\ UNCHANGED <<state, successes, waited, service>>

Open ==
    IF state # "open" THEN state' = "open" /\ successes' = 0
    ELSE UNCHANGED <<state, successes>>

TransitionToOpen(c) ==
    /\ Goto(c, "open", "idle")
    /\ Open
    /\ UNCHANGED <<failures, waited, service>>

-----------------------------------------------------------------------------
(* reset and force_open.                                                   *)

Reset ==
    /\ "reset" \in Manual
    /\ Close
    /\ UNCHANGED <<waited, pc, service>>

\* The count is stored first, then the state changed.
ForceOpen(c) ==
    /\ "force_open" \in Manual
    /\ Goto(c, "idle", "open")
    /\ failures' = FailureThreshold
    /\ UNCHANGED <<state, successes, waited, service>>

-----------------------------------------------------------------------------
Wait ==
    /\ waited = "no"
    /\ waited' = "yes"
    /\ UNCHANGED <<state, failures, successes, pc, service>>

Heal ==
    /\ service' = "healthy"
    /\ UNCHANGED <<state, failures, successes, waited, pc>>

Call(c) ==
    \/ ReadState(c) \/ CheckTimeout(c) \/ TransitionToHalfOpen(c)
    \/ Succeed(c) \/ ClearFailures(c) \/ CountSuccess(c) \/ TransitionToClosed(c)
    \/ Fail(c) \/ ReadStateAfterFailure(c) \/ CountFailure(c) \/ TransitionToOpen(c)

Next == (\E c \in Caller : Call(c) \/ ForceOpen(c)) \/ Reset \/ Wait \/ Heal
Spec == Init /\ [][Next]_vars
\* Time passes, and callers keep calling and are scheduled.
FairSpec == Spec /\ WF_vars(Wait) /\ \A c \in Caller : WF_vars(Call(c))

-----------------------------------------------------------------------------
(* Properties.                                                             *)

\* No trip is lost between the counter and the lock: a closed circuit whose
\* count has reached the threshold has a task on its way to open it.
TripIsNotLost ==
    state = "closed" /\ failures >= FailureThreshold => \E c \in Caller : pc[c] = "open"

\* Nor is a recovery: a half-open circuit with enough successes has a task on
\* its way to close it.
RecoveryIsNotLost ==
    state = "half_open" /\ successes >= SuccessThreshold => \E c \in Caller : pc[c] = "close"

\* circuit_breaker.rs: the counters are read and the state is set under different
\* locks, yet no transition that is due is lost in between.
TransitionsAreNotLost == TripIsNotLost /\ RecoveryIsNotLost

\* A service that has recovered is reached again in the end, and for good.
RecoversWhenHealthy == service = "healthy" ~> [](state = "closed")

\* The diagram of 05-advanced-features.md: CLOSED opens when failures >= threshold,
\* OPEN goes to HALF-OPEN after the timeout, and only HALF-OPEN closes, on success.
Diagram ==
    state' # state =>
        \/ state = "closed" /\ state' = "open" /\ failures >= FailureThreshold
        \/ state = "open" /\ state' = "half_open" /\ waited = "yes"
        \/ state = "half_open" /\ state' = "closed" /\ successes >= SuccessThreshold
        \/ state = "half_open" /\ state' = "open"
FollowsDiagram == [][Diagram]_vars
=============================================================================
