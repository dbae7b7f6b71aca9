---------------------------- MODULE ServerProofs ----------------------------
(***************************************************************************)
(* What keeps a server going, for any callers, thresholds, quotas, days    *)
(* and links: no transition of the circuit breaker is lost, the quota is   *)
(* exceeded at most once over, a ready server is equipped, a day has its   *)
(* partition, and a preview that was found is announced.                   *)
(***************************************************************************)
EXTENDS MCServer, TLAPS, FiniteSetTheorems, SequenceTheorems

(***************************************************************************)
(* The circuit breaker                                                     *)
(***************************************************************************)
(* Every variable keeps its type: the counters stay natural numbers.       *)
THEOREM TypeCorrect == Spec => []TypeOK
<1>1. Init => TypeOK
  BY DEF Init, TypeOK, State, Place
<1>2. TypeOK /\ [Next]_vars => TypeOK'
  <2> SUFFICES ASSUME TypeOK, [Next]_vars PROVE TypeOK'
    OBVIOUS
  <2> USE ThresholdAssumption DEF TypeOK, State
  <2>1. ASSUME NEW c \in Caller, NEW from, NEW to \in Place, Goto(c, from, to)
        PROVE  pc' \in [Caller -> Place]
    BY <2>1 DEF Goto
  <2> USE <2>1 DEF Place
  <2>2. ASSUME NEW c \in Caller, ReadState(c) \/ CheckTimeout(c) \/ TransitionToHalfOpen(c) PROVE TypeOK'
    BY <2>2 DEF ReadState, CheckTimeout, TransitionToHalfOpen
  <2>3. ASSUME NEW c \in Caller, Succeed(c) PROVE TypeOK'
    BY <2>3 DEF Succeed
  <2>4. ASSUME NEW c \in Caller, ClearFailures(c) \/ CountSuccess(c) PROVE TypeOK'
    BY <2>4 DEF ClearFailures, CountSuccess
  <2>5. ASSUME NEW c \in Caller, TransitionToClosed(c) PROVE TypeOK'
    BY <2>5 DEF TransitionToClosed, Close
  <2>6. ASSUME NEW c \in Caller, Fail(c) PROVE TypeOK'
    BY <2>6 DEF Fail
  <2>7. ASSUME NEW c \in Caller, ReadStateAfterFailure(c) PROVE TypeOK'
    BY <2>7 DEF ReadStateAfterFailure
  <2>8. ASSUME NEW c \in Caller, CountFailure(c) \/ TransitionToOpen(c) PROVE TypeOK'
    BY <2>8 DEF CountFailure, TransitionToOpen, Open
  <2>9. ASSUME NEW c \in Caller, ForceOpen(c) PROVE TypeOK'
    BY <2>9 DEF ForceOpen
  <2>10. ASSUME Reset \/ Wait \/ Heal \/ UNCHANGED vars PROVE TypeOK'
    BY <2>10 DEF Reset, Close, Wait, Heal, vars
  <2> QED
    BY <2>2, <2>3, <2>4, <2>5, <2>6, <2>7, <2>8, <2>9, <2>10 DEF Next, Call
<1> QED BY <1>1, <1>2, PTL DEF Spec

-----------------------------------------------------------------------------
(* A caller keeps its place unless the step is its own.                    *)
LEMMA OthersStay ==
    ASSUME TypeOK, NEW c \in Caller, NEW from, NEW to, Goto(c, from, to)
    PROVE  /\ pc[c] = from /\ pc'[c] = to
           /\ \A d \in Caller \ {c} : pc'[d] = pc[d]
BY DEF Goto, TypeOK

(* A closed circuit at its threshold has a task on its way to open it,     *)
(* because the task that counts that far goes to the lock, and whoever     *)
(* takes it first opens the circuit for all.                               *)
THEOREM NoTripIsLost == Spec => []TripIsNotLost
<1>1. Init => TripIsNotLost
  BY ThresholdAssumption DEF Init, TripIsNotLost
<1>2. TypeOK /\ TripIsNotLost /\ [Next]_vars => TripIsNotLost'
  <2> SUFFICES ASSUME TypeOK, TripIsNotLost, [Next]_vars,
                      state' = "closed", failures' >= FailureThreshold
               PROVE  \E d \in Caller : pc'[d] = "open"
    BY DEF TripIsNotLost
  <2> USE ThresholdAssumption
  <2>1. failures \in Nat
    BY DEF TypeOK
  \* A step that moves neither the state nor the count, nor a task at the lock.
  <2>2. ASSUME UNCHANGED <<state, failures>>, \A d \in Caller : pc[d] = "open" => pc'[d] = "open"
        PROVE  \E d \in Caller : pc'[d] = "open"
    BY <2>2 DEF TripIsNotLost
  <2>3. ASSUME NEW c \in Caller,
               ReadState(c) \/ CheckTimeout(c) \/ Succeed(c) \/ CountSuccess(c)
                 \/ Fail(c) \/ ReadStateAfterFailure(c)
        PROVE  \E d \in Caller : pc'[d] = "open"
    <3>1. UNCHANGED <<state, failures>> /\ \E from \in Place \ {"open"} : \E to : Goto(c, from, to)
      BY <2>3 DEF ReadState, CheckTimeout, Succeed, CountSuccess, Fail, ReadStateAfterFailure, Place
    <3> QED BY <2>2, <3>1, OthersStay
  <2>4. ASSUME NEW c \in Caller, TransitionToHalfOpen(c) PROVE \E d \in Caller : pc'[d] = "open"
    <3>1. UNCHANGED <<state, failures>>
      BY <2>4 DEF TransitionToHalfOpen
    <3> QED BY <2>2, <2>4, <3>1, OthersStay DEF TransitionToHalfOpen
  <2>5. ASSUME NEW c \in Caller, ClearFailures(c) PROVE FALSE
    BY <2>5 DEF ClearFailures
  <2>6. ASSUME NEW c \in Caller, TransitionToClosed(c) PROVE \E d \in Caller : pc'[d] = "open"
    <3>1. UNCHANGED <<state, failures>>
      BY <2>6 DEF TransitionToClosed, Close
    <3> QED BY <2>2, <2>6, <3>1, OthersStay DEF TransitionToClosed
  <2>7. ASSUME NEW c \in Caller, CountFailure(c) PROVE \E d \in Caller : pc'[d] = "open"
    BY <2>7, OthersStay DEF CountFailure
  <2>8. ASSUME NEW c \in Caller, TransitionToOpen(c) PROVE FALSE
    BY <2>8 DEF TransitionToOpen, Open
  <2>9. ASSUME NEW c \in Caller, ForceOpen(c) PROVE \E d \in Caller : pc'[d] = "open"
    BY <2>9, OthersStay DEF ForceOpen
  <2>10. ASSUME Reset \/ Wait \/ Heal \/ UNCHANGED vars PROVE \E d \in Caller : pc'[d] = "open"
    BY <2>2, <2>10 DEF Reset, Close, Wait, Heal, vars
  <2> QED
    BY <2>3, <2>4, <2>5, <2>6, <2>7, <2>8, <2>9, <2>10 DEF Next, Call
<1> QED BY <1>1, <1>2, TypeCorrect, PTL DEF Spec

(* Likewise a half-open circuit with enough successes has a task on its    *)
(* way to close it.                                                        *)
THEOREM NoRecoveryIsLost == Spec => []RecoveryIsNotLost
<1>1. Init => RecoveryIsNotLost
  BY DEF Init, RecoveryIsNotLost
<1>2. TypeOK /\ RecoveryIsNotLost /\ [Next]_vars => RecoveryIsNotLost'
  <2> SUFFICES ASSUME TypeOK, RecoveryIsNotLost, [Next]_vars,
                      state' = "half_open", successes' >= SuccessThreshold
               PROVE  \E d \in Caller : pc'[d] = "close"
    BY DEF RecoveryIsNotLost
  <2> USE ThresholdAssumption
  <2>1. successes \in Nat
    BY DEF TypeOK
  <2>2. ASSUME UNCHANGED <<state, successes>>, \A d \in Caller : pc[d] = "close" => pc'[d] = "close"
        PROVE  \E d \in Caller : pc'[d] = "close"
    BY <2>2 DEF RecoveryIsNotLost
  <2>3. ASSUME NEW c \in Caller,
               ReadState(c) \/ CheckTimeout(c) \/ Succeed(c) \/ ClearFailures(c)
                 \/ Fail(c) \/ ReadStateAfterFailure(c) \/ CountFailure(c) \/ ForceOpen(c)
        PROVE  \E d \in Caller : pc'[d] = "close"
    <3>1. UNCHANGED <<state, successes>> /\ \E from \in Place \ {"close"} : \E to : Goto(c, from, to)
      BY <2>3 DEF ReadState, CheckTimeout, Succeed, ClearFailures, Fail, ReadStateAfterFailure,
                  CountFailure, ForceOpen, Place
    <3> QED BY <2>2, <3>1, OthersStay
  <2>4. ASSUME NEW c \in Caller, TransitionToHalfOpen(c) PROVE \E d \in Caller : pc'[d] = "close"
    <3>1. UNCHANGED <<state, successes>>
      BY <2>4 DEF TransitionToHalfOpen
    <3> QED BY <2>2, <2>4, <3>1, OthersStay DEF TransitionToHalfOpen
  <2>5. ASSUME NEW c \in Caller, CountSuccess(c) PROVE \E d \in Caller : pc'[d] = "close"
    BY <2>5, OthersStay DEF CountSuccess
  <2>6. ASSUME NEW c \in Caller, TransitionToClosed(c) PROVE FALSE
    BY <2>6 DEF TransitionToClosed, Close
  <2>7. ASSUME NEW c \in Caller, TransitionToOpen(c) PROVE \E d \in Caller : pc'[d] = "close"
    <3>1. UNCHANGED <<state, successes>>
      BY <2>7 DEF TransitionToOpen, Open
    <3> QED BY <2>2, <2>7, <3>1, OthersStay DEF TransitionToOpen
  <2>8. ASSUME Reset \/ Wait \/ Heal \/ UNCHANGED vars PROVE \E d \in Caller : pc'[d] = "close"
    BY <2>2, <2>8 DEF Reset, Close, Wait, Heal, vars
  <2> QED
    BY <2>3, <2>4, <2>5, <2>6, <2>7, <2>8 DEF Next, Call
<1> QED BY <1>1, <1>2, TypeCorrect, PTL DEF Spec

\* No transition is lost between the counters and the lock, for any number of
\* callers and any thresholds.
THEOREM NoTransitionIsLost == Spec => []TransitionsAreNotLost
<1>1. TripIsNotLost /\ RecoveryIsNotLost => TransitionsAreNotLost
  BY DEF TransitionsAreNotLost
<1> QED
  BY <1>1, NoTripIsLost, NoRecoveryIsLost, PTL

\* The same where the parts of the server stand side by side, with manual resets and without.
THEOREM NoTransitionIsEverLost == PartsSpec => []TransitionsAreNotLost
<1>1. PartsInit => Init
  BY DEF PartsInit
<1>2. [PartsNext]_partsVars => [Next]_vars
  <2> SUFFICES ASSUME [PartsNext]_partsVars PROVE [Next]_vars
    OBVIOUS
  <2>1. MCNext \/ UNCHANGED vars
    BY DEF PartsNext, partsVars, MCvars
  <2>2. ASSUME NotManual!Next PROVE Next
    <3>1. ASSUME NEW c \in Caller, NotManual!Call(c) PROVE Call(c)
      BY <3>1
      DEF NotManual!Call, NotManual!ReadState, NotManual!CheckTimeout, NotManual!TransitionToHalfOpen, NotManual!Succeed,
          NotManual!ClearFailures, NotManual!CountSuccess, NotManual!TransitionToClosed, NotManual!Fail,
          NotManual!ReadStateAfterFailure, NotManual!CountFailure, NotManual!TransitionToOpen, NotManual!Goto, NotManual!Close,
          NotManual!Open,
          Call, ReadState, CheckTimeout, TransitionToHalfOpen, Succeed, ClearFailures, CountSuccess, TransitionToClosed, Fail,
          ReadStateAfterFailure, CountFailure, TransitionToOpen, Goto, Close, Open
    <3>2. ~NotManual!Reset /\ \A c \in Caller : ~NotManual!ForceOpen(c)
      BY DEF NotManual!Reset, NotManual!ForceOpen
    <3>3. (NotManual!Wait => Wait) /\ (NotManual!Heal => Heal)
      BY DEF NotManual!Wait, NotManual!Heal, Wait, Heal
    <3> QED BY <2>2, <3>1, <3>2, <3>3 DEF NotManual!Next, Next
  <2> QED BY <2>1, <2>2 DEF MCNext
<1>3. PartsSpec => Spec
  BY <1>1, <1>2, PTL DEF PartsSpec, Spec
<1> QED BY <1>3, NoTransitionIsLost, PTL

\* A caller who is alone: where it is tells what it has read, for nobody has changed it since.
Alone ==
    /\ state \in State /\ pc \in [Caller -> Place]
    /\ \A c \in Caller \ {c1} : pc[c] = "idle"
    /\ pc[c1] \in {"timer", "half_open"} => state = "open"
    /\ pc[c1] = "half_open" => waited = "yes"
    /\ pc[c1] \in {"count_success", "close"} => state = "half_open"
    /\ pc[c1] = "close" => successes >= SuccessThreshold
    /\ pc[c1] = "count_failure" => state = "closed"
    /\ pc[c1] = "open" => state = "half_open" \/ (state = "closed" /\ failures >= FailureThreshold)

LEMMA AloneStep ==
  ASSUME Alone, NotManual!Next, \A c \in Caller \ {c1} : pc'[c] = "idle"
  PROVE  Alone' /\ Diagram
<1>1. ASSUME NEW c \in Caller, NotManual!Call(c) PROVE Alone' /\ Diagram
  <2>1. c = c1 \/ \E to : NotManual!Goto(c, "idle", to) /\ pc'[c] = to /\ to \in {"timer", "run"}
    BY <1>1
    DEF Alone, NotManual!Call, NotManual!ReadState, NotManual!CheckTimeout, NotManual!TransitionToHalfOpen, NotManual!Succeed,
        NotManual!ClearFailures, NotManual!CountSuccess, NotManual!TransitionToClosed, NotManual!Fail,
        NotManual!ReadStateAfterFailure, NotManual!CountFailure, NotManual!TransitionToOpen, NotManual!Goto
  <2>2. c = c1
    BY <2>1
  <2>3. /\ c1 \in Caller
        /\ \A from, to : NotManual!Goto(c, from, to) => pc[c1] = from /\ pc'[c1] = to
        /\ \A from, to : NotManual!Goto(c, from, to) /\ to \in Place
                         => pc' \in [Caller -> Place] /\ \A d \in Caller \ {c1} : pc'[d] = "idle"
    BY <1>1, <2>2 DEF NotManual!Goto, Alone
  <2>4. CASE NotManual!ReadState(c) \/ NotManual!CheckTimeout(c) \/ NotManual!Succeed(c) \/ NotManual!ReadStateAfterFailure(c)
    <3>1. UNCHANGED <<state, failures, successes, waited>>
      BY <2>4 DEF NotManual!ReadState, NotManual!CheckTimeout, NotManual!Succeed, NotManual!ReadStateAfterFailure
    <3>2. \/ pc[c1] = "idle" /\ NotManual!Goto(c, "idle", IF state = "open" THEN "timer" ELSE "run")
          \/ pc[c1] = "timer" /\ NotManual!Goto(c, "timer", IF waited = "yes" THEN "half_open" ELSE "idle")
          \/ pc[c1] = "run" /\ \E to \in {"idle", "count_success", "clear_failures"} :
                /\ NotManual!Goto(c, "run", to)
                /\ to = "count_success" => state = "half_open"
          \/ pc[c1] = "failed" /\ \E to \in {"idle", "count_failure", "open"} :
                /\ NotManual!Goto(c, "failed", to)
                /\ to = "count_failure" => state = "closed"
                /\ to = "open" => state = "half_open"
      <4>1. state \in State
        BY DEF Alone
      <4>2. CASE NotManual!ReadState(c)
        BY <2>2, <4>2 DEF NotManual!ReadState, NotManual!Goto
      <4>3. CASE NotManual!CheckTimeout(c)
        BY <2>2, <4>3 DEF NotManual!CheckTimeout, NotManual!Goto
      <4>4. CASE NotManual!Succeed(c)
        BY <2>2, <4>1, <4>4 DEF NotManual!Succeed, NotManual!Goto, State
      <4>5. CASE NotManual!ReadStateAfterFailure(c)
        BY <2>2, <4>1, <4>5 DEF NotManual!ReadStateAfterFailure, NotManual!Goto, State
      <4> QED BY <2>4, <4>2, <4>3, <4>4, <4>5
    <3> QED BY <2>2, <2>3, <3>1, <3>2 DEF Alone, Diagram, Place
  <2>5. CASE NotManual!Fail(c) \/ NotManual!ClearFailures(c)
    BY <2>3, <2>5 DEF Alone, Diagram, Place, State, NotManual!Fail, NotManual!ClearFailures
  <2>6. CASE NotManual!CountSuccess(c) \/ NotManual!CountFailure(c)
    BY <2>3, <2>6 DEF Alone, Diagram, Place, State, NotManual!CountSuccess, NotManual!CountFailure
  <2>7. CASE NotManual!TransitionToHalfOpen(c) \/ NotManual!TransitionToClosed(c) \/ NotManual!TransitionToOpen(c)
    BY <2>3, <2>7
    DEF Alone, Diagram, Place, State, NotManual!TransitionToHalfOpen, NotManual!TransitionToClosed, NotManual!TransitionToOpen,
        NotManual!Close, NotManual!Open
  <2> QED BY <1>1, <2>4, <2>5, <2>6, <2>7 DEF NotManual!Call
<1>2. ~NotManual!Reset /\ \A c \in Caller : ~NotManual!ForceOpen(c)
  BY DEF NotManual!Reset, NotManual!ForceOpen
<1>3. CASE NotManual!Wait \/ NotManual!Heal
  BY <1>3 DEF Alone, Diagram, State, NotManual!Wait, NotManual!Heal
<1> QED BY <1>1, <1>2, <1>3 DEF NotManual!Next

\* circuit_breaker.rs: although what was read may be out of date when it is acted on, a
\* caller who is alone opens, half-opens and closes the circuit only as documented.
THEOREM AloneFollowsDiagram == PartsSpec => FollowsDiagramAlone
<1> DEFINE I == callers = "one" => Alone
<1>1. PartsInit => I
  BY CallerAssumption DEF PartsInit, Init, Alone, Place, State
<1>2. I /\ [PartsNext]_partsVars => I' /\ [callers = "one" => Diagram]_vars
  <2> SUFFICES ASSUME I, [PartsNext]_partsVars PROVE I' /\ [callers = "one" => Diagram]_vars
    OBVIOUS
  <2>1. MCNext \/ UNCHANGED MCvars
    BY DEF PartsNext, partsVars
  <2>2. CASE UNCHANGED MCvars
    BY <2>2 DEF MCvars, vars, Alone
  <2>3. CASE MCNext
    <3>1. callers' = callers
      BY <2>3 DEF MCNext
    <3>2. CASE callers = "one"
      <4>1. NotManual!Next /\ \A c \in Caller \ {c1} : pc'[c] = "idle"
        BY <2>3, <3>2, CallerAssumption DEF MCNext
      <4> QED BY <3>1, <3>2, <4>1, AloneStep
    <3> QED BY <3>1, <3>2
  <2> QED BY <2>1, <2>2, <2>3
<1> QED BY <1>1, <1>2, PTL DEF PartsSpec, FollowsDiagramAlone

(***************************************************************************)
(* The message quota                                                       *)
(***************************************************************************)
QuotaCall == [pc : {"idle", "expire", "ttl"}, seen : Nat, at : 0..MaxNow]
QuotaType ==
    /\ count \in Nat /\ sends \in 0..MaxSends /\ count <= sends
    /\ expiresAt \in 0..Quota!Never /\ now \in 0..MaxNow
    /\ check \in [Handlers -> QuotaCall] /\ \A h \in Handlers : check[h].at <= now
    /\ passed \in [0..MaxNow -> Nat] /\ \A t \in 0..MaxNow : t > now => passed[t] = 0
    /\ unexpiring \in BOOLEAN

\* A counter without a time to live.
KeyFits == count > 0 /\ expiresAt = Quota!Never => unexpiring \/ \E h \in Handlers : check[h].pc = "expire"

\* Times are numbered by the life of the key they are in; e is that numbering.
\* What passed in life k, and the checks that may still pass.
PassedOf(e, k) == UNION {{t} \X (1..passed[t]) : t \in {t \in 0..now : e[t] = k}}
Pending(e, k) == {h \in Handlers : check[h].pc # "idle" /\ check[h].seen <= MaxMessages /\ e[check[h].at] = k}

\* Of one life no more than the quota passes, and every life but the last is longer
\* than a window.
Lives(e) ==
    /\ \A s, t \in 0..now : s <= t => e[s] <= e[t]
    /\ \A s, t \in 0..now : e[s] + 1 < e[t] => s + Window < t
    /\ \A t \in 0..now : e[t] < e[now] => t + Window < expiresAt
    /\ \A k \in Nat : /\ IsFiniteSet(PassedOf(e, k))
                      /\ Cardinality(PassedOf(e, k)) + Cardinality(Pending(e, k)) <= MaxMessages
    /\ Cardinality(PassedOf(e, e[now])) + Cardinality(Pending(e, e[now])) <= count

QuotaInv == QuotaType /\ KeyFits /\ \E e \in [0..MaxNow -> Nat] : Lives(e)

LEMMA QuotaCardinality == ASSUME NEW S PROVE Quota!Cardinality(S) = Cardinality(S)
BY DEF Quota!Cardinality, Cardinality

LEMMA PendingFinite ==
  ASSUME NEW e, NEW k
  PROVE  /\ IsFiniteSet(Pending(e, k)) /\ Cardinality(Pending(e, k)) \in Nat
         /\ \A S \in SUBSET Pending(e, k) : IsFiniteSet(S) /\ Cardinality(S) \in Nat /\ Cardinality(S) <= Cardinality(Pending(e, k))
<1>1. Pending(e, k) \in SUBSET Handlers
  BY DEF Pending
<1>2. IsFiniteSet(Pending(e, k))
  BY <1>1, QuotaAssumption, FS_Subset
<1> QED BY <1>2, FS_Subset, FS_CardinalityType

LEMMA QuotaInitOk == Quota!Init => QuotaInv
<1> SUFFICES ASSUME Quota!Init PROVE QuotaInv
  OBVIOUS
<1>1. count = 0 /\ expiresAt = Quota!Never /\ now = 0 /\ unexpiring = FALSE /\ sends = 0
      /\ check = [h \in Handlers |-> [pc |-> "idle", seen |-> 0, at |-> 0]] /\ passed = [t \in 0..MaxNow |-> 0]
  BY DEF Quota!Init, Quota!AtRest
<1>2. Quota!Never \in Nat
  BY QuotaAssumption DEF Quota!Never
<1>0. MaxSends \in Nat /\ MaxMessages \in Nat /\ Window \in Nat /\ MaxNow \in Nat
  BY QuotaAssumption
<1>3. QuotaType
  <2>1. [pc |-> "idle", seen |-> 0, at |-> 0] \in QuotaCall
    BY <1>0 DEF QuotaCall
  <2>2. check \in [Handlers -> QuotaCall] /\ \A h \in Handlers : check[h].at = 0
    BY <1>1, <2>1
  <2>3. passed \in [0..MaxNow -> Nat] /\ \A t \in 0..MaxNow : passed[t] = 0
    BY <1>1
  <2>4. count \in Nat /\ sends \in 0..MaxSends /\ count <= sends /\ expiresAt \in 0..Quota!Never /\ now \in 0..MaxNow
    BY <1>0, <1>1, <1>2
  <2>5. \A h \in Handlers : check[h].at <= now
    BY <1>1, <2>2
  <2>6. unexpiring \in BOOLEAN
    BY <1>1
  <2> QED BY <2>2, <2>3, <2>4, <2>5, <2>6 DEF QuotaType
<1>4. PICK e \in [0..MaxNow -> Nat] : e = [t \in 0..MaxNow |-> 0]
  OBVIOUS
<1>5. \A k : PassedOf(e, k) = {} /\ Pending(e, k) = {}
  <2>1. \A t \in 0..now : 1..passed[t] = {}
    BY <1>1, QuotaAssumption
  <2>2. \A h \in Handlers : check[h].pc = "idle"
    BY <1>1
  <2>3. \A k, t : t \in 0..now => {t} \X (1..passed[t]) = {}
    BY <2>1
  <2> QED BY <2>2, <2>3 DEF PassedOf, Pending
<1>6. Lives(e)
  <2>1. \A t \in 0..now : e[t] = 0
    BY <1>0, <1>1, <1>4
  <2>2. \A k : IsFiniteSet(PassedOf(e, k)) /\ Cardinality(PassedOf(e, k)) = 0 /\ Cardinality(Pending(e, k)) = 0
    BY <1>5, FS_EmptySet
  <2> QED BY <1>0, <1>1, <2>1, <2>2 DEF Lives
<1> QED BY <1>1, <1>3, <1>6 DEF QuotaInv, KeyFits

LEMMA QuotaFacts == QuotaInv => Quota!TypeOK /\ Quota!QuotaHolds
<1> SUFFICES ASSUME QuotaInv PROVE Quota!TypeOK /\ Quota!QuotaHolds
  OBVIOUS
<1>1. QuotaType /\ KeyFits
  BY DEF QuotaInv
<1>2. PICK e \in [0..MaxNow -> Nat] : Lives(e)
  BY DEF QuotaInv
<1>3. Quota!TypeOK
  BY <1>1, QuotaAssumption DEF QuotaType, QuotaCall, Quota!TypeOK
<1>4. ASSUME NEW t \in 0..MaxNow, t + Window <= MaxNow + 1
      PROVE  Cardinality(Quota!PassedIn(t, t + Window)) <= 2 * MaxMessages
  <2> DEFINE W == Quota!PassedIn(t, t + Window)
  <2>1. PICK k \in Nat : k = e[t]
    OBVIOUS
  <2>2. W \subseteq PassedOf(e, k) \cup PassedOf(e, k + 1)
    <3> SUFFICES ASSUME NEW x \in W PROVE x \in PassedOf(e, k) \cup PassedOf(e, k + 1)
      OBVIOUS
    <3>1. PICK s \in t..(t + Window) - 1 : x \in {s} \X (1..passed[s])
      <4>1. \A from, to : Quota!PassedIn(from, to) = UNION {{s} \X (1..passed[s]) : s \in from..to - 1}
        BY DEF Quota!PassedIn
      <4>2. x \in UNION {{s} \X (1..passed[s]) : s \in t..(t + Window) - 1}
        BY <4>1
      <4>3. PICK S \in {{s} \X (1..passed[s]) : s \in t..(t + Window) - 1} : x \in S
        BY <4>2
      <4>4. PICK s \in t..(t + Window) - 1 : S = {s} \X (1..passed[s])
        BY <4>3
      <4> QED BY <4>3, <4>4
    <3>2. s \in 0..MaxNow /\ s \in Nat /\ t <= s /\ ~(t + Window < s)
      BY <1>4, QuotaAssumption
    <3>3. passed[s] # 0
      BY <3>1
    <3>4. s \in 0..now /\ t \in 0..now
      BY <1>1, <3>2, <3>3 DEF QuotaType
    <3>5. e[s] = k \/ e[s] = k + 1
      BY <1>2, <2>1, <3>2, <3>4 DEF Lives
    <3> QED BY <3>1, <3>4, <3>5 DEF PassedOf
  <2>3. ASSUME NEW j \in Nat
        PROVE  IsFiniteSet(PassedOf(e, j)) /\ Cardinality(PassedOf(e, j)) \in Nat /\ Cardinality(PassedOf(e, j)) <= MaxMessages
    <3>1. IsFiniteSet(PassedOf(e, j)) /\ Cardinality(PassedOf(e, j)) + Cardinality(Pending(e, j)) <= MaxMessages
      BY <1>2 DEF Lives
    <3>2. Cardinality(PassedOf(e, j)) \in Nat /\ Cardinality(Pending(e, j)) \in Nat
      BY <3>1, FS_CardinalityType, PendingFinite
    <3> QED BY <3>1, <3>2, QuotaAssumption
  <2> DEFINE A == PassedOf(e, k)
             B == PassedOf(e, k + 1)
  <2>4. IsFiniteSet(A) /\ IsFiniteSet(B) /\ Cardinality(A) \in Nat /\ Cardinality(B) \in Nat
        /\ Cardinality(A) <= MaxMessages /\ Cardinality(B) <= MaxMessages
    BY <2>1, <2>3
  <2> HIDE DEF A, B, W
  <2>5. IsFiniteSet(A \cup B) /\ Cardinality(A \cup B) = Cardinality(A) + Cardinality(B) - Cardinality(A \cap B)
    BY <2>4, FS_Union
  <2>6. IsFiniteSet(A \cap B) /\ Cardinality(A \cap B) \in Nat
    <3>1. A \cap B \in SUBSET A
      OBVIOUS
    <3> QED BY <2>4, <3>1, FS_Subset, FS_CardinalityType
  <2>7. W \in SUBSET (A \cup B)
    BY <2>2 DEF A, B
  <2>8. Cardinality(W) <= Cardinality(A \cup B) /\ Cardinality(W) \in Nat
    BY <2>5, <2>7, FS_Subset, FS_CardinalityType
  <2>9. Cardinality(W) <= 2 * MaxMessages
    BY <2>4, <2>5, <2>6, <2>8, QuotaAssumption
  <2> QED BY <2>9 DEF W
<1>5. Quota!QuotaHolds
  BY <1>1, <1>4, QuotaCardinality DEF Quota!QuotaHolds, Quota!Windows, KeyFits
<1> QED BY <1>3, <1>5

\* The two ways in which the checks that may pass change.
LEMMA FewerPending ==
  ASSUME QuotaType, NEW e \in [0..MaxNow -> Nat], Lives(e), NEW n \in Nat, count <= n, n = count', now' = now, passed' = passed,
         e[now] \in Nat,
         \A t \in 0..now : e[t] < e[now] => t + Window < expiresAt',
         \A k \in Nat : Pending(e, k)' \subseteq Pending(e, k)
  PROVE  Lives(e)'
<1>1. \A k : PassedOf(e, k)' = PassedOf(e, k)
  BY DEF PassedOf
<1>2. ASSUME NEW k \in Nat
      PROVE  /\ Cardinality(PassedOf(e, k)) \in Nat /\ Cardinality(Pending(e, k)) \in Nat
             /\ Cardinality(Pending(e, k)') \in Nat /\ Cardinality(Pending(e, k)') <= Cardinality(Pending(e, k))
  BY PendingFinite, FS_CardinalityType DEF Lives
<1>3. ASSUME NEW k \in Nat
      PROVE  IsFiniteSet(PassedOf(e, k)') /\ Cardinality(PassedOf(e, k)') + Cardinality(Pending(e, k)') <= MaxMessages
  <2>1. IsFiniteSet(PassedOf(e, k)) /\ Cardinality(PassedOf(e, k)) + Cardinality(Pending(e, k)) <= MaxMessages
    BY DEF Lives
  <2>2. PassedOf(e, k)' = PassedOf(e, k) /\ MaxMessages \in Nat
    BY <1>1, QuotaAssumption
  <2> QED BY <1>2, <2>1, <2>2
<1>4. PICK k \in Nat : k = e[now]
  OBVIOUS
<1>5. Cardinality(PassedOf(e, k)') + Cardinality(Pending(e, k)') <= count' /\ k = e[now']
  <2>1. Cardinality(PassedOf(e, k)) + Cardinality(Pending(e, k)) <= count /\ count \in Nat
    BY <1>4 DEF Lives, QuotaType
  <2>2. PassedOf(e, k)' = PassedOf(e, k) /\ k = e[now']
    BY <1>1, <1>4
  <2>3. count' = n /\ count <= n /\ n \in Nat
    OBVIOUS
  <2>4. /\ Cardinality(PassedOf(e, k)) \in Nat /\ Cardinality(Pending(e, k)) \in Nat
        /\ Cardinality(Pending(e, k)') \in Nat /\ Cardinality(Pending(e, k)') <= Cardinality(Pending(e, k))
    BY <1>2
  <2>5. Cardinality(PassedOf(e, k)) + Cardinality(Pending(e, k)') <= n
    BY <2>1, <2>3, <2>4
  <2> QED BY <2>2, <2>3, <2>5
<1>6. /\ \A s, t \in 0..now' : s <= t => e[s] <= e[t]
      /\ \A s, t \in 0..now' : e[s] + 1 < e[t] => s + Window < t
      /\ \A t \in 0..now' : e[t] < e[now'] => t + Window < expiresAt'
  BY DEF Lives
<1> QED BY <1>3, <1>5, <1>6 DEF Lives
LEMMA QuotaConstants == MaxSends \in Nat /\ MaxMessages \in Nat /\ Window \in Nat /\ MaxNow \in Nat /\ Quota!Never \in Nat
BY QuotaAssumption DEF Quota!Never

LEMMA LivesFacts ==
  ASSUME QuotaType, NEW e \in [0..MaxNow -> Nat], Lives(e), NEW k \in Nat
  PROVE  /\ IsFiniteSet(PassedOf(e, k)) /\ Cardinality(PassedOf(e, k)) \in Nat
         /\ IsFiniteSet(Pending(e, k)) /\ Cardinality(Pending(e, k)) \in Nat
         /\ Cardinality(PassedOf(e, k)) + Cardinality(Pending(e, k)) <= MaxMessages
         /\ k = e[now] => Cardinality(PassedOf(e, k)) + Cardinality(Pending(e, k)) <= count
BY PendingFinite, FS_CardinalityType DEF Lives

\* A send is counted, by a handler that may then let it pass or must not.
LEMMA QuotaIncr ==
  ASSUME QuotaInv, NEW h \in Handlers, Quota!Incr(h)
  PROVE  QuotaInv'
<1>1. QuotaType /\ KeyFits
  BY DEF QuotaInv
<1>2. PICK e \in [0..MaxNow -> Nat] : Lives(e)
  BY DEF QuotaInv
<1>3. /\ check[h].pc = "idle" /\ sends < MaxSends /\ sends' = sends + 1
      /\ expiresAt' = expiresAt /\ now' = now
  BY DEF Quota!Incr
<1>4. passed' = passed /\ count' \in {count, count + 1} /\ count' \in Nat /\ count \in Nat /\ count' <= sends' /\ count <= count'
      /\ sends \in 0..MaxSends
  BY <1>1, <1>3 DEF Quota!Incr, Quota!FailsOpen, QuotaType
<1>5. now \in 0..MaxNow /\ now \in Nat /\ e[now] \in Nat /\ check \in [Handlers -> QuotaCall]
  BY <1>1, <1>2, QuotaConstants DEF QuotaType
<1>6. PICK c \in QuotaCall : check' = [check EXCEPT ![h] = c] /\ c.at <= now
                          /\ \/ /\ count' = count + 1 /\ c.seen = count' /\ c.at = now /\ unexpiring' = unexpiring
                                /\ c.pc = IF count' = 1 THEN "expire" ELSE "ttl"
                             \/ c.pc = "idle" /\ unexpiring' = (unexpiring \/ (count = 0 /\ count' = 1))
  <2>1. CASE count' = count + 1 /\ check' = [check EXCEPT ![h] = [pc |-> IF count' = 1 THEN "expire" ELSE "ttl", seen |-> count', at |-> now]]
             /\ unexpiring' = unexpiring
    <3>1. PICK c : c = [pc |-> IF count' = 1 THEN "expire" ELSE "ttl", seen |-> count', at |-> now]
      OBVIOUS
    <3>2. c \in QuotaCall
      BY <1>4, <1>5, <3>1 DEF QuotaCall
    <3>3. c.at = now /\ c.seen = count' /\ c.pc = IF count' = 1 THEN "expire" ELSE "ttl"
      BY <3>1
    <3>4. check' = [check EXCEPT ![h] = c] /\ now <= now
      BY <1>5, <2>1, <3>1
    <3> QED BY <2>1, <3>2, <3>3, <3>4
  <2>2. CASE check' = [check EXCEPT ![h] = Quota!AtRest] /\ unexpiring' = (unexpiring \/ (count = 0 /\ count' = 1))
    <3>1. Quota!AtRest \in QuotaCall /\ Quota!AtRest.pc = "idle" /\ Quota!AtRest.at = 0
      BY QuotaConstants DEF QuotaCall, Quota!AtRest
    <3>2. Quota!AtRest.at <= now
      BY <1>5, <3>1
    <3> QED BY <2>2, <3>1, <3>2
  <2> QED BY <2>1, <2>2 DEF Quota!Incr, Quota!FailsOpen
<1>7. check' \in [Handlers -> QuotaCall] /\ check'[h] = c /\ \A g \in Handlers \ {h} : check'[g] = check[g]
  BY <1>5, <1>6
<1>8. QuotaType'
  <2>1. \A g \in Handlers : check'[g].at <= now'
    BY <1>1, <1>3, <1>6, <1>7 DEF QuotaType
  <2>2. unexpiring' \in BOOLEAN
    BY <1>1, <1>6 DEF QuotaType
  <2>3. sends' \in 0..MaxSends
    BY <1>3, <1>4, QuotaConstants
  <2>4. passed' \in [0..MaxNow -> Nat] /\ (\A t \in 0..MaxNow : t > now' => passed'[t] = 0)
        /\ expiresAt' \in 0..Quota!Never /\ now' \in 0..MaxNow
    BY <1>1, <1>3, <1>4 DEF QuotaType
  <2>5. Quota!Never' = Quota!Never
    BY DEF Quota!Never
  <2> QED BY <1>4, <1>7, <2>1, <2>2, <2>3, <2>4, <2>5 DEF QuotaType
<1>9. KeyFits'
  <2> SUFFICES ASSUME count' > 0, expiresAt' = Quota!Never, ~unexpiring'
               PROVE  \E g \in Handlers : check'[g].pc = "expire"
    BY DEF KeyFits, Quota!Never
  <2>1. CASE count = 0
    <3>1. count' = 1
      BY <1>4, <2>1
    <3> QED BY <1>6, <1>7, <2>1, <3>1
  <2>2. CASE count > 0
    <3>1. ~unexpiring
      BY <1>6
    <3>2. PICK g \in Handlers : check[g].pc = "expire"
      BY <1>1, <1>3, <2>2, <3>1 DEF KeyFits
    <3> QED BY <1>3, <1>7, <3>2
  <2> QED BY <1>4, <2>1, <2>2
<1>10. PICK k \in Nat : k = e[now]
  BY <1>5
<1>11. PICK n \in Nat : n = count'
  BY <1>4
<1>12. \A j \in Nat : /\ Pending(e, j)' \subseteq Pending(e, j) \cup {h}
                      /\ h \in Pending(e, j)' => j = k /\ n = count + 1 /\ n <= MaxMessages
  BY <1>4, <1>6, <1>7, <1>10, <1>11 DEF Pending
<1>13. \A t \in 0..now : e[t] < e[now] => t + Window < expiresAt'
  BY <1>2, <1>3 DEF Lives
<1>14. CASE h \notin Pending(e, k)'
  <2>1. \A j \in Nat : Pending(e, j)' \subseteq Pending(e, j)
    BY <1>12, <1>14
  <2>2. Lives(e)'
    BY <1>1, <1>2, <1>3, <1>4, <1>5, <1>11, <1>13, <2>1, FewerPending
  <2> QED BY <1>8, <1>9, <2>2 DEF QuotaInv
<1>15. CASE h \in Pending(e, k)'
  <2>1. \A j : PassedOf(e, j)' = PassedOf(e, j)
    BY <1>3, <1>4 DEF PassedOf
  <2>2. \A j \in Nat \ {k} : Pending(e, j)' \subseteq Pending(e, j)
    BY <1>12
  <2>3. n = count + 1 /\ n <= MaxMessages
    BY <1>12, <1>15
  <2>4. IsFiniteSet(Pending(e, k)') /\ Cardinality(Pending(e, k)') \in Nat /\ Cardinality(Pending(e, k)') <= Cardinality(Pending(e, k)) + 1
    <3> DEFINE S == Pending(e, k)
               T == Pending(e, k)'
    <3>1. IsFiniteSet(S) /\ Cardinality(S) \in Nat
      BY PendingFinite
    <3>2. T \in SUBSET (S \cup {h})
      BY <1>12
    <3> HIDE DEF S, T
    <3>6. IsFiniteSet(S \cup {h}) /\ (Cardinality(S \cup {h}) = Cardinality(S) \/ Cardinality(S \cup {h}) = Cardinality(S) + 1)
      BY <3>1, FS_AddElement
    <3>3. IsFiniteSet(S \cup {h}) /\ Cardinality(S \cup {h}) \in Nat /\ Cardinality(S \cup {h}) <= Cardinality(S) + 1
      BY <3>1, <3>6
    <3>4. IsFiniteSet(T) /\ Cardinality(T) <= Cardinality(S \cup {h}) /\ Cardinality(T) \in Nat
      BY <3>2, <3>3, FS_Subset, FS_CardinalityType
    <3>5. Cardinality(T) <= Cardinality(S) + 1
      BY <3>1, <3>3, <3>4
    <3> QED BY <3>4, <3>5 DEF S, T
  <2>5. Cardinality(PassedOf(e, k)) \in Nat /\ Cardinality(Pending(e, k)) \in Nat
        /\ Cardinality(PassedOf(e, k)) + Cardinality(Pending(e, k)) <= count
    BY <1>1, <1>2, <1>10, LivesFacts
  <2>6. Cardinality(PassedOf(e, k)') + Cardinality(Pending(e, k)') <= n
    <3>1. Cardinality(PassedOf(e, k)') = Cardinality(PassedOf(e, k))
      BY <2>1
    <3> QED BY <1>4, <2>3, <2>4, <2>5, <3>1
  <2>7. ASSUME NEW j \in Nat
        PROVE  IsFiniteSet(PassedOf(e, j)') /\ Cardinality(PassedOf(e, j)') + Cardinality(Pending(e, j)') <= MaxMessages
    <3>1. IsFiniteSet(PassedOf(e, j)') /\ Cardinality(PassedOf(e, j)') = Cardinality(PassedOf(e, j)) /\ Cardinality(PassedOf(e, j)) \in Nat
      BY <1>1, <1>2, <2>1, LivesFacts
    <3>2. CASE j = k
      BY <2>3, <2>4, <2>5, <2>6, <3>1, <3>2, QuotaConstants
    <3>3. CASE j # k
      <4>1. Pending(e, j)' \in SUBSET Pending(e, j)
        BY <2>2, <3>3
      <4>2. Cardinality(Pending(e, j)') <= Cardinality(Pending(e, j)) /\ Cardinality(Pending(e, j)') \in Nat
        BY <4>1, PendingFinite
      <4>3. Cardinality(PassedOf(e, j)) + Cardinality(Pending(e, j)) <= MaxMessages /\ Cardinality(Pending(e, j)) \in Nat
        BY <1>1, <1>2, LivesFacts
      <4> QED BY <3>1, <4>2, <4>3, QuotaConstants
    <3> QED BY <3>2, <3>3
  <2>8. Cardinality(PassedOf(e, k)') + Cardinality(Pending(e, k)') <= count' /\ k = e[now']
    BY <1>3, <1>10, <1>11, <2>6
  <2>9. /\ \A s, t \in 0..now' : s <= t => e[s] <= e[t]
        /\ \A s, t \in 0..now' : e[s] + 1 < e[t] => s + Window < t
        /\ \A t \in 0..now' : e[t] < e[now'] => t + Window < expiresAt'
    BY <1>2, <1>3 DEF Lives
  <2>10. Lives(e)'
    BY <2>7, <2>8, <2>9 DEF Lives
  <2> QED BY <1>8, <1>9, <2>10 DEF QuotaInv
<1> QED BY <1>14, <1>15

\* The key gets its time to live, which no window of an earlier life reaches.
LEMMA QuotaExpire ==
  ASSUME QuotaInv, NEW h \in Handlers, Quota!Expire(h)
  PROVE  QuotaInv'
<1>1. QuotaType /\ KeyFits
  BY DEF QuotaInv
<1>2. PICK e \in [0..MaxNow -> Nat] : Lives(e)
  BY DEF QuotaInv
<1>3. check[h].pc = "expire" /\ count' = count /\ sends' = sends /\ now' = now /\ passed' = passed
  BY DEF Quota!Expire, Quota!FailsOpen
<1>5. now \in 0..MaxNow /\ now \in Nat /\ e[now] \in Nat /\ check \in [Handlers -> QuotaCall] /\ count \in Nat
      /\ expiresAt \in 0..Quota!Never /\ unexpiring \in BOOLEAN
  BY <1>1, <1>2, QuotaConstants DEF QuotaType
<1>6. PICK c \in QuotaCall : check' = [check EXCEPT ![h] = c] /\ c.at <= now
                          /\ (c.pc = "idle" \/ (c.seen = check[h].seen /\ c.at = check[h].at))
  <2>1. CASE check' = [check EXCEPT ![h].pc = "ttl"]
    <3>1. PICK c : c = [check[h] EXCEPT !.pc = "ttl"]
      OBVIOUS
    <3>2. c \in QuotaCall /\ c.seen = check[h].seen /\ c.at = check[h].at
      BY <1>5, <3>1 DEF QuotaCall
    <3>3. check' = [check EXCEPT ![h] = c]
      BY <1>5, <2>1, <3>1
    <3>4. check[h].at <= now
      BY <1>1 DEF QuotaType
    <3> QED BY <3>2, <3>3, <3>4
  <2>2. CASE check' = [check EXCEPT ![h] = Quota!AtRest]
    <3>1. Quota!AtRest \in QuotaCall /\ Quota!AtRest.pc = "idle" /\ Quota!AtRest.at = 0
      BY QuotaConstants DEF QuotaCall, Quota!AtRest
    <3>2. Quota!AtRest.at <= now
      BY <1>5, <3>1
    <3> QED BY <2>2, <3>1, <3>2
  <2> QED BY <2>1, <2>2 DEF Quota!Expire, Quota!FailsOpen
<1>7. check' \in [Handlers -> QuotaCall] /\ check'[h] = c /\ \A g \in Handlers \ {h} : check'[g] = check[g]
  BY <1>5, <1>6
<1>8. (expiresAt' = now + Window /\ unexpiring' = unexpiring) \/ (expiresAt' = expiresAt /\ unexpiring' = TRUE)
  BY DEF Quota!Expire, Quota!FailsOpen
<1>9. expiresAt' \in 0..Quota!Never /\ unexpiring' \in BOOLEAN /\ (expiresAt' = Quota!Never => unexpiring')
  <2>1. CASE expiresAt' = now + Window /\ unexpiring' = unexpiring
    <3>1. expiresAt' \in 0..Quota!Never /\ expiresAt' # Quota!Never
      BY <1>5, <2>1, QuotaConstants DEF Quota!Never
    <3> QED BY <1>5, <2>1, <3>1
  <2>2. CASE expiresAt' = expiresAt /\ unexpiring' = TRUE
    BY <1>5, <2>2
  <2> QED BY <1>8, <2>1, <2>2
<1>10. QuotaType'
  <2>1. \A g \in Handlers : check'[g].at <= now'
    BY <1>1, <1>3, <1>6, <1>7 DEF QuotaType
  <2>2. Quota!Never' = Quota!Never
    BY DEF Quota!Never
  <2>3. count' \in Nat /\ sends' \in 0..MaxSends /\ count' <= sends' /\ now' \in 0..MaxNow
        /\ passed' \in [0..MaxNow -> Nat] /\ (\A t \in 0..MaxNow : t > now' => passed'[t] = 0)
    BY <1>1, <1>3 DEF QuotaType
  <2> QED BY <1>7, <1>9, <2>1, <2>2, <2>3 DEF QuotaType
<1>11. KeyFits'
  BY <1>9 DEF KeyFits, Quota!Never
<1>12. \A t \in 0..now : e[t] < e[now] => t + Window < expiresAt'
  <2> SUFFICES ASSUME NEW t \in 0..now, e[t] < e[now] PROVE t + Window < expiresAt'
    OBVIOUS
  <2>1. t + Window < expiresAt
    BY <1>2 DEF Lives
  <2>2. t # now
    BY <1>5
  <2>3. t < now
    BY <1>5, <2>2
  <2> QED BY <1>5, <1>8, <2>1, <2>3, QuotaConstants
<1>13. \A j \in Nat : Pending(e, j)' \subseteq Pending(e, j)
  BY <1>3, <1>6, <1>7 DEF Pending
<1>14. PICK n \in Nat : n = count'
  BY <1>3, <1>5
<1>15. count <= n
  BY <1>3, <1>5, <1>14
<1>16. Lives(e)'
  BY <1>1, <1>2, <1>3, <1>5, <1>12, <1>13, <1>14, <1>15, FewerPending
<1> QED BY <1>10, <1>11, <1>16 DEF QuotaInv
\* The handler that passes leaves what may still pass and joins what has passed.
LEMMA QuotaDecide ==
  ASSUME QuotaInv, NEW h \in Handlers, Quota!Decide(h)
  PROVE  QuotaInv'
<1>1. QuotaType /\ KeyFits
  BY DEF QuotaInv
<1>2. PICK e \in [0..MaxNow -> Nat] : Lives(e)
  BY DEF QuotaInv
<1>3. /\ check[h].pc = "ttl" /\ count' = count /\ sends' = sends /\ now' = now /\ expiresAt' = expiresAt
      /\ unexpiring' = unexpiring /\ check' = [check EXCEPT ![h] = Quota!AtRest]
      /\ passed' = passed \/ (check[h].seen <= MaxMessages /\ passed' = [passed EXCEPT ![check[h].at] = @ + 1])
  <2>1. check[h].seen \in Nat
    BY <1>1 DEF QuotaType, QuotaCall
  <2>2. passed' = passed \/ (~(check[h].seen > MaxMessages) /\ passed' = [passed EXCEPT ![check[h].at] = @ + 1])
    BY DEF Quota!Decide, Quota!FailsOpen
  <2>3. ~(check[h].seen > MaxMessages) => check[h].seen <= MaxMessages
    BY <2>1, QuotaConstants
  <2>4. /\ check[h].pc = "ttl" /\ count' = count /\ sends' = sends /\ now' = now /\ expiresAt' = expiresAt
        /\ unexpiring' = unexpiring /\ check' = [check EXCEPT ![h] = Quota!AtRest]
    BY DEF Quota!Decide, Quota!FailsOpen
  <2> QED BY <2>2, <2>3, <2>4
<1>4. PICK s \in 0..MaxNow : s = check[h].at /\ s <= now
  BY <1>1 DEF QuotaType, QuotaCall
<1>5. now \in 0..MaxNow /\ now \in Nat /\ e[now] \in Nat /\ check \in [Handlers -> QuotaCall] /\ count \in Nat
      /\ passed \in [0..MaxNow -> Nat] /\ s \in 0..now
  BY <1>1, <1>2, <1>4, QuotaConstants DEF QuotaType
<1>6. Quota!AtRest \in QuotaCall /\ Quota!AtRest.pc = "idle" /\ Quota!AtRest.at = 0
  BY QuotaConstants DEF QuotaCall, Quota!AtRest
<1>7. check' \in [Handlers -> QuotaCall] /\ check'[h] = Quota!AtRest /\ \A g \in Handlers \ {h} : check'[g] = check[g]
  BY <1>3, <1>5, <1>6
<1>8. passed' = passed \/ (check[h].seen <= MaxMessages /\ passed' = [passed EXCEPT ![s] = passed[s] + 1])
  BY <1>3, <1>4
<1>9. passed' \in [0..MaxNow -> Nat] /\ \A t \in 0..MaxNow : t # s => passed'[t] = passed[t]
  <2>1. passed[s] + 1 \in Nat
    BY <1>4, <1>5
  <2> QED BY <1>5, <1>8, <2>1
<1>10. QuotaType'
  <2>1. \A g \in Handlers : check'[g].at <= now'
    <3>1. 0 <= now
      BY <1>5
    <3> QED BY <1>1, <1>3, <1>6, <1>7, <3>1 DEF QuotaType
  <2>2. \A t \in 0..MaxNow : t > now' => passed'[t] = 0
    <3>1. \A t \in 0..MaxNow : t > now => t # s
      BY <1>4, <1>5
    <3> QED BY <1>1, <1>3, <1>9, <3>1 DEF QuotaType
  <2>3. Quota!Never' = Quota!Never
    BY DEF Quota!Never
  <2>4. count' \in Nat /\ sends' \in 0..MaxSends /\ count' <= sends' /\ now' \in 0..MaxNow
        /\ expiresAt' \in 0..Quota!Never /\ unexpiring' \in BOOLEAN
    BY <1>1, <1>3 DEF QuotaType
  <2> QED BY <1>7, <1>9, <2>1, <2>2, <2>3, <2>4 DEF QuotaType
<1>11. KeyFits'
  <2> SUFFICES ASSUME count' > 0, expiresAt' = Quota!Never, ~unexpiring'
               PROVE  \E g \in Handlers : check'[g].pc = "expire"
    BY DEF KeyFits, Quota!Never
  <2>1. PICK g \in Handlers : check[g].pc = "expire"
    BY <1>1, <1>3 DEF KeyFits
  <2> QED BY <1>3, <1>7, <2>1
<1>12. \A j \in Nat : Pending(e, j)' \subseteq Pending(e, j) \ {h}
  BY <1>6, <1>7 DEF Pending
<1>13. CASE passed' = passed
  <2>1. \A j \in Nat : Pending(e, j)' \subseteq Pending(e, j)
    BY <1>12
  <2>2. PICK n \in Nat : n = count'
    BY <1>3, <1>5
  <2>3. count <= n
    BY <1>3, <1>5, <2>2
  <2>4. \A t \in 0..now : e[t] < e[now] => t + Window < expiresAt'
    BY <1>2, <1>3 DEF Lives
  <2>5. Lives(e)'
    BY <1>1, <1>2, <1>3, <1>5, <1>13, <2>1, <2>2, <2>3, <2>4, FewerPending
  <2> QED BY <1>10, <1>11, <2>5 DEF QuotaInv
<1>14. CASE check[h].seen <= MaxMessages /\ passed' = [passed EXCEPT ![s] = passed[s] + 1]
  <2>1. PICK k \in Nat : k = e[s]
    BY <1>5
  <2>2. PICK x : x = <<s, passed[s] + 1>>
    OBVIOUS
  <2>3. passed'[s] = passed[s] + 1 /\ passed[s] \in Nat
    BY <1>5, <1>14
  <2>4. 1..passed'[s] = (1..passed[s]) \cup {passed[s] + 1}
    BY <2>3
  <2>5. {s} \X (1..passed'[s]) = ({s} \X (1..passed[s])) \cup {x}
    BY <2>2, <2>4
  <2>6. \A t \in 0..now : t # s => {t} \X (1..passed'[t]) = {t} \X (1..passed[t])
    BY <1>5, <1>9, QuotaConstants
  <2>7. \A j : PassedOf(e, j) = UNION {{t} \X (1..passed[t]) : t \in {t \in 0..now : e[t] = j}}
    BY DEF PassedOf
  <2>8. \A j : PassedOf(e, j)' = UNION {{t} \X (1..passed'[t]) : t \in {t \in 0..now : e[t] = j}}
    BY <1>3 DEF PassedOf
  <2>9. \A j : j # k => PassedOf(e, j)' \subseteq PassedOf(e, j)
    BY <2>1, <2>6, <2>7, <2>8
  <2>10. PassedOf(e, k)' \subseteq PassedOf(e, k) \cup {x}
    <3> SUFFICES ASSUME NEW y, y \in PassedOf(e, k)' PROVE y \in PassedOf(e, k) \cup {x}
      OBVIOUS
    <3>1. PICK t \in 0..now : e[t] = k /\ y \in {t} \X (1..passed'[t])
      <4>1. PICK S \in {{t} \X (1..passed'[t]) : t \in {t \in 0..now : e[t] = k}} : y \in S
        BY <2>8
      <4>2. PICK t \in {t \in 0..now : e[t] = k} : S = {t} \X (1..passed'[t])
        BY <4>1
      <4> QED BY <4>1, <4>2
    <3>2. t = s => y \in ({s} \X (1..passed[s])) \cup {x}
      BY <2>5, <3>1
    <3>3. y \in ({t} \X (1..passed[t])) \cup {x}
      BY <2>6, <3>1, <3>2
    <3> QED BY <2>7, <3>1, <3>3
  <2>11. h \in Pending(e, k)
    BY <1>3, <1>4, <1>14, <2>1 DEF Pending
  <2>12. ASSUME NEW j \in Nat
         PROVE  /\ IsFiniteSet(PassedOf(e, j)') /\ Cardinality(PassedOf(e, j)') \in Nat
                /\ Cardinality(Pending(e, j)') \in Nat
                /\ Cardinality(PassedOf(e, j)') + Cardinality(Pending(e, j)') <= Cardinality(PassedOf(e, j)) + Cardinality(Pending(e, j))
    <3> DEFINE A == PassedOf(e, j)
               B == PassedOf(e, j)'
               S == Pending(e, j)
               T == Pending(e, j)'
    <3>1. IsFiniteSet(A) /\ Cardinality(A) \in Nat /\ IsFiniteSet(S) /\ Cardinality(S) \in Nat
      BY <1>1, <1>2, LivesFacts
    <3>2. CASE j = k
      <4>1. B \in SUBSET (A \cup {x}) /\ T \in SUBSET (S \ {h}) /\ h \in S
        BY <1>12, <2>10, <2>11, <3>2
      <4> HIDE DEF A, B, S, T
      <4>2. IsFiniteSet(A \cup {x}) /\ (Cardinality(A \cup {x}) = Cardinality(A) \/ Cardinality(A \cup {x}) = Cardinality(A) + 1)
        BY <3>1, FS_AddElement
      <4>3. IsFiniteSet(B) /\ Cardinality(B) \in Nat /\ Cardinality(B) <= Cardinality(A \cup {x})
        BY <4>1, <4>2, FS_Subset, FS_CardinalityType
      <4>4. IsFiniteSet(S \ {h}) /\ Cardinality(S \ {h}) = Cardinality(S) - 1
        BY <3>1, <4>1, FS_RemoveElement
      <4>5. Cardinality(T) \in Nat /\ Cardinality(T) <= Cardinality(S \ {h})
        BY <4>1, <4>4, FS_Subset, FS_CardinalityType
      <4>6. Cardinality(B) + Cardinality(T) <= Cardinality(A) + Cardinality(S)
        BY <3>1, <4>2, <4>3, <4>4, <4>5
      <4> QED BY <4>3, <4>5, <4>6 DEF A, B, S, T
    <3>3. CASE j # k
      <4>1. B \in SUBSET A /\ T \in SUBSET S
        BY <1>12, <2>9, <3>3
      <4> HIDE DEF A, B, S, T
      <4>2. IsFiniteSet(B) /\ Cardinality(B) \in Nat /\ Cardinality(B) <= Cardinality(A)
        BY <3>1, <4>1, FS_Subset, FS_CardinalityType
      <4>3. Cardinality(T) \in Nat /\ Cardinality(T) <= Cardinality(S)
        BY <3>1, <4>1, FS_Subset, FS_CardinalityType
      <4>6. Cardinality(B) + Cardinality(T) <= Cardinality(A) + Cardinality(S)
        BY <3>1, <4>2, <4>3
      <4> QED BY <4>2, <4>3, <4>6 DEF A, B, S, T
    <3> QED BY <3>2, <3>3
  <2>13. ASSUME NEW j \in Nat
         PROVE  IsFiniteSet(PassedOf(e, j)') /\ Cardinality(PassedOf(e, j)') + Cardinality(Pending(e, j)') <= MaxMessages
    <3>1. Cardinality(PassedOf(e, j)) + Cardinality(Pending(e, j)) <= MaxMessages /\ Cardinality(PassedOf(e, j)) \in Nat
          /\ Cardinality(Pending(e, j)) \in Nat
      BY <1>1, <1>2, LivesFacts
    <3>2. /\ IsFiniteSet(PassedOf(e, j)') /\ Cardinality(PassedOf(e, j)') \in Nat /\ Cardinality(Pending(e, j)') \in Nat
          /\ Cardinality(PassedOf(e, j)') + Cardinality(Pending(e, j)') <= Cardinality(PassedOf(e, j)) + Cardinality(Pending(e, j))
      BY <2>12
    <3>3. Cardinality(PassedOf(e, j)') + Cardinality(Pending(e, j)') <= MaxMessages
      BY <3>1, <3>2, QuotaConstants
    <3> QED BY <3>2, <3>3
  <2>14. PICK i \in Nat : i = e[now]
    BY <1>5
  <2>15. Cardinality(PassedOf(e, i)') + Cardinality(Pending(e, i)') <= count' /\ i = e[now']
    <3>1. Cardinality(PassedOf(e, i)) + Cardinality(Pending(e, i)) <= count /\ Cardinality(PassedOf(e, i)) \in Nat
          /\ Cardinality(Pending(e, i)) \in Nat
      BY <1>1, <1>2, <2>14, LivesFacts
    <3>3. /\ Cardinality(PassedOf(e, i)') \in Nat /\ Cardinality(Pending(e, i)') \in Nat
          /\ Cardinality(PassedOf(e, i)') + Cardinality(Pending(e, i)') <= Cardinality(PassedOf(e, i)) + Cardinality(Pending(e, i))
      BY <2>12
    <3>4. count \in Nat
      BY <1>5
    <3>2. Cardinality(PassedOf(e, i)') + Cardinality(Pending(e, i)') <= count
      BY <3>1, <3>3, <3>4
    <3> QED BY <1>3, <2>14, <3>2
  <2>16. /\ \A a, t \in 0..now' : a <= t => e[a] <= e[t]
         /\ \A a, t \in 0..now' : e[a] + 1 < e[t] => a + Window < t
         /\ \A t \in 0..now' : e[t] < e[now'] => t + Window < expiresAt'
    BY <1>2, <1>3 DEF Lives
  <2>17. Lives(e)'
    BY <2>13, <2>15, <2>16 DEF Lives
  <2> QED BY <1>10, <1>11, <2>17 DEF QuotaInv
<1> QED BY <1>8, <1>13, <1>14

\* When the key goes a life begins: the last one is longer than a window.
LEMMA QuotaTick ==
  ASSUME QuotaInv, Quota!Tick
  PROVE  QuotaInv'
<1>1. QuotaType /\ KeyFits
  BY DEF QuotaInv
<1>2. PICK e \in [0..MaxNow -> Nat] : Lives(e)
  BY DEF QuotaInv
<1>3. now < MaxNow /\ now' = now + 1 /\ check' = check /\ sends' = sends /\ passed' = passed /\ unexpiring' = unexpiring
  BY DEF Quota!Tick
<1>4. \/ ~(now + 1 >= expiresAt) /\ count' = count /\ expiresAt' = expiresAt
      \/ now + 1 >= expiresAt /\ count' = 0 /\ expiresAt' = Quota!Never
  BY <1>3 DEF Quota!Tick
<1>5. now \in 0..MaxNow /\ now \in Nat /\ e[now] \in Nat /\ check \in [Handlers -> QuotaCall] /\ count \in Nat
      /\ passed \in [0..MaxNow -> Nat] /\ expiresAt \in 0..Quota!Never /\ now + 1 \in 0..MaxNow
      /\ \A t \in 0..now : t \in 0..MaxNow /\ e[t] \in Nat
  BY <1>1, <1>2, <1>3, QuotaConstants DEF QuotaType
<1>6. QuotaType'
  <2>1. \A g \in Handlers : check'[g].at <= now'
    <3>1. \A g \in Handlers : check[g].at \in Nat /\ check[g].at <= now
      BY <1>1, QuotaConstants DEF QuotaType, QuotaCall
    <3> QED BY <1>3, <1>5, <3>1
  <2>2. \A t \in 0..MaxNow : t > now' => passed'[t] = 0
    <3>1. \A t \in 0..MaxNow : t > now + 1 => t > now
      BY <1>5
    <3> QED BY <1>1, <1>3, <3>1 DEF QuotaType
  <2>3. Quota!Never' = Quota!Never /\ Quota!Never \in 0..Quota!Never /\ 0 <= sends /\ 0 \in Nat
    BY <1>1, QuotaConstants DEF Quota!Never, QuotaType
  <2>4. count' \in Nat /\ sends' \in 0..MaxSends /\ count' <= sends' /\ now' \in 0..MaxNow
        /\ expiresAt' \in 0..Quota!Never /\ unexpiring' \in BOOLEAN /\ check' \in [Handlers -> QuotaCall]
        /\ passed' \in [0..MaxNow -> Nat]
    BY <1>1, <1>3, <1>4, <1>5, <2>3 DEF QuotaType
  <2> QED BY <2>1, <2>2, <2>3, <2>4 DEF QuotaType
<1>7. KeyFits'
  <2> SUFFICES ASSUME count' > 0, expiresAt' = Quota!Never, ~unexpiring'
               PROVE  \E g \in Handlers : check'[g].pc = "expire"
    BY DEF KeyFits, Quota!Never
  <2>1. count' = count /\ expiresAt' = expiresAt
    BY <1>4
  <2> QED BY <1>1, <1>3, <2>1 DEF KeyFits
<1>8. PICK k \in Nat : k = e[now]
  BY <1>5
<1>9. PICK n \in Nat : n = IF now + 1 >= expiresAt THEN k + 1 ELSE k
  BY <1>8
<1>10. PICK f \in [0..MaxNow -> Nat] : f = [t \in 0..MaxNow |-> IF t <= now THEN e[t] ELSE n]
  OBVIOUS
<1>11. (\A t \in 0..now : f[t] = e[t]) /\ f[now + 1] = n /\ 0..now + 1 = (0..now) \cup {now + 1}
  BY <1>5, <1>10
<1>12. \A j : PassedOf(f, j)' = PassedOf(e, j)
  <2>1. 1..passed[now + 1] = {}
    <3>1. passed[now + 1] = 0
      BY <1>1, <1>5 DEF QuotaType
    <3> QED BY <3>1
  <2>2. {now + 1} \X (1..passed[now + 1]) = {}
    BY <2>1
  <2> TAKE j
  <2>3. PassedOf(f, j)' = UNION {{t} \X (1..passed[t]) : t \in {t \in 0..now + 1 : f[t] = j}}
    BY <1>3 DEF PassedOf
  <2>4. PassedOf(e, j) = UNION {{t} \X (1..passed[t]) : t \in {t \in 0..now : e[t] = j}}
    BY DEF PassedOf
  <2>5. ASSUME NEW y, y \in PassedOf(f, j)' PROVE y \in PassedOf(e, j)
    <3>1. PICK S \in {{t} \X (1..passed[t]) : t \in {t \in 0..now + 1 : f[t] = j}} : y \in S
      BY <2>3, <2>5
    <3>2. PICK t \in {t \in 0..now + 1 : f[t] = j} : S = {t} \X (1..passed[t])
      BY <3>1
    <3>3. t # now + 1
      BY <2>2, <3>1, <3>2
    <3>4. t \in 0..now /\ e[t] = j
      BY <1>11, <3>2, <3>3
    <3> QED BY <2>4, <3>1, <3>2, <3>4
  <2>6. ASSUME NEW y, y \in PassedOf(e, j) PROVE y \in PassedOf(f, j)'
    <3>1. PICK S \in {{t} \X (1..passed[t]) : t \in {t \in 0..now : e[t] = j}} : y \in S
      BY <2>4, <2>6
    <3>2. PICK t \in {t \in 0..now : e[t] = j} : S = {t} \X (1..passed[t])
      BY <3>1
    <3>3. t \in 0..now + 1 /\ f[t] = j
      BY <1>11, <3>2
    <3> QED BY <2>3, <3>1, <3>2, <3>3
  <2> QED BY <2>5, <2>6
<1>13. \A j : Pending(f, j)' = Pending(e, j)
  <2>1. \A h \in Handlers : f[check[h].at] = e[check[h].at]
    <3>1. \A h \in Handlers : check[h].at \in 0..now
      BY <1>1, QuotaConstants DEF QuotaType, QuotaCall
    <3> QED BY <1>11, <3>1
  <2> QED BY <1>3, <2>1 DEF Pending
<1>14. \A a, t \in 0..now + 1 : a <= t => f[a] <= f[t]
  <2>1. \A a \in 0..now : e[a] <= n /\ n <= n
    <3>1. \A a \in 0..now : e[a] <= k
      BY <1>2, <1>5, <1>8 DEF Lives
    <3>2. k <= n
      BY <1>9
    <3> QED BY <1>5, <3>1, <3>2
  <2>2. \A a, t \in 0..now : a <= t => e[a] <= e[t]
    BY <1>2 DEF Lives
  <2>3. \A t \in 0..now : ~(now + 1 <= t)
    BY <1>5
  <2> QED BY <1>11, <2>1, <2>2, <2>3
<1>15. \A a, t \in 0..now + 1 : f[a] + 1 < f[t] => a + Window < t
  <2> SUFFICES ASSUME NEW a \in 0..now + 1, NEW t \in 0..now + 1, f[a] + 1 < f[t] PROVE a + Window < t
    OBVIOUS
  <2>1. a \in 0..now
    <3> SUFFICES ASSUME a = now + 1 PROVE FALSE
      BY <1>11
    <3>1. f[t] <= f[a]
      <4>1. t <= a
        BY <1>5
      <4> QED BY <1>14, <4>1
    <3>2. f[t] \in Nat /\ f[a] \in Nat
      BY <1>5, <1>10
    <3> QED BY <3>1, <3>2
  <2>2. CASE t \in 0..now
    BY <1>2, <1>11, <2>1, <2>2 DEF Lives
  <2>3. CASE t = now + 1
    <3>1. e[a] + 1 < n /\ e[a] \in Nat
      BY <1>5, <1>11, <2>1, <2>3
    <3>2. CASE now + 1 >= expiresAt
      <4>1. e[a] < k
        BY <1>9, <3>1, <3>2
      <4>2. a + Window < expiresAt
        BY <1>2, <1>8, <2>1, <4>1 DEF Lives
      <4> QED BY <1>5, <2>1, <2>3, <3>2, <4>2, QuotaConstants
    <3>3. CASE ~(now + 1 >= expiresAt)
      <4>1. e[a] + 1 < e[now]
        BY <1>8, <1>9, <3>1, <3>3
      <4>2. a + Window < now
        BY <1>2, <1>5, <2>1, <4>1 DEF Lives
      <4> QED BY <1>5, <2>1, <2>3, <4>2, QuotaConstants
    <3> QED BY <3>2, <3>3
  <2> QED BY <1>11, <2>2, <2>3
<1>16. \A t \in 0..now + 1 : f[t] < f[now + 1] => t + Window < expiresAt'
  <2> SUFFICES ASSUME NEW t \in 0..now + 1, f[t] < f[now + 1] PROVE t + Window < expiresAt'
    OBVIOUS
  <2>1. t \in 0..now /\ e[t] < n
    <3>1. t # now + 1
      BY <1>9, <1>11
    <3> QED BY <1>11, <3>1
  <2>2. CASE now + 1 >= expiresAt
    <3>1. expiresAt' = MaxNow + Window + 1
      BY <1>4, <2>2 DEF Quota!Never
    <3> QED BY <1>5, <2>1, <3>1, QuotaConstants
  <2>3. CASE ~(now + 1 >= expiresAt)
    <3>1. e[t] < e[now] /\ expiresAt' = expiresAt
      BY <1>4, <1>8, <1>9, <2>1, <2>3
    <3> QED BY <1>2, <2>1, <3>1 DEF Lives
  <2> QED BY <2>2, <2>3
<1>17. ASSUME NEW j \in Nat
       PROVE  IsFiniteSet(PassedOf(f, j)') /\ Cardinality(PassedOf(f, j)') + Cardinality(Pending(f, j)') <= MaxMessages
  BY <1>1, <1>2, <1>12, <1>13, LivesFacts
<1>18. Cardinality(PassedOf(f, n)') + Cardinality(Pending(f, n)') <= count'
  <2>1. CASE now + 1 >= expiresAt
    <3>1. \A t \in 0..now : e[t] # n
      <4>1. \A t \in 0..now : e[t] <= k
        BY <1>2, <1>5, <1>8 DEF Lives
      <4>2. n = k + 1
        BY <1>9, <2>1
      <4> QED BY <1>5, <4>1, <4>2
    <3>2. PassedOf(e, n) = {}
      BY <3>1 DEF PassedOf
    <3>3. Pending(e, n) = {}
      <4>1. \A h \in Handlers : check[h].at \in 0..now
        BY <1>1, QuotaConstants DEF QuotaType, QuotaCall
      <4> QED BY <3>1, <4>1 DEF Pending
    <3>4. Cardinality(PassedOf(f, n)') = 0 /\ Cardinality(Pending(f, n)') = 0
      BY <1>12, <1>13, <3>2, <3>3, FS_EmptySet
    <3> QED BY <1>4, <2>1, <3>4
  <2>2. CASE ~(now + 1 >= expiresAt)
    <3>1. n = e[now] /\ count' = count
      BY <1>4, <1>8, <1>9, <2>2
    <3>2. Cardinality(PassedOf(e, n)) + Cardinality(Pending(e, n)) <= count
      BY <1>1, <1>2, <3>1, LivesFacts
    <3> QED BY <1>12, <1>13, <3>1, <3>2
  <2> QED BY <2>1, <2>2
<1>19. f[now'] = n
  BY <1>3, <1>11
<1>20. Lives(f)'
  BY <1>3, <1>11, <1>14, <1>15, <1>16, <1>17, <1>18, <1>19 DEF Lives
<1> QED BY <1>6, <1>7, <1>20 DEF QuotaInv

LEMMA QuotaStep == QuotaInv /\ [Quota!Next]_quotaVars => QuotaInv'
<1> SUFFICES ASSUME QuotaInv, [Quota!Next]_quotaVars PROVE QuotaInv'
  OBVIOUS
<1>1. CASE UNCHANGED quotaVars
  <2>1. count' = count /\ expiresAt' = expiresAt /\ now' = now /\ check' = check /\ sends' = sends /\ passed' = passed
        /\ unexpiring' = unexpiring
    BY <1>1 DEF quotaVars
  <2>2. QuotaType' /\ KeyFits'
    BY <2>1 DEF QuotaInv, QuotaType, KeyFits, Quota!Never
  <2>3. PICK e \in [0..MaxNow -> Nat] : Lives(e)
    BY DEF QuotaInv
  <2>4. (\A j : PassedOf(e, j)' = PassedOf(e, j)) /\ (\A j : Pending(e, j)' = Pending(e, j)) /\ e[now'] = e[now]
    BY <2>1 DEF PassedOf, Pending
  <2>5. Lives(e)'
    BY <2>1, <2>3, <2>4 DEF Lives
  <2> QED BY <2>2, <2>5 DEF QuotaInv
<1>2. CASE Quota!Next
  <2>1. CASE Quota!Tick
    BY <2>1, QuotaTick
  <2>2. CASE \E h \in Handlers : Quota!Incr(h) \/ Quota!Expire(h) \/ Quota!Decide(h)
    BY <2>2, QuotaIncr, QuotaExpire, QuotaDecide
  <2> QED BY <1>2, <2>1, <2>2 DEF Quota!Next
<1> QED BY <1>1, <1>2

\* check_user_rate alone: in no window do more than twice the quota pass, whatever the quota, the
\* window, the handlers and the failures.
THEOREM QuotaAlwaysHolds == Quota!Spec => [](Quota!TypeOK /\ Quota!QuotaHolds)
<1>1. Quota!Spec => []QuotaInv
  <2>1. QuotaInv /\ [Quota!Next]_Quota!quotaVars => QuotaInv'
    BY QuotaStep DEF Quota!quotaVars, quotaVars
  <2> QED BY <2>1, QuotaInitOk, PTL DEF Quota!Spec
<1> QED BY <1>1, QuotaFacts, PTL

\* The same where the parts of the server stand side by side.
THEOREM QuotaKeepsHolding == PartsSpec => []QuotaHolds
<1> DEFINE PInv == part = "quota" => QuotaInv
<1>1. PartsInit => PInv
  BY QuotaInitOk DEF PartsInit
<1>2. PInv /\ [PartsNext]_partsVars => PInv'
  <2> SUFFICES ASSUME PInv, [PartsNext]_partsVars, part' = "quota" PROVE QuotaInv'
    OBVIOUS
  <2>1. part = "quota" /\ [Quota!Next]_quotaVars
    BY DEF PartsNext, partsVars
  <2> QED BY <2>1, QuotaStep
<1>3. PInv => QuotaHolds
  BY QuotaFacts DEF QuotaHolds
<1> QED BY <1>1, <1>2, <1>3, PTL DEF PartsSpec

(***************************************************************************)
(* Readiness                                                               *)
(***************************************************************************)

\* What a probe has seen so far was there; a server that passed all of it has it all;
\* what was refused is not among the services.
ReadyInv ==
    /\ Life!TypeOK
    /\ probe.pc \in {"idle", "postgres", "capacity", "ready", "unready"}
    /\ probe.pc \in {"postgres", "capacity"} /\ probe.redis => "redis" \in found
    /\ probe.pc = "capacity" /\ probe.postgres => "postgres" \in found
    /\ wasReady => {"redis", "postgres"} \subseteq found
    /\ refused \cap Life!Services = {}

LEMMA ReadyInitOk == Life!Init => ReadyInv
<1> SUFFICES ASSUME Life!Init PROVE ReadyInv
  OBVIOUS
<1>1. probe = [pc |-> "idle"] /\ healthy = found \cap {"redis", "postgres"} /\ client = [c \in Clients |-> "away"]
      /\ told = {} /\ tasks = "running" /\ phase = "serving" /\ wasReady = FALSE /\ refused = {}
  BY DEF Life!Init
<1>2. probe.pc = "idle"
  BY <1>1
<1> QED BY <1>1, <1>2 DEF ReadyInv, Life!TypeOK

\* The services are what was found at the start.
LEMMA ServicesStay == found' = found => Life!Services' = Life!Services
BY DEF Life!Services, Life!Databased

\* Whatever a client does changes its own state, and what is refused by what there is not.
LEMMA MovesFacts ==
  ASSUME ReadyInv, NEW c \in Clients, NEW from,
         NEW to \in {"away", "request", "upgraded", "connected", "gone"} \cup Asked, Life!Moves(c, from, to),
         UNCHANGED refused \/ \E s \in Asked : Life!Refuse(s)
  PROVE  ReadyInv'
<1>1. refused' \subseteq Asked /\ refused' \cap Life!Services = {}
  BY DEF Life!Refuse, ReadyInv, Life!TypeOK
<1>2. Life!TypeOK'
  BY <1>1 DEF ReadyInv, Life!TypeOK, Life!Moves, Life!clientSide
<1>3. UNCHANGED <<found, probe, wasReady>>
  BY DEF Life!Moves, Life!clientSide
<1> QED BY <1>1, <1>2, <1>3, ServicesStay DEF ReadyInv

LEMMA ReadyStep == ReadyInv /\ [Life!Next]_lifeVars => ReadyInv'
<1> SUFFICES ASSUME ReadyInv, [Life!Next]_lifeVars PROVE ReadyInv'
  OBVIOUS
<1>1. CASE UNCHANGED lifeVars
  BY <1>1, ServicesStay DEF ReadyInv, Life!TypeOK, lifeVars
<1>2. ASSUME NEW c \in Clients,
             Life!Request(c) \/ Life!Upgrade(c) \/ Life!Register(c) \/ Life!Close(c) \/ Life!TurnAway(c)
      PROVE  ReadyInv'
  <2>1. CASE Life!Request(c)
    BY <2>1, MovesFacts DEF Life!Request
  <2>2. CASE Life!Upgrade(c)
    BY <2>2, MovesFacts DEF Life!Upgrade
  <2>3. CASE Life!Register(c)
    BY <2>3, MovesFacts DEF Life!Register
  <2>4. CASE Life!Close(c)
    BY <2>4, MovesFacts DEF Life!Close
  <2>5. CASE Life!TurnAway(c)
    BY <2>5, MovesFacts DEF Life!TurnAway
  <2> QED BY <1>2, <2>1, <2>2, <2>3, <2>4, <2>5
<1>11. ASSUME NEW c \in Clients, NEW s \in Asked, Life!Ask(c, s) \/ Life!BodyComes(c, s) \/ Life!BreakOff(c, s)
       PROVE  ReadyInv'
  <2>1. CASE Life!Ask(c, s)
    BY <2>1, MovesFacts DEF Life!Ask
  <2>2. CASE Life!BodyComes(c, s)
    BY <2>2, MovesFacts DEF Life!BodyComes
  <2>3. CASE Life!BreakOff(c, s)
    BY <2>3, MovesFacts DEF Life!BreakOff
  <2> QED BY <1>11, <2>1, <2>2, <2>3
<1>3. CASE Life!CheckRedis
  BY <1>3, ServicesStay DEF Life!CheckRedis, Life!probeSide, ReadyInv, Life!TypeOK
<1>4. CASE Life!CheckPostgres
  BY <1>4, ServicesStay DEF Life!CheckPostgres, Life!probeSide, ReadyInv, Life!TypeOK
<1>5. CASE Life!CheckCapacity
  <2>1. UNCHANGED Life!probeSide /\ probe'.pc \in {"ready", "unready"}
    BY <1>5 DEF Life!CheckCapacity
  <2>2. wasReady' => {"redis", "postgres"} \subseteq found
    BY <1>5 DEF Life!CheckCapacity, ReadyInv
  <2> QED BY <2>1, <2>2, ServicesStay DEF Life!probeSide, ReadyInv, Life!TypeOK
<1>6. CASE Life!ProbeAgain
  BY <1>6, ServicesStay DEF Life!ProbeAgain, Life!probeSide, ReadyInv, Life!TypeOK
<1>7. ASSUME NEW d \in {"redis", "postgres"}, Life!Sicken(d) PROVE ReadyInv'
  BY <1>7, ServicesStay DEF Life!Sicken, Life!answers, ReadyInv, Life!TypeOK
<1>8. CASE Life!Signal \/ Life!TaskPanics \/ Life!StopTasks \/ Life!Drained
  BY <1>8, ServicesStay DEF Life!Signal, Life!TaskPanics, Life!StopTasks, Life!Drained, Life!shutdownSide, Life!answers,
     ReadyInv, Life!TypeOK
<1>9. CASE Life!Notify
  <2>1. Life!Connected \subseteq Clients
    BY DEF Life!Connected
  <2> QED BY <1>9, <2>1, ServicesStay DEF Life!Notify, Life!shutdownSide, Life!answers, ReadyInv, Life!TypeOK
<1>10. CASE Life!CountNotified \/ Life!SignalAgain \/ Life!CountClosed \/ Life!Join
  BY <1>10, ServicesStay DEF Life!CountNotified, Life!SignalAgain, Life!CountClosed, Life!Join, Life!shutdownSide,
     Life!answers, ReadyInv, Life!TypeOK
<1> QED BY <1>1, <1>2, <1>3, <1>4, <1>5, <1>6, <1>7, <1>8, <1>9, <1>10, <1>11 DEF Life!Next, Life!Steps

LEMMA ReadyFacts == ReadyInv => Life!TypeOK /\ Life!ReadyIsEquipped
<1> SUFFICES ASSUME ReadyInv PROVE Life!TypeOK /\ Life!ReadyIsEquipped
  OBVIOUS
<1>1. Life!TypeOK
  BY DEF ReadyInv
<1>2. ASSUME wasReady PROVE refused \subseteq Life!LeftOut /\ "memory_sessions" \notin Life!Services
  <2>1. "redis" \in found /\ "postgres" \in found
    BY <1>2 DEF ReadyInv
  <2>2. Life!Services = UNION {{"redis_cache"},
           IF "cluster" \in found THEN {"redis_sessions", "cluster_router", "presence_broadcaster"} ELSE {},
           Life!Databased,
           IF {"postgres", "storage"} \subseteq found THEN {"attachments"} ELSE {},
           IF {"postgres", "gdpr"} \subseteq found THEN {"gdpr"} ELSE {},
           IF {"postgres", "email"} \subseteq found THEN {"email"} ELSE {}}
    BY <2>1 DEF Life!Services
  <2>3. "memory_sessions" \notin Life!Services
    BY <2>2 DEF Life!Databased
  <2>4. ASSUME NEW s \in refused PROVE s \in Life!LeftOut
    <3>1. s \in Asked /\ s \notin Life!Services
      BY DEF ReadyInv, Life!TypeOK
    <3>2. s \in {"attachments", "gdpr", "email"}
      BY <3>1, <2>2, LifeAssumption
    <3>3. CASE s = "attachments"
      BY <3>1, <3>3, <2>1, <2>2 DEF Life!LeftOut
    <3>4. CASE s = "gdpr"
      BY <3>1, <3>4, <2>1, <2>2 DEF Life!LeftOut
    <3>5. CASE s = "email"
      BY <3>1, <3>5, <2>1, <2>2 DEF Life!LeftOut
    <3> QED BY <3>2, <3>3, <3>4, <3>5
  <2> QED BY <2>3, <2>4
<1> QED BY <1>1, <1>2 DEF Life!ReadyIsEquipped

\* health.rs and state.rs alone: whatever is found, asked for and fails later, and whenever the
\* shutdown comes, a server that was ready refuses only what may be left out.
THEOREM ReadyIsAlwaysEquipped == Life!Spec => [](Life!TypeOK /\ Life!ReadyIsEquipped)
<1>1. ReadyInv /\ [Life!Next]_Life!lifeVars => ReadyInv'
  BY ReadyStep DEF Life!lifeVars, lifeVars
<1> QED BY <1>1, ReadyInitOk, ReadyFacts, PTL DEF Life!Spec

\* The same where the parts of the server stand side by side.
THEOREM ReadyStaysEquipped == PartsSpec => []ReadyIsEquipped
<1>1. PartsInit => ReadyInv
  BY ReadyInitOk DEF PartsInit
<1>2. ReadyInv /\ [PartsNext]_partsVars => ReadyInv'
  <2> SUFFICES ASSUME ReadyInv, [PartsNext]_partsVars PROVE ReadyInv'
    OBVIOUS
  <2>1. LifeNext \/ UNCHANGED lifeVars
    BY DEF PartsNext, partsVars
  <2>2. LifeNext => Life!Next
    BY DEF LifeNext, LifeOfClients, Life!Next
  <2> QED BY <2>1, <2>2, ReadyStep
<1>3. ReadyInv => ReadyIsEquipped
  BY ReadyFacts DEF ReadyIsEquipped
<1> QED BY <1>1, <1>2, <1>3, PTL DEF PartsSpec

(***************************************************************************)
(* The partitions of the message table                                     *)
(***************************************************************************)
\* The days made: before two o'clock what the last good run left, less the days gone.
DayInv ==
    /\ Days!TypeOK
    /\ \A d \in Nat : day <= d /\ d + missed <= day + Ahead - 2 => d \in partitions
    /\ hour = "late" => \A d \in Nat : day <= d /\ d + missed <= day + Ahead - 1 => d \in partitions
    /\ hour = "two" /\ done /\ ~failed => \A d \in Nat : day <= d /\ d <= day + Ahead - 1 => d \in partitions

LEMMA DayInitOk == Days!Init => DayInv
<1> SUFFICES ASSUME Days!Init PROVE DayInv
  OBVIOUS
<1>1. day = 0 /\ hour = "early" /\ up = TRUE /\ done = FALSE /\ partitions = 0..Premade /\ missed = 0 /\ failed = FALSE
  BY DEF Days!Init
<1>2. Days!TypeOK
  <2>1. 0 \in 0..MaxDay /\ 0..Premade \subseteq 0..MaxDay + Premade + Ahead /\ 0 \in Nat
    BY PartitionAssumption
  <2> QED BY <1>1, <2>1 DEF Days!TypeOK
<1>3. ASSUME NEW d \in Nat, day <= d, d + missed <= day + Ahead - 2 PROVE d \in partitions
  BY <1>1, <1>3, PartitionAssumption
<1> QED BY <1>1, <1>2, <1>3 DEF DayInv

LEMMA DayStep == DayInv /\ [Days!Next]_dayVars => DayInv'
<1> SUFFICES ASSUME DayInv, [Days!Next]_dayVars PROVE DayInv'
  OBVIOUS
<1>0. Days!TypeOK /\ day \in Nat /\ missed \in Nat
  BY PartitionAssumption DEF DayInv, Days!TypeOK
<1>1. CASE UNCHANGED dayVars
  BY <1>1 DEF DayInv, Days!TypeOK, dayVars
<1>2. CASE Days!Manage
  <2>1. up /\ hour = "two" /\ ~done /\ done' = TRUE /\ day' = day /\ hour' = hour /\ up' = up /\ missed' = missed
    BY <1>2 DEF Days!Manage
  <2>2. PICK made \in SUBSET (day..day + Ahead - 1) :
           partitions' = partitions \cup made /\ failed' = (made # day..day + Ahead - 1)
    BY <1>2 DEF Days!Manage
  <2>3. Days!TypeOK'
    <3>1. made \subseteq 0..MaxDay + Premade + Ahead
      BY <1>0, <2>2, PartitionAssumption DEF Days!TypeOK
    <3>2. failed' \in BOOLEAN
      BY <2>2
    <3> QED BY <1>0, <2>1, <2>2, <3>1, <3>2 DEF Days!TypeOK
  <2>4. \A d \in Nat : day' <= d /\ d + missed' <= day' + Ahead - 2 => d \in partitions'
    BY <2>1, <2>2 DEF DayInv
  <2>5. ~failed' => \A d \in Nat : day' <= d /\ d <= day' + Ahead - 1 => d \in partitions'
    <3> SUFFICES ASSUME ~failed', NEW d \in Nat, day <= d, d <= day + Ahead - 1 PROVE d \in partitions'
      BY <2>1
    <3>1. made = day..day + Ahead - 1
      BY <2>2
    <3>2. d \in day..day + Ahead - 1
      BY <1>0, PartitionAssumption
    <3> QED BY <2>2, <3>1, <3>2
  <2> QED BY <2>1, <2>3, <2>4, <2>5 DEF DayInv
<1>3. CASE Days!Restart
  BY <1>3 DEF Days!Restart, DayInv, Days!TypeOK
<1>4. CASE Days!GoDown
  BY <1>4 DEF Days!GoDown, DayInv, Days!TypeOK
<1>5. CASE Days!HourPasses
  <2>0. up' = up /\ partitions' = partitions
    BY <1>5 DEF Days!HourPasses
  <2>1. CASE hour = "early"
    <3>1. hour' = "two" /\ done' = FALSE /\ failed' = FALSE /\ day' = day /\ missed' = missed
      BY <1>5, <2>1 DEF Days!HourPasses
    <3> QED BY <2>0, <3>1 DEF DayInv, Days!TypeOK
  <2>2. CASE hour = "two"
    <3>1. hour' = "late" /\ missed' = (IF done /\ ~failed THEN 0 ELSE missed + 1) /\ day' = day /\ done' = done /\ failed' = failed
      BY <1>5, <2>2 DEF Days!HourPasses
    <3>2. Days!TypeOK'
      BY <1>0, <2>0, <3>1 DEF Days!TypeOK
    <3>3. CASE done /\ ~failed
      <4>1. \A d \in Nat : day <= d /\ d <= day + Ahead - 1 => d \in partitions
        BY <2>2, <3>3 DEF DayInv
      <4>2. missed' = 0
        BY <3>1, <3>3
      <4>3. \A d \in Nat : d + 0 <= day + Ahead - 2 => d <= day + Ahead - 1
        BY <1>0, PartitionAssumption
      <4>4. \A d \in Nat : d + 0 <= day + Ahead - 1 => d <= day + Ahead - 1
        BY <1>0, PartitionAssumption
      <4> QED BY <2>0, <3>1, <3>2, <4>1, <4>2, <4>3, <4>4 DEF DayInv
    <3>4. CASE ~(done /\ ~failed)
      <4>1. \A d \in Nat : day <= d /\ d + missed <= day + Ahead - 2 => d \in partitions
        BY DEF DayInv
      <4>2. missed' = missed + 1
        BY <3>1, <3>4
      <4>3. \A d \in Nat : d + (missed + 1) <= day + Ahead - 2 => d + missed <= day + Ahead - 2
        BY <1>0, PartitionAssumption
      <4>4. \A d \in Nat : d + (missed + 1) <= day + Ahead - 1 => d + missed <= day + Ahead - 2
        BY <1>0, PartitionAssumption
      <4> QED BY <2>0, <3>1, <3>2, <4>1, <4>2, <4>3, <4>4 DEF DayInv
    <3> QED BY <3>3, <3>4
  <2>3. CASE hour = "late"
    <3>1. hour' = "early" /\ day < MaxDay /\ day' = day + 1 /\ done' = done /\ missed' = missed /\ failed' = failed
      BY <1>5, <2>3 DEF Days!HourPasses
    <3>2. Days!TypeOK'
      BY <1>0, <2>0, <3>1, PartitionAssumption DEF Days!TypeOK
    <3>3. \A d \in Nat : day <= d /\ d + missed <= day + Ahead - 1 => d \in partitions
      BY <2>3 DEF DayInv
    <3>4. \A d \in Nat : day' <= d /\ d + missed' <= day' + Ahead - 2 => d \in partitions'
      <4> SUFFICES ASSUME NEW d \in Nat, day' <= d, d + missed' <= day' + Ahead - 2 PROVE d \in partitions'
        OBVIOUS
      <4>1. day + 1 <= d /\ d + missed <= (day + 1) + Ahead - 2
        BY <3>1
      <4>2. day <= d /\ d + missed <= day + Ahead - 1
        BY <1>0, <4>1, PartitionAssumption
      <4> QED BY <2>0, <3>3, <4>2
    <3> QED BY <3>1, <3>2, <3>4 DEF DayInv
  <2> QED BY <1>0, <2>1, <2>2, <2>3 DEF Days!TypeOK
<1> QED BY <1>1, <1>2, <1>3, <1>4, <1>5 DEF Days!Next

LEMMA DayFacts == DayInv => Days!TypeOK /\ Days!MessagesHaveAPartition
<1> SUFFICES ASSUME DayInv PROVE Days!TypeOK /\ Days!MessagesHaveAPartition
  OBVIOUS
<1>1. Days!TypeOK /\ day \in Nat /\ missed \in Nat
  BY PartitionAssumption DEF DayInv, Days!TypeOK
<1>2. ASSUME missed < Ahead - 1 PROVE day \in partitions
  <2>1. day <= day /\ day + missed <= day + Ahead - 2
    BY <1>1, <1>2, PartitionAssumption
  <2> QED BY <1>1, <2>1 DEF DayInv
<1> QED BY <1>1, <1>2 DEF Days!MessagesHaveAPartition

\* run_partition_management alone: however many days the task works ahead, as long as the migration
\* has made that many to begin with but two, a day has its partition although the task has missed
\* its hour on all but one of them.
THEOREM MessagesAlwaysHaveAPartition == Days!Spec => [](Days!TypeOK /\ Days!MessagesHaveAPartition)
<1>1. DayInv /\ [Days!Next]_Days!dayVars => DayInv'
  BY DayStep DEF Days!dayVars, dayVars
<1> QED BY <1>1, DayInitOk, DayFacts, PTL DEF Days!Spec

(***************************************************************************)
(* The shards                                                              *)
(***************************************************************************)
LEMMA ShardCardinality == ASSUME NEW S PROVE Shards!Cardinality(S) = Cardinality(S)
BY DEF Shards!Cardinality, Cardinality

\* What comes up to an index, itself included; of two indices one comes up to the other.
Chain(below, I) ==
    /\ below \in [I -> SUBSET I] /\ \A i \in I : i \in below[i]
    /\ \A i, j \in I : i # j => \/ below[i] \subseteq below[j] /\ j \notin below[i]
                                \/ below[j] \subseteq below[i] /\ i \notin below[j]

LEMMA ChainRanks ==
    ASSUME NEW I, IsFiniteSet(I), NEW below, Chain(below, I)
    PROVE  /\ \A i \in I : Cardinality(below[i]) \in 1..Cardinality(I)
           /\ \A i, j \in I : Cardinality(below[i]) = Cardinality(below[j]) => i = j
           /\ \A i, j \in I : Cardinality(below[i]) < Cardinality(below[j]) => i \in below[j]
           /\ \A k \in 1..Cardinality(I) : \E i \in I : Cardinality(below[i]) = k
<1> USE DEF Chain
<1>1. \A T \in SUBSET I : IsFiniteSet(T) /\ Cardinality(T) \in Nat /\ Cardinality(T) <= Cardinality(I)
  BY FS_Subset, FS_CardinalityType
<1>2. ASSUME NEW i \in I PROVE Cardinality(below[i]) \in 1..Cardinality(I)
  <2>1. below[i] \in SUBSET I /\ below[i] # {}
    OBVIOUS
  <2>2. Cardinality(below[i]) # 0
    BY <1>1, <2>1, FS_EmptySet
  <2>3. Cardinality(I) \in Nat
    BY <1>1
  <2> QED BY <1>1, <2>1, <2>2, <2>3
<1>3. ASSUME NEW i \in I, NEW j \in I, below[i] \subseteq below[j], j \notin below[i]
      PROVE  Cardinality(below[i]) < Cardinality(below[j])
  <2>1. below[j] \in SUBSET I /\ below[i] \in SUBSET below[j] /\ j \in below[j] /\ j \notin below[i]
    BY <1>3
  <2>2. IsFiniteSet(below[j]) /\ below[j] # below[i]
    BY <1>1, <2>1
  <2>3. /\ Cardinality(below[i]) <= Cardinality(below[j])
        /\ Cardinality(below[j]) = Cardinality(below[i]) => below[j] = below[i]
    BY <2>1, <2>2, FS_Subset
  <2>4. Cardinality(below[i]) \in Nat /\ Cardinality(below[j]) \in Nat
    BY <1>1, <1>3
  <2> QED BY <2>2, <2>3, <2>4
<1>4. ASSUME NEW i \in I, NEW j \in I, Cardinality(below[i]) = Cardinality(below[j]) PROVE i = j
  <2> SUFFICES ASSUME i # j PROVE FALSE
    OBVIOUS
  <2>1. Cardinality(below[i]) \in Nat /\ Cardinality(below[j]) \in Nat
    BY <1>1
  <2>2. Cardinality(below[i]) < Cardinality(below[j]) \/ Cardinality(below[j]) < Cardinality(below[i])
    BY <1>3
  <2> QED BY <1>4, <2>1, <2>2
<1>5. ASSUME NEW i \in I, NEW j \in I, Cardinality(below[i]) < Cardinality(below[j]) PROVE i \in below[j]
  <2>1. Cardinality(below[i]) \in Nat /\ Cardinality(below[j]) \in Nat
    BY <1>1
  <2>2. ~(Cardinality(below[j]) < Cardinality(below[i])) /\ i # j
    BY <1>5, <2>1
  <2>3. below[i] \subseteq below[j]
    BY <1>3, <2>2
  <2> QED BY <2>3
<1>6. ASSUME NEW k \in 1..Cardinality(I) PROVE \E i \in I : Cardinality(below[i]) = k
  <2> DEFINE c == Cardinality(I)
             f == [i \in I |-> Cardinality(below[i])]
  <2>1. c \in Nat /\ IsFiniteSet(1..c) /\ Cardinality(1..c) = c
    BY <1>1, FS_Interval
  <2>2. f \in Injection(I, 1..c)
    BY <1>2, <1>4 DEF Injection, IsInjective
  <2>3. f \in Surjection(I, 1..c)
    BY <2>1, <2>2, FS_Injection
  <2>4. PICK i \in I : f[i] = k
    BY <2>3 DEF Surjection
  <2> QED BY <2>4
<1> QED BY <1>2, <1>4, <1>5, <1>6

Ranks(below, I) == [i \in I |-> Cardinality(below[i])]
PointsAt(r, I) == {r[i] : i \in I}
Points(r) == PointsAt(r, DOMAIN r)
Follows(r, p, below, I) ==
    \A k, l \in 1..Len(r) : k < l => \E i, j \in I : r[k] = p[i] /\ r[l] = p[j] /\ i # j /\ i \in below[j]

\* Ranked lists the chosen points, each before those that it comes up to.
LEMMA RankedFacts ==
    ASSUME NEW S, NEW p \in Seq(S), NEW I \in SUBSET (DOMAIN p), NEW below, Chain(below, I),
           NEW r, r = Shards!Ranked(p, Ranks(below, I))
    PROVE  /\ r \in Seq(S) /\ Len(r) = Cardinality(I) /\ Len(r) \in Nat
           /\ Points(r) = PointsAt(p, I)
           /\ Follows(r, p, below, I)
<1> DEFINE rank == [i \in I |-> Cardinality(below[i])]
           at(k) == CHOOSE i \in I : rank[i] = k
           c == Cardinality(I)
<1>1. IsFiniteSet(I) /\ c \in Nat
  <2>1. DOMAIN p = 1..Len(p) /\ Len(p) \in Nat
    OBVIOUS
  <2>2. IsFiniteSet(DOMAIN p)
    BY <2>1, FS_Interval
  <2> QED BY <2>2, FS_Subset, FS_CardinalityType
<1>2. r = [k \in 1..c |-> p[at(k)]]
  BY ShardCardinality DEF Shards!Ranked, Ranks
<1>3. ASSUME NEW k \in 1..c PROVE at(k) \in I /\ rank[at(k)] = k
  BY <1>1, ChainRanks
<1>4. \A i \in I : rank[i] \in 1..c /\ at(rank[i]) = i
  <2> SUFFICES ASSUME NEW i \in I PROVE rank[i] \in 1..c /\ at(rank[i]) = i
    OBVIOUS
  <2>1. rank[i] \in 1..c
    BY <1>1, ChainRanks
  <2>2. at(rank[i]) \in I /\ rank[at(rank[i])] = rank[i]
    BY <1>3, <2>1
  <2>3. \A j \in I : rank[j] = rank[i] => j = i
    BY <1>1, ChainRanks
  <2> QED BY <2>1, <2>2, <2>3
<1> HIDE DEF at
<1>5. r \in Seq(S) /\ Len(r) = c /\ DOMAIN r = 1..c
  <2>1. \A k \in 1..c : p[at(k)] \in S
    <3>1. \A i \in DOMAIN p : p[i] \in S
      OBVIOUS
    <3> QED BY <1>3, <3>1
  <2> QED BY <1>1, <1>2, <2>1
<1>6. Points(r) = PointsAt(p, I)
  <2>1. ASSUME NEW k \in 1..c PROVE r[k] \in PointsAt(p, I)
    BY <1>2, <1>3 DEF PointsAt
  <2>2. ASSUME NEW i \in I PROVE rank[i] \in DOMAIN r /\ r[rank[i]] = p[i]
    BY <1>2, <1>4, <1>5
  <2> QED BY <1>5, <2>1, <2>2 DEF Points, PointsAt
<1>7. ASSUME NEW k \in 1..c, NEW l \in 1..c, k < l
      PROVE  \E i, j \in I : r[k] = p[i] /\ r[l] = p[j] /\ i # j /\ i \in below[j]
  <2>1. r[k] = p[at(k)] /\ r[l] = p[at(l)] /\ at(k) \in I /\ at(l) \in I
    BY <1>2, <1>3
  <2>2. Cardinality(below[at(k)]) = k /\ Cardinality(below[at(l)]) = l
    BY <1>3
  <2>3. at(k) \in below[at(l)]
    BY <1>1, <1>7, <2>1, <2>2, ChainRanks
  <2>4. at(k) # at(l)
    BY <1>7, <2>2
  <2> QED BY <2>1, <2>3, <2>4
<1>8. Len(r) \in Nat /\ 1..Len(r) = 1..c
  BY <1>1, <1>5
<1>9. \A k, l \in 1..Len(r) : k < l => \E i, j \in I : r[k] = p[i] /\ r[l] = p[j] /\ i # j /\ i \in below[j]
  <2> HIDE DEF c
  <2> SUFFICES ASSUME NEW k \in 1..Len(r), NEW l \in 1..Len(r), k < l
               PROVE  \E i, j \in I : r[k] = p[i] /\ r[l] = p[j] /\ i # j /\ i \in below[j]
    OBVIOUS
  <2>1. k \in 1..c /\ l \in 1..c
    BY <1>8
  <2> QED BY <1>7, <2>1
<1> QED BY <1>5, <1>6, <1>8, <1>9 DEF Follows

RingPoints == [hash : Shards!Places, node : Nodes]
InOrder(r) == \A k, l \in 1..Len(r) : k < l => r[k].hash <= r[l].hash

LEMMA SortedFacts ==
    ASSUME NEW p \in Seq(RingPoints), MaxHash \in Nat, NEW r, r = Shards!Sorted(p)
    PROVE  r \in Seq(RingPoints) /\ InOrder(r) /\ Points(r) = Points(p)
<1> DEFINE I == DOMAIN p
           below == [i \in I |-> Shards!UpTo(p, i)]
<1>1. I = 1..Len(p) /\ Len(p) \in Nat /\ \A i \in I : p[i] \in RingPoints
  OBVIOUS
<1>2. \A i \in I : p[i].hash \in Nat /\ i \in Nat
  BY <1>1 DEF RingPoints, Shards!Places
<1>3. Chain(below, I)
  <2>1. below \in [I -> SUBSET I] /\ \A i \in I : i \in below[i]
    BY <1>2 DEF Shards!UpTo
  <2>2. ASSUME NEW i \in I, NEW j \in I, i # j
        PROVE  \/ below[i] \subseteq below[j] /\ j \notin below[i]
               \/ below[j] \subseteq below[i] /\ i \notin below[j]
    BY <1>2, <2>2 DEF Shards!UpTo
  <2> QED BY <2>1, <2>2 DEF Chain
<1>4. [i \in I |-> Shards!Cardinality(Shards!UpTo(p, i))] = Ranks(below, I)
  BY ShardCardinality DEF Ranks
<1>5. r = Shards!Ranked(p, Ranks(below, I))
  BY <1>4 DEF Shards!Sorted
<1> HIDE DEF below
<1>6. r \in Seq(RingPoints) /\ Points(r) = PointsAt(p, I) /\ Follows(r, p, below, I)
  <2>1. DOMAIN p \in SUBSET (DOMAIN p)
    OBVIOUS
  <2>2. Chain(below, DOMAIN p) /\ r = Shards!Ranked(p, Ranks(below, DOMAIN p))
    BY <1>3, <1>5
  <2> QED BY <2>1, <2>2, RankedFacts
<1>7. \A i, j \in I : i \in below[j] => p[i].hash <= p[j].hash
  BY <1>2 DEF below, Shards!UpTo
<1> HIDE DEF I
<1>8. InOrder(r)
  BY <1>6, <1>7 DEF InOrder, Follows
<1> QED BY <1>6, <1>8 DEF I, Points

LEMMA RemoveNodeFacts ==
    ASSUME NEW p \in Seq(RingPoints), InOrder(p), MaxHash \in Nat, NEW n, NEW r, r = Shards!RemoveNode(p, n)
    PROVE  r \in Seq(RingPoints) /\ InOrder(r) /\ Points(r) = {q \in Points(p) : q.node # n}
<1> DEFINE I == {i \in DOMAIN p : p[i].node # n}
           below == [i \in I |-> {j \in I : j <= i}]
<1>1. DOMAIN p = 1..Len(p) /\ Len(p) \in Nat /\ \A i \in DOMAIN p : p[i] \in RingPoints
  OBVIOUS
<1>2. \A i \in I : i \in Nat
  BY <1>1
<1>3. Chain(below, I)
  <2>1. below \in [I -> SUBSET I] /\ \A i \in I : i \in below[i]
    BY <1>2
  <2>2. ASSUME NEW i \in I, NEW j \in I, i # j
        PROVE  \/ below[i] \subseteq below[j] /\ j \notin below[i]
               \/ below[j] \subseteq below[i] /\ i \notin below[j]
    BY <1>2, <2>2
  <2> QED BY <2>1, <2>2 DEF Chain
<1>4. [i \in I |-> Shards!Cardinality({j \in I : j <= i})] = Ranks(below, I)
  BY ShardCardinality DEF Ranks
<1>5. r = Shards!Ranked(p, Ranks(below, I))
  BY <1>4 DEF Shards!RemoveNode
<1>6. \A i, j \in I : i \in below[j] => i <= j
  OBVIOUS
<1> HIDE DEF below
<1>7. r \in Seq(RingPoints) /\ Points(r) = PointsAt(p, I) /\ Follows(r, p, below, I)
  <2>1. I \in SUBSET (DOMAIN p)
    OBVIOUS
  <2> HIDE DEF I
  <2> QED BY <1>3, <1>5, <2>1, RankedFacts
<1>8. \A i, j \in I : i # j /\ i \in below[j] => p[i].hash <= p[j].hash
  BY <1>1, <1>2, <1>6 DEF InOrder
<1>9. InOrder(r)
  BY <1>7, <1>8 DEF InOrder, Follows
<1>10. PointsAt(p, I) = {p[i] : i \in I}
  BY DEF PointsAt
<1>11. Points(r) = {q \in Points(p) : q.node # n}
  <2>1. ASSUME NEW q \in Points(r) PROVE q \in Points(p) /\ q.node # n
    <3>1. PICK i \in I : q = p[i]
      BY <1>7, <1>10, <2>1
    <3> QED BY <3>1 DEF Points, PointsAt
  <2>2. ASSUME NEW q \in Points(p), q.node # n PROVE q \in Points(r)
    <3>1. PICK i \in DOMAIN p : q = p[i]
      BY <2>2 DEF Points, PointsAt
    <3>2. i \in I
      BY <2>2, <3>1
    <3> QED BY <1>7, <1>10, <3>1, <3>2
  <2> QED BY <2>1, <2>2
<1> QED BY <1>7, <1>9, <1>11

\* The points of some nodes, in order.
RingOf(r, M) ==
    /\ r \in Seq(RingPoints) /\ InOrder(r)
    /\ \A q \in RingPoints : q \in Points(r) <=>
          q.node \in M /\ \E v \in 0..VirtualNodes - 1 : place[q.node][v] = q.hash

Apart ==
    /\ place \in [Nodes -> [0..VirtualNodes - 1 -> Shards!Places]]
    /\ \A n, m \in Nodes, i, j \in 0..VirtualNodes - 1 : place[n][i] = place[m][j] => n = m /\ i = j

LEMMA AddNodeRing ==
    ASSUME Apart, MaxHash \in Nat, VirtualNodes \in Nat \ {0}, NEW n \in Nodes, NEW M \in SUBSET Nodes,
           NEW r, RingOf(r, M)
    PROVE  RingOf(Shards!AddNode(r, n), M \cup {n})
<1> DEFINE new == [i \in 1..VirtualNodes |-> Shards!Point(place[n][i - 1], n)]
           all == r \o new
<1>1. new \in Seq(RingPoints) /\ Len(new) = VirtualNodes
  <2>1. \A i \in 1..VirtualNodes : Shards!Point(place[n][i - 1], n) \in RingPoints
    BY DEF Apart, Shards!Point, RingPoints
  <2> QED BY <2>1
<1>2. r \in Seq(RingPoints)
  BY DEF RingOf
<1>3. all \in Seq(RingPoints)
  BY <1>1, <1>2
<1>4. Points(new) = {q \in RingPoints : q.node = n /\ \E v \in 0..VirtualNodes - 1 : place[n][v] = q.hash}
  <2>1. ASSUME NEW i \in 1..VirtualNodes
        PROVE  new[i] \in RingPoints /\ new[i].node = n /\ place[n][i - 1] = new[i].hash /\ i - 1 \in 0..VirtualNodes - 1
    BY DEF Apart, Shards!Point, RingPoints
  <2>2. ASSUME NEW q \in RingPoints, q.node = n, NEW v \in 0..VirtualNodes - 1, place[n][v] = q.hash
        PROVE  v + 1 \in 1..VirtualNodes /\ new[v + 1] = q
    BY <2>2 DEF Shards!Point, RingPoints
  <2>3. DOMAIN new = 1..VirtualNodes
    OBVIOUS
  <2> HIDE DEF new
  <2>4. ASSUME NEW q \in Points(new)
        PROVE  q \in RingPoints /\ q.node = n /\ \E v \in 0..VirtualNodes - 1 : place[n][v] = q.hash
    <3>1. PICK i \in 1..VirtualNodes : q = new[i]
      BY <2>3 DEF Points, PointsAt
    <3> QED BY <2>1, <3>1
  <2>5. ASSUME NEW q \in RingPoints, q.node = n, \E v \in 0..VirtualNodes - 1 : place[n][v] = q.hash
        PROVE  q \in Points(new)
    BY <2>2, <2>3, <2>5 DEF Points, PointsAt
  <2> QED BY <2>4, <2>5
<1> HIDE DEF new
<1>5. Points(all) = Points(r) \cup Points(new)
  <2>1. /\ Len(r) \in Nat /\ Len(new) \in Nat /\ Len(all) = Len(r) + Len(new)
        /\ DOMAIN r = 1..Len(r) /\ DOMAIN new = 1..Len(new) /\ DOMAIN all = 1..Len(all)
    BY <1>1, <1>2
  <2>2. \A i \in DOMAIN all : all[i] = IF i <= Len(r) THEN r[i] ELSE new[i - Len(r)]
    BY <1>1, <1>2
  <2>3. Points(all) \subseteq Points(r) \cup Points(new)
    BY <2>1, <2>2 DEF Points, PointsAt
  <2>4. \A i \in DOMAIN r : i \in DOMAIN all /\ all[i] = r[i]
    BY <2>1, <2>2
  <2>5. \A i \in DOMAIN new : i + Len(r) \in DOMAIN all /\ all[i + Len(r)] = new[i]
    BY <2>1, <2>2
  <2>6. Points(r) \subseteq Points(all)
    BY <2>4 DEF Points, PointsAt
  <2>7. Points(new) \subseteq Points(all)
    BY <2>5 DEF Points, PointsAt
  <2> QED BY <2>3, <2>6, <2>7
<1> HIDE DEF all
<1>6. Shards!AddNode(r, n) = Shards!Sorted(all)
  BY DEF Shards!AddNode, all, new
<1>7. /\ Shards!Sorted(all) \in Seq(RingPoints) /\ InOrder(Shards!Sorted(all))
      /\ Points(Shards!Sorted(all)) = Points(r) \cup Points(new)
  BY <1>3, <1>5, SortedFacts
<1> QED BY <1>4, <1>6, <1>7 DEF RingOf

LEMMA RemoveNodeRing ==
    ASSUME MaxHash \in Nat, NEW n \in Nodes, NEW M \in SUBSET Nodes, NEW r, RingOf(r, M)
    PROVE  RingOf(Shards!RemoveNode(r, n), M \ {n})
<1>1. r \in Seq(RingPoints) /\ InOrder(r)
  BY DEF RingOf
<1>2. /\ Shards!RemoveNode(r, n) \in Seq(RingPoints) /\ InOrder(Shards!RemoveNode(r, n))
      /\ Points(Shards!RemoveNode(r, n)) = {q \in Points(r) : q.node # n}
  BY <1>1, RemoveNodeFacts
<1> QED BY <1>2 DEF RingOf

LEMMA SmallRemainder ==
    ASSUME NEW n \in Nat \ {0}, NEW b \in 0..n
    PROVE  b % n = IF b = n THEN 0 ELSE b
OBVIOUS

\* A set of indices with all that come before them is counted by its last.
LEMMA InitialIndices ==
    ASSUME NEW n \in Nat, NEW T \in SUBSET (1..n), \A i \in T, j \in 1..n : j < i => j \in T
    PROVE  Cardinality(T) \in 0..n /\ T = 1..Cardinality(T)
<1> DEFINE below == [i \in T |-> {j \in T : j <= i}]
           c == Cardinality(T)
<1>1. IsFiniteSet(1..n) /\ Cardinality(1..n) = n
  BY FS_Interval
<1>2. IsFiniteSet(T) /\ c \in Nat /\ c <= n
  BY <1>1, FS_Subset, FS_CardinalityType
<1>3. ASSUME NEW i \in T PROVE below[i] = 1..i /\ Cardinality(below[i]) = i /\ i \in Nat
  <2>1. i \in 1..n /\ i \in Nat /\ below[i] = {j \in T : j <= i}
    OBVIOUS
  <2>2. ASSUME NEW j \in 1..i PROVE j \in T /\ j <= i
    <3>1. j \in 1..n /\ (j < i \/ j = i)
      BY <2>1
    <3> QED BY <3>1
  <2>3. \A j \in T : j <= i => j \in 1..i
    BY <2>1
  <2>4. below[i] = 1..i
    BY <2>1, <2>2, <2>3
  <2>5. Cardinality(1..i) = i
    BY <2>1, FS_Interval
  <2> QED BY <2>1, <2>4, <2>5
<1>4. Chain(below, T)
  <2>1. \A i \in T : i \in Nat
    OBVIOUS
  <2>2. below \in [T -> SUBSET T] /\ \A i \in T : i \in below[i]
    BY <2>1
  <2>3. ASSUME NEW i \in T, NEW j \in T, i # j
        PROVE  \/ below[i] \subseteq below[j] /\ j \notin below[i]
               \/ below[j] \subseteq below[i] /\ i \notin below[j]
    <3>1. i \in Nat /\ j \in Nat /\ \A k \in T : k \in Nat
      BY <2>1
    <3>4. \A k \in T : (k \in below[i] <=> k <= i) /\ (k \in below[j] <=> k <= j)
      OBVIOUS
    <3>5. below[i] \subseteq T /\ below[j] \subseteq T
      OBVIOUS
    <3> HIDE DEF below
    <3>2. CASE i < j
      <4>1. (\A k \in T : k <= i => k <= j) /\ ~(j <= i)
        BY <3>1, <3>2
      <4> QED BY <3>4, <3>5, <4>1
    <3>3. CASE j < i
      <4>1. (\A k \in T : k <= j => k <= i) /\ ~(i <= j)
        BY <3>1, <3>3
      <4> QED BY <3>4, <3>5, <4>1
    <3> QED BY <2>3, <3>1, <3>2, <3>3
  <2> QED BY <2>2, <2>3 DEF Chain
<1> HIDE DEF below
<1>5. /\ \A i \in T : Cardinality(below[i]) \in 1..Cardinality(T)
      /\ \A k \in 1..Cardinality(T) : \E i \in T : Cardinality(below[i]) = k
  BY <1>2, <1>4, ChainRanks
<1>6. (\A i \in T : i \in 1..c) /\ \A k \in 1..c : k \in T
  BY <1>3, <1>5
<1>7. c \in 0..n
  BY <1>2
<1> HIDE DEF c
<1>8. T = 1..c
  BY <1>6
<1> QED BY <1>7, <1>8 DEF c

\* A node of M is nearest from h, with some point of it.
NearestOf(M, h, n) ==
    n \in M /\ \E v \in 0..VirtualNodes - 1 : \A m \in M, w \in 0..VirtualNodes - 1 :
                  Shards!Distance(h, place[n][v]) <= Shards!Distance(h, place[m][w])

LEMMA OneNearest ==
    ASSUME Apart, MaxHash \in Nat, NEW h \in Shards!Places, NEW M \in SUBSET Nodes,
           NEW n, NEW m, NearestOf(M, h, n), NearestOf(M, h, m)
    PROVE  n = m
<1>1. PICK v \in 0..VirtualNodes - 1 : \A o \in M, w \in 0..VirtualNodes - 1 :
         Shards!Distance(h, place[n][v]) <= Shards!Distance(h, place[o][w])
  BY DEF NearestOf
<1>2. PICK u \in 0..VirtualNodes - 1 : \A o \in M, w \in 0..VirtualNodes - 1 :
         Shards!Distance(h, place[m][u]) <= Shards!Distance(h, place[o][w])
  BY DEF NearestOf
<1>3. n \in M /\ m \in M /\ n \in Nodes /\ m \in Nodes
  BY DEF NearestOf
<1>4. place[n][v] \in 0..MaxHash /\ place[m][u] \in 0..MaxHash /\ h \in 0..MaxHash
  <2>1. place[n] \in [0..VirtualNodes - 1 -> Shards!Places] /\ place[m] \in [0..VirtualNodes - 1 -> Shards!Places]
    BY <1>3 DEF Apart
  <2>2. place[n][v] \in Shards!Places /\ place[m][u] \in Shards!Places
    BY <2>1
  <2> QED BY <2>2 DEF Shards!Places
<1>5. /\ Shards!Distance(h, place[n][v]) <= Shards!Distance(h, place[m][u])
      /\ Shards!Distance(h, place[m][u]) <= Shards!Distance(h, place[n][v])
  BY <1>1, <1>2, <1>3
<1>6. place[n][v] = place[m][u]
  BY <1>4, <1>5 DEF Shards!Distance
<1> QED BY <1>3, <1>6 DEF Apart

\* The binary search finds the nearest point, going round.
LEMMA GetNodeIs ==
    ASSUME Apart, MaxHash \in Nat, VirtualNodes \in Nat \ {0}, NEW h \in Shards!Places,
           NEW M \in SUBSET Nodes, NEW r, RingOf(r, M)
    PROVE  IF M = {} THEN Shards!GetNode(r, h) = Coordinator ELSE NearestOf(M, h, Shards!GetNode(r, h))
<1> DEFINE n == Len(r)
           hits == {i \in DOMAIN r : r[i].hash = h}
           before == {i \in DOMAIN r : r[i].hash < h}
           b == Cardinality(before)
<1>1. /\ r \in Seq(RingPoints) /\ n \in Nat /\ DOMAIN r = 1..n
      /\ \A i \in 1..n : r[i] \in RingPoints /\ r[i] \in Points(r)
      /\ \A i \in 1..n : r[i].hash \in 0..MaxHash /\ r[i].node \in Nodes
  <2>1. r \in Seq(RingPoints)
    BY DEF RingOf
  <2>2. \A i \in 1..n : r[i] \in RingPoints /\ r[i] \in Points(r)
    BY <2>1 DEF Points, PointsAt
  <2> QED BY <2>1, <2>2 DEF RingPoints, Shards!Places
<1>2. h \in 0..MaxHash
  BY DEF Shards!Places
<1>3. ASSUME NEW m \in M, NEW w \in 0..VirtualNodes - 1
      PROVE  \E i \in 1..n : r[i].hash = place[m][w] /\ r[i].node = m
  <2>1. Shards!Point(place[m][w], m) \in Points(r)
    BY DEF RingOf, Apart, RingPoints, Shards!Point
  <2>2. PICK i \in 1..n : r[i] = Shards!Point(place[m][w], m)
    BY <1>1, <2>1 DEF Points, PointsAt
  <2> QED BY <2>2 DEF Shards!Point
<1>4. ASSUME NEW i \in 1..n
      PROVE  r[i].node \in M /\ \E v \in 0..VirtualNodes - 1 : place[r[i].node][v] = r[i].hash
  BY <1>1 DEF RingOf
<1>5. ASSUME NEW k \in 1..n, \A i \in 1..n : Shards!Distance(h, r[k].hash) <= Shards!Distance(h, r[i].hash)
      PROVE  NearestOf(M, h, r[k].node)
  <2>1. PICK v \in 0..VirtualNodes - 1 : place[r[k].node][v] = r[k].hash
    BY <1>4
  <2>2. \A m \in M, w \in 0..VirtualNodes - 1 :
           Shards!Distance(h, place[r[k].node][v]) <= Shards!Distance(h, place[m][w])
    BY <1>3, <1>5, <2>1
  <2> QED BY <1>4, <2>2 DEF NearestOf
<1>6. CASE M = {}
  <2>1. n = 0
    BY <1>1, <1>4, <1>6
  <2>2. r = <<>>
    BY <1>1, <2>1
  <2> QED BY <1>6, <2>2 DEF Shards!GetNode
<1>7. CASE M # {}
  <2>1. n # 0 /\ r # <<>>
    <3>1. PICK m \in M : TRUE
      BY <1>7
    <3> QED BY <1>1, <1>3, <3>1, 0 \in 0..VirtualNodes - 1
  <2>2. CASE hits # {}
    <3> DEFINE k == CHOOSE i \in hits : TRUE
    <3>1. k \in 1..n /\ r[k].hash = h
      BY <1>1, <2>2
    <3>2. Shards!GetNode(r, h) = r[k].node
      BY <2>1, <2>2 DEF Shards!GetNode
    <3>3. \A i \in 1..n : Shards!Distance(h, r[k].hash) <= Shards!Distance(h, r[i].hash)
      BY <1>1, <1>2, <3>1 DEF Shards!Distance
    <3> HIDE DEF k
    <3> QED BY <1>5, <1>7, <3>1, <3>2, <3>3
  <2>3. CASE hits = {}
    <3>1. \A i \in 1..n, j \in 1..n : i < j => r[i].hash <= r[j].hash
      BY <1>1 DEF RingOf, InOrder
    <3>2. before \in SUBSET (1..n) /\ \A i \in before, j \in 1..n : j < i => j \in before
      BY <1>1, <1>2, <3>1
    <3> HIDE DEF before
    <3>3. b \in 0..n /\ before = 1..b
      BY <1>1, <3>2, InitialIndices
    <3> HIDE DEF b
    <3>4. \A i \in 1..n : (i <= b => r[i].hash < h) /\ (i > b => r[i].hash > h)
      BY <1>1, <1>2, <2>3, <3>3 DEF before
    <3> DEFINE k == IF b = n THEN 1 ELSE b + 1
    <3>0. n \in Nat \ {0} /\ b \in 0..n
      BY <1>1, <2>1, <3>3
    <3> HIDE DEF n
    <3>5. Shards!GetNode(r, h) = r[k].node /\ k \in 1..n
      <4>1. b % n = IF b = n THEN 0 ELSE b
        BY <1>1, <2>1, <3>3, SmallRemainder
      <4>2. k = (IF b = n THEN 0 ELSE b) + 1 /\ k \in 1..n
        BY <3>0
      <4>3. Shards!GetNode(r, h) = r[(b % n) + 1].node
        BY <2>1, <2>3, ShardCardinality DEF Shards!GetNode, n, b, before
      <4> QED BY <4>1, <4>2, <4>3
    <3>6. ASSUME NEW i \in 1..n PROVE Shards!Distance(h, r[k].hash) <= Shards!Distance(h, r[i].hash)
      <4>1. r[k].hash \in 0..MaxHash /\ r[i].hash \in 0..MaxHash /\ k \in 1..n
        BY <1>1, <3>5
      <4>2. CASE b = n
        <5>1. k = 1 /\ 1 \in 1..n /\ i <= b /\ k <= b
          BY <3>0, <4>2
        <5>2. r[k].hash <= r[i].hash /\ r[k].hash < h /\ r[i].hash < h
          <6>1. i = 1 \/ 1 < i
            OBVIOUS
          <6> QED BY <3>1, <3>4, <4>1, <5>1, <6>1
        <5> HIDE DEF k
        <5> QED BY <1>2, <4>1, <5>2 DEF Shards!Distance
      <4>3. CASE b # n
        <5>1. k = b + 1 /\ b \in Nat /\ r[k].hash > h
          <6>1. k = b + 1 /\ b \in Nat /\ k \in 1..n /\ k > b
            BY <3>0, <4>3
          <6> QED BY <3>4, <6>1
        <5>2. CASE i <= b
          BY <1>2, <3>4, <4>1, <5>1, <5>2 DEF Shards!Distance
        <5>3. CASE i > b
          <6>1. r[k].hash <= r[i].hash /\ r[i].hash > h
            <7>1. k = i \/ k < i
              BY <3>0, <5>1, <5>3
            <7> QED BY <3>1, <3>4, <4>1, <5>3, <7>1
          <6> QED BY <1>2, <4>1, <5>1, <6>1 DEF Shards!Distance
        <5> QED BY <3>3, <5>1, <5>2, <5>3
      <4> QED BY <4>2, <4>3
    <3> HIDE DEF k
    <3> QED BY <1>5, <1>7, <3>5, <3>6
  <2> QED BY <2>2, <2>3
<1> QED BY <1>6, <1>7

\* The ring has the points of its members, in order: what was added twice or removed
\* left nothing else behind.
RingInv ==
    /\ Apart /\ RingOf(ring, members)
    /\ starting \subseteq workers /\ workers \subseteq Nodes /\ members \subseteq Nodes
    /\ calls \in 0..MaxCalls

LEMMA RingInitOk == Shards!Init => RingInv
<1> SUFFICES ASSUME Shards!Init PROVE RingInv
  OBVIOUS
<1>1. Apart /\ starting \subseteq workers /\ workers \subseteq Nodes /\ members \subseteq Nodes /\ calls \in 0..MaxCalls
  BY ShardAssumption DEF Shards!Init, Apart
<1>2. ring \in Seq(RingPoints) /\ Len(ring) = 0 /\ DOMAIN ring = {}
  BY DEF Shards!Init
<1>3. RingOf(ring, members)
  BY <1>2 DEF Shards!Init, RingOf, InOrder, Points, PointsAt
<1> QED BY <1>1, <1>3 DEF RingInv

LEMMA RingStep == RingInv /\ [Shards!Next]_ringVars => RingInv'
<1> SUFFICES ASSUME RingInv, [Shards!Next]_ringVars PROVE RingInv'
  OBVIOUS
<1>1. Apart /\ RingOf(ring, members) /\ members \in SUBSET Nodes
  BY DEF RingInv
<1>2. \A n \in Nodes : RingOf(Shards!AddNode(ring, n), members \cup {n})
  BY <1>1, AddNodeRing, ShardAssumption
<1>3. \A n \in Nodes : RingOf(Shards!RemoveNode(ring, n), members \ {n})
  BY <1>1, RemoveNodeRing, ShardAssumption
<1>4. ASSUME NEW r, NEW M, RingOf(r, M), place' = place, ring' = r, members' = M
      PROVE  Apart' /\ RingOf(ring, members)'
  BY <1>1, <1>4 DEF Apart, RingOf, Points, PointsAt, InOrder
<1>5. ASSUME NEW n \in Nodes, Shards!AddConfigured(n) PROVE RingInv'
  <2>1. Apart' /\ RingOf(ring, members)'
    BY <1>2, <1>4, <1>5 DEF Shards!AddConfigured
  <2> QED BY <1>5, <2>1 DEF RingInv, Shards!AddConfigured
<1>6. ASSUME NEW n \in Nodes, Shards!AddWorker(n) PROVE RingInv'
  <2>1. Apart' /\ RingOf(ring, members)'
    BY <1>2, <1>4, <1>6 DEF Shards!AddWorker
  <2>2. calls' \in 0..MaxCalls
    BY <1>6, ShardAssumption DEF RingInv, Shards!AddWorker
  <2> QED BY <1>6, <2>1, <2>2 DEF RingInv, Shards!AddWorker
<1>7. ASSUME NEW n \in Nodes, Shards!RemoveWorker(n) PROVE RingInv'
  <2>1. Apart' /\ RingOf(ring, members)'
    BY <1>3, <1>4, <1>7 DEF Shards!RemoveWorker
  <2>2. calls' \in 0..MaxCalls
    BY <1>7, ShardAssumption DEF RingInv, Shards!RemoveWorker
  <2> QED BY <1>7, <2>1, <2>2 DEF RingInv, Shards!RemoveWorker
<1>8. CASE UNCHANGED ringVars
  <2>1. Apart' /\ RingOf(ring, members)'
    BY <1>1, <1>4, <1>8 DEF ringVars
  <2> QED BY <1>8, <2>1 DEF RingInv, ringVars
<1> QED BY <1>5, <1>6, <1>7, <1>8 DEF Shards!Next

\* The search depends on the members only.
LEMMA SearchStays ==
    ASSUME RingInv, NEW h \in Shards!Places, NEW n \in Nodes
    PROVE  /\ IF members = {} THEN Shards!GetNode(ring, h) = Coordinator
              ELSE Shards!GetNode(ring, h) \in members /\ Shards!Nearest(h, Shards!GetNode(ring, h))
           /\ Shards!GetNode(Shards!AddNode(ring, n), h) \in {Shards!GetNode(ring, h), n}
           /\ n # Shards!GetNode(ring, h) =>
                 Shards!GetNode(Shards!RemoveNode(ring, n), h) = Shards!GetNode(ring, h)
<1> DEFINE node == Shards!GetNode(ring, h)
           more == Shards!GetNode(Shards!AddNode(ring, n), h)
           less == Shards!GetNode(Shards!RemoveNode(ring, n), h)
<1>1. Apart /\ RingOf(ring, members) /\ members \in SUBSET Nodes
  BY DEF RingInv
<1>2. IF members = {} THEN node = Coordinator ELSE NearestOf(members, h, node)
  BY <1>1, GetNodeIs, ShardAssumption
<1>3. NearestOf(members \cup {n}, h, more)
  <2>1. RingOf(Shards!AddNode(ring, n), members \cup {n}) /\ members \cup {n} \in SUBSET Nodes
    BY <1>1, AddNodeRing, ShardAssumption
  <2> QED BY <1>1, <2>1, GetNodeIs, ShardAssumption
<1>4. IF members \ {n} = {} THEN less = Coordinator ELSE NearestOf(members \ {n}, h, less)
  <2>1. RingOf(Shards!RemoveNode(ring, n), members \ {n}) /\ members \ {n} \in SUBSET Nodes
    BY <1>1, RemoveNodeRing, ShardAssumption
  <2> QED BY <1>1, <2>1, GetNodeIs, ShardAssumption
<1> HIDE DEF node, more, less
<1>5. ASSUME NEW M \in SUBSET Nodes, NEW L \in SUBSET M, NEW m \in L, NearestOf(M, h, m)
      PROVE  NearestOf(L, h, m)
  BY <1>5 DEF NearestOf
<1>6. members # {} => node \in members /\ Shards!Nearest(h, node)
  BY <1>2 DEF NearestOf, Shards!Nearest
<1>7. more \in {node, n}
  <2> SUFFICES ASSUME more # n PROVE more = node
    OBVIOUS
  <2>1. more \in members
    BY <1>3 DEF NearestOf
  <2>2. NearestOf(members, h, more)
    BY <1>1, <1>3, <1>5, <2>1
  <2> QED BY <1>1, <1>2, <2>1, <2>2, OneNearest, ShardAssumption
<1>8. n # node => less = node
  <2> SUFFICES ASSUME n # node PROVE less = node
    OBVIOUS
  <2>1. CASE members = {}
    BY <1>2, <1>4, <2>1
  <2>2. CASE members # {}
    <3>1. node \in members \ {n} /\ members \ {n} # {} /\ NearestOf(members, h, node)
      BY <1>2, <1>6, <2>2
    <3>2. NearestOf(members \ {n}, h, node)
      BY <1>1, <1>5, <3>1
    <3> QED BY <1>1, <1>4, <3>1, <3>2, OneNearest, ShardAssumption
  <2> QED BY <2>1, <2>2
<1> QED BY <1>2, <1>6, <1>7, <1>8 DEF node, more, less

LEMMA NodesOfRing == RingInv => Shards!NodesOf(ring) = members
<1> SUFFICES ASSUME RingInv PROVE Shards!NodesOf(ring) = members
  OBVIOUS
<1>1. Apart /\ RingOf(ring, members) /\ members \in SUBSET Nodes /\ ring \in Seq(RingPoints)
  BY DEF RingInv, RingOf
<1>2. ASSUME NEW i \in DOMAIN ring PROVE ring[i].node \in members
  <2>1. ring[i] \in RingPoints /\ ring[i] \in Points(ring)
    BY <1>1 DEF Points, PointsAt
  <2> QED BY <1>1, <2>1 DEF RingOf
<1>3. ASSUME NEW n \in members PROVE \E i \in DOMAIN ring : ring[i].node = n
  <2>1. 0 \in 0..VirtualNodes - 1
    BY ShardAssumption
  <2>2. place[n][0] \in Shards!Places /\ n \in Nodes
    <3>1. n \in Nodes /\ place \in [Nodes -> [0..VirtualNodes - 1 -> Shards!Places]]
      BY <1>1 DEF Apart
    <3> QED BY <2>1, <3>1
  <2>3. Shards!Point(place[n][0], n) \in Points(ring)
    BY <1>1, <2>1, <2>2 DEF RingOf, RingPoints, Shards!Point
  <2> QED BY <2>3 DEF Points, PointsAt, Shards!Point
<1> QED BY <1>2, <1>3 DEF Shards!NodesOf

LEMMA ShardsStayFacts == RingInv => Shards!ShardsStay /\ Shards!RemovedIsNotRead
<1> SUFFICES ASSUME RingInv PROVE Shards!ShardsStay /\ Shards!RemovedIsNotRead
  OBVIOUS
<1>1. \A s \in 0..ShardCount - 1 : HashOfShard[s] \in Shards!Places
  BY ShardAssumption DEF Shards!Places
<1>2. Shards!ShardsStay
  <2> SUFFICES ASSUME NEW s \in 0..ShardCount - 1
               PROVE  LET h == HashOfShard[s]
                          node == Shards!GetNode(ring, h)
                      IN  /\ IF members = {} THEN node = Coordinator ELSE node \in members /\ Shards!Nearest(h, node)
                          /\ \A n \in Nodes : Shards!GetNode(Shards!AddNode(ring, n), h) \in {node, n}
                          /\ \A n \in Nodes \ {node} : Shards!GetNode(Shards!RemoveNode(ring, n), h) = node
    BY NodesOfRing DEF Shards!ShardsStay
  <2> DEFINE h == HashOfShard[s]
             node == Shards!GetNode(ring, h)
  <2>1. h \in Shards!Places
    BY <1>1
  <2> HIDE DEF h
  <2>2. IF members = {} THEN node = Coordinator ELSE node \in members /\ Shards!Nearest(h, node)
    <3>1. IF members = {} THEN Shards!GetNode(ring, h) = Coordinator
          ELSE NearestOf(members, h, Shards!GetNode(ring, h))
      BY <2>1, GetNodeIs, ShardAssumption DEF RingInv
    <3> QED BY <3>1 DEF NearestOf, Shards!Nearest
  <2>3. \A n \in Nodes : Shards!GetNode(Shards!AddNode(ring, n), h) \in {node, n}
    BY <2>1, SearchStays
  <2>4. \A n \in Nodes \ {node} : Shards!GetNode(Shards!RemoveNode(ring, n), h) = node
    BY <2>1, SearchStays
  <2> QED BY <2>2, <2>3, <2>4 DEF h
<1>3. Shards!RemovedIsNotRead
  <2> SUFFICES ASSUME NEW hash \in 0..ShardCount
               PROVE  Shards!PoolFor(hash) \in (members \cap workers) \cup {Coordinator}
    BY DEF Shards!RemovedIsNotRead
  <2>1. Shards!ShardOf(hash) \in 0..ShardCount - 1
    BY ShardAssumption DEF Shards!ShardOf
  <2>2. Shards!NodeFor(hash) \in members \cup {Coordinator}
    <3> DEFINE h == HashOfShard[Shards!ShardOf(hash)]
    <3>1. h \in Shards!Places
      BY <1>1, <2>1
    <3> HIDE DEF h
    <3>2. IF members = {} THEN Shards!GetNode(ring, h) = Coordinator ELSE NearestOf(members, h, Shards!GetNode(ring, h))
      BY <3>1, GetNodeIs, ShardAssumption DEF RingInv
    <3> QED BY <3>2 DEF NearestOf, Shards!NodeFor, h
  <2> QED BY <2>2 DEF Shards!PoolFor
<1> QED BY <1>2, <1>3

LEMMA DivisionFacts ==
    ASSUME NEW k \in Nat \ {0}, NEW c \in Nat \ {0}, c % k = 0
    PROVE  c \div k \in Nat \ {0} /\ c = k * (c \div k)
OBVIOUS

LEMMA QuotientFacts ==
    ASSUME NEW z \in Nat \ {0}, NEW s \in Nat
    PROVE  s \div z \in Nat /\ (s \div z) * z <= s /\ s < (s \div z) * z + z
OBVIOUS

LEMMA LessTimes ==
    ASSUME NEW z \in Nat \ {0}, NEW a \in Nat, NEW b \in Nat, a < b
    PROVE  a * z + z <= b * z
<1>1. PICK d \in Nat : b = a + 1 + d
  <2>1. b - a - 1 \in Nat /\ b = a + 1 + (b - a - 1)
    OBVIOUS
  <2> QED BY <2>1
<1>2. b * z = a * z + z + d * z
  BY <1>1
<1>3. d * z \in Nat /\ a * z \in Nat
  OBVIOUS
<1> QED BY <1>2, <1>3

\* The groups of shards.
LEMMA GroupsFacts == Shards!GroupsPartition
<1> SUFFICES ASSUME NEW k \in 1..ShardCount, ShardCount % k = 0, NEW s \in 0..ShardCount - 1
             PROVE  \E g \in 0..k - 1 : \A other \in 0..k - 1 : s \in Shards!ShardsInGroup(other, k) <=> other = g
  BY DEF Shards!GroupsPartition
<1> DEFINE z == ShardCount \div k
           g == s \div z
<1>1. k \in Nat \ {0} /\ ShardCount \in Nat \ {0} /\ s \in Nat /\ s < ShardCount
  BY ShardAssumption
<1>2. z \in Nat \ {0} /\ ShardCount = k * z
  BY <1>1, DivisionFacts
<1> HIDE DEF z
<1>3. g \in Nat /\ g * z <= s /\ s < g * z + z
  BY <1>1, <1>2, QuotientFacts
<1> HIDE DEF g
<1>4. g < k
  <2> SUFFICES ASSUME ~(g < k) PROVE FALSE
    OBVIOUS
  <2>1. k * z <= g * z
    <3>1. CASE g = k
      BY <1>1, <1>2, <3>1
    <3>2. CASE k < g
      <4>1. k * z + z <= g * z
        BY <1>1, <1>2, <1>3, <3>2, LessTimes
      <4>2. k * z \in Nat /\ g * z \in Nat
        BY <1>1, <1>2, <1>3
      <4> QED BY <1>2, <4>1, <4>2
    <3> QED BY <1>1, <1>3, <3>1, <3>2
  <2>2. k * z \in Nat /\ g * z \in Nat
    BY <1>1, <1>2, <1>3
  <2> QED BY <1>1, <1>2, <1>3, <2>1, <2>2
<1>5. ASSUME NEW other \in 0..k - 1 PROVE s \in Shards!ShardsInGroup(other, k) <=> other = g
  <2>1. other * z \in Nat /\ g * z \in Nat /\ other \in Nat
    BY <1>1, <1>2, <1>3
  <2>2. s \in Shards!ShardsInGroup(other, k) <=> other * z <= s /\ s < other * z + z
    <3>1. s \in Shards!ShardsInGroup(other, k) <=> s \in other * z..other * z + z - 1
      BY DEF Shards!ShardsInGroup, z
    <3> QED BY <1>1, <1>2, <2>1, <3>1
  <2>3. CASE other = g
    BY <1>3, <2>2, <2>3
  <2>4. CASE other < g
    <3>1. other * z + z <= g * z
      BY <1>2, <1>3, <2>1, <2>4, LessTimes
    <3> QED BY <1>1, <1>2, <1>3, <2>1, <2>2, <2>4, <3>1
  <2>5. CASE g < other
    <3>1. g * z + z <= other * z
      BY <1>2, <1>3, <2>1, <2>5, LessTimes
    <3> QED BY <1>1, <1>2, <1>3, <2>1, <2>2, <2>5, <3>1
  <2> QED BY <1>1, <1>3, <2>1, <2>3, <2>4, <2>5
<1>6. g \in 0..k - 1
  BY <1>1, <1>3, <1>4
<1> QED BY <1>5, <1>6

LEMMA RingFacts == RingInv => Shards!TypeOK /\ Shards!ShardsAreFound
<1>1. RingInv => Shards!TypeOK
  BY DEF RingInv, RingOf, Apart, RingPoints, Shards!TypeOK
<1> QED BY <1>1, ShardsStayFacts, GroupsFacts DEF Shards!ShardsAreFound

(* Whatever workers were added, added again and removed, and in whatever   *)
(* order the process added its own: a shard is served by the nearest       *)
(* present worker, another worker that comes or goes moves no shard but    *)
(* its own, a removed worker is read no more, and groups whose number      *)
(* divides that of the shards have every shard once.                       *)
THEOREM ShardsAreAlwaysFound == Shards!Spec => [](Shards!TypeOK /\ Shards!ShardsAreFound)
<1>1. RingInv /\ [Shards!Next]_Shards!ringVars => RingInv'
  BY RingStep DEF Shards!ringVars, ringVars
<1> QED BY <1>1, RingInitOk, RingFacts, PTL DEF Shards!Spec

\* The same where the parts of the server stand side by side, with the partitions.
THEOREM RowsKeepTheirPlace == PartsSpec => []RowsHaveAPlace
<1> DEFINE Inv == (part = "partitions" => DayInv) /\ (part = "shards" => RingInv)
<1>1. PartsInit => Inv
  BY DayInitOk, RingInitOk DEF PartsInit
<1>2. Inv /\ [PartsNext]_partsVars => Inv'
  <2> SUFFICES ASSUME Inv, [PartsNext]_partsVars PROVE Inv'
    OBVIOUS
  <2>1. part' = part
    BY DEF PartsNext, partsVars
  <2>2. ASSUME part = "partitions" PROVE DayInv'
    <3>1. DayInv /\ [Days!Next]_dayVars
      BY <2>2 DEF PartsNext, partsVars
    <3> QED BY <3>1, DayStep
  <2>3. ASSUME part = "shards" PROVE RingInv'
    <3>1. RingInv /\ [Shards!Next]_ringVars
      BY <2>3 DEF PartsNext, partsVars
    <3> QED BY <3>1, RingStep
  <2> QED BY <2>1, <2>2, <2>3
<1>3. Inv => RowsHaveAPlace
  BY DayFacts, RingFacts DEF RowsHaveAPlace
<1> QED BY <1>1, <1>2, <1>3, PTL DEF PartsSpec

(***************************************************************************)
(* The link previews                                                       *)
(***************************************************************************)
Rows == Preview!Messages \X Preview!Links
Fetching == [pc : {"idle", "cache", "fetch", "keep", "update", "announce"}, batch : SUBSET Rows,
             outcome : {"none", "fetched", "broken"}, ready : [Preview!Messages -> SUBSET Rows]]
PreviewType ==
    /\ DOMAIN previews \subseteq Rows /\ previews \in [DOMAIN previews -> {"pending", "success", "failed"}]
    /\ DOMAIN created = DOMAIN previews
    /\ \A m \in Preview!Messages : enqueue[m].left \subseteq DOMAIN Texts[m]
    /\ enqueue \in [Preview!Messages -> [left : SUBSET Nat, requests : Nat]]
    /\ fetcher \in [Processors -> Fetching]
    /\ cached \subseteq Preview!Links /\ unheard \subseteq Rows /\ announced \in [Processors -> SUBSET Rows]
    /\ refreshes \in 0..MaxRefreshes /\ mishaps \in 0..MaxMishaps

\* What a single processor holds: the rows of its batch are pending until it comes to them, so what
\* it has announced or is about to is not fetched again.
Succeeded(r) == r \in DOMAIN previews /\ previews[r] = "success"
HeldBy(p) ==
    /\ \A r \in fetcher[p].batch : r \in DOMAIN previews /\ previews[r] = "pending"
    /\ \A m \in Preview!Messages : \A r \in fetcher[p].ready[m] : Succeeded(r)
    /\ \A r \in announced[p] \cup unheard : Succeeded(r)
    /\ \A r \in Rows : Succeeded(r) => r \in announced[p] \cup unheard \cup fetcher[p].ready[r[1]]
PreviewInv == PreviewType /\ \A p \in Processors : Processors = {p} => HeldBy(p)

LEMMA PreviewInitOk == Preview!Init => PreviewInv
<1> SUFFICES ASSUME Preview!Init PROVE PreviewInv
  OBVIOUS
<1>1. /\ previews = [r \in {} |-> "pending"] /\ created = [r \in {} |-> 0] /\ unheard = {} /\ cached = {}
      /\ announced = [p \in Processors |-> {}] /\ refreshes = 0 /\ mishaps = 0
      /\ enqueue = [m \in Preview!Messages |-> [left |-> {}, requests |-> 0]]
      /\ fetcher = [p \in Processors |-> Preview!Idle]
  BY DEF Preview!Init
<1>2. Preview!Idle \in Fetching /\ Preview!Idle.batch = {} /\ \A m \in Preview!Messages : Preview!Idle.ready[m] = {}
  BY DEF Preview!Idle, Fetching
<1>3. DOMAIN previews = {} /\ DOMAIN created = {}
  BY <1>1
<1>4. 0 \in 0..MaxRefreshes /\ 0 \in 0..MaxMishaps
  BY PreviewAssumption
<1>5. \A m \in Preview!Messages : enqueue[m].left = {}
  BY <1>1
<1>6. enqueue \in [Preview!Messages -> [left : SUBSET Nat, requests : Nat]]
  BY <1>1
<1>7. PreviewType
  BY <1>1, <1>2, <1>3, <1>4, <1>5, <1>6 DEF PreviewType
<1>8. \A p \in Processors : HeldBy(p)
  BY <1>1, <1>2, <1>3 DEF HeldBy, Succeeded
<1> QED BY <1>7, <1>8 DEF PreviewInv

LEMMA PreviewFacts == PreviewInv => Preview!TypeOK /\ Preview!FoundIsAnnounced
<1> SUFFICES ASSUME PreviewInv PROVE Preview!TypeOK /\ Preview!FoundIsAnnounced
  OBVIOUS
<1>1. Preview!TypeOK
  BY DEF PreviewInv, PreviewType, Preview!TypeOK, Rows
<1>2. Preview!FoundIsAnnounced
  BY DEF PreviewInv, PreviewType, HeldBy, Succeeded, Preview!FoundIsAnnounced
<1> QED BY <1>1, <1>2

\* A mishap is counted.
LEMMA MishapFacts == PreviewType /\ Preview!Mishap => mishaps' \in 0..MaxMishaps
BY PreviewAssumption DEF PreviewType, Preview!Mishap

LEMMA PreviewEnqueue ==
  ASSUME PreviewInv, NEW m \in Preview!Messages, Preview!EnqueuePreviews(m)
  PROVE  PreviewInv'
<1>1. /\ enqueue' = [enqueue EXCEPT ![m] = [left |-> Preview!ExtractUrls(Texts[m]), requests |-> @.requests + 1]]
      /\ previews' = previews /\ created' = created /\ fetcher' = fetcher /\ cached' = cached /\ announced' = announced
      /\ unheard' = unheard /\ refreshes' = refreshes /\ mishaps' = mishaps
  BY DEF Preview!EnqueuePreviews
<1>2. Preview!ExtractUrls(Texts[m]) \subseteq DOMAIN Texts[m]
  BY DEF Preview!ExtractUrls
<1>3. DOMAIN Texts[m] \subseteq Nat
  BY PreviewAssumption DEF Preview!Messages
<1>4. PreviewType
  BY DEF PreviewInv
<1>5. enqueue' \in [Preview!Messages -> [left : SUBSET Nat, requests : Nat]]
  <2>1. enqueue[m].requests + 1 \in Nat
    BY <1>4 DEF PreviewType
  <2> QED BY <1>1, <1>2, <1>3, <1>4, <2>1 DEF PreviewType
<1>6. \A n \in Preview!Messages : enqueue'[n].left \subseteq DOMAIN Texts[n]
  BY <1>1, <1>2, <1>4 DEF PreviewType
<1>7. PreviewType'
  BY <1>1, <1>4, <1>5, <1>6 DEF PreviewType
<1> QED BY <1>1, <1>7 DEF PreviewInv, HeldBy, Succeeded

LEMMA PreviewInsert ==
  ASSUME PreviewInv, NEW m \in Preview!Messages, Preview!InsertPreview(m)
  PROVE  PreviewInv'
<1>1. fetcher' = fetcher /\ cached' = cached /\ announced' = announced /\ unheard' = unheard /\ refreshes' = refreshes
  BY DEF Preview!InsertPreview
<1>2. PICK i \in enqueue[m].left, l \in SUBSET enqueue[m].left :
         /\ enqueue' = [enqueue EXCEPT ![m].left = l]
         /\ \/ previews' = previews /\ created' = created
            \/ LET row == <<m, Texts[m][i]>> IN
               /\ row \notin DOMAIN previews
               /\ previews' = [r \in DOMAIN previews \cup {row} |-> IF r = row THEN "pending" ELSE previews[r]]
               /\ created' = [r \in DOMAIN created \cup {row} |-> IF r = row THEN Preview!Cardinality(DOMAIN created) ELSE created[r]]
         /\ mishaps' = mishaps \/ Preview!Mishap
  <2>1. PICK i \in enqueue[m].left :
          LET row == <<m, Texts[m][i]>> IN
          \/ /\ IF row \in DOMAIN previews THEN previews' = previews /\ created' = created
                ELSE /\ previews' = [r \in DOMAIN previews \cup {row} |-> IF r = row THEN "pending" ELSE previews[r]]
                     /\ created' = [r \in DOMAIN created \cup {row} |->
                                       IF r = row THEN Preview!Cardinality(DOMAIN created) ELSE created[r]]
             /\ enqueue' = [enqueue EXCEPT ![m].left = @ \ {i}]
             /\ mishaps' = mishaps
          \/ /\ Preview!Mishap
             /\ enqueue' = [enqueue EXCEPT ![m].left = {}]
             /\ previews' = previews /\ created' = created
    BY DEF Preview!InsertPreview
  <2>2. CASE Preview!Mishap /\ enqueue' = [enqueue EXCEPT ![m].left = {}] /\ previews' = previews /\ created' = created
    <3>1. {} \in SUBSET enqueue[m].left
      OBVIOUS
    <3> QED BY <2>2, <3>1
  <2>3. CASE enqueue' = [enqueue EXCEPT ![m].left = @ \ {i}] /\ mishaps' = mishaps
    <3>1. enqueue[m].left \ {i} \in SUBSET enqueue[m].left /\ enqueue' = [enqueue EXCEPT ![m].left = enqueue[m].left \ {i}]
      BY <2>3
    <3> QED BY <2>1, <2>3, <3>1
  <2> QED BY <2>1, <2>2, <2>3
<1>3. PreviewType
  BY DEF PreviewInv
<1>4. mishaps' \in 0..MaxMishaps
  BY <1>2, <1>3, MishapFacts DEF PreviewType
<1>5. enqueue' \in [Preview!Messages -> [left : SUBSET Nat, requests : Nat]] /\ \A n \in Preview!Messages : enqueue'[n].left \subseteq DOMAIN Texts[n]
  BY <1>2, <1>3 DEF PreviewType
<1>6. \A r \in Rows : (r \in DOMAIN previews => r \in DOMAIN previews' /\ previews'[r] = previews[r])
                      /\ (Succeeded(r)' => Succeeded(r))
  BY <1>2 DEF Succeeded
<1>7. /\ DOMAIN previews' \subseteq Rows /\ previews' \in [DOMAIN previews' -> {"pending", "success", "failed"}]
      /\ DOMAIN created' = DOMAIN previews'
  <2>1. CASE previews' = previews /\ created' = created
    BY <1>3, <2>1 DEF PreviewType
  <2>2. CASE previews' # previews \/ created' # created
    <3>1. PICK row : row = <<m, Texts[m][i]>>
      OBVIOUS
    <3>2. row \in Rows
      <4>1. i \in DOMAIN Texts[m]
        BY <1>2, <1>3 DEF PreviewType
      <4>2. Texts[m][i] \in Preview!Links
        BY <4>1 DEF Preview!Links
      <4> QED BY <3>1, <4>2 DEF Rows
    <3>3. /\ previews' = [r \in DOMAIN previews \cup {row} |-> IF r = row THEN "pending" ELSE previews[r]]
          /\ created' = [r \in DOMAIN created \cup {row} |-> IF r = row THEN Preview!Cardinality(DOMAIN created) ELSE created[r]]
      BY <1>2, <2>2, <3>1
    <3> QED BY <1>3, <3>2, <3>3 DEF PreviewType
  <2> QED BY <2>1, <2>2
<1>8. PreviewType'
  BY <1>1, <1>3, <1>4, <1>5, <1>7 DEF PreviewType
<1>9. ASSUME NEW p \in Processors, HeldBy(p) PROVE HeldBy(p)'
  <2>1. fetcher[p].batch \subseteq Rows /\ announced[p] \cup unheard \subseteq Rows
        /\ \A n \in Preview!Messages : fetcher[p].ready[n] \subseteq Rows
    BY <1>3 DEF PreviewType, Fetching
  <2>2. \A r \in Rows : Succeeded(r) => Succeeded(r)'
    BY <1>6 DEF Succeeded
  <2> QED BY <1>1, <1>6, <1>9, <2>1, <2>2 DEF HeldBy
<1> QED BY <1>8, <1>9 DEF PreviewInv

\* A refresh takes no success back.
LEMMA PreviewRefresh ==
  ASSUME PreviewInv, NEW m \in Preview!Messages, Preview!RefreshFailed(m)
  PROVE  PreviewInv'
<1>1. /\ previews' = [r \in DOMAIN previews |-> IF r[1] = m /\ previews[r] = "failed" THEN "pending" ELSE previews[r]]
      /\ created' = created /\ enqueue' = enqueue /\ fetcher' = fetcher /\ cached' = cached /\ announced' = announced
      /\ unheard' = unheard /\ mishaps' = mishaps /\ refreshes' = refreshes + 1 /\ refreshes < MaxRefreshes
  BY DEF Preview!RefreshFailed
<1>2. PreviewType
  BY DEF PreviewInv
<1>3. refreshes' \in 0..MaxRefreshes
  BY <1>1, <1>2, PreviewAssumption DEF PreviewType
<1>4. /\ DOMAIN previews' = DOMAIN previews /\ previews' \in [DOMAIN previews' -> {"pending", "success", "failed"}]
  BY <1>1, <1>2 DEF PreviewType
<1>5. PreviewType'
  BY <1>1, <1>2, <1>3, <1>4 DEF PreviewType
<1>6. \A r \in DOMAIN previews : (previews'[r] = "success" <=> previews[r] = "success") /\ (previews[r] = "pending" => previews'[r] = "pending")
  BY <1>1
<1> QED BY <1>1, <1>4, <1>5, <1>6 DEF PreviewInv, HeldBy, Succeeded

\* The steps of a processor before the outcome is stored touch only what it holds, and the cache.
LEMMA PreviewWork ==
  ASSUME PreviewInv, NEW p \in Processors, NEW f \in Fetching, fetcher' = [fetcher EXCEPT ![p] = f],
         previews' = previews, created' = created, enqueue' = enqueue, announced' = announced, unheard' = unheard,
         refreshes' = refreshes, mishaps' \in 0..MaxMishaps, cached' \subseteq Preview!Links,
         f.ready = fetcher[p].ready, HeldBy(p) => \A r \in f.batch : r \in DOMAIN previews /\ previews[r] = "pending"
  PROVE  PreviewInv'
<1>1. PreviewType
  BY DEF PreviewInv
<1>2. fetcher' \in [Processors -> Fetching] /\ fetcher'[p] = f
  BY <1>1 DEF PreviewType
<1>3. PreviewType'
  BY <1>1, <1>2 DEF PreviewType
<1>4. ASSUME NEW q \in Processors, Processors = {q} PROVE HeldBy(q)'
  <2>1. q = p /\ HeldBy(p)
    BY <1>4 DEF PreviewInv
  <2> QED BY <1>2, <2>1 DEF HeldBy, Succeeded
<1> QED BY <1>3, <1>4 DEF PreviewInv

\* The four steps up to the outcome.
LEMMA PreviewFetch ==
  ASSUME PreviewInv, NEW p \in Processors,
         Preview!GetPending(p) \/ Preview!GetCached(p) \/ Preview!FetchPage(p) \/ Preview!SetCached(p)
  PROVE  PreviewInv'
<1>1. PreviewType /\ fetcher \in [Processors -> Fetching] /\ fetcher[p] \in Fetching
  BY DEF PreviewInv, PreviewType
<1>2. HeldBy(p) => \A r \in fetcher[p].batch : r \in DOMAIN previews /\ previews[r] = "pending"
  BY DEF HeldBy
<1>3. /\ previews' = previews /\ created' = created /\ enqueue' = enqueue /\ announced' = announced /\ unheard' = unheard
      /\ refreshes' = refreshes
  BY DEF Preview!GetPending, Preview!GetCached, Preview!FetchPage, Preview!SetCached, Preview!requestVars
<1>4. mishaps' \in 0..MaxMishaps
  <2>1. mishaps' = mishaps \/ Preview!Mishap
    BY DEF Preview!GetPending, Preview!GetCached, Preview!FetchPage, Preview!SetCached
  <2> QED BY <1>1, <2>1, MishapFacts DEF PreviewType
<1>5. cached' \subseteq Preview!Links
  <2>1. cached' = cached \/ \E row \in Preview!AtHand(p) : cached' = cached \cup {row[2]}
    BY DEF Preview!GetPending, Preview!GetCached, Preview!FetchPage, Preview!SetCached
  <2>2. Preview!AtHand(p) \subseteq Rows
    BY <1>1 DEF Preview!AtHand, Preview!Oldest, Fetching
  <2>3. \A row \in Rows : row[2] \in Preview!Links
    BY DEF Rows
  <2> QED BY <1>1, <2>1, <2>2, <2>3 DEF PreviewType
<1>6. CASE Preview!GetPending(p)
  <2>1. PICK f : f = [fetcher[p] EXCEPT !.pc = "cache", !.batch = Preview!Oldest(MaxPending, Preview!Pending)]
    OBVIOUS
  <2>2. Preview!Oldest(MaxPending, Preview!Pending) \subseteq {r \in DOMAIN previews : previews[r] = "pending"}
    BY DEF Preview!Oldest, Preview!Pending
  <2>3. f \in Fetching /\ f.ready = fetcher[p].ready /\ f.batch = Preview!Oldest(MaxPending, Preview!Pending)
    BY <1>1, <2>1, <2>2 DEF Fetching, PreviewType
  <2>4. fetcher' = [fetcher EXCEPT ![p] = f]
    BY <1>1, <1>6, <2>1 DEF Preview!GetPending
  <2>5. \A r \in f.batch : r \in DOMAIN previews /\ previews[r] = "pending"
    BY <2>2, <2>3
  <2> QED BY <1>3, <1>4, <1>5, <2>3, <2>4, <2>5, PreviewWork
<1>7. CASE Preview!GetCached(p) \/ Preview!FetchPage(p) \/ Preview!SetCached(p)
  <2>1. PICK f \in Fetching : fetcher' = [fetcher EXCEPT ![p] = f] /\ f.ready = fetcher[p].ready /\ f.batch = fetcher[p].batch
    <3>1. \E c \in {"fetch", "keep"} : fetcher' = [fetcher EXCEPT ![p].pc = c]
          \/ \E o \in {"fetched", "broken"} : fetcher' = [fetcher EXCEPT ![p].pc = "update", ![p].outcome = o]
      BY <1>7 DEF Preview!GetCached, Preview!FetchPage, Preview!SetCached, Preview!Outcome
    <3>2. ASSUME NEW c \in {"fetch", "keep"}, fetcher' = [fetcher EXCEPT ![p].pc = c]
          PROVE  \E f \in Fetching : fetcher' = [fetcher EXCEPT ![p] = f] /\ f.ready = fetcher[p].ready /\ f.batch = fetcher[p].batch
      <4>1. PICK f : f = [fetcher[p] EXCEPT !.pc = c]
        OBVIOUS
      <4>2. f \in Fetching /\ f.ready = fetcher[p].ready /\ f.batch = fetcher[p].batch
        BY <1>1, <4>1 DEF Fetching
      <4> QED BY <3>2, <4>1, <4>2
    <3>3. ASSUME NEW o \in {"fetched", "broken"}, fetcher' = [fetcher EXCEPT ![p].pc = "update", ![p].outcome = o]
          PROVE  \E f \in Fetching : fetcher' = [fetcher EXCEPT ![p] = f] /\ f.ready = fetcher[p].ready /\ f.batch = fetcher[p].batch
      <4>1. PICK f : f = [fetcher[p] EXCEPT !.pc = "update", !.outcome = o]
        OBVIOUS
      <4>2. f \in Fetching /\ f.ready = fetcher[p].ready /\ f.batch = fetcher[p].batch
        BY <1>1, <4>1 DEF Fetching
      <4>3. fetcher' = [fetcher EXCEPT ![p] = f]
        BY <1>1, <3>3, <4>1
      <4> QED BY <4>2, <4>3
    <3> QED BY <3>1, <3>2, <3>3
  <2> QED BY <1>2, <1>3, <1>4, <1>5, <2>1, PreviewWork
<1> QED BY <1>6, <1>7

\* The outcome is stored: a row of the batch leaves it, and a success joins what will be announced.
LEMMA PreviewUpdate ==
  ASSUME PreviewInv, NEW p \in Processors, Preview!UpdatePreview(p)
  PROVE  PreviewInv'
<1>1. PreviewType /\ fetcher \in [Processors -> Fetching] /\ fetcher[p] \in Fetching
      /\ previews \in [DOMAIN previews -> {"pending", "success", "failed"}]
  BY DEF PreviewInv, PreviewType
<1>2. /\ created' = created /\ enqueue' = enqueue /\ announced' = announced /\ unheard' = unheard
      /\ refreshes' = refreshes /\ cached' = cached
  BY DEF Preview!UpdatePreview, Preview!requestVars
<1>3. PICK row \in fetcher[p].batch :
        \/ /\ previews' = [previews EXCEPT ![row] = "success"]
           /\ fetcher' = [fetcher EXCEPT ![p] = Preview!NextOf(p, row, [fetcher[p].ready EXCEPT ![row[1]] = @ \cup {row}])]
           /\ mishaps' = mishaps
        \/ /\ previews' = [previews EXCEPT ![row] = "failed"]
           /\ fetcher' = [fetcher EXCEPT ![p] = Preview!NextOf(p, row, fetcher[p].ready)]
           /\ mishaps' = mishaps
        \/ /\ mishaps' = mishaps \/ Preview!Mishap
           /\ fetcher' = [fetcher EXCEPT ![p] = Preview!NextOf(p, row, fetcher[p].ready)]
           /\ previews' = previews
  <2>1. PICK row \in Preview!AtHand(p) :
          \/ /\ previews' = [previews EXCEPT ![row] = "success"]
             /\ fetcher' = [fetcher EXCEPT ![p] = Preview!NextOf(p, row, [fetcher[p].ready EXCEPT ![row[1]] = @ \cup {row}])]
             /\ mishaps' = mishaps
          \/ /\ previews' = [previews EXCEPT ![row] = "failed"]
             /\ fetcher' = [fetcher EXCEPT ![p] = Preview!NextOf(p, row, fetcher[p].ready)]
             /\ mishaps' = mishaps
          \/ /\ mishaps' = mishaps \/ Preview!Mishap
             /\ fetcher' = [fetcher EXCEPT ![p] = Preview!NextOf(p, row, fetcher[p].ready)]
             /\ previews' = previews
    BY DEF Preview!UpdatePreview
  <2>2. row \in fetcher[p].batch
    BY DEF Preview!AtHand, Preview!Oldest
  <2> QED BY <2>1, <2>2
<1>4. mishaps' \in 0..MaxMishaps
  BY <1>1, <1>3, MishapFacts DEF PreviewType
<1>5. row \in Rows /\ row[1] \in Preview!Messages
  BY <1>1 DEF Fetching, Rows
<1>6. ASSUME NEW ready \in [Preview!Messages -> SUBSET Rows]
      PROVE  /\ Preview!NextOf(p, row, ready) \in Fetching /\ Preview!NextOf(p, row, ready).ready = ready
             /\ Preview!NextOf(p, row, ready).batch = fetcher[p].batch \ {row}
  BY <1>1 DEF Preview!NextOf, Fetching
<1>7. CASE previews' = previews /\ fetcher' = [fetcher EXCEPT ![p] = Preview!NextOf(p, row, fetcher[p].ready)]
  <2>1. PICK f : f = Preview!NextOf(p, row, fetcher[p].ready)
    OBVIOUS
  <2>2. f \in Fetching /\ f.ready = fetcher[p].ready /\ f.batch = fetcher[p].batch \ {row}
    <3>1. fetcher[p].ready \in [Preview!Messages -> SUBSET Rows]
      BY <1>1 DEF Fetching
    <3> QED BY <1>6, <2>1, <3>1
  <2>3. fetcher' = [fetcher EXCEPT ![p] = f]
    BY <1>7, <2>1
  <2>4. HeldBy(p) => \A r \in f.batch : r \in DOMAIN previews /\ previews[r] = "pending"
    BY <2>2 DEF HeldBy
  <2>5. cached' \subseteq Preview!Links
    BY <1>1, <1>2 DEF PreviewType
  <2> QED BY <1>2, <1>4, <1>7, <2>2, <2>3, <2>4, <2>5, PreviewWork
<1>8. ASSUME NEW s \in {"success", "failed"}, previews' = [previews EXCEPT ![row] = s],
             NEW ready \in [Preview!Messages -> SUBSET Rows], fetcher' = [fetcher EXCEPT ![p] = Preview!NextOf(p, row, ready)],
             \A m \in Preview!Messages : ready[m] \subseteq fetcher[p].ready[m] \cup (IF s = "success" THEN {row} ELSE {}),
             \A m \in Preview!Messages : fetcher[p].ready[m] \subseteq ready[m],
             s = "success" => row \in ready[row[1]]
      PROVE  PreviewInv'
  <2>1. PICK f \in Fetching : f.ready = ready /\ f.batch = fetcher[p].batch \ {row} /\ fetcher' = [fetcher EXCEPT ![p] = f]
    BY <1>6, <1>8
  <2>2. fetcher' \in [Processors -> Fetching] /\ fetcher'[p] = f
    BY <1>1, <2>1
  <2>3. DOMAIN previews' = DOMAIN previews /\ previews' \in [DOMAIN previews' -> {"pending", "success", "failed"}]
    BY <1>1, <1>8
  <2>4. PreviewType'
    BY <1>1, <1>2, <1>4, <2>2, <2>3 DEF PreviewType
  <2>5. ASSUME NEW q \in Processors, Processors = {q} PROVE HeldBy(q)'
    <3>1. q = p /\ HeldBy(p)
      BY <2>5 DEF PreviewInv
    <3>2. row \in DOMAIN previews /\ previews[row] = "pending" /\ previews'[row] = s
      BY <1>1, <1>8, <3>1 DEF HeldBy
    <3>3. \A r \in DOMAIN previews : r # row => previews'[r] = previews[r]
      BY <1>1, <1>8
    <3>4. \A r : Succeeded(r) => Succeeded(r)'
      BY <2>3, <3>2, <3>3 DEF Succeeded
    <3>5. \A r : Succeeded(r)' => Succeeded(r) \/ (r = row /\ s = "success")
      BY <2>3, <3>2, <3>3 DEF Succeeded
    <3>6. s = "success" => Succeeded(row)'
      BY <2>3, <3>2 DEF Succeeded
    <3>7. \A r \in f.batch : r \in DOMAIN previews' /\ previews'[r] = "pending"
      BY <2>1, <2>3, <3>1, <3>3 DEF HeldBy
    <3>8. \A m \in Preview!Messages : \A r \in f.ready[m] : Succeeded(r)'
      BY <1>8, <2>1, <3>1, <3>4, <3>6 DEF HeldBy
    <3>9. \A r \in announced[p] \cup unheard : Succeeded(r)'
      BY <3>1, <3>4 DEF HeldBy
    <3>10. \A r \in Rows : Succeeded(r)' => r \in announced[p] \cup unheard \cup f.ready[r[1]]
      <4>1. \A r \in Rows : r[1] \in Preview!Messages
        BY DEF Rows
      <4> QED BY <1>8, <2>1, <3>1, <3>5, <4>1 DEF HeldBy
    <3> QED BY <1>2, <2>2, <3>1, <3>7, <3>8, <3>9, <3>10 DEF HeldBy
  <2> QED BY <2>4, <2>5 DEF PreviewInv
<1>9. fetcher[p].ready \in [Preview!Messages -> SUBSET Rows]
  BY <1>1 DEF Fetching
<1>10. CASE previews' = [previews EXCEPT ![row] = "success"]
            /\ fetcher' = [fetcher EXCEPT ![p] = Preview!NextOf(p, row, [fetcher[p].ready EXCEPT ![row[1]] = @ \cup {row}])]
  <2>1. PICK ready : ready = [fetcher[p].ready EXCEPT ![row[1]] = @ \cup {row}]
    OBVIOUS
  <2>2. ready \in [Preview!Messages -> SUBSET Rows]
    <3>1. fetcher[p].ready[row[1]] \cup {row} \in SUBSET Rows
      BY <1>5, <1>9
    <3> QED BY <1>5, <1>9, <2>1, <3>1
  <2>4. fetcher' = [fetcher EXCEPT ![p] = Preview!NextOf(p, row, ready)]
    BY <1>10, <2>1
  <2>3. /\ \A m \in Preview!Messages : ready[m] \subseteq fetcher[p].ready[m] \cup {row} /\ fetcher[p].ready[m] \subseteq ready[m]
        /\ row \in ready[row[1]]
    BY <1>5, <1>9, <2>1
  <2> QED BY <1>8, <1>10, <2>2, <2>3, <2>4
<1>11. CASE previews' = [previews EXCEPT ![row] = "failed"] /\ fetcher' = [fetcher EXCEPT ![p] = Preview!NextOf(p, row, fetcher[p].ready)]
  BY <1>8, <1>9, <1>11
<1> QED BY <1>3, <1>7, <1>10, <1>11

\* A processor lets go of rows; successes that were to be announced have been, or are known not to be.
LEMMA PreviewHandOver ==
  ASSUME PreviewInv, NEW p \in Processors, NEW f \in Fetching, NEW a \in SUBSET Rows, NEW u \in SUBSET Rows,
         previews' = previews, created' = created, enqueue' = enqueue, refreshes' = refreshes, cached' = cached,
         mishaps' \in 0..MaxMishaps, fetcher' = [fetcher EXCEPT ![p] = f], f.batch \subseteq fetcher[p].batch,
         announced' = [announced EXCEPT ![p] = announced[p] \cup a], unheard' = unheard \cup u,
         \A m \in Preview!Messages : f.ready[m] \subseteq fetcher[p].ready[m],
         \A m \in Preview!Messages : fetcher[p].ready[m] \subseteq f.ready[m] \cup a \cup u,
         \A r \in a \cup u : \E m \in Preview!Messages : r \in fetcher[p].ready[m]
  PROVE  PreviewInv'
<1>1. PreviewType /\ fetcher \in [Processors -> Fetching]
  BY DEF PreviewInv, PreviewType
<1>3. fetcher' \in [Processors -> Fetching] /\ fetcher'[p] = f
      /\ announced' \in [Processors -> SUBSET Rows] /\ announced'[p] = announced[p] \cup a /\ unheard' \subseteq Rows
  BY <1>1 DEF PreviewType
<1>8. PreviewType'
  BY <1>1, <1>3 DEF PreviewType
<1>9. ASSUME NEW q \in Processors, Processors = {q} PROVE HeldBy(q)'
  <2>1. q = p /\ HeldBy(p)
    BY <1>9 DEF PreviewInv
  <2>2. \A r : Succeeded(r)' <=> Succeeded(r)
    BY DEF Succeeded
  <2>3. \A r \in f.batch : r \in DOMAIN previews' /\ previews'[r] = "pending"
    BY <2>1 DEF HeldBy
  <2>4. \A m \in Preview!Messages : \A r \in f.ready[m] : Succeeded(r)'
    BY <2>1, <2>2 DEF HeldBy
  <2>5. \A r \in announced'[p] \cup unheard' : Succeeded(r)'
    BY <1>3, <2>1, <2>2 DEF HeldBy
  <2>6. \A r \in Rows : Succeeded(r)' => r \in announced'[p] \cup unheard' \cup f.ready[r[1]]
    <3>1. \A r \in Rows : r[1] \in Preview!Messages
      BY DEF Rows
    <3> QED BY <1>3, <2>1, <2>2, <3>1 DEF HeldBy
  <2> QED BY <1>3, <2>1, <2>3, <2>4, <2>5, <2>6 DEF HeldBy
<1> QED BY <1>8, <1>9 DEF PreviewInv

LEMMA PreviewAnnounce ==
  ASSUME PreviewInv, NEW p \in Processors, Preview!Announce(p) \/ Preview!ServerDies(p)
  PROVE  PreviewInv'
<1>1. PreviewType /\ fetcher \in [Processors -> Fetching] /\ fetcher[p] \in Fetching
  BY DEF PreviewInv, PreviewType
<1>2. previews' = previews /\ created' = created /\ enqueue' = enqueue /\ refreshes' = refreshes /\ cached' = cached
  BY DEF Preview!Announce, Preview!ServerDies, Preview!requestVars
<1>3. mishaps' \in 0..MaxMishaps
  <2>1. mishaps' = mishaps \/ Preview!Mishap
    BY DEF Preview!Announce, Preview!ServerDies
  <2> QED BY <1>1, <2>1, MishapFacts DEF PreviewType
<1>4. Preview!Idle \in Fetching /\ Preview!Idle.batch = {} /\ \A m \in Preview!Messages : Preview!Idle.ready[m] = {}
  BY DEF Preview!Idle, Fetching
<1>5. \A m \in Preview!Messages : fetcher[p].ready[m] \subseteq Rows
  BY <1>1 DEF Fetching
<1>6. announced' = announced => announced' = [announced EXCEPT ![p] = announced[p] \cup {}]
  BY <1>1 DEF PreviewType
<1>7. CASE Preview!Announce(p) /\ {m \in Preview!Messages : fetcher[p].ready[m] # {}} = {}
  <2>1. fetcher' = [fetcher EXCEPT ![p] = Preview!Idle] /\ announced' = announced /\ unheard' = unheard \cup {}
    BY <1>7 DEF Preview!Announce
  <2>2. \A m \in Preview!Messages : fetcher[p].ready[m] = {}
    BY <1>7
  <2>3. PICK a \in SUBSET Rows : a = {}
    OBVIOUS
  <2>4. announced' = [announced EXCEPT ![p] = announced[p] \cup a] /\ unheard' = unheard \cup a
    BY <1>6, <2>1, <2>3
  <2>5. PICK f \in Fetching : f = Preview!Idle
    BY <1>4
  <2>6. /\ fetcher' = [fetcher EXCEPT ![p] = f] /\ f.batch \subseteq fetcher[p].batch
        /\ \A m \in Preview!Messages : f.ready[m] \subseteq fetcher[p].ready[m]
        /\ \A m \in Preview!Messages : fetcher[p].ready[m] \subseteq f.ready[m] \cup a \cup a
        /\ \A r \in a \cup a : \E m \in Preview!Messages : r \in fetcher[p].ready[m]
    BY <1>4, <2>1, <2>2, <2>3, <2>5
  <2> QED BY <1>2, <1>3, <2>4, <2>6, PreviewHandOver
<1>8. CASE Preview!Announce(p) /\ {m \in Preview!Messages : fetcher[p].ready[m] # {}} # {}
  <2>1. PICK m \in Preview!Messages :
          /\ fetcher' = [fetcher EXCEPT ![p].ready[m] = {}]
          /\ \/ announced' = [announced EXCEPT ![p] = @ \cup fetcher[p].ready[m]] /\ unheard' = unheard
             \/ unheard' = unheard \cup fetcher[p].ready[m] /\ announced' = announced
    BY <1>8 DEF Preview!Announce
  <2>2. PICK f : f = [fetcher[p] EXCEPT !.ready = [fetcher[p].ready EXCEPT ![m] = {}]]
    OBVIOUS
  <2>3. fetcher' = [fetcher EXCEPT ![p] = f]
    BY <1>1, <2>1, <2>2
  <2>4. fetcher[p].ready \in [Preview!Messages -> SUBSET Rows]
    BY <1>1 DEF Fetching
  <2>5. f \in Fetching /\ f.batch = fetcher[p].batch /\ f.ready = [fetcher[p].ready EXCEPT ![m] = {}]
    BY <1>1, <2>2, <2>4 DEF Fetching
  <2>6. PICK a \in SUBSET Rows, u \in SUBSET Rows :
          /\ announced' = [announced EXCEPT ![p] = announced[p] \cup a] /\ unheard' = unheard \cup u
          /\ a \cup u = fetcher[p].ready[m]
    <3>1. CASE announced' = [announced EXCEPT ![p] = @ \cup fetcher[p].ready[m]] /\ unheard' = unheard
      <4>1. PICK a \in SUBSET Rows, u \in SUBSET Rows : a = fetcher[p].ready[m] /\ u = {}
        BY <1>5
      <4>2. announced' = [announced EXCEPT ![p] = announced[p] \cup a] /\ unheard' = unheard \cup u /\ a \cup u = fetcher[p].ready[m]
        BY <3>1, <4>1
      <4> QED BY <4>2
    <3>2. CASE unheard' = unheard \cup fetcher[p].ready[m] /\ announced' = announced
      <4>1. PICK a \in SUBSET Rows, u \in SUBSET Rows : u = fetcher[p].ready[m] /\ a = {}
        BY <1>5
      <4>2. announced' = [announced EXCEPT ![p] = announced[p] \cup a] /\ unheard' = unheard \cup u /\ a \cup u = fetcher[p].ready[m]
        BY <1>6, <3>2, <4>1
      <4> QED BY <4>2
    <3> QED BY <2>1, <3>1, <3>2
  <2>7. /\ f.batch \subseteq fetcher[p].batch
        /\ \A n \in Preview!Messages : f.ready[n] \subseteq fetcher[p].ready[n]
        /\ \A n \in Preview!Messages : fetcher[p].ready[n] \subseteq f.ready[n] \cup a \cup u
        /\ \A r \in a \cup u : \E n \in Preview!Messages : r \in fetcher[p].ready[n]
    BY <2>4, <2>5, <2>6
  <2>8. f \in Fetching
    BY <2>5
  <2>9. announced' = [announced EXCEPT ![p] = announced[p] \cup a] /\ unheard' = unheard \cup u
    BY <2>6
  <2> QED BY <1>2, <1>3, <2>3, <2>7, <2>8, <2>9, PreviewHandOver
<1>9. CASE Preview!ServerDies(p)
  <2>1. PICK u : u = UNION {fetcher[p].ready[m] : m \in Preview!Messages}
    OBVIOUS
  <2>2. u \in SUBSET Rows /\ (\A m \in Preview!Messages : fetcher[p].ready[m] \subseteq u)
        /\ \A r \in u : \E m \in Preview!Messages : r \in fetcher[p].ready[m]
    BY <1>5, <2>1
  <2>3. fetcher' = [fetcher EXCEPT ![p] = Preview!Idle] /\ announced' = announced /\ unheard' = unheard \cup u
    BY <1>9, <2>1 DEF Preview!ServerDies
  <2>4. PICK a \in SUBSET Rows : a = {}
    OBVIOUS
  <2>5. announced' = [announced EXCEPT ![p] = announced[p] \cup a]
    BY <1>6, <2>3, <2>4
  <2>6. PICK f \in Fetching : f = Preview!Idle
    BY <1>4
  <2>7. /\ fetcher' = [fetcher EXCEPT ![p] = f] /\ f.batch \subseteq fetcher[p].batch
        /\ \A m \in Preview!Messages : f.ready[m] \subseteq fetcher[p].ready[m]
        /\ \A m \in Preview!Messages : fetcher[p].ready[m] \subseteq f.ready[m] \cup a \cup u
        /\ \A r \in a \cup u : \E m \in Preview!Messages : r \in fetcher[p].ready[m]
    BY <1>4, <2>2, <2>3, <2>4, <2>6
  <2>8. u \in SUBSET Rows /\ unheard' = unheard \cup u /\ a \in SUBSET Rows /\ f \in Fetching
    BY <2>2, <2>3, <2>4, <2>6
  <2> HIDE <1>9
  <2> QED BY <1>2, <1>3, <2>5, <2>7, <2>8, PreviewHandOver
<1> QED BY <1>7, <1>8, <1>9

LEMMA PreviewStep == PreviewInv /\ [Preview!Next]_previewVars => PreviewInv'
<1> SUFFICES ASSUME PreviewInv, [Preview!Next]_previewVars PROVE PreviewInv'
  OBVIOUS
<1>1. CASE UNCHANGED previewVars
  BY <1>1 DEF PreviewInv, PreviewType, HeldBy, Succeeded, previewVars
<1>2. ASSUME NEW u \in Preview!Links, Preview!CacheExpires(u) PROVE PreviewInv'
  <2>1. previews' = previews /\ created' = created /\ enqueue' = enqueue /\ fetcher' = fetcher /\ announced' = announced
        /\ unheard' = unheard /\ refreshes' = refreshes /\ mishaps' = mishaps /\ cached' = cached \ {u}
    BY <1>2 DEF Preview!CacheExpires
  <2>2. PreviewType'
    BY <2>1 DEF PreviewInv, PreviewType
  <2> QED BY <2>1, <2>2 DEF PreviewInv, HeldBy, Succeeded
<1>3. ASSUME NEW m \in Preview!Messages, Preview!EnqueuePreviews(m) \/ Preview!InsertPreview(m) \/ Preview!RefreshFailed(m)
      PROVE  PreviewInv'
  BY <1>3, PreviewEnqueue, PreviewInsert, PreviewRefresh
<1>4. ASSUME NEW p \in Processors, Preview!Process(p) \/ Preview!ServerDies(p) PROVE PreviewInv'
  BY <1>4, PreviewFetch, PreviewUpdate, PreviewAnnounce DEF Preview!Process
<1> QED BY <1>1, <1>2, <1>3, <1>4 DEF Preview!Next

\* tasks.rs, run_link_preview_processor alone: whatever the texts, the bounds of a batch and of a
\* message, and the failures, a preview that was found is announced and stays.
THEOREM FoundIsAlwaysAnnounced == Preview!Spec => [](Preview!TypeOK /\ Preview!FoundIsAnnounced)
<1>1. PreviewInv /\ [Preview!Next]_Preview!previewVars => PreviewInv'
  BY PreviewStep DEF Preview!previewVars, previewVars
<1> QED BY <1>1, PreviewInitOk, PreviewFacts, PTL DEF Preview!Spec

\* The same where the parts of the server stand side by side.
THEOREM FoundStaysAnnounced == PartsSpec => []FoundIsAnnounced
<1>1. PartsInit => PreviewInv
  BY PreviewInitOk DEF PartsInit
<1>2. PreviewInv /\ [PartsNext]_partsVars => PreviewInv'
  BY PreviewStep DEF PartsNext, PreviewsNext, partsVars
<1>3. PreviewInv => FoundIsAnnounced
  BY PreviewFacts DEF FoundIsAnnounced
<1> QED BY <1>1, <1>2, <1>3, PTL DEF PartsSpec
=============================================================================
