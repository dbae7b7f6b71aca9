---------------------------- MODULE RateLimiter ----------------------------
(***************************************************************************)
(* The message quota of one user: a counter in Redis that the handlers of  *)
(* the user's sends, on any server, raise, give a time to live and read in *)
(* three separate commands.  A check that fails lets the message through.  *)
(***************************************************************************)
EXTENDS FiniteSets, Integers

CONSTANTS
    Handlers,       \* handlers that check the quota, one send after the other
    MaxSends,       \* bound on the sends
    MaxMessages,    \* max_messages
    Window,         \* window_seconds, in ticks
    MaxNow,         \* bound on the time
    Outages         \* whether a command may fail: {} or {"redis"}

VARIABLES
    count,          \* the counter, 0 when there is no key
    expiresAt,      \* when the key goes: a time, or Never
    now,
    check,          \* [Handlers -> pc, the count INCR returned, when it did]
    sends,          \* number of checks so far
    passed,         \* history: [times -> messages counted then and let through]
    unexpiring      \* history: the key lost its time to live to a failure

quotaVars == <<count, expiresAt, now, check, sends, passed, unexpiring>>

Never == MaxNow + Window + 1
AtRest == [pc |-> "idle", seen |-> 0, at |-> 0]

TypeOK ==
    /\ count \in 0..MaxSends /\ sends \in 0..MaxSends
    /\ expiresAt \in 0..Never /\ now \in 0..MaxNow
    /\ \A h \in Handlers : check[h].pc \in {"idle", "expire", "ttl"}
    /\ passed \in [0..MaxNow -> Nat] /\ unexpiring \in BOOLEAN

Init ==
    /\ count = 0 /\ expiresAt = Never /\ now = 0 /\ unexpiring = FALSE /\ sends = 0
    /\ check = [h \in Handlers |-> AtRest]
    /\ passed = [t \in 0..MaxNow |-> 0]

\* A command fails: the handler logs it and the message goes out uncounted.
FailsOpen(h) == "redis" \in Outages /\ check' = [check EXCEPT ![h] = AtRest] /\ UNCHANGED passed

\* Mutant: the second of a window sets the time to live.
Incr_ExpireSecond(h) ==
    /\ check[h].pc = "idle" /\ sends < MaxSends
    /\ sends' = sends + 1 /\ count' = count + 1
    /\ check' = [check EXCEPT ![h] = [pc |-> IF count' = 2 THEN "expire" ELSE "ttl", seen |-> count', at |-> now]]
    /\ UNCHANGED <<expiresAt, now, passed, unexpiring>>

\* The addition may have happened although the command failed.
Incr(h) ==
    /\ check[h].pc = "idle" /\ sends < MaxSends
    /\ sends' = sends + 1
    /\ \/ /\ count' = count + 1
          /\ check' = [check EXCEPT ![h] = [pc |-> IF count' = 1 THEN "expire" ELSE "ttl", seen |-> count', at |-> now]]
          /\ UNCHANGED <<passed, unexpiring>>
       \/ FailsOpen(h) /\ count' \in {count, count + 1} /\ unexpiring' = (unexpiring \/ (count = 0 /\ count' = 1))
    /\ UNCHANGED <<expiresAt, now>>

\* Only the first of a window sets the time to live.
Expire(h) ==
    /\ check[h].pc = "expire"
    /\ \/ expiresAt' = now + Window /\ check' = [check EXCEPT ![h].pc = "ttl"] /\ UNCHANGED <<passed, unexpiring>>
       \/ FailsOpen(h) /\ expiresAt' = now + Window /\ UNCHANGED unexpiring
       \/ FailsOpen(h) /\ unexpiring' = TRUE /\ UNCHANGED expiresAt
    /\ UNCHANGED <<count, now, sends>>

\* Mutant: one more than the quota.
Decide_OneMore(h) ==
    /\ check[h].pc = "ttl"
    /\ \/ /\ passed' = IF check[h].seen > MaxMessages + 1 THEN passed ELSE [passed EXCEPT ![check[h].at] = @ + 1]
          /\ check' = [check EXCEPT ![h] = AtRest]
       \/ FailsOpen(h)
    /\ UNCHANGED <<count, expiresAt, now, sends, unexpiring>>

\* TTL, and the answer from the count that INCR returned.
Decide(h) ==
    /\ check[h].pc = "ttl"
    /\ \/ /\ passed' = IF check[h].seen > MaxMessages THEN passed ELSE [passed EXCEPT ![check[h].at] = @ + 1]
          /\ check' = [check EXCEPT ![h] = AtRest]
       \/ FailsOpen(h)
    /\ UNCHANGED <<count, expiresAt, now, sends, unexpiring>>

\* Redis removes the key when its time has come.
Tick ==
    /\ now < MaxNow
    /\ now' = now + 1
    /\ IF now' >= expiresAt THEN count' = 0 /\ expiresAt' = Never ELSE UNCHANGED <<count, expiresAt>>
    /\ UNCHANGED <<check, sends, passed, unexpiring>>

Next == (\E h \in Handlers : Incr(h) \/ Expire(h) \/ Decide(h)) \/ Tick
Spec == Init /\ [][Next]_quotaVars

--------------------------------------------------------------------------
\* The sends that passed from one time to before another, numbered at each.
PassedIn(from, to) == UNION {{t} \X (1..passed[t]) : t \in from..to - 1}
Windows == {t \in 0..MaxNow : t + Window <= MaxNow + 1}

\* ratelimit/mod.rs, check_user_rate: of the sends that are counted at most twice
\* the quota pass in any window, however the commands of the checks interleave, and
\* a counter without a time to live is about to get one or lost it to a failure.
QuotaHolds ==
    /\ \A t \in Windows : Cardinality(PassedIn(t, t + Window)) <= 2 * MaxMessages
    /\ count > 0 /\ expiresAt = Never => unexpiring \/ \E h \in Handlers : check[h].pc = "expire"

\* Refuted: "INCR with EXPIRE for sliding window" (ratelimit/mod.rs:66).
QuotaSlides == \A t \in Windows : Cardinality(PassedIn(t, t + Window)) <= MaxMessages
=============================================================================
