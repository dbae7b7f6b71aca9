----------------------------- MODULE Notifying -----------------------------
(***************************************************************************)
(* Push notifications for messages: without a cluster, route_message       *)
(* collects the recipients who are not here and publishes one notification *)
(* after the other through RedisFallback, whose degraded mark all tasks    *)
(* share.  Times are milliseconds since the epoch, u64 differences wrap.   *)
(***************************************************************************)
EXTENDS FiniteSets, Naturals, Sequences

CONSTANTS
    Folk,           \* users; the order of a participant list is any
    Routes,         \* [messages -> sender], each routed by a task of its own
    Backoff,        \* backoff_duration
    Wrap,           \* 2^64
    FirstTime, LastTime,    \* bounds on the time, much later than the epoch
    MaxFlips        \* bound on changes of the world

VARIABLES
    here,       \* users with a connection on this server
    muted, blocked,     \* users who muted the conversation; blocked the sender or are blocked
    redisUp,
    time, flips,
    degraded, lastFailure,      \* RedisFallback
    route,      \* [messages -> pc, participants to go, what was read, offline users]
    sent,       \* [messages -> users with a copy in their channel]
    pushed,     \* [messages -> users whose notification is published]
    refused,    \* history: [messages -> users whose publication Redis failed]
    missed,     \* history: [messages -> users who went between has_user and the send]
    triedAt     \* history: whether Redis was tried within the backoff of a failure

pushVars == <<here, muted, blocked, redisUp, time, flips, degraded, lastFailure, route, sent, pushed, refused, missed, triedAt>>

Messages == DOMAIN Routes
Orders == {s \in [1..Cardinality(Folk) -> Folk] : \A i, j \in DOMAIN s : s[i] = s[j] => i = j}

TypeOK ==
    /\ here \cup muted \cup blocked \subseteq Folk
    /\ time \in FirstTime..LastTime /\ lastFailure \in {0} \cup FirstTime..LastTime
    /\ sent \in [Messages -> SUBSET Folk] /\ pushed \in [Messages -> SUBSET Folk]
    /\ missed \in [Messages -> SUBSET Folk]
    /\ degraded \in BOOLEAN /\ triedAt \in BOOLEAN

Init ==
    /\ here \in SUBSET Folk /\ muted = {} /\ blocked = {} /\ redisUp = TRUE
    /\ time = FirstTime /\ flips = 0 /\ degraded = FALSE /\ lastFailure = 0 /\ triedAt = FALSE
    /\ route = [m \in Messages |-> [pc |-> "idle"]]
    /\ sent = [m \in Messages |-> {}] /\ pushed = [m \in Messages |-> {}]
    /\ refused = [m \in Messages |-> {}] /\ missed = [m \in Messages |-> {}]

world == <<here, muted, blocked, redisUp, time, flips, missed>>
fallback == <<degraded, lastFailure, triedAt>>

--------------------------------------------------------------------------
(* route_message                                                           *)

\* Participants, then the muted, then the blocked: three statements.
ReadParticipants(m) ==
    /\ route[m].pc = "idle"
    /\ \E order \in Orders : route' = [route EXCEPT ![m] = [pc |-> "muted", left |-> order]]
    /\ UNCHANGED <<world, fallback, sent, pushed, refused>>

ReadMuted(m) ==
    /\ route[m].pc = "muted"
    /\ route' = [route EXCEPT ![m] = [pc |-> "blocked", left |-> route[m].left, muted |-> muted]]
    /\ UNCHANGED <<world, fallback, sent, pushed, refused>>

ReadBlocked(m) ==
    /\ route[m].pc = "blocked"
    /\ route' = [route EXCEPT ![m] = [pc |-> "loop", left |-> route[m].left, muted |-> route[m].muted, blocked |-> blocked, offline |-> <<>>]]
    /\ UNCHANGED <<world, fallback, sent, pushed, refused>>

\* The sender and the blocked are skipped, the muted still get a copy.  has_user
\* decides whether there is a send or a notification.
RouteNext(m) ==
    LET u == Head(route[m].left)
        rest == [route[m] EXCEPT !.left = Tail(@)]
    IN
    /\ route[m].pc = "loop" /\ route[m].left # <<>>
    /\ route' = [route EXCEPT ![m] =
          IF u = Routes[m] \/ u \in route[m].blocked THEN rest
          ELSE IF u \in here THEN [route[m] EXCEPT !.pc = "send"]
          ELSE IF u \in route[m].muted THEN rest
          ELSE [rest EXCEPT !.offline = Append(@, u)]]
    /\ UNCHANGED <<world, fallback, sent, pushed, refused>>

\* send_to_user_filtered finds whoever is still there.
Sending(m) == route[m].pc = "send"
SendToUser(m) ==
    LET u == Head(route[m].left) IN
    /\ Sending(m)
    /\ route' = [route EXCEPT ![m].pc = "loop", ![m].left = Tail(@)]
    /\ sent' = [sent EXCEPT ![m] = IF u \in here THEN @ \cup {u} ELSE @]
    /\ UNCHANGED <<world, fallback, pushed, refused>>
--------------------------------------------------------------------------
(* publish, through with_fallback                                          *)

Elapsed == (0 + Wrap - lastFailure) % Wrap

\* is_available: now.elapsed() of an Instant just taken is 0, so the time since the
\* failure is 0 minus a time of day, which wraps (and panics in a debug build).
\* Degraded, but not for long enough: the notification is given up.
IsAvailable(m) ==
    /\ route[m].pc = "loop" /\ route[m].left = <<>> /\ route[m].offline # <<>>
    /\ IF degraded /\ Elapsed < Backoff
       THEN /\ route' = [route EXCEPT ![m].offline = Tail(@)]
            /\ UNCHANGED <<degraded, triedAt>>
       ELSE /\ route' = [route EXCEPT ![m].pc = "publish"]
            /\ degraded' = FALSE
            /\ triedAt' = (triedAt \/ (lastFailure # 0 /\ degraded /\ time - lastFailure < Backoff))
    /\ UNCHANGED <<world, lastFailure, sent, pushed, refused>>

\* Mutant: the first failure ends the loop.
Publish_GivesUp(m) ==
    LET u == Head(route[m].offline) IN
    /\ route[m].pc = "publish"
    /\ IF redisUp
       THEN /\ pushed' = [pushed EXCEPT ![m] = @ \cup {u}]
            /\ degraded' = FALSE
            /\ route' = [route EXCEPT ![m].pc = "loop", ![m].offline = Tail(@)]
            /\ UNCHANGED <<refused, lastFailure>>
       ELSE /\ refused' = [refused EXCEPT ![m] = @ \cup {u}]
            /\ degraded' = TRUE /\ lastFailure' = time
            /\ route' = [route EXCEPT ![m].pc = "loop", ![m].offline = <<>>]
            /\ UNCHANGED pushed
    /\ UNCHANGED <<world, triedAt, sent>>

\* record_success or record_failure; the loop goes on either way.
Publish(m) ==
    LET u == Head(route[m].offline) IN
    /\ route[m].pc = "publish"
    /\ route' = [route EXCEPT ![m].pc = "loop", ![m].offline = Tail(@)]
    /\ IF redisUp
       THEN pushed' = [pushed EXCEPT ![m] = @ \cup {u}] /\ degraded' = FALSE /\ UNCHANGED <<refused, lastFailure>>
       ELSE /\ refused' = [refused EXCEPT ![m] = @ \cup {u}]
            /\ degraded' = TRUE /\ lastFailure' = time
            /\ UNCHANGED pushed
    /\ UNCHANGED <<world, triedAt, sent>>

--------------------------------------------------------------------------
(* The world                                                               *)

Flips == flips < MaxFlips /\ flips' = flips + 1 /\ UNCHANGED <<route, fallback, sent, pushed, refused>>
Others == <<redisUp, time, missed>>

Come(u) == u \notin here /\ here' = here \cup {u} /\ Flips /\ UNCHANGED <<muted, blocked, Others>>
Go(u) ==
    /\ u \in here /\ here' = here \ {u} /\ Flips /\ UNCHANGED <<muted, blocked, redisUp, time>>
    /\ missed' = [m \in Messages |-> IF Sending(m) /\ Head(route[m].left) = u THEN missed[m] \cup {u} ELSE missed[m]]
Mute(u) == muted' = muted \cup {u} /\ Flips /\ UNCHANGED <<here, blocked, Others>>
Unmute(u) == muted' = muted \ {u} /\ Flips /\ UNCHANGED <<here, blocked, Others>>
Block(u) == blocked' = blocked \cup {u} /\ Flips /\ UNCHANGED <<here, muted, Others>>
Unblock(u) == u \in blocked /\ blocked' = blocked \ {u} /\ Flips /\ UNCHANGED <<here, muted, Others>>
RedisFlips == redisUp' = ~redisUp /\ Flips /\ UNCHANGED <<here, muted, blocked, time, missed>>
TimePasses ==
    /\ time < LastTime /\ time' = time + 1
    /\ UNCHANGED <<here, muted, blocked, redisUp, flips, fallback, route, sent, pushed, refused, missed>>

Route(m) == ReadParticipants(m) \/ ReadMuted(m) \/ ReadBlocked(m) \/ RouteNext(m) \/ SendToUser(m) \/ IsAvailable(m) \/ Publish(m)
World == (\E u \in Folk : Come(u) \/ Go(u) \/ Mute(u) \/ Unmute(u) \/ Block(u) \/ Unblock(u)) \/ RedisFlips \/ TimePasses
Next == (\E m \in Messages : Route(m)) \/ World
Spec == Init /\ [][Next]_pushVars

--------------------------------------------------------------------------
Routed(m) == route[m].pc = "loop" /\ route[m].left = <<>> /\ route[m].offline = <<>>

\* router.rs, route_message: whoever comes, goes, mutes or blocks meanwhile, a message
\* that is routed reached every other participant in one way, a copy or a
\* notification, or was withheld for a reason that was read: muted or blocked, or
\* Redis failed that very notification and not an earlier one; or his last connection
\* went in the moment between has_user and the send.
EveryoneIsServedOnce ==
    \A m \in Messages : Routed(m) =>
        \A u \in Folk :
            IF u = Routes[m] \/ u \in route[m].blocked THEN u \notin sent[m] \cup pushed[m]
            ELSE /\ ~(u \in sent[m] /\ u \in pushed[m])
                 /\ u \in sent[m] \cup pushed[m] \cup refused[m] \cup route[m].muted \cup missed[m]

\* Refuted: who goes between has_user and the send gets neither copy nor notification,
\* as the result of the send is not looked at.
MissedAreNotified == \A m \in Messages : Routed(m) => missed[m] \subseteq sent[m] \cup pushed[m] \cup refused[m]

\* fallback.rs:16: "Duration before attempting to reconnect after failure".
BackoffIsKept == ~triedAt
=============================================================================
