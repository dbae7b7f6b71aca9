------------------------------ MODULE Presence ------------------------------
(***************************************************************************)
(* The online status of one user (domain/presence/tracker.rs), kept in one *)
(* Redis hash by all servers, and its pushes to the users who subscribed   *)
(* to it (domain/presence/broadcast.rs, api/websocket.rs).                 *)
(*                                                                         *)
(* Every connection of the user is served by a receive task, which handles *)
(* UpdatePresence, and ends with a cleanup; both push a status.  A receive *)
(* task may outlive the select! that ends its socket ("detached").         *)
(***************************************************************************)
EXTENDS Integers, FiniteSets

CONSTANTS
    Conn,         \* connections of the user, on any server
    Watcher,      \* users who may watch
    Subscribing,  \* those of them not subscribed at the start
    Opens,        \* bound: connections opened
    Updates,      \* bound: UpdatePresence requests
    Faults        \* of "online", "update", "offline", "push" (the call fails), "expiry", "crash", "detached"

ASSUME SubscribingAssumption == Subscribing \subseteq Watcher
ASSUME OpensAssumption == Opens \in Nat /\ Updates \in Nat
ASSUME ConnAssumption == IsFiniteSet(Conn)

VARIABLES
    row,       \* the hash chat:presence:<user>
    conn,      \* which connections are open
    push,      \* what the task and the cleanup of a connection are doing
    subs,      \* set chat:presence:subscribers:<user>
    joining,   \* where a watcher's SubscribePresence is
    shown,     \* the last status a watcher was sent
    opened, updated,
    lost,      \* history: connections that ended without a decrement
    unpushed   \* history: standing watchers whom a push of offline failed to reach since a connection opened

vars == <<row, conn, push, subs, joining, shown, opened, updated, lost, unpushed>>

Shown == {"online", "away", "offline"}
\* "none" is a hash without the field, as HINCRBY creates it.
Status == Shown \cup {"none"}
Absent == [exists |-> "no", status |-> "none", count |-> 0, ttl |-> "none"]
Proc == {"task", "cleanup"}
Row == [exists : {"no", "yes"}, status : Status, count : Int, ttl : {"none", "set"}]
Step == {"update", "zero", "subscribers", "send"}
Push == [step : Step \cup {"idle"}, status : Status, todo : SUBSET Watcher]
Idle == [step |-> "idle", status |-> "none", todo |-> {}]

\* get_presence; no hash is reported as no presence, a hash without status as offline.
Read == IF row.status = "none" THEN "offline" ELSE row.status

TypeOK ==
    /\ row \in Row
    /\ conn \in [Conn -> {"off", "on"}]
    /\ push \in [Conn \X Proc -> Push]
    /\ \A p \in Conn \X Proc : push[p].step # "idle" => push[p].status \in Shown
    /\ subs \subseteq Watcher
    /\ joining \in [Watcher -> {"no", "read"} \cup Shown]
    /\ shown \in [Watcher -> Shown]
    /\ opened \in 0..Opens
    /\ updated \in 0..Updates
    /\ lost \in Nat
    /\ unpushed \subseteq Watcher \ Subscribing

Init ==
    /\ row = Absent
    /\ conn = [c \in Conn |-> "off"]
    /\ push = [p \in Conn \X Proc |-> Idle]
    /\ subs = Watcher \ Subscribing
    /\ joining = [w \in Watcher |-> "no"]
    /\ shown = [w \in Watcher |-> "offline"]
    /\ opened = 0
    /\ updated = 0
    /\ lost = 0
    /\ unpushed = {}

Goto(p, step, status) == push' = [push EXCEPT ![p] = [Idle EXCEPT !.step = step, !.status = status]]

-----------------------------------------------------------------------------
(* A connection opens: mark_online, its error ignored; nothing is pushed.  *)

\* Mutant: the TTL is not set with the rest.
MarkOnline_NoTtl(c) ==
    /\ conn[c] = "off"
    /\ \A x \in Proc : push[<<c, x>>].step = "idle"
    /\ opened < Opens
    /\ opened' = opened + 1
    /\ conn' = [conn EXCEPT ![c] = "on"]
    /\ \/ row' = [row EXCEPT !.exists = "yes", !.status = "online", !.count = @ + 1]
       \/ "online" \in Faults /\ UNCHANGED row
    /\ unpushed' = {}
    /\ UNCHANGED <<push, subs, joining, shown, updated, lost>>

MarkOnline(c) ==
    /\ conn[c] = "off"
    /\ \A x \in Proc : push[<<c, x>>].step = "idle"
    /\ opened < Opens
    /\ opened' = opened + 1
    /\ conn' = [conn EXCEPT ![c] = "on"]
    /\ \/ row' = [exists |-> "yes", status |-> "online", count |-> row.count + 1, ttl |-> "set"]
       \/ "online" \in Faults /\ UNCHANGED row
    /\ unpushed' = {}
    /\ UNCHANGED <<push, subs, joining, shown, updated, lost>>

-----------------------------------------------------------------------------
(* handle_update_presence.                                                 *)

UpdateRequest(c, s) ==
    /\ conn[c] = "on"
    /\ push[<<c, "task">>].step = "idle"
    /\ updated < Updates
    /\ updated' = updated + 1
    /\ Goto(<<c, "task">>, "update", s)
    /\ UNCHANGED <<row, conn, subs, joining, shown, opened, lost, unpushed>>

UpdatePresence(c) ==
    /\ push[<<c, "task">>].step = "update"
    /\ row' = [row EXCEPT !.exists = "yes", !.status = push[<<c, "task">>].status, !.ttl = "set"]
    /\ Goto(<<c, "task">>, "subscribers", push[<<c, "task">>].status)
    /\ UNCHANGED <<conn, subs, joining, shown, opened, updated, lost, unpushed>>

UpdateFails(c) ==
    /\ "update" \in Faults
    /\ push[<<c, "task">>].step = "update"
    /\ push' = [push EXCEPT ![<<c, "task">>] = Idle]
    /\ UNCHANGED <<row, conn, subs, joining, shown, opened, updated, lost, unpushed>>

-----------------------------------------------------------------------------
(* A connection ends: mark_offline in two calls, then the push.            *)

Ends(c) ==
    /\ conn[c] = "on"
    /\ push[<<c, "task">>].step = "idle" \/ "detached" \in Faults
    /\ conn' = [conn EXCEPT ![c] = "off"]
    /\ UNCHANGED <<subs, joining, shown, opened, updated, unpushed>>

\* Mutant: only a count of exactly zero means offline.
Decrement_ExactlyZero(c) ==
    /\ Ends(c)
    /\ UNCHANGED lost
    /\ row' = [row EXCEPT !.exists = "yes", !.count = @ - 1]
    /\ IF row'.count = 0 THEN Goto(<<c, "cleanup">>, "zero", "offline") ELSE UNCHANGED push

\* Mutant: the count is not decremented unless it is the last.
Decrement_OnlyLast(c) ==
    /\ Ends(c)
    /\ UNCHANGED lost
    /\ row' = [row EXCEPT !.exists = "yes", !.count = IF @ > 1 THEN @ ELSE @ - 1]
    /\ IF row'.count <= 0 THEN Goto(<<c, "cleanup">>, "zero", "offline") ELSE UNCHANGED push

\* HINCRBY creates a hash that has expired, without a TTL.
Decrement(c) ==
    /\ Ends(c)
    /\ UNCHANGED lost
    /\ row' = [row EXCEPT !.exists = "yes", !.count = @ - 1]
    /\ IF row'.count <= 0 THEN Goto(<<c, "cleanup">>, "zero", "offline") ELSE UNCHANGED push

\* unwrap_or(true): an error counts as fully offline.
DecrementFails(c) ==
    /\ "offline" \in Faults
    /\ Ends(c)
    /\ Goto(<<c, "cleanup">>, "subscribers", "offline")
    /\ lost' = lost + 1
    /\ UNCHANGED row

\* Mutant: a user who is offline already is not pushed again.
Zero_OnlyChanges(c) ==
    /\ push[<<c, "cleanup">>].step = "zero"
    /\ row' = [exists |-> "yes", status |-> "offline", count |-> 0, ttl |-> "set"]
    /\ IF row.status = "offline" THEN push' = [push EXCEPT ![<<c, "cleanup">>] = Idle]
       ELSE Goto(<<c, "cleanup">>, "subscribers", "offline")
    /\ UNCHANGED <<conn, subs, joining, shown, opened, updated, lost, unpushed>>

Zero(c) ==
    /\ push[<<c, "cleanup">>].step = "zero"
    /\ \/ row' = [exists |-> "yes", status |-> "offline", count |-> 0, ttl |-> "set"]
       \/ "offline" \in Faults /\ UNCHANGED row
    /\ Goto(<<c, "cleanup">>, "subscribers", "offline")
    /\ UNCHANGED <<conn, subs, joining, shown, opened, updated, lost, unpushed>>

-----------------------------------------------------------------------------
(* broadcast_to_subscribers, a watcher at a time.  Its handlers ignore     *)
(* that it failed, and it ignores that a push did.                         *)

Missed(p, W) == unpushed' = IF push[p].status = "offline" THEN unpushed \cup (W \ Subscribing) ELSE unpushed

\* No connection is an error, a failed SMEMBERS an empty set: nobody is pushed.
GetSubscribers(p) ==
    /\ push[p].step = "subscribers"
    /\ \/ push' = [push EXCEPT ![p].step = "send", ![p].todo = subs] /\ UNCHANGED unpushed
       \/ "push" \in Faults /\ push' = [push EXCEPT ![p] = Idle] /\ Missed(p, subs)
    /\ UNCHANGED <<row, conn, subs, joining, shown, opened, updated, lost>>

PushTo(p, w) ==
    /\ push[p].step = "send"
    /\ w \in push[p].todo
    /\ push' = [push EXCEPT ![p].todo = @ \ {w}]
    /\ \/ shown' = [shown EXCEPT ![w] = push[p].status] /\ unpushed' = unpushed \ {w}
       \/ "push" \in Faults /\ UNCHANGED shown /\ Missed(p, {w})
    /\ UNCHANGED <<row, conn, subs, joining, opened, updated, lost>>

PushDone(p) ==
    /\ push[p].step = "send"
    /\ push[p].todo = {}
    /\ push' = [push EXCEPT ![p] = Idle]
    /\ UNCHANGED <<row, conn, subs, joining, shown, opened, updated, lost, unpushed>>

-----------------------------------------------------------------------------
(* A watcher subscribes: SADD, then the status is read, then sent.         *)

Subscribe(w) ==
    /\ w \in Subscribing \ subs
    /\ joining[w] = "no"
    /\ subs' = subs \cup {w}
    /\ joining' = [joining EXCEPT ![w] = "read"]
    /\ UNCHANGED <<row, conn, push, shown, opened, updated, lost, unpushed>>

\* Mutant: a hash without status is not read as offline.
ReadInitial_RawStatus(w) ==
    /\ joining[w] = "read"
    /\ joining' = [joining EXCEPT ![w] = IF row.exists = "yes" THEN row.status ELSE "no"]
    /\ UNCHANGED <<row, conn, push, subs, shown, opened, updated, lost, unpushed>>

\* A user without a hash is left out of the answer.
ReadInitial(w) ==
    /\ joining[w] = "read"
    /\ joining' = [joining EXCEPT ![w] = IF row.exists = "yes" THEN Read ELSE "no"]
    /\ UNCHANGED <<row, conn, push, subs, shown, opened, updated, lost, unpushed>>

SendInitial(w) ==
    /\ joining[w] \in Shown
    /\ shown' = [shown EXCEPT ![w] = joining[w]]
    /\ joining' = [joining EXCEPT ![w] = "no"]
    /\ UNCHANGED <<row, conn, push, subs, opened, updated, lost, unpushed>>

Unsubscribe(w) ==
    /\ w \in Subscribing \cap subs
    /\ joining[w] = "no"
    /\ subs' = subs \ {w}
    /\ UNCHANGED <<row, conn, push, joining, shown, opened, updated, lost, unpushed>>

-----------------------------------------------------------------------------
(* 120 seconds after the last command with an EXPIRE; nothing refreshes.   *)

Expire ==
    /\ "expiry" \in Faults
    /\ row.ttl = "set"
    /\ row' = Absent
    /\ UNCHANGED <<conn, push, subs, joining, shown, opened, updated, lost, unpushed>>

\* The server of a connection stops without cleanup.
Crash(c) ==
    /\ "crash" \in Faults
    /\ conn' = [conn EXCEPT ![c] = "off"]
    /\ push' = [p \in Conn \X Proc |-> IF p[1] = c THEN Idle ELSE push[p]]
    /\ lost' = IF conn[c] = "on" THEN lost + 1 ELSE lost
    /\ UNCHANGED <<row, subs, joining, shown, opened, updated, unpushed>>

Session(c) ==
    \/ MarkOnline(c)
    \/ \E s \in {"online", "away"} : UpdateRequest(c, s)
    \/ UpdatePresence(c) \/ UpdateFails(c)
    \/ Decrement(c) \/ DecrementFails(c) \/ Zero(c) \/ Crash(c)
Broadcast(p) == GetSubscribers(p) \/ PushDone(p) \/ \E w \in Watcher : PushTo(p, w)
Watch(w) == Subscribe(w) \/ ReadInitial(w) \/ SendInitial(w) \/ Unsubscribe(w)

Next ==
    \/ \E c \in Conn : Session(c)
    \/ \E p \in Conn \X Proc : Broadcast(p)
    \/ \E w \in Watcher : Watch(w)
    \/ Expire

Spec == Init /\ [][Next]_vars
\* Redis removes an expired key.
FairSpec == Spec /\ WF_vars(Expire)

-----------------------------------------------------------------------------
(* Properties.                                                             *)

Live == {c \in Conn : conn[c] = "on"}
Gone == Live = {}
Settled == /\ \A p \in Conn \X Proc : push[p].step = "idle"
           /\ \A w \in Watcher : joining[w] = "no"

\* Whatever races, the count of connections exceeds the open ones at most by
\* those that ended without a decrement, so without such failures the last one
\* to leave always finds that it is the last.
NeverOvercounted == row.count <= Cardinality(Live) + lost

\* A user with no connection is not shown as online once the cleanups are over.
OfflineWhenGone == Settled /\ Gone => Read = "offline"

\* "Automatic push when subscribed users change status" (05-advanced-features.md),
\* for the change to offline: everybody who subscribed before the user came
\* has been sent it last, but for those whom a push of offline failed to reach
\* (nobody tries again) since the user was last there.
OfflineIsPushed == Settled /\ Gone => \A w \in subs \ (Subscribing \cup unpushed) : shown[w] = "offline"

\* Refuted: the change reaches them whatever fails (one failed SMEMBERS is enough).
OfflineIsPushedAnyway == Settled /\ Gone => \A w \in subs \ Subscribing : shown[w] = "offline"

\* Even when a server crashes, calls to Redis fail or a handler outlives its
\* socket, a user who stays away is reported as offline in the end.
GoneBecomesOffline == []<>(Read = "offline" \/ ~Gone)

\* "No more connections, mark as offline" and "Refresh TTL for a user (called
\* periodically)" (tracker.rs): a connected user is not reported as offline.
OnlineWhileConnected == Settled /\ ~Gone => Read # "offline"

\* "Automatic push when subscribed users change status": what subscribers were
\* last sent is the status that is stored.
SubscribersFollow == Settled => \A w \in subs : shown[w] = Read
=============================================================================
