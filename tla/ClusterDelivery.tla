--------------------------- MODULE ClusterDelivery ---------------------------
(***************************************************************************)
(* How a chat message reaches one recipient in a cluster: the router of    *)
(* the sender's server (message/router.rs, cluster/router.rs), the shared  *)
(* session store (cluster/session_store.rs), Redis pub/sub and its         *)
(* subscriber task (tasks.rs), the offline queue, and the recipient's own  *)
(* sockets coming and going (api/websocket.rs).                            *)
(*                                                                         *)
(* Everything is about one recipient.  Every await is a step of its own;   *)
(* the local registry is taken as atomic here (ConnectionManager has its   *)
(* inside) and so is queue_message, whose trim and expiry OfflineQueue     *)
(* has.  Conversation subscriptions are left out: every connection is in   *)
(* the mode that receives all.                                             *)
(***************************************************************************)
EXTENDS Naturals, Sequences, FiniteSets

CONSTANTS
    Server,    \* server instances
    Conn,      \* the recipient's connections, each used once
    HomeOf,    \* the server a connection is made to
    Msg,       \* messages routed to the recipient
    EntryOf,   \* the server whose handler routes a message
    Faults     \* which of "crash", "redis", "pubsub" may happen

VARIABLES
    up,          \* servers that run
    cpc,         \* where the handle_socket task of a connection is
    sessions,    \* the user's key in the session store: a set of servers
    serverHas,   \* servers whose own key holds the user (and refresh it)
    subscribed,  \* servers whose subscriber task listens
    chan,        \* messages published to a server and not yet handled
    queue,       \* the offline queue
    batch,       \* what a connection's drain has read
    rpc,         \* where the routing of a message is
    targets,     \* servers it has still to be sent to
    received,    \* messages sent to a connection, in order
    undisturbed  \* history: routed while no connection changed

connVars == <<cpc, sessions, serverHas, batch>>
routeVars == <<rpc, targets>>
vars == <<up, cpc, sessions, serverHas, subscribed, chan, queue, batch, rpc,
          targets, received, undisturbed>>

Registered == {"session", "range", "del", "deliver", "open"}
Settled == {"new", "open", "closed", "dead"}
ConnPC == {"unsession"} \cup Registered \cup Settled
RoutePC == {"new", "local", "lookup", "publish", "push", "done", "failed"}

Live(s) == {c \in Conn : HomeOf[c] = s /\ cpc[c] \in Registered}

TypeOK ==
    /\ HomeOf \in [Conn -> Server] /\ EntryOf \in [Msg -> Server]
    /\ up \in SUBSET Server
    /\ cpc \in [Conn -> ConnPC]
    /\ sessions \in SUBSET Server /\ serverHas \in SUBSET Server
    /\ subscribed \in SUBSET up
    /\ chan \in [Server -> SUBSET Msg]
    /\ queue \in Seq(Msg)
    /\ batch \in [Conn -> Seq(Msg)]
    /\ rpc \in [Msg -> RoutePC]
    /\ targets \in [Msg -> SUBSET Server]
    /\ \A m \in Msg : targets[m] # {} => rpc[m] = "publish"
    /\ received \in [Conn -> Seq(Msg)]
    /\ undisturbed \in [Msg -> BOOLEAN]

Init ==
    /\ up = Server
    /\ cpc = [c \in Conn |-> "new"]
    /\ sessions = {}
    /\ serverHas = {}
    /\ subscribed = Server
    /\ chan = [s \in Server |-> {}]
    /\ queue = <<>>
    /\ batch = [c \in Conn |-> <<>>]
    /\ rpc = [m \in Msg |-> "new"]
    /\ targets = [m \in Msg |-> {}]
    /\ received = [c \in Conn |-> <<>>]
    /\ undisturbed = [m \in Msg |-> TRUE]

\* send_to_user on server s: every connection registered there gets the
\* sequence of messages; with none there the messages are gone.
SendLocally(s, ms) ==
    received' = [c \in Conn |-> IF c \in Live(s) THEN received[c] \o ms ELSE received[c]]

InFlight(m) == rpc[m] \notin {"new", "done", "failed"} \/ \E s \in Server : m \in chan[s]

\* A step of a connection disturbs the messages being routed meanwhile.
Disturb == undisturbed' = [m \in Msg |-> undisturbed[m] /\ ~InFlight(m)]

ConnStep(c, from, to) ==
    /\ cpc[c] = from
    /\ HomeOf[c] \in up
    /\ cpc' = [cpc EXCEPT ![c] = to]
    /\ Disturb

-----------------------------------------------------------------------------
(* handle_socket of one of the recipient's connections.                    *)

Register(c) ==
    /\ ConnStep(c, "new", "session")
    /\ UNCHANGED <<up, sessions, serverHas, subscribed, chan, queue, batch, routeVars, received>>

RegisterSession(c) ==
    /\ ConnStep(c, "session", "range")
    /\ sessions' = sessions \cup {HomeOf[c]}
    /\ serverHas' = serverHas \cup {HomeOf[c]}
    /\ UNCHANGED <<up, subscribed, chan, queue, batch, routeVars, received>>

DrainRange(c) ==
    /\ ConnStep(c, "range", "del")
    /\ batch' = [batch EXCEPT ![c] = queue]
    /\ UNCHANGED <<up, sessions, serverHas, subscribed, chan, queue, routeVars, received>>

DrainDel(c) ==
    /\ ConnStep(c, "del", "deliver")
    /\ queue' = <<>>
    /\ UNCHANGED <<up, sessions, serverHas, subscribed, chan, batch, routeVars, received>>

DeliverBatch(c) ==
    /\ ConnStep(c, "deliver", "open")
    /\ SendLocally(HomeOf[c], batch[c])
    /\ batch' = [batch EXCEPT ![c] = <<>>]
    /\ UNCHANGED <<up, sessions, serverHas, subscribed, chan, queue, routeVars>>

Unregister(c) ==
    /\ ConnStep(c, "open", "unsession")
    /\ UNCHANGED <<up, sessions, serverHas, subscribed, chan, queue, batch, routeVars, received>>

\* Mutant: the session is left to its expiry.
UnregisterSession_Skipped(c) ==
    /\ ConnStep(c, "unsession", "closed")
    /\ UNCHANGED <<up, sessions, serverHas, subscribed, chan, queue, batch, routeVars, received>>

\* The session is removed whether or not the user has another connection here.
UnregisterSession(c) ==
    /\ ConnStep(c, "unsession", "closed")
    /\ sessions' = sessions \ {HomeOf[c]}
    /\ serverHas' = serverHas \ {HomeOf[c]}
    /\ UNCHANGED <<up, subscribed, chan, queue, batch, routeVars, received>>

\* `let _ =` and the logged drain error: a failing Redis call is skipped, a
\* failing drain hands out nothing.
RedisCallFails(c) ==
    /\ "redis" \in Faults
    /\ \/ ConnStep(c, "session", "range")
       \/ ConnStep(c, "range", "open")
       \/ ConnStep(c, "del", "open")
       \/ ConnStep(c, "unsession", "closed")
    /\ batch' = [batch EXCEPT ![c] = <<>>]
    /\ UNCHANGED <<up, sessions, serverHas, subscribed, chan, queue, routeVars, received>>

HandleSocket(c) ==
    \/ Register(c) \/ RegisterSession(c) \/ RedisCallFails(c)
    \/ DrainRange(c) \/ DrainDel(c) \/ DeliverBatch(c)
    \/ Unregister(c) \/ UnregisterSession(c)

-----------------------------------------------------------------------------
(* route_message and route_to_user_with_queue for the recipient.           *)

RouteStep(m, from, to) ==
    /\ rpc[m] = from
    /\ EntryOf[m] \in up
    /\ rpc' = [rpc EXCEPT ![m] = to]

\* has_user, in route_message and again in route_to_user_internal.
CheckLocal(m) ==
    /\ RouteStep(m, "new", IF Live(EntryOf[m]) # {} THEN "local" ELSE "lookup")
    /\ undisturbed' = [undisturbed EXCEPT ![m] = \A c \in Conn : cpc[c] \in Settled]
    /\ UNCHANGED <<up, connVars, subscribed, chan, queue, targets, received>>

\* Mutant: no return after the local delivery.
LocalSend_FallsThrough(m) ==
    /\ RouteStep(m, "local", "lookup")
    /\ SendLocally(EntryOf[m], <<m>>)
    /\ UNCHANGED <<up, connVars, subscribed, chan, queue, targets, undisturbed>>

LocalSend(m) ==
    /\ RouteStep(m, "local", "done")
    /\ SendLocally(EntryOf[m], <<m>>)
    /\ UNCHANGED <<up, connVars, subscribed, chan, queue, targets, undisturbed>>

\* Mutant: the message is sent to one of the user's servers.
FindServers_One(m) ==
    /\ RouteStep(m, "lookup", IF sessions = {} THEN "push" ELSE "publish")
    /\ targets' = [targets EXCEPT ![m] = IF sessions = {} THEN {} ELSE {CHOOSE s \in sessions : TRUE}]
    /\ UNCHANGED <<up, connVars, subscribed, chan, queue, received, undisturbed>>

FindServers(m) ==
    /\ RouteStep(m, "lookup", IF sessions = {} THEN "push" ELSE "publish")
    /\ targets' = [targets EXCEPT ![m] = sessions]
    /\ UNCHANGED <<up, connVars, subscribed, chan, queue, received, undisturbed>>

\* Mutant: the first server that was sent the message ends the loop.
Publish_StopsAtFirst(m, t) ==
    /\ t \in targets[m]
    /\ RouteStep(m, "publish", "done")
    /\ targets' = [targets EXCEPT ![m] = @ \ {t}]
    /\ \/ t = EntryOf[m] /\ SendLocally(t, <<m>>) /\ UNCHANGED chan
       \/ /\ t # EntryOf[m]
          /\ chan' = IF t \in subscribed THEN [chan EXCEPT ![t] = @ \cup {m}] ELSE chan
          /\ UNCHANGED received
    /\ UNCHANGED <<up, connVars, subscribed, queue, undisturbed>>

\* One turn of the loop over the servers: the own server gets the message
\* directly, another one if its subscriber listens.
Publish(m, t) ==
    /\ t \in targets[m]
    /\ RouteStep(m, "publish", IF targets[m] = {t} THEN "done" ELSE "publish")
    /\ targets' = [targets EXCEPT ![m] = @ \ {t}]
    /\ \/ /\ t = EntryOf[m]
          /\ SendLocally(t, <<m>>)
          /\ UNCHANGED chan
       \/ /\ t # EntryOf[m]
          /\ chan' = IF t \in subscribed THEN [chan EXCEPT ![t] = @ \cup {m}] ELSE chan
          /\ UNCHANGED received
    /\ UNCHANGED <<up, connVars, subscribed, queue, undisturbed>>

\* Mutant: the queue is used only without a cluster.
QueueOffline_Skipped(m) ==
    /\ RouteStep(m, "push", "done")
    /\ UNCHANGED <<up, connVars, subscribed, chan, queue, targets, received, undisturbed>>

QueueOffline(m) ==
    /\ RouteStep(m, "push", "done")
    /\ queue' = Append(queue, m)
    /\ UNCHANGED <<up, connVars, subscribed, chan, targets, received, undisturbed>>

\* `?`: an error of the lookup or of a publish ends the routing and the
\* remaining servers get nothing.  An error of the queue is only logged.
RouteFails(m) ==
    /\ "redis" \in Faults
    /\ \E at \in {"lookup", "publish", "push"} : RouteStep(m, at, "failed")
    /\ targets' = [targets EXCEPT ![m] = {}]
    /\ UNCHANGED <<up, connVars, subscribed, chan, queue, received, undisturbed>>

Route(m) ==
    \/ CheckLocal(m) \/ LocalSend(m) \/ FindServers(m)
    \/ \E t \in Server : Publish(m, t)
    \/ QueueOffline(m) \/ RouteFails(m)

-----------------------------------------------------------------------------
(* The subscriber task, crashes and the session store's expiry.            *)

HandleRouted(s, m) ==
    /\ m \in chan[s]
    /\ chan' = [chan EXCEPT ![s] = @ \ {m}]
    /\ SendLocally(s, <<m>>)
    /\ UNCHANGED <<up, connVars, subscribed, queue, routeVars, undisturbed>>

\* The pub/sub stream ends: what was under way is lost, and so is whatever is
\* published until the task has subscribed again.
StreamEnds(s) ==
    /\ "pubsub" \in Faults
    /\ s \in subscribed
    /\ subscribed' = subscribed \ {s}
    /\ chan' = [chan EXCEPT ![s] = {}]
    /\ UNCHANGED <<up, connVars, queue, routeVars, received, undisturbed>>

Resubscribe(s) ==
    /\ s \in up \ subscribed
    /\ subscribed' = subscribed \cup {s}
    /\ UNCHANGED <<up, connVars, chan, queue, routeVars, received, undisturbed>>

Crash(s) ==
    /\ "crash" \in Faults
    /\ s \in up
    /\ up' = up \ {s}
    /\ subscribed' = subscribed \ {s}
    /\ chan' = [chan EXCEPT ![s] = {}]
    /\ cpc' = [c \in Conn |-> IF HomeOf[c] = s /\ cpc[c] # "closed" THEN "dead" ELSE cpc[c]]
    /\ batch' = [c \in Conn |-> IF HomeOf[c] = s THEN <<>> ELSE batch[c]]
    /\ rpc' = [m \in Msg |-> IF EntryOf[m] = s /\ rpc[m] # "done" THEN "failed" ELSE rpc[m]]
    /\ targets' = [m \in Msg |-> IF EntryOf[m] = s THEN {} ELSE targets[m]]
    /\ Disturb
    /\ UNCHANGED <<sessions, serverHas, queue, received>>

\* Mutant: the refresh of one live server keeps every server's key alive.
SessionExpires_OnlyWithoutServers ==
    /\ sessions # {}
    /\ up = {}
    /\ sessions' = {}
    /\ UNCHANGED <<up, cpc, serverHas, subscribed, chan, queue, batch, routeVars, received, undisturbed>>

\* The user's key has one expiry for all servers; every running server whose
\* own key holds the user extends it.
SessionExpires ==
    /\ sessions # {}
    /\ up \cap serverHas = {}
    /\ sessions' = {}
    /\ UNCHANGED <<up, cpc, serverHas, subscribed, chan, queue, batch, routeVars, received, undisturbed>>

\* Redis is away for longer than the expiry: no key is refreshed in time, and
\* a server's own key, gone as well, no longer names users to refresh.
SessionsLost ==
    /\ "redis" \in Faults
    /\ sessions # {}
    /\ sessions' = {}
    /\ serverHas' = {}
    /\ UNCHANGED <<up, cpc, subscribed, chan, queue, batch, routeVars, received, undisturbed>>

Environment ==
    \/ \E s \in Server : \/ \E m \in Msg : HandleRouted(s, m)
                         \/ StreamEnds(s) \/ Resubscribe(s) \/ Crash(s)
    \/ SessionExpires \/ SessionsLost

Next ==
    \/ \E c \in Conn : HandleSocket(c)
    \/ \E m \in Msg : Route(m)
    \/ Environment

Spec == Init /\ [][Next]_vars

\* Tasks of running servers make progress and Redis expires keys; clients
\* need neither connect nor disconnect.
FairSpec ==
    /\ Spec
    /\ WF_vars(SessionExpires)
    /\ \A c \in Conn : WF_vars(HandleSocket(c) /\ cpc[c] \notin {"new", "open"})

-----------------------------------------------------------------------------
(* Properties.                                                             *)

RangeOf(s) == {s[i] : i \in DOMAIN s}
Open == {c \in Conn : cpc[c] = "open"}
Routed(m) == rpc[m] = "done" /\ ~InFlight(m)

\* A message routed while none of the recipient's connections changed reaches
\* all of them on the router's own server if there are any, and otherwise all
\* of them in the cluster.
Reach(m) ==
    LET here == {c \in Open : HomeOf[c] = EntryOf[m]}
    IN  IF here # {} THEN here ELSE Open
ReachesStable ==
    \A m \in Msg :
        InFlight(m) /\ (Routed(m))' /\ undisturbed'[m]
            => \A c \in Reach(m)' : m \in RangeOf(received'[c])
StableRecipientIsReached == [][ReachesStable]_vars

\* "Offline Queue: Store in Redis if user not online" (01-architecture.md): a
\* message routed while no connection changed is not lost.  Once routed it has
\* reached a connection, waits in the queue or is in the hands of a drain.
UndisturbedIsKept ==
    \A m \in Msg :
        Routed(m) /\ undisturbed[m] =>
            \/ m \in RangeOf(queue)
            \/ \E c \in Conn : m \in RangeOf(received[c]) \cup RangeOf(batch[c])

\* No connection gets a message twice, whatever fails: a message goes through
\* one of local sending, publishing and queueing.  (With two connections on one
\* server two drains may read the same messages, see OfflineQueue!HandedOutOnce.)
AtMostOnce ==
    \A c \in Conn : \A i, j \in DOMAIN received[c] :
        received[c][i] = received[c][j] => i = j

\* "Find which servers have a user connected" (session_store.rs): while no
\* connection is being set up or torn down the session store names exactly
\* the servers that have one.
SessionsMatchConnections ==
    (\A c \in Conn : cpc[c] \in Settled) => sessions = {HomeOf[c] : c \in Open}

\* When the last connection is gone, if only because its server crashed, the
\* session store forgets the user.
GoneIsForgotten ==
    (\A c \in Conn : cpc[c] \in {"closed", "dead"}) ~> sessions = {}
=============================================================================
