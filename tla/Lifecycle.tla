----------------------------- MODULE Lifecycle -----------------------------
(***************************************************************************)
(* The life of a server: what AppState::new finds decides which services   *)
(* there are, probes report it, clients come and go, the background tasks  *)
(* run in one select!, and a signal takes all of it down in steps.         *)
(***************************************************************************)
EXTENDS FiniteSets, Integers

CONSTANTS
    Clients,
    MaxConnections,     \* max_connections
    Asked,              \* the services that REST requests ask for
    Misfortunes         \* of "panic" (in a background task), "sickness" (of Redis or PostgreSQL)

VARIABLES
    found,      \* at the start: a subset of "redis", "postgres", "storage", and of the settings "cluster", "gdpr", "email"
    healthy,    \* dependencies that answer now
    client,     \* [Clients -> "away", "request", "upgraded", "connected", "gone"], or the service that a
                \* REST request of the client asks for, while the body of that request is still to come
    told,       \* clients that were sent the shutdown message
    tasks,      \* the background tasks: "running", "stopped", "panicked"
    phase,      \* where main is
    counted,    \* clients_notified
    closed,     \* connections_closed
    probe,      \* the readiness probe: pc, and what it has seen
    wasReady,   \* history: a probe has answered that the server is ready
    refused     \* history: services that were asked for and answered with SERVICE_UNAVAILABLE

answers == <<wasReady, refused>>
lifeVars == <<found, healthy, client, told, tasks, phase, counted, closed, probe, wasReady, refused>>

Connected == {c \in Clients : client[c] = "connected"}

TypeOK ==
    /\ healthy \subseteq found \cap {"redis", "postgres"}
    /\ client \in [Clients -> {"away", "request", "upgraded", "connected", "gone"} \cup Asked]
    /\ told \subseteq Clients
    /\ tasks \in {"running", "stopped", "panicked"}
    /\ phase \in {"serving", "draining", "notify", "count", "stop", "linger", "join", "exited"}
    /\ refused \subseteq Asked

--------------------------------------------------------------------------
(* AppState::new                                                           *)

Databased == {"storage", "conversations", "handler", "receipts", "reactions", "blocking", "link_previews", "emoji"}

\* Neither a missing Redis nor a missing PostgreSQL stops the start.
Services ==
    UNION {IF "redis" \in found THEN {"redis_cache"} ELSE {},
           IF "cluster" \in found
           THEN {IF "redis" \in found THEN "redis_sessions" ELSE "memory_sessions", "cluster_router", "presence_broadcaster"} ELSE {},
           IF "postgres" \in found THEN Databased ELSE {},
           IF {"postgres", "storage"} \subseteq found THEN {"attachments"} ELSE {},
           IF {"postgres", "gdpr"} \subseteq found THEN {"gdpr"} ELSE {},
           IF {"postgres", "email"} \subseteq found THEN {"email"} ELSE {}}

Init ==
    /\ found \in SUBSET {"redis", "postgres", "storage", "cluster", "gdpr", "email"}
    /\ healthy = found \cap {"redis", "postgres"}
    /\ client = [c \in Clients |-> "away"] /\ told = {}
    /\ tasks = "running" /\ phase = "serving" /\ counted = 0 /\ closed = 0
    /\ probe = [pc |-> "idle"] /\ wasReady = FALSE /\ refused = {}

--------------------------------------------------------------------------
(* Clients: the upgrade answers the request for a socket, a task of its    *)
(* own registers the connection afterwards.  A REST request is answered    *)
(* when its body has come, and nothing obliges the client to send it.      *)

clientSide == <<found, healthy, tasks, phase, told, counted, closed, probe, wasReady>>
Moves(c, from, to) ==
    client[c] = from /\ client' = [client EXCEPT ![c] = to] /\ phase # "exited" /\ UNCHANGED clientSide

Request(c) == phase = "serving" /\ Moves(c, "away", "request") /\ UNCHANGED refused
Upgrade(c) == Moves(c, "request", "upgraded") /\ UNCHANGED refused
Register(c) ==
    Moves(c, "upgraded", IF Cardinality(Connected) < MaxConnections THEN "connected" ELSE "gone") /\ UNCHANGED refused
Close(c) == Moves(c, "connected", "gone") /\ UNCHANGED refused

\* What a handler without its service answers; a service that fails answers otherwise.
Refuse(s) == refused' = IF s \in Services THEN refused ELSE refused \cup {s}

Ask(c, s) == phase = "serving" /\ Moves(c, "away", s) /\ UNCHANGED refused
BodyComes(c, s) == Moves(c, s, "gone") /\ Refuse(s)

\* upload_file looks for its service before it reads the form.
TurnAway(c) ==
    /\ phase = "serving" /\ "attachments" \in Asked \ Services
    /\ Moves(c, "away", "gone") /\ Refuse("attachments")

\* The client breaks off: the answer reaches nobody.
BreakOff(c, s) == Moves(c, s, "gone") /\ UNCHANGED refused

--------------------------------------------------------------------------
(* /health/ready                                                           *)

probeSide == <<found, healthy, client, told, tasks, phase, counted, closed, refused>>

\* Mutant: what is not configured is not asked.
CheckRedis_Optional ==
    /\ probe.pc = "idle" /\ phase = "serving"
    /\ probe' = [pc |-> "postgres", redis |-> "redis" \in found => "redis" \in healthy]
    /\ UNCHANGED <<probeSide, wasReady>>
CheckRedis ==
    /\ probe.pc = "idle" /\ phase = "serving"
    /\ probe' = [pc |-> "postgres", redis |-> "redis" \in found /\ "redis" \in healthy]
    /\ UNCHANGED <<probeSide, wasReady>>

\* Mutant: what is not configured is not asked.
CheckPostgres_Optional ==
    /\ probe.pc = "postgres" /\ phase # "exited"
    /\ probe' = [pc |-> "capacity", redis |-> probe.redis, postgres |-> "postgres" \in found => "postgres" \in healthy]
    /\ UNCHANGED <<probeSide, wasReady>>
CheckPostgres ==
    /\ probe.pc = "postgres" /\ phase # "exited"
    /\ probe' = [pc |-> "capacity", redis |-> probe.redis, postgres |-> "postgres" \in found /\ "postgres" \in healthy]
    /\ UNCHANGED <<probeSide, wasReady>>

CheckCapacity ==
    /\ probe.pc = "capacity" /\ phase # "exited"
    /\ probe' = [pc |-> IF probe.redis /\ probe.postgres /\ Cardinality(Connected) < MaxConnections THEN "ready" ELSE "unready"]
    /\ wasReady' = (wasReady \/ probe'.pc = "ready")
    /\ UNCHANGED probeSide

ProbeAgain ==
    /\ probe.pc \in {"ready", "unready"}
    /\ probe' = [pc |-> "idle"]
    /\ UNCHANGED <<probeSide, wasReady>>

Sicken(d) ==
    /\ "sickness" \in Misfortunes /\ d \in healthy
    /\ healthy' = healthy \ {d}
    /\ UNCHANGED <<found, client, told, tasks, phase, counted, closed, probe, answers>>

--------------------------------------------------------------------------
(* Shutdown                                                                *)

shutdownSide == <<found, healthy, client, probe, answers>>

\* The handler sends on shutdown_tx at once; axum stops to accept requests.
Signal ==
    /\ phase = "serving" /\ phase' = "draining"
    /\ UNCHANGED <<shutdownSide, told, tasks, counted, closed>>

\* The select! of the background tasks receives it, or one of them has panicked.
StopTasks ==
    /\ tasks = "running" /\ phase \notin {"serving", "exited"}
    /\ tasks' = "stopped"
    /\ UNCHANGED <<shutdownSide, told, phase, counted, closed>>

TaskPanics ==
    /\ "panic" \in Misfortunes /\ tasks = "running" /\ phase # "exited"
    /\ tasks' = "panicked"
    /\ UNCHANGED <<shutdownSide, told, phase, counted, closed>>

\* Mutant: serve also waits for the sockets.
Drained_OfSockets ==
    /\ phase = "draining" /\ \A c \in Clients : client[c] \in {"away", "gone"}
    /\ phase' = "notify"
    /\ UNCHANGED <<shutdownSide, told, tasks, counted, closed>>

\* axum::serve returns when the requests are answered, however long the last
\* of them takes; an upgraded one is.
Drained ==
    /\ phase = "draining" /\ \A c \in Clients : client[c] \notin {"request"} \cup Asked
    /\ phase' = "notify"
    /\ UNCHANGED <<shutdownSide, told, tasks, counted, closed>>

Notify ==
    /\ phase = "notify" /\ phase' = "count"
    /\ told' = told \cup Connected
    /\ UNCHANGED <<shutdownSide, tasks, counted, closed>>

CountNotified ==
    /\ phase = "count" /\ phase' = "stop"
    /\ counted' = Cardinality(Connected)
    /\ UNCHANGED <<shutdownSide, told, tasks, closed>>

\* Half a second later: nobody listens for the second signal.
SignalAgain ==
    /\ phase = "stop" /\ phase' = "linger"
    /\ UNCHANGED <<shutdownSide, told, tasks, counted, closed>>

\* Two seconds later: a difference of unsigned counts.
CountClosed ==
    /\ phase = "linger" /\ phase' = "join"
    /\ closed' = counted - Cardinality(Connected)
    /\ UNCHANGED <<shutdownSide, told, tasks, counted>>

\* The tasks are joined, or thirty seconds have passed.
Join ==
    /\ phase = "join" /\ phase' = "exited"
    /\ UNCHANGED <<shutdownSide, told, tasks, counted, closed>>

Steps == StopTasks \/ Drained \/ Notify \/ CountNotified \/ SignalAgain \/ CountClosed \/ Join

--------------------------------------------------------------------------
Next ==
    \/ \E c \in Clients : Request(c) \/ Upgrade(c) \/ Register(c) \/ Close(c) \/ TurnAway(c)
    \/ \E c \in Clients, s \in Asked : Ask(c, s) \/ BodyComes(c, s) \/ BreakOff(c, s)
    \/ CheckRedis \/ CheckPostgres \/ CheckCapacity \/ ProbeAgain
    \/ \E d \in {"redis", "postgres"} : Sicken(d)
    \/ Signal \/ TaskPanics \/ Steps

\* Upgrades are answered and main is scheduled; clients need neither close nor
\* send the rest of what they began.
Spec == Init /\ [][Next]_lifeVars /\ WF_lifeVars(Steps) /\ \A c \in Clients : WF_lifeVars(Upgrade(c))

--------------------------------------------------------------------------
\* health.rs and state.rs: a REST request answered with SERVICE_UNAVAILABLE, of a
\* server that reported itself ready at any time, asked for one of the three
\* services that are left out beside a PostgreSQL that was found: attachments
\* when the file storage failed to start, erasure and e-mail by the settings.
\* The sessions of a cluster are then where its other servers see them.
LeftOut ==
    {s \in {"attachments", "gdpr", "email"} : (IF s = "attachments" THEN "storage" ELSE s) \notin found}
ReadyIsEquipped == wasReady => refused \subseteq LeftOut /\ "memory_sessions" \notin Services

\* Refuted: a ready server refuses nothing (an upload, when its storage failed).
ReadyRefusesNothing == wasReady => refused = {}

\* main.rs: a signal ends the process, whatever open sockets and tasks do, unless
\* a client withholds the body of a request for ever.
Withheld == \E c \in Clients : client[c] \in Asked
SignalEnds == phase # "serving" ~> phase = "exited" \/ []Withheld

\* Refuted: a signal ends the process whatever clients do (the drain has no timeout).
SignalEndsAnyway == phase # "serving" ~> phase = "exited"

\* Refuted: a connection that registers between the counts makes the unsigned
\* difference wrap (shutdown.rs:47).
ClosedIsACount == closed >= 0

\* Refuted: a panic in one task ends all of them and the server goes on.
TasksRunWhileServing == phase = "serving" => tasks = "running"

\* Refuted: the cluster subscriber stops at the signal, before the clients leave.
SubscriberOutlivesClients == tasks = "stopped" => Connected = {}
=============================================================================
