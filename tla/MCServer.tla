------------------------------ MODULE MCServer ------------------------------
(***************************************************************************)
(* What keeps a server and its stores going: the circuit breaker           *)
(* (MCCircuitBreaker), the rate limiter, start, readiness and shutdown,    *)
(* the partitions of the message table and the shards of users, and the    *)
(* link preview processor.  Each behaviour runs one part, the others stand *)
(* still.                                                                  *)
(***************************************************************************)
EXTENDS FiniteSets, Sequences, MCCircuitBreaker

CONSTANTS
    Handlers, MaxSends, MaxMessages, Window, MaxNow, Outages,
    Clients, MaxConnections, Asked, Misfortunes,
    Premade, Ahead, MaxDay, Setbacks,
    Nodes, VirtualNodes, MaxHash, ShardCount, HashOfShard, DirectReads, Coordinator, MaxCalls,
    Texts, Refused, Overlong, Processors, MaxUrls, MaxPending, MaxEnqueues, MaxRefreshes, MaxMishaps

VARIABLES
    part,
    count, expiresAt, now, check, sends, passed, unexpiring,
    found, healthy, client, told, tasks, phase, counted, closed, probe, wasReady, refused,
    day, hour, up, done, partitions, missed, failed,
    place, workers, starting, ring, calls, members,
    previews, created, enqueue, fetcher, cached, announced, unheard, refreshes, mishaps

quotaVars == <<count, expiresAt, now, check, sends, passed, unexpiring>>
lifeVars == <<found, healthy, client, told, tasks, phase, counted, closed, probe, wasReady, refused>>
dayVars == <<day, hour, up, done, partitions, missed, failed>>
ringVars == <<place, workers, starting, ring, calls, members>>
previewVars == <<previews, created, enqueue, fetcher, cached, announced, unheard, refreshes, mishaps>>

ASSUME QuotaAssumption ==
    IsFiniteSet(Handlers) /\ {MaxSends, MaxMessages, Window, MaxNow} \subseteq Nat

ASSUME PartitionAssumption ==
    Premade \in Nat /\ Ahead \in Nat /\ MaxDay \in Nat /\ Ahead <= Premade + 2

ASSUME ShardAssumption ==
    /\ VirtualNodes \in Nat \ {0} /\ ShardCount \in Nat \ {0} /\ {MaxHash, MaxCalls} \subseteq Nat
    /\ HashOfShard \in [0..ShardCount - 1 -> 0..MaxHash]

ASSUME PreviewAssumption ==
    /\ \A m \in DOMAIN Texts : DOMAIN Texts[m] = 1..Len(Texts[m])
    /\ MaxRefreshes \in Nat /\ MaxMishaps \in Nat

(* More links than MAX_URLS_PER_MESSAGE, and one link twice.               *)
MCTexts == [m \in {"m1", "m2"} |-> IF m = "m1" THEN <<"long", "bad", "u1", "u2", "u3">> ELSE <<"u1", "u1">>]

(* Shards before, at, between and after the points of the nodes.           *)
MCHashOfShard == [s \in 0..ShardCount - 1 |-> IF s = 3 THEN 5 ELSE 2 * s]

Quota == INSTANCE RateLimiter
Life == INSTANCE Lifecycle
Days == INSTANCE Partitions
Shards == INSTANCE Sharding
Preview == INSTANCE LinkPreviews

ASSUME LifeAssumption == Asked \subseteq Life!Databased \cup {"attachments", "gdpr", "email"}

Parts == {"circuit", "quota", "readiness", "shutdown", "partitions", "shards", "previews", "repeats"}
LifeParts == {"readiness", "shutdown"}
PreviewParts == {"previews", "repeats"}

\* The variables of a part that stands still are 0, or keep their first value
\* if a liveness property speaks of them.  A shutdown starts with everything.
PartsInit ==
    /\ part \in Parts
    /\ Init /\ callers \in (IF part = "circuit" THEN {"three", "two", "one"} ELSE {"one"})
    /\ IF part = "quota" THEN Quota!Init
       ELSE count = 0 /\ expiresAt = 0 /\ now = 0 /\ check = 0 /\ sends = 0 /\ passed = 0 /\ unexpiring = 0
    /\ Life!Init /\ (part # "readiness" => found = {"redis", "postgres"})
    /\ IF part = "partitions" THEN Days!Init
       ELSE day = 0 /\ hour = 0 /\ up = 0 /\ done = 0 /\ partitions = 0 /\ missed = 0 /\ failed = 0
    /\ IF part = "shards" THEN Shards!Init /\ \A n \in Nodes : place[n][0] < place[n][1]
       ELSE place = 0 /\ workers = 0 /\ starting = 0 /\ ring = 0 /\ calls = 0 /\ members = 0
    /\ Preview!Init

LifeOfClients ==
    \/ \E c \in Clients : Life!Request(c) \/ Life!Upgrade(c) \/ Life!Register(c) \/ Life!Close(c) \/ Life!TurnAway(c)
    \/ \E c \in Clients, s \in Asked : Life!Ask(c, s) \/ Life!BodyComes(c, s) \/ Life!BreakOff(c, s)

LifeNext ==
    \/ /\ part = "readiness"
       /\ \/ Life!CheckRedis \/ Life!CheckPostgres \/ Life!CheckCapacity \/ Life!ProbeAgain
          \/ \E d \in {"redis", "postgres"} : Life!Sicken(d)
          \/ LifeOfClients
    \/ /\ part = "shutdown"
       /\ \/ Life!Signal \/ Life!TaskPanics \/ Life!Steps
          \/ LifeOfClients

\* Requests are repeated where nothing else goes wrong.
PreviewsNext ==
    /\ Preview!Next
    /\ part = "previews" => \A m \in Preview!Messages : enqueue'[m].requests <= 1
    /\ part = "repeats" => refreshes' = 0 /\ mishaps' = 0

PartsNext ==
    /\ UNCHANGED part
    /\ IF part = "circuit" THEN MCNext ELSE UNCHANGED MCvars
    /\ IF part = "quota" THEN Quota!Next ELSE UNCHANGED quotaVars
    /\ IF part \in LifeParts THEN LifeNext ELSE UNCHANGED lifeVars
    /\ IF part = "partitions" THEN Days!Next ELSE UNCHANGED dayVars
    /\ IF part = "shards" THEN Shards!Next ELSE UNCHANGED ringVars
    /\ IF part \in PreviewParts THEN PreviewsNext ELSE UNCHANGED previewVars

partsVars == <<part, MCvars, quotaVars, lifeVars, dayVars, ringVars, previewVars>>
OfCircuit(A) == part = "circuit" /\ A /\ UNCHANGED <<part, callers, quotaVars, lifeVars, dayVars, ringVars, previewVars>>
OfLife(A) == part = "shutdown" /\ A /\ UNCHANGED <<part, MCvars, quotaVars, dayVars, ringVars, previewVars>>
OfPreviews(A) == part \in PreviewParts /\ A /\ UNCHANGED <<part, MCvars, quotaVars, lifeVars, dayVars, ringVars>>

\* Time passes and callers keep calling; main and the upgrades are scheduled;
\* the preview processor ticks and its calls return.
PartsSpec ==
    /\ PartsInit /\ [][PartsNext]_partsVars
    /\ WF_partsVars(OfCircuit(Wait))
    /\ \A c \in {c1, c2} : WF_partsVars(OfCircuit(callers # "one" /\ Call(c)))
    /\ WF_partsVars(OfLife(Life!Steps))
    /\ \A c \in Clients : WF_partsVars(OfLife(Life!Upgrade(c)))
    /\ \A p \in Processors : WF_partsVars(OfPreviews(Preview!Process(p)))

-----------------------------------------------------------------------------
(* The properties of the parts, each where it runs, invariants with types. *)

\* Of the counted sends at most twice the quota pass in any window.
QuotaHolds == part = "quota" => Quota!TypeOK /\ Quota!QuotaHolds

\* A server that has said it is ready refuses only what may be left out.
ReadyIsEquipped == part = "readiness" => Life!TypeOK /\ Life!ReadyIsEquipped

\* A signal ends the process, unless a body is withheld for ever.
SignalEnds == Life!SignalEnds

\* A row has its place: a partition for the day of its message, and a worker that
\* only a worker's coming or going changes.
RowsHaveAPlace ==
    /\ part = "partitions" => Days!TypeOK /\ Days!MessagesHaveAPartition
    /\ part = "shards" => Shards!TypeOK /\ Shards!ShardsAreFound

\* A preview that was found is announced and stays.
FoundIsAnnounced == part \in PreviewParts => Preview!TypeOK /\ Preview!FoundIsAnnounced

\* Every preview that can be stored leaves the pending state.
PreviewsSettle == Preview!PreviewsSettle
=============================================================================
