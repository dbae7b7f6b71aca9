----------------------------- MODULE MCDelivery -----------------------------
(***************************************************************************)
(* How users are reached: through the offline queue, on another server     *)
(* (MCClusterDelivery), by push notification and by email.  Each behaviour   *)
(* runs one part, the others stand still.  Sockets drain the queue as they *)
(* like, or take turns; email is split so that each question is small.     *)
(***************************************************************************)
EXTENDS OfflineQueue, TLC

CONSTANTS
    s1, s2, s3, c1, c2, m1, m2, Server, Conn, Mail, Faults, HomeOf, EntryOf,
    Folk, Routes, Backoff, Wrap, FirstTime, LastTime, MaxFlips,
    Notices, Servers, Edits, MaxRows, MaxBatch, MaxPerHour, MaxRetries, MaxHour, HoursPerDay, QuietFrom, QuietTo, Woes

(* Each message enters at a server; the recipient has at most one connection *)
(* to each (two drains on one server hand out the same messages, see         *)
(* OfflineQueue!HandedOutOnce); what may fail includes a crash.              *)
ASSUME ClusterAssumption ==
    /\ HomeOf \in [Conn -> Server] /\ EntryOf \in [Mail -> Server]
    /\ \A c, d \in Conn : HomeOf[c] = HomeOf[d] => c = d
    /\ "crash" \in Faults

(* Milliseconds since the epoch, late enough not to be mistaken for "never"  *)
(* and a backoff before a u64 has no room for them.                          *)
ASSUME PushAssumption ==
    /\ IsFiniteSet(Folk)
    /\ {FirstTime, LastTime, Backoff, Wrap} \subseteq Nat
    /\ 0 < FirstTime /\ FirstTime <= LastTime /\ LastTime + Backoff <= Wrap

(* Every row has room for the notice it is made for.                         *)
ASSUME EmailAssumption ==
    /\ IsFiniteSet(Notices) /\ IsFiniteSet(Servers)
    /\ {MaxRows, MaxHour, MaxPerHour, MaxRetries} \subseteq Nat /\ MaxBatch \in Nat \ {0}

VARIABLES
    part,
    up, cpc, sessions, serverHas, subscribed, chan, kept, taken, rpc, targets, received, undisturbed, faults,
    here, muted, blocked, redisUp, time, flips, degraded, lastFailure, route, sent, notified, refused, missed, triedAt,
    emails, fresh, due, notice, processor, hour, counted, prefs, edit, delivered, collided, botched

clusterVars == <<up, cpc, sessions, serverHas, subscribed, chan, kept, taken, rpc, targets, received, undisturbed, faults>>
pushVars == <<here, muted, blocked, redisUp, time, flips, degraded, lastFailure, route, sent, notified, refused, missed, triedAt>>
emailVars == <<emails, fresh, due, notice, processor, hour, counted, prefs, edit, delivered, collided, botched>>

(* One message, from a.                                                    *)
MCRoutes == [m \in {"m1"} |-> "a"]

(* A connection on each of two servers; messages enter on one and a third.   *)
MCHomeOf == c1 :> s1 @@ c2 :> s2
MCEntryOf == m1 :> s1 @@ m2 :> s3

Cluster == INSTANCE MCClusterDelivery WITH Msg <- Mail, queue <- kept, batch <- taken
Push == INSTANCE Notifying WITH pushed <- notified
Email == INSTANCE EmailQueue

QueueParts == {"queue", "turns"}
EmailParts == {"notices", "emails", "preferences"}
Parts == {"cluster", "push"} \cup QueueParts \cup EmailParts

\* The variables of a part that stands still are 0, or keep their first value
\* if a property speaks of them in every part.
PartsInit ==
    /\ part \in Parts
    /\ Init
    /\ Cluster!MCInit /\ (part # "cluster" => faults = "none")
    /\ IF part = "push" THEN Push!Init
       ELSE here = 0 /\ muted = 0 /\ blocked = 0 /\ redisUp = 0 /\ time = 0 /\ flips = 0 /\ degraded = 0
            /\ lastFailure = 0 /\ route = 0 /\ sent = 0 /\ notified = 0 /\ refused = 0 /\ missed = 0 /\ triedAt = 0
    /\ IF part \in EmailParts THEN Email!Init
       ELSE emails = 0 /\ fresh = 0 /\ due = 0 /\ notice = 0 /\ processor = 0 /\ hour = 0 /\ counted = 0
            /\ prefs = 0 /\ edit = 0 /\ delivered = 0 /\ collided = 0 /\ botched = 0

\* Messages are numbered in the order in which they come.
InOrder(pc, rest) == \A i, j \in DOMAIN pc : i < j /\ pc[i] = rest => pc[j] = rest
\* In turns, one drain begins when the other has ended.
QueueNext ==
    /\ Next
    /\ InOrder(ppc', "new")
    /\ part = "turns" => OneReads'

EmailNext ==
    \/ /\ part = "notices"
       /\ \/ (\E n \in Notices : Email!Notify(n)) \/ Email!CancelPending
          \/ \E r \in Email!RowIds : Email!BecomesDue(r) \/ Email!WindowEnds(r)
    \/ /\ part = "emails"
       /\ \/ (\E n \in Notices \ {"n3"} : Email!Notify(n)) \/ Email!CancelPending \/ Email!RequeueFailed \/ Email!HourPasses
          \/ \E r \in Email!RowIds : Email!BecomesDue(r) \/ Email!WindowEnds(r)
          \/ \E s \in Servers : Email!Process(s)
    \/ /\ part = "preferences"
       /\ \/ (\E n \in Notices \ {"n3"} : Email!Notify(n)) \/ Email!HourPasses
          \/ \E r \in Email!RowIds : Email!BecomesDue(r)
          \/ \E s \in Servers : Email!Process(s) /\ ~Email!RoundEnds(s)
          \/ \E e \in Edits : Email!WritePreferences(e) \/ \E f \in {"address", "on", "off"} : Email!ReadPreferences(e, f)

PartsNext ==
    /\ UNCHANGED part
    /\ IF part \in QueueParts THEN QueueNext ELSE UNCHANGED vars
    /\ IF part = "cluster" THEN Cluster!MCNext ELSE UNCHANGED clusterVars
    /\ IF part = "push" THEN Push!Next ELSE UNCHANGED pushVars
    /\ IF part \in EmailParts THEN EmailNext ELSE UNCHANGED emailVars

partsVars == <<part, vars, clusterVars, pushVars, emailVars>>
OfCluster(A) == part = "cluster" /\ A /\ UNCHANGED <<part, faults, vars, pushVars, emailVars>>

\* Tasks of running servers make progress and Redis expires keys; clients
\* need neither connect nor disconnect.
PartsSpec ==
    /\ PartsInit /\ [][PartsNext]_partsVars
    /\ WF_partsVars(OfCluster(Cluster!SessionExpires))
    /\ \A c \in Conn : WF_partsVars(OfCluster(cpc[c] \notin {"new", "open"} /\ Cluster!HandleSocket(c)))

-----------------------------------------------------------------------------
(* The properties of the parts besides those of OfflineQueue, each where   *)
(* it runs, invariants with types.                                         *)

\* While nothing fails, the session store names the servers of the connections
\* when no call is in progress, and a message during whose routing they do not
\* change is delivered or queued (and every variable keeps its type).
KeptAndMatchedWhenCalm ==
    /\ TypeOK /\ Cluster!TypeOK
    /\ Cluster!UndisturbedIsKeptWhenCalm /\ Cluster!SessionsMatchWhenCalm

\* No message reaches the recipient twice.
AtMostOnce == Cluster!AtMostOnce

\* A message routed while the recipient's connections do not change reaches one
\* of them, if nothing fails.
StableRecipientIsReachedWhenCalm == Cluster!StableRecipientIsReachedWhenCalm

\* A user who has left every server is forgotten, though servers may crash.
GoneIsForgottenDespiteCrashes == Cluster!GoneIsForgottenDespiteCrashes

\* With one drain at a time the queue is a lossy first-in first-out mailbox.
MailboxStep == part = "turns" => Box!Next \/ UNCHANGED <<read \o unread, handed>>
IsMailboxInTurns == (part = "turns" => Box!Init) /\ [][MailboxStep]_vars

\* Every participant gets a routed message in one way, or a reason withholds it.
EveryoneIsServedOnce == part = "push" => Push!TypeOK /\ Push!EveryoneIsServedOnce

\* Queued notices are in an email that is sent once and within the limit.
EmailsAreSound == part \in EmailParts => Email!TypeOK /\ Email!EmailsAreSound

\* "Duration before attempting to reconnect after failure" (fallback.rs:15): Redis
\* is not tried again before it has passed.
BackoffIsKept == part = "push" => Push!BackoffIsKept
=============================================================================
