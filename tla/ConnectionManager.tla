------------------------- MODULE ConnectionManager -------------------------
(***************************************************************************)
(* The registry of live WebSocket connections of one server instance       *)
(* (domain/connection/manager.rs), driven by the two kinds of task that    *)
(* change it: the handle_socket task that owns a connection                *)
(* (api/websocket.rs) and the periodic stale-connection sweep (tasks.rs).  *)
(*                                                                         *)
(* The registry is two DashMaps and an atomic counter.  One DashMap call,  *)
(* or one guard's lifetime, is one step; nothing protects a sequence of    *)
(* them, so register and unregister are sequences of steps here.           *)
(***************************************************************************)
EXTENDS Naturals, FiniteSets

CONSTANTS
    Conn,            \* connection ids; each is a fresh UUID, used once
    User,            \* user ids
    UserOf,          \* the user a connection authenticated as
    MaxConnections,  \* ConnectionLimits.max_connections
    MaxPerUser,      \* ConnectionLimits.max_connections_per_user
    Sweeper          \* the task that runs cleanup_stale_connections

ASSUME ConnAssumption == IsFiniteSet(Conn) /\ Conn # {}
ASSUME UserOfAssumption == UserOf \in [Conn -> User]
ASSUME LimitsAssumption == MaxConnections \in Nat /\ MaxPerUser \in Nat
ASSUME SweeperAssumption == Sweeper \notin Conn

VARIABLES
    connections,  \* keys of the DashMap `connections`
    userKeys,     \* keys of the DashMap `user_connections`
    userConns,    \* its values; {} for a user that is not a key
    total,        \* total_connections
    dropped,      \* connections whose outbound receiver is gone (!is_alive)
    pc,           \* where the handle_socket task of a connection is
    ustep,        \* where a task is inside unregister
    sweep,        \* what the sweep is doing
    unseen,       \* ids the sweep's iteration has not reached yet
    stale,        \* stale_ids: collected, not yet unregistered
    sweepConn,    \* the id the sweep is unregistering
    racing        \* history: most registrations past the first check at once

registry == <<connections, userKeys, userConns, total>>
sweepVars == <<sweep, unseen, stale, sweepConn>>
vars == <<connections, userKeys, userConns, total, dropped, pc, ustep,
          sweep, unseen, stale, sweepConn, racing>>

Actor == Conn \cup {Sweeper}
Target(a) == IF a = Sweeper THEN sweepConn ELSE a

Registering == {"push", "count"}
HandlerPC == {"new", "check_user", "insert", "open", "cleanup", "closed",
              "rejected"} \cup Registering
UnregisterStep == {"idle", "retain", "drop_key", "uncount"}

TypeOK ==
    /\ connections \in SUBSET Conn
    /\ userKeys \in SUBSET User
    /\ userConns \in [User -> SUBSET Conn]
    /\ total \in Nat    \* usize: a fetch_sub below zero would wrap
    /\ dropped \in SUBSET Conn
    /\ pc \in [Conn -> HandlerPC]
    /\ ustep \in [Actor -> UnregisterStep]
    /\ sweep \in {"idle", "scan", "purge"}
    /\ unseen \in SUBSET Conn
    /\ stale \in SUBSET Conn
    /\ sweepConn \in Conn
    /\ racing \in Nat

\* What the sweep's loop variable is outside the loop, where nothing reads it.
NoneYet == CHOOSE c \in Conn : TRUE

Init ==
    /\ connections = {}
    /\ userKeys = {}
    /\ userConns = [u \in User |-> {}]
    /\ total = 0
    /\ dropped = {}
    /\ pc = [c \in Conn |-> "new"]
    /\ ustep = [a \in Actor |-> "idle"]
    /\ sweep = "idle"
    /\ unseen = {}
    /\ stale = {}
    /\ sweepConn = NoneYet
    /\ racing = 0

Goto(c, l) == pc' = [pc EXCEPT ![c] = l]

-----------------------------------------------------------------------------
(* register, run by the connection's own task before its channel is used. *)

Admitted == {c \in Conn : pc[c] \in {"check_user", "insert"} \cup Registering}
CountRaces == racing' = IF Cardinality(Admitted') > racing THEN Cardinality(Admitted') ELSE racing

\* Mutant: one too many.
CheckTotal_OffByOne(c) ==
    /\ pc[c] = "new"
    /\ Goto(c, IF total > MaxConnections THEN "rejected" ELSE "check_user") /\ CountRaces
    /\ UNCHANGED <<registry, dropped, ustep, sweepVars>>

CheckTotal(c) ==
    /\ pc[c] = "new"
    /\ Goto(c, IF total >= MaxConnections THEN "rejected" ELSE "check_user") /\ CountRaces
    /\ UNCHANGED <<registry, dropped, ustep, sweepVars>>

CheckUser(c) ==
    LET u == UserOf[c] IN
    /\ pc[c] = "check_user"
    /\ Goto(c, IF u \in userKeys /\ Cardinality(userConns[u]) >= MaxPerUser
                 THEN "rejected" ELSE "insert")
    /\ UNCHANGED <<registry, dropped, ustep, sweepVars, racing>>

InsertConnection(c) ==
    /\ pc[c] = "insert"
    /\ connections' = connections \cup {c}
    /\ Goto(c, "push")
    /\ UNCHANGED <<userKeys, userConns, total, dropped, ustep, sweepVars, racing>>

PushMapping(c) ==
    LET u == UserOf[c] IN
    /\ pc[c] = "push"
    /\ userKeys' = userKeys \cup {u}
    /\ userConns' = [userConns EXCEPT ![u] = @ \cup {c}]
    /\ Goto(c, "count")
    /\ UNCHANGED <<connections, total, dropped, ustep, sweepVars, racing>>

\* Mutant: register reports success without counting.
CountConnection_Forgotten(c) ==
    /\ pc[c] = "count"
    /\ Goto(c, "open")
    /\ UNCHANGED <<registry, dropped, ustep, sweepVars, racing>>

CountConnection(c) ==
    /\ pc[c] = "count"
    /\ total' = total + 1
    /\ Goto(c, "open")
    /\ UNCHANGED <<connections, userKeys, userConns, dropped, ustep, sweepVars, racing>>

-----------------------------------------------------------------------------
(* The open connection.  send_task owns the receiver: when a socket write  *)
(* fails it ends and the receiver is dropped, which is what the sweep sees.*)
(* select! returns when either task ends; recv_task may end at any time.   *)

SendTaskEnds(c) ==
    /\ pc[c] = "open"
    /\ c \notin dropped
    /\ dropped' = dropped \cup {c}
    /\ UNCHANGED <<registry, pc, ustep, sweepVars, racing>>

SelectReturns(c) ==
    /\ pc[c] = "open"
    /\ Goto(c, "cleanup")
    /\ UNCHANGED <<registry, dropped, ustep, sweepVars, racing>>

-----------------------------------------------------------------------------
(* unregister, called by the owner and by the sweep.  Only the caller that *)
(* removes the entry from `connections` continues past the first step.     *)

RemoveConnection(a, c) ==
    /\ connections' = connections \ {c}
    /\ ustep' = [ustep EXCEPT ![a] = "retain"]
    /\ UNCHANGED <<userKeys, userConns, total, dropped>>

\* Mutant: the id is left in its user's list.
RetainOthers_Forgotten(a) ==
    /\ ustep[a] = "retain"
    /\ ustep' = [ustep EXCEPT ![a] = "uncount"]
    /\ UNCHANGED <<connections, userKeys, userConns, total, dropped, pc, sweepVars, racing>>

RetainOthers(a) ==
    LET u == UserOf[Target(a)]
        others == userConns[u] \ {Target(a)}
    IN
    /\ ustep[a] = "retain"
    /\ userConns' = [userConns EXCEPT ![u] = others]
    /\ ustep' = [ustep EXCEPT ![a] =
                    IF u \in userKeys /\ others = {} THEN "drop_key"
                                                     ELSE "uncount"]
    /\ UNCHANGED <<connections, userKeys, total, dropped, pc, sweepVars, racing>>

\* The guard of RetainOthers was released by drop(user_conns): the entry is
\* removed whatever it holds by now.
DropUserKey(a) ==
    LET u == UserOf[Target(a)] IN
    /\ ustep[a] = "drop_key"
    /\ userKeys' = userKeys \ {u}
    /\ userConns' = [userConns EXCEPT ![u] = {}]
    /\ ustep' = [ustep EXCEPT ![a] = "uncount"]
    /\ UNCHANGED <<connections, total, dropped, pc, sweepVars, racing>>

Uncount(a) ==
    /\ ustep[a] = "uncount"
    /\ total' = total - 1
    /\ ustep' = [ustep EXCEPT ![a] = "idle"]
    /\ UNCHANGED <<connections, userKeys, userConns, dropped>>

\* Mutant: the owner goes on although the sweep has removed the entry.
OwnerUnregister_IgnoresRemoveResult(c) ==
    /\ pc[c] = "cleanup"
    /\ ustep[c] = "idle"
    /\ RemoveConnection(c, c)
    /\ UNCHANGED <<pc, sweepVars, racing>>

\* Mutant: the owner leaves a connection whose receiver is gone to the sweep.
OwnerUnregister_LeavesDeadToSweep(c) ==
    /\ pc[c] = "cleanup"
    /\ ustep[c] = "idle"
    /\ \/ /\ c \in connections \ dropped
          /\ RemoveConnection(c, c)
          /\ UNCHANGED <<pc, sweepVars, racing>>
       \/ /\ c \notin connections \ dropped
          /\ Goto(c, "closed")
          /\ UNCHANGED <<registry, dropped, ustep, sweepVars, racing>>

OwnerUnregister(c) ==
    /\ pc[c] = "cleanup"
    /\ ustep[c] = "idle"
    /\ \/ /\ c \in connections
          /\ RemoveConnection(c, c)
          /\ UNCHANGED <<pc, sweepVars, racing>>
       \/ /\ c \notin connections
          /\ Goto(c, "closed")
          /\ UNCHANGED <<registry, dropped, ustep, sweepVars, racing>>

OwnerUncount(c) ==
    /\ Uncount(c)
    /\ Goto(c, "closed")
    /\ UNCHANGED <<sweepVars, racing>>

-----------------------------------------------------------------------------
(* cleanup_stale_connections: iterate over the map, collect, unregister.   *)

\* Mutant: only entries found through the user's list are looked at.
IsStale_ThroughUserList(c) == c \in userConns[UserOf[c]] /\ c \in dropped

IsStale(c) == c \in connections /\ c \in dropped

SweepStart ==
    /\ sweep = "idle"
    /\ sweep' = "scan"
    /\ unseen' = Conn
    /\ stale' = {}
    /\ UNCHANGED <<registry, dropped, pc, ustep, sweepConn, racing>>

SweepVisit(c) ==
    /\ sweep = "scan"
    /\ c \in unseen
    /\ unseen' = unseen \ {c}
    /\ stale' = IF IsStale(c) THEN stale \cup {c} ELSE stale
    /\ sweep' = IF unseen' = {} THEN "purge" ELSE "scan"
    /\ UNCHANGED <<registry, dropped, pc, ustep, sweepConn, racing>>

SweepUnregister(c) ==
    /\ sweep = "purge"
    /\ ustep[Sweeper] = "idle"
    /\ c \in stale
    /\ \/ /\ c \in connections
          /\ sweepConn' = c
          /\ RemoveConnection(Sweeper, c)
          /\ UNCHANGED <<pc, sweep, unseen, stale, racing>>
       \/ /\ c \notin connections
          /\ stale' = stale \ {c}
          /\ UNCHANGED <<registry, dropped, pc, ustep, sweep, unseen, sweepConn, racing>>

SweepUncount ==
    /\ Uncount(Sweeper)
    /\ stale' = stale \ {sweepConn} /\ sweepConn' = NoneYet
    /\ UNCHANGED <<pc, sweep, unseen, racing>>

SweepEnd ==
    /\ sweep = "purge"
    /\ stale = {}
    /\ sweep' = "idle"
    /\ UNCHANGED <<registry, dropped, pc, ustep, unseen, stale, sweepConn, racing>>

-----------------------------------------------------------------------------
Register(c) ==
    \/ CheckTotal(c)
    \/ CheckUser(c)
    \/ InsertConnection(c)
    \/ PushMapping(c)
    \/ CountConnection(c)

Cleanup(c) == OwnerUnregister(c) \/ RetainOthers(c) \/ DropUserKey(c) \/ OwnerUncount(c)

Handler(c) == Register(c) \/ SendTaskEnds(c) \/ SelectReturns(c) \/ Cleanup(c)

SweepTask ==
    \/ SweepStart
    \/ \E c \in Conn : SweepVisit(c) \/ SweepUnregister(c)
    \/ RetainOthers(Sweeper)
    \/ DropUserKey(Sweeper)
    \/ SweepUncount
    \/ SweepEnd

Next == (\E c \in Conn : Handler(c)) \/ SweepTask

Spec == Init /\ [][Next]_vars

\* A spawned task is polled again whenever it can make progress; a client
\* need neither disconnect nor fail.
Fairness == WF_vars(SweepTask) /\ \A c \in Conn : WF_vars(Register(c) \/ Cleanup(c))
FairSpec == Spec /\ Fairness

-----------------------------------------------------------------------------
(* Properties.  TypeOK includes that total never goes below zero.          *)

Removing == {a \in Actor : ustep[a] # "idle"}
InRegistration == {c \in Conn : pc[c] \in Registering}

\* The atomic counter equals the number of registered connections up to the
\* calls in progress: it lags behind a register that has inserted and runs
\* ahead of an unregister that has removed.  A connection that were counted
\* down twice, by its owner and by the sweep, would break it.
CounterAccounting ==
    total + Cardinality(InRegistration)
        = Cardinality(connections) + Cardinality(Removing)

\* manager.rs, register: the limits are checked before the insert and without a
\* lock, so they are exceeded, but by no more than the registrations that raced:
\* while they come one at a time the limits hold.  (A user without a list is not
\* compared with the limit: where it is zero one connection passes.)
Reachable(limit) == IF racing = 0 THEN 0 ELSE limit + racing - 1
UserLimit == IF MaxPerUser = 0 THEN 1 ELSE MaxPerUser
ExcessIsRacing ==
    /\ Cardinality(connections) <= Reachable(MaxConnections)
    /\ \A u \in User : Cardinality(userConns[u]) <= Reachable(UserLimit)

\* What the limits are worth: the counter they read is right, and only races exceed
\* them.
LimitsAreKept == CounterAccounting /\ ExcessIsRacing

\* An id in a user's list belongs to that user and is registered, unless its
\* removal is just about to take it out of the list: send_to_user never has a
\* lasting dead id to skip and the per-user limit never counts one.
NoGhostMapping ==
    \A u \in User : \A c \in userConns[u] :
        /\ UserOf[c] = u
        /\ c \in connections \/ \E a \in Actor : ustep[a] = "retain" /\ Target(a) = c

\* A user with an empty list is a key only while the unregister that emptied
\* the list is about to remove it, so has_user, which looks at keys only,
\* does not stay true for a user who has gone.
EmptyEntryIsTransient ==
    \A u \in userKeys :
        userConns[u] = {} =>
            \E a \in Actor : ustep[a] = "drop_key" /\ UserOf[Target(a)] = u

\* Once every socket is finished and the sweep rests, the registry is as it
\* was at start-up: no entry, key or count leaks.
Drained ==
    /\ \A c \in Conn : pc[c] \in {"new", "rejected", "closed"}
    /\ sweep = "idle"
NoLeakWhenDrained ==
    Drained => connections = {} /\ userKeys = {} /\ total = 0

\* A connection is refused only for a reason that exists: its user really
\* has (or is just giving up) MaxPerUser connections.
RefusalIsJustified ==
    [][\A c \in Conn :
         pc[c] = "check_user" /\ pc'[c] = "rejected" =>
           Cardinality({d \in Conn : /\ UserOf[d] = UserOf[c]
                                     /\ d \in connections \/ \E a \in Removing : Target(a) = d})
             >= MaxPerUser]_vars

\* A connection whose receiver is gone leaves the registry and its user's list.
StaleIsPurged ==
    \A c \in Conn : c \in dropped ~> c \notin connections \cup UNION {userConns[u] : u \in User}

(* What the documentation promises and the interleaving of steps breaks.   *)

\* "Send message to all connections of a user" (manager.rs, send_to_user):
\* an open, registered connection is in its user's list.
OpenConnectionIsMapped ==
    \A c \in Conn :
        pc[c] = "open" /\ c \in connections => c \in userConns[UserOf[c]]

\* "Per-user connection limits" (docs/en/01-architecture.md).
PerUserLimit ==
    \A u \in User :
        Cardinality({c \in connections : UserOf[c] = u}) <= MaxPerUser

\* "Global connection limit" (docs/en/01-architecture.md).
GlobalLimit == Cardinality(connections) <= MaxConnections
=============================================================================
