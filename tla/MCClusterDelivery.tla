-------------------------- MODULE MCClusterDelivery --------------------------
(***************************************************************************)
(* A connection on each of two servers, or both on the first; a message is *)
(* routed there and another on a third server.  Nothing fails, or servers  *)
(* crash, or anything fails (then only the first message is routed).       *)
(***************************************************************************)
EXTENDS ClusterDelivery, TLC

CONSTANTS s1, s2, s3, c1, c2, m1, m2

MCHomeOf == c1 :> s1 @@ c2 :> s2
MCHomeOfSame == c1 :> s1 @@ c2 :> s1
MCEntryOf == m1 :> s1 @@ m2 :> s3

Calm == INSTANCE ClusterDelivery WITH Faults <- {}
Crashing == INSTANCE ClusterDelivery WITH Faults <- {"crash"}

VARIABLE faults

MCvars == <<vars, faults>>

MCInit == Init /\ faults \in {"none", "crash", "any"}
MCNext ==
    /\ UNCHANGED faults
    /\ \/ faults = "none" /\ Calm!Next
       \/ faults = "crash" /\ Crashing!Next /\ s3 \in up'
       \/ faults = "any" /\ Next /\ s3 \in up' \cap subscribed' /\ rpc'[m2] = "new"
MCSpec == MCInit /\ [][MCNext]_MCvars

\* While nothing fails, a message routed by route_to_user_internal during
\* which the recipient's connections do not change is delivered or queued.
UndisturbedIsKeptWhenCalm == faults = "none" => UndisturbedIsKept

\* While nothing fails and no call is in progress, the session store names
\* exactly the servers on which the user has a connection.
SessionsMatchWhenCalm == faults = "none" => SessionsMatchConnections

\* While nothing fails, a route_to_user_internal during which the recipient's
\* connections do not change reaches one of them if there is one.
StableRecipientIsReachedWhenCalm == [][faults = "none" => ReachesStable]_vars

\* The session store forgets a user who has left every server, even if the
\* server did not get to unregister_session because it crashed.
GoneIsForgottenDespiteCrashes ==
    faults # "any" /\ (\A c \in Conn : cpc[c] \in {"closed", "dead"}) ~> sessions = {}
=============================================================================
