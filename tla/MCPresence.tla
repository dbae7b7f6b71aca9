----------------------------- MODULE MCPresence -----------------------------
(***************************************************************************)
(* Three connections, a watcher who subscribed before and one who comes    *)
(* and goes.  Usually a hash may expire, and a Redis call fail that the    *)
(* handler ignores, pushes included; in harsh behaviours, with two         *)
(* connections, anything may fail but a push of offline.                   *)
(***************************************************************************)
EXTENDS Presence

CONSTANTS c3, w2

Usual == INSTANCE Presence WITH Faults <- Faults \cap {"online", "update", "push", "expiry"}

VARIABLE weather

MCvars == <<vars, weather>>

MCInit == Init /\ weather \in {"usual", "harsh"}
MCNext ==
    /\ UNCHANGED weather
    /\ \/ weather = "usual" /\ Usual!Next
       \/ weather = "harsh" /\ Next /\ conn'[c3] = "off" /\ w2 \notin subs' /\ unpushed' = {}
MCSpec == MCInit /\ [][MCNext]_MCvars

\* If no server crashes and mark_offline does not fail, a user without a
\* connection is reported offline once the handlers are done.
OfflineWhenGoneUsually == weather = "usual" => OfflineWhenGone

\* Then also, the last status that broadcast_presence_change pushed to a
\* standing subscriber is offline, however the pushes interleaved, unless a push
\* of it failed since the user was last there.
OfflineIsPushedUsually == weather = "usual" => OfflineIsPushed
=============================================================================
