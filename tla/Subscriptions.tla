---------------------------- MODULE Subscriptions ----------------------------
(***************************************************************************)
(* The conversation subscriptions of the connections of one user: the      *)
(* requests that change them, handled one at a time per connection, the    *)
(* events routed meanwhile, and what the client is told about them.        *)
(***************************************************************************)
EXTENDS Integers, FiniteSets, Sequences

CONSTANTS
    Sockets,    \* connections of the user to this server
    Topics,     \* conversations
    Joined,     \* those the user is a participant of
    MaxSubs,    \* max_subscriptions
    MaxAsks     \* bound: requests per connection

VARIABLES
    registered, \* connections the manager knows
    explicit,   \* connections in explicit mode, the others are in legacy mode
    subscribed, \* [Sockets -> subscribed conversations]
    ask,        \* [Sockets -> the request being handled: pc, kind, ids left, valid ids, ids to be answered]
    asks,       \* [Sockets -> requests so far]
    known,      \* history: [Sockets -> what its client was told it is subscribed to]
    withheld,   \* history: [Sockets -> filtered events of conversations known to be subscribed]
    silenced    \* history: connections that missed an event without ever having asked to

subVars == <<registered, explicit, subscribed, ask, asks, known, withheld, silenced>>
seenVars == <<withheld, silenced>>

Quiet == [pc |-> "idle", kind |-> "none", ids |-> <<>>, valid |-> <<>>, done |-> {}]
Requests == {"subscribe", "unsubscribe", "auto"}

TypeOK ==
    /\ registered \subseteq Sockets /\ explicit \subseteq Sockets
    /\ {subscribed, known, withheld} \subseteq [Sockets -> SUBSET Topics]
    /\ \A c \in Sockets : ask[c].pc \in {"idle", "check", "mode", "add", "remove", "answer"}
    /\ asks \in [Sockets -> 0..MaxAsks]
    /\ silenced \subseteq Sockets

Init ==
    /\ registered = Sockets /\ explicit = {}
    /\ subscribed = [c \in Sockets |-> {}]
    /\ ask = [c \in Sockets |-> Quiet]
    /\ asks = [c \in Sockets |-> 0]
    /\ known = subscribed /\ withheld = subscribed /\ silenced = {}

--------------------------------------------------------------------------
(* Requests *)

To(c, s) == ask' = [ask EXCEPT ![c].pc = s]

\* A message sent and a history fetched subscribe to their conversation,
\* before anything is checked and without an answer.
BeginAsk(c, kind, ids) ==
    /\ ask[c].pc = "idle" /\ asks[c] < MaxAsks
    /\ asks' = [asks EXCEPT ![c] = @ + 1]
    /\ c \in registered
    /\ ask' = [ask EXCEPT ![c] =
          [Quiet EXCEPT !.kind = kind, !.ids = ids,
                        !.pc = CASE kind = "subscribe" -> "check"
                                 [] kind = "unsubscribe" -> "remove"
                                 [] kind = "auto" -> "mode"]]
    /\ UNCHANGED <<registered, explicit, subscribed, known, seenVars>>

\* One after the other; a conversation of others is left out, and so is one
\* that cannot be checked.
CheckParticipation(c) ==
    LET r == ask[c] IN
    /\ r.pc = "check"
    /\ IF r.ids = <<>>
       THEN ask' = [ask EXCEPT ![c].ids = r.valid, ![c].pc = IF r.valid = <<>> THEN "answer" ELSE "mode"]
       ELSE \E failed \in BOOLEAN :
               ask' = [ask EXCEPT ![c].ids = Tail(r.ids),
                         ![c].valid = IF Head(r.ids) \in Joined /\ ~failed THEN Append(@, Head(r.ids)) ELSE @]
    /\ UNCHANGED <<registered, explicit, subscribed, asks, known, seenVars>>

SetExplicit(c) ==
    /\ ask[c].pc = "mode"
    /\ explicit' = explicit \cup {c}
    /\ To(c, "add")
    /\ UNCHANGED <<registered, subscribed, asks, known, seenVars>>

\* The first one beyond the limit ends the loop.
\* Mutant: the limit is checked after the answer's list was extended.
Add_AnsweredAnyway(c) ==
    LET ids == ask[c].ids IN
    /\ ask[c].pc = "add"
    /\ IF ids = <<>>
       THEN To(c, "answer") /\ UNCHANGED subscribed
       ELSE /\ ask' = [ask EXCEPT ![c].ids = Tail(@), ![c].done = @ \cup {Head(ids)}]
            /\ subscribed' = IF Cardinality(subscribed[c]) >= MaxSubs THEN subscribed
                             ELSE [subscribed EXCEPT ![c] = @ \cup {Head(ids)}]
    /\ UNCHANGED <<registered, explicit, asks, known, seenVars>>
Add(c) ==
    LET ids == ask[c].ids IN
    /\ ask[c].pc = "add"
    /\ IF ids = <<>> \/ Cardinality(subscribed[c]) >= MaxSubs
       THEN To(c, "answer") /\ UNCHANGED subscribed
       ELSE /\ subscribed' = [subscribed EXCEPT ![c] = @ \cup {Head(ids)}]
            /\ ask' = [ask EXCEPT ![c].ids = Tail(@), ![c].done = @ \cup ({Head(ids)} \ subscribed[c])]
    /\ UNCHANGED <<registered, explicit, asks, known, seenVars>>

\* The mode stays explicit.
Remove(c) ==
    LET ids == ask[c].ids IN
    /\ ask[c].pc = "remove"
    /\ IF ids = <<>>
       THEN To(c, "answer") /\ UNCHANGED subscribed
       ELSE /\ subscribed' = [subscribed EXCEPT ![c] = @ \ {Head(ids)}]
            /\ ask' = [ask EXCEPT ![c].ids = Tail(@), ![c].done = @ \cup ({Head(ids)} \cap subscribed[c])]
    /\ UNCHANGED <<registered, explicit, asks, known, seenVars>>

\* SubscriptionUpdated goes to every connection of the user.
AnswerAsk(c) ==
    LET r == ask[c] IN
    /\ r.pc = "answer"
    /\ known' = [d \in Sockets |->
          CASE d \notin registered \/ r.kind = "auto" -> known[d]
            [] r.kind = "subscribe" -> known[d] \cup r.done
            [] r.kind = "unsubscribe" -> known[d] \ r.done]
    /\ ask' = [ask EXCEPT ![c] = Quiet]
    /\ UNCHANGED <<registered, explicit, subscribed, asks, seenVars>>

\* The manager forgets the connection, a request being handled goes on.
Unregister(c) ==
    /\ c \in registered
    /\ registered' = registered \ {c}
    /\ UNCHANGED <<explicit, subscribed, ask, asks, known, seenVars>>

--------------------------------------------------------------------------
(* Events *)

ShouldReceive(c, k, system) == system \/ c \notin explicit \/ k \in subscribed[c]

\* send_to_user_filtered, its effect on each connection being independent.
RouteEvent(k, system) ==
    LET left == {c \in registered : ~ShouldReceive(c, k, system)} IN
    /\ k \in Joined
    /\ left # {}
    /\ withheld' = [c \in Sockets |-> IF c \in left /\ k \in known[c] /\ ask[c].kind # "unsubscribe"
                                      THEN withheld[c] \cup {k} ELSE withheld[c]]
    /\ silenced' = silenced \cup {c \in left : known[c] = {} /\ ask[c].kind # "subscribe"}
    /\ UNCHANGED <<registered, explicit, subscribed, ask, asks, known>>

--------------------------------------------------------------------------
Next ==
    \/ \E c \in Sockets :
          \/ \E kind \in {"subscribe", "unsubscribe"}, ids \in {<<k>> : k \in Topics} \cup {<<j, k>> : j, k \in Topics} :
                BeginAsk(c, kind, ids)
          \/ \E k \in Topics : BeginAsk(c, "auto", <<k>>)
          \/ CheckParticipation(c) \/ SetExplicit(c) \/ Add(c) \/ Remove(c) \/ AnswerAsk(c)
          \/ Unregister(c)
    \/ \E k \in Topics, system \in BOOLEAN : RouteEvent(k, system)

Spec == Init /\ [][Next]_subVars

--------------------------------------------------------------------------
\* subscription.rs, websocket.rs: a connection never has more than
\* max_subscriptions; and while the user has one connection, what its client was
\* told it is subscribed to is what the server delivers: it is subscribed unless
\* an unsubscribe is being handled, and no event of it was withheld.
ConfirmedIsDelivered ==
    /\ \A c \in Sockets : Cardinality(subscribed[c]) <= MaxSubs
    /\ Cardinality(Sockets) = 1 =>
          \A c \in Sockets :
             /\ withheld[c] = {}
             /\ c \in registered /\ ask[c].kind # "unsubscribe" => known[c] \subseteq subscribed[c]

\* Refuted: with two connections each client hears the other's confirmations.
ConfirmedForEach == \A c \in registered : ask[c].kind # "unsubscribe" => known[c] \subseteq subscribed[c]
\* Refuted: a client that never subscribed misses events once it has sent a
\* message in, or fetched the history of, another conversation.
LegacyReceivesAll == silenced = {}
=============================================================================
