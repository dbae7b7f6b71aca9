------------------------------ MODULE Blocking ------------------------------
(***************************************************************************)
(* Blocks between users and what they are to cut: the messages routed and  *)
(* forwarded from one to the other, and the presence subscriptions, which  *)
(* Redis keeps twice, per target and per subscriber.                       *)
(***************************************************************************)
EXTENDS Integers, FiniteSets

CONSTANTS
    People,
    Blocks,     \* block_user calls
    Sends,      \* messages that are routed
    Forwards,   \* those of them that are forwarded into a direct conversation
    Clears,     \* clear_subscriptions calls
    MaxUnblocks,
    Upsets      \* what may go wrong: "sql", "redis", "expiry"

VARIABLES
    blocks,         \* rows <<blocker, blocked>> of user_blocks
    subscribers,    \* [People -> set chat:presence:subscribers:<target>]
    subscriptions,  \* [People -> set chat:presence:subscriptions:<subscriber>]
    block,          \* [Blocks -> pc, pair, whether both unsubscribes worked undisturbed]
    send,           \* [Sends -> pc, sender, to, who is left out, who got it]
    clearing,       \* [Clears -> pc, user, the targets that were read]
    unblocks,
    open,           \* history: [Sends -> people not blocked, or not known to be, at some time meanwhile]
    apart,          \* history: blocked pairs of which nobody has subscribed to the other since
    mixed           \* history: a key expired, or a subscription came into a clear_subscriptions

blockVars == <<blocks, subscribers, subscriptions, block, send, clearing, unblocks, open, apart, mixed>>
keyVars == <<subscribers, subscriptions, mixed>>

Pairs == {p \in People \X People : p[1] # p[2]}
Ends(p) == {p[1], p[2]}

TypeOK ==
    /\ blocks \subseteq Pairs
    /\ {subscribers, subscriptions} \subseteq [People -> SUBSET People]
    /\ \A c \in Blocks : block[c].pc # "idle" => block[c].pair \in Pairs
    /\ \A m \in Sends : send[m].pc # "idle" =>
          send[m].sender \in People /\ send[m].to \cup send[m].got \subseteq People
    /\ \A c \in Clears : clearing[c].pc # "idle" => clearing[c].user \in People
    /\ unblocks \in 0..MaxUnblocks
    /\ open \in [Sends -> SUBSET People] /\ apart \subseteq {Ends(p) : p \in Pairs}
    /\ mixed \in BOOLEAN

Init ==
    /\ blocks = {}
    /\ subscribers = [u \in People |-> {}] /\ subscriptions = subscribers
    /\ block = [c \in Blocks |-> [pc |-> "idle"]]
    /\ send = [m \in Sends |-> [pc |-> "idle"]]
    /\ clearing = [c \in Clears |-> [pc |-> "idle"]]
    /\ unblocks = 0
    /\ open = [m \in Sends |-> {}] /\ apart = {} /\ mixed = FALSE

--------------------------------------------------------------------------
(* Blocks *)

\* Either way round.
IsMutuallyBlocked(u, v) == <<u, v>> \in blocks \/ <<v, u>> \in blocks

\* Mutant: only those the user blocked.
GetAllBlockedUserIds_OneWay(u) == {v \in People : <<u, v>> \in blocks}
GetAllBlockedUserIds(u) == {v \in People : IsMutuallyBlocked(u, v)}

UnsubscribeKeys(u, t) ==
    /\ subscribers' = [subscribers EXCEPT ![t] = @ \ {u}]
    /\ subscriptions' = [subscriptions EXCEPT ![u] = @ \ {t}]

BlockUser(c, p) ==
    /\ block[c].pc = "idle"
    /\ blocks' = blocks \cup {p}
    /\ block' = [block EXCEPT ![c] = [pc |-> "mine", pair |-> p, ok |-> TRUE]]
    /\ UNCHANGED <<keyVars, send, clearing, unblocks, open, apart>>

\* Both unsubscribes are tried whatever becomes of them.
UnsubscribeMine(c) ==
    LET p == block[c].pair IN
    /\ block[c].pc = "mine"
    /\ \/ UnsubscribeKeys(p[1], p[2]) /\ block' = [block EXCEPT ![c].pc = "theirs"]
       \/ /\ "redis" \in Upsets
          /\ block' = [block EXCEPT ![c].pc = "theirs", ![c].ok = FALSE]
          /\ UNCHANGED <<subscribers, subscriptions>>
    /\ UNCHANGED <<blocks, send, clearing, unblocks, open, apart, mixed>>

UnsubscribeTheirs(c) ==
    LET p == block[c].pair IN
    /\ block[c].pc = "theirs"
    /\ block' = [block EXCEPT ![c].pc = "done"]
    /\ \/ /\ UnsubscribeKeys(p[2], p[1])
          /\ apart' = IF block[c].ok THEN apart \cup {Ends(p)} ELSE apart
       \/ "redis" \in Upsets /\ UNCHANGED <<subscribers, subscriptions, apart>>
    /\ UNCHANGED <<blocks, send, clearing, unblocks, open, mixed>>

\* Nothing is subscribed again.
UnblockUser(p) ==
    /\ p \in blocks /\ unblocks < MaxUnblocks
    /\ unblocks' = unblocks + 1
    /\ blocks' = blocks \ {p}
    /\ open' = [m \in Sends |->
          open[m] \cup IF send[m].pc = "idle" THEN {}
                       ELSE {v \in People : <<v, send[m].sender>> \notin blocks' /\ <<send[m].sender, v>> \notin blocks'}]
    /\ UNCHANGED <<keyVars, block, send, clearing, apart>>

--------------------------------------------------------------------------
(* Messages from one person to the others *)

\* A forwarded message goes to one other person, and is refused at once if it can be.
BeginSend(m, u) ==
    /\ send[m].pc = "idle"
    /\ \E to \in IF m \in Forwards THEN {{v} : v \in People \ {u}} ELSE {People \ {u}} :
          send' = [send EXCEPT ![m] = [pc |-> IF m \in Forwards THEN "check" ELSE "blocked",
                                       sender |-> u, to |-> to, got |-> {}]]
    /\ open' = [open EXCEPT ![m] = People \ GetAllBlockedUserIds(u)]
    /\ UNCHANGED <<blocks, keyVars, block, clearing, unblocks, apart>>

\* is_blocked takes an error for no.
CheckDmBlock(m) ==
    /\ send[m].pc = "check"
    /\ \/ /\ send' = [send EXCEPT ![m].pc =
                IF \E v \in send[m].to : IsMutuallyBlocked(send[m].sender, v) THEN "refused" ELSE "blocked"]
          /\ UNCHANGED open
       \/ /\ "sql" \in Upsets
          /\ send' = [send EXCEPT ![m].pc = "blocked"]
          /\ open' = [open EXCEPT ![m] = People]
    /\ UNCHANGED <<blocks, keyVars, block, clearing, unblocks, apart>>

\* route_message takes an error for nobody.
ReadBlocked(m) ==
    LET To(left) == send' = [send EXCEPT ![m].to = left, ![m].pc = IF left = {} THEN "done" ELSE "route"] IN
    /\ send[m].pc = "blocked"
    /\ \/ To(send[m].to \ GetAllBlockedUserIds(send[m].sender)) /\ UNCHANGED open
       \/ "sql" \in Upsets /\ To(send[m].to) /\ open' = [open EXCEPT ![m] = People]
    /\ UNCHANGED <<blocks, keyVars, block, clearing, unblocks, apart>>

DeliverTo(m, v) ==
    /\ send[m].pc = "route" /\ v \in send[m].to
    /\ LET left == send[m].to \ {v} IN
          send' = [send EXCEPT ![m].to = left, ![m].got = @ \cup {v},
                               ![m].pc = IF left = {} THEN "done" ELSE "route"]
    /\ UNCHANGED <<blocks, keyVars, block, clearing, unblocks, open, apart>>

Send(m) ==
    \/ \E u \in People : BeginSend(m, u) \/ DeliverTo(m, u)
    \/ CheckDmBlock(m) \/ ReadBlocked(m)

--------------------------------------------------------------------------
(* Presence subscriptions *)

\* One transaction; blocks are not asked about.
Subscribe(u, t) ==
    /\ u # t
    /\ subscribers' = [subscribers EXCEPT ![t] = @ \cup {u}]
    /\ subscriptions' = [subscriptions EXCEPT ![u] = @ \cup {t}]
    /\ apart' = apart \ {{u, t}}
    /\ block' = [c \in Blocks |-> IF block[c].pc # "idle" /\ Ends(block[c].pair) = {u, t}
                                  THEN [block[c] EXCEPT !.ok = FALSE] ELSE block[c]]
    /\ mixed' = (mixed \/ \E c \in Clears : clearing[c].pc = "delete" /\ clearing[c].user = u)
    /\ UNCHANGED <<blocks, send, clearing, unblocks, open>>

Unsubscribe(u, t) ==
    /\ t \in subscriptions[u] \/ u \in subscribers[t]
    /\ UnsubscribeKeys(u, t)
    /\ UNCHANGED <<blocks, block, send, clearing, unblocks, open, apart, mixed>>

\* The user has gone offline; an error reads as no subscriptions.
ReadSubscriptions(c, u) ==
    /\ clearing[c].pc = "idle" /\ subscriptions[u] # {}
    /\ clearing' = [clearing EXCEPT ![c] = [pc |-> "delete", user |-> u, targets |-> subscriptions[u]]]
    /\ UNCHANGED <<blocks, keyVars, block, send, unblocks, open, apart>>

\* Mutant: the target's lists are forgotten.
DeleteSubscriptions_OwnOnly(c) ==
    LET u == clearing[c].user IN
    /\ clearing[c].pc = "delete"
    /\ subscriptions' = [subscriptions EXCEPT ![u] = {}]
    /\ clearing' = [clearing EXCEPT ![c].pc = "done"]
    /\ UNCHANGED <<subscribers, mixed, blocks, block, send, unblocks, open, apart>>
DeleteSubscriptions(c) ==
    LET u == clearing[c].user IN
    /\ clearing[c].pc = "delete"
    /\ subscribers' = [t \in People |-> IF t \in clearing[c].targets THEN subscribers[t] \ {u} ELSE subscribers[t]]
    /\ subscriptions' = [subscriptions EXCEPT ![u] = {}]
    /\ clearing' = [clearing EXCEPT ![c].pc = "done"]
    /\ UNCHANGED <<mixed, blocks, block, send, unblocks, open, apart>>

ClearFails(c) ==
    /\ "redis" \in Upsets /\ clearing[c].pc = "delete"
    /\ clearing' = [clearing EXCEPT ![c].pc = "done"]
    /\ UNCHANGED <<keyVars, blocks, block, send, unblocks, open, apart>>

\* The keys have a day each, prolonged by different subscriptions.
KeyExpires(u) ==
    /\ "expiry" \in Upsets
    /\ \/ /\ subscribers[u] # {} /\ subscribers' = [subscribers EXCEPT ![u] = {}]
          /\ UNCHANGED subscriptions
       \/ /\ subscriptions[u] # {} /\ subscriptions' = [subscriptions EXCEPT ![u] = {}]
          /\ UNCHANGED subscribers
    /\ mixed' = TRUE
    /\ UNCHANGED <<blocks, block, send, clearing, unblocks, open, apart>>

Clear(c) == (\E u \in People : ReadSubscriptions(c, u)) \/ DeleteSubscriptions(c) \/ ClearFails(c)

--------------------------------------------------------------------------
Next ==
    \/ \E c \in Blocks : (\E p \in Pairs : BlockUser(c, p)) \/ UnsubscribeMine(c) \/ UnsubscribeTheirs(c)
    \/ \E p \in Pairs : UnblockUser(p)
    \/ \E m \in Sends : Send(m)
    \/ \E u, t \in People : Subscribe(u, t) \/ Unsubscribe(u, t)
    \/ \E c \in Clears : Clear(c)
    \/ \E u \in People : KeyExpires(u)

Spec == Init /\ [][Next]_blockVars

--------------------------------------------------------------------------
\* router.rs, handler.rs: whoever got a message was not blocked by or blocking
\* its sender at some moment of the call, or the rows could not be read; and
\* after a block whose unsubscribes worked neither gets the other's presence
\* until one of them subscribes again.
BlockSeparates ==
    /\ \A m \in Sends : send[m].pc # "idle" => send[m].got \subseteq open[m]
    /\ \A pair \in apart : \A u, t \in pair : u \notin subscribers[t]

\* tracker.rs: the two sides of the subscriptions agree as long as no key has
\* expired and no subscription was made while the user's were being cleared.
SubscriptionsAgree ==
    ~mixed => \A u, t \in People : u \in subscribers[t] <=> t \in subscriptions[u]

\* blocking/service.rs, presence/tracker.rs: a block holds for messages and presence.
BlockHolds == BlockSeparates /\ SubscriptionsAgree

\* Refuted: the same with subscriptions made while others are cleared.
NothingLeftBehind ==
    "expiry" \notin Upsets => \A u, t \in People : u \in subscribers[t] => t \in subscriptions[u]
\* Refuted: a blocked user who subscribes again gets the presence.
BlockHidesPresence ==
    "redis" \notin Upsets /\ (\A c \in Blocks : block[c].pc \in {"idle", "done"}) =>
        \A p \in blocks : p[1] \notin subscribers[p[2]]
=============================================================================
