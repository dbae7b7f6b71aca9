-------------------------- MODULE MCConversations --------------------------
(***************************************************************************)
(* What happens in conversations: sending (MCMessageSending), membership,  *)
(* paging through lists, receipts, reactions and subscriptions.  Each      *)
(* behaviour runs one part, the others stand still.                        *)
(***************************************************************************)
EXTENDS MCMessageSending

CONSTANTS
    NoRow,
    Users, Asked, Creates, Changed, Changes, Erased, MaxParticipants,
    Listed, Owner, Limit, MicrosPerMilli, Lag, MaxTime, MaxChanges,
    Chats, Marks, Beside, Incoming, Trouble,
    Members, Author, Emojis, Toggles, Fetches, Faults,
    Sockets, Topics, Joined, MaxSubs, MaxAsks

VARIABLES
    part,
    conversations, participants, lookup, create, change, erase, raced, uncounted,
    key, recalled, now, pass, touched, came, went, written,
    count, total, receipt, participant, announced, clock, mark, ttl, arriving, doubled, slipped, lapsed, curtailed, sync,
    reactions, shown, pushed, toggle, fetch, applied, overlapped, unrouted, crossed,
    registered, explicit, subscribed, ask, asks, known, withheld, silenced

conversationVars == <<conversations, participants, lookup, create, change, erase, raced, uncounted>>
listVars == <<key, recalled, now, pass, touched, came, went, written>>
receiptVars == <<count, total, receipt, participant, announced, clock, mark, ttl, arriving, doubled, slipped, lapsed, curtailed, sync>>
reactionVars == <<reactions, shown, pushed, toggle, fetch, applied, overlapped, unrouted, crossed>>
subscriptionVars == <<registered, explicit, subscribed, ask, asks, known, withheld, silenced>>

(* What is asked for is about users; a missing row is not a row.           *)
ASSUME ConversationAssumption ==
    /\ IsFiniteSet(Users) /\ Changed \subseteq Creates /\ Erased \subseteq Users
    /\ Asked \subseteq [by : Users, others : SUBSET Users, kind : {"direct", "group"}]
    /\ NoRow \notin Creates
    /\ NoRow \notin [kind : {"direct", "group"}, count : Nat]
    /\ NoRow \notin [role : {"owner", "member"}, here : BOOLEAN, muted : BOOLEAN]

ASSUME ListAssumption ==
    /\ IsFiniteSet(Listed) /\ NoRow \notin 0..MaxTime
    /\ {Limit, MaxChanges} \subseteq Nat /\ {MicrosPerMilli, MaxTime} \subseteq Nat \ {0}

ASSUME ReceiptAssumption == Beside \subseteq Marks

ASSUME ReactionAssumption == IsFiniteSet(Toggles)

ASSUME SubscriptionAssumption ==
    /\ IsFiniteSet(Sockets) /\ Joined \subseteq Topics
    /\ {MaxSubs, MaxAsks} \subseteq Nat

(* Two users open a direct conversation with each other, and one of them a *)
(* group.                                                                  *)
Direct(u, v) == [by |-> u, others |-> {v}, kind |-> "direct"]
MCAsked == {Direct("a", "b"), Direct("b", "a"), [by |-> "a", others |-> {"b", "c"}, kind |-> "group"]}
Lists == {"history", "conversations", "participants", "thread", "search", "searchAll"}

Conversation == INSTANCE Conversations WITH None <- NoRow, Requests <- Asked
List == INSTANCE Listing WITH Rows <- Listed, None <- NoRow
Receipts == INSTANCE ReadReceipts
Reaction == INSTANCE Reactions
Subscription == INSTANCE Subscriptions

Parts == {"sending", "direct", "members", "lists", "receipts", "sync", "reactions", "subscriptions"}

\* Rows are named in the order they have at the start.
ListInit ==
    /\ List!Init
    /\ \A i, j \in Listed : i < j /\ key[i] # NoRow => key[j] # NoRow /\ key[i] <= key[j]

\* The variables of a part that stands still are 0.
PartsInit ==
    /\ part \in Parts
    /\ Init /\ faults \in (IF part = "sending" THEN {"none", "any"} ELSE {"none"})
    /\ IF part \in {"direct", "members"} THEN Conversation!Init
       ELSE conversations = 0 /\ participants = 0 /\ lookup = 0 /\ create = 0 /\ change = 0
            /\ erase = 0 /\ raced = 0 /\ uncounted = 0
    /\ IF part = "lists" THEN ListInit
       ELSE key = 0 /\ recalled = 0 /\ now = 0 /\ pass = 0 /\ touched = 0
            /\ came = 0 /\ went = 0 /\ written = 0
    /\ IF part \in {"receipts", "sync"} THEN Receipts!Init
       ELSE count = 0 /\ total = 0 /\ receipt = 0 /\ participant = 0 /\ announced = 0 /\ clock = 0
            /\ mark = 0 /\ ttl = 0 /\ arriving = 0 /\ doubled = 0 /\ slipped = 0 /\ lapsed = 0
            /\ curtailed = 0 /\ sync = 0
    /\ IF part = "reactions" THEN Reaction!Init
       ELSE reactions = 0 /\ shown = 0 /\ pushed = 0 /\ toggle = 0 /\ fetch = 0 /\ applied = 0
            /\ overlapped = 0 /\ unrouted = 0 /\ crossed = 0
    /\ IF part = "subscriptions" THEN Subscription!Init
       ELSE registered = 0 /\ explicit = 0 /\ subscribed = 0 /\ ask = 0 /\ asks = 0 /\ known = 0
            /\ withheld = 0 /\ silenced = 0

\* Creations, or changes of one conversation, each with erasures beside them: an
\* erasure is tried with one change fewer.
ConversationNext ==
    /\ \/ \E c \in (IF part = "direct" THEN Creates ELSE Changed) : Conversation!Creation(c)
       \/ part = "members" /\ \E k \in Changes : Conversation!Membership(k)
       \/ \E u \in Erased : Conversation!Erasure(u)
    /\ (\E u \in Erased : erase'[u].pc # "idle") => \E k \in Changes : change'[k].pc = "idle"

\* A list of one page is tried with one write.
ListNext == List!Next /\ (pass.kind \in {"thread", "search", "searchAll"} => written' <= 1)

\* A fetch is tried with one toggle fewer.
ReactionNext ==
    /\ Reaction!Next
    /\ (\E f \in Fetches : fetch'[f].pc # "idle") => \E t \in Toggles : toggle'[t].pc = "idle"

\* A sync is tried with fewer calls beside it.
ReadingNext ==
    \/ part = "receipts" /\ Receipts!Reading(Marks)
    \/ part = "sync" /\ (Receipts!Reading(Beside) \/ Receipts!SyncUnread)

PartsNext ==
    /\ UNCHANGED part
    /\ IF part = "sending" THEN MCNext ELSE UNCHANGED <<vars, faults>>
    /\ IF part \in {"direct", "members"} THEN ConversationNext ELSE UNCHANGED conversationVars
    /\ IF part = "lists" THEN ListNext ELSE UNCHANGED listVars
    /\ IF part \in {"receipts", "sync"} THEN ReadingNext ELSE UNCHANGED receiptVars
    /\ IF part = "reactions" THEN ReactionNext ELSE UNCHANGED reactionVars
    /\ IF part = "subscriptions" THEN Subscription!Next ELSE UNCHANGED subscriptionVars

PartsSpec ==
    /\ PartsInit
    /\ [][PartsNext]_<<part, vars, faults, conversationVars, listVars, receiptVars,
                       reactionVars, subscriptionVars>>
-----------------------------------------------------------------------------
\* If nothing fails, a confirmed message has been routed to everybody and
\* counts as unread for each recipient.
ConfirmedIsCompleteWhenCalm == ConfirmedIsSentWhenCalm /\ ConfirmedIsCountedWhenCalm

(* The invariants of the parts, each where it runs, with its types.        *)

\* Direct lookup, stored counts and later calls agree with the participants.
ConversationsAgree ==
    part \in {"direct", "members"} => Conversation!TypeOK /\ Conversation!ConversationsAgree

\* Paging shows every row that stands still once, and totals agree.
ListsAreFaithful == part = "lists" => List!TypeOK /\ List!ListsAreFaithful

\* Receipts lead what was announced and marked, unread counters add up, and a
\* sync answers counts there were.
ReadingAddsUp == part \in {"receipts", "sync"} => Receipts!TypeOK /\ Receipts!ReadingAddsUp

\* Toggled reactions and what the clients show of them converge.
ReactionsConverge == part = "reactions" => Reaction!TypeOK /\ Reaction!ReactionsConverge

\* A connection gets the events its client was told it is subscribed to.
ConfirmedIsDelivered == part = "subscriptions" => Subscription!TypeOK /\ Subscription!ConfirmedIsDelivered
=============================================================================
