--------------------------- MODULE MessageSending ---------------------------
(***************************************************************************)
(* Sending one message and retrying it: the calls of handle_send_message   *)
(* with one client_message_id (domain/message/handler.rs), what the socket *)
(* handler or the REST endpoint does with their result (api/websocket.rs,  *)
(* api/rest.rs), and the messages table with its unique index              *)
(* (domain/message/storage.rs).                                            *)
(*                                                                         *)
(* A call is an Attempt; several run at once when a client retries on a    *)
(* new connection before the old call has ended.  A stored row is named by *)
(* the attempt that inserted it.  Each await may fail where Failing says   *)
(* so, which ends the call with an error; the client may then try again.   *)
(***************************************************************************)
EXTENDS Naturals, FiniteSets

CONSTANTS
    Attempt,    \* calls with the same sender and client_message_id
    Posted,     \* those of them made through the REST API
    Recipient,  \* the other participants
    Mentioned,  \* those of them the message mentions
    Threaded,   \* whether the message is a reply
    Days,       \* bound: dates the calls may span
    Failing     \* of "find", "insert", "touch", "route", "count"

ASSUME MentionedAssumption == Mentioned \subseteq Recipient
ASSUME ThreadedAssumption == Threaded \in BOOLEAN
ASSUME DaysAssumption == Days \in Nat \ {0}

VARIABLES
    today,    \* the database's current date
    rowDay,   \* partition_key of the stored rows, 0 for none, by attempt
    pc,       \* where a call is
    result,   \* the row the call will return
    todo,     \* users the current step has still to reach
    sent,     \* events sent per stage, user and row
    unread,   \* increments of the unread counter of a recipient
    confirmed \* rows the sender was told of, by MessageSent or an answer, by attempt

vars == <<today, rowDay, pc, result, todo, sent, unread, confirmed>>

none == "none"
sender == "sender"
User == Recipient \cup {sender}
Stage == {"message", "thread", "mention"}
Rows == {a \in Attempt : rowDay[a] # 0}

\* Who is sent what: the message to every other participant, the thread update
\* of a reply to everybody, the mention to the mentioned.
ThreadAudience == IF Threaded THEN User ELSE {}
Audience == [s \in Stage |->
    CASE s = "message" -> Recipient
      [] s = "thread"  -> ThreadAudience
      [] s = "mention" -> Mentioned]
After == [s \in Stage |->
    CASE s = "message" -> "thread" [] s = "thread" -> "mention" [] s = "mention" -> "confirm"]

PC == Stage \cup {"find", "insert", "touch", "confirm", "count", "done", "failed"}

TypeOK ==
    /\ today \in 1..Days
    /\ rowDay \in [Attempt -> 0..Days]
    /\ pc \in [Attempt -> PC]
    /\ result \in [Attempt -> Attempt \cup {none}]
    /\ todo \in [Attempt -> SUBSET User]
    /\ sent \in [Stage \X User \X Attempt -> Nat]
    /\ unread \in [Recipient -> Nat]
    /\ confirmed \in [Attempt -> Attempt \cup {none}]
    /\ \A a \in Attempt :
          /\ todo[a] # {} => pc[a] \in Stage \cup {"count"}
          /\ pc[a] = "count" => todo[a] \subseteq Recipient

Init ==
    /\ today = 1
    /\ rowDay = [a \in Attempt |-> 0]
    /\ pc = [a \in Attempt |-> "find"]
    /\ result = [a \in Attempt |-> none]
    /\ todo = [a \in Attempt |-> {}]
    /\ sent = [e \in Stage \X User \X Attempt |-> 0]
    /\ unread = [r \in Recipient |-> 0]
    /\ confirmed = [a \in Attempt |-> none]

Goto(a, from, to, users) ==
    /\ pc[a] = from
    /\ pc' = [pc EXCEPT ![a] = to]
    /\ todo' = [todo EXCEPT ![a] = users]

-----------------------------------------------------------------------------
(* MessageHandler::handle_send_message.                                    *)

\* ORDER BY created_at DESC LIMIT 1.
Latest == {a \in Rows : \A b \in Rows : rowDay[b] <= rowDay[a]}

\* Mutant: a duplicate is routed again.
FindByClientId_RoutesDuplicate(a) ==
    /\ \/ Rows = {} /\ Goto(a, "find", "insert", {}) /\ UNCHANGED result
       \/ \E r \in Latest : /\ Goto(a, "find", "message", Recipient)
                            /\ result' = [result EXCEPT ![a] = r]
    /\ UNCHANGED <<today, rowDay, sent, unread, confirmed>>

\* A duplicate is answered with the stored message at once.
FindByClientId(a) ==
    /\ \/ Rows = {} /\ Goto(a, "find", "insert", {}) /\ UNCHANGED result
       \/ \E r \in Latest : /\ Goto(a, "find", "confirm", {})
                            /\ result' = [result EXCEPT ![a] = r]
    /\ UNCHANGED <<today, rowDay, sent, unread, confirmed>>

\* Mutant: no unique index.
Insert_NotUnique(a) ==
    /\ Goto(a, "insert", "touch", {})
    /\ rowDay' = [rowDay EXCEPT ![a] = today]
    /\ result' = [result EXCEPT ![a] = a]
    /\ UNCHANGED <<today, sent, unread, confirmed>>

\* The unique index holds per partition, that is per date.
Insert(a) ==
    /\ \A b \in Attempt : rowDay[b] # today
    /\ Goto(a, "insert", "touch", {})
    /\ rowDay' = [rowDay EXCEPT ![a] = today]
    /\ result' = [result EXCEPT ![a] = a]
    /\ UNCHANGED <<today, sent, unread, confirmed>>

InsertConflict(a) ==
    /\ \E b \in Attempt : rowDay[b] = today
    /\ Goto(a, "insert", "failed", {})
    /\ UNCHANGED <<today, rowDay, result, sent, unread, confirmed>>

\* Still in create_message, after the insert and outside of a transaction.
TouchConversation(a) ==
    /\ Goto(a, "touch", "message", Audience["message"])
    /\ UNCHANGED <<today, rowDay, result, sent, unread, confirmed>>

\* One user of the loops of route_message, route_thread_updated, notify_mentions.
SendTo(a, s, u) ==
    /\ pc[a] = s
    /\ u \in todo[a]
    /\ todo' = [todo EXCEPT ![a] = @ \ {u}]
    /\ sent' = [sent EXCEPT ![<<s, u, result[a]>>] = @ + 1]
    /\ UNCHANGED <<today, rowDay, pc, result, unread, confirmed>>

\* Mutant: the thread update ends the call, the mentions are forgotten.
StageDone_ThreadIsLast(a, s) ==
    /\ todo[a] = {}
    /\ IF s = "thread" /\ Threaded THEN Goto(a, s, "confirm", {})
       ELSE Goto(a, s, After[s], IF s = "mention" THEN {} ELSE Audience[After[s]])
    /\ UNCHANGED <<today, rowDay, result, sent, unread, confirmed>>

StageDone(a, s) ==
    /\ todo[a] = {}
    /\ Goto(a, s, After[s], IF s = "mention" THEN {} ELSE Audience[After[s]])
    /\ UNCHANGED <<today, rowDay, result, sent, unread, confirmed>>

\* `?` on any await: the row stays, the rest of the audience gets nothing.
CallFails(a) ==
    /\ \/ "find" \in Failing /\ Goto(a, "find", "failed", {})
       \/ "insert" \in Failing /\ Goto(a, "insert", "failed", {})
       \/ "touch" \in Failing /\ Goto(a, "touch", "failed", {})
       \/ "route" \in Failing /\ \E s \in Stage : Goto(a, s, "failed", {})
    /\ UNCHANGED <<today, rowDay, result, sent, unread, confirmed>>

-----------------------------------------------------------------------------
(* What the socket handler and the REST endpoint do with the result.       *)

\* Mutant: the sender is counted as well.
Confirm_CountsSender(a) ==
    /\ Goto(a, "confirm", "count", User)
    /\ confirmed' = [confirmed EXCEPT ![a] = result[a]]
    /\ UNCHANGED <<today, rowDay, result, sent, unread>>

\* MessageSent to the sender, then an increment for each other participant.
Confirm(a) ==
    /\ a \notin Posted
    /\ Goto(a, "confirm", "count", Recipient)
    /\ confirmed' = [confirmed EXCEPT ![a] = result[a]]
    /\ UNCHANGED <<today, rowDay, result, sent, unread>>

\* The REST endpoint counts first; its answer is the confirmation.
CountFirst(a) ==
    /\ a \in Posted
    /\ Goto(a, "confirm", "count", Recipient)
    /\ UNCHANGED <<today, rowDay, result, sent, unread, confirmed>>

IncrementUnread(a, r) ==
    /\ pc[a] = "count"
    /\ r \in todo[a]
    /\ todo' = [todo EXCEPT ![a] = @ \ {r}]
    /\ \/ unread' = [unread EXCEPT ![r] = @ + 1]
       \/ "count" \in Failing /\ UNCHANGED unread      \* `let _ =`
    /\ UNCHANGED <<today, rowDay, pc, result, sent, confirmed>>

\* Mutant: the loop ends after the first participant.
CountDone_First(a) ==
    /\ todo[a] # Recipient
    /\ Goto(a, "count", "done", {})
    /\ UNCHANGED <<today, rowDay, result, sent, unread, confirmed>>

CountDone(a) ==
    /\ a \notin Posted
    /\ todo[a] = {}
    /\ Goto(a, "count", "done", {})
    /\ UNCHANGED <<today, rowDay, result, sent, unread, confirmed>>

AnswerPost(a) ==
    /\ a \in Posted
    /\ todo[a] = {}
    /\ Goto(a, "count", "done", {})
    /\ confirmed' = [confirmed EXCEPT ![a] = result[a]]
    /\ UNCHANGED <<today, rowDay, result, sent, unread>>

PostMessage(a) == CountFirst(a) \/ AnswerPost(a)

Send(a) ==
    \/ FindByClientId(a) \/ Insert(a) \/ InsertConflict(a) \/ TouchConversation(a)
    \/ \E s \in Stage : StageDone(a, s) \/ \E u \in User : SendTo(a, s, u)
    \/ CallFails(a)
    \/ Confirm(a) \/ CountDone(a) \/ PostMessage(a)
    \/ \E r \in Recipient : IncrementUnread(a, r)

Midnight ==
    /\ today < Days
    /\ today' = today + 1
    /\ UNCHANGED <<rowDay, pc, result, todo, sent, unread, confirmed>>

Next == (\E a \in Attempt : Send(a)) \/ Midnight
Spec == Init /\ [][Next]_vars

-----------------------------------------------------------------------------
(* Properties.                                                             *)

Settled == \A a \in Attempt : pc[a] \in {"find", "done", "failed"}
Confirmed == {confirmed[a] : a \in Attempt} \ {none}

\* However often a message is retried, and whatever fails, no event about it
\* is sent to anybody twice: duplicates are answered without routing.
SentOnce == \A e \in DOMAIN sent : sent[e] <= 1

\* "Safe to retry on network failure. Server will return same message_id"
\* (05-advanced-features.md): all confirmations name one message.
SameMessageReturned == Cardinality(Confirmed) <= 1

\* "If found, return existing message" is right only when the first call did
\* its work: once no call is in progress, a message that was confirmed to its
\* sender has been sent to every other participant and to the mentioned.
ConfirmedIsSent ==
    Settled => \A r \in Confirmed : \A s \in Stage : \A u \in Audience[s] :
                   sent[<<s, u, r>>] = 1

\* "idempotent" (05-advanced-features.md): a retry does not make a recipient's
\* unread counter exceed the messages stored for him.
UnreadIsCounted == \A r \in Recipient : unread[r] <= Cardinality(Rows)

\* A confirmed message is counted as unread for every other participant.
ConfirmedIsCounted ==
    Settled /\ Confirmed # {} => \A r \in Recipient : unread[r] >= 1
=============================================================================
