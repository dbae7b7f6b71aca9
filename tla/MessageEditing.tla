--------------------------- MODULE MessageEditing ---------------------------
(***************************************************************************)
(* One stored message and the requests that change it or depend on it      *)
(* being live: edit, recall, pin, unpin, forward (domain/message/handler.rs,*)
(* storage.rs, router.rs).                                                 *)
(*                                                                         *)
(* The socket task of a connection handles its requests one at a time;     *)
(* requests on different connections, of the sender or of an admin,        *)
(* interleave at every await.  An inbox is what a member was sent about    *)
(* the message, in order.  A forwarded copy is a message of its own; its   *)
(* routing is that of any message and is not repeated here.                *)
(***************************************************************************)
EXTENDS Naturals, Sequences

CONSTANTS
    Member,       \* participants of the conversation
    sender,       \* the message's sender
    SenderConn,   \* connections of the sender
    AdminConn,    \* connections of owners and admins of the conversation
    Target,       \* conversations a forward may name
    MentionSet,   \* the sets of members an edit may mention
    Quota,        \* bound: requests per connection
    Failing       \* of "store", "route": the awaits that may fail

Conn == SenderConn \cup AdminConn

ASSUME MemberAssumption == sender \in Member
ASSUME MentionAssumption == MentionSet \subseteq SUBSET Member
ASSUME QuotaAssumption == Quota \in Nat

VARIABLES
    msg,      \* the row: which edit wrote its content, mentions, deleted_at
    age,      \* which windows are still open
    pins,     \* message_pins row
    copies,   \* forwarded copies, named by request and target
    made,     \* requests begun by a connection
    call,     \* the request a connection's task is in
    inbox,    \* events a member was sent
    recallOk  \* whether some recall was answered with success

vars == <<msg, age, pins, copies, made, call, inbox, recallOk>>

original == <<>>
placeholder == <<"[Message recalled]">>
Version == {original} \cup (SenderConn \X (1..Quota))
Message == [content : Version \cup {placeholder}, mentions : SUBSET Member,
            status : {"live", "recalled"}]
Edited(m) == [type |-> "edited", content |-> m.content, mentions |-> m.mentions]
Note(t) == [type |-> t, content |-> original, mentions |-> {}]
Event == [type : {"none", "edited", "recalled", "pinned", "unpinned", "mention"},
          content : Version, mentions : SUBSET Member]

\* A call: its step, the mentions or targets it goes on with, the event it
\* routes and the members that event has still to reach.
Idle == [step |-> "idle", data |-> {}, fresh |-> {}, event |-> Note("none"), todo |-> {}]
Step == {"idle", "edit", "recall", "pin", "unpin", "forward", "route", "mention"}

TypeOK ==
    /\ msg \in Message
    /\ age \in {"recallable", "editable", "old"}
    /\ pins \in {"none", "pinned"}
    /\ copies \subseteq (SenderConn \cup AdminConn) \X (1..Quota) \X Target
    /\ made \in [Conn -> 0..Quota]
    /\ call \in [Conn -> [step : Step, data : SUBSET (Member \cup Target), fresh : SUBSET Member,
                          event : Event, todo : SUBSET Member]]
    /\ \A u \in Member : inbox[u] \in Seq(Event)
    /\ recallOk \in {"no", "yes"}
    /\ \A k \in Conn : call[k].step \in {"edit", "recall"} => k \in SenderConn

Init ==
    /\ \E m \in MentionSet : msg = [content |-> original, mentions |-> m, status |-> "live"]
    /\ age = "recallable"
    /\ pins = "none"
    /\ copies = {}
    /\ made = [k \in Conn |-> 0]
    /\ call = [k \in Conn |-> Idle]
    /\ inbox = [u \in Member |-> <<>>]
    /\ recallOk = "no"

Answer(k) == call' = [call EXCEPT ![k] = Idle]
Goto(k, step, data, fresh) ==
    call' = [call EXCEPT ![k] = [Idle EXCEPT !.step = step, !.data = data, !.fresh = fresh]]
Route(k, event, fresh) ==
    call' = [call EXCEPT ![k] = [Idle EXCEPT !.step = "route", !.fresh = fresh,
                                             !.event = event, !.todo = Member]]

\* The announcements of a recall and of a change of the pin.
RouteRecall(k) == Route(k, Note("recalled"), {})
RoutePin(k, type) == Route(k, Note(type), {})

\* A request that passes the checks of its handler goes to its next await.
Begin(k) ==
    /\ call[k].step = "idle"
    /\ made[k] < Quota
    /\ made' = [made EXCEPT ![k] = @ + 1]

-----------------------------------------------------------------------------
(* Edit.                                                                   *)

\* Mutant: anybody may edit.
EditRead_ByAnybody(k) ==
    /\ Begin(k)
    /\ msg.status = "live"
    /\ age \in {"recallable", "editable"}
    /\ \E m \in MentionSet : Goto(k, "edit", m, m \ (msg.mentions \cup {sender}))
    /\ UNCHANGED <<msg, age, pins, copies, inbox, recallOk>>

\* get_message and its checks: sender, not recalled, within the window.  The
\* mentions that are news are told from the row as it is read here.
EditRead(k) ==
    /\ k \in SenderConn
    /\ Begin(k)
    /\ msg.status = "live"
    /\ age \in {"recallable", "editable"}
    /\ \E m \in MentionSet : Goto(k, "edit", m, m \ (msg.mentions \cup {sender}))
    /\ UNCHANGED <<msg, age, pins, copies, inbox, recallOk>>

\* Mutant: the UPDATE of an edit does not ask for deleted_at IS NULL.
EditStore_AlsoRecalled(k) ==
    /\ call[k].step = "edit"
    /\ msg' = [msg EXCEPT !.content = <<k, made[k]>>, !.mentions = call[k].data]
    /\ Route(k, Edited(msg'), call[k].fresh)
    /\ UNCHANGED <<age, pins, copies, made, inbox, recallOk>>

\* Mutant: every valid mention is notified, not only the new ones.
EditStore_NotifiesAll(k) ==
    /\ call[k].step = "edit"
    /\ msg.status = "live"
    /\ msg' = [msg EXCEPT !.content = <<k, made[k]>>, !.mentions = call[k].data]
    /\ Route(k, Edited(msg'), call[k].data)
    /\ UNCHANGED <<age, pins, copies, made, inbox, recallOk>>

EditStore(k) ==
    /\ call[k].step = "edit"
    /\ msg.status = "live"
    /\ msg' = [msg EXCEPT !.content = <<k, made[k]>>, !.mentions = call[k].data]
    /\ Route(k, Edited(msg'), call[k].fresh)
    /\ UNCHANGED <<age, pins, copies, made, inbox, recallOk>>

-----------------------------------------------------------------------------
(* Recall.                                                                 *)

\* An already recalled message is answered with success at once.
RecallRead(k) ==
    /\ k \in SenderConn
    /\ Begin(k)
    /\ \/ msg.status = "recalled" /\ recallOk' = "yes" /\ UNCHANGED call
       \/ /\ msg.status = "live"
          /\ age = "recallable"
          /\ Goto(k, "recall", {}, {})
          /\ UNCHANGED recallOk
    /\ UNCHANGED <<msg, age, pins, copies, inbox>>

\* Mutant: the number of updated rows is not looked at.
RecallStore_Again(k) ==
    /\ call[k].step = "recall"
    /\ msg' = [msg EXCEPT !.content = placeholder, !.status = "recalled"]
    /\ RouteRecall(k)
    /\ UNCHANGED <<age, pins, copies, made, inbox, recallOk>>

RecallStore(k) ==
    /\ call[k].step = "recall"
    /\ msg.status = "live"
    /\ msg' = [msg EXCEPT !.content = placeholder, !.status = "recalled"]
    /\ RouteRecall(k)
    /\ UNCHANGED <<age, pins, copies, made, inbox, recallOk>>

\* No row updated: StorageError::NotFound.
StoreFindsRecalled(k) ==
    /\ call[k].step \in {"edit", "recall"}
    /\ msg.status = "recalled"
    /\ Answer(k)
    /\ UNCHANGED <<msg, age, pins, copies, made, inbox, recallOk>>

-----------------------------------------------------------------------------
(* Pin and unpin.                                                          *)

PinRead(k) ==
    /\ k \in AdminConn
    /\ Begin(k)
    /\ msg.status = "live"
    /\ Goto(k, "pin", {}, {})
    /\ UNCHANGED <<msg, age, pins, copies, inbox, recallOk>>

PinStore(k) ==
    /\ call[k].step = "pin"
    /\ pins' = "pinned"
    /\ RoutePin(k, "pinned")
    /\ UNCHANGED <<msg, age, copies, made, inbox, recallOk>>

UnpinRead(k) ==
    /\ k \in AdminConn
    /\ Begin(k)
    /\ Goto(k, "unpin", {}, {})
    /\ UNCHANGED <<msg, age, pins, copies, inbox, recallOk>>

\* Mutant: an unpin is routed to nobody.
UnpinStore_Silent(k) ==
    /\ call[k].step = "unpin"
    /\ pins' = "none"
    /\ Answer(k)
    /\ UNCHANGED <<msg, age, copies, made, inbox, recallOk>>

UnpinStore(k) ==
    /\ call[k].step = "unpin"
    /\ pins' = "none"
    /\ IF pins = "pinned" THEN RoutePin(k, "unpinned") ELSE Answer(k)
    /\ UNCHANGED <<msg, age, copies, made, inbox, recallOk>>

-----------------------------------------------------------------------------
(* Forward.                                                                *)

\* deleted_at IS NULL
Forwardable == msg.status = "live"

ForwardRead(k) ==
    /\ Begin(k)
    /\ Forwardable
    /\ \E ts \in (SUBSET Target) \ {{}} : Goto(k, "forward", ts, {})
    /\ UNCHANGED <<msg, age, pins, copies, inbox, recallOk>>

CreateForwarded(k, t) == copies' = copies \cup {<<k, made[k], t>>}

\* forward_to_conversation: the copy is made of the row read before; a target
\* that refuses it or fails is left out and the next is tried.
ForwardStore(k, t) ==
    /\ call[k].step = "forward"
    /\ t \in call[k].data
    /\ LET rest == call[k].data \ {t}
       IN  IF rest = {} THEN Answer(k) ELSE Goto(k, "forward", rest, {})
    /\ CreateForwarded(k, t) \/ UNCHANGED copies
    /\ UNCHANGED <<msg, age, pins, made, inbox, recallOk>>

-----------------------------------------------------------------------------
(* Routing, in the loops of MessageRouter, and its end.                    *)

SendTo(k, u) ==
    /\ call[k].step \in {"route", "mention"}
    /\ u \in call[k].todo
    /\ call' = [call EXCEPT ![k].todo = @ \ {u}]
    /\ LET event == IF call[k].step = "mention" THEN Note("mention") ELSE call[k].event
       IN  inbox' = [inbox EXCEPT ![u] = Append(@, event)]
    /\ UNCHANGED <<msg, age, pins, copies, made, recallOk>>

\* Then the new mentions of an edit.
RouteDone(k) ==
    /\ call[k].step = "route"
    /\ call[k].todo = {}
    /\ call[k].fresh # {}
    /\ call' = [call EXCEPT ![k].step = "mention", ![k].todo = call[k].fresh, ![k].fresh = {}]
    /\ UNCHANGED <<msg, age, pins, copies, made, inbox, recallOk>>

\* The socket handler confirms an edit to its sender.
Confirm(k) ==
    /\ Answer(k)
    /\ inbox' = IF call[k].event.type = "edited"
                THEN [inbox EXCEPT ![sender] = Append(@, call[k].event)] ELSE inbox
    /\ recallOk' = IF call[k].event.type = "recalled" THEN "yes" ELSE recallOk
    /\ UNCHANGED <<msg, age, pins, copies, made>>

\* Mutant: the loop over the members ends before the last of them.
CallDone_OneShort(k) ==
    /\ call[k].step \in {"route", "mention"}
    /\ \E u \in Member : call[k].todo \subseteq {u}
    /\ call[k].fresh = {}
    /\ Confirm(k)

CallDone(k) ==
    /\ call[k].step \in {"route", "mention"}
    /\ call[k].todo = {}
    /\ call[k].fresh = {}
    /\ Confirm(k)

\* `?`: the request is answered with an error.
CallFails(k) ==
    /\ \/ "store" \in Failing /\ call[k].step \in {"edit", "recall", "pin", "unpin"}
       \/ "route" \in Failing /\ call[k].step \in {"route", "mention"}
    /\ Answer(k)
    /\ UNCHANGED <<msg, age, pins, copies, made, inbox, recallOk>>

\* Two minutes, then fifteen.
Ages ==
    /\ age # "old"
    /\ age' = IF age = "recallable" THEN "editable" ELSE "old"
    /\ UNCHANGED <<msg, pins, copies, made, call, inbox, recallOk>>

EditMessage(k) == EditRead(k) \/ EditStore(k)
RecallMessage(k) == RecallRead(k) \/ RecallStore(k)
PinMessage(k) == PinRead(k) \/ PinStore(k)
UnpinMessage(k) == UnpinRead(k) \/ UnpinStore(k)
ForwardMessage(k) == ForwardRead(k) \/ \E t \in Target : ForwardStore(k, t)
RouteEvent(k) == (\E u \in Member : SendTo(k, u)) \/ RouteDone(k) \/ CallDone(k)

Request(k) ==
    \/ EditMessage(k) \/ RecallMessage(k) \/ StoreFindsRecalled(k)
    \/ PinMessage(k) \/ UnpinMessage(k) \/ ForwardMessage(k)
    \/ RouteEvent(k) \/ CallFails(k)

Next == (\E k \in Conn : Request(k)) \/ Ages
Spec == Init /\ [][Next]_vars

-----------------------------------------------------------------------------
(* Properties.                                                             *)

Settled == \A k \in Conn : call[k].step = "idle"

\* A recall is final: whatever edits are in flight, a recalled message keeps
\* its placeholder.
RecallIsPermanent == [][msg.status = "recalled" => msg' = msg]_vars

\* Racing recalls of one message announce it to each member once: only the
\* call whose UPDATE changed the row goes on to route.
RecallAnnouncedOnce ==
    \A u \in Member : \A i, j \in DOMAIN inbox[u] :
        inbox[u][i].type = "recalled" /\ inbox[u][j].type = "recalled" => i = j

\* "Already recalled, idempotent" (handler.rs): when no request is in progress
\* and a recall was answered with success, every member has been told.
RecallReachesMembers ==
    Settled /\ recallOk = "yes" =>
        \A u \in Member : \E i \in DOMAIN inbox[u] : inbox[u][i].type = "recalled"

\* What a client shows is what the last event about it said.
About(box, types) == {i \in DOMAIN box : box[i].type \in types}
LastAbout(box, types) == {i \in About(box, types) : \A j \in About(box, types) : j <= i}

Contents(e) == IF e.type = "recalled" THEN placeholder ELSE e.content
Shows(box, content) ==
    IF About(box, {"edited", "recalled"}) = {} THEN content = original
    ELSE \E i \in LastAbout(box, {"edited", "recalled"}) : content = Contents(box[i])
ShowsPin(box, pin) ==
    IF About(box, {"pinned", "unpinned"}) = {} THEN pin = "none"
    ELSE \E i \in LastAbout(box, {"pinned", "unpinned"}) : pin = IF box[i].type = "pinned" THEN "pinned" ELSE "none"

\* Once no request is in progress every member's client shows the stored
\* content and pin: nothing is routed before it is stored, nor out of order.
EventsConverge ==
    Settled => \A u \in Member : Shows(inbox[u], msg.content) /\ ShowsPin(inbox[u], pins)

\* "Notify new mentions (users who weren't mentioned before)" (handler.rs):
\* between two mentions of a member there is an edit that does not mention him.
MentionIsNews ==
    \A u \in Member : \A i, j \in DOMAIN inbox[u] :
        i < j /\ inbox[u][i].type = "mention" /\ inbox[u][j].type = "mention" =>
            \E n \in i..j : inbox[u][n].type = "edited" /\ u \notin inbox[u][n].mentions

\* "Cannot forward recalled messages" (handler.rs).
RecalledIsNotForwarded == [][copies' # copies => msg.status = "live"]_vars
=============================================================================
