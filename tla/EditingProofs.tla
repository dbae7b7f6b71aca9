--------------------------- MODULE EditingProofs ---------------------------
(***************************************************************************)
(* A recalled message stays recalled, is announced once, and to everybody  *)
(* unless its routing fails; on one connection, clients end up showing     *)
(* what is stored and are told of new mentions only.  For any members,     *)
(* connections, targets and requests.                                      *)
(***************************************************************************)
EXTENDS MCMessageEditing, TLAPS

(***************************************************************************)
(* Types                                                                   *)
(***************************************************************************)
CallRec == [step : Step, data : SUBSET (Member \cup Target), fresh : SUBSET Member, event : Event, todo : SUBSET Member]

\* A call has been counted; an edit or a recall is the sender's, and what an
\* edit mentions are members.
CallsType ==
    /\ made \in [Conn -> 0..Quota] /\ call \in [Conn -> CallRec]
    /\ \A k \in Conn : /\ call[k].step # "idle" => made[k] >= 1
                       /\ call[k].step \in {"edit", "recall"} => k \in SenderConn
                       /\ call[k].step = "edit" => call[k].data \subseteq Member
RowsType ==
    /\ msg \in Message /\ age \in {"recallable", "editable", "old"} /\ pins \in {"none", "pinned"}
    /\ copies \subseteq Conn \X (1..Quota) \X Target
    /\ inbox \in [Member -> Seq(Event)] /\ recallOk \in {"no", "yes"}

(***************************************************************************)
(* Recall                                                                  *)
(***************************************************************************)
IsTold(v) == \E i \in DOMAIN inbox[v] : inbox[v][i].type = "recalled"
Announces(k) == call[k].step \in {"route", "mention"} /\ call[k].event.type = "recalled"

\* At most one call announces the recall, and only to those it has not told.
RecallInv ==
    /\ \A k \in Conn : Announces(k) =>
          /\ call[k].step = "route" /\ call[k].fresh = {} /\ msg.status = "recalled"
          /\ \A v \in call[k].todo : ~IsTold(v)
    /\ \A k, l \in Conn : Announces(k) /\ Announces(l) => k = l
    /\ msg.status = "live" => \A v \in Member : ~IsTold(v)
    /\ RecallAnnouncedOnce

\* Unless routing fails, whoever was not told of a recall is about to be.
ReachInv ==
    /\ msg.status = "recalled" => \A v \in Member : IsTold(v) \/ \E k \in Conn : Announces(k) /\ v \in call[k].todo
    /\ recallOk = "yes" => msg.status = "recalled"

(***************************************************************************)
(* One connection                                                          *)
(***************************************************************************)
Alone == (\A k \in SenderConn \ {s1} : made[k] = 0) /\ (\A k \in AdminConn \ {a1} : made[k] = 0)

\* What is being routed is what is stored.
RoutesStored(k) ==
    /\ call[k].step \in {"pin", "unpin"} => k \in AdminConn
    /\ call[k].step = "edit" => call[k].fresh = call[k].data \ (msg.mentions \cup {sender})
    /\ call[k].step \in {"route", "mention"} =>
          /\ call[k].event.type \notin {"none", "mention"}
          /\ call[k].event.type \in {"edited", "recalled"} => k \in SenderConn /\ msg.content = Contents(call[k].event)
          /\ call[k].event.type = "edited" => msg.mentions = call[k].event.mentions /\ call[k].fresh \subseteq msg.mentions
          /\ call[k].event.type = "pinned" => k \in AdminConn /\ pins = "pinned"
          /\ call[k].event.type = "unpinned" => k \in AdminConn /\ pins = "none"
          /\ call[k].event.type # "edited" => call[k].step = "route" /\ call[k].fresh = {}
    /\ call[k].step = "mention" => call[k].fresh = {} /\ call[k].todo \subseteq msg.mentions

\* Who does not show what is stored is about to be told.
Routing(k, v, types) == call[k].step = "route" /\ call[k].event.type \in types /\ v \in call[k].todo
ShowsInv ==
    \A v \in Member :
       /\ (\E k \in Conn : Routing(k, v, {"edited", "recalled"})) \/ Shows(inbox[v], msg.content)
       /\ (\E k \in Conn : Routing(k, v, {"pinned", "unpinned"})) \/ ShowsPin(inbox[v], pins)

\* A mention that an edit without it has followed; a mention still to be notified.
Cleared(v, i) == \E n \in DOMAIN inbox[v] : i <= n /\ inbox[v][n].type = "edited" /\ v \notin inbox[v][n].mentions
Notifying(k, v) ==
    /\ call[k].step \in {"route", "mention"} /\ call[k].event.type = "edited"
    /\ v \in call[k].fresh \/ (call[k].step = "mention" /\ v \in call[k].todo)
Clearing(k, v) ==
    call[k].step = "route" /\ call[k].event.type = "edited" /\ v \in call[k].todo /\ v \notin call[k].event.mentions

\* A member who was notified is still mentioned, and not to be notified again, or an
\* edit without him is on its way or has reached him.
NewsInv ==
    \A v \in Member : \A i \in DOMAIN inbox[v] : inbox[v][i].type = "mention" =>
       \/ Cleared(v, i)
       \/ v \in msg.mentions /\ \A k \in Conn : ~Notifying(k, v)
       \/ \E k \in Conn : Clearing(k, v)

OneInv == Alone /\ (\A k \in Conn : RoutesStored(k)) /\ ShowsInv /\ NewsInv /\ MentionIsNews

EditInv ==
    /\ CallsType /\ RowsType /\ RecallInv
    /\ scenario # "any" => ReachInv
    /\ scenario = "one" => OneInv

(***************************************************************************)
(* What a step does to the calls                                           *)
(***************************************************************************)
LEMMA Records ==
    /\ Idle \in CallRec /\ Idle.step = "idle"
    /\ \A t \in {"none", "edited", "recalled", "pinned", "unpinned", "mention"} : Note(t) \in Event /\ Note(t).type = t
    /\ Conn = SenderConn \cup AdminConn
BY DEF Idle, CallRec, Step, Note, Event, Version, Conn

\* An answer, a step to another await, and the start of a routing.
LEMMA Answered ==
    ASSUME CallsType, NEW k \in Conn, Answer(k)
    PROVE  call'[k] = Idle /\ call' \in [Conn -> CallRec] /\ \A l \in Conn \ {k} : call'[l] = call[l]
BY Records DEF CallsType, Answer

LEMMA Gone ==
    ASSUME CallsType, NEW k \in Conn, NEW step \in Step, NEW data \in SUBSET (Member \cup Target),
           NEW fresh \in SUBSET Member, Goto(k, step, data, fresh)
    PROVE  /\ call'[k].step = step /\ call'[k].data = data /\ call'[k].fresh = fresh
           /\ call' \in [Conn -> CallRec] /\ \A l \in Conn \ {k} : call'[l] = call[l]
<1> DEFINE rec == [Idle EXCEPT !.step = step, !.data = data, !.fresh = fresh]
<1>1. rec \in CallRec /\ rec.step = step /\ rec.data = data /\ rec.fresh = fresh
  BY Records DEF Idle, CallRec
<1>2. call' = [call EXCEPT ![k] = rec]
  BY DEF Goto
<1> HIDE DEF rec
<1> QED BY <1>1, <1>2 DEF CallsType

LEMMA Routed ==
    ASSUME CallsType, NEW k \in Conn, NEW event \in Event, NEW fresh \in SUBSET Member, Route(k, event, fresh)
    PROVE  /\ call'[k].step = "route" /\ call'[k].event = event /\ call'[k].fresh = fresh /\ call'[k].todo = Member
           /\ call' \in [Conn -> CallRec] /\ \A l \in Conn \ {k} : call'[l] = call[l]
<1> DEFINE rec == [Idle EXCEPT !.step = "route", !.fresh = fresh, !.event = event, !.todo = Member]
<1>1. rec \in CallRec /\ rec.step = "route" /\ rec.event = event /\ rec.fresh = fresh /\ rec.todo = Member
  BY Records DEF Idle, CallRec, Step
<1>2. call' = [call EXCEPT ![k] = rec]
  BY DEF Route
<1> HIDE DEF rec
<1> QED BY <1>1, <1>2 DEF CallsType

LEMMA Sent ==
    ASSUME CallsType, NEW k \in Conn, NEW v \in Member, SendTo(k, v)
    PROVE  /\ call'[k].step = call[k].step /\ call'[k].event = call[k].event /\ call'[k].fresh = call[k].fresh
           /\ call'[k].todo = call[k].todo \ {v} /\ call'[k].data = call[k].data
           /\ call' \in [Conn -> CallRec] /\ \A l \in Conn \ {k} : call'[l] = call[l]
<1> DEFINE rec == [call[k] EXCEPT !.todo = call[k].todo \ {v}]
<1>1. call[k] \in CallRec
  BY DEF CallsType
<1>2. /\ rec \in CallRec /\ rec.step = call[k].step /\ rec.event = call[k].event /\ rec.fresh = call[k].fresh
      /\ rec.todo = call[k].todo \ {v} /\ rec.data = call[k].data
  BY <1>1 DEF CallRec
<1>3. call' = [call EXCEPT ![k] = rec]
  BY DEF SendTo, CallsType
<1> HIDE DEF rec
<1> QED BY <1>2, <1>3 DEF CallsType

LEMMA Turned ==
    ASSUME CallsType, NEW k \in Conn, RouteDone(k)
    PROVE  /\ call'[k].step = "mention" /\ call'[k].event = call[k].event /\ call'[k].fresh = {}
           /\ call'[k].todo = call[k].fresh
           /\ call' \in [Conn -> CallRec] /\ \A l \in Conn \ {k} : call'[l] = call[l]
<1> DEFINE rec == [call[k] EXCEPT !.step = "mention", !.todo = call[k].fresh, !.fresh = {}]
<1>1. call[k] \in CallRec
  BY DEF CallsType
<1>2. /\ rec \in CallRec /\ rec.step = "mention" /\ rec.event = call[k].event /\ rec.fresh = {}
      /\ rec.todo = call[k].fresh
  BY <1>1 DEF CallRec, Step
<1>3. call' = [call EXCEPT ![k] = rec]
  BY DEF RouteDone, CallsType
<1> HIDE DEF rec
<1> QED BY <1>2, <1>3 DEF CallsType

(***************************************************************************)
(* Types                                                                   *)
(***************************************************************************)
LEMMA TypesTell == CallsType /\ RowsType => TypeOK
BY DEF CallsType, RowsType, TypeOK, CallRec, Conn

LEMMA CallsStep ==
    ASSUME CallsType, NEW k \in Conn, call' \in [Conn -> CallRec], \A l \in Conn \ {k} : call'[l] = call[l],
           made' = made \/ Begin(k),
           call'[k].step # "idle" => call[k].step # "idle" \/ Begin(k),
           call'[k].step \in {"edit", "recall"} => k \in SenderConn,
           call'[k].step = "edit" => call'[k].data \subseteq Member
    PROVE  CallsType'
<1>1. /\ made' \in [Conn -> 0..Quota] /\ \A l \in Conn : made[l] \in Nat /\ made'[l] \in Nat /\ made[l] <= made'[l]
      /\ Begin(k) => made'[k] >= 1
  BY QuotaAssumption DEF CallsType, Begin
<1>2. \A l \in Conn : call'[l].step # "idle" => made'[l] >= 1
  BY <1>1 DEF CallsType
<1> QED BY <1>1, <1>2 DEF CallsType

\* A request that begins, and an await that ends a call or leads to the next one.
Begins(k) == EditRead(k) \/ RecallRead(k) \/ PinRead(k) \/ UnpinRead(k) \/ ForwardRead(k)
Quits(k) == StoreFindsRecalled(k) \/ CallFails(k) \/ \E t \in Target : ForwardStore(k, t)
Stores(k) == EditStore(k) \/ RecallStore(k) \/ PinStore(k) \/ UnpinStore(k)
Sends(k) == (\E v \in Member : SendTo(k, v)) \/ RouteDone(k) \/ CallDone(k)

LEMMA Requests == \A k \in Conn : Request(k) <=> Begins(k) \/ Quits(k) \/ Stores(k) \/ Sends(k)
BY DEF Request, Begins, Quits, Stores, Sends, EditMessage, RecallMessage, PinMessage, UnpinMessage, ForwardMessage, RouteEvent

\* A request that begins is at the database next, or is answered.
LEMMA BeginCalls ==
    ASSUME CallsType, NEW k \in Conn, Begins(k)
    PROVE  /\ CallsType' /\ Begin(k) /\ \A l \in Conn \ {k} : call'[l] = call[l]
           /\ call'[k].step \in {"idle", "edit", "recall", "pin", "unpin", "forward"}
           /\ call'[k].step \in {"pin", "unpin"} => k \in AdminConn
           /\ call'[k].step = "edit" => call'[k].fresh = call'[k].data \ (msg.mentions \cup {sender})
           /\ UNCHANGED <<msg, age, pins, copies, inbox>>
           /\ recallOk' # recallOk => msg.status = "recalled" /\ recallOk' = "yes"
<1>1. {"edit", "recall", "pin", "unpin", "forward"} \subseteq Step /\ {} \in SUBSET Member /\ {} \in SUBSET (Member \cup Target)
  BY DEF Step
<1>2. CASE EditRead(k)
  <2>1. PICK m \in MentionSet : Goto(k, "edit", m, m \ (msg.mentions \cup {sender}))
    BY <1>2 DEF EditRead
  <2>2. m \in SUBSET Member /\ m \in SUBSET (Member \cup Target) /\ m \ (msg.mentions \cup {sender}) \in SUBSET Member
    BY MentionAssumption
  <2>3. /\ call'[k].step = "edit" /\ call'[k].data = m /\ call'[k].fresh = m \ (msg.mentions \cup {sender})
        /\ call' \in [Conn -> CallRec] /\ \A l \in Conn \ {k} : call'[l] = call[l]
    BY <1>1, <2>1, <2>2, Gone
  <2>4. CallsType'
    BY <1>2, <2>2, <2>3, CallsStep DEF EditRead
  <2> QED BY <1>2, <2>3, <2>4 DEF EditRead
<1>3. CASE RecallRead(k)
  <2>1. CASE msg.status = "recalled" /\ recallOk' = "yes" /\ UNCHANGED call
    <3>1. call'[k].step = "idle" /\ call' \in [Conn -> CallRec] /\ \A l \in Conn \ {k} : call'[l] = call[l]
      BY <1>3, <2>1 DEF RecallRead, Begin, CallsType
    <3>2. CallsType'
      BY <1>3, <3>1, CallsStep DEF RecallRead
    <3> QED BY <1>3, <2>1, <3>1, <3>2 DEF RecallRead
  <2>2. CASE Goto(k, "recall", {}, {}) /\ UNCHANGED recallOk
    <3>1. call'[k].step = "recall" /\ call' \in [Conn -> CallRec] /\ \A l \in Conn \ {k} : call'[l] = call[l]
      BY <1>1, <2>2, Gone
    <3>2. CallsType'
      BY <1>3, <3>1, CallsStep DEF RecallRead
    <3> QED BY <1>3, <2>2, <3>1, <3>2 DEF RecallRead
  <2> QED BY <1>3, <2>1, <2>2 DEF RecallRead
<1>4. CASE PinRead(k) \/ UnpinRead(k)
  <2>1. PICK step \in {"pin", "unpin"} : Goto(k, step, {}, {})
    BY <1>4 DEF PinRead, UnpinRead
  <2>2. call'[k].step = step /\ call' \in [Conn -> CallRec] /\ \A l \in Conn \ {k} : call'[l] = call[l]
    BY <1>1, <2>1, Gone
  <2>3. CallsType'
    BY <1>4, <2>2, CallsStep DEF PinRead, UnpinRead
  <2> QED BY <1>4, <2>2, <2>3 DEF PinRead, UnpinRead
<1>5. CASE ForwardRead(k)
  <2>1. PICK ts \in (SUBSET Target) \ {{}} : Goto(k, "forward", ts, {})
    BY <1>5 DEF ForwardRead
  <2>2. ts \in SUBSET (Member \cup Target)
    OBVIOUS
  <2>3. call'[k].step = "forward" /\ call' \in [Conn -> CallRec] /\ \A l \in Conn \ {k} : call'[l] = call[l]
    BY <1>1, <2>1, <2>2, Gone
  <2>4. CallsType'
    BY <1>5, <2>3, CallsStep DEF ForwardRead
  <2> QED BY <1>5, <2>3, <2>4 DEF ForwardRead
<1> QED BY <1>2, <1>3, <1>4, <1>5 DEF Begins

LEMMA QuitCalls ==
    ASSUME CallsType, NEW k \in Conn, Quits(k)
    PROVE  /\ CallsType' /\ made' = made /\ \A l \in Conn \ {k} : call'[l] = call[l]
           /\ call'[k].step \in {"idle", "forward"}
           /\ UNCHANGED <<msg, age, pins, inbox, recallOk>>
           /\ call[k].step \in {"route", "mention"} => "route" \in Failing
<1>1. CASE StoreFindsRecalled(k) \/ CallFails(k)
  <2>1. Answer(k) /\ made' = made
    BY <1>1 DEF StoreFindsRecalled, CallFails
  <2>2. call'[k].step = "idle" /\ call' \in [Conn -> CallRec] /\ \A l \in Conn \ {k} : call'[l] = call[l]
    BY <2>1, Answered, Records
  <2>3. CallsType'
    BY <2>1, <2>2, CallsStep
  <2> QED BY <1>1, <2>2, <2>3 DEF StoreFindsRecalled, CallFails
<1>2. ASSUME NEW t \in Target, ForwardStore(k, t)
      PROVE  /\ CallsType' /\ made' = made /\ \A l \in Conn \ {k} : call'[l] = call[l]
             /\ call'[k].step \in {"idle", "forward"}
  <2>1. Answer(k) \/ Goto(k, "forward", call[k].data \ {t}, {})
    BY <1>2 DEF ForwardStore
  <2>2. call[k].data \ {t} \in SUBSET (Member \cup Target) /\ "forward" \in Step /\ {} \in SUBSET Member
    BY DEF CallsType, CallRec, Step
  <2>3. call'[k].step \in {"idle", "forward"} /\ call' \in [Conn -> CallRec] /\ \A l \in Conn \ {k} : call'[l] = call[l]
    BY <2>1, <2>2, Answered, Gone, Records
  <2>4. made' = made /\ call[k].step = "forward"
    BY <1>2 DEF ForwardStore
  <2>5. CallsType'
    BY <2>3, <2>4, CallsStep
  <2> QED BY <2>3, <2>4, <2>5
<1> QED BY <1>1, <1>2 DEF Quits, ForwardStore

\* A row that was written is routed to every member.
Writes(k) ==
    /\ call'[k].step = "route" /\ call'[k].todo = Member
    /\ \/ /\ call[k].step = "edit" /\ k \in SenderConn /\ msg.status = "live"
          /\ msg' = [msg EXCEPT !.content = <<k, made[k]>>, !.mentions = call[k].data]
          /\ call'[k].event = Edited(msg') /\ call'[k].fresh = call[k].fresh /\ UNCHANGED pins
       \/ /\ call[k].step = "recall" /\ k \in SenderConn /\ msg.status = "live"
          /\ msg' = [msg EXCEPT !.content = placeholder, !.status = "recalled"]
          /\ call'[k].event = Note("recalled") /\ call'[k].fresh = {} /\ UNCHANGED pins
       \/ /\ call[k].step = "pin" /\ pins' = "pinned"
          /\ call'[k].event = Note("pinned") /\ call'[k].fresh = {} /\ UNCHANGED msg
       \/ /\ call[k].step = "unpin" /\ pins' = "none"
          /\ call'[k].event = Note("unpinned") /\ call'[k].fresh = {} /\ UNCHANGED msg

LEMMA StoreCalls ==
    ASSUME CallsType, RowsType, NEW k \in Conn, Stores(k)
    PROVE  /\ CallsType' /\ msg' \in Message /\ made' = made /\ \A l \in Conn \ {k} : call'[l] = call[l]
           /\ UNCHANGED <<age, copies, inbox, recallOk>>
           /\ call[k].step \notin {"idle", "route", "mention"}
           /\ \/ Writes(k)
              \/ call'[k].step = "idle" /\ pins' = "none" /\ UNCHANGED <<msg, pins>>
<1>1. /\ call[k] \in CallRec /\ made[k] \in 0..Quota /\ msg \in Message /\ call[k].fresh \in SUBSET Member
      /\ {} \in SUBSET Member
  BY DEF CallsType, RowsType, CallRec
<1>2. CASE EditStore(k)
  <2>1. k \in SenderConn /\ <<k, made[k]>> \in Version /\ call[k].data \in SUBSET Member
    BY <1>1, <1>2 DEF EditStore, CallsType, Version
  <2>2. msg' \in Message /\ msg'.content = <<k, made[k]>> /\ msg'.mentions = call[k].data
    BY <1>1, <1>2, <2>1 DEF EditStore, Message
  <2>3. Edited(msg') \in Event
    BY <2>1, <2>2 DEF Edited, Event
  <2>4. /\ call'[k].step = "route" /\ call'[k].event = Edited(msg') /\ call'[k].fresh = call[k].fresh /\ call'[k].todo = Member
        /\ call' \in [Conn -> CallRec] /\ \A l \in Conn \ {k} : call'[l] = call[l]
    <3>1. Route(k, Edited(msg'), call[k].fresh)
      BY <1>2 DEF EditStore
    <3>2. PICK event \in Event : event = Edited(msg')
      BY <2>3
    <3>3. Route(k, event, call[k].fresh)
      BY <3>1, <3>2
    <3> QED BY <1>1, <3>2, <3>3, Routed
  <2>5. CallsType'
    BY <1>2, <2>4, CallsStep DEF EditStore
  <2> QED BY <1>2, <2>1, <2>2, <2>4, <2>5 DEF EditStore, Writes
<1>3. CASE RecallStore(k)
  <2>1. k \in SenderConn
    BY <1>3 DEF RecallStore, CallsType
  <2>2. msg' \in Message
    BY <1>1, <1>3 DEF RecallStore, Message
  <2>3. /\ call'[k].step = "route" /\ call'[k].event = Note("recalled") /\ call'[k].fresh = {} /\ call'[k].todo = Member
        /\ call' \in [Conn -> CallRec] /\ \A l \in Conn \ {k} : call'[l] = call[l]
    BY <1>1, <1>3, Records, Routed DEF RecallStore, RouteRecall
  <2>4. CallsType'
    BY <1>3, <2>3, CallsStep DEF RecallStore
  <2> QED BY <1>3, <2>1, <2>2, <2>3, <2>4 DEF RecallStore, Writes
<1>4. CASE PinStore(k)
  <2>1. /\ call'[k].step = "route" /\ call'[k].event = Note("pinned") /\ call'[k].fresh = {} /\ call'[k].todo = Member
        /\ call' \in [Conn -> CallRec] /\ \A l \in Conn \ {k} : call'[l] = call[l]
    BY <1>1, <1>4, Records, Routed DEF PinStore, RoutePin
  <2>2. CallsType'
    BY <1>4, <2>1, CallsStep DEF PinStore
  <2> QED BY <1>1, <1>4, <2>1, <2>2 DEF PinStore, Writes
<1>5. CASE UnpinStore(k) /\ pins = "pinned"
  <2>1. /\ call'[k].step = "route" /\ call'[k].event = Note("unpinned") /\ call'[k].fresh = {} /\ call'[k].todo = Member
        /\ call' \in [Conn -> CallRec] /\ \A l \in Conn \ {k} : call'[l] = call[l]
    BY <1>1, <1>5, Records, Routed DEF UnpinStore, RoutePin
  <2>2. CallsType'
    BY <1>5, <2>1, CallsStep DEF UnpinStore
  <2> QED BY <1>1, <1>5, <2>1, <2>2 DEF UnpinStore, Writes
<1>6. CASE UnpinStore(k) /\ pins # "pinned"
  <2>1. call'[k].step = "idle" /\ call' \in [Conn -> CallRec] /\ \A l \in Conn \ {k} : call'[l] = call[l]
    BY <1>6, Answered, Records DEF UnpinStore
  <2>2. CallsType'
    BY <1>6, <2>1, CallsStep DEF UnpinStore
  <2> QED BY <1>1, <1>6, <2>1, <2>2 DEF UnpinStore, RowsType
<1> QED BY <1>2, <1>3, <1>4, <1>5, <1>6 DEF Stores

\* An event arrives at the end of a member's inbox.
Gets(v, e) ==
    /\ \A w \in Member \ {v} : inbox'[w] = inbox[w]
    /\ DOMAIN inbox'[v] = DOMAIN inbox[v] \cup {Len(inbox[v]) + 1} /\ Len(inbox[v]) \in Nat
    /\ inbox'[v][Len(inbox[v]) + 1] = e
    /\ \A i \in DOMAIN inbox[v] : i \in Nat /\ i <= Len(inbox[v]) /\ inbox'[v][i] = inbox[v][i]

LEMMA Delivered ==
    ASSUME RowsType, NEW v \in Member, NEW e \in Event, inbox' = [inbox EXCEPT ![v] = Append(@, e)]
    PROVE  inbox' \in [Member -> Seq(Event)] /\ Gets(v, e)
<1>1. inbox[v] \in Seq(Event) /\ inbox \in [Member -> Seq(Event)]
  BY DEF RowsType
<1>2. PICK box \in Seq(Event) : box = inbox[v]
  BY <1>1
<1>3. /\ Append(box, e) \in Seq(Event) /\ DOMAIN Append(box, e) = DOMAIN box \cup {Len(box) + 1} /\ Len(box) \in Nat
      /\ Append(box, e)[Len(box) + 1] = e
      /\ \A i \in DOMAIN box : i \in Nat /\ i <= Len(box) /\ Append(box, e)[i] = box[i]
  OBVIOUS
<1>4. inbox'[v] = Append(box, e) /\ \A w \in Member \ {v} : inbox'[w] = inbox[w]
  BY <1>1, <1>2
<1> QED BY <1>1, <1>2, <1>3, <1>4 DEF Gets

\* A member is sent the event, or the note of a mention.
LEMMA SendCalls ==
    ASSUME CallsType, RowsType, NEW k \in Conn, NEW v \in Member, SendTo(k, v)
    PROVE  /\ CallsType' /\ inbox' \in [Member -> Seq(Event)] /\ v \in call[k].todo
           /\ call[k].step \in {"route", "mention"} /\ call'[k].step = call[k].step
           /\ call'[k].event = call[k].event /\ call'[k].fresh = call[k].fresh /\ call'[k].todo = call[k].todo \ {v}
           /\ \A l \in Conn \ {k} : call'[l] = call[l]
           /\ call[k].step = "route" => Gets(v, call[k].event)
           /\ call[k].step = "mention" => Gets(v, Note("mention"))
           /\ UNCHANGED <<msg, age, pins, copies, made, recallOk>>
<1>1. call[k] \in CallRec
  BY DEF CallsType
<1>2. PICK e \in Event : e = IF call[k].step = "mention" THEN Note("mention") ELSE call[k].event
  BY <1>1, Records DEF CallRec
<1>3. inbox' = [inbox EXCEPT ![v] = Append(@, e)]
  BY <1>2 DEF SendTo
<1>4. inbox' \in [Member -> Seq(Event)] /\ Gets(v, e)
  BY <1>3, Delivered
<1>5. CallsType'
  BY Sent, CallsStep DEF SendTo
<1> QED BY <1>2, <1>4, <1>5, Sent DEF SendTo

LEMMA TurnCalls ==
    ASSUME CallsType, NEW k \in Conn, RouteDone(k)
    PROVE  /\ CallsType' /\ call[k].step = "route" /\ call[k].todo = {} /\ call[k].fresh # {}
           /\ call'[k].step = "mention" /\ call'[k].event = call[k].event /\ call'[k].fresh = {}
           /\ call'[k].todo = call[k].fresh
           /\ \A l \in Conn \ {k} : call'[l] = call[l]
           /\ UNCHANGED <<msg, age, pins, copies, made, inbox, recallOk>>
<1>1. CallsType'
  BY Turned, CallsStep DEF RouteDone
<1> QED BY <1>1, Turned DEF RouteDone

\* The end of a call confirms an edit and answers a recall.
LEMMA DoneCalls ==
    ASSUME CallsType, RowsType, NEW k \in Conn, CallDone(k)
    PROVE  /\ CallsType' /\ inbox' \in [Member -> Seq(Event)] /\ recallOk' \in {"no", "yes"}
           /\ call[k].step \in {"route", "mention"} /\ call[k].todo = {} /\ call[k].fresh = {}
           /\ call'[k].step = "idle" /\ \A l \in Conn \ {k} : call'[l] = call[l]
           /\ IF call[k].event.type = "edited" THEN Gets(sender, call[k].event) ELSE UNCHANGED inbox
           /\ recallOk' # recallOk => call[k].event.type = "recalled"
           /\ UNCHANGED <<msg, age, pins, copies, made>>
<1>1. call[k] \in CallRec /\ call[k].event \in Event
  BY DEF CallsType, CallRec
<1>2. Answer(k) /\ UNCHANGED <<msg, age, pins, copies, made>>
  BY DEF CallDone, Confirm
<1>3. call'[k].step = "idle" /\ call' \in [Conn -> CallRec] /\ \A l \in Conn \ {k} : call'[l] = call[l]
  BY <1>2, Answered, Records
<1>4. CallsType'
  BY <1>2, <1>3, CallsStep
<1>5. inbox' \in [Member -> Seq(Event)] /\ IF call[k].event.type = "edited" THEN Gets(sender, call[k].event) ELSE UNCHANGED inbox
  <2>1. CASE call[k].event.type = "edited"
    <3>1. PICK e \in Event : e = call[k].event
      BY <1>1
    <3>2. inbox' = [inbox EXCEPT ![sender] = Append(@, e)]
      BY <2>1, <3>1 DEF CallDone, Confirm
    <3> QED BY <2>1, <3>1, <3>2, MemberAssumption, Delivered
  <2>2. CASE call[k].event.type # "edited"
    BY <2>2 DEF CallDone, Confirm, RowsType
  <2> QED BY <2>1, <2>2
<1> QED BY <1>2, <1>3, <1>4, <1>5 DEF CallDone, Confirm, RowsType

LEMMA EditTypeInit == Init => CallsType /\ RowsType
<1> SUFFICES ASSUME Init PROVE CallsType /\ RowsType
  OBVIOUS
<1>1. CallsType
  BY Records, QuotaAssumption DEF Init, CallsType
<1>2. msg \in Message
  BY MentionAssumption DEF Init, Message, Version
<1>3. inbox \in [Member -> Seq(Event)]
  <2>1. <<>> \in Seq(Event)
    OBVIOUS
  <2> QED BY <2>1 DEF Init
<1> QED BY <1>1, <1>2, <1>3 DEF Init, RowsType

LEMMA EditTypeStep == CallsType /\ RowsType /\ [Next]_vars => CallsType' /\ RowsType'
<1> SUFFICES ASSUME CallsType, RowsType, [Next]_vars PROVE CallsType' /\ RowsType'
  OBVIOUS
<1>1. ASSUME NEW k \in Conn, Begins(k) PROVE CallsType' /\ RowsType'
  BY <1>1, BeginCalls DEF RowsType
<1>2. ASSUME NEW k \in Conn, Quits(k) PROVE CallsType' /\ RowsType'
  <2>1. copies' \subseteq Conn \X (1..Quota) \X Target
    <3>1. \/ UNCHANGED copies
          \/ call[k].step # "idle" /\ \E t \in Target : copies' = copies \cup {<<k, made[k], t>>}
      BY <1>2 DEF Quits, StoreFindsRecalled, CallFails, ForwardStore, CreateForwarded
    <3>2. call[k].step # "idle" => made[k] \in 1..Quota
      BY QuotaAssumption DEF CallsType
    <3> QED BY <3>1, <3>2 DEF RowsType
  <2> QED BY <1>2, <2>1, QuitCalls DEF RowsType
<1>3. ASSUME NEW k \in Conn, Stores(k) PROVE CallsType' /\ RowsType'
  BY <1>3, StoreCalls DEF RowsType, Writes
<1>4. ASSUME NEW k \in Conn, Sends(k) PROVE CallsType' /\ RowsType'
  <2>1. ASSUME NEW v \in Member, SendTo(k, v) PROVE CallsType' /\ RowsType'
    BY <2>1, SendCalls DEF RowsType
  <2>2. CASE RouteDone(k)
    BY <2>2, TurnCalls DEF RowsType
  <2>3. CASE CallDone(k)
    BY <2>3, DoneCalls DEF RowsType
  <2> QED BY <1>4, <2>1, <2>2, <2>3 DEF Sends
<1>5. CASE Ages \/ UNCHANGED vars
  BY <1>5 DEF Ages, vars, CallsType, RowsType
<1> QED BY <1>1, <1>2, <1>3, <1>4, <1>5, Requests DEF Next

(***************************************************************************)
(* Recall                                                                  *)
(***************************************************************************)
\* handler.rs, storage.rs: whatever edits and recalls are in flight, their UPDATE finds
\* a recalled row no more.
THEOREM RecalledStays == Spec => RecallIsPermanent
<1>1. [Next]_vars => [msg.status = "recalled" => msg' = msg]_vars
  <2> SUFFICES ASSUME Next, msg.status = "recalled" PROVE msg' = msg
    BY DEF vars
  <2>1. ASSUME NEW k \in Conn, Request(k) PROVE msg' = msg
    BY <2>1, Requests DEF Begins, Quits, Stores, Sends, EditRead, RecallRead, PinRead, UnpinRead, ForwardRead,
       StoreFindsRecalled, CallFails, ForwardStore, EditStore, RecallStore, PinStore, UnpinStore,
       SendTo, RouteDone, CallDone, Confirm
  <2> QED BY <2>1 DEF Next, Ages
<1> QED BY <1>1, PTL DEF Spec, RecallIsPermanent

\* Nothing that was told is told otherwise, and nobody begins to announce.
LEMMA QuietRecall ==
    ASSUME RecallInv, msg'.status = msg.status, inbox' = inbox, NEW k \in Conn,
           \A l \in Conn \ {k} : call'[l] = call[l], ~Announces(k)'
    PROVE  RecallInv'
<1>1. \A l \in Conn : Announces(l)' => Announces(l) /\ call'[l] = call[l]
  BY DEF Announces
<1>2. \A v \in Member : IsTold(v)' = IsTold(v)
  BY DEF IsTold
<1>3. \A l \in Conn : Announces(l)' => /\ call'[l].step = "route" /\ call'[l].fresh = {} /\ msg'.status = "recalled"
                                       /\ \A v \in call'[l].todo : ~IsTold(v)'
  BY <1>1, <1>2 DEF RecallInv, IsTold
<1> QED BY <1>1, <1>2, <1>3 DEF RecallInv, RecallAnnouncedOnce

LEMMA SendRecall ==
    ASSUME CallsType, RowsType, RecallInv, NEW k \in Conn, NEW v \in Member, SendTo(k, v)
    PROVE  RecallInv' /\ \A w \in Member : IsTold(w)' <=> IsTold(w) \/ (w = v /\ Announces(k))
<1> DEFINE e == IF call[k].step = "mention" THEN Note("mention") ELSE call[k].event
           n == Len(inbox[v]) + 1
<1>1. Gets(v, e) /\ call[k].step \in {"route", "mention"} /\ v \in call[k].todo /\ msg' = msg
  BY SendCalls
<1>2. e.type = "recalled" <=> Announces(k)
  <2>1. Announces(k) => call[k].step = "route"
    BY DEF RecallInv
  <2> QED BY <1>1, <2>1, Records DEF Announces
<1> HIDE DEF e
<1>3. \A w \in Member : IsTold(w)' <=> IsTold(w) \/ (w = v /\ Announces(k))
  BY <1>1, <1>2 DEF Gets, IsTold
<1>4. \A l \in Conn : /\ Announces(l)' = Announces(l) /\ call'[l].step = call[l].step /\ call'[l].fresh = call[l].fresh
                      /\ call'[l].todo = IF l = k THEN call[l].todo \ {v} ELSE call[l].todo
  BY SendCalls DEF Announces
<1>5. \A l \in Conn : Announces(l)' => /\ call'[l].step = "route" /\ call'[l].fresh = {} /\ msg'.status = "recalled"
                                       /\ \A w \in call'[l].todo : ~IsTold(w)'
  <2> SUFFICES ASSUME NEW l \in Conn, Announces(l)
               PROVE  /\ call'[l].step = "route" /\ call'[l].fresh = {} /\ msg'.status = "recalled"
                      /\ \A w \in call'[l].todo : ~IsTold(w)'
    BY <1>4
  <2>1. call[l].step = "route" /\ call[l].fresh = {} /\ msg.status = "recalled" /\ \A w \in call[l].todo : ~IsTold(w)
    BY DEF RecallInv
  <2>2. Announces(k) => k = l
    BY DEF RecallInv
  <2>3. call[l].todo \subseteq Member
    BY DEF CallsType, CallRec
  <2> QED BY <1>1, <1>3, <1>4, <2>1, <2>2, <2>3
<1>6. msg'.status = "live" => \A w \in Member : ~IsTold(w)'
  BY <1>1, <1>3 DEF RecallInv
<1>7. RecallAnnouncedOnce'
  <2> SUFFICES ASSUME NEW w \in Member, NEW i \in DOMAIN inbox'[w], NEW j \in DOMAIN inbox'[w],
                      inbox'[w][i].type = "recalled", inbox'[w][j].type = "recalled"
               PROVE  i = j
    BY DEF RecallAnnouncedOnce
  <2>1. CASE w = v /\ Announces(k)
    <3>1. \A m \in DOMAIN inbox[v] : inbox[v][m].type # "recalled"
      BY <1>1, <2>1 DEF RecallInv, IsTold
    <3> QED BY <1>1, <2>1, <3>1 DEF Gets
  <2>2. CASE w = v /\ ~Announces(k)
    BY <1>1, <1>2, <2>2 DEF Gets, RecallInv, RecallAnnouncedOnce
  <2>3. CASE w # v
    BY <1>1, <2>3 DEF Gets, RecallInv, RecallAnnouncedOnce
  <2> QED BY <2>1, <2>2, <2>3
<1>8. \A l, m \in Conn : Announces(l)' /\ Announces(m)' => l = m
  BY <1>4 DEF RecallInv
<1> QED BY <1>3, <1>5, <1>6, <1>7, <1>8 DEF RecallInv

LEMMA DoneRecall ==
    ASSUME CallsType, RowsType, RecallInv, NEW k \in Conn, CallDone(k)
    PROVE  RecallInv' /\ \A w \in Member : IsTold(w)' <=> IsTold(w)
<1>1. ~Announces(k)' /\ msg' = msg /\ \A l \in Conn \ {k} : call'[l] = call[l]
  BY DoneCalls DEF Announces
<1>2. CASE inbox' = inbox
  BY <1>1, <1>2, QuietRecall DEF IsTold
<1>3. CASE call[k].event.type = "edited" /\ Gets(sender, call[k].event)
  <2>1. \A w \in Member : IsTold(w)' <=> IsTold(w)
    BY <1>3 DEF Gets, IsTold
  <2>2. \A l \in Conn : Announces(l)' => Announces(l) /\ call'[l] = call[l]
    BY <1>1 DEF Announces
  <2>3. \A l \in Conn : call[l].todo \subseteq Member
    BY DEF CallsType, CallRec
  <2>4. \A l \in Conn : Announces(l)' => /\ call'[l].step = "route" /\ call'[l].fresh = {} /\ msg'.status = "recalled"
                                         /\ \A v \in call'[l].todo : ~IsTold(v)'
    <3> SUFFICES ASSUME NEW l \in Conn, Announces(l)'
                 PROVE  /\ call'[l].step = "route" /\ call'[l].fresh = {} /\ msg'.status = "recalled"
                        /\ \A v \in call'[l].todo : ~IsTold(v)'
      OBVIOUS
    <3>1. call'[l] = call[l] /\ call[l].step = "route" /\ call[l].fresh = {} /\ msg.status = "recalled"
          /\ \A v \in call[l].todo : ~IsTold(v)
      BY <2>2 DEF RecallInv
    <3> QED BY <1>1, <2>1, <2>3, <3>1
  <2>5. RecallAnnouncedOnce'
    BY <1>3 DEF Gets, RecallInv, RecallAnnouncedOnce
  <2>6. msg'.status = "live" => \A w \in Member : ~IsTold(w)'
    BY <1>1, <2>1 DEF RecallInv
  <2> QED BY <2>1, <2>2, <2>4, <2>5, <2>6 DEF RecallInv
<1> QED BY <1>2, <1>3, DoneCalls

LEMMA StoreRecall ==
    ASSUME CallsType, RowsType, RecallInv, NEW k \in Conn, Stores(k)
    PROVE  RecallInv'
<1>1. CASE Writes(k) /\ call[k].step = "recall"
  <2>1. msg.status = "live" /\ msg'.status = "recalled" /\ inbox' = inbox
    BY <1>1, StoreCalls DEF Writes, RowsType, Message
  <2>2. \A l \in Conn : ~Announces(l)
    BY <2>1 DEF RecallInv
  <2>3. /\ \A l \in Conn : Announces(l)' => l = k
        /\ call'[k].step = "route" /\ call'[k].fresh = {}
    <3>1. \A l \in Conn \ {k} : call'[l] = call[l]
      BY StoreCalls
    <3>2. call'[k].step = "route" /\ call'[k].fresh = {}
      BY <1>1 DEF Writes
    <3> QED BY <2>2, <3>1, <3>2 DEF Announces
  <2>4. \A v \in Member : ~IsTold(v)'
    BY <2>1 DEF RecallInv, IsTold
  <2>5. call'[k].todo = Member
    BY <1>1 DEF Writes
  <2>6. RecallAnnouncedOnce'
    BY <2>1 DEF RecallInv, RecallAnnouncedOnce
  <2> QED BY <2>1, <2>3, <2>4, <2>5, <2>6 DEF RecallInv
<1>2. CASE ~(Writes(k) /\ call[k].step = "recall")
  <2>1. ~Announces(k)'
    <3>1. CASE Writes(k) /\ call[k].step # "recall"
      <4>1. call'[k].event \in {Edited(msg'), Note("pinned"), Note("unpinned")}
        BY <3>1 DEF Writes
      <4> QED BY <4>1, Records DEF Announces, Edited
    <3>2. CASE call'[k].step = "idle"
      BY <3>2 DEF Announces
    <3> QED BY <1>2, <3>1, <3>2, StoreCalls
  <2>2. msg'.status = msg.status
    BY <1>2, StoreCalls DEF Writes, RowsType, Message
  <2> QED BY <2>1, <2>2, StoreCalls, QuietRecall
<1> QED BY <1>1, <1>2

LEMMA RecallStep ==
    ASSUME CallsType, RowsType, RecallInv, NEW k \in Conn, Request(k)
    PROVE  RecallInv'
<1>1. CASE Begins(k)
  BY <1>1, BeginCalls, QuietRecall DEF Announces
<1>2. CASE Quits(k)
  BY <1>2, QuitCalls, QuietRecall DEF Announces
<1>3. CASE Stores(k)
  BY <1>3, StoreRecall
<1>4. ASSUME NEW v \in Member, SendTo(k, v) PROVE RecallInv'
  BY <1>4, SendRecall
<1>5. CASE RouteDone(k)
  <2>1. ~Announces(k)'
    <3>1. ~Announces(k)
      BY <1>5, TurnCalls DEF RecallInv
    <3> QED BY <1>5, <3>1, TurnCalls DEF Announces
  <2> QED BY <1>5, <2>1, TurnCalls, QuietRecall
<1>6. CASE CallDone(k)
  BY <1>6, DoneRecall
<1> QED BY <1>1, <1>2, <1>3, <1>4, <1>5, <1>6, Requests DEF Sends

LEMMA RecallStutter == RecallInv /\ UNCHANGED <<msg, call, inbox>> => RecallInv'
BY DEF RecallInv, Announces, IsTold, RecallAnnouncedOnce

LEMMA RecallInit == Init => RecallInv
BY Records DEF Init, RecallInv, Announces, IsTold, RecallAnnouncedOnce

\* handler.rs, router.rs: whatever fails, in any order of the requests of any number of
\* connections, no member is told of the recall twice; and everything keeps its type.
THEOREM RecallIsAnnouncedOnce == Spec => [](TypeOK /\ RecallAnnouncedOnce)
<1> DEFINE Inv == CallsType /\ RowsType /\ RecallInv
<1>1. Init => Inv
  BY EditTypeInit, RecallInit
<1>2. Inv /\ [Next]_vars => Inv'
  <2> SUFFICES ASSUME Inv, [Next]_vars PROVE RecallInv'
    BY EditTypeStep
  <2>1. CASE Ages \/ UNCHANGED vars
    BY <2>1, RecallStutter DEF Ages, vars
  <2> QED BY <2>1, RecallStep DEF Next
<1>3. Inv => TypeOK /\ RecallAnnouncedOnce
  BY TypesTell DEF RecallInv
<1> QED BY <1>1, <1>2, <1>3, PTL DEF Spec

(***************************************************************************)
(* Without a failing routing                                               *)
(***************************************************************************)
Quietly(k) == Begins(k) \/ Stores(k) \/ Sends(k) \/ (Quits(k) /\ call[k].step \notin {"route", "mention"})

LEMMA StoreFailsSteps == StoreFails!Next => Next /\ ((\E k \in Conn : Quietly(k)) \/ Ages)
<1>1. ASSUME NEW k \in Conn, StoreFails!Request(k) PROVE Request(k) /\ Quietly(k)
  <2> USE DEF StoreFails!Begin, Begin, StoreFails!Goto, Goto, StoreFails!Idle, Idle, StoreFails!Note, Note, StoreFails!original, original,
          StoreFails!Answer, Answer, StoreFails!Route, Route, StoreFails!Edited, Edited, StoreFails!RouteRecall, RouteRecall,
          StoreFails!RoutePin, RoutePin, StoreFails!placeholder, placeholder
  <2>1. StoreFails!EditRead(k) => EditRead(k)
    BY DEF StoreFails!EditRead, EditRead
  <2>2. StoreFails!EditStore(k) => EditStore(k)
    BY DEF StoreFails!EditStore, EditStore
  <2>3. StoreFails!RecallRead(k) => RecallRead(k)
    BY DEF StoreFails!RecallRead, RecallRead
  <2>4. StoreFails!RecallStore(k) => RecallStore(k)
    BY DEF StoreFails!RecallStore, RecallStore
  <2>5. StoreFails!PinRead(k) => PinRead(k)
    BY DEF StoreFails!PinRead, PinRead
  <2>6. StoreFails!PinStore(k) => PinStore(k)
    BY DEF StoreFails!PinStore, PinStore
  <2>7. StoreFails!UnpinRead(k) => UnpinRead(k)
    BY DEF StoreFails!UnpinRead, UnpinRead
  <2>8. StoreFails!UnpinStore(k) => UnpinStore(k)
    BY DEF StoreFails!UnpinStore, UnpinStore
  <2>9. StoreFails!ForwardRead(k) => ForwardRead(k)
    BY DEF StoreFails!ForwardRead, ForwardRead, StoreFails!Forwardable, Forwardable
  <2>10. ASSUME NEW t \in Target, StoreFails!ForwardStore(k, t) PROVE ForwardStore(k, t) /\ call[k].step = "forward"
    BY <2>10 DEF StoreFails!ForwardStore, ForwardStore, StoreFails!CreateForwarded, CreateForwarded
  <2>11. ASSUME NEW v \in Member, StoreFails!SendTo(k, v) PROVE SendTo(k, v)
    BY <2>11 DEF StoreFails!SendTo, SendTo
  <2>12. StoreFails!RouteDone(k) => RouteDone(k)
    BY DEF StoreFails!RouteDone, RouteDone
  <2>13. StoreFails!CallDone(k) => CallDone(k)
    BY DEF StoreFails!CallDone, CallDone, StoreFails!Confirm, Confirm
  <2>14. StoreFails!CallFails(k) => CallFails(k) /\ call[k].step \notin {"route", "mention"}
    BY DEF StoreFails!CallFails, CallFails
  <2>15. StoreFails!StoreFindsRecalled(k) => StoreFindsRecalled(k) /\ call[k].step \notin {"route", "mention"}
    BY DEF StoreFails!StoreFindsRecalled, StoreFindsRecalled
  <2>16. Quietly(k)
    BY <1>1, <2>1, <2>2, <2>3, <2>4, <2>5, <2>6, <2>7, <2>8, <2>9, <2>10, <2>11, <2>12, <2>13, <2>14, <2>15
       DEF StoreFails!Request, StoreFails!EditMessage, StoreFails!RecallMessage, StoreFails!PinMessage, StoreFails!UnpinMessage,
           StoreFails!ForwardMessage, StoreFails!RouteEvent, Quietly, Begins, Stores, Sends, Quits
  <2> QED BY <2>16, Requests DEF Quietly
<1>2. StoreFails!Ages => Ages
  BY DEF StoreFails!Ages, Ages
<1> QED BY <1>1, <1>2 DEF StoreFails!Next, Next, StoreFails!Conn, Conn

LEMMA CalmSteps == Calm!Next => Next /\ ((\E k \in Conn : Quietly(k)) \/ Ages)
<1>1. ASSUME NEW k \in Conn, Calm!Request(k) PROVE Request(k) /\ Quietly(k)
  <2> USE DEF Calm!Begin, Begin, Calm!Goto, Goto, Calm!Idle, Idle, Calm!Note, Note, Calm!original, original,
          Calm!Answer, Answer, Calm!Route, Route, Calm!Edited, Edited, Calm!RouteRecall, RouteRecall,
          Calm!RoutePin, RoutePin, Calm!placeholder, placeholder
  <2>1. Calm!EditRead(k) => EditRead(k)
    BY DEF Calm!EditRead, EditRead
  <2>2. Calm!EditStore(k) => EditStore(k)
    BY DEF Calm!EditStore, EditStore
  <2>3. Calm!RecallRead(k) => RecallRead(k)
    BY DEF Calm!RecallRead, RecallRead
  <2>4. Calm!RecallStore(k) => RecallStore(k)
    BY DEF Calm!RecallStore, RecallStore
  <2>5. Calm!PinRead(k) => PinRead(k)
    BY DEF Calm!PinRead, PinRead
  <2>6. Calm!PinStore(k) => PinStore(k)
    BY DEF Calm!PinStore, PinStore
  <2>7. Calm!UnpinRead(k) => UnpinRead(k)
    BY DEF Calm!UnpinRead, UnpinRead
  <2>8. Calm!UnpinStore(k) => UnpinStore(k)
    BY DEF Calm!UnpinStore, UnpinStore
  <2>9. Calm!ForwardRead(k) => ForwardRead(k)
    BY DEF Calm!ForwardRead, ForwardRead, Calm!Forwardable, Forwardable
  <2>10. ASSUME NEW t \in Target, Calm!ForwardStore(k, t) PROVE ForwardStore(k, t) /\ call[k].step = "forward"
    BY <2>10 DEF Calm!ForwardStore, ForwardStore, Calm!CreateForwarded, CreateForwarded
  <2>11. ASSUME NEW v \in Member, Calm!SendTo(k, v) PROVE SendTo(k, v)
    BY <2>11 DEF Calm!SendTo, SendTo
  <2>12. Calm!RouteDone(k) => RouteDone(k)
    BY DEF Calm!RouteDone, RouteDone
  <2>13. Calm!CallDone(k) => CallDone(k)
    BY DEF Calm!CallDone, CallDone, Calm!Confirm, Confirm
  <2>14. ~Calm!CallFails(k)
    BY DEF Calm!CallFails
  <2>15. Calm!StoreFindsRecalled(k) => StoreFindsRecalled(k) /\ call[k].step \notin {"route", "mention"}
    BY DEF Calm!StoreFindsRecalled, StoreFindsRecalled
  <2>16. Quietly(k)
    BY <1>1, <2>1, <2>2, <2>3, <2>4, <2>5, <2>6, <2>7, <2>8, <2>9, <2>10, <2>11, <2>12, <2>13, <2>14, <2>15
       DEF Calm!Request, Calm!EditMessage, Calm!RecallMessage, Calm!PinMessage, Calm!UnpinMessage,
           Calm!ForwardMessage, Calm!RouteEvent, Quietly, Begins, Stores, Sends, Quits
  <2> QED BY <2>16, Requests DEF Quietly
<1>2. Calm!Ages => Ages
  BY DEF Calm!Ages, Ages
<1> QED BY <1>1, <1>2 DEF Calm!Next, Next, Calm!Conn, Conn

LEMMA ReachStep ==
    ASSUME CallsType, RowsType, RecallInv, ReachInv, NEW k \in Conn, Quietly(k)
    PROVE  ReachInv'
<1>1. CASE Begins(k)
  <2>1. \A l \in Conn \ {k} : call'[l] = call[l]
    BY <1>1, BeginCalls
  <2>2. msg' = msg /\ inbox' = inbox /\ ~Announces(k) /\ (recallOk' = recallOk \/ msg.status = "recalled")
    BY <1>1, BeginCalls DEF Announces, Begin
  <2> QED BY <2>1, <2>2 DEF ReachInv, Announces, IsTold
<1>2. CASE Quits(k) /\ call[k].step \notin {"route", "mention"}
  <2>1. \A l \in Conn \ {k} : call'[l] = call[l]
    BY <1>2, QuitCalls
  <2>2. msg' = msg /\ inbox' = inbox /\ ~Announces(k) /\ recallOk' = recallOk
    BY <1>2, QuitCalls DEF Announces
  <2> QED BY <2>1, <2>2 DEF ReachInv, Announces, IsTold
<1>3. CASE Stores(k)
  <2>1. (\A l \in Conn \ {k} : call'[l] = call[l]) /\ inbox' = inbox /\ recallOk' = recallOk /\ ~Announces(k)
    BY <1>3, StoreCalls DEF Announces
  <2>2. CASE Writes(k) /\ call[k].step = "recall"
    <3>1. msg'.status = "recalled"
      BY <2>2 DEF Writes, RowsType, Message
    <3>2. Announces(k)' /\ call'[k].todo = Member
      BY <2>2, Records DEF Writes, Announces
    <3> QED BY <2>1, <3>1, <3>2 DEF ReachInv
  <2>3. CASE ~(Writes(k) /\ call[k].step = "recall")
    <3>1. msg'.status = msg.status
      BY <1>3, <2>3, StoreCalls DEF Writes, RowsType, Message
    <3> QED BY <2>1, <3>1 DEF ReachInv, Announces, IsTold
  <2> QED BY <2>2, <2>3
<1>4. ASSUME NEW v \in Member, SendTo(k, v) PROVE ReachInv'
  <2>1. msg' = msg /\ recallOk' = recallOk
    BY <1>4, SendCalls
  <2>2. \A l \in Conn : /\ Announces(l)' = Announces(l)
                        /\ call'[l].todo = IF l = k THEN call[l].todo \ {v} ELSE call[l].todo
    BY <1>4, SendCalls DEF Announces
  <2>3. \A w \in Member : IsTold(w)' <=> IsTold(w) \/ (w = v /\ Announces(k))
    BY <1>4, SendRecall
  <2>4. ASSUME msg'.status = "recalled", NEW w \in Member, ~IsTold(w)' PROVE \E l \in Conn : Announces(l)' /\ w \in call'[l].todo
    <3>1. PICK l \in Conn : Announces(l) /\ w \in call[l].todo
      BY <2>1, <2>3, <2>4 DEF ReachInv
    <3> QED BY <2>2, <2>3, <2>4, <3>1
  <2> QED BY <2>1, <2>4 DEF ReachInv
<1>5. CASE RouteDone(k)
  <2>1. (\A l \in Conn \ {k} : call'[l] = call[l]) /\ ~Announces(k) /\ UNCHANGED <<msg, inbox, recallOk>>
    BY <1>5, TurnCalls DEF RecallInv
  <2> QED BY <2>1 DEF ReachInv, Announces, IsTold
<1>6. CASE CallDone(k)
  <2>1. (\A l \in Conn \ {k} : call'[l] = call[l]) /\ call[k].todo = {} /\ msg' = msg
    BY <1>6, DoneCalls
  <2>2. recallOk' # recallOk => msg.status = "recalled"
    BY <1>6, DoneCalls DEF RecallInv, Announces
  <2>3. \A w \in Member : IsTold(w)' <=> IsTold(w)
    BY <1>6, DoneRecall
  <2> QED BY <2>1, <2>2, <2>3 DEF ReachInv, Announces
<1> QED BY <1>1, <1>2, <1>3, <1>4, <1>5, <1>6 DEF Quietly, Sends

\* What the runs check: also, unless its routing fails, a recall that was answered with
\* success has reached every member when nothing is in progress.
THEOREM RecallReachesEverybodyOnce == MCSpec => []RecallReachesMembersOnce
<1> DEFINE Inv == CallsType /\ RowsType /\ RecallInv /\ (scenario # "any" => ReachInv)
<1>1. MCInit => Inv
  <2> SUFFICES ASSUME MCInit PROVE ReachInv
    BY EditTypeInit, RecallInit DEF MCInit
  <2> QED BY DEF MCInit, Init, ReachInv
<1>2. Inv /\ [MCNext]_<<vars, scenario>> => Inv'
  <2> SUFFICES ASSUME Inv, [MCNext]_<<vars, scenario>> PROVE Inv'
    OBVIOUS
  <2>1. [Next]_vars /\ scenario' = scenario
    BY StoreFailsSteps, CalmSteps DEF MCNext
  <2>2. CallsType' /\ RowsType'
    BY <2>1, EditTypeStep
  <2>3. RecallInv'
    <3>1. CASE Ages \/ UNCHANGED vars
      BY <3>1, RecallStutter DEF Ages, vars
    <3> QED BY <2>1, <3>1, RecallStep DEF Next
  <2>4. ASSUME scenario # "any" PROVE ReachInv'
    <3>1. (\E k \in Conn : Quietly(k)) \/ Ages \/ UNCHANGED vars
      BY <2>4, StoreFailsSteps, CalmSteps DEF MCNext
    <3>2. CASE Ages \/ UNCHANGED vars
      BY <2>4, <3>2 DEF Ages, vars, ReachInv, IsTold, Announces
    <3> QED BY <2>4, <3>1, <3>2, ReachStep
  <2> QED BY <2>1, <2>2, <2>3, <2>4
<1>3. Inv => RecallReachesMembersOnce
  <2> SUFFICES ASSUME Inv, scenario # "any", Settled, recallOk = "yes", NEW v \in Member PROVE IsTold(v)
    BY TypesTell DEF RecallReachesMembersOnce, RecallReachesMembersOnceRouted, RecallReachesMembers, RecallInv, IsTold
  <2> QED BY DEF ReachInv, Announces, Settled
<1> QED BY <1>1, <1>2, <1>3, PTL DEF MCSpec

(***************************************************************************)
(* One connection                                                          *)
(***************************************************************************)
\* The sender's request that is in progress is the only one; so is the admin's.
LEMMA OnlyOne ==
    ASSUME CallsType, Alone, NEW k \in Conn, call[k].step # "idle"
    PROVE  (k \in SenderConn => k = s1) /\ (k \in AdminConn => k = a1)
BY DEF CallsType, Alone

\* Who handles the events about the message is a connection of the sender.
LEMMA SendersRoute ==
    ASSUME NEW k \in Conn, RoutesStored(k),
           \/ call[k].step \in {"route", "mention"} /\ call[k].event.type \in {"edited", "recalled"}
           \/ call[k].step = "mention"
    PROVE  k \in SenderConn /\ call[k].step # "idle" /\ (call[k].step = "mention" => call[k].event.type = "edited")
BY DEF RoutesStored

LEMMA RoutesKept ==
    ASSUME CallsType, Alone, NEW k \in Conn, NEW l \in Conn, l # k, RoutesStored(k), RoutesStored(l), call'[l] = call[l],
           msg' = msg \/ (k \in SenderConn /\ call[k].step # "idle"),
           pins' = pins \/ (k \in AdminConn /\ call[k].step # "idle")
    PROVE  RoutesStored(l)'
<1>1. CASE call[l].step = "idle"
  BY <1>1 DEF RoutesStored
<1>2. CASE call[l].step # "idle"
  <2>1. l \in SenderConn => msg' = msg
    BY <1>2, OnlyOne
  <2>2. l \in AdminConn => pins' = pins
    BY <1>2, OnlyOne
  <2>3. call[l].step = "edit" => l \in SenderConn
    BY DEF CallsType
  <2>4. call[l].step = "mention" => l \in SenderConn
    BY SendersRoute
  <2> QED BY <2>1, <2>2, <2>3, <2>4 DEF RoutesStored
<1> QED BY <1>1, <1>2

LEMMA RoutesStep ==
    ASSUME CallsType, RowsType, Alone, NEW k \in Conn, Quietly(k), \A l \in Conn : RoutesStored(l)
    PROVE  \A l \in Conn : RoutesStored(l)'
<1>1. RoutesStored(k)
  OBVIOUS
<1>2. ASSUME RoutesStored(k)', \A l \in Conn \ {k} : call'[l] = call[l],
             msg' = msg \/ (k \in SenderConn /\ call[k].step # "idle"),
             pins' = pins \/ (k \in AdminConn /\ call[k].step # "idle")
      PROVE  \A l \in Conn : RoutesStored(l)'
  BY <1>2, RoutesKept
<1>3. CASE Begins(k)
  <2>1. RoutesStored(k)'
    BY <1>3, BeginCalls DEF RoutesStored
  <2> QED BY <1>2, <1>3, <2>1, BeginCalls
<1>4. CASE Quits(k)
  <2>1. RoutesStored(k)'
    BY <1>4, QuitCalls DEF RoutesStored
  <2> QED BY <1>2, <1>4, <2>1, QuitCalls
<1>5. CASE Stores(k)
  <2>1. call[k].step \in {"pin", "unpin"} => k \in AdminConn
    BY DEF RoutesStored
  <2>2. \A l \in Conn \ {k} : call'[l] = call[l]
    BY <1>5, StoreCalls
  <2>3. CASE Writes(k) /\ call[k].step = "edit"
    <3>1. /\ msg'.content = <<k, made[k]>> /\ msg'.mentions = call[k].data /\ k \in SenderConn
          /\ call'[k].step = "route" /\ call'[k].event = Edited(msg') /\ call'[k].fresh = call[k].fresh /\ pins' = pins
      BY <2>3 DEF Writes, RowsType, Message
    <3>2. call[k].fresh \subseteq call[k].data
      BY <2>3 DEF RoutesStored
    <3>3. /\ call'[k].event.type = "edited" /\ call'[k].event.mentions = msg'.mentions
          /\ Contents(call'[k].event) = msg'.content
      BY <3>1 DEF Edited, Contents
    <3>4. RoutesStored(k)'
      BY <3>1, <3>2, <3>3 DEF RoutesStored
    <3> QED BY <2>2, <2>3, <3>1, <3>4, RoutesKept
  <2>4. CASE Writes(k) /\ call[k].step = "recall"
    <3>1. /\ msg'.content = placeholder /\ k \in SenderConn
          /\ call'[k].step = "route" /\ call'[k].event = Note("recalled") /\ call'[k].fresh = {} /\ pins' = pins
      BY <2>4 DEF Writes, RowsType, Message
    <3>2. call'[k].event.type = "recalled" /\ Contents(call'[k].event) = msg'.content
      BY <3>1, Records DEF Contents
    <3>3. RoutesStored(k)'
      BY <3>1, <3>2 DEF RoutesStored
    <3> QED BY <2>2, <2>4, <3>1, <3>3, RoutesKept
  <2>5. CASE Writes(k) /\ call[k].step \in {"pin", "unpin"}
    <3>1. /\ call'[k].step = "route" /\ call'[k].fresh = {} /\ msg' = msg
          /\ \/ call'[k].event.type = "pinned" /\ pins' = "pinned"
             \/ call'[k].event.type = "unpinned" /\ pins' = "none"
      BY <2>5, Records DEF Writes
    <3>2. RoutesStored(k)'
      BY <2>1, <2>5, <3>1 DEF RoutesStored
    <3> QED BY <2>1, <2>2, <2>5, <3>1, <3>2, RoutesKept
  <2>6. CASE call'[k].step = "idle" /\ UNCHANGED <<msg, pins>>
    <3>1. RoutesStored(k)'
      BY <2>6 DEF RoutesStored
    <3> QED BY <1>2, <2>2, <2>6, <3>1
  <2> QED BY <1>5, <2>3, <2>4, <2>5, <2>6, StoreCalls DEF Writes
<1>6. ASSUME NEW v \in Member, SendTo(k, v) PROVE \A l \in Conn : RoutesStored(l)'
  <2>1. /\ call'[k].step = call[k].step /\ call[k].step \in {"route", "mention"} /\ call'[k].event = call[k].event
        /\ call'[k].fresh = call[k].fresh /\ call'[k].todo \subseteq call[k].todo /\ UNCHANGED <<msg, pins>>
        /\ \A l \in Conn \ {k} : call'[l] = call[l]
    BY <1>6, SendCalls
  <2>2. RoutesStored(k)'
    BY <2>1 DEF RoutesStored
  <2> QED BY <1>2, <2>1, <2>2
<1>7. CASE RouteDone(k)
  <2>1. /\ call[k].step = "route" /\ call[k].fresh # {} /\ call'[k].step = "mention" /\ call'[k].event = call[k].event
        /\ call'[k].fresh = {} /\ call'[k].todo = call[k].fresh /\ UNCHANGED <<msg, pins>>
        /\ \A l \in Conn \ {k} : call'[l] = call[l]
    BY <1>7, TurnCalls
  <2>2. RoutesStored(k)'
    BY <2>1 DEF RoutesStored
  <2> QED BY <1>2, <2>1, <2>2
<1>8. CASE CallDone(k)
  <2>1. RoutesStored(k)'
    BY <1>8, DoneCalls DEF RoutesStored
  <2> QED BY <1>2, <1>8, <2>1, DoneCalls
<1> QED BY <1>3, <1>4, <1>5, <1>6, <1>7, <1>8 DEF Quietly, Sends

-----------------------------------------------------------------------------
\* An event about the content is what the client shows next, another changes nothing.
LEMMA ShowsNext ==
    ASSUME NEW v \in Member, NEW e, Gets(v, e), NEW content, NEW pin
    PROVE  /\ e.type \in {"edited", "recalled"} => Shows(inbox'[v], Contents(e))
           /\ e.type \notin {"edited", "recalled"} /\ Shows(inbox[v], content) => Shows(inbox'[v], content)
           /\ e.type = "pinned" => ShowsPin(inbox'[v], "pinned")
           /\ e.type = "unpinned" => ShowsPin(inbox'[v], "none")
           /\ e.type \notin {"pinned", "unpinned"} /\ ShowsPin(inbox[v], pin) => ShowsPin(inbox'[v], pin)
<1> DEFINE n == Len(inbox[v]) + 1
<1>1. ASSUME NEW types, e.type \in types PROVE n \in LastAbout(inbox'[v], types)
  BY <1>1 DEF Gets, About, LastAbout
<1>2. ASSUME NEW types, e.type \notin types
      PROVE  /\ About(inbox'[v], types) = About(inbox[v], types)
             /\ LastAbout(inbox'[v], types) = LastAbout(inbox[v], types)
             /\ \A i \in LastAbout(inbox[v], types) : inbox'[v][i] = inbox[v][i]
  <2>1. About(inbox'[v], types) = About(inbox[v], types)
    BY <1>2 DEF Gets, About
  <2> QED BY <2>1 DEF Gets, About, LastAbout
<1>3. inbox'[v][n] = e
  BY DEF Gets
<1>4. \A types : LastAbout(inbox'[v], types) \subseteq About(inbox'[v], types)
  BY DEF LastAbout
<1> HIDE DEF n
<1>5. e.type \in {"edited", "recalled"} => Shows(inbox'[v], Contents(e))
  BY <1>1, <1>3, <1>4 DEF Shows
<1>6. e.type \notin {"edited", "recalled"} /\ Shows(inbox[v], content) => Shows(inbox'[v], content)
  BY <1>2 DEF Shows
<1>7. e.type = "pinned" => ShowsPin(inbox'[v], "pinned")
  BY <1>1, <1>3, <1>4 DEF ShowsPin
<1>8. e.type = "unpinned" => ShowsPin(inbox'[v], "none")
  BY <1>1, <1>3, <1>4 DEF ShowsPin
<1>9. e.type \notin {"pinned", "unpinned"} /\ ShowsPin(inbox[v], pin) => ShowsPin(inbox'[v], pin)
  BY <1>2 DEF ShowsPin
<1> QED BY <1>5, <1>6, <1>7, <1>8, <1>9

\* Nothing is shown or routed otherwise.
LEMMA ShowsKept ==
    ASSUME ShowsInv, NEW k \in Conn, \A l \in Conn \ {k} : call'[l] = call[l],
           UNCHANGED <<msg, pins, inbox>>, call[k].step # "route" \/ call[k].todo = {}
    PROVE  ShowsInv'
<1>1. \A l \in Conn : \A v \in Member : \A types : Routing(l, v, types) => Routing(l, v, types)'
  BY DEF Routing
<1> QED BY <1>1 DEF ShowsInv

LEMMA ShowsStep ==
    ASSUME CallsType, RowsType, NEW k \in Conn, Quietly(k), ShowsInv, \A l \in Conn : RoutesStored(l)
    PROVE  ShowsInv'
<1>1. CASE Begins(k)
  BY <1>1, BeginCalls, ShowsKept DEF Begin
<1>2. CASE Quits(k) /\ call[k].step \notin {"route", "mention"}
  BY <1>2, QuitCalls, ShowsKept
<1>3. CASE Stores(k)
  <2>1. \A l \in Conn : \A v \in Member : \A types : Routing(l, v, types) => Routing(l, v, types)'
    BY <1>3, StoreCalls DEF Routing
  <2>2. inbox' = inbox
    BY <1>3, StoreCalls
  <2>3. CASE Writes(k) /\ call[k].step \in {"edit", "recall"}
    <3>1. \A v \in Member : Routing(k, v, {"edited", "recalled"})'
      BY <2>3, Records DEF Writes, Routing, Edited
    <3>2. pins' = pins
      BY <2>3 DEF Writes
    <3> QED BY <2>1, <2>2, <3>1, <3>2 DEF ShowsInv
  <2>4. CASE Writes(k) /\ call[k].step \in {"pin", "unpin"}
    <3>1. \A v \in Member : Routing(k, v, {"pinned", "unpinned"})'
      BY <2>4, Records DEF Writes, Routing
    <3>2. msg' = msg
      BY <2>4 DEF Writes
    <3> QED BY <2>1, <2>2, <3>1, <3>2 DEF ShowsInv
  <2>5. CASE UNCHANGED <<msg, pins>>
    BY <2>1, <2>2, <2>5 DEF ShowsInv
  <2> QED BY <1>3, <2>3, <2>4, <2>5, StoreCalls DEF Writes
<1>4. ASSUME NEW v \in Member, SendTo(k, v) PROVE ShowsInv'
  <2>1. /\ call'[k].step = call[k].step /\ call[k].step \in {"route", "mention"} /\ call'[k].event = call[k].event
        /\ call'[k].todo = call[k].todo \ {v} /\ UNCHANGED <<msg, pins>>
        /\ \A l \in Conn \ {k} : call'[l] = call[l]
    BY <1>4, SendCalls
  <2>2. PICK e : Gets(v, e) /\ e = IF call[k].step = "mention" THEN Note("mention") ELSE call[k].event
    BY <1>4, <2>1, SendCalls
  <2>3. \A l \in Conn : \A w \in Member : \A types :
           Routing(l, w, types) => Routing(l, w, types)' \/ (l = k /\ w = v /\ call[k].step = "route" /\ e.type \in types)
    BY <2>1, <2>2 DEF Routing
  <2>4. ASSUME NEW w \in Member, w # v
        PROVE  /\ (\E l \in Conn : Routing(l, w, {"edited", "recalled"})') \/ Shows(inbox'[w], msg'.content)
               /\ (\E l \in Conn : Routing(l, w, {"pinned", "unpinned"})') \/ ShowsPin(inbox'[w], pins')
    BY <2>1, <2>2, <2>3, <2>4 DEF ShowsInv, Gets
  <2>5. (\E l \in Conn : Routing(l, v, {"edited", "recalled"})') \/ Shows(inbox'[v], msg'.content)
    <3>1. CASE e.type \in {"edited", "recalled"}
      <4>1. msg.content = Contents(e)
        BY <2>1, <2>2, <3>1, Records DEF RoutesStored
      <4> QED BY <2>1, <2>2, <3>1, <4>1, ShowsNext
    <3>2. CASE e.type \notin {"edited", "recalled"}
      BY <2>1, <2>2, <2>3, <3>2, ShowsNext DEF ShowsInv
    <3> QED BY <3>1, <3>2
  <2>6. (\E l \in Conn : Routing(l, v, {"pinned", "unpinned"})') \/ ShowsPin(inbox'[v], pins')
    <3>1. CASE e.type \in {"pinned", "unpinned"}
      <4>1. pins = IF e.type = "pinned" THEN "pinned" ELSE "none"
        BY <2>1, <2>2, <3>1, Records DEF RoutesStored
      <4> QED BY <2>1, <2>2, <3>1, <4>1, ShowsNext
    <3>2. CASE e.type \notin {"pinned", "unpinned"}
      BY <2>1, <2>2, <2>3, <3>2, ShowsNext DEF ShowsInv
    <3> QED BY <3>1, <3>2
  <2> QED BY <2>4, <2>5, <2>6 DEF ShowsInv
<1>5. CASE RouteDone(k)
  BY <1>5, TurnCalls, ShowsKept
<1>6. CASE CallDone(k)
  <2>1. /\ call[k].step \in {"route", "mention"} /\ call[k].todo = {} /\ UNCHANGED <<msg, pins>>
        /\ \A l \in Conn \ {k} : call'[l] = call[l]
    BY <1>6, DoneCalls
  <2>2. CASE inbox' = inbox
    BY <2>1, <2>2, ShowsKept
  <2>3. CASE call[k].event.type = "edited" /\ Gets(sender, call[k].event)
    <3>1. \A l \in Conn : \A v \in Member : \A types : Routing(l, v, types) => Routing(l, v, types)'
      BY <2>1 DEF Routing
    <3>2. msg.content = Contents(call[k].event)
      BY <2>1, <2>3 DEF RoutesStored
    <3>3. Shows(inbox'[sender], msg'.content)
      BY <2>1, <2>3, <3>2, MemberAssumption, ShowsNext
    <3>4. ShowsPin(inbox[sender], pins) => ShowsPin(inbox'[sender], pins)
      BY <2>3, MemberAssumption, ShowsNext
    <3>5. \A w \in Member \ {sender} : inbox'[w] = inbox[w]
      BY <2>3 DEF Gets
    <3> QED BY <2>1, <3>1, <3>3, <3>4, <3>5, MemberAssumption DEF ShowsInv
  <2> QED BY <1>6, <2>2, <2>3, DoneCalls
<1> QED BY <1>1, <1>2, <1>3, <1>4, <1>5, <1>6 DEF Quietly, Sends

-----------------------------------------------------------------------------
\* What is said of one notification.
NewsOk(v, i) ==
    \/ Cleared(v, i)
    \/ v \in msg.mentions /\ \A k \in Conn : ~Notifying(k, v)
    \/ \E k \in Conn : Clearing(k, v)

LEMMA NewsIs == NewsInv <=> \A v \in Member : \A i \in DOMAIN inbox[v] : inbox[v][i].type = "mention" => NewsOk(v, i)
BY DEF NewsInv, NewsOk

\* A call that was clearing nothing and notifies nobody else leaves the news as they are.
LEMMA NewsKept ==
    ASSUME NewsInv, MentionIsNews, NEW k \in Conn, \A l \in Conn \ {k} : call'[l] = call[l],
           inbox' = inbox, msg'.mentions = msg.mentions,
           \A v \in Member : ~Clearing(k, v) /\ (Notifying(k, v)' => Notifying(k, v))
    PROVE  NewsInv' /\ MentionIsNews'
<1>1. \A l \in Conn : \A v \in Member : /\ Clearing(l, v) => Clearing(l, v)'
                                        /\ Notifying(l, v)' => Notifying(l, v)
  BY DEF Clearing, Notifying
<1>2. \A v \in Member : \A i \in DOMAIN inbox[v] : NewsOk(v, i) => NewsOk(v, i)'
  BY <1>1 DEF NewsOk, Cleared
<1>3. NewsInv'
  BY <1>2, NewsIs DEF NewsInv, NewsOk
<1> QED BY <1>3 DEF MentionIsNews

\* Places between two others of an inbox are in it.
LEMMA InboxOk ==
    ASSUME RowsType, NEW v \in Member
    PROVE  \A i, j \in DOMAIN inbox[v] : \A n \in i..j : n \in DOMAIN inbox[v]
<1>1. PICK box \in Seq(Event) : box = inbox[v]
  BY DEF RowsType
<1> QED BY <1>1

\* An event that is no mention clears and keeps what it did.
LEMMA NewsArrive ==
    ASSUME RowsType, MentionIsNews, NEW v \in Member, NEW e, Gets(v, e), e.type # "mention"
    PROVE  /\ MentionIsNews'
           /\ \A w \in Member : \A i \in DOMAIN inbox'[w] : inbox'[w][i].type = "mention" =>
                 i \in DOMAIN inbox[w] /\ inbox[w][i].type = "mention"
           /\ \A w \in Member : \A i \in DOMAIN inbox[w] : Cleared(w, i) => Cleared(w, i)'
<1>1. \A w \in Member : \A i \in DOMAIN inbox'[w] : inbox'[w][i].type = "mention" =>
         i \in DOMAIN inbox[w] /\ inbox[w][i].type = "mention"
  BY DEF Gets
<1>2. \A w \in Member : \A i \in DOMAIN inbox[w] : i \in DOMAIN inbox'[w] /\ inbox'[w][i] = inbox[w][i]
  BY DEF Gets
<1>3. \A w \in Member : \A i \in DOMAIN inbox[w] : Cleared(w, i) => Cleared(w, i)'
  BY <1>2 DEF Cleared
<1>4. MentionIsNews'
  <2> SUFFICES ASSUME NEW w \in Member, NEW i \in DOMAIN inbox'[w], NEW j \in DOMAIN inbox'[w],
                      i < j, inbox'[w][i].type = "mention", inbox'[w][j].type = "mention"
               PROVE  \E n \in i..j : inbox'[w][n].type = "edited" /\ w \notin inbox'[w][n].mentions
    BY DEF MentionIsNews
  <2>1. PICK n \in i..j : inbox[w][n].type = "edited" /\ w \notin inbox[w][n].mentions
    BY <1>1 DEF MentionIsNews
  <2>2. n \in DOMAIN inbox[w]
    <3>1. i \in DOMAIN inbox[w] /\ j \in DOMAIN inbox[w]
      BY <1>1
    <3> QED BY <3>1, InboxOk
  <2> QED BY <1>2, <2>1, <2>2
<1> QED BY <1>1, <1>3, <1>4

LEMMA NewsStore ==
    ASSUME CallsType, RowsType, Alone, NEW k \in Conn, Stores(k), NewsInv, MentionIsNews, \A l \in Conn : RoutesStored(l)
    PROVE  NewsInv' /\ MentionIsNews'
<1>1. inbox' = inbox /\ (\A l \in Conn \ {k} : call'[l] = call[l]) /\ call[k].step \notin {"idle", "route", "mention"}
  BY StoreCalls
<1>2. CASE Writes(k) /\ call[k].step = "edit"
  <2>1. /\ k \in SenderConn /\ msg'.mentions = call[k].data
        /\ call'[k].step = "route" /\ call'[k].event.type = "edited" /\ call'[k].event.mentions = call[k].data
        /\ call'[k].fresh = call[k].fresh /\ call'[k].todo = Member
    <3>1. /\ k \in SenderConn /\ msg'.mentions = call[k].data
          /\ call'[k].step = "route" /\ call'[k].event = Edited(msg')
          /\ call'[k].fresh = call[k].fresh /\ call'[k].todo = Member
      BY <1>2 DEF Writes, RowsType, Message
    <3> QED BY <3>1 DEF Edited
  <2>2. call[k].fresh = call[k].data \ (msg.mentions \cup {sender})
    BY <1>2 DEF RoutesStored
  \* No other edit is in progress.
  <2>3. \A l \in Conn : \A v \in Member : ~Clearing(l, v) /\ (l # k => ~Notifying(l, v)')
    <3> SUFFICES ASSUME NEW l \in Conn, NEW v \in Member, Clearing(l, v) \/ (l # k /\ Notifying(l, v)') PROVE FALSE
      OBVIOUS
    <3>1. call[l].step \in {"route", "mention"} /\ call[l].event.type = "edited"
      BY <1>1 DEF Clearing, Notifying
    <3>2. l \in SenderConn
      BY <3>1 DEF RoutesStored
    <3>3. l = k
      BY <1>1, <2>1, <3>1, <3>2, OnlyOne
    <3> QED BY <1>1, <3>1, <3>3
  <2>4. ASSUME NEW v \in Member, NEW i \in DOMAIN inbox[v], NewsOk(v, i) PROVE NewsOk(v, i)'
    <3>1. CASE Cleared(v, i)
      BY <1>1, <3>1 DEF NewsOk, Cleared
    <3>2. CASE v \in msg.mentions /\ v \in call[k].data
      <4>1. ~Notifying(k, v)'
        BY <2>1, <2>2, <3>2 DEF Notifying
      <4> QED BY <2>1, <2>3, <3>2, <4>1 DEF NewsOk
    <3>3. CASE v \notin call[k].data
      BY <2>1, <3>3 DEF NewsOk, Clearing
    <3> QED BY <2>3, <2>4, <3>1, <3>2, <3>3 DEF NewsOk
  <2>5. NewsInv'
    BY <1>1, <2>4, NewsIs DEF NewsInv, NewsOk
  <2> QED BY <1>1, <2>5 DEF MentionIsNews
<1>3. CASE ~(Writes(k) /\ call[k].step = "edit")
  <2>1. msg'.mentions = msg.mentions
    BY <1>3, StoreCalls DEF Writes, RowsType, Message
  <2>2. \A v \in Member : ~Clearing(k, v)
    BY <1>1 DEF Clearing
  <2>3. \A v \in Member : ~Notifying(k, v)'
    <3>1. CASE Writes(k)
      <4>1. call'[k].event \in {Note("recalled"), Note("pinned"), Note("unpinned")}
        BY <1>3, <3>1 DEF Writes
      <4> QED BY <4>1, Records DEF Notifying
    <3>2. CASE call'[k].step = "idle"
      BY <3>2 DEF Notifying
    <3> QED BY <3>1, <3>2, StoreCalls
  <2> QED BY <1>1, <2>1, <2>2, <2>3, NewsKept
<1> QED BY <1>2, <1>3

LEMMA NewsSend ==
    ASSUME CallsType, RowsType, Alone, NEW k \in Conn, NEW v \in Member, SendTo(k, v),
           NewsInv, MentionIsNews, \A l \in Conn : RoutesStored(l)
    PROVE  NewsInv' /\ MentionIsNews'
<1>1. /\ call'[k].step = call[k].step /\ call[k].step \in {"route", "mention"} /\ call'[k].event = call[k].event
      /\ call'[k].fresh = call[k].fresh /\ call'[k].todo = call[k].todo \ {v} /\ v \in call[k].todo /\ msg' = msg
      /\ \A l \in Conn \ {k} : call'[l] = call[l]
  BY SendCalls
<1>2. \A l \in Conn : \A w \in Member :
         /\ Notifying(l, w)' => Notifying(l, w)
         /\ Clearing(l, w) => Clearing(l, w)' \/ (l = k /\ w = v)
  BY <1>1 DEF Notifying, Clearing
<1>3. CASE call[k].step = "route"
  <2>1. Gets(v, call[k].event) /\ call[k].event.type # "mention"
    BY <1>3, SendCalls DEF RoutesStored
  <2>2. /\ MentionIsNews'
        /\ \A w \in Member : \A i \in DOMAIN inbox'[w] : inbox'[w][i].type = "mention" =>
              i \in DOMAIN inbox[w] /\ inbox[w][i].type = "mention"
        /\ \A w \in Member : \A i \in DOMAIN inbox[w] : Cleared(w, i) => Cleared(w, i)'
    BY <2>1, NewsArrive
  <2>3. \A i \in DOMAIN inbox[v] : Clearing(k, v) => Cleared(v, i)'
    BY <2>1 DEF Clearing, Cleared, Gets
  <2>4. \A w \in Member : \A i \in DOMAIN inbox[w] : NewsOk(w, i) => NewsOk(w, i)'
    BY <1>1, <1>2, <2>2, <2>3 DEF NewsOk
  <2>5. NewsInv'
    BY <2>2, <2>4, NewsIs DEF NewsInv, NewsOk
  <2> QED BY <2>2, <2>5
<1>4. CASE call[k].step = "mention"
  <2>1. Gets(v, Note("mention")) /\ Note("mention").type = "mention"
    BY <1>4, SendCalls, Records
  <2>2. k \in SenderConn /\ call[k].event.type = "edited" /\ call[k].fresh = {} /\ v \in msg.mentions
    BY <1>1, <1>4, SendersRoute DEF RoutesStored
  \* No other edit is in progress.
  <2>3. \A l \in Conn : l # k => \A w \in Member : ~Clearing(l, w) /\ ~Notifying(l, w)
    <3> SUFFICES ASSUME NEW l \in Conn, l # k, NEW w \in Member, Clearing(l, w) \/ Notifying(l, w) PROVE FALSE
      OBVIOUS
    <3>1. call[l].step \in {"route", "mention"} /\ call[l].event.type = "edited"
      BY DEF Clearing, Notifying
    <3>2. l \in SenderConn
      BY <3>1 DEF RoutesStored
    <3> QED BY <1>1, <2>2, <3>1, <3>2, OnlyOne
  <2>4. \A l \in Conn : \A w \in Member : ~Clearing(l, w)
    BY <1>4, <2>3 DEF Clearing
  <2>5. Notifying(k, v) /\ \A l \in Conn : ~Notifying(l, v)'
    BY <1>1, <1>2, <1>4, <2>2, <2>3 DEF Notifying
  <2>6. \A w \in Member : \A i \in DOMAIN inbox[w] : i \in DOMAIN inbox'[w] /\ inbox'[w][i] = inbox[w][i]
    BY <2>1 DEF Gets
  <2>7. \A w \in Member : \A i \in DOMAIN inbox[w] : Cleared(w, i) => Cleared(w, i)'
    BY <2>6 DEF Cleared
  <2>8. NewsInv'
    <3> SUFFICES ASSUME NEW w \in Member, NEW i \in DOMAIN inbox'[w], inbox'[w][i].type = "mention" PROVE NewsOk(w, i)'
      BY NewsIs DEF NewsInv, NewsOk
    <3>1. CASE w = v
      BY <1>1, <2>2, <2>5, <3>1 DEF NewsOk
    <3>2. CASE w # v
      <4>1. i \in DOMAIN inbox[w] /\ inbox[w][i].type = "mention"
        BY <2>1, <3>2 DEF Gets
      <4>2. NewsOk(w, i)
        BY <4>1, NewsIs
      <4> QED BY <1>1, <1>2, <2>4, <2>7, <4>1, <4>2 DEF NewsOk
    <3> QED BY <3>1, <3>2
  <2>9. MentionIsNews'
    <3> SUFFICES ASSUME NEW w \in Member, NEW i \in DOMAIN inbox'[w], NEW j \in DOMAIN inbox'[w],
                        i < j, inbox'[w][i].type = "mention", inbox'[w][j].type = "mention"
                 PROVE  \E n \in i..j : inbox'[w][n].type = "edited" /\ w \notin inbox'[w][n].mentions
      BY DEF MentionIsNews
    <3>1. CASE i \in DOMAIN inbox[w] /\ j \in DOMAIN inbox[w]
      <4>1. PICK n \in i..j : inbox[w][n].type = "edited" /\ w \notin inbox[w][n].mentions
        BY <2>6, <3>1 DEF MentionIsNews
      <4>2. n \in DOMAIN inbox[w]
        BY <3>1, <4>1, InboxOk
      <4> QED BY <2>6, <4>1, <4>2
    <3>2. CASE ~(i \in DOMAIN inbox[w] /\ j \in DOMAIN inbox[w])
      <4>1. w = v /\ j = Len(inbox[v]) + 1 /\ i \in DOMAIN inbox[v]
        BY <2>1, <3>2 DEF Gets
      <4>2. NewsOk(v, i)
        BY <2>6, <4>1, NewsIs
      <4>3. Cleared(v, i)
        BY <2>4, <2>5, <4>2 DEF NewsOk
      <4>4. PICK n \in DOMAIN inbox[v] : i <= n /\ inbox[v][n].type = "edited" /\ v \notin inbox[v][n].mentions
        BY <4>3 DEF Cleared
      <4>5. n \in i..j
        BY <2>1, <4>1, <4>4 DEF Gets
      <4> QED BY <2>6, <4>1, <4>4, <4>5
    <3> QED BY <3>1, <3>2
  <2> QED BY <2>8, <2>9
<1> QED BY <1>1, <1>3, <1>4

LEMMA NewsStep ==
    ASSUME CallsType, RowsType, Alone, NEW k \in Conn, Quietly(k), NewsInv, MentionIsNews, \A l \in Conn : RoutesStored(l)
    PROVE  NewsInv' /\ MentionIsNews'
<1>1. CASE Begins(k)
  <2>1. \A v \in Member : ~Clearing(k, v) /\ ~Notifying(k, v)'
    BY <1>1, BeginCalls DEF Begin, Clearing, Notifying
  <2> QED BY <1>1, <2>1, BeginCalls, NewsKept
<1>2. CASE Quits(k) /\ call[k].step \notin {"route", "mention"}
  <2>1. \A v \in Member : ~Clearing(k, v) /\ ~Notifying(k, v)'
    BY <1>2, QuitCalls DEF Clearing, Notifying
  <2> QED BY <1>2, <2>1, QuitCalls, NewsKept
<1>3. CASE Stores(k)
  BY <1>3, NewsStore
<1>4. ASSUME NEW v \in Member, SendTo(k, v) PROVE NewsInv' /\ MentionIsNews'
  BY <1>4, NewsSend
<1>5. CASE RouteDone(k)
  <2>1. \A v \in Member : ~Clearing(k, v) /\ (Notifying(k, v)' => Notifying(k, v))
    BY <1>5, TurnCalls DEF Clearing, Notifying
  <2> QED BY <1>5, <2>1, TurnCalls, NewsKept
<1>6. CASE CallDone(k)
  <2>1. /\ call[k].todo = {} /\ call'[k].step = "idle" /\ msg' = msg /\ \A l \in Conn \ {k} : call'[l] = call[l]
    BY <1>6, DoneCalls
  <2>2. \A v \in Member : ~Clearing(k, v) /\ ~Notifying(k, v)'
    BY <2>1 DEF Clearing, Notifying
  <2>3. CASE inbox' = inbox
    BY <2>1, <2>2, <2>3, NewsKept
  <2>4. CASE call[k].event.type = "edited" /\ Gets(sender, call[k].event)
    <3>1. /\ MentionIsNews'
          /\ \A w \in Member : \A i \in DOMAIN inbox'[w] : inbox'[w][i].type = "mention" =>
                i \in DOMAIN inbox[w] /\ inbox[w][i].type = "mention"
          /\ \A w \in Member : \A i \in DOMAIN inbox[w] : Cleared(w, i) => Cleared(w, i)'
      BY <2>4, MemberAssumption, NewsArrive
    <3>2. \A l \in Conn : \A v \in Member : /\ Clearing(l, v) => Clearing(l, v)'
                                            /\ Notifying(l, v)' => Notifying(l, v)
      BY <2>1, <2>2 DEF Clearing, Notifying
    <3>3. \A w \in Member : \A i \in DOMAIN inbox[w] : NewsOk(w, i) => NewsOk(w, i)'
      BY <2>1, <3>1, <3>2 DEF NewsOk
    <3>4. NewsInv'
      BY <3>1, <3>3, NewsIs DEF NewsInv, NewsOk
    <3> QED BY <3>1, <3>4
  <2> QED BY <1>6, <2>3, <2>4, DoneCalls
<1> QED BY <1>1, <1>2, <1>3, <1>4, <1>5, <1>6 DEF Quietly, Sends

LEMMA OneStutter == OneInv /\ UNCHANGED <<msg, pins, call, inbox, made>> => OneInv'
BY DEF OneInv, Alone, RoutesStored, ShowsInv, Routing, NewsInv, Cleared, Notifying, Clearing, MentionIsNews

LEMMA OneInit == Init => OneInv
<1> SUFFICES ASSUME Init PROVE OneInv
  OBVIOUS
<1>1. Conn = SenderConn \cup AdminConn /\ \A k \in Conn : call[k].step = "idle" /\ made[k] = 0
  BY Records DEF Init
<1>2. \A v \in Member : DOMAIN inbox[v] = {}
  BY DEF Init
<1>3. msg.content = original /\ pins = "none"
  BY DEF Init
<1>4. Alone /\ \A k \in Conn : RoutesStored(k)
  BY <1>1 DEF Alone, RoutesStored
<1>5. ShowsInv
  BY <1>2, <1>3 DEF ShowsInv, Shows, ShowsPin, About
<1> QED BY <1>2, <1>4, <1>5 DEF OneInv, NewsInv, MentionIsNews

LEMMA OneStep ==
    ASSUME CallsType, RowsType, OneInv, OneConnection, (\E k \in Conn : Quietly(k)) \/ Ages
    PROVE  OneInv'
<1>1. Alone'
  BY DEF OneConnection, Alone
<1>2. ASSUME NEW k \in Conn, Quietly(k) PROVE (\A l \in Conn : RoutesStored(l)') /\ ShowsInv' /\ NewsInv' /\ MentionIsNews'
  BY <1>2, RoutesStep, ShowsStep, NewsStep DEF OneInv
<1>3. CASE Ages
  BY <1>1, <1>3, OneStutter DEF Ages
<1> QED BY <1>1, <1>2, <1>3 DEF OneInv

\* handler.rs, router.rs: if the sender and the admins use one connection each and nothing
\* fails then, for any number of members and requests, whoever applies the events in order
\* shows what is stored once no request is in progress, and a member is notified of a
\* mention again only after an edit without it.
THEOREM EventsStayRight == MCSpec => []EventsAreRightOnOneConnection
<1> DEFINE Inv == CallsType /\ RowsType /\ (scenario = "one" => OneInv)
<1>1. MCInit => Inv
  BY EditTypeInit, OneInit DEF MCInit
<1>2. Inv /\ [MCNext]_<<vars, scenario>> => Inv'
  <2> SUFFICES ASSUME Inv, [MCNext]_<<vars, scenario>> PROVE Inv'
    OBVIOUS
  <2>1. [Next]_vars /\ scenario' = scenario
    BY StoreFailsSteps, CalmSteps DEF MCNext
  <2>2. CallsType' /\ RowsType'
    BY <2>1, EditTypeStep
  <2>3. ASSUME scenario = "one" PROVE OneInv'
    <3>1. (OneConnection /\ ((\E k \in Conn : Quietly(k)) \/ Ages)) \/ UNCHANGED vars
      BY <2>3, CalmSteps DEF MCNext
    <3> QED BY <2>3, <3>1, OneStep, OneStutter DEF vars
  <2> QED BY <2>1, <2>2, <2>3
<1>3. Inv => EventsAreRightOnOneConnection
  <2> SUFFICES ASSUME Inv, scenario = "one" PROVE EventsConverge /\ MentionIsNews
    BY DEF EventsAreRightOnOneConnection, EventsConvergeOnOneConnection, MentionIsNewsOnOneConnection
  <2> QED BY DEF EventsConverge, OneInv, ShowsInv, Routing, Settled
<1> QED BY <1>1, <1>2, <1>3, PTL DEF MCSpec
=============================================================================
