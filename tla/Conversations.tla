--------------------------- MODULE Conversations ---------------------------
(***************************************************************************)
(* The rows of conversations: creating them, the lookup table that is to   *)
(* give a pair of users one direct conversation, members and mutes, and    *)
(* what the erasure of an account does to them.                            *)
(*                                                                         *)
(* The statements of a transaction are steps of their own; what it wrote   *)
(* becomes visible when it commits (PostgreSQL, READ COMMITTED).  A        *)
(* conversation is named after the call that created it.                   *)
(***************************************************************************)
EXTENDS Integers, FiniteSets

CONSTANTS
    Users,              \* user ids
    Creates,            \* calls of create_conversation
    Changes,            \* calls that change members and mutes
    Erased,             \* users whose account is erased, each once
    Requests,           \* what a call may ask for: [by, others, kind]
    MaxParticipants,    \* limits::MAX_PARTICIPANTS_PER_CONVERSATION
    None                \* no row, no answer

VARIABLES
    conversations,  \* [Creates -> row of the table conversations, or None]
    participants,   \* [Creates -> [Users -> row of conversation_participants, or None]]
    lookup,         \* direct_message_lookup: [pair -> conversation, or None]
    create,         \* [Creates -> the call: pc, request, answer, what it found, whether it inserts the entry;
                    \*     history: answered before it began, entry of its pair deleted since]
    change,         \* [Changes -> the call: pc, what it does, the count it read]
    erase,          \* [Erased -> the call: pc, the conversations it leaves, the entries it deletes]
    raced,          \* history: two changes of members were open together, or an erasure beside a counted one
    uncounted       \* history: [Creates -> who left by an erasure since the members were counted]

convVars == <<conversations, participants, lookup, create, change, erase, raced, uncounted>>

Pairs == {p \in SUBSET Users : Cardinality(p) = 2}
Idle == [pc |-> "idle"]

\* The creator is appended after the number was checked.
All(r) == r.others \cup {r.by}

IsDirect(r) == r.kind = "direct" /\ Cardinality(All(r)) = 2

\* find_direct_conversation and the insert use the hash of the sorted pair.
\* Mutant: the key depends on who asks.
PairKey_Unsorted(r) == {r.by}
PairKey(r) == All(r)

Present(c) == {u \in Users : participants[c][u] # None /\ participants[c][u].here}

TypeOK ==
    /\ DOMAIN conversations = Creates
    /\ \A c \in Creates : conversations[c] # None =>
          conversations[c].kind \in {"direct", "group"} /\ conversations[c].count \in Nat
    /\ participants \in [Creates -> [Users ->
          [role : {"owner", "member"}, here : BOOLEAN, muted : BOOLEAN] \cup {None}]]
    /\ \A p \in DOMAIN lookup : p \subseteq Users /\ lookup[p] \in Creates \cup {None}
    /\ \A u \in Erased : erase[u].pc # "idle" =>
          erase[u].rows \subseteq Creates /\ erase[u].pairs \subseteq DOMAIN lookup
    /\ raced \in BOOLEAN /\ uncounted \in [Creates -> SUBSET Users]

Init ==
    /\ conversations = [c \in Creates |-> None]
    /\ participants = [c \in Creates |-> [u \in Users |-> None]]
    /\ lookup = [p \in SUBSET Users |-> None]
    /\ create = [c \in Creates |-> Idle]
    /\ change = [k \in Changes |-> Idle]
    /\ erase = [u \in Erased |-> Idle]
    /\ raced = FALSE /\ uncounted = [c \in Creates |-> {}]

--------------------------------------------------------------------------
(* create_conversation *)

At(c, s) == create[c].pc = s
Goto(c, s) == create' = [create EXCEPT ![c].pc = s]
Finish(c, a) == create' = [create EXCEPT ![c].pc = "done", ![c].answer = a]
SameKey(c, d) == PairKey(create[c].request) = PairKey(create[d].request)
OtherRows == UNCHANGED <<conversations, participants, lookup, change, erase, raced, uncounted>>

\* The handlers check the number as it was sent.
TooMany(r) == Cardinality(r.others) > MaxParticipants

Begin(c, r) ==
    /\ At(c, "idle")
    /\ create' = [create EXCEPT ![c] =
          [pc |-> IF TooMany(r) THEN "done"
                  ELSE IF IsDirect(r) THEN "find" ELSE "insert",
           request |-> r, answer |-> None, found |-> None, own |-> FALSE, unlinked |-> FALSE,
           known |-> {d \in Creates : At(d, "done") /\ create[d].answer # None /\ ~create[d].unlinked
                                      /\ IsDirect(create[d].request) /\ IsDirect(r)
                                      /\ All(create[d].request) = All(r)}]]
    /\ OtherRows

FindDirect(c) ==
    LET id == lookup[PairKey(create[c].request)] IN
    /\ At(c, "find")
    /\ create' = [create EXCEPT ![c].pc = IF id # None THEN "get" ELSE "insert", ![c].found = id]
    /\ OtherRows

\* get_conversation of the conversation that was found; NotFound is an error.
GetExisting(c) ==
    LET id == create[c].found IN
    /\ At(c, "get")
    /\ Finish(c, IF conversations[id] = None THEN None ELSE id)
    /\ OtherRows

\* BEGIN, the conversation and its participants: nobody else sees them yet.
InsertRows(c) ==
    /\ At(c, "insert")
    /\ Goto(c, IF IsDirect(create[c].request) THEN "register" ELSE "commit")
    /\ OtherRows

\* Row locks of the erasures that are open.
Erasing(u) == u \in Erased /\ erase[u].pc \in {"lookups", "commit"}
HeldRow(c, u) == Erasing(u) /\ c \in erase[u].rows
HeldPair(p) == \E u \in Erased : Erasing(u) /\ p \in erase[u].pairs

\* INSERT ... ON CONFLICT DO NOTHING waits for an open transaction that has
\* inserted or deleted the same key.
\* Mutant: the row is inserted outside of the transaction.
RegisterDirect_Outside(c) ==
    LET key == PairKey(create[c].request) IN
    /\ At(c, "register")
    /\ lookup' = [lookup EXCEPT ![key] = IF @ = None THEN c ELSE @]
    /\ Goto(c, "commit")
    /\ UNCHANGED <<conversations, participants, change, erase, raced, uncounted>>
RegisterDirect(c) ==
    LET key == PairKey(create[c].request) IN
    /\ At(c, "register")
    /\ \A d \in Creates \ {c} : At(d, "commit") /\ create[d].own => ~SameKey(c, d)
    /\ ~HeldPair(key)
    /\ create' = [create EXCEPT ![c].pc = "commit", ![c].own = (lookup[key] = None)]
    /\ OtherRows

\* The call returns the row it inserted, also when the lookup names another.
Commit(c) ==
    LET r == create[c].request IN
    /\ At(c, "commit")
    /\ conversations' = [conversations EXCEPT ![c] =
          [kind |-> r.kind, count |-> Cardinality(All(r))]]
    /\ participants' = [participants EXCEPT ![c] = [u \in Users |->
          IF u \notin All(r) THEN None
          ELSE [role |-> IF u = r.by THEN "owner" ELSE "member", here |-> TRUE, muted |-> FALSE]]]
    /\ lookup' = IF create[c].own THEN [lookup EXCEPT ![PairKey(r)] = c] ELSE lookup
    /\ Finish(c, c)
    /\ UNCHANGED <<change, erase, raced, uncounted>>

\* A statement fails: the transaction, if there is one, is rolled back.
CreateFails(c) ==
    /\ create[c].pc \notin {"idle", "done"}
    /\ Finish(c, None)
    /\ OtherRows

--------------------------------------------------------------------------
(* Members and mutes *)

Step(k, s) == change' = [change EXCEPT ![k].pc = s]
Doing(k, s, ops) == change[k].pc = s /\ change[k].op \in ops
InTransaction(k) == change[k].pc \in {"count", "commit"}
UnchangedRows == UNCHANGED <<conversations, participants, lookup, create, erase, uncounted>>

BeginChange(k, op, c, u, by) ==
    /\ change[k].pc = "idle"
    /\ conversations[c] # None
    /\ op \in {"mute", "unmute"} => u = by
    /\ change' = [change EXCEPT ![k] =
          [pc |-> "check", op |-> op, conv |-> c, user |-> u, by |-> by, count |-> 0]]
    /\ UnchangedRows /\ UNCHANGED raced

\* is_participant of the user who asks, else NotParticipant.
CheckAsker(k) ==
    /\ change[k].pc = "check"
    /\ Step(k, IF change[k].by \notin Present(change[k].conv) THEN "done"
               ELSE IF change[k].op = "add" THEN "look" ELSE "write")
    /\ UnchangedRows /\ UNCHANGED raced

\* add_participant has nothing to do for a participant.
CheckMember(k) ==
    /\ Doing(k, "look", {"add"})
    /\ Step(k, IF change[k].user \in Present(change[k].conv) THEN "done" ELSE "write")
    /\ UnchangedRows /\ UNCHANGED raced

\* The row of the user, in a transaction; waits for one that has written it.
WriteMember(k) ==
    LET open == {j \in Changes \ {k} : InTransaction(j) /\ change[j].conv = change[k].conv} IN
    /\ Doing(k, "write", {"add", "remove"})
    /\ \A j \in open : change[j].user # change[k].user
    /\ ~HeldRow(change[k].conv, change[k].user)
    /\ Step(k, "count")
    /\ raced' = (raced \/ open # {})
    /\ UnchangedRows

\* The members that the transaction sees: the committed ones and its own.
Seen(k) ==
    LET x == change[k] IN
    IF x.op = "add" THEN Present(x.conv) \cup {x.user} ELSE Present(x.conv) \ {x.user}

\* SET participant_count = (SELECT COUNT(*) ...): the snapshot is taken when
\* the statement begins, even if it waits for the row.
\* Mutant: those who left are counted.
CountMembers_WithLeft(k) ==
    /\ change[k].pc = "count"
    /\ change' = [change EXCEPT ![k].pc = "commit",
          ![k].count = Cardinality(Seen(k) \cup {u \in Users : participants[change[k].conv][u] # None})]
    /\ UnchangedRows /\ UNCHANGED raced
CountMembers(k) ==
    /\ change[k].pc = "count"
    /\ change' = [change EXCEPT ![k].pc = "commit", ![k].count = Cardinality(Seen(k))]
    /\ UnchangedRows /\ UNCHANGED raced

\* A user who comes back keeps the role and the mute of the old row.
CommitChange(k) ==
    LET x == change[k]
        row == participants[x.conv][x.user] IN
    /\ x.pc = "commit"
    /\ participants' = [participants EXCEPT ![x.conv][x.user] =
          IF row # None THEN [row EXCEPT !.here = (x.op = "add")]
          ELSE IF x.op = "add" THEN [role |-> "member", here |-> TRUE, muted |-> FALSE]
          ELSE None]
    /\ conversations' = [conversations EXCEPT ![x.conv].count = x.count]
    /\ uncounted' = [uncounted EXCEPT ![x.conv] = {}]
    /\ Step(k, "done")
    /\ UNCHANGED <<lookup, create, erase, raced>>

\* The flag is set also if the user has been removed since the check.
SetMuted(k, op, flag) ==
    /\ Doing(k, "write", {op}) /\ ~HeldRow(change[k].conv, change[k].user)
    /\ participants' = [participants EXCEPT ![change[k].conv][change[k].user].muted = flag]
    /\ Step(k, "done")
    /\ UNCHANGED <<conversations, lookup, create, erase, raced, uncounted>>
Mute(k) == SetMuted(k, "mute", TRUE)
Unmute(k) == SetMuted(k, "unmute", FALSE)

ChangeFails(k) ==
    /\ change[k].pc \notin {"idle", "done"}
    /\ Step(k, "done")
    /\ UnchangedRows /\ UNCHANGED raced

--------------------------------------------------------------------------
(* The erasure of an account, as far as it touches these tables: one       *)
(* transaction, whose statements see what is committed when they run.      *)

RestStays == UNCHANGED <<conversations, participants, lookup, create, change, raced, uncounted>>

\* leave_all_conversations; waits for the changes of these rows that are open.
LeaveAll(u) ==
    LET rows == {c \in Creates : u \in Present(c)} IN
    /\ erase[u].pc = "idle"
    /\ \A k \in Changes : InTransaction(k) /\ change[k].user = u => change[k].conv \notin rows
    /\ erase' = [erase EXCEPT ![u] = [pc |-> "lookups", rows |-> rows, pairs |-> {}]]
    /\ RestStays

\* Unless the options say that the entries stay.
DeleteLookups(u) ==
    /\ erase[u].pc = "lookups"
    /\ \E pairs \in {{}, {p \in DOMAIN lookup : u \in p /\ lookup[p] # None}} :
          /\ \A p \in pairs : ~HeldPair(p)
          /\ erase' = [erase EXCEPT ![u].pc = "commit", ![u].pairs = pairs]
    /\ RestStays

\* The user is gone from the conversations, whose counts nobody corrects.
CommitErasure(u) ==
    LET x == erase[u] IN
    /\ x.pc = "commit"
    /\ participants' = [c \in Creates |-> IF c \notin x.rows THEN participants[c]
                                          ELSE [participants[c] EXCEPT ![u].here = FALSE]]
    /\ lookup' = [p \in DOMAIN lookup |-> IF p \in x.pairs THEN None ELSE lookup[p]]
    /\ erase' = [erase EXCEPT ![u].pc = "done"]
    /\ create' = [c \in Creates |-> IF ~At(c, "idle") /\ All(create[c].request) \in x.pairs
                                    THEN [create[c] EXCEPT !.unlinked = TRUE] ELSE create[c]]
    /\ raced' = (raced \/ \E k \in Changes : change[k].pc = "commit" /\ change[k].conv \in x.rows)
    /\ uncounted' = [c \in Creates |-> IF c \in x.rows THEN uncounted[c] \cup {u} ELSE uncounted[c]]
    /\ UNCHANGED <<conversations, change>>

ErasureFails(u) ==
    /\ Erasing(u)
    /\ erase' = [erase EXCEPT ![u].pc = "done"]
    /\ RestStays

Erasure(u) == LeaveAll(u) \/ DeleteLookups(u) \/ CommitErasure(u) \/ ErasureFails(u)

--------------------------------------------------------------------------
Creation(c) ==
    \/ \E r \in Requests : Begin(c, r)
    \/ FindDirect(c) \/ GetExisting(c) \/ InsertRows(c) \/ RegisterDirect(c)
    \/ Commit(c) \/ CreateFails(c)

Membership(k) ==
    \/ \E op \in {"add", "remove", "mute", "unmute"}, c \in Creates, u, by \in Users :
          BeginChange(k, op, c, u, by)
    \/ CheckAsker(k) \/ CheckMember(k) \/ WriteMember(k) \/ CountMembers(k)
    \/ CommitChange(k) \/ Mute(k) \/ Unmute(k) \/ ChangeFails(k)

Next ==
    \/ \E c \in Creates : Creation(c)
    \/ \E k \in Changes : Membership(k)
    \/ \E u \in Erased : Erasure(u)

Spec == Init /\ [][Next]_convVars

--------------------------------------------------------------------------
(* What the rows promise *)

\* direct_lookup.rs: an entry names a stored conversation that has a row of
\* each of the two users, whichever creations and erasures race or fail.
LookupIsSound ==
    \A p \in DOMAIN lookup : lookup[p] # None =>
        /\ conversations[lookup[p]] # None
        /\ \A u \in p : participants[lookup[p]][u] # None

\* service.rs: the stored number of participants is the number of those who have
\* not left, with those whom an erasure has taken out since it was last counted;
\* unless two changes were open together, or an erasure commits between the
\* counting and the commit of a change.
CountIsRightInTurns ==
    ~raced => \A c \in Creates : conversations[c] # None =>
                 conversations[c].count = Cardinality(Present(c) \cup uncounted[c])

\* The columns that repeat what other rows say agree with them.
RowsAgree == LookupIsSound /\ CountIsRightInTurns

\* A call that begins when a direct conversation of its pair has been returned
\* answers with the one in the lookup table: later calls agree with each other.
\* Each deletion of the entry by an erasure begins anew.
LaterCallsAgree ==
    \A c \in Creates :
        At(c, "done") /\ create[c].answer # None /\ create[c].known # {} /\ ~create[c].unlinked =>
            create[c].answer = lookup[All(create[c].request)]

\* service.rs, direct_lookup.rs: tables and calls agree, whatever races or fails.
ConversationsAgree == RowsAgree /\ LaterCallsAgree

\* Refuted: an erasure lets the user leave and the count stand.
CountIsRightAfterErasures ==
    ~raced => \A c \in Creates : conversations[c] # None =>
                 conversations[c].count = Cardinality(Present(c))

\* The number of conversations of a pair that were returned; refuted, because
\* both of two racing calls insert one and return their own.
OneDirectConversation ==
    \A c, d \in Creates :
        /\ At(c, "done") /\ create[c].answer # None /\ IsDirect(create[c].request)
        /\ At(d, "done") /\ create[d].answer # None /\ IsDirect(create[d].request)
        /\ All(create[c].request) = All(create[d].request)
        => create[c].answer = create[d].answer
=============================================================================
