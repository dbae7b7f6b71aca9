------------------------------ MODULE Listing ------------------------------
(***************************************************************************)
(* Reading lists in pages while rows are written: the history of a         *)
(* conversation, a user's conversations, the participants, the replies of  *)
(* a thread and the results of a search.                                   *)
(*                                                                         *)
(* A row is its sort key, a time in microseconds; the owner, whose role    *)
(* comes before any time, has 0.  One client reads one list from its       *)
(* start, passing on the cursor or offset of the last page.                *)
(***************************************************************************)
EXTENDS Integers, FiniteSets

CONSTANTS
    Rows,           \* messages, conversations or participants
    Owner,          \* the participant with the role of the owner
    Lists,          \* the lists that are read, a subset of Kinds
    Limit,          \* the page size
    MicrosPerMilli, \* clock ticks in a millisecond
    Lag,            \* ticks by which a commit may come after the row's time
    MaxTime,        \* bound of the clock
    MaxChanges,     \* bound of the writes during a pass
    None

VARIABLES
    key,        \* [Rows -> created_at, updated_at or joined_at, None without a row]
    recalled,   \* rows with deleted_at
    now,        \* the clock
    pass,       \* the reading: kind, pc, cursor, offset, shown, again, total
    touched,    \* history: rows written since the pass began, or that shared their
                \* place with one that was
    came,       \* history: participants in front of whom one has come meanwhile
    went,       \* history: participants in front of whom one has gone meanwhile
    written     \* number of those writes

listVars == <<key, recalled, now, pass, touched, came, went, written>>

Kinds == {"history", "conversations", "participants", "thread", "search", "searchAll"}
Times == 0..MaxTime
Millis(t) == t \div MicrosPerMilli
Stored == {r \in Rows : key[r] # None}

TypeOK ==
    /\ key \in [Rows -> Times \cup {None}]
    /\ recalled \subseteq Rows
    /\ now \in Times
    /\ pass.kind \in Lists /\ pass.shown \subseteq Rows /\ pass.again \subseteq pass.shown
    /\ {pass.total, pass.offset} \subseteq Nat /\ pass.cursor \in Times \cup {None}
    /\ touched \cup came \cup went \subseteq Rows /\ written \in 0..MaxChanges

\* Some rows and a pass that is about to begin; a search counts last.
Init ==
    /\ now = MaxTime - 1
    /\ key \in [Rows -> 0..now \cup {None}]
    /\ recalled \in {{}} \cup {{r} : r \in Stored}
    /\ pass \in {[kind |-> k, pc |-> IF k \in {"participants", "thread"} THEN "count" ELSE "read",
                  cursor |-> None, offset |-> 0, shown |-> {}, again |-> {}, total |-> 0]
                 : k \in Lists}
    /\ pass.kind \in {"conversations", "participants"} => recalled = {}
    /\ pass.kind = "participants" => \A r \in Stored : key[r] = 0 <=> r = Owner
    /\ touched = {} /\ came = {} /\ went = {} /\ written = 0

--------------------------------------------------------------------------
(* What others write meanwhile *)

\* Where a row is in the order; conversations are told apart by milliseconds.
Place(r) == IF pass.kind = "conversations" THEN Millis(key[r]) ELSE key[r]
Sharing(r) == {q \in Stored \ {r} : key[r] # None /\ Place(q) = Place(r)}

\* After the pass nothing is looked at.
Tick ==
    /\ now < MaxTime /\ pass.pc # "end"
    /\ now' = now + 1
    /\ UNCHANGED <<key, recalled, pass, touched, came, went, written>>

Writes(r) ==
    /\ written < MaxChanges /\ pass.pc # "end"
    /\ written' = written + 1
    /\ touched' = touched \cup {r} \cup Sharing(r)
    /\ UNCHANGED <<now, pass>>

\* The times a statement that commits now may have been given.
Stamps == {t \in Times : now - Lag <= t /\ t <= now}

\* An offset counts rows: one that comes or goes moves all that are behind it.
Behind(t) == IF pass.kind = "participants" THEN {q \in Stored : key[q] > t} ELSE {}

\* A message is inserted, a conversation created or joined, a participant added;
\* an owner who comes back is the first again.
Store(r) ==
    /\ key[r] = None
    /\ \E t \in (IF pass.kind = "participants" /\ r = Owner THEN {0} ELSE Stamps) :
          key' = [key EXCEPT ![r] = t] /\ came' = came \cup Behind(t)
    /\ Writes(r) /\ UNCHANGED <<recalled, went>>

\* A participant is removed, or with the account erased, as messages may be.
Remove(r) ==
    /\ key[r] # None
    /\ key' = [key EXCEPT ![r] = None] /\ went' = went \cup Behind(key[r])
    /\ recalled' = recalled \ {r}
    /\ Writes(r) /\ UNCHANGED came

\* A message moves its conversation to the top, when it is stored and again
\* when it has been routed.
UpdateLastMessage(r) ==
    /\ pass.kind = "conversations" /\ key[r] # None
    /\ \E t \in Stamps : key' = [key EXCEPT ![r] = t]
    /\ Writes(r) /\ UNCHANGED <<recalled, came, went>>

\* A recalled message keeps its row.
Recall(r) ==
    /\ pass.kind \in {"history", "thread", "search", "searchAll"}
    /\ key[r] # None /\ r \notin recalled
    /\ recalled' = recalled \cup {r}
    /\ Writes(r) /\ UNCHANGED <<key, came, went>>

--------------------------------------------------------------------------
(* The queries and their handlers *)

\* history and conversations: key < cursor; a conversation's cursor has lost
\* its microseconds.
\* Mutant: rows at the cursor come again.
Below_Inclusive(r) == pass.cursor = None \/ key[r] <= pass.cursor
Below(r) == pass.cursor = None \/ key[r] < pass.cursor

History == {r \in Stored : Below(r)}
UserConversations == {r \in Stored : Below(r)}
Participants == Stored
Replies == Stored
Found == Stored \ recalled

Matching ==
    CASE pass.kind = "history" -> History
      [] pass.kind = "conversations" -> UserConversations
      [] pass.kind = "participants" -> Participants
      [] pass.kind = "thread" -> Replies
      [] OTHER -> Found

\* ORDER BY: newest first, a thread and the participants oldest first, a search
\* over all conversations in the order of random ids.  Equal keys come in any
\* order, which an update of a row changes.
Earlier(p, q) ==
    CASE pass.kind \in {"thread", "participants"} -> key[p] < key[q]
      [] pass.kind = "searchAll" -> FALSE
      [] OTHER -> key[p] > key[q]

Least(a, b) == IF a < b THEN a ELSE b

\* The sets that the first n of `from` can be.
Firsts(n, from) ==
    {P \in SUBSET from : /\ Cardinality(P) = Least(n, Cardinality(from))
                         /\ \A p \in P, q \in from \ P : ~Earlier(q, p)}

Skipped == IF pass.kind = "participants" THEN pass.offset ELSE 0

Pages == UNION {Firsts(Limit, Matching \ Q) : Q \in Firsts(Skipped, Matching)}

\* The client goes on from the last row: by its id, or by its time in
\* milliseconds.
NextCursor(P) ==
    LET last == CHOOSE t \in {key[r] : r \in P} : \A r \in P : t <= key[r] IN
    IF P = {} THEN pass.cursor
    ELSE IF pass.kind = "conversations" THEN Millis(last) * MicrosPerMilli
    ELSE last

\* LIMIT + 1 rows tell whether there are more; participants compare the total.
HasMore ==
    IF pass.kind = "participants" THEN Skipped + Limit < pass.total
    ELSE Cardinality(Matching) > Limit

Fetch(P, then) ==
    /\ pass' = [pass EXCEPT !.shown = @ \cup P, !.again = @ \cup (pass.shown \cap P),
          !.cursor = NextCursor(P), !.offset = Skipped + Limit, !.pc = then]
    /\ UNCHANGED <<key, recalled, now, touched, came, went, written>>

FetchHistory(P) ==
    pass.kind = "history" /\ Fetch(P, IF HasMore THEN "read" ELSE "end")
FetchConversations(P) ==
    pass.kind = "conversations" /\ Fetch(P, IF HasMore THEN "read" ELSE "end")
FetchParticipants(P) ==
    pass.kind = "participants" /\ Fetch(P, IF HasMore THEN "count" ELSE "end")
\* A thread has a first page only: the endpoint passes no cursor.
GetThread(P) == pass.kind = "thread" /\ Fetch(P, "end")
SearchMessages(P) == pass.kind \in {"search", "searchAll"} /\ Fetch(P, "count")

\* COUNT(*) is a statement of its own: before the page of participants and
\* replies, after the one of a search.
CountRows ==
    /\ pass.pc = "count"
    /\ pass' = [pass EXCEPT
          !.total = Cardinality(IF pass.kind = "participants" THEN Stored ELSE Stored \ recalled),
          !.pc = IF pass.kind \in {"participants", "thread"} THEN "read" ELSE "end"]
    /\ UNCHANGED <<key, recalled, now, touched, came, went, written>>

\* get_reply_count of a thread: an error counts as none.
CountFails ==
    /\ pass.pc = "count" /\ pass.kind = "thread"
    /\ pass' = [pass EXCEPT !.pc = "read"]
    /\ touched' = Rows
    /\ UNCHANGED <<key, recalled, now, came, went, written>>

Next ==
    \/ Tick
    \/ \E r \in Rows : Store(r) \/ Remove(r) \/ UpdateLastMessage(r) \/ Recall(r)
    \/ pass.pc = "read" /\ \E P \in Pages :
          \/ FetchHistory(P) \/ FetchConversations(P) \/ FetchParticipants(P)
          \/ GetThread(P) \/ SearchMessages(P)
    \/ CountRows \/ CountFails

Spec == Init /\ [][Next]_listVars

--------------------------------------------------------------------------
(* What a pass promises *)

\* Rows that stand still and alone.
Standing == {r \in Stored \ touched : Sharing(r) = {}}

\* Lists that are read to their end.
ReadOn == pass.kind \in {"history", "conversations", "participants"}

\* storage.rs get_history, service.rs get_user_conversations and
\* get_participants_paginated: a pass to the end shows every row that stands
\* still and alone exactly once, whatever else is written in the meantime.  With
\* an offset it is shown twice only if one came in front of it, and missed only
\* if one came or went there.
PagesAreComplete ==
    ReadOn =>
        /\ pass.again \cap Standing \subseteq came
        /\ pass.pc = "end" => Standing \subseteq pass.shown \cup came \cup went

\* storage.rs search_messages, rest.rs get_thread: if nothing is written
\* meanwhile, the total counts what is not recalled, and a search shows as many
\* of those as fit.
TotalAgrees ==
    ~ReadOn /\ pass.pc = "end" /\ touched = {} =>
        /\ pass.total = Cardinality(Stored \ recalled)
        /\ pass.kind # "thread" => Cardinality(pass.shown) = Least(Limit, pass.total)

\* Both, for the client of any list.
ListsAreFaithful == PagesAreComplete /\ TotalAgrees

\* A search shows the newest; refuted over all conversations, which DISTINCT ON
\* sorts by id before LIMIT.
SearchShowsNewest ==
    pass.kind \in {"search", "searchAll"} /\ pass.pc = "end" /\ touched = {} =>
        \A r \in pass.shown, q \in (Stored \ recalled) \ pass.shown : key[q] <= key[r]

\* Refuted: the offset knows nothing of those who come and go in front of a row.
OffsetIsComplete ==
    ReadOn =>
        /\ pass.again \cap Standing = {}
        /\ pass.pc = "end" => Standing \subseteq pass.shown

\* Refuted: rows of one place at the end of a page are skipped by the next.
NothingIsSkipped == ReadOn /\ pass.pc = "end" => Stored \ touched \subseteq pass.shown

\* Refuted: the replies of a thread include recalled ones, the total does not.
ThreadTotalCovers ==
    pass.kind = "thread" /\ pass.pc = "end" /\ touched = {} =>
        Cardinality(pass.shown) <= pass.total
=============================================================================
