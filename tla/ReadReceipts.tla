---------------------------- MODULE ReadReceipts ----------------------------
(***************************************************************************)
(* What a user has read: the receipt rows in PostgreSQL and the unread     *)
(* counters in Redis, while messages arrive and the user's devices mark    *)
(* conversations as read.  One user; every statement and every Redis       *)
(* pipeline is a step.                                                     *)
(***************************************************************************)
EXTENDS Integers, FiniteSets, FiniteSetsExt

CONSTANTS
    Chats,      \* conversations of the user
    Marks,      \* mark_read calls
    Incoming,   \* increment_unread calls
    Trouble     \* what may go wrong: "sql", "redis", "expiry"

VARIABLES
    count,          \* [Chats -> chat:unread:<user>:<conversation>, 0 without the key]
    total,          \* chat:unread:total:<user>, 0 without the key
    receipt,        \* [Chats -> last_read_at in read_receipts]
    participant,    \* [Chats -> last_read_at in conversation_participants]
    announced,      \* [Chats -> last_read_at of the ReadReceipt events sent so far]
    clock,          \* number of calls begun: read_at is the order of beginnings
    mark,           \* [Marks -> pc, chat, read_at, the count it read]
    ttl,            \* when the keys expire: their last EXPIRE, by its number among all; 0 for a key that never does
    arriving,       \* [Incoming -> pc, the chat of the message]
    doubled,        \* history: two resets of one conversation were open together
    slipped,        \* history: a message was counted between GET and DEL
    lapsed,         \* history: a counter expired
    curtailed,      \* history: the total expired while a counter was left, or a reset open
    sync            \* get_unread_sync: pc, what it read; the counts there were since its scan began

readVars == <<count, total, receipt, participant, announced, clock, mark, ttl, arriving,
              doubled, slipped, lapsed, curtailed, sync>>
redisVars == <<count, total, ttl, doubled, slipped, lapsed, curtailed>>
rowVars == <<receipt, participant, announced, clock>>

TypeOK ==
    /\ count \in [Chats -> Nat] /\ total \in Int
    /\ {receipt, participant} \subseteq [Chats -> 0..clock]
    /\ announced \in [Chats -> SUBSET (1..clock)]
    /\ \A c \in Marks : mark[c].pc # "idle" =>
          mark[c].chat \in Chats /\ mark[c].read_at \in 1..clock /\ mark[c].seen \in Nat
    /\ ttl \in [count : [Chats -> Nat], total : Nat, made : Nat]
    /\ arriving \in [Incoming -> [pc : {"idle", "done"}] \cup [pc : {"counted"}, chat : Chats]]
    /\ {doubled, slipped, lapsed, curtailed} \subseteq BOOLEAN
    /\ sync.pc \in {"idle", "total", "scan", "mget", "done", "failed"}
    /\ sync.total \in Nat /\ sync.keys \subseteq Chats /\ sync.had \in [Chats -> SUBSET Nat]

Init ==
    /\ count = [k \in Chats |-> 0] /\ total = 0
    /\ receipt = [k \in Chats |-> 0] /\ participant = receipt
    /\ announced = [k \in Chats |-> {}]
    /\ clock = 0
    /\ mark = [c \in Marks |-> [pc |-> "idle"]]
    /\ ttl = [count |-> count, total |-> 0, made |-> 0]
    /\ arriving = [i \in Incoming |-> [pc |-> "idle"]]
    /\ doubled = FALSE /\ slipped = FALSE /\ lapsed = FALSE /\ curtailed = FALSE
    /\ sync = [pc |-> "idle", total |-> 0, keys |-> {}, counts |-> [k \in {} |-> 0],
               had |-> [k \in Chats |-> {}]]

--------------------------------------------------------------------------
(* increment_unread *)

\* Calls between the GET of a count and its deletion.
Resetting(k) == {c \in Marks : mark[c].pc = "delete" /\ mark[c].chat = k}

Increment(i, k) ==
    /\ arriving[i].pc = "idle"
    /\ count' = [count EXCEPT ![k] = @ + 1]
    /\ total' = total + 1
    /\ slipped' = (slipped \/ Resetting(k) # {})
    /\ arriving' = [arriving EXCEPT ![i] = [pc |-> "counted", chat |-> k]]
    /\ UNCHANGED <<rowVars, mark, ttl, doubled, lapsed, curtailed>>

\* EXPIRE of both keys, 30 days from now, two commands in one pipeline: the caller
\* ignores that it failed, and each key that was not reached keeps what it had.
\* An EXPIRE of a key that is gone by now does nothing.
ExtendExpiry(i) ==
    LET k == arriving[i].chat
        n == ttl.made + 1 IN
    /\ arriving[i].pc = "counted"
    /\ \E reached \in {{"count", "total"}} \cup (IF "redis" \in Trouble THEN {{}, {"count"}} ELSE {}) :
          ttl' = [count |-> IF "count" \in reached /\ count[k] > 0 THEN [ttl.count EXCEPT ![k] = n] ELSE ttl.count,
                  total |-> IF "total" \in reached /\ total # 0 THEN n ELSE ttl.total,
                  made  |-> n]
    /\ arriving' = [arriving EXCEPT ![i] = [pc |-> "done"]]
    /\ UNCHANGED <<count, total, doubled, slipped, lapsed, curtailed, rowVars, mark>>

\* All keys live equally long after their EXPIRE, so the first extended goes first.
CountExpires(k) ==
    /\ "expiry" \in Trouble /\ ttl.count[k] # 0
    /\ \A n \in {ttl.total} \cup {ttl.count[l] : l \in Chats} : n = 0 \/ ttl.count[k] <= n
    /\ count' = [count EXCEPT ![k] = 0]
    /\ ttl' = [ttl EXCEPT !.count[k] = 0]
    /\ lapsed' = TRUE
    /\ UNCHANGED <<total, rowVars, mark, arriving, doubled, slipped, curtailed>>

\* The total is extended after the count of the same message.  With nothing
\* left that it should cover, its expiry ends every disagreement.
TotalExpires ==
    LET clean == \A k \in Chats : count[k] = 0 /\ Resetting(k) = {} IN
    /\ "expiry" \in Trouble /\ ttl.total # 0
    /\ \A k \in Chats : ttl.count[k] = 0 \/ ttl.total < ttl.count[k]
    /\ total' = 0
    /\ ttl' = [ttl EXCEPT !.total = 0]
    /\ curtailed' = ~clean
    /\ doubled' = (doubled /\ ~clean) /\ slipped' = (slipped /\ ~clean) /\ lapsed' = (lapsed /\ ~clean)
    /\ UNCHANGED <<count, rowVars, mark, arriving>>

--------------------------------------------------------------------------
(* mark_read *)

To(c, s) == mark' = [mark EXCEPT ![c].pc = s]

Begin(c, k) ==
    /\ mark[c].pc = "idle"
    /\ clock' = clock + 1
    /\ mark' = [mark EXCEPT ![c] = [pc |-> "upsert", chat |-> k, read_at |-> clock + 1, seen |-> 0]]
    /\ UNCHANGED <<redisVars, receipt, participant, announced, arriving>>

\* DO UPDATE ... WHERE last_read_at < $4
\* Mutant: the last writer wins.
UpsertReceipt_LastWins(c) ==
    /\ mark[c].pc = "upsert"
    /\ receipt' = [receipt EXCEPT ![mark[c].chat] = mark[c].read_at]
    /\ To(c, "update")
    /\ UNCHANGED <<redisVars, participant, announced, clock, arriving>>
UpsertReceipt(c) ==
    /\ mark[c].pc = "upsert"
    /\ receipt' = [receipt EXCEPT ![mark[c].chat] = Max({@, mark[c].read_at})]
    /\ To(c, "update")
    /\ UNCHANGED <<redisVars, participant, announced, clock, arriving>>

\* The row of the participant takes whatever comes.
UpdateParticipant(c) ==
    /\ mark[c].pc = "update"
    /\ participant' = [participant EXCEPT ![mark[c].chat] = mark[c].read_at]
    /\ To(c, "get")
    /\ UNCHANGED <<redisVars, receipt, announced, clock, arriving>>

StatementFails(c) ==
    /\ "sql" \in Trouble /\ mark[c].pc \in {"upsert", "update"}
    /\ To(c, "failed")
    /\ UNCHANGED <<redisVars, rowVars, arriving>>

\* reset_unread: GET, and nothing to do for a count of zero or an error.
GetCount(c) ==
    LET k == mark[c].chat IN
    /\ mark[c].pc = "get"
    /\ \E n \in {count[k]} \cup (IF "redis" \in Trouble THEN {0} ELSE {}) :
          mark' = [mark EXCEPT ![c].seen = n, ![c].pc = IF n > 0 THEN "delete" ELSE "send"]
    /\ doubled' = (doubled \/ (count[k] > 0 /\ Resetting(k) # {}))
    /\ UNCHANGED <<count, total, ttl, slipped, lapsed, curtailed, rowVars, arriving>>

\* MULTI DEL, DECRBY of the count that was read.
\* Mutant: the count stays.
DeleteCount_Keeps(c) ==
    /\ mark[c].pc = "delete"
    /\ total' = total - mark[c].seen
    /\ To(c, "send")
    /\ UNCHANGED <<count, ttl, doubled, slipped, lapsed, curtailed, rowVars, arriving>>
DeleteCount(c) ==
    /\ mark[c].pc = "delete"
    /\ count' = [count EXCEPT ![mark[c].chat] = 0]
    /\ total' = total - mark[c].seen
    /\ ttl' = [ttl EXCEPT !.count[mark[c].chat] = 0]
    /\ To(c, "send")
    /\ UNCHANGED <<doubled, slipped, lapsed, curtailed, rowVars, arriving>>

\* mark_read takes a failed reset for a count of zero.
DeleteFails(c) ==
    /\ "redis" \in Trouble /\ mark[c].pc = "delete"
    /\ To(c, "send")
    /\ UNCHANGED <<redisVars, rowVars, arriving>>

\* The socket handler tells the other participants, the REST handler does not.
Announce(c) ==
    LET k == mark[c].chat IN
    /\ mark[c].pc = "send"
    /\ announced' \in {announced, [announced EXCEPT ![k] = @ \cup {mark[c].read_at}]}
    /\ To(c, "done")
    /\ UNCHANGED <<redisVars, receipt, participant, clock, arriving>>

MarkRead(c) ==
    \/ \E k \in Chats : Begin(c, k)
    \/ UpsertReceipt(c) \/ UpdateParticipant(c) \/ StatementFails(c)
    \/ GetCount(c) \/ DeleteCount(c) \/ DeleteFails(c) \/ Announce(c)

--------------------------------------------------------------------------
(* get_unread_sync, once: the total, the keys of a SCAN, their values,     *)
(* three commands that messages and marks come between.                    *)

\* get_total_unread: a negative number is no u64 and reads as 0, as an error does.
GetTotal == Max({total, 0})

ReadTotal ==
    /\ sync.pc = "idle"
    /\ \E n \in {GetTotal} \cup (IF "redis" \in Trouble THEN {0} ELSE {}) :
          sync' = [sync EXCEPT !.pc = "total", !.total = n]

BeginScan ==
    /\ sync.pc = "total"
    /\ sync' = [sync EXCEPT !.pc = "scan", !.had = [k \in Chats |-> {count[k]}]]

\* A SCAN returns each key that was there all the time and none that never was.
EndScan ==
    /\ sync.pc = "scan"
    /\ \E keys \in SUBSET Chats :
          /\ {k \in Chats : 0 \notin sync.had[k]} \subseteq keys
          /\ \A k \in keys : sync.had[k] # {0}
          /\ sync' = [sync EXCEPT !.pc = "mget", !.keys = keys]

\* Keys that are gone by now have no value.
\* Mutant: the values are taken for the conversations in another order.
ReadCounts_OutOfOrder ==
    /\ sync.pc = "mget"
    /\ \E order \in [sync.keys -> sync.keys] :
          sync' = [sync EXCEPT !.pc = "done",
              !.counts = [k \in {k \in sync.keys : count[order[k]] > 0} |-> count[order[k]]]]
ReadCounts ==
    /\ sync.pc = "mget"
    /\ sync' = [sync EXCEPT !.pc = "done", !.counts = [k \in {k \in sync.keys : count[k] > 0} |-> count[k]]]

SyncFails ==
    /\ "redis" \in Trouble /\ sync.pc \in {"scan", "mget"}
    /\ sync' = [sync EXCEPT !.pc = "failed"]

SyncUnread ==
    /\ ReadTotal \/ BeginScan \/ EndScan \/ ReadCounts \/ SyncFails
    /\ UNCHANGED <<redisVars, rowVars, mark, arriving>>

\* What a step does to the counts is remembered while a sync reads them.
Watched ==
    sync' = IF sync.pc \in {"scan", "mget"}
            THEN [sync EXCEPT !.had = [k \in Chats |-> @[k] \cup {count'[k]}]] ELSE sync

Arrival(i) == (\E k \in Chats : Increment(i, k)) \/ ExtendExpiry(i)

\* Messages come, keys expire and the calls in M mark.
Reading(M) ==
    /\ \/ \E i \in Incoming : Arrival(i)
       \/ \E k \in Chats : CountExpires(k)
       \/ TotalExpires
       \/ \E c \in M : MarkRead(c)
    /\ Watched

Next == Reading(Marks) \/ SyncUnread

Spec == Init /\ [][Next]_readVars

--------------------------------------------------------------------------
\* tracker.rs: the receipt is never older than what the participant's row says,
\* what the other participants were told or what a finished call marked, in
\* whatever order the statements of the devices run and fail.
ReceiptLeads ==
    /\ \A k \in Chats : \A t \in announced[k] \cup {participant[k]} : t <= receipt[k]
    /\ \A c \in Marks : mark[c].pc \in {"update", "get", "delete", "send", "done"} =>
          mark[c].read_at <= receipt[mark[c].chat]

\* get_all_unread_counts: the keys a SCAN finds and their values.
GetAllCounts == [k \in {k \in Chats : count[k] > 0} |-> count[k]]

\* The messages that are counted, numbered in their conversations.
Unread == UNION {{k} \X (1..GetAllCounts[k]) : k \in DOMAIN GetAllCounts}

\* cache.rs: the total that sync_to_client answers covers the counts beside it,
\* unless two resets of a conversation overlap or the total has expired before
\* what it covers; and it is their sum if nothing was counted inside a reset and
\* no counter has expired.  What went wrong counts until the total expires with
\* nothing left to cover.
UnreadAddsUp ==
    ~doubled /\ ~curtailed =>
        /\ GetTotal >= Cardinality(Unread)
        /\ ~slipped /\ ~lapsed => GetTotal = Cardinality(Unread)

\* cache.rs: a count that a sync answers, or 0 for a conversation it leaves out,
\* is one the conversation had since the scan began: no unread message that was
\* there all the time is missed, whatever arrives and is read meanwhile.
SyncIsFresh ==
    sync.pc = "done" => \A k \in Chats :
        (IF k \in DOMAIN sync.counts THEN sync.counts[k] ELSE 0) \in sync.had[k]

\* tracker.rs, cache.rs: what the devices of a user read adds up.
ReadingAddsUp == ReceiptLeads /\ UnreadAddsUp /\ SyncIsFresh

\* Refuted: a failed EXPIRE lets the total expire before a counter.
UnreadIsCovered == ~doubled => GetTotal >= Cardinality(Unread)

\* Refuted: the total is read before the counts beside it.
SyncAddsUp ==
    sync.pc = "done" /\ ~doubled =>
        sync.total >= MapThenSumSet(LAMBDA k : sync.counts[k], DOMAIN sync.counts)

\* Refuted: the participant's row may end older than the receipt.
RowsAgreeAtRest ==
    (\A c \in Marks : mark[c].pc \in {"idle", "done"}) => participant = receipt
=============================================================================
