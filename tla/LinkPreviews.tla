---------------------------- MODULE LinkPreviews ----------------------------
(***************************************************************************)
(* Previews of the links in messages: the sender's request inserts a row   *)
(* per link, the processors of the servers fetch the pending rows in       *)
(* batches, store the outcome and announce the successes.  Every SQL       *)
(* statement, cache command and fetch is a step.                           *)
(***************************************************************************)
EXTENDS FiniteSets, Integers, Sequences

CONSTANTS
    Texts,          \* [messages -> the links of its text, in order]
    Refused,        \* links that is_valid_url refuses
    Overlong,       \* links whose page has a title that does not fit the column
    Processors,     \* servers running the link preview processor
    MaxUrls,        \* MAX_URLS_PER_MESSAGE
    MaxPending,     \* MAX_BATCH_SIZE
    MaxEnqueues,    \* bound: requests for one message, repeated ones included
    MaxRefreshes,   \* bound: refreshes
    MaxMishaps      \* bound: failures of PostgreSQL, Redis and servers

VARIABLES
    previews,   \* the rows: [<<message, link>> -> status]
    created,    \* [rows -> created_at], a number in the order of the inserts
    enqueue,    \* [messages -> places in the text of the links still to insert, requests so far]
    fetcher,    \* [Processors -> pc, rows of the batch, outcome at hand, successes to announce]
    cached,     \* links with a cache entry
    announced,  \* history: [Processors -> rows announced to the connections there]
    unheard,    \* history: successes whose announcement failed or died with the server
    refreshes, mishaps

previewVars == <<previews, created, enqueue, fetcher, cached, announced, unheard, refreshes, mishaps>>

Messages == DOMAIN Texts
Links == UNION {{Texts[m][i] : i \in DOMAIN Texts[m]} : m \in Messages}
Idle == [pc |-> "idle", batch |-> {}, outcome |-> "none", ready |-> [m \in Messages |-> {}]]

TypeOK ==
    /\ \A r \in DOMAIN previews : r \in Messages \X Links /\ previews[r] \in {"pending", "success", "failed"}
    /\ DOMAIN created = DOMAIN previews
    /\ cached \subseteq Links /\ unheard \subseteq Messages \X Links
    /\ \A p \in Processors : announced[p] \subseteq Messages \X Links
    /\ refreshes \in 0..MaxRefreshes /\ mishaps \in 0..MaxMishaps

Init ==
    /\ previews = [r \in {} |-> "pending"] /\ created = [r \in {} |-> 0]
    /\ enqueue = [m \in Messages |-> [left |-> {}, requests |-> 0]]
    /\ fetcher = [p \in Processors |-> Idle]
    /\ cached = {} /\ announced = [p \in Processors |-> {}] /\ unheard = {}
    /\ refreshes = 0 /\ mishaps = 0

Mishap == mishaps < MaxMishaps /\ mishaps' = mishaps + 1

--------------------------------------------------------------------------
(* The sender's request, and refresh *)

\* The first links that are valid, by their places.
ExtractUrls(text) ==
    {i \in DOMAIN text : text[i] \notin Refused /\ Cardinality({j \in 1..i : text[j] \notin Refused}) <= MaxUrls}

\* After the confirmation, of a repeated message too.
EnqueuePreviews(m) ==
    /\ enqueue[m].left = {} /\ enqueue[m].requests < MaxEnqueues
    /\ enqueue' = [enqueue EXCEPT ![m] = [left |-> ExtractUrls(Texts[m]), requests |-> @.requests + 1]]
    /\ UNCHANGED <<previews, created, fetcher, cached, announced, unheard, refreshes, mishaps>>

\* A failed insert drops the links after it.
InsertPreview(m) ==
    /\ \E i \in enqueue[m].left :
          LET row == <<m, Texts[m][i]>> IN
          /\ \A j \in enqueue[m].left : i <= j
          /\ \/ /\ IF row \in DOMAIN previews THEN UNCHANGED <<previews, created>>
                   ELSE /\ previews' = [r \in DOMAIN previews \cup {row} |-> IF r = row THEN "pending" ELSE previews[r]]
                        /\ created' = [r \in DOMAIN created \cup {row} |->
                                          IF r = row THEN Cardinality(DOMAIN created) ELSE created[r]]
                /\ enqueue' = [enqueue EXCEPT ![m].left = @ \ {i}]
                /\ UNCHANGED mishaps
             \/ /\ Mishap
                /\ enqueue' = [enqueue EXCEPT ![m].left = {}]
                /\ UNCHANGED <<previews, created>>
    /\ UNCHANGED <<fetcher, cached, announced, unheard, refreshes>>

\* Mutant: every preview of the message.
RefreshFailed_All(m) ==
    /\ refreshes < MaxRefreshes /\ \E r \in DOMAIN previews : r[1] = m
    /\ refreshes' = refreshes + 1
    /\ previews' = [r \in DOMAIN previews |-> IF r[1] = m THEN "pending" ELSE previews[r]]
    /\ UNCHANGED <<created, enqueue, fetcher, cached, announced, unheard, mishaps>>
RefreshFailed(m) ==
    /\ refreshes < MaxRefreshes /\ \E r \in DOMAIN previews : r[1] = m
    /\ refreshes' = refreshes + 1
    /\ previews' = [r \in DOMAIN previews |-> IF r[1] = m /\ previews[r] = "failed" THEN "pending" ELSE previews[r]]
    /\ UNCHANGED <<created, enqueue, fetcher, cached, announced, unheard, mishaps>>

--------------------------------------------------------------------------
(* run_link_preview_processor *)

requestVars == <<created, enqueue, refreshes>>
Outcome(p, o) == fetcher' = [fetcher EXCEPT ![p].pc = "update", ![p].outcome = o]

\* ORDER BY created_at LIMIT n
Oldest(n, rows) == {r \in rows : Cardinality({q \in rows : created[q] < created[r]}) < n}
Pending == {r \in DOMAIN previews : previews[r] = "pending"}
AtHand(p) == Oldest(1, fetcher[p].batch)

\* The oldest pending rows, which stay pending: another processor gets them too.
\* Mutant: one row less.
GetPending_OneLess(p) ==
    /\ fetcher[p].pc = "idle" /\ Pending # {}
    /\ fetcher' = [fetcher EXCEPT ![p].pc = "cache", ![p].batch = Oldest(MaxPending - 1, Pending)]
    /\ UNCHANGED <<requestVars, previews, cached, announced, unheard, mishaps>>
GetPending(p) ==
    /\ fetcher[p].pc = "idle" /\ Pending # {}
    /\ fetcher' = [fetcher EXCEPT ![p].pc = "cache", ![p].batch = Oldest(MaxPending, Pending)]
    /\ UNCHANGED <<requestVars, previews, cached, announced, unheard, mishaps>>

\* A cache that cannot be reached fails the preview.
GetCached(p) ==
    /\ fetcher[p].pc = "cache"
    /\ \/ /\ \E row \in AtHand(p) : row[2] \in cached
          /\ Outcome(p, "fetched") /\ UNCHANGED mishaps
       \/ /\ \E row \in AtHand(p) : row[2] \notin cached
          /\ fetcher' = [fetcher EXCEPT ![p].pc = "fetch"] /\ UNCHANGED mishaps
       \/ Mishap /\ Outcome(p, "broken")
    /\ UNCHANGED <<requestVars, previews, cached, announced, unheard>>

\* Within the timeout and of an acceptable size, or not.
FetchPage(p) ==
    /\ fetcher[p].pc = "fetch"
    /\ \/ fetcher' = [fetcher EXCEPT ![p].pc = "keep"]
       \/ Outcome(p, "broken")
    /\ UNCHANGED <<requestVars, previews, cached, announced, unheard, mishaps>>

\* A page that cannot be cached is a failed preview although it was fetched.
SetCached(p) ==
    /\ fetcher[p].pc = "keep"
    /\ \/ (\E row \in AtHand(p) : cached' = cached \cup {row[2]}) /\ Outcome(p, "fetched") /\ UNCHANGED mishaps
       \/ Mishap /\ Outcome(p, "broken") /\ UNCHANGED cached
    /\ UNCHANGED <<requestVars, previews, announced, unheard>>

NextOf(p, row, ready) ==
    [pc |-> IF fetcher[p].batch = {row} THEN "announce" ELSE "cache", batch |-> fetcher[p].batch \ {row},
     outcome |-> "none", ready |-> ready]

\* Whatever the row is by now.  An overlong title makes the statement fail, and
\* then the row stays as it is: it is fetched again in the next round.
\* Mutant: the message's earlier successes are replaced.
UpdatePreview_Replaces(p) ==
    /\ fetcher[p].pc = "update"
    /\ \E row \in AtHand(p) :
          LET fits == fetcher[p].outcome = "broken" \/ row[2] \notin Overlong IN
          \/ /\ fits /\ fetcher[p].outcome = "fetched"
             /\ previews' = [previews EXCEPT ![row] = "success"]
             /\ fetcher' = [fetcher EXCEPT ![p] = NextOf(p, row, [fetcher[p].ready EXCEPT ![row[1]] = {row}])]
             /\ UNCHANGED mishaps
          \/ /\ fits /\ fetcher[p].outcome = "broken"
             /\ previews' = [previews EXCEPT ![row] = "failed"]
             /\ fetcher' = [fetcher EXCEPT ![p] = NextOf(p, row, fetcher[p].ready)]
             /\ UNCHANGED mishaps
          \/ /\ IF fits THEN Mishap ELSE UNCHANGED mishaps
             /\ fetcher' = [fetcher EXCEPT ![p] = NextOf(p, row, fetcher[p].ready)]
             /\ UNCHANGED previews
    /\ UNCHANGED <<requestVars, cached, announced, unheard>>
UpdatePreview(p) ==
    /\ fetcher[p].pc = "update"
    /\ \E row \in AtHand(p) :
          LET fits == fetcher[p].outcome = "broken" \/ row[2] \notin Overlong IN
          \/ /\ fits /\ fetcher[p].outcome = "fetched"
             /\ previews' = [previews EXCEPT ![row] = "success"]
             /\ fetcher' = [fetcher EXCEPT ![p] = NextOf(p, row, [fetcher[p].ready EXCEPT ![row[1]] = @ \cup {row}])]
             /\ UNCHANGED mishaps
          \/ /\ fits /\ fetcher[p].outcome = "broken"
             /\ previews' = [previews EXCEPT ![row] = "failed"]
             /\ fetcher' = [fetcher EXCEPT ![p] = NextOf(p, row, fetcher[p].ready)]
             /\ UNCHANGED mishaps
          \/ /\ IF fits THEN Mishap ELSE UNCHANGED mishaps
             /\ fetcher' = [fetcher EXCEPT ![p] = NextOf(p, row, fetcher[p].ready)]
             /\ UNCHANGED previews
    /\ UNCHANGED <<requestVars, cached, announced, unheard>>

\* Message by message, to the participants connected to this server.  A failed
\* look-up of the conversation or the participants skips the message.
Announce(p) ==
    LET waiting == {m \in Messages : fetcher[p].ready[m] # {}} IN
    /\ fetcher[p].pc = "announce"
    /\ IF waiting = {} THEN /\ fetcher' = [fetcher EXCEPT ![p] = Idle]
                            /\ UNCHANGED <<announced, unheard, mishaps>>
       ELSE \E m \in waiting :
               /\ fetcher' = [fetcher EXCEPT ![p].ready[m] = {}]
               /\ \/ /\ announced' = [announced EXCEPT ![p] = @ \cup fetcher[p].ready[m]]
                     /\ UNCHANGED <<unheard, mishaps>>
                  \/ /\ Mishap
                     /\ unheard' = unheard \cup fetcher[p].ready[m]
                     /\ UNCHANGED announced
    /\ UNCHANGED <<requestVars, previews, cached>>

ServerDies(p) ==
    /\ fetcher[p] # Idle /\ Mishap
    /\ unheard' = unheard \cup UNION {fetcher[p].ready[m] : m \in Messages}
    /\ fetcher' = [fetcher EXCEPT ![p] = Idle]
    /\ UNCHANGED <<requestVars, previews, cached, announced>>

CacheExpires(u) ==
    /\ u \in cached
    /\ cached' = cached \ {u}
    /\ UNCHANGED <<previews, created, enqueue, fetcher, announced, unheard, refreshes, mishaps>>

Process(p) ==
    GetPending(p) \/ GetCached(p) \/ FetchPage(p) \/ SetCached(p) \/ UpdatePreview(p) \/ Announce(p)

--------------------------------------------------------------------------
Next ==
    \/ \E m \in Messages : EnqueuePreviews(m) \/ InsertPreview(m) \/ RefreshFailed(m)
    \/ \E p \in Processors : Process(p) \/ ServerDies(p)
    \/ \E u \in Links : CacheExpires(u)

\* The processor ticks every five seconds and every call it makes returns.
Fairness == \A p \in Processors : WF_previewVars(Process(p))

Spec == Init /\ [][Next]_previewVars /\ Fairness

--------------------------------------------------------------------------
\* tasks.rs: with one processor a preview that was found stays, through refreshes,
\* repeated requests and restarts, and it is announced unless the announcement
\* itself failed or the server died before it.
FoundIsAnnounced ==
    \A p \in Processors : Processors = {p} =>
        \A r \in DOMAIN previews :
            /\ previews[r] = "success" => r \in announced[p] \cup unheard \cup fetcher[p].ready[r[1]]
            /\ r \in announced[p] => previews[r] = "success"

\* get_pending_previews: a row whose outcome cannot be stored is fetched for ever,
\* but as long as fewer than MAX_BATCH_SIZE rows are like that, no other row stays
\* pending once no more are requested.
PreviewsSettle == <>[](\A r \in DOMAIN previews : previews[r] = "pending" => r[2] \in Overlong)

\* Refuted: a second processor's failure replaces a success that was announced.
FoundStays ==
    [][\A r \in DOMAIN previews : previews[r] = "success" => previews'[r] = "success"]_previewVars
=============================================================================
