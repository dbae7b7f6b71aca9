# Ara-chat-service: models, checks and proofs

A TLA+ development for the Rust chat service in this repository. Every
definition is translated from the code under `src/` of the crate (paths below
are relative to it, e.g. `domain/message/handler.rs`); the file
`PROJECT.json` gives for each definition the lines it stands for.

    tlc -workers 2 -config MCUsers.cfg MCUsers           # a run
    tlapm UsersProofs.tla                                # the proofs of a module

## 1. The system

Clients hold WebSocket connections to one of several server instances. An
instance keeps its connections in memory; instances share PostgreSQL
(conversations, messages, receipts, reactions, blocks, previews, emails, audit
log), Redis (sessions, presence, offline queues, unread counters, quotas,
pub/sub between instances), a disk (attachments, emoji) and nothing else. Each
connection is served by two Tokio tasks (receive and send) under one handler; a
few periodic tasks run beside them. Rust's ownership excludes data races, so
what is hard is what lies between two awaits, two lock guards or two commands of
a store. Few statements are in a transaction.

| Component | State | Operations | Works with |
|---|---|---|---|
| Connection manager (`domain/connection/manager.rs`) | two DashMaps (connections, a user's connections), an atomic counter, limits | register, unregister, send_to_user, broadcast, has_user, cleanup_stale_connections | created and removed by the socket handler; swept by a task; read by every sender |
| Conversation subscriptions (`domain/connection/subscription.rs`) | per connection: mode, set of conversations | subscribe, unsubscribe, auto_subscribe, should_receive | written by the receive task, read by senders |
| WebSocket handler (`api/websocket.rs`) | none beyond its tasks | one handler per client message; set-up and cleanup | calls everything below |
| Message handler and storage (`domain/message/handler.rs`, `storage.rs`) | rows in PostgreSQL | send with deduplication, edit, recall, pin, forward, mute, queries | router, mentions, conversations |
| Message router (`domain/message/router.rs`) | none | routes a message, thread update, mention, edit, recall, pin to participants, without the blocked | connection manager, cluster router, push notifications |
| Offline queue (`domain/message/offline_queue.rs`) | a Redis list per user | queue_message, drain_messages | cluster router pushes, a connecting socket drains |
| Cluster router, session store (`domain/cluster/*.rs`) | two Redis sets per user and server, pub/sub channels | register, unregister and refresh sessions, route_to_user, handle_routed_message | message router, subscriber and refresh tasks |
| Presence (`domain/presence/*.rs`) | a Redis hash per user, two sets per subscription | mark_online/offline, update, subscribe, broadcast, clear_subscriptions | socket handler, blocking |
| Conversations (`domain/conversation/*.rs`) | rows of conversations, participants, direct lookup | create (a direct one is looked up first), add, remove, leave, mute | REST API, socket handler |
| Receipts and unread counters (`domain/receipt/*.rs`, `infrastructure/redis/cache.rs`) | two rows per user and conversation, Redis counters and their total | mark read, increment, reset, sync | socket handler, REST API |
| Reactions (`domain/reaction/service.rs`) | rows | toggle, get | socket handler, router |
| Blocking (`domain/blocking/service.rs`) | rows | block, unblock, who is blocked | router, forwarding, presence |
| Push notifications (`domain/notification/*.rs`, `infrastructure/redis/fallback.rs`) | a degraded mark with a time | publish | the router, without a cluster |
| Email (`domain/email/*.rs`) | rows of the queue, preferences, hourly counts | queue a notice, process, preferences | a background task, REST API |
| Link previews (`domain/link_preview/*.rs`) | rows, a Redis cache | enqueue, process, refresh | sending, a background task, REST API |
| GDPR (`domain/gdpr/*.rs`) | audit log rows | erase, export | REST API; the rows of everything else |
| Attachments, custom emoji (`domain/{attachment,emoji}`) | rows and files | upload, delete; packs | REST API |
| Circuit breaker, rate limiter (`infrastructure/*`) | in-memory counters, Redis counters | call, reset; check | request path |
| Sharding (`infrastructure/sharding`, `postgres/sharded_pool.rs`) | a ring of worker points, pools | shard, node and pool of an id; add, remove worker | not constructed by the program |
| Tasks, state and shutdown (`tasks.rs`, `server/state.rs`, `shutdown.rs`, `main.rs`, `api/health.rs`) | which services exist, the group of tasks, partitions | start, probe, partition management, shutdown | everything |

What makes each of them correct, and what is hard about it:

- **Connection manager.** Counter and maps agree, the limits are exceeded by
  races only, nobody is refused without cause, nothing leaks, an open connection
  can be reached. Hard: an operation is several map accesses, limits are checked
  before the insert, and the owner and the sweep may both unregister.
- **Subscriptions.** What a client was told it subscribed to is delivered. Hard:
  the first subscription changes the mode, and sending subscribes as well.
- **Offline queue.** First in, first out, newest kept, read once, never left
  without an expiry. Hard: each operation is two or three Redis commands, any of
  which may fail or interleave with those of another server.
- **Cluster delivery.** A message reaches a connected user wherever he is, or
  waits; nobody gets it twice; sessions of the dead go away. Hard: lookup, local
  check, publish and queueing are separate awaits while sockets come and go.
- **Push notifications.** Every participant is served in one way, or a reason
  withholds it. Hard: three reads, then a loop over users who come and go, then
  one publication after the other that may fail.
- **Sending.** A retry stores and routes nothing twice and what is confirmed has
  been routed. Hard: two calls race, each await can fail in the middle, and REST
  counts and answers in another order than the socket.
- **Editing.** A recall is final, and clients end up showing what is stored.
  Hard: check, UPDATE and routing are apart, and a user has several connections.
- **Conversations.** The lookup names the pair's conversation, the stored count
  is the number of participants. Hard: racing creations and membership changes
  under READ COMMITTED, and erasures of accounts, which take participants and
  lookups away behind the service's back.
- **Lists.** Pages show each row that stands still once. Hard: rows are written
  while a client follows a cursor or an offset, and in front of an offset they
  come and go.
- **Receipts and counters.** Receipts do not go back, counters add up, a sync
  answers counts there were. Hard: increment, reset and scan are pipelines and
  scans beside each other, keys expire apart, two rows are written per mark.
- **Reactions.** Clients end up showing the rows. Hard: look, write and announce.
- **Blocking.** Who is blocked is not reached; both sides of a presence
  subscription agree. Hard: four calls per block, none in a transaction.
- **Presence.** Online exactly while connected; watchers learn of changes. Hard:
  count and status change in two calls, the hash expires, servers crash.
- **Email.** A notice is in one email, sent once and within the limits. Hard:
  batches close while others join, claim, sending and marking are apart.
- **Link previews.** Every preview is settled, found ones announced. Hard: a row
  that cannot be stored stays first in the batch; refreshes race the processor.
- **GDPR.** An erasure erases everything or nothing, an export is complete, the
  log is closed. Hard: it runs among the user's writes and fails in the middle.
- **Attachments, emoji.** Rows and files agree, nothing crosses tenants. Hard:
  two systems, no transaction, look-then-write deduplication.
- **Circuit breaker.** Opens at the threshold, recovers after the timeout. Hard:
  counters and state are read and written in separate steps by many calls.
- **Rate limiter.** Quotas hold. Hard: three commands, any of which may fail.
- **Server.** What a ready server refuses was left out knowingly, a signal ends
  the process, tomorrow has a partition. Hard: what is decided once at the start,
  clients that withhold a body, panics, hours missed.
- **Sharding.** A shard has one worker, which changes only when a worker's
  coming or going concerns it. Hard: points of nodes interleave on the ring.

`PROJECT.json` lists the hazards at their lines, with the property that would
catch each one going wrong.

## 2. The modules

Each component is one module: state, `Init`, one action per step of the code,
`Next`, `Spec`, properties. A step is what the code does without giving another
task the chance to run in between: one DashMap access or the lifetime of one
guard (`ConnectionManager`), one lock or atomic access (`CircuitBreaker`), one
awaited command, pipeline or statement elsewhere. Its error path is part of the
action or an action of its own (`...Fails`). Where an operation has several
steps, an operator with the name of the handler is their disjunction
(`PostMessage`, `Upload`, `RequestDeletion`, `Process`). `<Name>Proofs` holds the
theorems about `<Name>`, or about the components that `MC<Name>` gathers
(`DeliveryProofs`, `ConversationsProofs`, `UsersProofs`, `ServerProofs`;
`EditingProofs` is about `MCMessageEditing`). Operators called `<Action>_<WhatIsWrong>` stand beside
the action they spoil: they are plausible bugs, at least one for each checked
property, with which TLC finds the property violated.

| Module | Models | Correspondence |
|---|---|---|
| `ConnectionManager` | register, unregister, stale sweep, the handler's life | `connections`, `userKeys`/`userConns` (keys and values of `user_connections`), `total` are the fields; `pc` is where a handler is, `ustep` where a task is inside `unregister`; `sweep`, `unseen`, `stale` are the locals of the sweep; `racing` is history: the most registrations that were past the first check at once. A shard lock is held within a step only |
| `Subscriptions` | the modes and sets of a user's connections, their requests | `explicit` and `subscribed` are the fields, `known` what the client was told |
| `OfflineQueue` | the Redis list of one user | `queue` and `ttl` are the key; `ppc` and `dpc`/`batch` the calls in progress; `pushed`, `handed`, `expired` are history |
| `Mailbox` | what a queue promises: a lossy first-in first-out mailbox | abstract; the refinement maps `pending` to the batch being read followed by the newest part of the list, which the drain has not read; losing keeps a part of the sequence, given by indices |
| `ClusterDelivery` | a message's way to one recipient | sessions, channels, queue and router calls of all servers; composes the registry (as one step) with the session store, pub/sub and the queue |
| `Notifying` | route_message without a cluster, and publish through RedisFallback | `route` holds what a call has read; `has_user` (`RouteNext`) and the send whose result is discarded (`SendToUser`) are two steps, and `missed` is history: who went between them; `degraded` and `lastFailure` are the fields, `time` the clock in milliseconds, of which differences wrap |
| `MessageSending` | all calls with one `client_message_id`, by socket or REST | rows by the call that inserted them; `todo` are the users a routing loop has still to reach; `sent` counts the events |
| `MessageEditing` | one message and the requests on it | `msg`, `pins`, `copies` are the rows; `call` is the request a connection's task is in, with what it read earlier; `inbox` is what a member was sent |
| `Conversations` | creation, direct lookup, membership, mutes | `create` and `change` are calls inside their transactions; what they wrote is seen at the commit. `erase` is an erasure of a user's account, which takes him out of his conversations without counting and deletes his direct lookups (`gdpr/deletion.rs`); `uncounted` is history: whom it took from each conversation |
| `Listing` | paging through history, conversations, participants, replies and search results | a row is its sort key; `pass` is one client's way through the pages, with its cursor and its offset. Any row may be written or removed meanwhile; `came` and `went` are history: the participants in front of whom another came or went |
| `ReadReceipts` | the marks of one user's devices, arrivals, syncs | `receipt` and `participant` are the two rows, `count` and `total` the Redis keys, `ttl` the order of their expiries, which a failed EXPIRE leaves as they were; `doubled`, `slipped`, `lapsed`, `curtailed` are history of what excuses a wrong total |
| `Reactions` | toggles, their events and the fetches of clients | `reactions` are the rows, `shown` what a client shows |
| `Blocking` | blocks, the router's and forwarding's reads, presence subscriptions | `subscribers` and `subscriptions` are the two Redis sets |
| `Presence` | one user's hash and its pushes | `row` is the hash with status, count and expiry; `push` is what the task and the cleanup of each connection are doing; `shown` is what a watcher saw last, `unpushed` history: the watchers whom a failed push or a failed read of the subscribers left out |
| `EmailQueue` | notices, the processor, the hourly limit, preferences | `emails` are the rows, `notice`, `processor`, `edit` the calls in progress, `delivered` what the backend took |
| `LinkPreviews` | enqueueing, the processor, cache, refreshes | `previews` are the rows, `created` the order of the batch, `fetcher` what a processor has in hand (the rows of its batch still to fetch, the successes to announce) |
| `AccountData` | erasure, export and their audit log among writes | `data` are the rows by kind, `demand` the requests, `auditLog` the log |
| `Attachments` | upload, deletion, erasure of rows | `attachments` are the rows, `files` the disk |
| `Emoji` | upload, deletion, packs | `emojis`, `packs`, `pictures` are rows and disk of two tenants |
| `RateLimiter` | one user's message quota | `count` and `expiresAt` are the key, `check` the handlers; `passed` counts what was let through at each time |
| `CircuitBreaker` | one breaker and the calls through it | the lock, the two counters, and whether the timeout has passed |
| `Lifecycle` | start, probes, clients, shutdown | `found` is what AppState::new constructs, `phase` where main is, `probe` the readiness probe, `client` what each client has open: a socket, or a REST request whose body may never come; `refused` is history: the services that some request was refused |
| `Partitions` | the daily partitions and the task that makes them | `done` is the day the task ran last, `hour` two o'clock or another |
| `Sharding` | the ring and the pools | `place` is the hash of a node's points, chosen at the start; `starting` are the workers that `ShardedPool::new` has still to add, in any order; `ring` is the sorted vector, `members` history; the user's shard is an operator. Sorting gives each point its rank, the number of points not after it |

**MC modules.** `MCConnectionManager` and `MCMessageEditing` instantiate one
component. The others gather components of one subject: `MCDelivery` (queue,
`MCClusterDelivery`, push, email), `MCConversations` (extends `MCMessageSending`),
`MCUsers` (extends `MCPresence`), `MCServer` (extends `MCCircuitBreaker`). A variable
`part`, chosen at the start and never changed, says which component a behaviour
runs. The others stand still; their variables are 0, or keep their first value
where a property speaks of them in every part. Such a property is guarded by its
part and conjoined with the type invariant of its module. Large components are
split further (`"erase"` and `"export"`, `"notices"`, `"emails"` and `"preferences"`), so
that each question has the actors it needs and no others. What a configuration
chooses for the names of the runs (`HomeOf`, `EntryOf`, `Asked`, `Changed`, `Beside`,
`Demands`, `Things`, `Routes`, `Texts`, `HashOfShard`) is a constant with an assumption that says no more than the
proofs need.

**Composition.** `ClusterDelivery` treats `ConnectionManager` as atomic and
`queue_message` as one step, because each of those has its own module with its
inside. `MessageSending` treats "send to a user" as one step, whose inside is
`ClusterDelivery` in a cluster and `Notifying` without one. `Blocking` composes the
router's filter with the presence sets; `AccountData` acts on the rows that the
other modules write.

### Abstractions

- Payloads, names and texts are model values. An edit's content is named by the
  request that wrote it; the placeholder of a recall is a value of its own.
- One user, message, conversation or queue at a time where the code keys its
  state so and no operation touches two keys.
- The wall clock is a nondeterministic action: `Midnight` (the date in the dedup
  index), `Ages` (recall and edit windows), `KeyExpires`/`Expire` (Redis), `Wait`
  (the breaker's timeout), `BecomesDue`, `WindowEnds`, `HourPasses` (email, partitions).
  This is more behaviour than the clock allows.
- `ClusterDelivery`: every connection is in the mode that receives everything.
- A page or a picture is an outcome of fetching or decoding it.
- A Redis or SQL call that fails has no effect; a call that took effect and whose
  answer is lost is not modelled.
- `Sharding`: points of different nodes do not collide.
- `Listing`: participants who are created with a conversation share their time
  (one transaction), so they have no place of their own and only the others are
  *alone* in the sense of `PagesAreComplete`; the owner sorts before everybody.

## 3. The runs

Six runs check properties that hold; six show a statement that the code
violates. Where a property needs an assumption on the environment, the MC
module adds a variable, chosen at the start and never changed, that says which
faults a behaviour has, and instantiates the component with fewer of them
(`Calm == INSTANCE ... WITH Failing <- {}`); the property then begins with that
condition. One state space so covers the undisturbed and the faulty system.

| Run | Part and bounds | Shows |
|---|---|---|
| `connections` | 3 sockets of 2 users, both limits 1 | the counter is the number of entries up to calls in progress, and the registry and a user's list exceed their limits by fewer connections than registrations were past the first check at once (`LimitsAreKept`); a registry whose sockets are done is empty (`NoLeakWhenDrained`); nobody is refused by dead connections (`RefusalIsJustified`); a dead connection goes away even if its handler never cleans up (`StaleIsPurged`) |
| `delivery` | queue: 3 messages, 2 drains, list of 2, as they like or in turns | the list is the newest of what was pushed and exceeds its limit only by pushes not yet trimmed (`QueueIsNewest`), lacks an expiry only under an unfinished push (`UnexpiringIsUnfinished`), is not read again (`NeverReadAgain`), and with drains in turns is a `Mailbox` (`IsMailboxInTurns`) |
| | cluster: 2 servers with a connection each, a third that routes, 2 messages; no faults, crashes, or all faults with one message | undisturbed messages are delivered or queued and sessions match the connections (`KeptAndMatchedWhenCalm`); `AtMostOnce`, `StableRecipientIsReachedWhenCalm`, `GoneIsForgottenDespiteCrashes` |
| | push: one message to 3 users, 2 changes of connections, mutes, blocks or Redis | each gets a copy or a notification and never both, unless a reason that was read withholds it or he went between `has_user` and the send (`EveryoneIsServedOnce`) |
| | email: 3 notices for batches of 2; 2 notices, the processor, 1 per hour, retries of 2, any failure; preferences changed meanwhile | every queued notice is in a row and what is sent is in its email; one processor sends a row once and within the limit unless something failed in between (`EmailsAreSound`) |
| `conversations` | sending: 3 calls, one through REST, 2 recipients, 1 mentioned, a reply, 2 dates; no faults or any | `SentOnce`, `SameMessageReturnedInADay`, `ConfirmedIsCompleteWhenCalm` (routed to all, counted as unread) |
| | direct and members: 3 creations by 2 users beside the erasure of an account; or 1 creation with 2 membership changes, or with 1 beside an erasure | the lookup names a conversation of the pair, a stored count is that of those present and those erased when changes take turns, later calls find what was created until an erasure unlinks it (`ConversationsAgree`) |
| | lists: 4 rows in any order of their times, pages of 2, 2 writes or removals (1 in lists of one page), 6 kinds of list, participants with an owner | a row that stands still and alone is shown once, by an offset unless another came or went in front of it; totals (`ListsAreFaithful`) |
| | receipts and sync: 2 marks, 2 conversations, 2 arrivals, EXPIREs that fail in part; or 1 mark, 2 arrivals and a sync | the receipt is never older than what was told of it, the total covers the counters unless two resets met or it expired first, and is their sum if no arrival met a reset and no counter expired, a sync answers counts there were (`ReadingAddsUp`) |
| | reactions: 3 toggles by 2 users, or 2 and a fetch; subscriptions: 1 socket, 3 topics, 2 joined, limit 1, 3 requests | `ReactionsConverge`, `ConfirmedIsDelivered` |
| `editing` | 2 connections of the sender and an admin, one request each with faults; or one connection and an admin with two requests each without | a recall is final (`RecallIsPermanent`), announced at most once and, unless its routing fails, to everybody (`RecallReachesMembersOnce`); with one connection clients end up showing what is stored and only news are notified (`EventsAreRightOnOneConnection`) |
| `users` | presence: 3 connections, 3 openings, 1 status update, 2 watchers; or 2 connections with every fault, failing pushes included | `NeverOvercounted`; who is gone is stored as offline and every standing watcher was told so unless his push failed (`GoneIsKnownUsually`); `GoneBecomesOffline` |
| | blocking: 2 blocks and 2 messages, one of them forwarded; or 2 clears and subscriptions of 3 users; or 2 blocks and subscriptions | no message crosses a block that held during all of its call, presence is cut, and the two sides of a subscription agree (`BlockHolds`) |
| | erase: 2 erasures and writes; export: an erasure, an export and writes | `RequestsAreHonoured`: all or nothing is erased, an undisturbed export has every message its profile counts, the log is closed unless a failure cut it |
| | emoji and packs: 2 uploads, 2 packs, a deletion, an edit, 2 tenants; attachments: 2 uploads, 2 deletions of 2 users; any failure | `EmojisAreSound`, `RowsAndFilesAgree` |
| `server` | circuit: 3 callers with manual calls, 2 without, 1 alone; thresholds 2 | `TransitionsAreNotLost`, `RecoversAlongDiagram` |
| | quota: 2 handlers, 6 sends, quota 2, window 2 | of the sends that were counted at most twice the quota pass in any window, and a counter without an expiry is about to get one or lost it to a failure (`QuotaHolds`) |
| | readiness: each subset of services, 2 clients with sockets (a limit of 1) and REST requests for conversations, attachments and erasure; shutdown: the same clients, whose bodies may never come, a panic | what a server that was once ready refuses with SERVICE_UNAVAILABLE is a service left out beside PostgreSQL (`ReadyIsEquipped`); a signal ends the process unless a body is withheld for ever (`SignalEnds`) |
| | partitions: 8 days, 3 made at first, 3 ahead; shards: 3 workers that come and go, 4 shards, 2 points each on a ring of 6 places | `RowsHaveAPlace` |
| | previews: 2 messages with 5 and 2 links (refused, overlong, repeated; one valid link more than the limit of 3), batches of 2, 1 refresh, 1 mishap; repeats: each message requested twice, neither refresh nor mishap | `FoundIsAnnounced`, `PreviewsSettle` |
| `lost_mapping` | as `connections`, limit 2 | **violated**: `OpenConnectionIsMapped` |
| `offline_lost` | 3 messages, 1 drain | **violated**: `NothingLost` |
| `cluster_sessions` | both connections on one server | **violated**: `SessionsMatchWhenCalm` |
| `sending_retry` | 2 calls, routing may fail | **violated**: `ConfirmedIsSent` |
| `presence_race` | 2 openings, no fault | **violated**: `OnlineWhileConnected` |
| `backoff` | as `delivery` | **violated**: `BackoffIsKept` |

**Why the bounds are enough.** The races of these components are between two
actors; each part has the two, and one more where a third could interfere (the
sweep, a third call or caller, a second recipient). Limits are small enough to be
reached: lists are trimmed, users are refused, batches fill, quotas run out,
thresholds need two counts, partitions are missed until the last one. Each
passing run fires every action of its modules. Counters that the code leaves
unbounded are bounded by constants named for it: `Days`, `Quota`, `Opens`, `Updates`,
`MaxFlips`, `MaxChanges`, `MaxHitches`, `MaxRefreshes`, `MaxMishaps`, `MaxAsks`, `MaxSends`,
`MaxNow`, `MaxDay`, `MaxHour`, `MaxCalls`, `MaxTime`, `MaxUnblocks`, `MaxEnqueues`.

**Where a behaviour may stop.** Sockets, messages and requests are used once, so
runs other than `connections` end in states without a successor; their
configurations switch the deadlock check off.

**Fairness.** A spawned Tokio task is polled whenever it can go on, so tasks that
have begun are weakly fair: registration, cleanup and the sweep
(`ConnectionManager!Fairness`), the socket tasks of `ClusterDelivery` outside of
waiting for the client, main and an upgrade that is being answered (`Lifecycle`; the
body of a REST request need never come), the
preview processor, which ticks every five seconds and whose calls return. A crash
disables what the dead server would have done. Redis removes expired keys and
time passes (`SessionExpires`, `Expire`, `Wait`). Clients are never obliged to
connect, send or leave, messages need not be routed, and no failure is obliged to
happen or to stop. `RecoversWhenHealthy` also needs that calls keep coming,
because only a call takes the breaker out of open; this is assumed of two callers.
`PreviewsSettle` needs fewer stuck rows than a batch holds.

### What the violated runs show

1. `lost_mapping` (`manager.rs:87`): `unregister` lets go of the user's entry before
   it removes the key. A registration in between is removed with it: the
   connection is open, counted, and reached by no `send_to_user`.
2. `offline_lost` (`offline_queue.rs:163`): a message pushed between LRANGE and DEL
   is deleted unread.
3. `cluster_sessions` (`websocket.rs:249`): the first of two connections on one
   server to close takes the user out of the session store.
4. `sending_retry` (`handler.rs:146`): a failure after the INSERT makes the client
   retry; the retry is confirmed without any routing.
5. `presence_race` (`tracker.rs:136`): a connection that opens between the two calls of
   `mark_offline` is reported offline and lost from the count.
6. `backoff` (`fallback.rs:71`): the age of the last failure is computed from a clock
   read of no length; the unsigned difference wraps, so the backoff is over at once
   (with overflow checks the task panics).

### Other deviations met while modelling

They are stated in the modules and refuted by TLC when they are checked, or are
plain in the definition named; the properties of the runs are stated around them.

Connections and delivery
- `ConnectionManager!PerUserLimit`, `GlobalLimit`: the limits are checked before the
  insert, racing registrations exceed them, by no more than the races allow
  (`LimitsAreKept`). A user's limit counts his list: a connection that lost its
  mapping is not counted, and where the limit is zero one connection passes.
- `OfflineQueue!HandedOutOnce`: two sockets that connect together both deliver the
  whole queue.
- `ClusterDelivery!UndisturbedIsKept` after a crash: the dead server's session makes
  the router publish to nobody instead of queueing. With failing Redis calls a
  failed `unregister_session` leaves a session that its server refreshes for ever,
  so `GoneIsForgotten` is checked without those.
- `Notifying`: push notifications go out only without a cluster router; in cluster
  mode users who are away get the queue and no push, without it the push and no
  queue. A push may follow a mute made meanwhile. `MissedAreNotified`: who goes
  between `has_user` and the send, whose result is discarded, gets neither.
- `Subscriptions!LegacyReceivesAll`: a client that never subscribed receives everything
  only until it sends a message or fetches a history, which subscribes it.
  `ConfirmedForEach`: confirmations go to all connections of the user. Events that
  arrive over the cluster are not filtered.
- `EmailQueue!SentOnce` with two servers: the row lock lasts for the SELECT only.
  `CancelledStays`, `OptedOutGetsNone`: what is queued or claimed is still sent. A row
  claimed by a dead server stays "processing"; partial preference updates race.

Conversations
- `MessageSending!SameMessageReturned` across midnight: the unique index includes
  the date. `UnreadIsCounted`: each retry increments the unread counters.
- `MessageEditing!RecallReachesMembers` with failing routing: the retry of a recall is
  answered with success and announces nothing. `MentionIsNews` and
  `EventsConverge` with two connections of the sender. `RecalledIsNotForwarded`.
- `Conversations!OneDirectConversation`: two racing creations return one each. The
  stored count is stale under two open membership changes; a user who is added
  again keeps his role and mute; the limit is checked without the creator.
  `CountIsRightAfterErasures`: an erasure sets `left_at` and leaves
  `participant_count`; it deletes the direct lookups, so the next call for the
  pair creates another conversation.
- `Listing!OffsetIsComplete`: participants are paged by OFFSET; a row is repeated when
  another comes in front of it and skipped when one goes. `NothingIsSkipped`: rows
  of equal place at a page's end are skipped
  (the cursor of conversations is cut to milliseconds; participants of one creation
  share their time). `SearchShowsNewest`: the search over all conversations limits
  in the order of ids. `ThreadTotalCovers`: replies include the recalled, the total
  does not.
- `ReadReceipts`: racing resets lower the total twice, and what arrives inside a
  reset stays in it; `UnreadIsCovered`: a pipeline of EXPIREs that fails in part
  lets the total expire before its counters; `SyncAddsUp`: the total of a sync is read before its counts;
  `RowsAgreeAtRest`: the participant's row may end older than the receipt.
- `Reactions!ClientsConverge`: two devices that toggle one reaction at once both add
  it, and their events may arrive in the other order. `SnapshotsAreFresh`: an answer
  may be overtaken by an event.

Users
- `Presence!OnlineWhileConnected` without any race: nothing calls `refresh`, so the
  hash of a connected user expires after 120 seconds. `SubscribersFollow`:
  connecting is not pushed. A subscription in progress may end with an older
  status than a push, so `OfflineIsPushed` is about standing watchers.
  `OfflineIsPushedAnyway`: a failed SMEMBERS counts as no subscribers, and the error
  of a failed connection is ignored, so nobody is told.
- `Blocking!BlockHidesPresence`: a blocked user may subscribe again, although
  `blocking/service.rs:218` says that the list is for presence updates as well; mentions do
  not ask for blocks; a failing query lets messages through. `NothingLeftBehind`: a
  subscription made between the two calls of `clear_subscriptions` stays.
- `AccountData!NothingAfterErasure`: what a request in flight inserts after the commit
  stays; `OneErasureAtATime`; a log row left "processing" by a dead server refuses
  every later request. Content of recalled messages, files, pins, blocks, emojis and
  email preferences are not erased.
- `Attachments!AnsweredStays`: deduplication answers with a row that its uploader may
  delete; `OneRowPerContent`; a refused file stays on the disk, as do files of
  erased accounts. `Emoji!AnsweredAsAsked`: a known picture is answered under
  its old shortcode; a failed insert leaves its picture.

Server
- `CircuitBreaker!FollowsDiagram` with two callers: a success counted in half-open
  closes a circuit that another call has opened again in between.
- `RateLimiter!QuotaSlides`: a fixed window lets twice the quota through around its
  end. A failed EXPIRE leaves a counter that refuses the user for ever.
- `Lifecycle!TasksRunWhileServing`: a panic in one task ends all eight while the
  probes stay green; a server that starts without a store stays without it.
  `SubscriberOutlivesClients`: tasks stop before clients are told. `ClosedIsACount`: the
  difference of two counts may be negative. `ReadyRefusesNothing`: a server whose file
  storage failed at the start is ready and refuses every upload.
  `SignalEndsAnyway`: the graceful shutdown has no timeout, a withheld body keeps
  the process.
- `Partitions!OneDayMore`: the properties hold for as many missed days as there are
  partitions ahead, and not for one more.
- `LinkPreviews!FoundStays`: a second processor's failure replaces a success. A title of
  513 to 515 characters cannot be stored and is fetched for ever; a batch of such
  rows starves all others.
- `Sharding!GroupsCover`: with a number of groups that does not divide the shards the
  last shards are in none. A worker that is added has no pool; its shards are
  served by the coordinator.

## 4. The proofs

TLAPS proves the following for every value of the constants. Theorems about one
component's `Spec` are paired with the same statement about the specification
that a run checks (`PartsSpec`, `MCSpec`), which names the checked property; the
second follows from the first one's lemmas, because a part that stands still
keeps its invariant. Every invariant and action property of the passing runs is
proved; liveness is not.

| Theorem | States |
|---|---|
| `ConnectionManagerProofs!TypeCorrect`, `LimitsKept`, `NoLeak`, `RefusalJustified`, `MappingSound` | types; the counter's accounting and how far races exceed the limits; nothing left behind; refusals; a user's list names registered connections of his, or of a removal in progress |
| `OfflineQueueProofs!TypeCorrect`, `QueueIsBounded`, `OldestLeaveFirst`, `AbandonedQueueExpires`, `NothingIsReadAgain`, `TrimsOnlyWhenFull` | types; length at most the limit plus the untrimmed pushes; the list is a suffix of the pushes within that bound; expiry; no second reading; a trim leaves a full list |
| `DeliveryProofs!QueueIsAMailbox` | the refinement: with drains in turns, each step of the queue is one of `Mailbox` or none |
| `...!NothingReachesTwice`, `NothingIsLostInCalm`, `EveryConnectionIsReachedInCalm` | cluster delivery: at most once under any fault; while nothing fails, sessions match, an undisturbed message is delivered or queued, and it reaches every connection it is to reach |
| `...!NobodyIsForgotten`, `EmailsStaySound` | push: one way for each participant, or a reason, or he went between look and send; email: a notice is in one row, a row sent once and within the limit |
| `MessageSendingProofs!TypeCorrect`, `NobodyIsSentTwice`; `ConversationsProofs!ConfirmedStaysComplete`, `OneMessageInADay` | no event about a row is sent twice; what is confirmed is one row a day and, if nothing fails, complete |
| `...!ConversationsStayInAgreement`, `ReactionsStayConvergent`, `ConfirmedStaysDelivered`, `ReadingKeepsAddingUp`, `ListsStayFaithful` | lookups and counts beside erasures; reactions and what clients show; subscriptions; receipts, counters, expiries and syncs; pages by cursor and by offset while rows come and go |
| `EditingProofs!RecalledStays`, `RecallReachesEverybodyOnce`, `EventsStayRight` | a recalled row is not changed; a recall is announced once and to everybody; on one connection clients end up showing what is stored |
| `UsersProofs!PresenceTypeCorrect`, `CountIsBounded`, `GoneStaysKnown` | the count is at most the open connections plus those that ended uncounted; who has gone is stored as offline, and shown so to every standing watcher whose push did not fail |
| `...!BlocksKeepApart`, `RequestsStayHonoured`, `EmojisStayInTheirTenant`, `RowsAndFilesStayTogether` | blocks; erasure, export and their log; emoji and packs; rows and files |
| `ServerProofs!TypeCorrect`, `NoTripIsLost`, `NoRecoveryIsLost`, `NoTransitionIsEverLost` | circuit breaker: a reached threshold always has a caller on its way to act on it |
| `...!AloneFollowsDiagram` | a caller who is alone moves the circuit along the documented diagram only: the half of `RecoversAlongDiagram` that is not liveness |
| `...!QuotaKeepsHolding`, `ReadyStaysEquipped`, `FoundStaysAnnounced` | quota in every window; what a ready server refuses; previews |
| `...!RowsKeepTheirPlace`, `MessagesAlwaysHaveAPartition`, `ShardsAreAlwaysFound` | partitions; a shard is served by the member whose point is next on the ring, only a worker's coming or going that concerns it moves it, a removed worker is not read, groups of shards do not overlap |

**The inductive invariants.** Few of the properties are inductive; what they
lack is nearly always what a call in progress still owes or may still rely on.

- `ConnectionManager`'s `IInv` adds what each task knows: `HandlerInv` (before its
  insert and after its removal a connection is not in the registry) and
  `RemovalInv` (what is being removed has left `connections` already, so `remove`
  gives an entry to one task only). The accounting step compares cardinalities.
  `RaceInv` bounds the entries of the registry, and those of a user's list, together
  with the registrations that have passed the check and not yet added theirs, by the
  limit and the races: a check that passes sees fewer entries than the limit beside
  at most `racing - 1` others on their way.
- `OfflineQueue`: `Newest` gives `QueueIsNewest` by positions; `Taken` relates what was
  handed out to what may still be read. For the mailbox `BoxInv` splits the list:
  the first `n` messages are the last `n` of what the drain has read, none of the
  others is in it. A push extends the second part, a trim cuts the first before
  the second, a failed DEL makes the mailbox forget what was trimmed meanwhile.
- `ClusterDelivery`: `OnceInv` (a message is in one place on its way: a routing call, a
  channel, the queue, a batch or one connection's stream), `CalmInv` (sessions are the
  servers of connections beyond their registration; an undisturbed message is kept
  somewhere), `OwedInv` (what a message in flight owes each connection).
- `Notifying`: `PushInv` says of each call what it has read and whom it has still to
  serve, in the order of its loop, and that whom it is about to send to is still
  connected or has been missed. `EmailQueue`: `EmailInv` says which rows a
  processor holds, and that it sends only below the limit it has just read.
- `MessageSending`: `SendInv` says which events are still to come by the stage of the
  call that owns the row; `CalmInv` what has been done when nothing fails.
- `Conversations`: what a creation has written and not committed agrees with itself, a
  call knows whether an erasure has unlinked it since (`CallOk`), the rows an erasure
  holds are of people who are still there (`ErasureOk`), and a count is right, up to
  the erased, while at most one change is open (`CountsOk`). `Reactions`: who does not show
  a row is about to be told, or is about to get an answer that has it.
  `Subscriptions`: what the client will be told is already so. `ReadReceipts`: `Leads`
  (the receipt is not behind what was announced, marked or written beside it),
  `ResetsFit` and `TotalFits` (a reset that is alone takes away what it has counted, so
  some witness covers both the counters and the open resets, and the total covers
  the witness), `Knows` (a sync knows the counts there are).
  `Listing`: everything before the cursor has been shown (`CursorFits`); a standing row
  in front of whom nobody came or went was shown exactly if its rank is below the
  offset (`RankFits`, `OffsetFits`).
- `MessageEditing`: at most one call announces the recall, and to nobody it has told
  (`RecallInv`), whoever has not been told is about to be (`ReachInv`); on one
  connection what is being routed is what is stored (`RoutesStored`), and who does
  not show it is about to be told (`ShowsInv`), a mention that was notified still
  stands or an edit without it is on its way (`NewsInv`).
- `Presence`: every decrement belongs to a connection that ended; when nobody is left,
  the cleanup that stores "offline" or tells a watcher is still on its way, or could
  not reach him (`InTurn`, `OnItsWay`). `Blocking`: a message's history holds who is not blocked now
  (`SendInv`); an undisturbed block has already done the half before (`ApartInv`).
- `AccountData`: `EraseInv` and `ExportInv` say what each stage of a request has covered.
  `Attachments`, `Emoji`: a row on its way has stored its file, a deletion has passed
  what it has passed; packs do not come back as another tenant's.
- `RateLimiter`: the lives of the key are numbered by a witness for each time (an
  existential in `QuotaInv`): in a life passed and pending sends are at most the
  quota, and lives that are not neighbours are more than a window apart, so a
  window meets two.
  `CircuitBreaker`: `Alone` says what a lone caller has read and nobody has changed.
  `Partitions`: after each missed hour the days left are known. `Sharding`: `RingInv` says
  that the ring is ordered and holds exactly the points of the members (some twice, if
  a node was added twice); a search that finds the first point at or after a place,
  or the first of all, then finds the nearest one, which a point of another node
  replaces or leaves. That ranks are a permutation is a lemma about chains of sets
  (`ChainRanks`), so nothing is proved by induction over the list. `LinkPreviews`: a success
  is announced, in hand, or known not to be. `Lifecycle`: what a probe saw was found,
  and nothing that was found is refused (`ReadyInv`).

**Assumptions.** The named assumptions in the modules: finite sets of messages,
connections, users or rows where something is counted; positive limits; the
typing of constant functions; members of the sets a run names
(`PeopleAssumption`, `DemandsAssumption`, `ThingsAssumption`); one connection of the
recipient on each server and no retry interval beyond the clock's range
(`ClusterAssumption`, `PushAssumption`); the services that clients ask for are those
that can be refused (`LifeAssumption`); `Ahead <= Premade + 2`
(`PartitionAssumption`: the constants of the code are 7 and 7); at least one point a
node and one shard (`ShardAssumption`: the code has 150 and 1024); each text a sequence
of links (`PreviewAssumption`); the three callers of the breaker are all there are
(`CallerAssumption`). They hold in the runs: TLC evaluates them. That points of
different names do not collide is a conjunct of `Sharding!Init`.

**What the attempts showed of the models.** A step of `ReadReceipts` that checked
both ids of a participation at once was split; a direct request is remembered
only where one was made; the offset of `Listing` undercounted a row that is shown
three times; an instance of `MessageEditing` for "only storing may fail" was no
restriction of the component's steps; the ring of `Sharding` was filled by a loop over
a list inside `Init`, and is now filled worker by worker, as the constructor does; the
id a sweep is at kept a value outside its loop. All are corrected. The limits of
`ConnectionManager` do not hold; the attempt to say by how much they fail gave
`LimitsAreKept`, with the exception of a limit of zero.

**Only model-checked.** Liveness and everything under fairness (`StaleIsPurged`,
`GoneIsForgottenDespiteCrashes`, `GoneBecomesOffline`, `SignalEnds`, `PreviewsSettle`, and
that the circuit recovers, in `RecoversAlongDiagram`) is out of the prover's reach, as
are `ENABLED`, induction over data (what a fold or a loop over a list computes for
every input) and `RECURSIVE` operators; no module uses the latter.

## 5. What is left

The components with state of their own are modelled, and their safety is proved.
Worth adding, in this order:

1. **The violated statements** with their excuse as an invariant, as `LimitsAreKept` has
   it for the limits: what a second connection on one server, a retry after a failure
   or a race at the opening of a connection may cost at most.
2. **The inside of what is one step elsewhere** (see Composition): that a registration
   in `ClusterDelivery` stands for the steps of `ConnectionManager`, as a refinement.

## 6. Not modelled

- Text, bytes and pages: Markdown, sanitising, compression, templates, parsing of
  mentions, link pages and tokens, making thumbnails. (Slicing a preview text at a
  byte that is inside a character panics; that is a matter of text.)
- Reading of settings, metrics, tracing, authentication.
- Typing: the handler sends it on and keeps nothing; the typing cache is written
  and never read.
- Statements that only read and are not paged: single messages, reply contexts,
  thread summaries, statistics.
- What the program never calls: `peek_messages`, `remove_message`, `clear_queue` of the
  offline queue; `has_user_subscribed`; `PresenceTracker::refresh`; `UnreadCounter`;
  `MentionNotifier`; `process_pending_previews`; reset and usage of the rate limiter;
  `RedisFallback` other than for publishing; the Redis cluster client; the PostgreSQL
  pool manager. `queue_notification`, `cancel_pending` and `requeue_failed` of the email
  queue and `ShardedPool` are not called either, and are modelled as what their
  documentation invites callers to use.
- Wiring of the circuit breakers: the program constructs them and reports their
  state, but no service calls through them.
