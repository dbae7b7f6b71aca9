------------------------------ MODULE Sharding ------------------------------
(***************************************************************************)
(* Which PostgreSQL worker serves a user or conversation: an id is hashed  *)
(* to a shard, the shard's name to a place on a ring on which each node    *)
(* has several points, and the node of the next point serves it.  Nodes    *)
(* join and leave the ring under the router's write lock; the pools of     *)
(* the workers are those the process started with.                         *)
(***************************************************************************)
EXTENDS FiniteSets, Integers, Sequences

CONSTANTS
    Nodes,
    VirtualNodes,   \* points of a node
    MaxHash,        \* places on the ring are 0..MaxHash (2^64 - 1)
    ShardCount,
    HashOfShard,    \* [shards -> places]: hash_string("shard-...")
    DirectReads,    \* direct_reads of the configuration
    Coordinator,
    MaxCalls        \* bound on the nodes added and removed

VARIABLES
    place,      \* [Nodes -> its points], the hash function
    workers,    \* nodes with a pool
    starting,   \* workers that ShardedPool::new has still to add to the ring
    ring,       \* points [hash, node] in the order of their hashes
    calls,
    members     \* history: nodes added and not removed since

ringVars == <<place, workers, starting, ring, calls, members>>

Places == 0..MaxHash
Point(h, n) == [hash |-> h, node |-> n]

\* Two names never have one hash.
TypeOK ==
    /\ place \in [Nodes -> [0..VirtualNodes - 1 -> Places]]
    /\ starting \subseteq workers /\ workers \subseteq Nodes /\ members \subseteq Nodes
    /\ ring \in Seq([hash : Places, node : Nodes])
    /\ calls \in 0..MaxCalls

--------------------------------------------------------------------------
(* ConsistentHashRing                                                      *)

\* The points of some indices, each at its rank.
Ranked(points, rank) ==
    [k \in 1..Cardinality(DOMAIN rank) |-> points[CHOOSE i \in DOMAIN rank : rank[i] = k]]

\* A stable sort by hash.
UpTo(points, i) ==
    {j \in DOMAIN points : \/ points[j].hash < points[i].hash
                           \/ points[j].hash = points[i].hash /\ j <= i}
Sorted(points) == Ranked(points, [i \in DOMAIN points |-> Cardinality(UpTo(points, i))])

\* Mutant: what was there is not sorted in.
AddNode_Appends(points, n) == points \o [i \in 1..VirtualNodes |-> Point(place[n][i - 1], n)]

\* A node that is added again has its points twice.
AddNode(points, n) == Sorted(points \o [i \in 1..VirtualNodes |-> Point(place[n][i - 1], n)])

RemoveNode(points, n) ==
    LET kept == {i \in DOMAIN points : points[i].node # n}
    IN  Ranked(points, [i \in kept |-> Cardinality({j \in kept : j <= i})])

\* Binary search: a point at that place, or else where it would be inserted, and
\* past the last point the first.
\* Mutant: no wrapping.
GetNode_Last(points, h) ==
    LET found == {i \in DOMAIN points : points[i].hash = h}
        before == {i \in DOMAIN points : points[i].hash < h}
    IN
    IF points = <<>> THEN Coordinator
    ELSE IF found # {} THEN points[CHOOSE i \in found : TRUE].node
    ELSE IF before = DOMAIN points THEN points[Len(points)].node
    ELSE points[Cardinality(before) + 1].node
GetNode(points, h) ==
    LET found == {i \in DOMAIN points : points[i].hash = h}
        before == {i \in DOMAIN points : points[i].hash < h}
    IN
    IF points = <<>> THEN Coordinator
    ELSE IF found # {} THEN points[CHOOSE i \in found : TRUE].node
    ELSE points[(Cardinality(before) % Len(points)) + 1].node

NodesOf(points) == {points[i].node : i \in DOMAIN points}

--------------------------------------------------------------------------
(* UserSharder and ShardedPool                                             *)

\* The number of shards is a power of two, so that taking the low half of the hash
\* first changes nothing.
ShardOf(hash) == hash % ShardCount

\* pool_for_user, pool_for_conversation: a node without a pool is a node that was
\* added later; the coordinator reaches every row.
NodeFor(hash) == GetNode(ring, HashOfShard[ShardOf(hash)])
PoolFor(hash) == IF DirectReads /\ NodeFor(hash) \in workers THEN NodeFor(hash) ELSE Coordinator

ShardsInGroup(group, groups) ==
    LET size == ShardCount \div groups IN group * size..group * size + size - 1

\* A number of shards that is no power of two is refused.
Init ==
    /\ \E k \in 0..ShardCount : ShardCount = 2^k
    /\ place \in [Nodes -> [0..VirtualNodes - 1 -> Places]]
    /\ \A n, m \in Nodes, i, j \in 0..VirtualNodes - 1 : place[n][i] = place[m][j] => n = m /\ i = j
    /\ workers \in SUBSET Nodes /\ starting = workers
    /\ ring = <<>> /\ members = {}
    /\ calls = 0

\* The configured workers are added in the order of a hash map.
AddConfigured(n) ==
    /\ n \in starting /\ starting' = starting \ {n}
    /\ ring' = AddNode(ring, n) /\ members' = members \cup {n}
    /\ UNCHANGED <<place, workers, calls>>

\* Only the ring: the map of pools cannot be changed.
AddWorker(n) ==
    /\ starting = {}
    /\ calls < MaxCalls /\ calls' = calls + 1
    /\ ring' = AddNode(ring, n) /\ members' = members \cup {n}
    /\ UNCHANGED <<place, workers, starting>>

RemoveWorker(n) ==
    /\ starting = {}
    /\ calls < MaxCalls /\ calls' = calls + 1
    /\ ring' = RemoveNode(ring, n) /\ members' = members \ {n}
    /\ UNCHANGED <<place, workers, starting>>

Next == \E n \in Nodes : AddConfigured(n) \/ AddWorker(n) \/ RemoveWorker(n)
Spec == Init /\ [][Next]_ringVars

--------------------------------------------------------------------------
\* The nearest point of a member, going round.
Distance(from, to) == IF to >= from THEN to - from ELSE to - from + MaxHash + 1
Nearest(h, n) == \E i \in 0..VirtualNodes - 1 : \A m \in members, j \in 0..VirtualNodes - 1 :
                    Distance(h, place[n][i]) <= Distance(h, place[m][j])

\* sharding/mod.rs, ConsistentHashRing: whatever was added, added again and removed
\* before, the node of a shard depends on the present members only, and another
\* node that comes or goes takes or leaves its own shards and moves no others.
ShardsStay ==
    NodesOf(ring) = members /\ \A s \in 0..ShardCount - 1 :
        LET h == HashOfShard[s]
            node == GetNode(ring, h)
        IN
        /\ IF members = {} THEN node = Coordinator ELSE node \in members /\ Nearest(h, node)
        /\ \A n \in Nodes : GetNode(AddNode(ring, n), h) \in {node, n}
        /\ \A n \in Nodes \ {node} : GetNode(RemoveNode(ring, n), h) = node

\* sharded_pool.rs: a removed worker is read no more.
RemovedIsNotRead == \A hash \in 0..ShardCount : PoolFor(hash) \in (members \cap workers) \cup {Coordinator}

\* sharding/mod.rs, shards_in_group: groups whose number divides that of the shards
\* have every shard once.
GroupsPartition ==
    \A k \in 1..ShardCount : ShardCount % k = 0 =>
        \A s \in 0..ShardCount - 1 : \E g \in 0..k - 1 :
            \A other \in 0..k - 1 : s \in ShardsInGroup(other, k) <=> other = g

\* sharded_pool.rs: rows stay where they are read.
ShardsAreFound == ShardsStay /\ RemovedIsNotRead /\ GroupsPartition

\* Refuted: "batch operations" over another number of groups miss the last shards.
GroupsCover ==
    \A k \in 1..ShardCount : UNION {ShardsInGroup(g, k) : g \in 0..k - 1} = 0..ShardCount - 1
=============================================================================
