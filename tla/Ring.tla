-------------------------------- MODULE Ring --------------------------------
(***************************************************************************)
(* The values of a consistent hash ring (hvac_hashing.h): a ring_ is a     *)
(* function from points of the hash space, one for each virtual node, to   *)
(* the server that has the point.  HashRing is the object itself, Failover *)
(* a client whose threads share one.                                       *)
(***************************************************************************)
EXTENDS Naturals

CONSTANTS
    ServerCount,    \* HVAC_SERVER_COUNT
    ReplicaCount,   \* VIRTUAL_NODE_CNT, virtual nodes of a server
    Keys,           \* what is looked up: paths
    Hash,           \* std::hash<string> of the names of virtual nodes
    KeyHash         \* std::hash<string> of the keys

Nodes    == 1 .. ServerCount
Replicas == 0 .. ReplicaCount - 1

\* The name that is hashed for a virtual node is the server's name with the
\* number of the replica behind it.  Every server is called "server" and its
\* number, so the name is, after "server", the digits of n and then those of r.
VirtualName(n, r) == n * (IF r < 10 THEN 10 ELSE 100) + r

Names == {VirtualName(n, r) : n \in Nodes, r \in Replicas}

ASSUME RingAssumption ==
    /\ ServerCount \in Nat \ {0} /\ ReplicaCount \in 1 .. 100
    /\ Hash \in [Names -> Nat]
    /\ KeyHash \in [Keys -> Nat]

Point(n, r) == Hash[VirtualName(n, r)]
Points(n)   == {Point(n, r) : r \in Replicas}

\* No point is the point of two servers.
DistinctPoints == \A m, n \in Nodes : m # n => Points(m) \cap Points(n) = {}

EmptyRing == [p \in {} |-> 0]

\* AddNode: ring_[hash] = node overwrites the point of another server.
With(ring, n) ==
    [p \in DOMAIN ring \cup Points(n) |-> IF p \in Points(n) THEN n ELSE ring[p]]

\* RemoveNode: ring_.erase(hash), whichever server has the point.
WithoutPoints(ring, points) == [p \in DOMAIN ring \ points |-> ring[p]]
Without(ring, n) == WithoutPoints(ring, Points(n))

Least(S) == CHOOSE x \in S : \A y \in S : x <= y

\* lower_bound(hash), or begin() when that is the end.
PointOf(ring, h) ==
    LET above == {p \in DOMAIN ring : h <= p}
    IN  IF above # {} THEN Least(above) ELSE Least(DOMAIN ring)

\* GetNode throws when the ring is empty.
CanGet(ring)       == DOMAIN ring # {}
GetNode(ring, key) == ring[PointOf(ring, KeyHash[key])]

=============================================================================
