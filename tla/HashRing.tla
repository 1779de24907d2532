------------------------------ MODULE HashRing ------------------------------
(* The hash ring as an object: servers are added and removed.               *)
EXTENDS Ring

VARIABLES
    ring_,          \* the points and who has them
    members         \* servers that were added and not removed since

ringVars == <<ring_, members>>

RingInit == ring_ = EmptyRing /\ members = {}

AddNode(n) ==
    /\ ring_' = With(ring_, n)
    /\ members' = members \cup {n}

RemoveNode(n) ==
    /\ n \in members
    /\ ring_' = Without(ring_, n)
    /\ members' = members \ {n}

\* initialize_hash_ring adds the servers in the order of their numbers.
AddNext(n) == members = 1 .. n - 1 /\ AddNode(n)

RingNext == \E n \in Nodes : AddNext(n) \/ RemoveNode(n)

RingSpec == RingInit /\ [][RingNext]_ringVars

-----------------------------------------------------------------------------
RingType == /\ members \subseteq Nodes
            /\ DOMAIN ring_ \subseteq Nat
            /\ ring_ \in [DOMAIN ring_ -> Nodes]

\* Every point is one of the points of the server that has it, and that
\* server was not removed (hvac_hashing.h:52-70).
PointsOfMembers == \A p \in DOMAIN ring_ : ring_[p] \in members /\ p \in Points(ring_[p])

\* A lookup never yields a server that was removed (hvac_hashing.h:72-84),
\* even when virtual nodes collide.
LooksUpMembers ==
    CanGet(ring_) => \A key \in Keys : GetNode(ring_, key) \in members

\* Consistent hashing: removing a server moves the keys of that server only
\* (hvac_hashing.h:63-84), so that the descriptors that are open at other
\* servers stay reachable.
ConsistentHashing ==
    [][\A n \in Nodes, key \in Keys :
         n \in members /\ members' = members \ {n} /\ CanGet(ring_) =>
            \/ GetNode(ring_, key) = n
            \/ CanGet(ring_') /\ GetNode(ring_', key) = GetNode(ring_, key)]_ringVars

=============================================================================
