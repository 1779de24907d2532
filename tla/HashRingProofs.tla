--------------------------- MODULE HashRingProofs ---------------------------
(* Proofs about the hash ring, for any number of servers, replicas and keys *)
(* and any hash function.                                                   *)
EXTENDS HashRing, RingProofs

-----------------------------------------------------------------------------
RingInv == RingType /\ PointsOfMembers

LEMMA RingInitInv == RingInit => RingInv
BY DEF RingInit, RingInv, RingType, PointsOfMembers, EmptyRing

LEMMA AddNodeInv ==
    ASSUME RingInv, NEW n \in Nodes, AddNode(n)
    PROVE  RingInv'
<1>1. Points(n) \subseteq Nat
  BY PointsNat
<1>2. RingType'
  BY <1>1 DEF RingInv, RingType, AddNode, With
<1>3. PointsOfMembers'
  BY DEF RingInv, PointsOfMembers, AddNode, With
<1> QED
  BY <1>2, <1>3 DEF RingInv

LEMMA RemoveNodeInv ==
    ASSUME RingInv, NEW n \in Nodes, RemoveNode(n)
    PROVE  RingInv'
<1>1. RingType'
  BY DEF RingInv, RingType, RemoveNode, Without, WithoutPoints
<1>2. PointsOfMembers'
  BY DEF RingInv, PointsOfMembers, RemoveNode, Without, WithoutPoints
<1> QED
  BY <1>1, <1>2 DEF RingInv

LEMMA RingNextInv == RingInv /\ [RingNext]_ringVars => RingInv'
<1> SUFFICES ASSUME RingInv, [RingNext]_ringVars PROVE RingInv'
  OBVIOUS
<1>1. ASSUME NEW n \in Nodes, AddNext(n) PROVE RingInv'
  BY <1>1, AddNodeInv DEF AddNext
<1>2. ASSUME NEW n \in Nodes, RemoveNode(n) PROVE RingInv'
  BY <1>2, RemoveNodeInv
<1>3. CASE UNCHANGED ringVars
  BY <1>3 DEF ringVars, RingInv, RingType, PointsOfMembers
<1> QED
  BY <1>1, <1>2, <1>3 DEF RingNext

(***************************************************************************)
(* Every point of the ring is held by a member, one of whose points it is. *)
(***************************************************************************)
THEOREM RingInvHolds == RingSpec => []RingInv
<1>1. RingInit => RingInv
  BY RingInitInv
<1>2. RingInv /\ [RingNext]_ringVars => RingInv'
  BY RingNextInv
<1> QED
  BY <1>1, <1>2, PTL DEF RingSpec

LEMMA LookupIsPoint ==
    ASSUME RingInv, CanGet(ring_), NEW key \in Keys
    PROVE  /\ PointOf(ring_, KeyHash[key]) \in DOMAIN ring_
           /\ GetNode(ring_, key) \in members
<1>1. KeyHash[key] \in Nat
  BY RingAssumption
<1>2. PointOf(ring_, KeyHash[key]) \in DOMAIN ring_
  BY <1>1, PointOfRing DEF RingInv, RingType
<1> QED
  BY <1>2 DEF RingInv, PointsOfMembers, GetNode

(***************************************************************************)
(* A lookup never yields a server that was removed, even when points of    *)
(* several servers collide.                                                *)
(***************************************************************************)
THEOREM LooksUpMembersHolds == RingSpec => []LooksUpMembers
<1>1. RingInv => LooksUpMembers
  BY LookupIsPoint DEF LooksUpMembers
<1> QED
  BY <1>1, RingInvHolds, PTL

-----------------------------------------------------------------------------
(* Consistent hashing holds where no two servers share a point.            *)

\* Removing n moves the keys of n only.
MovesOnlyItsKeys(n) ==
    \A key \in Keys :
        \/ GetNode(ring_, key) = n
        \/ CanGet(ring_') /\ GetNode(ring_', key) = GetNode(ring_, key)

LEMMA RemovalMovesOnlyItsKeys ==
    ASSUME DistinctPoints, RingInv, CanGet(ring_), NEW n \in Nodes,
           ring_' = Without(ring_, n)
    PROVE  MovesOnlyItsKeys(n)
<1> SUFFICES ASSUME NEW key \in Keys, GetNode(ring_, key) # n
             PROVE  CanGet(ring_') /\ GetNode(ring_', key) = GetNode(ring_, key)
  BY DEF MovesOnlyItsKeys
<1> DEFINE h == KeyHash[key]
           p == PointOf(ring_, h)
<1>1. h \in Nat /\ DOMAIN ring_ \subseteq Nat
  BY RingAssumption DEF RingInv, RingType
<1>2. p \in DOMAIN ring_ /\ ring_[p] \in Nodes /\ p \in Points(ring_[p])
  BY LookupIsPoint DEF RingInv, RingType, PointsOfMembers
<1>3. ring_[p] # n
  BY DEF GetNode
<1>4. p \notin Points(n)
  BY <1>2, <1>3 DEF DistinctPoints
<1>5. PointOf(ring_', h) = p
  BY <1>1, <1>4, PointKept DEF Without
<1>6. p \in DOMAIN ring_' /\ ring_'[p] = ring_[p]
  BY <1>2, <1>4 DEF Without, WithoutPoints
<1> QED
  BY <1>5, <1>6 DEF GetNode, CanGet

(***************************************************************************)
(* The ring hashes consistently as long as the virtual nodes of different  *)
(* servers have different points: with less than eleven servers, whose     *)
(* names cannot clash, that is up to std::hash.                            *)
(***************************************************************************)
THEOREM DistinctPointsHashConsistently ==
    ASSUME DistinctPoints
    PROVE  RingSpec => ConsistentHashing
<1> DEFINE Consistent ==
        \A n \in Nodes, key \in Keys :
             n \in members /\ members' = members \ {n} /\ CanGet(ring_) =>
                \/ GetNode(ring_, key) = n
                \/ CanGet(ring_') /\ GetNode(ring_', key) = GetNode(ring_, key)
<1>1. ASSUME RingInv, [RingNext]_ringVars PROVE [Consistent]_ringVars
  <2> SUFFICES ASSUME RingNext, NEW n \in Nodes, NEW key \in Keys, n \in members,
                      members' = members \ {n}, CanGet(ring_)
               PROVE  \/ GetNode(ring_, key) = n
                      \/ CanGet(ring_') /\ GetNode(ring_', key) = GetNode(ring_, key)
    BY <1>1
  <2>1. ring_' = Without(ring_, n)
    BY DEF RingNext, AddNext, AddNode, RemoveNode
  <2> QED
    BY <1>1, <2>1, RemovalMovesOnlyItsKeys DEF MovesOnlyItsKeys
<1> QED
  BY <1>1, RingInvHolds, PTL DEF RingSpec, ConsistentHashing

=============================================================================
