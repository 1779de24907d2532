----------------------------- MODULE RingProofs -----------------------------
(* Lemmas about lookups on a ring, and when points of servers clash.        *)
EXTENDS Ring, WellFoundedInduction, TLAPS

(***************************************************************************)
(* Every non-empty set of natural numbers has exactly one least element.   *)
(***************************************************************************)
LEMMA LeastIsLeast ==
    ASSUME NEW S \in SUBSET Nat, S # {}
    PROVE  Least(S) \in S /\ \A y \in S : Least(S) <= y
<1>1. PICK x \in S : \A y \in S : <<y, x>> \notin OpToRel(<, Nat)
  BY WFMin, NatLessThanWellFounded, Zenon
<1>2. \A y \in S : ~(y < x)
  BY <1>1, Zenon DEF OpToRel
<1>3. \A y \in S : x <= y
  BY <1>2, SMT
<1> QED
  BY <1>3, Zenon DEF Least

LEMMA LeastUnique ==
    ASSUME NEW S \in SUBSET Nat, NEW x \in S, \A y \in S : x <= y
    PROVE  Least(S) = x
<1> DEFINE l == Least(S)
<1>1. l \in S /\ \A y \in S : l <= y
  BY LeastIsLeast
<1>2. l <= x /\ x <= l /\ l \in Nat /\ x \in Nat
  BY <1>1
<1> HIDE DEF l
<1>3. l = x
  BY <1>2
<1> QED
  BY <1>3 DEF l

(***************************************************************************)
(* The point that a lookup finds is a point of the ring.                   *)
(***************************************************************************)
LEMMA PointOfRing ==
    ASSUME NEW ring, DOMAIN ring \subseteq Nat, CanGet(ring), NEW h \in Nat
    PROVE  PointOf(ring, h) \in DOMAIN ring
<1> DEFINE above == {p \in DOMAIN ring : h <= p}
<1>1. CASE above # {}
  <2>1. Least(above) \in above
    BY <1>1, LeastIsLeast
  <2> QED
    BY <1>1, <2>1 DEF PointOf
<1>2. CASE above = {}
  <2>1. Least(DOMAIN ring) \in DOMAIN ring
    BY LeastIsLeast DEF CanGet
  <2> QED
    BY <1>2, <2>1 DEF PointOf
<1> QED
  BY <1>1, <1>2

(***************************************************************************)
(* Erasing points other than the one a lookup finds does not change what   *)
(* it finds.                                                               *)
(***************************************************************************)
LEMMA PointKept ==
    ASSUME NEW ring, DOMAIN ring \subseteq Nat, CanGet(ring), NEW h \in Nat,
           NEW points, PointOf(ring, h) \notin points
    PROVE  PointOf(WithoutPoints(ring, points), h) = PointOf(ring, h)
<1> DEFINE less  == WithoutPoints(ring, points)
           above == {p \in DOMAIN ring : h <= p}
           rest  == {p \in DOMAIN less : h <= p}
           q     == PointOf(ring, h)
<1>1. DOMAIN less = DOMAIN ring \ points
  BY DEF WithoutPoints
<1>2. q \in DOMAIN less
  BY <1>1, PointOfRing
<1>3. CASE above # {}
  <2>1. q = Least(above)
    BY <1>3 DEF PointOf
  <2>2. q \in above /\ \A y \in above : q <= y
    BY <2>1, <1>3, LeastIsLeast
  <2>3. rest \subseteq above /\ q \in rest
    BY <1>1, <1>2, <2>2
  <2>4. Least(rest) = q
    BY <2>2, <2>3, LeastUnique
  <2> QED
    BY <2>3, <2>4 DEF PointOf
<1>4. CASE above = {}
  <2>1. q = Least(DOMAIN ring)
    BY <1>4 DEF PointOf
  <2>2. \A y \in DOMAIN ring : q <= y
    BY <2>1, LeastIsLeast DEF CanGet
  <2>3. Least(DOMAIN less) = q
    BY <1>1, <1>2, <2>2, LeastUnique
  <2>4. rest = {}
    BY <1>1, <1>4
  <2> QED
    BY <2>3, <2>4 DEF PointOf
<1> QED
  BY <1>3, <1>4

(***************************************************************************)
(* The points of every server are natural numbers.                         *)
(***************************************************************************)
LEMMA PointsNat == ASSUME NEW n \in Nodes PROVE Points(n) \subseteq Nat
<1>1. ASSUME NEW r \in Replicas PROVE Point(n, r) \in Nat
  BY RingAssumption DEF Point, Names
<1> QED
  BY <1>1 DEF Points

-----------------------------------------------------------------------------
(* When names of virtual nodes clash: "server1" and "10", "server11" and    *)
(* "0" are the same string.                                                 *)

(***************************************************************************)
(* Up to ten servers have different points if std::hash keeps their names  *)
(* apart.                                                                  *)
(***************************************************************************)
THEOREM TenServersDistinct ==
    ASSUME ServerCount <= 10, \A x, y \in Names : Hash[x] = Hash[y] => x = y
    PROVE  DistinctPoints
<1> SUFFICES ASSUME NEW m \in Nodes, NEW n \in Nodes, m # n,
                    NEW r \in Replicas, NEW q \in Replicas, Point(m, r) = Point(n, q)
             PROVE  FALSE
  BY DEF DistinctPoints, Points
<1>1. VirtualName(m, r) = VirtualName(n, q)
  BY DEF Point, Names
<1>2. m \in 1 .. 10 /\ n \in 1 .. 10 /\ r \in 0 .. 99 /\ q \in 0 .. 99
  BY RingAssumption DEF Nodes, Replicas
<1>3. CASE r < 10 /\ q < 10
  BY <1>1, <1>2, <1>3 DEF VirtualName
<1>4. CASE r < 10 /\ q >= 10
  BY <1>1, <1>2, <1>4 DEF VirtualName
<1>5. CASE r >= 10 /\ q < 10
  BY <1>1, <1>2, <1>5 DEF VirtualName
<1>6. CASE r >= 10 /\ q >= 10
  BY <1>1, <1>2, <1>6 DEF VirtualName
<1> QED
  BY <1>2, <1>3, <1>4, <1>5, <1>6

(***************************************************************************)
(* From eleven servers (and eleven replicas) on, points clash whatever     *)
(* std::hash does.                                                         *)
(***************************************************************************)
THEOREM ElevenServersClash ==
    ASSUME ServerCount >= 11, ReplicaCount >= 11
    PROVE  ~DistinctPoints
<1>1. 1 \in Nodes /\ 11 \in Nodes /\ 10 \in Replicas /\ 0 \in Replicas
  BY RingAssumption DEF Nodes, Replicas
<1>2. VirtualName(1, 10) = 110 /\ VirtualName(11, 0) = 110
  BY DEF VirtualName
<1>3. Point(1, 10) = Point(11, 0)
  BY <1>2 DEF Point
<1>4. Point(1, 10) \in Points(1) \cap Points(11)
  BY <1>1, <1>3 DEF Points
<1> QED
  BY <1>1, <1>4 DEF DistinctPoints

=============================================================================
