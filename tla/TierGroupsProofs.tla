-------------------------- MODULE TierGroupsProofs --------------------------
(***************************************************************************)
(* Theorems about TierGroups: whatever the order of the merges, the group  *)
(* of a device is the least address of its connected component.            *)
(*                                                                         *)
(* No induction along chains of parents is needed.  A set of devices is    *)
(* saturated when it holds a device exactly if it holds its parent; the    *)
(* trees of the forest are told apart by saturated sets.  At the end these *)
(* are exactly the sets no link leaves (MergedInv, WithinInv).             *)
(***************************************************************************)
EXTENDS TierGroups, TLAPS, WellFoundedInduction

Saturated(p, S) == \A x \in DOMAIN p : x \in S <=> p[x] \in S
Descends(p) == \A x \in DOMAIN p : p[x] <= x

Correct(t) == \A a \in Known :
    /\ groups[t][a] \in Component(a, t)
    /\ \A b \in Component(a, t) : groups[t][a] <= b

\* A merged pair is in one tree: no saturated set separates it.
MergedInv == \A S \in SUBSET Known : Saturated(parent, S) =>
    \A e \in Edges(adjacency, tier) \ edges :
        e[2] \in Known => (e[1] \in S <=> e[2] \in S)

\* A tree lies within a component.
WithinInv == \A S \in SUBSET Known : Closed(S, tier) => Saturated(parent, S)

\* A device whose group is known hangs directly below its root.
GroupInv == \A a \in Known : groups[tier][a] # None =>
    /\ edges = {}
    /\ parent[a] = groups[tier][a]
    /\ parent[parent[a]] = parent[a]

GInv ==
    /\ TypeOK
    /\ Descends(parent)
    /\ tier = 3 => edges = {}
    /\ tier \in Tiers =>
          edges \subseteq Edges(adjacency, tier) /\ MergedInv /\ WithinInv /\ GroupInv
    /\ \A t \in Tiers : t > tier => \A a \in Known : groups[t][a] = None
    /\ \A t \in Tiers : t < tier => Correct(t)

-----------------------------------------------------------------------------
(* Paths, compression and linking.                                         *)

\* A path is closed under parents and within every such set that holds its start.
LEMMA PathClosed ==
    ASSUME NEW K, NEW p \in [K -> K], NEW x \in K
    PROVE  /\ x \in Path(p, x) /\ Path(p, x) \subseteq K
           /\ \A y \in Path(p, x) : p[y] \in Path(p, x)
           /\ \A S \in SUBSET K : x \in S /\ (\A z \in S : p[z] \in S) => Path(p, x) \subseteq S
BY DEF Path

\* A saturated set holds all of a path or nothing of it.
LEMMA PathSame ==
    ASSUME NEW K, NEW p \in [K -> K], NEW x \in K, NEW y \in Path(p, x),
           NEW S \in SUBSET K, Saturated(p, S)
    PROVE  x \in S <=> y \in S
<1>1. CASE x \in S
  <2>1. \A z \in S : p[z] \in S
    BY DEF Saturated
  <2>2. QED
    BY <1>1, <2>1, PathClosed
<1>2. CASE x \notin S
  <2>1. \A z \in K \ S : p[z] \in K \ S
    BY DEF Saturated
  <2>2. Path(p, x) \subseteq K \ S
    BY <1>2, <2>1, PathClosed
  <2>3. QED
    BY <1>2, <2>2
<1>3. QED
  BY <1>1, <1>2

\* The root of a path is its least address.
LEMMA RootLeast ==
    ASSUME NEW K \in SUBSET Nat, NEW p \in [K -> K], Descends(p), NEW x \in K,
           NEW r \in Roots(p, x), NEW y \in Path(p, x)
    PROVE  r <= y
<1> DEFINE T == {z \in Path(p, x) : r \in Path(p, z)}
<1>1. r \in Path(p, x) /\ p[r] = r /\ Path(p, x) \subseteq K
  BY PathClosed DEF Roots
<1>2. x \in T
  BY <1>1, PathClosed
<1>3. ASSUME NEW z \in T PROVE p[z] \in T
  <2>1. z \in K /\ p[z] \in K /\ p[z] \in Path(p, x) /\ r \in Path(p, z)
    BY <1>1, PathClosed
  <2>2. CASE z = r
    BY <1>1, <1>3, <2>2
  <2>3. CASE z # r
    <3> DEFINE U == {z} \cup Path(p, p[z])
    <3>0. /\ p[z] \in Path(p, p[z]) /\ Path(p, p[z]) \subseteq K
          /\ \A u \in Path(p, p[z]) : p[u] \in Path(p, p[z])
      BY <2>1, PathClosed
    <3>1. z \in U /\ U \in SUBSET K /\ \A u \in U : p[u] \in U
      BY <2>1, <3>0
    <3>2. Path(p, z) \subseteq U
      <4> HIDE DEF U
      <4>1. QED
        BY <2>1, <3>1, PathClosed
    <3>3. QED
      BY <2>1, <2>3, <3>2
  <2>4. QED
    BY <2>2, <2>3
<1>4. T \in SUBSET K
  BY <1>1
<1>5. y \in T
  <2> HIDE DEF T
  <2>1. QED
    BY <1>2, <1>3, <1>4, PathClosed
<1>6. r \in Path(p, y) /\ y \in K
  BY <1>1, <1>5
<1> DEFINE W == {w \in K : w <= y}
<1>7. y \in W /\ W \in SUBSET K
  BY <1>6
<1>8. ASSUME NEW w \in W PROVE p[w] \in W
  <2>1. w \in K /\ p[w] \in K /\ p[w] <= w /\ w <= y
    BY DEF Descends
  <2>2. w \in Nat /\ p[w] \in Nat /\ y \in Nat
    BY <1>6, <2>1
  <2>3. p[w] <= y
    BY <2>1, <2>2
  <2>4. QED
    BY <2>1, <2>3
<1>9. Path(p, y) \subseteq W
  <2> HIDE DEF W
  <2>1. QED
    BY <1>6, <1>7, <1>8, PathClosed
<1>10. QED
  BY <1>6, <1>9

\* A path has a root, and only one: its least address is its own parent.
LEMMA RootOfPath ==
    ASSUME NEW K \in SUBSET Nat, NEW p \in [K -> K], Descends(p), NEW x \in K
    PROVE  \E r \in K : Roots(p, x) = {r}
<1> DEFINE P == Path(p, x)
<1>1. P \subseteq K /\ x \in P /\ \A y \in P : p[y] \in P
  BY PathClosed
<1> HIDE DEF P
<1>2. PICK m \in P : \A k \in P : <<k, m>> \notin OpToRel(<, Nat)
  BY <1>1, NatLessThanWellFounded, WFMin
<1>3. m \in Nat /\ p[m] \in P /\ p[m] \in Nat /\ p[m] <= m
  BY <1>1 DEF Descends
<1>4. ASSUME p[m] < m PROVE FALSE
  BY <1>2, <1>3, <1>4 DEF OpToRel
<1>5. p[m] = m
  BY <1>3, <1>4
<1>6. m \in Roots(p, x)
  BY <1>5 DEF Roots, P
<1>7. ASSUME NEW r \in Roots(p, x) PROVE r = m
  <2>1. r \in P /\ m \in P
    BY DEF Roots, P
  <2>2. r <= m /\ m <= r
    BY <1>6, <2>1, RootLeast DEF P
  <2>3. QED
    BY <1>1, <1>3, <2>1, <2>2
<1>8. QED
  BY <1>1, <1>6, <1>7

\* Compression keeps the trees, the order, and what hangs directly below a root.
LEMMA CompressKeeps ==
    ASSUME NEW K \in SUBSET Nat, NEW p \in [K -> K], Descends(p), NEW x \in K,
           NEW r \in Roots(p, x)
    PROVE  /\ Compress(p, x, r) \in [K -> K]
           /\ Descends(Compress(p, x, r))
           /\ \A S \in SUBSET K : Saturated(Compress(p, x, r), S) <=> Saturated(p, S)
           /\ \A z \in K : p[p[z]] = p[z] => Compress(p, x, r)[z] = p[z]
           /\ Compress(p, x, r)[x] = r
           /\ r \in K
<1> DEFINE q == Compress(p, x, r)
           P == Path(p, x)
<1>1. r \in P /\ p[r] = r /\ P \subseteq K /\ x \in P /\ \A y \in P : p[y] \in P
  BY PathClosed DEF Roots
<1>2. q = [y \in K |-> IF y \in P THEN r ELSE p[y]]
  BY DEF Compress
<1> HIDE DEF q, P
<1>3. q \in [K -> K]
  BY <1>1, <1>2
<1>4. \A y \in P : r <= y
  BY RootLeast DEF P
<1>5. Descends(q)
  BY <1>1, <1>2, <1>4 DEF Descends
<1>6. ASSUME NEW S \in SUBSET K, Saturated(q, S) PROVE Saturated(p, S)
  <2>1. SUFFICES ASSUME NEW y \in K PROVE y \in S <=> p[y] \in S
    BY DEF Saturated
  <2>2. CASE y \in P
    <3>1. q[y] = r /\ q[p[y]] = r /\ p[y] \in K
      BY <1>1, <1>2, <2>2
    <3>2. QED
      BY <1>3, <1>6, <3>1 DEF Saturated
  <2>3. CASE y \notin P
    BY <1>2, <1>3, <1>6, <2>3 DEF Saturated
  <2>4. QED
    BY <2>2, <2>3
<1>7. ASSUME NEW S \in SUBSET K, Saturated(p, S) PROVE Saturated(q, S)
  <2>1. SUFFICES ASSUME NEW y \in K PROVE y \in S <=> q[y] \in S
    BY <1>3 DEF Saturated
  <2>2. CASE y \in P
    <3>1. (x \in S <=> y \in S) /\ (x \in S <=> r \in S)
      BY <1>1, <1>7, <2>2, PathSame DEF P
    <3>2. QED
      BY <1>2, <2>2, <3>1
  <2>3. CASE y \notin P
    BY <1>2, <1>7, <2>3 DEF Saturated
  <2>4. QED
    BY <2>2, <2>3
<1>8. ASSUME NEW z \in K, p[p[z]] = p[z] PROVE q[z] = p[z]
  <2>1. CASE z \in P
    <3>1. p[z] \in Roots(p, x) /\ p[z] \in P
      BY <1>1, <1>8, <2>1 DEF Roots, P
    <3>2. p[z] <= r /\ r <= p[z]
      BY <1>1, <1>4, <3>1, RootLeast DEF P
    <3>3. p[z] \in Nat /\ r \in Nat
      BY <1>1
    <3>4. p[z] = r
      BY <3>2, <3>3
    <3>5. QED
      BY <1>2, <2>1, <3>4
  <2>2. CASE z \notin P
    BY <1>2, <2>2
  <2>3. QED
    BY <2>1, <2>2
<1>9. QED
  BY <1>1, <1>2, <1>3, <1>5, <1>6, <1>7, <1>8 DEF q

\* Linking two roots: a saturated set afterwards is one that was saturated and
\* does not separate the roots, and the other way round.
LEMMA LinkKeeps ==
    ASSUME NEW K \in SUBSET Nat, NEW p \in [K -> K], Descends(p),
           NEW r \in K, NEW s \in K, p[r] = r, p[s] = s
    PROVE  /\ Link(p, r, s) \in [K -> K]
           /\ Descends(Link(p, r, s))
           /\ \A S \in SUBSET K : Saturated(Link(p, r, s), S) <=>
                   Saturated(p, S) /\ (r \in S <=> s \in S)
<1> DEFINE q == Link(p, r, s)
<1>1. r \in Nat /\ s \in Nat
  OBVIOUS
<1>2. CASE r < s
  <2>1. Link(p, r, s) = [p EXCEPT ![s] = r]
    BY <1>2 DEF Link
  <2>2. Link(p, r, s) \in [K -> K] /\ r <= s
    BY <1>1, <1>2, <2>1
  <2>3. Descends(Link(p, r, s))
    BY <2>1, <2>2 DEF Descends
  <2>4. ASSUME NEW S \in SUBSET K
        PROVE  Saturated(Link(p, r, s), S) <=> Saturated(p, S) /\ (r \in S <=> s \in S)
    <3>1. DOMAIN q = K /\ DOMAIN p = K /\ (\A x \in K : x # s => q[x] = p[x]) /\ q[s] = r
      BY <2>1
    <3> HIDE DEF q
    <3>2. ASSUME Saturated(q, S) PROVE Saturated(p, S) /\ (r \in S <=> s \in S)
      BY <3>1, <3>2 DEF Saturated
    <3>3. ASSUME Saturated(p, S), r \in S <=> s \in S PROVE Saturated(q, S)
      BY <3>1, <3>3 DEF Saturated
    <3> QED BY <3>2, <3>3 DEF q
  <2>5. QED
    BY <2>2, <2>3, <2>4
<1>3. CASE ~ (r < s)
  <2>1. Link(p, r, s) = [p EXCEPT ![r] = s] /\ s <= r
    BY <1>1, <1>3 DEF Link
  <2>2. Link(p, r, s) \in [K -> K] /\ Descends(Link(p, r, s))
    BY <1>1, <2>1 DEF Descends
  <2>3. ASSUME NEW S \in SUBSET K
        PROVE  Saturated(Link(p, r, s), S) <=> Saturated(p, S) /\ (r \in S <=> s \in S)
    <3>1. DOMAIN q = K /\ DOMAIN p = K /\ (\A x \in K : x # r => q[x] = p[x]) /\ q[r] = s
      BY <2>1
    <3> HIDE DEF q
    <3>2. ASSUME Saturated(q, S) PROVE Saturated(p, S) /\ (r \in S <=> s \in S)
      BY <3>1, <3>2 DEF Saturated
    <3>3. ASSUME Saturated(p, S), r \in S <=> s \in S PROVE Saturated(q, S)
      BY <3>1, <3>3 DEF Saturated
    <3> QED BY <3>2, <3>3 DEF q
  <2>4. QED
    BY <2>2, <2>3
<1>4. QED
  BY <1>2, <1>3

\* The pairs that are merged are the links of the tier.
LEMMA EdgesAreLinks ==
    ASSUME NEW adj, NEW K, adj \in [K -> PeerSets], NEW t \in Tiers,
           NEW a \in K, NEW b \in Addrs
    PROVE  <<a, b>> \in Edges(adj, t) <=> \E l \in 0..t : b \in adj[a][l]
<1>1. DOMAIN adj = K /\ adj[a] \in PeerSets
  OBVIOUS
<1>2. CASE t = 0
  BY <1>1, <1>2 DEF Edges, PeersUpToTier
<1>3. CASE t = 1
  BY <1>1, <1>3 DEF Edges, PeersUpToTier
<1>4. CASE t = 2
  BY <1>1, <1>4 DEF Edges, PeersUpToTier
<1>5. QED
  BY <1>2, <1>3, <1>4 DEF Tiers

-----------------------------------------------------------------------------
(* The invariant.                                                          *)

LEMMA InitGInv == Init => GInv
<1> SUFFICES ASSUME Init PROVE GInv
  OBVIOUS
<1>1. PICK T \in Topologies : adjacency = BuildAdjacency(T)
  BY DEF Init
<1>2. IsTopology(T)
  BY TopologiesAssumption
<1>3. adjacency \in [Known -> PeerSets] /\ Known \subseteq Addrs
  BY <1>1, <1>2 DEF BuildAdjacency, IsTopology, Known
<1>4. Known \subseteq Nat
  BY <1>3, AddrsAssumption
<1>5. edges \subseteq Known \X Addrs /\ edges = Edges(adjacency, 0) /\ tier = 0
  BY DEF Init, Edges, Known
<1>6. parent \in [Known -> Known] /\ \A x \in Known : parent[x] = x
  BY DEF Init, Identity
<1>7. groups = [t \in Tiers |-> [a \in Known |-> None]]
  BY DEF Init
<1>8. TypeOK
  BY <1>3, <1>5, <1>6, <1>7 DEF TypeOK
<1>9. Descends(parent) /\ \A S \in SUBSET Known : Saturated(parent, S)
  BY <1>4, <1>6 DEF Descends, Saturated
<1>10. MergedInv /\ WithinInv /\ GroupInv
  BY <1>5, <1>7, <1>9 DEF MergedInv, WithinInv, GroupInv, Tiers
<1>11. \A t \in Tiers : (\A a \in Known : groups[t][a] = None) /\ ~ (t < tier)
  BY <1>5, <1>7 DEF Tiers
<1>12. QED
  BY <1>5, <1>8, <1>9, <1>10, <1>11 DEF GInv

\* What does not change with the forest.
LEMMA SameTopology ==
    ASSUME adjacency' = adjacency
    PROVE  /\ Known' = Known
           /\ \A t : \A S : Closed(S, t)' <=> Closed(S, t)
           /\ \A t : \A a : Component(a, t)' = Component(a, t)
<1>1. Known' = Known
  BY DEF Known
<1>2. \A t : \A S : Closed(S, t)' <=> Closed(S, t)
  BY <1>1 DEF Closed
<1>3. QED
  BY <1>1, <1>2 DEF Component, ClosedSets

LEMMA UnionGInv ==
    ASSUME GInv, NEW a \in Known, NEW b \in Addrs, Union(a, b)
    PROVE  GInv'
<1>1. /\ Known' = Known /\ Known \subseteq Nat
      /\ \A S : Closed(S, tier)' <=> Closed(S, tier)
      /\ \A t : Correct(t)' <=> Correct(t)
  <2>1. adjacency' = adjacency /\ groups' = groups /\ tier' = tier
    BY DEF Union
  <2>2. Known' = Known /\ Known \subseteq Nat
    BY <2>1, AddrsAssumption DEF Known, GInv, TypeOK
  <2>3. QED
    BY <2>1, <2>2, SameTopology DEF Correct
<1>2. /\ <<a, b>> \in edges /\ edges' = edges \ {<<a, b>>}
      /\ adjacency' = adjacency /\ tier' = tier /\ groups' = groups
  BY DEF Union
<1>3. tier \in Tiers
  BY <1>2 DEF GInv, TypeOK, Tiers
<1>4. GroupInv'
  BY <1>1, <1>2, <1>3 DEF GInv, GroupInv
<1>5. \A e \in Edges(adjacency, tier) \ edges' :
          e \in Edges(adjacency, tier) \ edges \/ e = <<a, b>>
  BY <1>2
<1>6. SUFFICES parent' \in [Known -> Known] /\ Descends(parent') /\ MergedInv' /\ WithinInv'
  BY <1>1, <1>2, <1>3, <1>4 DEF GInv, TypeOK
<1>7. CASE b \notin Known
  <2>1. parent' = parent
    BY <1>7 DEF Union
  <2>2. QED
    BY <1>1, <1>2, <1>3, <1>5, <1>7, <2>1 DEF GInv, TypeOK, MergedInv, WithinInv
<1>8. CASE b \in Known
  <2>1. PICK r \in Roots(parent, a) : \E s \in Roots(Compress(parent, a, r), b) :
            parent' = Link(Compress(Compress(parent, a, r), b, s), r, s)
    BY <1>8 DEF Union
  <2> DEFINE p == Compress(parent, a, r)
  <2>2. PICK s \in Roots(p, b) : parent' = Link(Compress(p, b, s), r, s)
    BY <2>1
  <2> DEFINE q == Compress(p, b, s)
  <2>3. parent \in [Known -> Known] /\ Descends(parent) /\ parent[r] = r
    BY DEF GInv, TypeOK, Roots
  <2>4. /\ p \in [Known -> Known] /\ Descends(p) /\ r \in Known /\ p[r] = r /\ p[a] = r
        /\ \A S \in SUBSET Known : Saturated(p, S) <=> Saturated(parent, S)
    <3>1. /\ p \in [Known -> Known] /\ Descends(p) /\ r \in Known /\ p[a] = r
          /\ \A S \in SUBSET Known : Saturated(p, S) <=> Saturated(parent, S)
          /\ \A z \in Known : parent[parent[z]] = parent[z] => p[z] = parent[z]
      BY <1>1, <2>3, CompressKeeps
    <3>2. QED
      BY <2>3, <3>1
  <2>5. p[s] = s
    BY DEF Roots
  <2> HIDE DEF p
  <2>6. /\ q \in [Known -> Known] /\ Descends(q) /\ s \in Known /\ q[s] = s /\ q[b] = s
        /\ q[r] = r
        /\ \A S \in SUBSET Known : Saturated(q, S) <=> Saturated(p, S)
    BY <1>1, <1>8, <2>4, <2>5, CompressKeeps
  <2>7. parent' = Link(q, r, s)
    BY <2>2
  <2> HIDE DEF q
  <2>8. /\ parent' \in [Known -> Known] /\ Descends(parent')
        /\ \A S \in SUBSET Known :
              Saturated(parent', S) <=> Saturated(parent, S) /\ (r \in S <=> s \in S)
    BY <1>1, <2>4, <2>6, <2>7, LinkKeeps
  <2>9. ASSUME NEW S \in SUBSET Known, Saturated(parent, S)
        PROVE  (a \in S <=> r \in S) /\ (b \in S <=> s \in S)
    BY <1>8, <2>4, <2>6, <2>9 DEF Saturated
  <2>10. MergedInv'
    <3>1. SUFFICES ASSUME NEW S \in SUBSET Known, Saturated(parent', S),
                          NEW e \in Edges(adjacency, tier) \ edges', e[2] \in Known
                   PROVE  e[1] \in S <=> e[2] \in S
      BY <1>1, <1>2 DEF MergedInv
    <3>2. Saturated(parent, S) /\ (r \in S <=> s \in S)
      BY <2>8, <3>1
    <3>3. CASE e = <<a, b>>
      BY <2>9, <3>2, <3>3
    <3>4. CASE e \in Edges(adjacency, tier) \ edges
      BY <1>3, <3>1, <3>2, <3>4 DEF GInv, MergedInv
    <3>5. QED
      BY <1>5, <3>3, <3>4
  <2>11. WithinInv'
    <3>1. SUFFICES ASSUME NEW S \in SUBSET Known, Closed(S, tier)
                   PROVE  Saturated(parent', S)
      BY <1>1, <1>2 DEF WithinInv
    <3>2. Saturated(parent, S)
      BY <1>3, <3>1 DEF GInv, WithinInv
    <3>3. \E l \in 0..tier : b \in adjacency[a][l]
      <4>1. <<a, b>> \in Edges(adjacency, tier) /\ adjacency \in [Known -> PeerSets]
        BY <1>2, <1>3 DEF GInv, TypeOK
      <4>2. QED
        BY <1>3, <4>1, EdgesAreLinks
    <3>4. a \in S <=> b \in S
      BY <1>8, <3>1, <3>3 DEF Closed
    <3>5. QED
      BY <2>8, <2>9, <3>2, <3>4
  <2>12. QED
    BY <2>8, <2>10, <2>11
<1>9. QED
  BY <1>7, <1>8

LEMMA GroupGInv ==
    ASSUME GInv, NEW a \in Known, Group(a)
    PROVE  GInv'
<1>1. /\ adjacency' = adjacency /\ tier' = tier /\ edges' = edges /\ edges = {}
      /\ tier \in Tiers /\ groups[tier][a] = None
  BY DEF Group
<1>2. PICK r \in Roots(parent, a) :
          /\ parent' = Compress(parent, a, r)
          /\ groups' = [groups EXCEPT ![tier][a] = r]
  BY DEF Group
<1>3. /\ Known' = Known /\ Known \subseteq Nat
      /\ \A S : Closed(S, tier)' <=> Closed(S, tier)
      /\ \A t, c : Component(c, t)' = Component(c, t)
  <2>1. Known' = Known /\ Known \subseteq Nat
    BY <1>1, AddrsAssumption DEF Known, GInv, TypeOK
  <2>2. QED
    BY <1>1, <2>1, SameTopology
<1>4. parent \in [Known -> Known] /\ Descends(parent) /\ parent[r] = r
  BY DEF GInv, TypeOK, Roots
<1>5. /\ parent' \in [Known -> Known] /\ Descends(parent') /\ r \in Known /\ parent'[a] = r
      /\ \A S \in SUBSET Known : Saturated(parent', S) <=> Saturated(parent, S)
      /\ \A z \in Known : parent[parent[z]] = parent[z] => parent'[z] = parent[z]
  <2> DEFINE q == Compress(parent, a, r)
  <2>1. /\ q \in [Known -> Known] /\ Descends(q) /\ r \in Known /\ q[a] = r
        /\ \A S \in SUBSET Known : Saturated(q, S) <=> Saturated(parent, S)
        /\ \A z \in Known : parent[parent[z]] = parent[z] => q[z] = parent[z]
    BY <1>3, <1>4, CompressKeeps
  <2> HIDE DEF q
  <2>2. parent' = q
    BY <1>2 DEF q
  <2>3. QED
    BY <2>1, <2>2
<1>6. /\ groups' \in [Tiers -> [Known -> Known \cup {None}]]
      /\ \A t \in Tiers : t # tier => groups'[t] = groups[t]
      /\ groups'[tier] = [groups[tier] EXCEPT ![a] = r]
  BY <1>1, <1>2, <1>5 DEF GInv, TypeOK
<1>7. TypeOK'
  BY <1>1, <1>3, <1>5, <1>6 DEF GInv, TypeOK
<1>8. MergedInv' /\ WithinInv'
  BY <1>1, <1>3, <1>5 DEF GInv, MergedInv, WithinInv
<1>9. GroupInv'
  <2>1. SUFFICES ASSUME NEW c \in Known, groups'[tier][c] # None
                 PROVE  parent'[c] = groups'[tier][c] /\ parent'[parent'[c]] = parent'[c]
    BY <1>1, <1>3 DEF GroupInv
  <2>2. parent'[r] = r
    BY <1>4, <1>5
  <2>3. CASE c = a
    <3>1. groups'[tier][c] = r
      BY <1>1, <1>6, <2>3 DEF GInv, TypeOK
    <3>2. QED
      BY <1>5, <2>2, <2>3, <3>1
  <2>4. CASE c # a
    <3>1. groups'[tier][c] = groups[tier][c]
      BY <1>1, <1>6, <2>4 DEF GInv, TypeOK
    <3>2. parent[c] = groups[tier][c] /\ parent[parent[c]] = parent[c] /\ parent[c] \in Known
      BY <1>1, <1>4, <2>1, <3>1 DEF GInv, GroupInv
    <3>3. parent'[c] = parent[c] /\ parent'[parent[c]] = parent[c]
      BY <1>5, <3>2
    <3>4. QED
      BY <3>1, <3>2, <3>3
  <2>5. QED
    BY <2>3, <2>4
<1>10. \A t \in Tiers : t > tier => \A c \in Known : groups'[t][c] = None
  BY <1>1, <1>6 DEF GInv, Tiers
<1>11. \A t \in Tiers : t < tier => Correct(t)'
  <2>1. SUFFICES ASSUME NEW t \in Tiers, t < tier PROVE Correct(t)'
    OBVIOUS
  <2>2. groups'[t] = groups[t] /\ Correct(t)
    BY <1>1, <1>6, <2>1 DEF GInv, Tiers
  <2>3. QED
    BY <1>3, <2>2 DEF Correct
<1>12. QED
  BY <1>1, <1>3, <1>5, <1>7, <1>8, <1>9, <1>10, <1>11 DEF GInv

\* When every device hangs directly below its root, the trees are the components.
LEMMA TierIsCorrect ==
    ASSUME GInv, tier \in Tiers, edges = {}, \A a \in Known : groups[tier][a] # None
    PROVE  Correct(tier)
<1>1. /\ parent \in [Known -> Known] /\ Descends(parent)
      /\ adjacency \in [Known -> PeerSets] /\ Known \subseteq Addrs
      /\ \A x \in Known : parent[x] = groups[tier][x] /\ parent[parent[x]] = parent[x]
  BY DEF GInv, TypeOK, GroupInv
<1>2. ASSUME NEW S \in SUBSET Known, Saturated(parent, S) PROVE Closed(S, tier)
  <2>1. SUFFICES ASSUME NEW a \in Known, NEW b \in Known,
                        \E l \in 0..tier : b \in adjacency[a][l]
                 PROVE  a \in S <=> b \in S
    BY DEF Closed
  <2>2. <<a, b>> \in Edges(adjacency, tier)
    BY <1>1, <2>1, EdgesAreLinks
  <2>3. QED
    BY <1>2, <2>2 DEF GInv, MergedInv
<1>3. SUFFICES ASSUME NEW a \in Known
               PROVE  /\ groups[tier][a] \in Component(a, tier)
                      /\ \A b \in Component(a, tier) : groups[tier][a] <= b
  BY DEF Correct
<1>4. groups[tier][a] \in Component(a, tier)
  <2>1. SUFFICES ASSUME NEW S \in SUBSET Known, Closed(S, tier), a \in S
                 PROVE  parent[a] \in S
    BY <1>1 DEF Component, ClosedSets
  <2>2. Saturated(parent, S)
    BY <2>1 DEF GInv, WithinInv
  <2>3. QED
    BY <1>1, <2>1, <2>2 DEF Saturated
<1>5. ASSUME NEW b \in Component(a, tier) PROVE groups[tier][a] <= b
  <2> DEFINE S == {x \in Known : parent[x] = parent[a]}
  <2>1. Saturated(parent, S)
    BY <1>1 DEF Saturated
  <2>2. a \in S /\ S \in SUBSET Known
    OBVIOUS
  <2> HIDE DEF S
  <2>3. Closed(S, tier)
    BY <1>2, <2>1, <2>2
  <2>4. b \in S /\ b \in Known
    BY <2>2, <2>3 DEF Component, ClosedSets
  <2>5. parent[b] = parent[a] /\ parent[b] <= b
    BY <1>1, <2>4 DEF S, Descends
  <2>6. QED
    BY <1>1, <2>5
<1>6. QED
  BY <1>4, <1>5

LEMMA NextTierGInv ==
    ASSUME GInv, NextTier
    PROVE  GInv'
<1>1. /\ tier \in Tiers /\ edges = {} /\ tier' = tier + 1 /\ parent' = Identity
      /\ adjacency' = adjacency /\ groups' = groups
      /\ edges' = IF tier < 2 THEN Edges(adjacency, tier + 1) ELSE {}
      /\ \A a \in Known : groups[tier][a] # None
  BY DEF NextTier
<1>2. /\ Known' = Known /\ Known \subseteq Nat
      /\ \A t : Correct(t)' <=> Correct(t)
  <2>1. Known' = Known /\ Known \subseteq Nat
    BY <1>1, AddrsAssumption DEF Known, GInv, TypeOK
  <2>2. QED
    BY <1>1, <2>1, SameTopology DEF Correct
<1>3. tier' \in 0..3 /\ \A t \in Tiers : t < tier' => t < tier \/ t = tier
  BY <1>1 DEF Tiers
<1>4. edges' \subseteq Known \X Addrs
  BY <1>1 DEF Edges, Known
<1>5. /\ parent' \in [Known -> Known] /\ Descends(parent')
      /\ \A S \in SUBSET Known : Saturated(parent', S)
  BY <1>1, <1>2 DEF Identity, Descends, Saturated
<1>6. TypeOK'
  BY <1>1, <1>2, <1>3, <1>4, <1>5 DEF GInv, TypeOK
<1>7. tier' = 3 => edges' = {}
  BY <1>1 DEF Tiers
<1>8. tier' \in Tiers => edges' = Edges(adjacency, tier')
  BY <1>1 DEF Tiers
<1>9. \A t \in Tiers : t > tier' => \A a \in Known : groups'[t][a] = None
  BY <1>1 DEF GInv, Tiers
<1>10. tier' \in Tiers => \A a \in Known : groups'[tier'][a] = None
  <2>1. tier' > tier
    BY <1>1 DEF Tiers
  <2>2. QED
    BY <1>1, <2>1 DEF GInv
<1>11. tier' \in Tiers => MergedInv' /\ WithinInv' /\ GroupInv'
  BY <1>1, <1>2, <1>5, <1>8, <1>10 DEF MergedInv, WithinInv, GroupInv
<1>12. \A t \in Tiers : t < tier' => Correct(t)'
  BY <1>1, <1>2, <1>3, TierIsCorrect DEF GInv
<1>13. QED
  BY <1>1, <1>2, <1>5, <1>6, <1>7, <1>8, <1>9, <1>11, <1>12 DEF GInv

LEMMA NextGInv == GInv /\ [Next]_vars => GInv'
<1> SUFFICES ASSUME GInv, [Next]_vars PROVE GInv'
  OBVIOUS
<1>1. ASSUME NEW a \in Known, Group(a) PROVE GInv'
  BY <1>1, GroupGInv
<1>2. ASSUME NEW a \in Known, NEW b \in Addrs, Union(a, b) PROVE GInv'
  BY <1>2, UnionGInv
<1>3. CASE NextTier
  BY <1>3, NextTierGInv
<1>4. CASE UNCHANGED vars
  <2>1. /\ adjacency' = adjacency /\ tier' = tier /\ edges' = edges
        /\ parent' = parent /\ groups' = groups
    BY <1>4 DEF vars
  <2>2. /\ Known' = Known
        /\ \A S : Closed(S, tier)' <=> Closed(S, tier)
        /\ \A t : Correct(t)' <=> Correct(t)
    BY <2>1, SameTopology DEF Correct
  <2>3. QED
    BY <2>1, <2>2 DEF GInv, TypeOK, MergedInv, WithinInv, GroupInv
<1>5. QED
  BY <1>1, <1>2, <1>3, <1>4 DEF Next, Done

LEMMA GInvariance == Spec => []GInv
<1>1. QED
  BY InitGInv, NextGInv, PTL DEF Spec

-----------------------------------------------------------------------------
(* The theorems.                                                           *)

\* The union-find stays well typed, for any set of devices and any topology.
THEOREM TierGroupsTypeCorrect == Spec => []TypeOK
<1>1. GInv => TypeOK
  BY DEF GInv
<1>2. QED
  BY <1>1, GInvariance, PTL

\* The group of a device is the least address of its connected component,
\* whatever the order in which maps are iterated (connectedComponents).
THEOREM GroupsCorrect == Spec => []GroupsAreComponents
<1>1. GInv => GroupsAreComponents
  BY DEF GInv, GroupsAreComponents, Correct, Tiers
<1>2. QED
  BY <1>1, GInvariance, PTL

\* Devices that share a group share the groups of all higher tiers
\* (GenerateTierGroupsFromTopo, peersUpToTier).
THEOREM TiersAreNested == Spec => []TiersNested
<1>1. ASSUME GInv PROVE TiersNested
  <2>1. SUFFICES ASSUME tier = 3, NEW t \in Tiers, NEW u \in Tiers, t < u,
                        NEW a \in Known, NEW b \in Known, groups[t][a] = groups[t][b]
                 PROVE  groups[u][a] = groups[u][b]
    BY DEF TiersNested
  <2>2. Correct(t) /\ Correct(u)
    BY <1>1, <2>1 DEF GInv, Tiers
  <2>3. ASSUME NEW S \in ClosedSets(u) PROVE S \in ClosedSets(t) /\ Known \ S \in ClosedSets(t)
    <3>1. 0..t \subseteq 0..u
      BY <2>1 DEF Tiers
    <3>2. QED
      BY <2>3, <3>1 DEF ClosedSets, Closed
  <2>4. ASSUME NEW S \in ClosedSets(u) PROVE a \in S <=> b \in S
    <3>1. S \in ClosedSets(t) /\ Known \ S \in ClosedSets(t)
      BY <2>3
    <3>2. groups[t][a] \in Component(a, t) /\ groups[t][a] \in Component(b, t)
      BY <2>1, <2>2 DEF Correct
    <3>3. QED
      BY <3>1, <3>2 DEF Component
  <2>5. Component(a, u) = Component(b, u) /\ Component(a, u) \subseteq Nat
    BY <1>1, <2>4, AddrsAssumption DEF Component, GInv, TypeOK
  <2>6. /\ groups[u][a] \in Component(a, u) /\ groups[u][b] \in Component(a, u)
        /\ groups[u][a] <= groups[u][b] /\ groups[u][b] <= groups[u][a]
    BY <2>2, <2>5 DEF Correct
  <2>7. QED
    BY <2>5, <2>6
<1>2. QED
  BY <1>1, GInvariance, PTL

\* Between two calls of union or find, find ends for every device, and with one
\* root only: path compression and linking never close a cycle.
FindEnds == \A a \in Known : \E r \in Known : Roots(parent, a) = {r}

\* The recursion of find (tier_groups.go, unionFind.find) ends in every state.
THEOREM FindAlwaysEnds == Spec => []FindEnds
<1>1. ASSUME GInv PROVE FindEnds
  <2>1. Known \in SUBSET Nat /\ parent \in [Known -> Known] /\ Descends(parent)
    BY <1>1, AddrsAssumption DEF GInv, TypeOK
  <2>2. QED
    BY <2>1, RootOfPath DEF FindEnds
<1>2. QED
  BY <1>1, GInvariance, PTL
=============================================================================
