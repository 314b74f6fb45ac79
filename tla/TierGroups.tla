----------------------------- MODULE TierGroups -----------------------------
(***************************************************************************)
(* The tier groups of a node's devices (pkg/topology/types/pcitopo/        *)
(* tier_groups.go): for each of the tiers 0, 1, 2 a union-find over the    *)
(* peers up to that tier, with path compression and the smallest address   *)
(* as root.  A map is iterated in any order, so the merges and the final   *)
(* lookups happen in any order.                                            *)
(***************************************************************************)
EXTENDS Naturals

CONSTANTS
    Addrs,       \* PCI addresses, numbered in lexicographic order
    None,        \* no group yet
    Topologies   \* the topologies to consider

Tiers == 0..2

\* The peers of a device, by level.  A peer need not be a device of the node.
PeerSets == [Tiers -> SUBSET Addrs]

\* topo.Devices with .Peers and topo.SpyreVfDevices with .SpyreVfPeers.
IsTopology(T) ==
    /\ DOMAIN T.devices \subseteq Addrs /\ T.devices \in [DOMAIN T.devices -> PeerSets]
    /\ DOMAIN T.vfs \subseteq Addrs /\ T.vfs \in [DOMAIN T.vfs -> PeerSets]

ASSUME AddrsAssumption == Addrs \subseteq Nat /\ None \notin Addrs
ASSUME TopologiesAssumption == \A T \in Topologies : IsTopology(T)

VARIABLES
    adjacency,  \* the peers of every known device
    tier,       \* the tier being computed; 3 when all are done
    edges,      \* pairs of device and peer still to be merged
    parent,     \* the forest of the union-find
    groups      \* for each tier the group of each device, or None

vars == <<adjacency, tier, edges, parent, groups>>

-----------------------------------------------------------------------------
Known == DOMAIN adjacency
Identity == [a \in Known |-> a]

\* The entry of a virtual function replaces one of a device of the same address.
BuildAdjacency(T) ==
    [a \in DOMAIN T.devices \cup DOMAIN T.vfs |->
        IF a \in DOMAIN T.vfs THEN T.vfs[a] ELSE T.devices[a]]

\* Mutant: only the peers of the tier itself.
PeersOfTier(peers, t) == peers[t]
PeersUpToTier(peers, t) ==
    peers[0] \cup (IF t >= 1 THEN peers[1] ELSE {}) \cup (IF t >= 2 THEN peers[2] ELSE {})

Edges(adj, t) == {e \in (DOMAIN adj) \X Addrs : e[2] \in PeersUpToTier(adj[e[1]], t)}

TypeOK ==
    /\ adjacency \in [Known -> PeerSets] /\ Known \subseteq Addrs
    /\ tier \in 0..3
    /\ edges \subseteq Known \X Addrs
    /\ parent \in [Known -> Known]
    /\ groups \in [Tiers -> [Known -> Known \cup {None}]]

Init ==
    /\ \E T \in Topologies : adjacency = BuildAdjacency(T)
    /\ tier = 0
    /\ edges = Edges(adjacency, 0)
    /\ parent = Identity
    /\ groups = [t \in Tiers |-> [a \in Known |-> None]]

-----------------------------------------------------------------------------
\* The addresses from x up to its root: the least set that holds x and the
\* parents of its members.
Path(p, x) ==
    {y \in DOMAIN p : \A S \in SUBSET DOMAIN p :
        x \in S /\ (\A z \in S : p[z] \in S) => y \in S}
Roots(p, x) == {r \in Path(p, x) : p[r] = r}

\* After find(x) all of them point to the root r that it returns.
Compress(p, x, r) == LET P == Path(p, x)
                     IN  [y \in DOMAIN p |-> IF y \in P THEN r ELSE p[y]]

\* Mutant: the root of the second tree wins.
LinkSecond(p, r, s) == [p EXCEPT ![r] = s]
\* The smaller of two roots becomes the parent of the other.
Link(p, r, s) == IF r < s THEN [p EXCEPT ![s] = r] ELSE [p EXCEPT ![r] = s]

\* Mutant: a peer that is no known device joins the forest.
UnionAdoptsUnknown(a, b) ==
    /\ <<a, b>> \in edges
    /\ edges' = edges \ {<<a, b>>}
    /\ parent' = [x \in Known \cup {b} |-> IF x = b THEN a ELSE parent[x]]
    /\ UNCHANGED <<adjacency, tier, groups>>

\* union(a, b): a peer that is no known device is skipped.
Union(a, b) ==
    /\ <<a, b>> \in edges
    /\ edges' = edges \ {<<a, b>>}
    /\ \/ b \notin Known /\ parent' = parent
       \/ /\ b \in Known
          /\ \E r \in Roots(parent, a) :
                LET p == Compress(parent, a, r)
                IN  \E s \in Roots(p, b) : parent' = Link(Compress(p, b, s), r, s)
    /\ UNCHANGED <<adjacency, tier, groups>>

\* groups(): one more find for each device.
Group(a) ==
    /\ tier \in Tiers /\ edges = {}
    /\ groups[tier][a] = None
    /\ \E r \in Roots(parent, a) :
          /\ parent' = Compress(parent, a, r)
          /\ groups' = [groups EXCEPT ![tier][a] = r]
    /\ UNCHANGED <<adjacency, tier, edges>>

\* The next tier starts from nothing.
NextTier ==
    /\ tier \in Tiers /\ edges = {}
    /\ \A a \in Known : groups[tier][a] # None
    /\ tier' = tier + 1
    /\ edges' = IF tier < 2 THEN Edges(adjacency, tier + 1) ELSE {}
    /\ parent' = Identity
    /\ UNCHANGED <<adjacency, groups>>

Done == tier = 3 /\ UNCHANGED vars

Next == \/ \E a \in Known : Group(a) \/ \E b \in Addrs : Union(a, b)
        \/ NextTier
        \/ Done

Spec == Init /\ [][Next]_vars

-----------------------------------------------------------------------------
(* Properties.                                                             *)

\* A set that no link at tier t leaves, in either direction: a link is a peer of
\* at most that level.
Closed(S, t) == \A a, b \in Known :
    (\E l \in 0..t : b \in adjacency[a][l]) => (a \in S <=> b \in S)
ClosedSets(t) == {S \in SUBSET Known : Closed(S, t)}
\* The devices connected to a: the least closed set that holds a.
Component(a, t) == {b \in Known : \A S \in ClosedSets(t) : a \in S => b \in S}

\* The group of a device is the least address of its connected component, "making
\* the result deterministic regardless of iteration order" (tier_groups.go:89-90):
\* whatever the order of the merges, and although path compression moves
\* addresses between them.
GroupsAreComponents == tier = 3 =>
    \A t \in Tiers : \A a \in Known :
        LET C == Component(a, t)
        IN  groups[t][a] \in C /\ \A b \in C : groups[t][a] <= b

\* Devices that share a group share the group of every higher tier, as "can be
\* used together at that tier level" (tier_groups.go:19) needs.
TiersNested ==
    tier = 3 => \A t, u \in Tiers : t < u => \A a, b \in Known :
        groups[t][a] = groups[t][b] => groups[u][a] = groups[u][b]
=============================================================================
