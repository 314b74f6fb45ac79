---------------------------- MODULE MCTierGroups ----------------------------
(* The topologies for the model checking of TierGroups: four known devices  *)
(* (1 to 3 physical, 4 virtual), address 5 that no device has but that may  *)
(* be a peer of device 1, and at most MaxPeers peers in all, each at one    *)
(* level and in one direction.                                             *)
EXTENDS TierGroups, FiniteSetsExt

CONSTANT MaxPeers

MCAddrs == 1..5
Pairs == {e \in (1..4) \X (1..4) : e[1] # e[2]} \cup {<<1, 5>>}
Levels == UNION {[E -> Tiers] : E \in UNION {kSubset(k, Pairs) : k \in 0..MaxPeers}}
PeersIn(L, a) ==
    [t \in Tiers |-> {b \in MCAddrs : <<a, b>> \in DOMAIN L /\ L[<<a, b>>] = t}]
MCTopologies ==
    {[devices |-> [a \in 1..3 |-> PeersIn(L, a)], vfs |-> [a \in {4} |-> PeersIn(L, a)]] :
        L \in Levels}
=============================================================================
