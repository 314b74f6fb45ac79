---------------------------- MODULE MCDiscovery ----------------------------
(* The topologies for the model checking of Discovery: three cards with any *)
(* peers of tier 0, symmetric or not, and some listed virtual functions.    *)
EXTENDS Discovery

MCCards == 1..3
MCPeers == UNION {{p \in [D -> SUBSET MCCards] : \A c \in D : c \notin p[c]} : D \in SUBSET MCCards}
MCTopologies == [peers : MCPeers, vfs : {{}, {<<1, 1>>}, {<<1, 2>>, <<3, 1>>}}]

\* Cards 1 and 2 share a switch; the listed function is of no listed card, as in
\* PseudoTopology.
MCBuiltin == [peers |-> [c \in 1..2 |-> {3 - c}], vfs |-> {<<3, 2>>}]
=============================================================================
