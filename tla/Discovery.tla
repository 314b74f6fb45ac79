----------------------------- MODULE Discovery -----------------------------
(***************************************************************************)
(* How the driver finds its devices in pseudo device mode, over any number *)
(* of starts: NewDeviceState chooses a topology file, GetPciTopology reads *)
(* it or writes the built-in topology to it, GenerateNumaInfoMapFromTopo   *)
(* groups the cards in the order of a map iteration, and                   *)
(* generatePseudoDevicesFromTopo lists the functions.  A device address is *)
(* a card with a function: 0 is the physical one, 1 and 2 are virtual.     *)
(***************************************************************************)
EXTENDS Naturals, FiniteSets

CONSTANTS
    Cards,       \* cards of all topologies
    Topologies,  \* what an operator may provide
    Builtin,     \* PseudoTopology
    Absent,      \* no file, no slice
    Broken       \* a file that does not parse

Vfs == Cards \X {1, 2}

\* peers[c] is the map peers_0 of card c; vfs are the entries of spyre_vf_devices.
IsTopology(t) ==
    /\ DOMAIN t = {"peers", "vfs"}
    /\ DOMAIN t.peers \subseteq Cards
    /\ \A c \in DOMAIN t.peers : t.peers[c] \subseteq Cards
    /\ t.vfs \subseteq Vfs

ASSUME CardsAssumption == IsFiniteSet(Cards)
ASSUME TopologiesAssumption == \A t \in Topologies \cup {Builtin} : IsTopology(t)
ASSUME DistinctAssumption == /\ Absent # Broken
                             /\ {Absent, Broken} \cap (Topologies \cup {Builtin}) = {}

Empty == [peers |-> [c \in {} |-> {}], vfs |-> {}]

Provided == {"given", "metadata", "node"}
Paths == Provided \cup {"generated"}
Contents == Topologies \cup {Builtin, Absent, Broken}

VARIABLES
    conf,  \* settings: a topology file is given; the metadata file is ignored
    file,  \* the topology files
    pc,    \* the next step of the start-up, "serving", or "down"
    path,  \* the chosen file
    topo,  \* the topology in memory
    todo,  \* cards the iteration over topo.Devices has not reached
    numa,  \* numaMap
    numai, \* the next NUMA number
    slice  \* the devices offered last, which outlive the process

vars == <<conf, file, pc, path, topo, todo, numa, numai, slice>>

Names == Cards \X {0, 1, 2}

TypeOK ==
    /\ conf \in [given : BOOLEAN, ignore : BOOLEAN]
    /\ file \in [Paths -> Contents]
    /\ pc \in {"down", "read", "create", "fill", "numa", "serving"}
    /\ path \in Paths
    /\ topo \in Topologies \cup {Builtin, Empty}
    /\ todo \subseteq DOMAIN topo.peers
    /\ DOMAIN numa \subseteq Cards
    /\ \A c \in DOMAIN numa : numa[c] \in 0..numai /\ numa[c] < numai
    /\ numai \in 0..Cardinality(Cards)
    /\ slice # Absent =>
         /\ DOMAIN slice \subseteq Names
         /\ \A d \in DOMAIN slice : slice[d].product = IF d[2] = 0 THEN "pf" ELSE "vf"

\* The operator provides at most one file, which may be broken.
Init ==
    /\ conf \in [given : BOOLEAN, ignore : BOOLEAN]
    /\ \E p \in Provided, x \in Topologies \cup {Absent, Broken} :
         file = [q \in Paths |-> IF q = p THEN x ELSE Absent]
    /\ pc = "down" /\ path = "generated"
    /\ topo = Empty /\ todo = {} /\ numa = [c \in {} |-> 0] /\ numai = 0
    /\ slice = Absent

-----------------------------------------------------------------------------
\* The flag, the metadata file, the file of the node, the generated file.
GetTopologyFile ==
    IF conf.given THEN "given"
    ELSE IF ~conf.ignore /\ file["metadata"] # Absent THEN "metadata"
    ELSE IF file["node"] # Absent THEN "node" ELSE "generated"

Start ==
    /\ pc = "down" /\ pc' = "read" /\ path' = GetTopologyFile
    /\ topo' = Empty /\ todo' = {} /\ numa' = [c \in {} |-> 0] /\ numai' = 0
    /\ UNCHANGED <<conf, file, slice>>

Load(t) == topo' = t /\ todo' = DOMAIN t.peers

\* A missing file is replaced by the built-in topology.  A broken one is an error
\* beside an empty topology: the caller looks only at the topology.
ReadFile ==
    /\ pc = "read"
    /\ \/ file[path] = Absent /\ Load(Builtin) /\ pc' = "create"
       \/ file[path] = Broken /\ Load(Empty) /\ pc' = "numa"
       \/ file[path] \in Topologies \cup {Builtin} /\ Load(file[path]) /\ pc' = "numa"
    /\ UNCHANGED <<conf, file, path, numa, numai, slice>>

\* Mutant: the virtual functions are left out of the file.
FillsOnlyDevices ==
    /\ pc = "fill" /\ pc' = "numa"
    /\ file' \in {file, [file EXCEPT ![path] = [topo EXCEPT !.vfs = {}]]}
    /\ UNCHANGED <<conf, path, topo, todo, numa, numai, slice>>

\* Pcitopo.Write truncates the file, then writes it; errors are logged.
CreateFile ==
    /\ pc = "create"
    /\ \/ pc' = "fill" /\ file' = [file EXCEPT ![path] = Broken]
       \/ pc' = "numa" /\ UNCHANGED file
    /\ UNCHANGED <<conf, path, topo, todo, numa, numai, slice>>
FillFile ==
    /\ pc = "fill" /\ pc' = "numa"
    /\ file' \in {file, [file EXCEPT ![path] = topo]}
    /\ UNCHANGED <<conf, path, topo, todo, numa, numai, slice>>

\* Mutant: the peers are not taken along.
PeersLeftOut ==
    /\ pc = "numa"
    /\ \E c \in todo :
         /\ todo' = todo \ {c}
         /\ IF c \in DOMAIN numa THEN UNCHANGED <<numa, numai>>
            ELSE /\ numa' = [x \in DOMAIN numa \cup {c} |-> IF x = c THEN numai ELSE numa[x]]
                 /\ numai' = numai + 1
    /\ UNCHANGED <<conf, file, pc, path, topo, slice>>

\* One iteration: a card that has no NUMA node yet opens one and takes its peers
\* along, those that had one included.
NumaStep ==
    /\ pc = "numa"
    /\ \E c \in todo :
         /\ todo' = todo \ {c}
         /\ IF c \in DOMAIN numa THEN UNCHANGED <<numa, numai>>
            ELSE /\ numa' = [x \in DOMAIN numa \cup {c} \cup topo.peers[c] |->
                                IF x = c \/ x \in topo.peers[c] THEN numai ELSE numa[x]]
                 /\ numai' = numai + 1
    /\ UNCHANGED <<conf, file, pc, path, topo, slice>>

LookupNuma(c) == IF c \in DOMAIN numa THEN numa[c] ELSE 0

\* The functions .1 and .2 of a card that are not listed.
Generated == {v \in (DOMAIN topo.peers) \X {1, 2} : v \notin topo.vfs}

\* Mutant: the product of a virtual function is left to the default.
DefaultProduct(d) == "pf"

Product(d) == IF d[2] = 0 THEN "pf" ELSE "vf"

\* A listed virtual function is looked up by its own address, which is in no
\* peers_0 of a card; a generated one by that of its card.
PseudoDevices ==
    [d \in ((DOMAIN topo.peers) \X {0}) \cup topo.vfs \cup Generated |->
        [product |-> Product(d), numa |-> IF d \in topo.vfs THEN 0 ELSE LookupNuma(d[1])]]

Offer ==
    /\ pc = "numa" /\ todo = {} /\ pc' = "serving"
    /\ slice' = PseudoDevices
    /\ UNCHANGED <<conf, file, path, topo, todo, numa, numai>>

\* The process ends at any point; the generated file may go with the container.
Restart ==
    /\ pc # "down" /\ pc' = "down"
    /\ file' \in {file, [file EXCEPT !["generated"] = Absent]}
    /\ UNCHANGED <<conf, path, topo, todo, numa, numai, slice>>

Next == Start \/ ReadFile \/ CreateFile \/ FillFile \/ NumaStep \/ Offer \/ Restart

Spec == Init /\ [][Next]_vars

-----------------------------------------------------------------------------
(* Properties.                                                             *)

\* Peers of tier 0 share a switch, each with all others.
Switched(t) ==
    \A c \in DOMAIN t.peers :
        /\ c \notin t.peers[c] /\ t.peers[c] \subseteq DOMAIN t.peers
        /\ \A p \in t.peers[c] : t.peers[p] \cup {p} = t.peers[c] \cup {c}

\* In whatever order the map is iterated, the functions of cards get the same NUMA
\* number exactly if they are of one card or of peers of tier 0 (the constraint on
\* numaInfo of README example 3).  A listed virtual function has none.
NumaFollowsSwitches ==
    pc = "serving" /\ Switched(topo) =>
        \A d, e \in DOMAIN slice \ topo.vfs :
            slice[d].numa = slice[e].numa <=> d[1] = e[1] \/ e[1] \in topo.peers[d[1]]

\* A restart offers the same functions again, whether the built-in topology was
\* written, lost with the container or never written.  The exception is a file
\* that does not parse, or was left truncated by a crash or a failed write: as
\* long as it is there no function is offered.
RestartKeepsDevices ==
    [][slice # Absent => \/ DOMAIN slice' = DOMAIN slice
                         \/ file[path] = Broken
                         \/ DOMAIN slice = {}]_vars
=============================================================================
