-------------------------- MODULE DiscoveryProofs --------------------------
(***************************************************************************)
(* Proofs about Discovery: the devices and NUMA numbers of pseudo device   *)
(* mode for any topologies, any order of map iteration, and any number of  *)
(* restarts.                                                               *)
(***************************************************************************)
EXTENDS Discovery, TLAPS, FiniteSetTheorems

\* The NUMA map and its counter are empty until the iteration starts, and a number
\* is spent on at most one card per iteration.
CountInv ==
    /\ pc \in {"read", "create", "fill"} => numai = 0 /\ DOMAIN numa = {}
    /\ numai <= Cardinality(DOMAIN topo.peers \ todo)
    /\ pc \in {"create", "fill"} => todo = DOMAIN topo.peers

\* What a started process has read, and what it is about to write.
Readable == Topologies \cup {Builtin}
SourceInv ==
    /\ pc # "down" => path = GetTopologyFile
    /\ file["generated"] \in {Absent, Broken, Builtin}
    /\ pc \in {"create", "fill"} => topo = Builtin /\ path \in {"given", "generated"}
    /\ pc = "create" => file[path] = Absent
    /\ pc = "fill" => file[path] = Broken
    /\ pc = "numa" => \/ file[path] = Broken /\ topo = Empty
                      \/ file[path] \in Readable /\ topo = file[path]
                      \/ file[path] \in {Absent, Broken, Builtin} /\ topo = Builtin

IInv == TypeOK /\ CountInv /\ SourceInv

-----------------------------------------------------------------------------
\* The functions that a topology offers.
Functions(t) == ((DOMAIN t.peers) \X {0}) \cup t.vfs
                  \cup {v \in (DOMAIN t.peers) \X {1, 2} : v \notin t.vfs}

\* What has been offered is what the file in use would offer now, or what the
\* built-in topology would if there is none that can be read.
OfferInv ==
    slice # Absent /\ DOMAIN slice # {} =>
        LET x == file[GetTopologyFile]
        IN  DOMAIN slice = Functions(IF x \in Readable THEN x ELSE Builtin)

\* If the peers of tier 0 form switches, the cards numbered so far are those of
\* whole switches, and the numbers tell the switches apart.
NumaInv ==
    pc \in {"numa", "serving"} /\ Switched(topo) =>
        /\ DOMAIN topo.peers \ todo \subseteq DOMAIN numa
        /\ DOMAIN numa \subseteq DOMAIN topo.peers
        /\ \A c \in DOMAIN numa : topo.peers[c] \subseteq DOMAIN numa
        /\ \A c, d \in DOMAIN numa : numa[c] = numa[d] <=> c = d \/ d \in topo.peers[c]
ServedInv == pc = "serving" => todo = {} /\ slice = PseudoDevices

-----------------------------------------------------------------------------
\* A topology in memory is one of the operator, the built-in one, or the empty one.
LEMMA TopologyInMemory == TypeOK => IsTopology(topo)
BY TopologiesAssumption DEF TypeOK, IsTopology, Empty

LEMMA InitIInv == Init => IInv
<1> SUFFICES ASSUME Init PROVE IInv
  OBVIOUS
<1>1. Cardinality(Cards) \in Nat /\ Cardinality({}) = 0
  BY CardsAssumption, FS_CardinalityType, FS_EmptySet
<1>2. TypeOK
  BY <1>1 DEF Init, TypeOK, Empty, Paths, Provided, Contents
<1>3. CountInv
  <2>1. numai = 0 /\ todo = {} /\ topo = Empty /\ pc = "down"
    BY DEF Init
  <2>2. DOMAIN topo.peers \ todo = {}
    BY <2>1 DEF Empty
  <2> QED BY <1>1, <2>1, <2>2 DEF CountInv
<1>4. SourceInv
  BY DEF Init, SourceInv, Paths, Provided
<1> QED BY <1>2, <1>3, <1>4 DEF IInv

\* One iteration numbers a card that had no number, and takes it off the list.
LEMMA NumaStepTypes == ASSUME TypeOK, CountInv, NumaStep PROVE TypeOK' /\ CountInv'
<1> USE DEF TypeOK
<1>1. PICK c \in todo :
        /\ todo' = todo \ {c}
        /\ IF c \in DOMAIN numa THEN UNCHANGED <<numa, numai>>
           ELSE /\ numa' = [x \in DOMAIN numa \cup {c} \cup topo.peers[c] |->
                               IF x = c \/ x \in topo.peers[c] THEN numai ELSE numa[x]]
                /\ numai' = numai + 1
  BY DEF NumaStep
<1>2. UNCHANGED <<conf, file, pc, path, topo, slice>> /\ pc = "numa"
  BY DEF NumaStep
<1>3. DOMAIN topo.peers \subseteq Cards /\ topo.peers[c] \subseteq Cards
  BY TopologyInMemory DEF IsTopology
<1> DEFINE Done == DOMAIN topo.peers \ todo
<1>4. /\ IsFiniteSet(Done) /\ Cardinality(Done) \in Nat /\ Cardinality(Cards) \in Nat
      /\ IsFiniteSet(Done \cup {c}) /\ Cardinality(Done \cup {c}) = Cardinality(Done) + 1
      /\ Cardinality(Done \cup {c}) <= Cardinality(Cards)
  <2>1. Done \in SUBSET Cards /\ Done \cup {c} \in SUBSET Cards /\ c \notin Done
    BY <1>3
  <2> HIDE DEF Done
  <2>2. IsFiniteSet(Done)
    BY <2>1, CardsAssumption, FS_Subset
  <2>3. IsFiniteSet(Done \cup {c}) /\ Cardinality(Done \cup {c}) <= Cardinality(Cards)
    BY <2>1, CardsAssumption, FS_Subset
  <2> QED BY <2>1, <2>2, <2>3, CardsAssumption, FS_CardinalityType, FS_AddElement
<1>5. DOMAIN topo'.peers \ todo' = Done \cup {c}
  BY <1>1, <1>2
<1>6. numai <= Cardinality(Done) /\ numai \in Nat
  BY DEF CountInv
<1>7. numai' \in Nat /\ numai' <= Cardinality(Done \cup {c}) /\ numai' <= Cardinality(Cards)
  <2> HIDE DEF Done
  <2> QED BY <1>1, <1>4, <1>6
<1>8. CountInv'
  BY <1>2, <1>5, <1>7 DEF CountInv
<1>9. DOMAIN numa' \subseteq Cards /\ \A x \in DOMAIN numa' : numa'[x] \in 0..numai' /\ numa'[x] < numai'
  BY <1>1, <1>3, <1>6
<1>10. numai' \in 0..Cardinality(Cards)
  BY <1>4, <1>7
<1> QED BY <1>1, <1>2, <1>8, <1>9, <1>10

\* The devices offered are functions of cards, with the product of their address.
LEMMA OfferedDevices ==
    ASSUME TypeOK
    PROVE  /\ DOMAIN PseudoDevices = Functions(topo)
           /\ DOMAIN PseudoDevices \subseteq Names
           /\ \A d \in DOMAIN PseudoDevices :
                PseudoDevices[d].product = IF d[2] = 0 THEN "pf" ELSE "vf"
<1>1. DOMAIN PseudoDevices = Functions(topo)
  BY DEF PseudoDevices, Generated, Functions
<1>2. Functions(topo) \subseteq Names
  BY TopologyInMemory DEF Functions, IsTopology, Vfs, Names
<1> QED BY <1>1, <1>2 DEF PseudoDevices, Functions, Generated, Product

LEMMA NextTypes == ASSUME IInv, Next PROVE TypeOK' /\ CountInv'
<1> USE DEF IInv
<1>1. CASE NumaStep
  BY <1>1, NumaStepTypes
<1>2. Cardinality(Cards) \in Nat /\ Cardinality({}) = 0
  BY CardsAssumption, FS_CardinalityType, FS_EmptySet
<1>3. CASE Start
  <2>1. DOMAIN topo'.peers \ todo' = {} /\ numai' = 0 /\ DOMAIN numa' = {}
    BY <1>3 DEF Start, Empty
  <2>2. CountInv'
    <3>1. (Cardinality(DOMAIN topo.peers \ todo))' = 0
      BY <2>1, FS_EmptySet
    <3> QED BY <1>3, <2>1, <3>1 DEF CountInv, Start
  <2>3. TypeOK'
    BY <1>2, <1>3 DEF TypeOK, Start, GetTopologyFile, Paths, Provided, Empty
  <2> QED BY <2>2, <2>3
<1>4. CASE ReadFile
  <2>1. DOMAIN topo'.peers \ todo' = {} /\ numai' = 0 /\ DOMAIN numa' = {}
    BY <1>4 DEF ReadFile, Load, CountInv
  <2>2. CountInv'
    <3>1. (Cardinality(DOMAIN topo.peers \ todo))' = 0
      BY <2>1, FS_EmptySet
    <3>2. todo' = DOMAIN topo'.peers
      BY <1>4 DEF ReadFile, Load
    <3> QED BY <2>1, <3>1, <3>2 DEF CountInv
  <2>3. TypeOK'
    BY <1>4 DEF TypeOK, ReadFile, Load
  <2> QED BY <2>2, <2>3
<1>5. CASE CreateFile
  BY <1>5 DEF CreateFile, TypeOK, CountInv, Contents
<1>6. CASE FillFile
  <2>1. CountInv'
    BY <1>6 DEF FillFile, CountInv
  <2>2. TypeOK'
    BY <1>6 DEF FillFile, TypeOK, SourceInv, Contents
  <2> QED BY <2>1, <2>2
<1>7. CASE Offer
  <2>1. CountInv'
    BY <1>7 DEF Offer, CountInv
  <2>2. slice' = PseudoDevices /\ pc' = "serving" /\ UNCHANGED <<conf, file, path, topo, todo, numa, numai>>
    BY <1>7 DEF Offer
  <2>3. slice' # Absent =>
          /\ DOMAIN slice' \subseteq Names
          /\ \A d \in DOMAIN slice' : slice'[d].product = IF d[2] = 0 THEN "pf" ELSE "vf"
    BY <2>2, OfferedDevices
  <2> QED BY <2>1, <2>2, <2>3 DEF TypeOK
<1>8. CASE Restart
  BY <1>8 DEF Restart, TypeOK, CountInv, Contents
<1> QED BY <1>1, <1>3, <1>4, <1>5, <1>6, <1>7, <1>8 DEF Next

\* The file in use is the same after every start: only a file that was missing
\* where the flag points, or the generated one, is ever written.
LEMMA SameFile == ASSUME IInv, Next PROVE GetTopologyFile' = GetTopologyFile
<1>1. UNCHANGED conf /\ UNCHANGED <<file["metadata"], file["node"]>>
  BY DEF IInv, TypeOK, SourceInv, Next, Start, ReadFile, CreateFile, FillFile, NumaStep,
         Offer, Restart, Paths, Provided
<1> QED BY <1>1 DEF GetTopologyFile

LEMMA NextSource == ASSUME IInv, Next PROVE SourceInv'
<1> USE DEF IInv
<1>0. GetTopologyFile' = GetTopologyFile
  BY SameFile
<1>1. GetTopologyFile \in {"metadata", "node"} => file[GetTopologyFile] # Absent
  BY DEF GetTopologyFile
<1>2. GetTopologyFile \in Paths /\ "generated" \in Paths
  BY DEF GetTopologyFile, Paths, Provided
<1>3. CASE Start
  BY <1>0, <1>3 DEF Start, SourceInv
<1>4. CASE ReadFile
  BY <1>0, <1>1, <1>2, <1>4 DEF ReadFile, Load, SourceInv, Readable, Paths, Provided
<1>5. CASE CreateFile
  BY <1>0, <1>2, <1>5 DEF CreateFile, SourceInv, TypeOK
<1>6. CASE FillFile
  BY <1>0, <1>2, <1>6 DEF FillFile, SourceInv, TypeOK
<1>7. CASE NumaStep \/ Offer
  BY <1>0, <1>7 DEF NumaStep, Offer, SourceInv
<1>8. CASE Restart
  BY <1>0, <1>2, <1>8 DEF Restart, SourceInv, TypeOK
<1> QED BY <1>3, <1>4, <1>5, <1>6, <1>7, <1>8 DEF Next

LEMMA Invariance == Spec => []IInv
<1>1. IInv /\ UNCHANGED vars => IInv'
  BY DEF IInv, TypeOK, CountInv, SourceInv, GetTopologyFile, vars
<1> QED BY <1>1, InitIInv, NextTypes, NextSource, PTL DEF Spec, IInv

-----------------------------------------------------------------------------
\* Files, topology, NUMA map and devices stay well typed, whatever order the map is
\* iterated in: there are at most as many NUMA numbers as cards.
THEOREM DiscoveryTypeCorrect == Spec => []TypeOK
<1>1. IInv => TypeOK
  BY DEF IInv
<1> QED BY <1>1, Invariance, PTL

-----------------------------------------------------------------------------
\* A card that has no number yet has no peer with one: it opens its switch.
LEMMA NumaStepKeeps ==
    ASSUME TypeOK, NumaInv, NumaStep PROVE NumaInv'
<1> SUFFICES ASSUME Switched(topo) PROVE NumaInv'
  BY DEF NumaStep, NumaInv, Switched
<1> DEFINE peers == topo.peers
<1>1. PICK c \in todo :
        /\ todo' = todo \ {c}
        /\ IF c \in DOMAIN numa THEN UNCHANGED <<numa, numai>>
           ELSE /\ numa' = [x \in DOMAIN numa \cup {c} \cup peers[c] |->
                               IF x = c \/ x \in peers[c] THEN numai ELSE numa[x]]
                /\ numai' = numai + 1
  BY DEF NumaStep
<1>2. UNCHANGED topo /\ pc = "numa" /\ c \in DOMAIN peers
  BY DEF NumaStep, TypeOK
<1>3. /\ DOMAIN peers \ todo \subseteq DOMAIN numa
      /\ DOMAIN numa \subseteq DOMAIN peers
      /\ \A x \in DOMAIN numa : peers[x] \subseteq DOMAIN numa
      /\ \A x, y \in DOMAIN numa : numa[x] = numa[y] <=> x = y \/ y \in peers[x]
  BY <1>2 DEF NumaInv
<1>4. \A x \in DOMAIN numa : numa[x] \in Nat /\ numa[x] < numai /\ numai \in Nat
  BY DEF TypeOK
<1>5. \A x \in DOMAIN peers :
         /\ x \notin peers[x] /\ peers[x] \subseteq DOMAIN peers
         /\ \A p \in peers[x] : peers[p] \cup {p} = peers[x] \cup {x}
  BY DEF Switched
<1>6. CASE c \in DOMAIN numa
  BY <1>1, <1>2, <1>3, <1>6 DEF NumaInv
<1>7. CASE c \notin DOMAIN numa
  <2> DEFINE K == {c} \cup peers[c]
  <2>1. \A x \in K : x \in DOMAIN peers /\ peers[x] \cup {x} = K /\ x \notin peers[x]
    BY <1>2, <1>5
  <2>2. \A x \in K : x \notin DOMAIN numa
    <3> SUFFICES ASSUME NEW x \in K, x \in DOMAIN numa PROVE FALSE
      OBVIOUS
    <3>1. peers[x] \subseteq DOMAIN numa
      BY <1>3
    <3>2. c \in peers[x] \cup {x}
      BY <2>1
    <3> QED BY <1>7, <3>1, <3>2
  <2>3. /\ DOMAIN numa' = DOMAIN numa \cup K
        /\ \A x \in K : numa'[x] = numai
        /\ \A x \in DOMAIN numa : numa'[x] = numa[x]
    BY <1>1, <1>7, <2>2
  <2> HIDE DEF K
  <2>4. /\ DOMAIN peers \ todo' \subseteq DOMAIN numa'
        /\ DOMAIN numa' \subseteq DOMAIN peers
        /\ \A x \in DOMAIN numa' : peers[x] \subseteq DOMAIN numa'
    BY <1>1, <1>3, <2>1, <2>3 DEF K
  <2>5. ASSUME NEW x \in DOMAIN numa', NEW y \in DOMAIN numa'
        PROVE  numa'[x] = numa'[y] <=> x = y \/ y \in peers[x]
    <3>1. CASE x \in DOMAIN numa /\ y \in DOMAIN numa
      BY <1>3, <2>3, <3>1
    <3>2. CASE x \in K /\ y \in K
      BY <2>1, <2>3, <3>2
    <3>3. CASE x \in DOMAIN numa /\ y \in K
      BY <1>3, <1>4, <2>2, <2>3, <3>3
    <3>4. CASE x \in K /\ y \in DOMAIN numa
      BY <1>4, <2>1, <2>2, <2>3, <3>4
    <3> QED BY <2>3, <2>5, <3>1, <3>2, <3>3, <3>4
  <2> QED BY <1>2, <2>4, <2>5 DEF NumaInv
<1> QED BY <1>6, <1>7

LEMMA NextNuma == ASSUME IInv, NumaInv, ServedInv, Next PROVE NumaInv' /\ ServedInv'
<1> USE DEF IInv
<1>1. CASE NumaStep
  BY <1>1, NumaStepKeeps DEF NumaStep, ServedInv
<1>2. CASE ReadFile \/ CreateFile \/ FillFile
  <2>1. pc' = "numa" => /\ DOMAIN numa' = {} /\ todo' = DOMAIN topo'.peers
    BY <1>2 DEF ReadFile, Load, CreateFile, FillFile, CountInv
  <2>2. NumaInv'
    BY <1>2, <2>1 DEF NumaInv, ReadFile, CreateFile, FillFile
  <2> QED BY <1>2, <2>2 DEF ServedInv, ReadFile, CreateFile, FillFile
<1>3. CASE Offer
  BY <1>3 DEF Offer, NumaInv, ServedInv, PseudoDevices, Generated, LookupNuma, Switched
<1>4. CASE Start \/ Restart
  BY <1>4 DEF Start, Restart, NumaInv, ServedInv
<1> QED BY <1>1, <1>2, <1>3, <1>4 DEF Next

\* Functions are told to share a NUMA node exactly if their cards share a switch,
\* in whatever order the cards come up (GenerateNumaInfoMapFromTopo).
THEOREM NumaCorrect == Spec => []NumaFollowsSwitches
<1>1. IInv /\ NumaInv /\ ServedInv /\ [Next]_vars => NumaInv' /\ ServedInv'
  <2>1. NumaInv /\ ServedInv /\ UNCHANGED vars => NumaInv' /\ ServedInv'
    BY DEF NumaInv, ServedInv, Switched, PseudoDevices, Generated, LookupNuma, vars
  <2> QED BY <2>1, NextNuma
<1>2. Init => NumaInv /\ ServedInv
  BY DEF Init, NumaInv, ServedInv
<1>3. IInv /\ NumaInv /\ ServedInv => NumaFollowsSwitches
  <2> SUFFICES ASSUME IInv, NumaInv, ServedInv, pc = "serving", Switched(topo),
                      NEW d \in DOMAIN slice \ topo.vfs, NEW e \in DOMAIN slice \ topo.vfs
               PROVE  slice[d].numa = slice[e].numa <=> d[1] = e[1] \/ e[1] \in topo.peers[d[1]]
    BY DEF NumaFollowsSwitches
  <2>1. slice = PseudoDevices /\ DOMAIN topo.peers \subseteq DOMAIN numa
    BY DEF ServedInv, NumaInv
  <2>2. d[1] \in DOMAIN numa /\ e[1] \in DOMAIN numa
    BY <2>1 DEF PseudoDevices, Generated
  <2>3. slice[d].numa = numa[d[1]] /\ slice[e].numa = numa[e[1]]
    BY <2>1, <2>2 DEF PseudoDevices, LookupNuma
  <2> QED BY <2>2, <2>3 DEF NumaInv
<1> QED BY <1>1, <1>2, <1>3, Invariance, PTL DEF Spec

-----------------------------------------------------------------------------
\* The offer changes only in Offer, and then to what the file in use says.
LEMMA OfferChanges ==
    ASSUME IInv, OfferInv, Next, slice # Absent, DOMAIN slice # {}
    PROVE  DOMAIN slice' = DOMAIN slice \/ file[path] = Broken
<1> USE DEF IInv
<1>1. CASE Offer
  <2>1. DOMAIN slice' = Functions(topo)
    BY <1>1, OfferedDevices DEF Offer
  <2>2. path = GetTopologyFile /\ pc = "numa"
    BY <1>1 DEF Offer, SourceInv
  <2>3. file[path] # Broken => topo = IF file[path] \in Readable THEN file[path] ELSE Builtin
    BY <2>2, DistinctAssumption DEF SourceInv, Readable
  <2> QED BY <2>1, <2>2, <2>3 DEF OfferInv
<1>2. CASE ~ Offer
  BY <1>2 DEF Next, Start, ReadFile, CreateFile, FillFile, NumaStep, Restart
<1> QED BY <1>1, <1>2

LEMMA NextOffer == ASSUME IInv, OfferInv, Next PROVE OfferInv'
<1> USE DistinctAssumption DEF IInv, Readable
<1>0. GetTopologyFile' = GetTopologyFile /\ GetTopologyFile \in Paths
  BY SameFile DEF GetTopologyFile, Paths, Provided
<1>1. CASE Offer
  <2>1. path = GetTopologyFile /\ pc = "numa" /\ file' = file /\ DOMAIN slice' = Functions(topo)
    BY <1>1, OfferedDevices DEF Offer, SourceInv
  <2>2. topo = Empty => DOMAIN slice' = {}
    BY <2>1 DEF Functions, Empty
  <2>3. topo # Empty => topo = IF file[path] \in Readable THEN file[path] ELSE Builtin
    BY <2>1 DEF SourceInv
  <2> QED BY <1>0, <2>1, <2>2, <2>3 DEF OfferInv
<1>2. CASE CreateFile \/ FillFile
  <2>1. path = GetTopologyFile /\ file[path] \notin Readable /\ topo = Builtin /\ UNCHANGED slice
    BY <1>2 DEF CreateFile, FillFile, SourceInv
  <2>2. file'[path] \notin Readable \/ file'[path] = Builtin
    BY <1>0, <1>2, <2>1 DEF CreateFile, FillFile, TypeOK
  <2> QED BY <1>0, <2>1, <2>2 DEF OfferInv
<1>3. CASE Restart
  <2>1. file["generated"] \notin Readable \/ file["generated"] = Builtin
    BY DEF SourceInv
  <2>2. \/ file'[GetTopologyFile] = file[GetTopologyFile]
        \/ GetTopologyFile = "generated" /\ file'["generated"] = Absent
    BY <1>0, <1>3 DEF Restart, TypeOK
  <2>3. UNCHANGED slice
    BY <1>3 DEF Restart
  <2> QED BY <1>0, <2>1, <2>2, <2>3 DEF OfferInv
<1>4. CASE Start \/ ReadFile \/ NumaStep
  BY <1>0, <1>4 DEF Start, ReadFile, NumaStep, OfferInv
<1> QED BY <1>1, <1>2, <1>3, <1>4 DEF Next

\* A restart offers the functions it offered before, unless the topology file does
\* not parse, for whatever file the operator provides and however often the built-in
\* one is not created, or lost again; one cut short is a file that does not parse.
THEOREM RestartsKeepDevices == Spec => RestartKeepsDevices
<1>1. IInv /\ OfferInv /\ [Next]_vars => OfferInv'
  <2>1. OfferInv /\ UNCHANGED vars => OfferInv'
    BY DEF OfferInv, GetTopologyFile, vars
  <2> QED BY <2>1, NextOffer
<1>2. IInv /\ OfferInv /\ [Next]_vars =>
        [slice # Absent => \/ DOMAIN slice' = DOMAIN slice
                           \/ file[path] = Broken
                           \/ DOMAIN slice = {}]_vars
  BY OfferChanges
<1>3. Init => OfferInv
  BY DEF Init, OfferInv
<1> QED BY <1>1, <1>2, <1>3, Invariance, PTL DEF Spec, RestartKeepsDevices
=============================================================================
