-------------------------- MODULE ClaimSpecProofs --------------------------
(***************************************************************************)
(* Proofs about ClaimSpec and SenlibConfig: what one Prepare gives the     *)
(* containers of a claim, for any devices, allocations and templates.      *)
(***************************************************************************)
EXTENDS ClaimSpec, TLAPS, WellFoundedInduction, SequenceTheorems

-----------------------------------------------------------------------------
(* Induction over the elements of a sequence, stated over sets.            *)

LEMMA Least ==
    ASSUME NEW T, T \subseteq Nat, T # {}
    PROVE  \E m \in T : \A k \in T : m <= k
<1>1. PICK m \in T : \A k \in T : <<k, m>> \notin OpToRel(<, Nat)
  BY NatLessThanWellFounded, WFMin
<1>2. ASSUME NEW k \in T, k < m PROVE <<k, m>> \in OpToRel(<, Nat)
  BY <1>2 DEF OpToRel
<1>3. m \in Nat /\ \A k \in T : k \in Nat
  OBVIOUS
<1>4. \A k \in T : ~ (k < m)
  BY <1>1, <1>2
<1> QED BY <1>3, <1>4

LEMMA Induction ==
    ASSUME NEW T, 0 \in T, \A n \in Nat : n \in T => n + 1 \in T
    PROVE  Nat \subseteq T
<1> DEFINE Missing == Nat \ T
<1>1. SUFFICES ASSUME Missing # {} PROVE FALSE
  OBVIOUS
<1>2. PICK m \in Missing : \A k \in Missing : m <= k
  <2>1. Missing \subseteq Nat
    OBVIOUS
  <2> HIDE DEF Missing
  <2> QED BY <1>1, <2>1, Least
<1>3. m - 1 \in Nat /\ m - 1 \in T
  BY <1>2
<1> QED BY <1>2, <1>3

\* What the recursion in PickedOf says of its value at i, given that at i - 1.
PickedStep(s, S, i, before) ==
    IF i = 0 THEN <<>> ELSE IF s[i] \in S THEN Append(before, s[i]) ELSE before

\* The recursion has a solution, so PickedOf satisfies it.
LEMMA PickedEquation ==
    ASSUME NEW s, Len(s) \in Nat, NEW S
    PROVE  /\ PickedOf(s, S)[0] = <<>>
           /\ \A i \in 1..Len(s) : PickedOf(s, S)[i] =
                IF s[i] \in S THEN Append(PickedOf(s, S)[i - 1], s[i])
                              ELSE PickedOf(s, S)[i - 1]
<1> DEFINE Solves(p, n) == p = [i \in 0..n |-> PickedStep(s, S, i, p[i - 1])]
<1> DEFINE T == {n \in Nat : \E p : Solves(p, n)}
<1>1. 0 \in T
  <2>1. Solves([i \in 0..0 |-> <<>>], 0)
    BY DEF PickedStep
  <2> QED BY <2>1
<1>2. ASSUME NEW n \in Nat, n \in T PROVE n + 1 \in T
  <2>1. PICK p : Solves(p, n)
    BY <1>2
  <2> DEFINE q == [i \in 0..(n + 1) |->
                     PickedStep(s, S, i, IF i - 1 \in 0..n THEN p[i - 1] ELSE <<>>)]
  <2>2. \A i \in 0..n : q[i] = p[i]
    <3> SUFFICES ASSUME NEW i \in 0..n PROVE q[i] = p[i]
      OBVIOUS
    <3>1. p[i] = PickedStep(s, S, i, p[i - 1])
      BY <2>1
    <3>2. CASE i = 0
      BY <3>1, <3>2 DEF PickedStep
    <3>3. CASE i # 0
      BY <3>1, <3>3
    <3> QED BY <3>2, <3>3
  <2>3. \A i \in 0..(n + 1) : q[i] = PickedStep(s, S, i, q[i - 1])
    <3> SUFFICES ASSUME NEW i \in 0..(n + 1) PROVE q[i] = PickedStep(s, S, i, q[i - 1])
      OBVIOUS
    <3>1. CASE i = 0
      BY <3>1 DEF PickedStep
    <3>2. CASE i # 0
      <4>1. i - 1 \in 0..n
        BY <3>2
      <4>2. q[i] = PickedStep(s, S, i, p[i - 1])
        BY <4>1
      <4> HIDE DEF q
      <4> QED BY <2>2, <4>1, <4>2
    <3> QED BY <3>1, <3>2
  <2>4. Solves(q, n + 1)
    <3>1. q = [i \in 0..(n + 1) |-> q[i]]
      OBVIOUS
    <3> HIDE DEF q
    <3> QED BY <2>3, <3>1
  <2> HIDE DEF q
  <2> QED BY <2>4
<1>3. Len(s) \in T
  <2> HIDE DEF T
  <2> QED BY <1>1, <1>2, Induction
<1>4. PICK p : Solves(p, Len(s))
  BY <1>3
<1>5. Solves(PickedOf(s, S), Len(s))
  BY <1>4 DEF PickedOf, PickedStep
<1> DEFINE Q == PickedOf(s, S)
<1>6. \A i \in 0..Len(s) : Q[i] = PickedStep(s, S, i, Q[i - 1])
  BY <1>5
<1> HIDE DEF Q
<1>7. Q[0] = <<>> /\ \A i \in 1..Len(s) :
        Q[i] = IF s[i] \in S THEN Append(Q[i - 1], s[i]) ELSE Q[i - 1]
  BY <1>6 DEF PickedStep
<1> QED BY <1>7 DEF Q

LEMMA InductionUpTo ==
    ASSUME NEW n \in Nat, NEW T, 0 \in T, \A i \in 1..n : i - 1 \in T => i \in T
    PROVE  0..n \subseteq T
<1> DEFINE U == {k \in Nat : k <= n => k \in T}
<1>1. 0 \in U
  OBVIOUS
<1>2. \A k \in Nat : k \in U => k + 1 \in U
  <2> SUFFICES ASSUME NEW k \in Nat, k \in U, k + 1 <= n PROVE k + 1 \in T
    OBVIOUS
  <2>1. k + 1 \in 1..n /\ (k + 1) - 1 = k /\ k \in T
    OBVIOUS
  <2> QED BY <2>1
<1>3. Nat \subseteq U
  <2> HIDE DEF U
  <2> QED BY <1>1, <1>2, Induction
<1> QED BY <1>3

\* Picking keeps to elements of the sequence.
LEMMA PickedType ==
    ASSUME NEW R, NEW s \in Seq(R), NEW S
    PROVE  \A n \in 0..Len(s) : PickedOf(s, S)[n] \in Seq(R)
<1> DEFINE Q == PickedOf(s, S)
           T == {n \in Nat : Q[n] \in Seq(R)}
<1>1. Len(s) \in Nat
  BY LenProperties
<1>2. /\ Q[0] = <<>>
      /\ \A i \in 1..Len(s) : Q[i] = IF s[i] \in S THEN Append(Q[i - 1], s[i]) ELSE Q[i - 1]
  BY <1>1, PickedEquation
<1> HIDE DEF Q
<1>3. 0 \in T
  BY <1>2, EmptySeq, Zenon
<1>4. ASSUME NEW i \in 1..Len(s), i - 1 \in T PROVE i \in T
  <2>1. s[i] \in R /\ Q[i - 1] \in Seq(R) /\ i \in Nat
    BY <1>1, <1>4, ElementOfSeq
  <2>2. Q[i] = Append(Q[i - 1], s[i]) \/ Q[i] = Q[i - 1]
    BY <1>2
  <2>3. Append(Q[i - 1], s[i]) \in Seq(R)
    BY <2>1, AppendProperties
  <2> QED BY <2>1, <2>2, <2>3, Zenon
<1>5. 0..Len(s) \subseteq T
  <2> HIDE DEF T
  <2> QED BY <1>1, <1>3, <1>4, InductionUpTo
<1> QED BY <1>5 DEF Q

\* Nothing is picked if and only if no element is in the set.
LEMMA PickedEmpty ==
    ASSUME NEW R, NEW s \in Seq(R), NEW S
    PROVE  Picked(s, S) = <<>> <=> \A i \in 1..Len(s) : s[i] \notin S
<1> DEFINE Q == PickedOf(s, S)
           T == {n \in Nat : Q[n] = <<>> <=> \A j \in 1..n : s[j] \notin S}
<1>1. Len(s) \in Nat
  BY LenProperties
<1>2. /\ Q[0] = <<>>
      /\ \A i \in 1..Len(s) : Q[i] = IF s[i] \in S THEN Append(Q[i - 1], s[i]) ELSE Q[i - 1]
  BY <1>1, PickedEquation
<1>3. \A n \in 0..Len(s) : Q[n] \in Seq(R)
  BY PickedType
<1> HIDE DEF Q
<1>4. 0 \in T
  <2>1. Q[0] = <<>> /\ 1..0 = {}
    BY <1>2
  <2> QED BY <2>1
<1>5. ASSUME NEW i \in 1..Len(s), i - 1 \in T PROVE i \in T
  <2>1. /\ i \in Nat /\ i - 1 \in 0..Len(s) /\ s[i] \in R
        /\ Q[i - 1] = <<>> <=> \A j \in 1..(i - 1) : s[j] \notin S
    BY <1>1, <1>5, ElementOfSeq
  <2>2. CASE s[i] \in S
    <3>1. Q[i] = Append(Q[i - 1], s[i])
      BY <1>2, <2>2
    <3>2. Q[i - 1] \in Seq(R)
      BY <1>3, <2>1
    <3>3. Q[i] # <<>>
      BY <2>1, <3>1, <3>2, AppendProperties
    <3> QED BY <2>1, <2>2, <3>3
  <2>3. CASE s[i] \notin S
    <3>1. 1..i = 1..(i - 1) \cup {i}
      BY <2>1
    <3>2. Q[i] = Q[i - 1]
      BY <1>2, <2>3
    <3> QED BY <2>1, <2>3, <3>1, <3>2
  <2> QED BY <2>2, <2>3
<1>6. 0..Len(s) \subseteq T
  <2> HIDE DEF T
  <2> QED BY <1>1, <1>4, <1>5, InductionUpTo
<1> QED BY <1>1, <1>6 DEF Picked, Q

-----------------------------------------------------------------------------
(* The bus ids of prepared devices.                                        *)

PreparedDevice == [dev : Devices, nodes : SUBSET Devices]

LEMMA BusIdsType ==
    ASSUME NEW devs \in Seq(PreparedDevice)
    PROVE  /\ Len(devs) \in Nat /\ DOMAIN devs = 1..Len(devs)
           /\ BusIdsOf(devs) \in Seq(Devices)
           /\ Len(BusIdsOf(devs)) = Len(devs)
           /\ \A i \in 1..Len(devs) : /\ devs[i] \in PreparedDevice
                                      /\ BusIdsOf(devs)[i] = devs[i].dev
<1>1. Len(devs) \in Nat /\ DOMAIN devs = 1..Len(devs)
  BY LenProperties
<1>2. \A i \in 1..Len(devs) : devs[i] \in PreparedDevice
  BY ElementOfSeq
<1>3. BusIdsOf(devs) = [i \in 1..Len(devs) |-> devs[i].dev]
  BY <1>1 DEF BusIdsOf
<1>4. \A i \in 1..Len(devs) : devs[i].dev \in Devices
  BY <1>2 DEF PreparedDevice
<1>5. BusIdsOf(devs) \in [1..Len(devs) -> Devices]
  BY <1>3, <1>4
<1>6. BusIdsOf(devs) \in Seq(Devices)
  BY <1>1, <1>5, SeqDef, Zenon
<1>7. 1..Len(BusIdsOf(devs)) = 1..Len(devs) /\ Len(BusIdsOf(devs)) \in Nat
  BY <1>3, <1>6, LenProperties, Zenon
<1>8. Len(BusIdsOf(devs)) = Len(devs)
  BY <1>1, <1>7
<1> QED BY <1>1, <1>2, <1>3, <1>6, <1>8

LEMMA BusIdsAppend ==
    ASSUME NEW devs \in Seq(PreparedDevice), NEW r \in PreparedDevice
    PROVE  BusIdsOf(Append(devs, r)) = Append(BusIdsOf(devs), r.dev)
<1> DEFINE more == Append(devs, r)
           a == BusIdsOf(more)
           b == Append(BusIdsOf(devs), r.dev)
           n == Len(devs)
<1>1. /\ more \in Seq(PreparedDevice) /\ Len(more) = n + 1 /\ n \in Nat
      /\ \A i \in 1..n : more[i] = devs[i]
      /\ more[n + 1] = r
  BY AppendProperties, LenProperties
<1>2. r.dev \in Devices
  BY DEF PreparedDevice
<1>3. /\ b \in Seq(Devices) /\ Len(b) = n + 1
      /\ \A i \in 1..n : b[i] = BusIdsOf(devs)[i]
      /\ b[n + 1] = r.dev
  BY <1>2, BusIdsType, AppendProperties
<1> HIDE DEF more, b
<1>4. a \in Seq(Devices) /\ Len(a) = n + 1 /\ \A i \in 1..(n + 1) : a[i] = more[i].dev
  BY <1>1, BusIdsType
<1>5. \A i \in 1..n : b[i] = devs[i].dev
  BY <1>3, BusIdsType
<1> HIDE DEF a, n
<1>6. \A i \in 1..(n + 1) : a[i] = b[i]
  <2> SUFFICES ASSUME NEW i \in 1..(n + 1) PROVE a[i] = b[i]
    OBVIOUS
  <2>1. CASE i = n + 1
    BY <1>1, <1>3, <1>4, <2>1
  <2>2. CASE i # n + 1
    <3>1. i \in 1..n
      BY <1>1, <2>2
    <3> QED BY <1>1, <1>4, <1>5, <3>1
  <2> QED BY <2>1, <2>2
<1>7. a = b
  BY <1>3, <1>4, <1>6, SeqEqual
<1> QED BY <1>7 DEF a, b, more

\* Devices can be picked before or after their bus ids are taken.
LEMMA PickedBusIds ==
    ASSUME NEW devs \in Seq(PreparedDevice), NEW S, NEW D,
           \A i \in 1..Len(devs) : devs[i] \in S <=> devs[i].dev \in D
    PROVE  Picked(BusIdsOf(devs), D) = BusIdsOf(Picked(devs, S))
<1> DEFINE ids == BusIdsOf(devs)
           Q == PickedOf(devs, S)
           P == PickedOf(ids, D)
           T == {n \in Nat : P[n] = BusIdsOf(Q[n])}
<1>1. /\ Len(devs) \in Nat /\ Len(ids) = Len(devs) /\ ids \in Seq(Devices)
      /\ \A i \in 1..Len(devs) : devs[i] \in PreparedDevice /\ ids[i] = devs[i].dev
  BY BusIdsType
<1>2. /\ Q[0] = <<>>
      /\ \A i \in 1..Len(devs) : Q[i] = IF devs[i] \in S THEN Append(Q[i - 1], devs[i]) ELSE Q[i - 1]
  BY <1>1, PickedEquation
<1>3. /\ P[0] = <<>>
      /\ \A i \in 1..Len(devs) : P[i] = IF ids[i] \in D THEN Append(P[i - 1], ids[i]) ELSE P[i - 1]
  <2> HIDE DEF ids
  <2> QED BY <1>1, PickedEquation
<1>4. \A n \in 0..Len(devs) : Q[n] \in Seq(PreparedDevice)
  BY PickedType
<1> HIDE DEF Q, P, ids
<1>5. 0 \in T
  <2>1. <<>> \in Seq(PreparedDevice) /\ Len(<<>>) = 0
    BY EmptySeq
  <2>2. BusIdsOf(<<>>) \in Seq(Devices) /\ Len(BusIdsOf(<<>>)) = 0
    BY <2>1, BusIdsType
  <2>3. BusIdsOf(<<>>) = <<>>
    BY <2>2, EmptySeq
  <2> QED BY <1>2, <1>3, <2>3
<1>6. ASSUME NEW i \in 1..Len(devs), i - 1 \in T PROVE i \in T
  <2>1. i \in Nat /\ i - 1 \in 0..Len(devs) /\ P[i - 1] = BusIdsOf(Q[i - 1])
    BY <1>1, <1>6
  <2>2. ids[i] = devs[i].dev /\ devs[i] \in PreparedDevice /\ Q[i - 1] \in Seq(PreparedDevice)
    BY <1>1, <1>4, <2>1
  <2>3. CASE devs[i] \in S
    <3>1. Q[i] = Append(Q[i - 1], devs[i]) /\ P[i] = Append(P[i - 1], ids[i])
      BY <1>2, <1>3, <2>2, <2>3
    <3> QED BY <2>1, <2>2, <3>1, BusIdsAppend
  <2>4. CASE devs[i] \notin S
    <3>1. Q[i] = Q[i - 1] /\ P[i] = P[i - 1]
      BY <1>2, <1>3, <2>2, <2>4
    <3> QED BY <2>1, <3>1
  <2> QED BY <2>3, <2>4
<1>7. 0..Len(devs) \subseteq T
  <2> HIDE DEF T
  <2> QED BY <1>1, <1>5, <1>6, InductionUpTo
<1>8. P[Len(ids)] = BusIdsOf(Q[Len(devs)])
  BY <1>1, <1>7
<1> QED BY <1>8 DEF Picked, P, Q, ids

-----------------------------------------------------------------------------
(* The inductive invariant.                                                *)

\* A device is allocatable only if its product is supported and, unless it has
\* moved since discovery, it is in a group.
AllocatableInv ==
    \A d \in allocatable : product[d] # "other" /\ (d \notin moved => vfio[d] = "group")

\* Nothing is left of the claim before.
FreshInv ==
    /\ pc = "idle" => results = <<>> /\ seen = 0 /\ prepared = <<>>
    /\ pc \in {"idle", "devices", "config"} => config = Unreadable
    /\ pc \in {"idle", "devices", "config", "spec"} => spec = NoSpec /\ outcome = "none"

\* The prepared devices are the results of this driver among those looked at.
PreparedInv ==
    /\ \A i \in DOMAIN prepared : prepared[i].dev \in allocatable
    /\ outcome # "refused" => BusIdsOf(prepared) = PickedOf(results, Devices)[seen]
    /\ pc \in {"config", "spec"} \/ outcome = "ok" => seen = Len(results)

\* What is written is what is generated for the prepared devices.
Generated == GenerateConfigContent(template, ConfigProduct, BusIdsOf(prepared))
WrittenInv ==
    /\ config # Unreadable => Generated.outcome = "ok" /\ config = Generated.content
    /\ outcome \in {"error", "panic"} => Generated.outcome = outcome
    /\ outcome = "ok" => spec = [common |-> CommonEnvs(prepared), devices |-> prepared]

IInv == /\ TypeOK /\ AllocatableInv /\ FreshInv /\ PreparedInv /\ WrittenInv
        /\ NodeMissingOnlyIfMoved /\ RefusedForCause

\* Every result is a device or stands for another driver's.
LEMMA ResultsType ==
    ASSUME TypeOK
    PROVE  /\ results \in Seq(Devices \cup {Foreign}) /\ Len(results) \in Nat
           /\ \A i \in 1..Len(results) : results[i] \in Devices \cup {Foreign}
<1>1. results \in Seq(Devices \cup {Foreign})
  BY AllocationsAssumption, EmptySeq DEF TypeOK
<1> QED BY <1>1, LenProperties, ElementOfSeq

\* The generator succeeds, with an object, or it fails for a cause.
LEMMA GenerateOutcome ==
    ASSUME NEW t, NEW p, NEW ids, NEW g, g = GenerateConfigContent(t, p, ids)
    PROVE  \/ /\ g.outcome \in {"error", "panic"} /\ ~ WellFormed(t)
           \/ /\ g.outcome = "ok"
              /\ IsObj(t) /\ Has(t, "GENERAL") /\ IsObj(t.at["GENERAL"])
              /\ ~ RISCVPanics(p, t) /\ ~ BadMetrics(t)
              /\ g.content = ModifyRISCVContent(p, SetMetrics(SetGeneral(t, p, ids), ids))
<1>1. CASE ~ (IsObj(t) /\ Has(t, "GENERAL") /\ IsObj(t.at["GENERAL"]))
  <2>1. g = Fails("error")
    BY <1>1 DEF GenerateConfigContent
  <2> QED BY <1>1, <2>1 DEF WellFormed, Fails
<1>2. CASE IsObj(t) /\ Has(t, "GENERAL") /\ IsObj(t.at["GENERAL"])
  <2>1. g = IF RISCVPanics(p, t) THEN Fails("panic")
            ELSE IF BadMetrics(t) THEN Fails("error")
            ELSE Ok(ModifyRISCVContent(p, SetMetrics(SetGeneral(t, p, ids), ids)))
    BY <1>2 DEF GenerateConfigContent
  <2>2. CASE RISCVPanics(p, t)
    BY <2>1, <2>2 DEF Fails, WellFormed, RISCVPanics
  <2>3. CASE ~ RISCVPanics(p, t) /\ BadMetrics(t)
    BY <2>1, <2>3 DEF Fails, WellFormed, BadMetrics, MetricsGeneral
  <2>4. CASE ~ RISCVPanics(p, t) /\ ~ BadMetrics(t)
    BY <1>2, <2>1, <2>4 DEF Ok
  <2> QED BY <2>2, <2>3, <2>4
<1> QED BY <1>1, <1>2

\* Setting a key leaves an object in which the other keys are as they were.
LEMMA PutKey ==
    ASSUME NEW v, NEW k, NEW x, NEW w, w = Put(v, k, x)
    PROVE  /\ IsObj(w) /\ DOMAIN w.at = DOMAIN v.at \cup {k}
           /\ w.at[k] = x
           /\ \A j \in DOMAIN v.at \ {k} : w.at[j] = v.at[j]
BY DEF Put, Obj, IsObj

LEMMA GeneratedIsObj ==
    ASSUME NEW t, NEW p, NEW ids
    PROVE  IsObj(ModifyRISCVContent(p, SetMetrics(SetGeneral(t, p, ids), ids)))
<1> DEFINE c == SetGeneral(t, p, ids)
<1>1. IsObj(c)
  BY PutKey DEF SetGeneral
<1> HIDE DEF c
<1>2. \A d, path : IsObj(SetMetricsPath(d, path))
  BY PutKey DEF SetMetricsPath
<1>3. \A d, path : IsObj(d) => IsObj(SetMultiPath(d, ids, path))
  BY PutKey DEF SetMultiPath
<1>4. IsObj(SetMetrics(c, ids))
  <2>1. \A k, x : IsObj(Put(c, k, x))
    BY PutKey
  <2> QED BY <1>1, <1>2, <1>3, <2>1 DEF SetMetrics, MetricsEnabled, MetricsDisabled
<1> QED BY <1>4, PutKey DEF ModifyRISCVContent, c

\* What a run of the generator leaves in the state.
LEMMA WriteConfigOutcome ==
    ASSUME WriteConfig
    PROVE  /\ pc = "config" /\ template' \in Templates
           /\ UNCHANGED <<node, allocatable, results, seen, prepared, spec>>
           /\ \/ /\ Generated'.outcome = "ok" /\ config' = Generated'.content
                 /\ IsObj(config') /\ pc' = "spec" /\ outcome' = "none"
              \/ /\ Generated'.outcome \in {"ok", "error"} /\ UNCHANGED config /\ pc' = "answer"
                 /\ outcome' = IF Generated'.outcome = "ok" THEN "io" ELSE "error"
              \/ /\ Generated'.outcome = "panic" /\ UNCHANGED config /\ pc' = "down"
                 /\ outcome' = "panic"
<1>1. UNCHANGED <<node, allocatable, results, seen, prepared, spec>> /\ pc = "config"
  BY DEF WriteConfig
<1>2. ConfigProduct' = ConfigProduct /\ BusIdsOf(prepared)' = BusIdsOf(prepared)
  BY <1>1 DEF ConfigProduct, BusIdsOf, IsPf, IsVf, node
<1>3. PICK t \in Templates :
        LET g == GenerateConfigContent(t, ConfigProduct, BusIdsOf(prepared))
        IN  /\ template' = t
            /\ \/ g.outcome = "ok" /\ config' = g.content /\ pc' = "spec" /\ outcome' = "none"
               \/ g.outcome = "ok" /\ End("io") /\ UNCHANGED config
               \/ g.outcome = "error" /\ End("error") /\ UNCHANGED config
               \/ g.outcome = "panic" /\ pc' = "down" /\ outcome' = "panic" /\ UNCHANGED config
  BY DEF WriteConfig
<1> DEFINE g == GenerateConfigContent(t, ConfigProduct, BusIdsOf(prepared))
<1>4. g = Generated'
  BY <1>2, <1>3 DEF Generated
<1>5. g.outcome = "ok" => IsObj(g.content)
  BY GenerateOutcome, GeneratedIsObj
<1> HIDE DEF g
<1>6. /\ template' \in Templates
      /\ \/ g.outcome = "ok" /\ config' = g.content /\ pc' = "spec" /\ outcome' = "none"
         \/ g.outcome = "ok" /\ End("io") /\ UNCHANGED config
         \/ g.outcome = "error" /\ End("error") /\ UNCHANGED config
         \/ g.outcome = "panic" /\ pc' = "down" /\ outcome' = "panic" /\ UNCHANGED config
  BY <1>3 DEF g
<1> QED BY <1>1, <1>4, <1>5, <1>6 DEF End

\* The three ways to look at a result.
LEMMA PrepareDeviceOutcome ==
    ASSUME IInv, PrepareDevice
    PROVE  /\ pc = "devices" /\ seen + 1 \in 1..Len(results) /\ seen' = seen + 1
           /\ UNCHANGED <<node, allocatable, results, template, config, spec>>
           /\ LET d == results[seen + 1]
              IN  \/ d = Foreign /\ UNCHANGED <<pc, prepared, outcome>>
                  \/ /\ d \in Devices \ allocatable /\ UNCHANGED prepared
                     /\ pc' = "answer" /\ outcome' = "refused"
                  \/ \E r \in PreparedDevice :
                        /\ d \in allocatable /\ r.dev = d /\ r.nodes = GetCDIDeviceSpec(d)
                        /\ prepared' = Append(prepared, r) /\ UNCHANGED <<pc, outcome>>
<1>1. seen + 1 \in 1..Len(results)
  BY ResultsType DEF IInv, TypeOK, PrepareDevice
<1>2. \A d \in allocatable : [dev |-> d, nodes |-> GetCDIDeviceSpec(d)] \in PreparedDevice
  BY DEF IInv, TypeOK, PreparedDevice, GetCDIDeviceSpec
<1> QED BY <1>1, <1>2 DEF PrepareDevice, End

LEMMA InitIInv == Init => IInv
<1> SUFFICES ASSUME Init PROVE IInv
  OBVIOUS
<1>1. Len(<<>>) = 0 /\ \A R : <<>> \in Seq(R)
  BY EmptySeq
<1>2. DOMAIN <<>> = {}
  BY <1>1, LenProperties
<1>3. BusIdsOf(<<>>) = <<>>
  BY <1>1, BusIdsType, EmptySeq
<1>4. PickedOf(<<>>, Devices)[0] = <<>>
  BY <1>1, PickedEquation
<1>5. TypeOK
  BY <1>1 DEF Init, TypeOK, NoSpec
<1> QED BY <1>2, <1>3, <1>4, <1>5 DEF Init, IInv, AllocatableInv, FreshInv, PreparedInv,
          WrittenInv, NodeMissingOnlyIfMoved, RefusedForCause

LEMMA TypesKept == ASSUME IInv, Next PROVE TypeOK'
<1> USE DEF TypeOK, IInv
<1>1. CASE Discover
  BY <1>1, EmptySeq DEF Discover, ConvertToSpyrePCIDevices, IsTarget, Clear, NoSpec, vars, node, claim
<1>2. CASE SysfsChanges
  BY <1>2 DEF SysfsChanges, claim
<1>3. CASE Prepare
  <2>1. Len(results') \in Nat
    BY <1>3, AllocationsAssumption, LenProperties DEF Prepare
  <2> QED BY <1>3, <2>1 DEF Prepare, node, FreshInv
<1>4. CASE PrepareDevice
  <2>1. seen' \in 0..Len(results')
    BY <1>4, PrepareDeviceOutcome, ResultsType
  <2>2. prepared' \in Seq([dev : Devices, nodes : SUBSET Devices])
    <3>1. prepared \in Seq(PreparedDevice)
      BY DEF PreparedDevice
    <3>2. UNCHANGED prepared \/ \E r \in PreparedDevice : prepared' = Append(prepared, r)
      BY <1>4, PrepareDeviceOutcome
    <3>3. prepared' \in Seq(PreparedDevice)
      BY <3>1, <3>2, AppendProperties
    <3> QED BY <3>3 DEF PreparedDevice
  <2>3. spec' = NoSpec
    BY <1>4, PrepareDeviceOutcome DEF FreshInv
  <2>4. pc' \in {"devices", "answer"} /\ outcome' \in {"none", "refused"}
    BY <1>4, PrepareDeviceOutcome DEF FreshInv
  <2> QED BY <1>4, <2>1, <2>2, <2>3, <2>4, PrepareDeviceOutcome DEF node, NoSpec
<1>5. CASE DevicesPrepared
  BY <1>5 DEF DevicesPrepared, node, claim, FreshInv
<1>6. CASE WriteConfig
  BY <1>6, WriteConfigOutcome DEF node, FreshInv
<1>7. CASE CreateClaimSpecFile
  BY <1>7 DEF CreateClaimSpecFile, End, node
<1>8. CASE Answer
  BY <1>8, EmptySeq DEF Answer, Clear, NoSpec, node
<1> QED BY <1>1, <1>2, <1>3, <1>4, <1>5, <1>6, <1>7, <1>8 DEF Next

\* The invariants that a step keeps, given that it keeps the types.
LEMMA AllocatableKept == ASSUME IInv, Next PROVE AllocatableInv'
<1> USE DEF IInv, AllocatableInv
<1>1. CASE Discover
  BY <1>1 DEF Discover, ConvertToSpyrePCIDevices, IsTarget, GetVFIODeviceFile
<1>2. CASE SysfsChanges
  BY <1>2 DEF SysfsChanges, TypeOK
<1>3. CASE UNCHANGED <<node, allocatable>>
  BY <1>3 DEF node
<1>4. Discover \/ SysfsChanges \/ UNCHANGED <<node, allocatable>>
  BY DEF Next, Prepare, PrepareDevice, DevicesPrepared, WriteConfig, CreateClaimSpecFile, Answer
<1> QED BY <1>1, <1>2, <1>3, <1>4

LEMMA FreshKept == ASSUME IInv, Next PROVE FreshInv'
<1> USE DEF IInv, FreshInv
<1>1. CASE Discover
  BY <1>1 DEF Discover, Clear
<1>2. CASE SysfsChanges
  BY <1>2 DEF SysfsChanges, claim
<1>3. CASE Prepare
  BY <1>3 DEF Prepare
<1>4. CASE PrepareDevice
  BY <1>4, PrepareDeviceOutcome
<1>5. CASE DevicesPrepared
  BY <1>5 DEF DevicesPrepared, claim
<1>6. CASE WriteConfig
  BY <1>6, WriteConfigOutcome
<1>7. CASE CreateClaimSpecFile
  BY <1>7 DEF CreateClaimSpecFile, End
<1>8. CASE Answer
  BY <1>8 DEF Answer, Clear
<1> QED BY <1>1, <1>2, <1>3, <1>4, <1>5, <1>6, <1>7, <1>8 DEF Next

\* The empty claim.
LEMMA NothingPrepared ==
    /\ BusIdsOf(<<>>) = <<>> /\ DOMAIN <<>> = {}
    /\ \A s : Len(s) \in Nat => PickedOf(s, Devices)[0] = <<>>
<1>1. <<>> \in Seq(PreparedDevice) /\ Len(<<>>) = 0
  BY EmptySeq
<1>2. DOMAIN <<>> = {}
  BY <1>1, LenProperties
<1>3. BusIdsOf(<<>>) = <<>>
  BY <1>1, BusIdsType, EmptySeq
<1> QED BY <1>2, <1>3, PickedEquation

LEMMA PreparedKept == ASSUME IInv, Next PROVE PreparedInv'
<1> USE DEF IInv, PreparedInv
<1>1. CASE prepared' = <<>> /\ seen' = 0 /\ pc' \notin {"config", "spec"} /\ outcome' # "ok"
  <2>1. Len(results') \in Nat
    BY TypesKept, ResultsType, AllocationsAssumption, EmptySeq, LenProperties DEF TypeOK
  <2> QED BY <1>1, <2>1, NothingPrepared
<1>2. CASE PrepareDevice
  <2>1. PICK d \in Devices \cup {Foreign} : d = results[seen + 1]
    BY <1>2, PrepareDeviceOutcome, ResultsType
  <2>2. /\ prepared \in Seq(PreparedDevice) /\ Len(results) \in Nat /\ seen \in Nat
        /\ seen + 1 \in 1..Len(results) /\ (seen + 1) - 1 = seen
    BY <1>2, PrepareDeviceOutcome, ResultsType DEF TypeOK, PreparedDevice
  <2>3. PickedOf(results, Devices)[seen + 1] =
          IF d \in Devices THEN Append(PickedOf(results, Devices)[seen], d)
                           ELSE PickedOf(results, Devices)[seen]
    BY <2>1, <2>2, PickedEquation
  <2>4. /\ pc' \in {"devices", "answer"} /\ outcome' \in {"none", "refused"}
        /\ UNCHANGED <<allocatable, results>> /\ seen' = seen + 1 /\ outcome = "none"
    BY <1>2, PrepareDeviceOutcome DEF FreshInv
  <2>5. CASE d = Foreign
    BY <1>2, <2>1, <2>3, <2>4, <2>5, PrepareDeviceOutcome, ForeignAssumption DEF TypeOK
  <2>6. CASE outcome' = "refused"
    BY <1>2, <2>4, <2>6, PrepareDeviceOutcome DEF FreshInv
  <2>7. CASE d # Foreign /\ outcome' # "refused"
    <3>1. PICK r \in PreparedDevice :
            d \in allocatable /\ r.dev = d /\ prepared' = Append(prepared, r)
      BY <1>2, <2>1, <2>7, PrepareDeviceOutcome
    <3>2. BusIdsOf(prepared') = Append(BusIdsOf(prepared), d)
      BY <2>2, <3>1, BusIdsAppend
    <3>3. BusIdsOf(prepared)' = PickedOf(results', Devices)[seen']
      <4>1. BusIdsOf(prepared) = PickedOf(results, Devices)[seen]
        BY <2>4
      <4>2. Append(BusIdsOf(prepared), d) = PickedOf(results, Devices)[seen + 1]
        BY <2>3, <2>7, <4>1
      <4> QED BY <2>4, <3>2, <4>2
    <3>4. \A i \in DOMAIN prepared' : prepared'[i].dev \in allocatable'
      BY <2>2, <2>4, <3>1, AppendProperties, LenProperties
    <3> QED BY <2>4, <3>3, <3>4
  <2> QED BY <2>5, <2>6, <2>7
<1>3. CASE UNCHANGED <<allocatable, results, seen, prepared>>
           /\ (outcome = "refused" => outcome' = "refused")
           /\ (pc' \in {"config", "spec"} \/ outcome' = "ok" => seen = Len(results))
  BY <1>3
<1>4. CASE SysfsChanges \/ DevicesPrepared \/ WriteConfig \/ CreateClaimSpecFile
  <2>1. UNCHANGED <<allocatable, results, seen, prepared>>
    BY <1>4 DEF SysfsChanges, DevicesPrepared, WriteConfig, CreateClaimSpecFile, claim
  <2>2. outcome = "refused" => outcome' = "refused"
    BY <1>4 DEF FreshInv, SysfsChanges, DevicesPrepared, WriteConfig, CreateClaimSpecFile, claim
  <2>3. pc' \in {"config", "spec"} \/ outcome' = "ok" => seen = Len(results)
    <3>1. CASE SysfsChanges
      BY <3>1 DEF SysfsChanges, claim
    <3>2. CASE DevicesPrepared
      BY <3>2 DEF DevicesPrepared
    <3>3. CASE WriteConfig
      BY <3>3 DEF WriteConfig
    <3>4. CASE CreateClaimSpecFile
      BY <3>4 DEF CreateClaimSpecFile
    <3> QED BY <1>4, <3>1, <3>2, <3>3, <3>4
  <2> QED BY <1>3, <2>1, <2>2, <2>3
<1>5. CASE Discover \/ Prepare \/ Answer
  BY <1>1, <1>5 DEF Discover, Prepare, Answer, Clear, FreshInv
<1> QED BY <1>2, <1>4, <1>5 DEF Next

LEMMA WrittenKept == ASSUME IInv, Next PROVE WrittenInv'
<1> USE DEF IInv, WrittenInv
<1>1. CASE config' = Unreadable /\ outcome' \notin {"ok", "error", "panic"}
  BY <1>1
<1>2. CASE WriteConfig
  BY <1>2, WriteConfigOutcome DEF FreshInv
<1>3. CASE CreateClaimSpecFile
  <2>1. Generated' = Generated
    BY <1>3 DEF CreateClaimSpecFile, Generated, ConfigProduct, BusIdsOf, IsPf, IsVf, node
  <2>2. CommonEnvs(prepared)' = CommonEnvs(prepared)
    BY <1>3 DEF CreateClaimSpecFile, CommonEnvs, BusIdsOf, IsPf, IsVf, node
  <2> QED BY <1>3, <2>1, <2>2 DEF CreateClaimSpecFile, End
<1>4. CASE Discover \/ SysfsChanges \/ Prepare \/ DevicesPrepared \/ Answer
  BY <1>1, <1>4 DEF FreshInv, Discover, SysfsChanges, Prepare, DevicesPrepared, Answer, Clear, claim
<1>5. CASE PrepareDevice
  BY <1>1, <1>5, PrepareDeviceOutcome DEF FreshInv
<1> QED BY <1>2, <1>3, <1>4, <1>5 DEF Next

LEMMA NodesKept == ASSUME IInv, Next PROVE NodeMissingOnlyIfMoved'
<1> USE DEF IInv, NodeMissingOnlyIfMoved
<1>1. CASE prepared' = <<>>
  BY <1>1, NothingPrepared
<1>2. CASE PrepareDevice
  <2>1. prepared \in Seq(PreparedDevice) /\ moved' = moved
    BY <1>2, PrepareDeviceOutcome DEF TypeOK, PreparedDevice, node
  <2>2. CASE UNCHANGED prepared
    BY <2>1, <2>2
  <2>3. ASSUME NEW r \in PreparedDevice, prepared' = Append(prepared, r),
               r.dev \in allocatable, r.nodes = GetCDIDeviceSpec(r.dev)
        PROVE  NodeMissingOnlyIfMoved'
    <3>1. r.dev \notin moved => r.nodes # {}
      BY <2>3 DEF AllocatableInv, GetCDIDeviceSpec, GetVFIODeviceFile
    <3> QED BY <2>1, <2>3, <3>1, AppendProperties, LenProperties
  <2> QED BY <1>2, <2>2, <2>3, PrepareDeviceOutcome
<1>3. CASE UNCHANGED prepared /\ moved \subseteq moved'
  BY <1>3
<1>4. CASE Discover \/ Answer
  BY <1>1, <1>4 DEF Discover, Answer, Clear
<1>5. CASE SysfsChanges \/ Prepare \/ DevicesPrepared \/ WriteConfig \/ CreateClaimSpecFile
  BY <1>3, <1>5 DEF SysfsChanges, Prepare, DevicesPrepared, WriteConfig, CreateClaimSpecFile,
                    claim, node
<1> QED BY <1>2, <1>4, <1>5 DEF Next

LEMMA CausesKept == ASSUME IInv, Next PROVE RefusedForCause'
<1> USE DEF IInv, RefusedForCause
<1>1. CASE outcome' \notin {"refused", "error", "panic"}
  BY <1>1
<1>2. CASE PrepareDevice
  <2>1. /\ outcome' = "refused" => results[seen + 1] \in Devices \ allocatable
        /\ outcome' \in {"none", "refused"}
        /\ UNCHANGED <<allocatable, results>> /\ seen + 1 \in DOMAIN results
    BY <1>2, PrepareDeviceOutcome, ResultsType, LenProperties DEF FreshInv
  <2> QED BY <2>1 DEF ToSet
<1>3. CASE WriteConfig
  BY <1>3, WriteConfigOutcome, GenerateOutcome DEF Generated
<1>4. CASE Discover \/ SysfsChanges \/ Prepare \/ DevicesPrepared \/ CreateClaimSpecFile \/ Answer
  BY <1>1, <1>4 DEF FreshInv, Discover, SysfsChanges, Prepare, DevicesPrepared,
                    CreateClaimSpecFile, End, Answer, Clear, claim
<1> QED BY <1>2, <1>3, <1>4 DEF Next

LEMMA StutterIInv == ASSUME IInv, UNCHANGED vars PROVE IInv'
<1>1. UNCHANGED <<product, vfio, moved, allocatable, pc, results, seen, prepared, template,
                  config, spec, outcome>>
  BY DEF vars, node, claim
<1>2. Generated' = Generated
  BY <1>1 DEF Generated, ConfigProduct, BusIdsOf, IsPf, IsVf
<1>3. CommonEnvs(prepared)' = CommonEnvs(prepared)
  BY <1>1 DEF CommonEnvs, BusIdsOf, IsPf, IsVf
<1> USE DEF IInv
<1>4. TypeOK'
  BY <1>1 DEF TypeOK
<1>5. (AllocatableInv /\ FreshInv /\ PreparedInv)'
  BY <1>1 DEF AllocatableInv, FreshInv, PreparedInv
<1>6. WrittenInv'
  BY <1>1, <1>2, <1>3 DEF WrittenInv
<1>7. (NodeMissingOnlyIfMoved /\ RefusedForCause)'
  BY <1>1 DEF NodeMissingOnlyIfMoved, RefusedForCause
<1> QED BY <1>4, <1>5, <1>6, <1>7

LEMMA Invariance == Spec => []IInv
<1>1. IInv /\ [Next]_vars => IInv'
  BY StutterIInv, TypesKept, AllocatableKept, FreshKept, PreparedKept, WrittenKept,
     NodesKept, CausesKept DEF IInv
<1> QED BY InitIInv, <1>1, PTL DEF Spec

\* A config is always an object, whatever the template was, and the devices of the
\* spec are the prepared ones.
THEOREM ClaimTypeCorrect == Spec => []TypeOK
BY Invariance, PTL DEF IInv

\* A device whose vfio file could be found at discovery comes without its node
\* only if it has moved since.
THEOREM NodesCorrect == Spec => []NodeMissingOnlyIfMoved
BY Invariance, PTL DEF IInv

\* A claim is refused for a device that is not allocatable, the template for a
\* section that is no object.
THEOREM CausesCorrect == Spec => []RefusedForCause
BY Invariance, PTL DEF IInv

\* No step adds a node of the vfio-noiommu group.
THEOREM NoiommuCorrect == Spec => NoiommuNotInjected
<1>1. IInv /\ [Next]_vars => [Injected]_vars
  <2> SUFFICES ASSUME IInv, Next PROVE Injected
    OBVIOUS
  <2>1. CASE prepared' = <<>> \/ UNCHANGED prepared
    BY <2>1, NothingPrepared DEF Injected
  <2>2. CASE PrepareDevice
    <3>1. prepared \in Seq(PreparedDevice)
      BY DEF IInv, TypeOK, PreparedDevice
    <3>2. ASSUME NEW r \in PreparedDevice, prepared' = Append(prepared, r),
                 r.nodes = GetCDIDeviceSpec(r.dev)
          PROVE  Injected
      <4>1. \A d \in r.nodes : vfio[d] # "noiommu"
        BY <3>2 DEF GetCDIDeviceSpec, GetVFIODeviceFile
      <4>2. DOMAIN prepared' \ DOMAIN prepared \subseteq {Len(prepared) + 1}
        BY <3>1, <3>2, AppendProperties, LenProperties
      <4>3. prepared'[Len(prepared) + 1] = r
        BY <3>1, <3>2, AppendProperties
      <4> QED BY <4>1, <4>2, <4>3 DEF Injected
    <3> QED BY <2>1, <2>2, <3>2, PrepareDeviceOutcome
  <2>3. CASE Discover \/ SysfsChanges \/ Prepare \/ DevicesPrepared \/ WriteConfig
               \/ CreateClaimSpecFile \/ Answer
    BY <2>1, <2>3 DEF Discover, SysfsChanges, Prepare, DevicesPrepared, WriteConfig,
                      CreateClaimSpecFile, Answer, Clear, claim
  <2> QED BY <2>2, <2>3 DEF Next
<1> QED BY Invariance, <1>1, PTL DEF Spec, NoiommuNotInjected

-----------------------------------------------------------------------------
(* The content of a generated config.                                      *)

\* w is v with the keys in S set to something.
Updates(v, w, S) ==
    /\ IsObj(w)
    /\ DOMAIN v.at \subseteq DOMAIN w.at /\ DOMAIN w.at \subseteq DOMAIN v.at \cup S
    /\ \A k \in DOMAIN v.at \ S : w.at[k] = v.at[k]

LEMMA PutUpdates ==
    ASSUME NEW v, NEW k, NEW x, NEW w, w = Put(v, k, x)
    PROVE  Updates(v, w, {k}) /\ Has(w, k) /\ w.at[k] = x
BY PutKey DEF Updates, Has

LEMMA UpdatesTwice ==
    ASSUME NEW u, NEW v, NEW w, NEW S, NEW T, Updates(u, v, S), Updates(v, w, T)
    PROVE  Updates(u, w, S \cup T)
BY DEF Updates

LEMMA UpdatesSub ==
    ASSUME NEW v, NEW w, NEW S, Updates(v, w, S), NEW k, k \notin S
    PROVE  /\ Sub(w, k) = Sub(v, k)
           /\ Has(v, k) <=> Has(w, k)
           /\ Has(v, k) => w.at[k] = v.at[k]
BY DEF Updates, Sub, Has

LEMMA UpdatesKept ==
    ASSUME NEW v, NEW w, NEW S, Updates(v, w, S), IsObj(v)
    PROVE  Kept(v, w, S)
BY DEF Updates, Kept, Has

\* The empty object, and an object that is not there.
LEMMA EmptyObj == IsObj(Obj(<<>>)) /\ \A k : ~ Has(Obj(<<>>), k)
BY NothingPrepared DEF IsObj, Obj, Has

LEMMA SubPresent ==
    ASSUME NEW v, NEW k
    PROVE  /\ \A j : Has(Sub(v, k), j) => Has(v, k)
           /\ Has(v, k) => Sub(v, k) = v.at[k]
           /\ ~ Has(v, k) => Sub(v, k) = Obj(<<>>)
BY EmptyObj DEF Sub

LEMMA SetGeneralContent ==
    ASSUME NEW t, NEW p, NEW ids, NEW c, c = SetGeneral(t, p, ids)
    PROVE  /\ Updates(t, c, {"GENERAL"}) /\ Has(c, "GENERAL")
           /\ Updates(t.at["GENERAL"], c.at["GENERAL"], {"sen_bus_id", "doom"})
           /\ Has(c.at["GENERAL"], "sen_bus_id") /\ Has(c.at["GENERAL"], "doom")
           /\ c.at["GENERAL"].at["sen_bus_id"] = BusIds(ids)
           /\ c.at["GENERAL"].at["doom"] = Text(IF p = "vf" THEN "true" ELSE "false")
<1> DEFINE g == Put(t.at["GENERAL"], "sen_bus_id", BusIds(ids))
           h == Put(g, "doom", Text(IF p = "vf" THEN "true" ELSE "false"))
<1>1. c = Put(t, "GENERAL", h)
  BY DEF SetGeneral
<1>2. /\ Updates(t.at["GENERAL"], g, {"sen_bus_id"}) /\ Has(g, "sen_bus_id")
      /\ g.at["sen_bus_id"] = BusIds(ids)
  BY PutUpdates
<1>3. /\ Updates(g, h, {"doom"}) /\ Has(h, "doom")
      /\ h.at["doom"] = Text(IF p = "vf" THEN "true" ELSE "false")
  BY PutUpdates
<1> HIDE DEF g, h
<1>4. Updates(t.at["GENERAL"], h, {"sen_bus_id"} \cup {"doom"})
  BY <1>2, <1>3, UpdatesTwice
<1>5. Has(h, "sen_bus_id") /\ h.at["sen_bus_id"] = BusIds(ids)
  BY <1>2, <1>3, UpdatesSub
<1>6. Updates(t, c, {"GENERAL"}) /\ Has(c, "GENERAL") /\ c.at["GENERAL"] = h
  BY <1>1, PutUpdates
<1>7. {"sen_bus_id"} \cup {"doom"} = {"sen_bus_id", "doom"}
  OBVIOUS
<1> QED BY <1>3, <1>4, <1>5, <1>6, <1>7

\* METRICS is set, and for several devices the multi-device path.
LEMMA MetricsAndMultiPath ==
    ASSUME NEW c, NEW x, NEW ids, NEW path, NEW d, Has(c, "GENERAL"), IsObj(c.at["GENERAL"]),
           d = SetMultiPath(Put(c, "METRICS", x), ids, path)
    PROVE  /\ Updates(c, d, {"GENERAL", "METRICS"}) /\ Has(d, "METRICS") /\ d.at["METRICS"] = x
           /\ Updates(c.at["GENERAL"], d.at["GENERAL"], {"multi_aiu_config_path"})
           /\ Len(ids) > 1 => /\ Has(d.at["GENERAL"], "multi_aiu_config_path")
                              /\ d.at["GENERAL"].at["multi_aiu_config_path"] = Text(path)
<1> DEFINE m == Put(c, "METRICS", x)
<1>1. Updates(c, m, {"METRICS"}) /\ Has(m, "METRICS") /\ m.at["METRICS"] = x
  BY PutUpdates
<1>2. Has(m, "GENERAL") /\ m.at["GENERAL"] = c.at["GENERAL"]
  BY <1>1, UpdatesSub
<1>3. d = IF Len(ids) > 1
          THEN Put(m, "GENERAL", Put(m.at["GENERAL"], "multi_aiu_config_path", Text(path)))
          ELSE m
  BY DEF SetMultiPath
<1> HIDE DEF m
<1>4. CASE Len(ids) > 1
  <2> DEFINE g == Put(m.at["GENERAL"], "multi_aiu_config_path", Text(path))
  <2>1. /\ Updates(m.at["GENERAL"], g, {"multi_aiu_config_path"})
        /\ Has(g, "multi_aiu_config_path") /\ g.at["multi_aiu_config_path"] = Text(path)
    <3>1. g = Put(m.at["GENERAL"], "multi_aiu_config_path", Text(path))
      OBVIOUS
    <3> HIDE DEF g
    <3> QED BY <3>1, PutUpdates
  <2> HIDE DEF g
  <2>2. Updates(m, d, {"GENERAL"}) /\ d.at["GENERAL"] = g
    BY <1>3, <1>4, PutUpdates DEF g
  <2>3. Updates(c, d, {"METRICS"} \cup {"GENERAL"})
    BY <1>1, <2>2, UpdatesTwice
  <2>4. {"METRICS"} \cup {"GENERAL"} = {"GENERAL", "METRICS"}
    OBVIOUS
  <2>5. Has(d, "METRICS") /\ d.at["METRICS"] = x
    BY <1>1, <2>2, UpdatesSub
  <2> QED BY <1>2, <2>1, <2>2, <2>3, <2>4, <2>5
<1>5. CASE ~ (Len(ids) > 1)
  <2>1. d = m
    BY <1>3, <1>5
  <2> QED BY <1>1, <1>2, <1>5, <2>1 DEF Updates
<1> QED BY <1>4, <1>5

\* The values that the documentation gives for the two paths.
MetricsPath(t, ids) ==
    IF ~ Enabled(t) THEN Text("./sentientmap")
    ELSE IF Len(ids) > 1 THEN Text("/data/multi-aiu-sentientmap")
    ELSE SentientMap(IF ids = <<>> THEN UnknownDevice ELSE ids[1])
MultiPath(t) == IF Enabled(t) THEN "/data/multi-aiu-config" ELSE "/tmp/testing"

\* Unless METRICS.general is there without the key enable, it is set, and the
\* multi-device path with it.
LEMMA SetMetricsCases ==
    ASSUME NEW c, NEW ids, NEW d, d = SetMetrics(c, ids),
           ~ BadMetrics(c), ~ NoEnable(c)
    PROVE  \E gen :
             /\ d = SetMultiPath(Put(c, "METRICS", Put(Sub(c, "METRICS"), "general", gen)),
                                 ids, MultiPath(c))
             /\ Kept(MetricsGeneral(c), gen, {"path"})
             /\ gen.at["path"] = MetricsPath(c, ids)
<1> DEFINE metrics == Sub(c, "METRICS")
           general == MetricsGeneral(c)
<1>1. d = CASE ~ Has(metrics, "general") ->
                 SetMultiPath(Put(c, "METRICS", Put(metrics, "general", DefaultMetrics)),
                              ids, "/tmp/testing")
            [] Has(metrics, "general") /\ ~ Has(general, "enable") -> c
            [] Has(general, "enable") /\ general.at["enable"] = Text("true") ->
                 MetricsEnabled(c, ids)
            [] OTHER -> MetricsDisabled(c, ids)
  BY DEF SetMetrics, MetricsGeneral
<1>2. Enabled(c) <=> Has(general, "enable") /\ general.at["enable"] = Text("true")
  BY DEF Enabled
<1>3. ~ NoEnable(c) <=> (Has(metrics, "general") => Has(general, "enable"))
  BY DEF NoEnable
<1>4. Has(general, "enable") => Has(metrics, "general")
  BY SubPresent DEF MetricsGeneral
<1>5. CASE ~ Has(metrics, "general")
  <2>1. d = SetMultiPath(Put(c, "METRICS", Put(metrics, "general", DefaultMetrics)),
                         ids, "/tmp/testing")
    <3> HIDE DEF metrics, general
    <3> QED BY <1>1, <1>4, <1>5
  <2>2. ~ Enabled(c)
    <3> HIDE DEF metrics, general
    <3> QED BY <1>2, <1>4, <1>5
  <2>3. general = Obj(<<>>)
    BY <1>5, SubPresent DEF MetricsGeneral
  <2>4. Kept(general, DefaultMetrics, {"path"})
    BY <2>3, EmptyObj DEF Kept, Has
  <2>5. DefaultMetrics.at["path"] = Text("./sentientmap")
    BY DEF DefaultMetrics, Obj
  <2> HIDE DEF metrics, general
  <2> QED BY <2>1, <2>2, <2>4, <2>5 DEF MetricsPath, MultiPath, general, metrics
<1>6. CASE Has(metrics, "general")
  <2>1. Has(c, "METRICS") /\ c.at["METRICS"] = metrics
    BY <1>6, SubPresent
  <2>2. metrics.at["general"] = general
    BY <1>6, SubPresent DEF MetricsGeneral
  <2> DEFINE gen == Put(general, "path", MetricsPath(c, ids))
  <2>3. SetMetricsPath(c, MetricsPath(c, ids)) = Put(c, "METRICS", Put(metrics, "general", gen))
    BY <2>1, <2>2 DEF SetMetricsPath
  <2>4. d = SetMultiPath(SetMetricsPath(c, MetricsPath(c, ids)), ids, MultiPath(c))
    <3>1. d = IF Enabled(c) THEN MetricsEnabled(c, ids) ELSE MetricsDisabled(c, ids)
      <4> HIDE DEF metrics, general
      <4> QED BY <1>1, <1>2, <1>3, <1>6
    <3> QED BY <3>1 DEF MetricsEnabled, MetricsDisabled, SetMultiPath, MetricsPath, MultiPath
  <2>5. Kept(general, gen, {"path"}) /\ gen.at["path"] = MetricsPath(c, ids)
    <3>1. IsObj(general)
      BY DEF BadMetrics, MetricsGeneral
    <3> HIDE DEF general
    <3> QED BY <3>1, PutUpdates, UpdatesKept
  <2> HIDE DEF gen
  <2> QED BY <2>3, <2>4, <2>5
<1> QED BY <1>5, <1>6

\* SetMetrics writes the two paths and keeps the rest.
LEMMA SetMetricsContent ==
    ASSUME NEW c, NEW ids, NEW d, d = SetMetrics(c, ids), ~ BadMetrics(c),
           IsObj(c), Has(c, "GENERAL"), IsObj(c.at["GENERAL"])
    PROVE  /\ Updates(c, d, {"GENERAL", "METRICS"})
           /\ Updates(c.at["GENERAL"], d.at["GENERAL"], {"multi_aiu_config_path"})
           /\ Kept(Sub(c, "METRICS"), Sub(d, "METRICS"), {"general"})
           /\ Kept(MetricsGeneral(c), MetricsGeneral(d), {"path"})
           /\ ~ NoEnable(c) =>
                /\ MetricsGeneral(d).at["path"] = MetricsPath(c, ids)
                /\ Len(ids) > 1 => Sub(d.at["GENERAL"], "multi_aiu_config_path")
                                     = Text(MultiPath(c))
<1>1. IsObj(Sub(c, "METRICS")) /\ IsObj(MetricsGeneral(c))
  BY DEF BadMetrics, MetricsGeneral
<1>2. CASE NoEnable(c)
  <2>1. d = c
    BY <1>2, SubPresent DEF SetMetrics, NoEnable, MetricsGeneral
  <2> QED BY <1>2, <2>1 DEF Updates, Kept, Has
<1>3. CASE ~ NoEnable(c)
  <2> DEFINE metrics(gen) == Put(Sub(c, "METRICS"), "general", gen)
  <2>1. PICK gen :
          /\ d = SetMultiPath(Put(c, "METRICS", metrics(gen)), ids, MultiPath(c))
          /\ Kept(MetricsGeneral(c), gen, {"path"})
          /\ gen.at["path"] = MetricsPath(c, ids)
    BY <1>3, SetMetricsCases
  <2> DEFINE m == metrics(gen)
  <2>2. Updates(Sub(c, "METRICS"), m, {"general"}) /\ Has(m, "general") /\ m.at["general"] = gen
    BY PutUpdates
  <2> HIDE DEF m
  <2>3. d = SetMultiPath(Put(c, "METRICS", m), ids, MultiPath(c))
    BY <2>1 DEF m
  <2>4. /\ Updates(c, d, {"GENERAL", "METRICS"}) /\ Has(d, "METRICS") /\ d.at["METRICS"] = m
        /\ Updates(c.at["GENERAL"], d.at["GENERAL"], {"multi_aiu_config_path"})
        /\ Len(ids) > 1 => /\ Has(d.at["GENERAL"], "multi_aiu_config_path")
                           /\ d.at["GENERAL"].at["multi_aiu_config_path"] = Text(MultiPath(c))
    BY <2>3, MetricsAndMultiPath
  <2>5. Sub(d, "METRICS") = m /\ MetricsGeneral(d) = gen
    BY <2>2, <2>4, SubPresent DEF MetricsGeneral
  <2>6. Kept(Sub(c, "METRICS"), m, {"general"})
    BY <1>1, <2>2, UpdatesKept
  <2>7. Len(ids) > 1 => Sub(d.at["GENERAL"], "multi_aiu_config_path") = Text(MultiPath(c))
    BY <2>4, SubPresent
  <2> QED BY <2>1, <2>4, <2>5, <2>6, <2>7
<1> QED BY <1>2, <1>3

\* Everything the generator leaves as it is and everything it sets.
LEMMA GeneratedContent ==
    ASSUME NEW t, NEW p \in {"pf", "vf"}, NEW ids, NEW e,
           IsObj(t), Has(t, "GENERAL"), IsObj(t.at["GENERAL"]),
           ~ RISCVPanics(p, t), ~ BadMetrics(t),
           e = ModifyRISCVContent(p, SetMetrics(SetGeneral(t, p, ids), ids))
    PROVE  /\ Updates(t, e, {"GENERAL", "METRICS", "SNT_MCI"})
           /\ Updates(t.at["GENERAL"], e.at["GENERAL"],
                      {"sen_bus_id", "doom", "multi_aiu_config_path"})
           /\ General(e)["sen_bus_id"] = BusIds(ids)
           /\ General(e)["doom"] = Text(IF p = "vf" THEN "true" ELSE "false")
           /\ Kept(Sub(t, "METRICS"), Sub(e, "METRICS"), {"general"})
           /\ Kept(MetricsGeneral(t), MetricsGeneral(e), {"path"})
           /\ ~ NoEnable(t) =>
                /\ MetricsGeneral(e).at["path"] = MetricsPath(t, ids)
                /\ Len(ids) > 1 => Sub(e.at["GENERAL"], "multi_aiu_config_path")
                                     = Text(MultiPath(t))
           /\ p = "vf" => Sub(e, "SNT_MCI") = Sub(t, "SNT_MCI")
           /\ p = "pf" =>
                LET mci(v) == Sub(v, "SNT_MCI")
                    dcr(v) == Sub(mci(v), "DCR")
                    ctrl(v) == Sub(dcr(v), "MCI_CTRL")
                IN  /\ Has(e, "SNT_MCI") /\ Has(mci(e), "DCR") /\ Has(dcr(e), "MCI_CTRL")
                    /\ IsObj(mci(t)) /\ IsObj(dcr(t)) /\ IsObj(ctrl(t))
                    /\ Updates(mci(t), mci(e), {"DCR"})
                    /\ Updates(dcr(t), dcr(e), {"MCI_CTRL"})
                    /\ Updates(ctrl(t), ctrl(e), {"ENABLE_RISCV"})
                    /\ ctrl(e).at["ENABLE_RISCV"] = Text("0x0")
<1> DEFINE c == SetGeneral(t, p, ids)
           d == SetMetrics(c, ids)
<1>1. /\ Updates(t, c, {"GENERAL"}) /\ Has(c, "GENERAL")
      /\ Updates(t.at["GENERAL"], c.at["GENERAL"], {"sen_bus_id", "doom"})
      /\ Has(c.at["GENERAL"], "sen_bus_id") /\ Has(c.at["GENERAL"], "doom")
      /\ c.at["GENERAL"].at["sen_bus_id"] = BusIds(ids)
      /\ c.at["GENERAL"].at["doom"] = Text(IF p = "vf" THEN "true" ELSE "false")
  BY SetGeneralContent
<1> HIDE DEF c
<1>2. IsObj(c) /\ IsObj(c.at["GENERAL"])
  BY <1>1 DEF Updates
<1>3. Sub(c, "METRICS") = Sub(t, "METRICS") /\ Sub(c, "SNT_MCI") = Sub(t, "SNT_MCI")
  BY <1>1, UpdatesSub
<1>4. /\ MetricsGeneral(c) = MetricsGeneral(t)
      /\ Enabled(c) <=> Enabled(t)
      /\ NoEnable(c) <=> NoEnable(t)
      /\ BadMetrics(c) <=> BadMetrics(t)
  BY <1>3 DEF MetricsGeneral, Enabled, NoEnable, BadMetrics
<1>5. MetricsPath(c, ids) = MetricsPath(t, ids) /\ MultiPath(c) = MultiPath(t)
  BY <1>4 DEF MetricsPath, MultiPath
<1>6. /\ Updates(c, d, {"GENERAL", "METRICS"})
      /\ Updates(c.at["GENERAL"], d.at["GENERAL"], {"multi_aiu_config_path"})
      /\ Kept(Sub(t, "METRICS"), Sub(d, "METRICS"), {"general"})
      /\ Kept(MetricsGeneral(t), MetricsGeneral(d), {"path"})
      /\ ~ NoEnable(t) =>
           /\ MetricsGeneral(d).at["path"] = MetricsPath(t, ids)
           /\ Len(ids) > 1 => Sub(d.at["GENERAL"], "multi_aiu_config_path")
                                = Text(MultiPath(t))
  BY <1>1, <1>2, <1>3, <1>4, <1>5, SetMetricsContent
<1> HIDE DEF d
<1>7. Updates(t, d, {"GENERAL"} \cup {"GENERAL", "METRICS"})
  BY <1>1, <1>6, UpdatesTwice
<1>8. Updates(t.at["GENERAL"], d.at["GENERAL"],
              {"sen_bus_id", "doom"} \cup {"multi_aiu_config_path"})
  BY <1>1, <1>6, UpdatesTwice
<1>9. /\ d.at["GENERAL"].at["sen_bus_id"] = BusIds(ids)
      /\ d.at["GENERAL"].at["doom"] = Text(IF p = "vf" THEN "true" ELSE "false")
  BY <1>1, <1>6, UpdatesSub
<1>10. Sub(d, "SNT_MCI") = Sub(t, "SNT_MCI") /\ Has(d, "GENERAL")
  <2>1. Sub(d, "SNT_MCI") = Sub(c, "SNT_MCI")
    BY <1>6, UpdatesSub
  <2>2. Has(d, "GENERAL")
    BY <1>1, <1>6 DEF Updates, Has
  <2> QED BY <1>3, <2>1, <2>2
<1>11. e = ModifyRISCVContent(p, d)
  BY DEF c, d
<1>12. CASE p = "vf"
  <2>1. e = d
    BY <1>11, <1>12 DEF ModifyRISCVContent
  <2>2. /\ Updates(t, e, {"GENERAL", "METRICS", "SNT_MCI"})
        /\ Updates(t.at["GENERAL"], e.at["GENERAL"],
                   {"sen_bus_id", "doom", "multi_aiu_config_path"})
    BY <1>7, <1>8, <2>1 DEF Updates
  <2> QED BY <1>6, <1>9, <1>10, <1>12, <2>1, <2>2 DEF General
<1>13. CASE p = "pf"
  <2> DEFINE mci == Sub(t, "SNT_MCI")
             dcr == Sub(mci, "DCR")
             ctrl == Sub(dcr, "MCI_CTRL")
             ctrl2 == Put(ctrl, "ENABLE_RISCV", Text("0x0"))
             dcr2 == Put(dcr, "MCI_CTRL", ctrl2)
             mci2 == Put(mci, "DCR", dcr2)
  <2>1. IsObj(mci) /\ IsObj(dcr) /\ IsObj(ctrl)
    BY <1>13 DEF RISCVPanics
  <2>2. e = Put(d, "SNT_MCI", mci2)
    BY <1>10, <1>11, <1>13 DEF ModifyRISCVContent
  <2>3. /\ Updates(ctrl, ctrl2, {"ENABLE_RISCV"}) /\ ctrl2.at["ENABLE_RISCV"] = Text("0x0")
    BY PutUpdates
  <2> HIDE DEF ctrl2
  <2>4. Updates(dcr, dcr2, {"MCI_CTRL"}) /\ Has(dcr2, "MCI_CTRL") /\ dcr2.at["MCI_CTRL"] = ctrl2
    BY PutUpdates
  <2> HIDE DEF dcr2
  <2>5. Updates(mci, mci2, {"DCR"}) /\ Has(mci2, "DCR") /\ mci2.at["DCR"] = dcr2
    BY PutUpdates
  <2> HIDE DEF mci2
  <2>6. Updates(d, e, {"SNT_MCI"}) /\ Has(e, "SNT_MCI") /\ e.at["SNT_MCI"] = mci2
    BY <2>2, PutUpdates
  <2>7. Sub(e, "SNT_MCI") = mci2 /\ Sub(mci2, "DCR") = dcr2 /\ Sub(dcr2, "MCI_CTRL") = ctrl2
    BY <2>4, <2>5, <2>6, SubPresent
  <2>8. Sub(e, "METRICS") = Sub(d, "METRICS") /\ e.at["GENERAL"] = d.at["GENERAL"]
    BY <1>10, <2>6, UpdatesSub
  <2>9. MetricsGeneral(e) = MetricsGeneral(d)
    BY <2>8 DEF MetricsGeneral
  <2>10. Updates(t, e, ({"GENERAL"} \cup {"GENERAL", "METRICS"}) \cup {"SNT_MCI"})
    BY <1>7, <2>6, UpdatesTwice
  <2>11. /\ Updates(t, e, {"GENERAL", "METRICS", "SNT_MCI"})
         /\ Updates(t.at["GENERAL"], e.at["GENERAL"],
                    {"sen_bus_id", "doom", "multi_aiu_config_path"})
    BY <1>8, <2>8, <2>10 DEF Updates
  <2> HIDE DEF mci, dcr, ctrl
  <2>12. /\ General(e)["sen_bus_id"] = BusIds(ids)
         /\ General(e)["doom"] = Text(IF p = "vf" THEN "true" ELSE "false")
         /\ Kept(Sub(t, "METRICS"), Sub(e, "METRICS"), {"general"})
         /\ Kept(MetricsGeneral(t), MetricsGeneral(e), {"path"})
         /\ ~ NoEnable(t) =>
              /\ MetricsGeneral(e).at["path"] = MetricsPath(t, ids)
              /\ Len(ids) > 1 => Sub(e.at["GENERAL"], "multi_aiu_config_path")
                                   = Text(MultiPath(t))
    BY <1>6, <1>9, <2>8, <2>9 DEF General
  <2> QED BY <1>13, <2>1, <2>3, <2>4, <2>5, <2>6, <2>7, <2>11, <2>12 DEF mci, dcr, ctrl
<1> QED BY <1>12, <1>13

-----------------------------------------------------------------------------
(* What the generator makes of a template is in every config.              *)

Ids == BusIdsOf(prepared)

LEMMA ConfigContent ==
    ASSUME IInv, config # Unreadable
    PROVE  /\ IsObj(template) /\ Has(template, "GENERAL") /\ IsObj(template.at["GENERAL"])
           /\ ~ RISCVPanics(ConfigProduct, template) /\ ~ BadMetrics(template)
           /\ ConfigProduct \in {"pf", "vf"}
           /\ config = ModifyRISCVContent(ConfigProduct,
                         SetMetrics(SetGeneral(template, ConfigProduct, Ids), Ids))
           /\ Ids \in Seq(Devices) /\ Len(Ids) = Len(prepared) /\ Len(prepared) \in Nat
<1>1. Generated.outcome = "ok" /\ config = Generated.content
  BY DEF IInv, WrittenInv
<1>2. Ids \in Seq(Devices) /\ Len(Ids) = Len(prepared) /\ Len(prepared) \in Nat
  BY BusIdsType DEF IInv, TypeOK, PreparedDevice, Ids
<1>3. ConfigProduct \in {"pf", "vf"}
  BY DEF ConfigProduct
<1>4. Generated = GenerateConfigContent(template, ConfigProduct, Ids)
  BY DEF Generated, Ids
<1> QED BY <1>1, <1>2, <1>3, <1>4, GenerateOutcome

\* What the operator's template says is in every config, but for the keys that the
\* generator sets.
THEOREM TemplateCorrect == Spec => []TemplateKept
<1>1. ASSUME IInv PROVE TemplateKept
  <2> SUFFICES ASSUME config # Unreadable PROVE TemplateKept
    BY DEF TemplateKept
  <2> DEFINE Mci(v) == Sub(v, "SNT_MCI")
             Dcr(v) == Section(Mci(v), "DCR")
             Ctrl(v) == Section(Dcr(v), "MCI_CTRL")
  <2>1. /\ Updates(template, config, {"GENERAL", "METRICS", "SNT_MCI"}) /\ IsObj(template)
        /\ Updates(template.at["GENERAL"], config.at["GENERAL"],
                   {"sen_bus_id", "doom", "multi_aiu_config_path"})
        /\ IsObj(template.at["GENERAL"])
        /\ Kept(Sub(template, "METRICS"), Sub(config, "METRICS"), {"general"})
        /\ Kept(MetricsGeneral(template), MetricsGeneral(config), {"path"})
    BY <1>1, ConfigContent, GeneratedContent
  <2>2. /\ Kept(template, config, {"GENERAL", "METRICS", "SNT_MCI"})
        /\ Kept(template.at["GENERAL"], config.at["GENERAL"],
                {"sen_bus_id", "doom", "multi_aiu_config_path"})
    BY <2>1, UpdatesKept
  <2>3. /\ Kept(Mci(template), Mci(config), {"DCR"})
        /\ Kept(Dcr(template), Dcr(config), {"MCI_CTRL"})
        /\ Kept(Ctrl(template), Ctrl(config), {"ENABLE_RISCV"})
    <3>1. CASE ConfigProduct = "vf"
      <4>1. Mci(config) = Mci(template)
        BY <1>1, <3>1, ConfigContent, GeneratedContent
      <4>2. Dcr(config) = Dcr(template) /\ Ctrl(config) = Ctrl(template)
        BY <4>1
      <4>3. \A v, S : Kept(v, v, S)
        BY DEF Kept, Has
      <4> HIDE DEF Mci, Dcr, Ctrl
      <4> QED BY <4>1, <4>2, <4>3
    <3>2. CASE ConfigProduct = "pf"
      <4> DEFINE dcr(v) == Sub(Mci(v), "DCR")
                 ctrl(v) == Sub(dcr(v), "MCI_CTRL")
      <4>1. /\ IsObj(Mci(template)) /\ IsObj(dcr(template)) /\ IsObj(ctrl(template))
            /\ Updates(Mci(template), Mci(config), {"DCR"})
            /\ Updates(dcr(template), dcr(config), {"MCI_CTRL"})
            /\ Updates(ctrl(template), ctrl(config), {"ENABLE_RISCV"})
        BY <1>1, <3>2, ConfigContent, GeneratedContent
      <4>2. IsObj(Mci(config)) /\ IsObj(dcr(config))
        BY <4>1 DEF Updates
      <4>3. /\ Dcr(template) = dcr(template) /\ Dcr(config) = dcr(config)
            /\ Ctrl(template) = ctrl(template) /\ Ctrl(config) = ctrl(config)
        BY <4>1, <4>2 DEF Section
      <4> HIDE DEF Mci, Dcr, Ctrl, dcr, ctrl
      <4> QED BY <4>1, <4>3, UpdatesKept
    <3> QED BY <1>1, <3>1, <3>2, ConfigContent
  <2> QED BY <2>1, <2>2, <2>3 DEF TemplateKept
<1> QED BY Invariance, <1>1, PTL

\* The rules documented for the content hold, the exception aside that the property
\* names.
THEOREM ContentCorrect == Spec => []ContentDocumented
<1>1. ASSUME IInv PROVE ContentDocumented
  <2> SUFFICES ASSUME config # Unreadable, ~ NoEnable(template) PROVE ContentDocumented
    BY DEF ContentDocumented
  <2>1. /\ General(config)["sen_bus_id"] = BusIds(Ids)
        /\ MetricsGeneral(config).at["path"] = MetricsPath(template, Ids)
        /\ Len(Ids) > 1 => Sub(config.at["GENERAL"], "multi_aiu_config_path")
                             = Text(MultiPath(template))
    <3>1. /\ IsObj(template) /\ Has(template, "GENERAL") /\ IsObj(template.at["GENERAL"])
          /\ ~ RISCVPanics(ConfigProduct, template) /\ ~ BadMetrics(template)
          /\ ConfigProduct \in {"pf", "vf"}
          /\ config = ModifyRISCVContent(ConfigProduct,
                        SetMetrics(SetGeneral(template, ConfigProduct, Ids), Ids))
      BY <1>1, ConfigContent
    <3>2. /\ General(config)["sen_bus_id"] = BusIds(Ids)
          /\ ~ NoEnable(template) =>
               /\ MetricsGeneral(config).at["path"] = MetricsPath(template, Ids)
               /\ Len(Ids) > 1 => Sub(config.at["GENERAL"], "multi_aiu_config_path")
                                    = Text(MultiPath(template))
      BY <3>1, GeneratedContent
    <3> QED BY <3>2
  <2>2. General(config)["sen_bus_id"].ids = Ids
    BY <2>1 DEF BusIds
  <2>3. Len(Ids) \in Nat /\ (Len(Ids) = 1 => Ids # <<>>)
    BY <1>1, ConfigContent, EmptySeq
  <2>4. /\ ~ Enabled(template) => MetricsPath(template, Ids) = Text("./sentientmap")
        /\ Enabled(template) /\ Len(Ids) = 1 => MetricsPath(template, Ids) = SentientMap(Ids[1])
        /\ Enabled(template) /\ Len(Ids) > 1 =>
             MetricsPath(template, Ids) = Text("/data/multi-aiu-sentientmap")
    <3>1. Len(Ids) = 1 => ~ (Len(Ids) > 1) /\ Ids # <<>>
      BY <2>3
    <3> QED BY <3>1, Zenon DEF MetricsPath
  <2>5. MultiPath(template) = IF Enabled(template) THEN "/data/multi-aiu-config"
                                                   ELSE "/tmp/testing"
    BY DEF MultiPath
  <2> QED BY <2>1, <2>2, <2>4, <2>5 DEF ContentDocumented
<1> QED BY Invariance, <1>1, PTL

\* The values of the environment variables of a product.
EnvOf(envs, p) == {envs[i].ids : i \in {j \in DOMAIN envs : envs[j].product = p}}

\* There is one of each product that has devices.
EnvsOf(X, Y) == (IF X = <<>> THEN <<>> ELSE <<[product |-> "pf", ids |-> X]>>)
                  \o (IF Y = <<>> THEN <<>> ELSE <<[product |-> "vf", ids |-> Y]>>)
LEMMA EnvsByProduct ==
    ASSUME NEW X, NEW Y
    PROVE  /\ EnvOf(EnvsOf(X, Y), "pf") = {X} \ {<<>>}
           /\ EnvOf(EnvsOf(X, Y), "vf") = {Y} \ {<<>>}
<1> USE DEF EnvOf
<1> DEFINE s == EnvsOf(X, Y)
<1> SUFFICES EnvOf(s, "pf") = {X} \ {<<>>} /\ EnvOf(s, "vf") = {Y} \ {<<>>}
  OBVIOUS
<1> DEFINE x == [product |-> "pf", ids |-> X]
           y == [product |-> "vf", ids |-> Y]
           Of(p) == {j \in DOMAIN s : s[j].product = p}
<1>1. /\ x.product = "pf" /\ x.ids = X /\ y.product = "vf" /\ y.ids = Y
      /\ s = (IF X = <<>> THEN <<>> ELSE <<x>>) \o (IF Y = <<>> THEN <<>> ELSE <<y>>)
  BY DEF EnvsOf
<1> HIDE DEF x, y, s
<1>2. /\ <<>> \in Seq({x, y}) /\ <<x>> \in Seq({x, y}) /\ <<y>> \in Seq({x, y})
      /\ Len(<<>>) = 0 /\ Len(<<x>>) = 1 /\ Len(<<y>>) = 1
      /\ <<x>>[1] = x /\ <<y>>[1] = y
  OBVIOUS
<1>3. CASE X = <<>> /\ Y = <<>>
  <2>1. DOMAIN s = {}
    BY <1>1, <1>2, <1>3, ConcatEmptySeq, NothingPrepared
  <2> QED BY <1>3, <2>1
<1>4. CASE X # <<>> /\ Y = <<>>
  <2>1. s = <<x>>
    BY <1>1, <1>2, <1>4, ConcatEmptySeq
  <2>2. s \in Seq({x, y}) /\ Len(s) = 1 /\ s[1] = x
    BY <1>2, <2>1
  <2>3. DOMAIN s = {1}
    BY <2>2, LenProperties
  <2> QED BY <1>1, <1>4, <2>2, <2>3
<1>5. CASE X = <<>> /\ Y # <<>>
  <2>1. s = <<y>>
    BY <1>1, <1>2, <1>5, ConcatEmptySeq
  <2>2. s \in Seq({x, y}) /\ Len(s) = 1 /\ s[1] = y
    BY <1>2, <2>1
  <2>3. DOMAIN s = {1}
    BY <2>2, LenProperties
  <2> QED BY <1>1, <1>5, <2>2, <2>3
<1>6. CASE X # <<>> /\ Y # <<>>
  <2>1. s = <<x>> \o <<y>>
    BY <1>1, <1>6
  <2>2. s \in Seq({x, y}) /\ Len(s) = 2 /\ s[1] = x /\ s[2] = y
    BY <1>2, <2>1, ConcatProperties
  <2>3. DOMAIN s = {1, 2}
    BY <2>2, LenProperties
  <2>4. Of("pf") = {1} /\ Of("vf") = {2}
    BY <1>1, <2>2, <2>3
  <2> QED BY <1>1, <1>6, <2>2, <2>4
<1> QED BY <1>3, <1>4, <1>5, <1>6

\* Config, environment and devices of a claim agree, in the order of the results.
THEOREM SpecCorrect == Spec => []SpecMatchesConfig
<1>1. ASSUME IInv PROVE SpecMatchesConfig
  <2> SUFFICES ASSUME outcome = "ok" PROVE SpecMatchesConfig
    BY DEF SpecMatchesConfig
  <2> DEFINE OfProduct(p) == Picked(Ids, {d \in Devices : product[d] = p})
  <2>1. config # Unreadable
    BY <1>1 DEF IInv, TypeOK, IsObj, Unreadable
  <2>2. /\ Ids \in Seq(Devices) /\ Len(Ids) = Len(prepared) /\ Len(prepared) \in Nat
        /\ ConfigProduct \in {"pf", "vf"}
        /\ General(config)["sen_bus_id"] = BusIds(Ids)
        /\ General(config)["doom"] = Text(IF ConfigProduct = "vf" THEN "true" ELSE "false")
    <3>1. /\ IsObj(template) /\ Has(template, "GENERAL") /\ IsObj(template.at["GENERAL"])
          /\ ~ RISCVPanics(ConfigProduct, template) /\ ~ BadMetrics(template)
          /\ ConfigProduct \in {"pf", "vf"}
          /\ config = ModifyRISCVContent(ConfigProduct,
                        SetMetrics(SetGeneral(template, ConfigProduct, Ids), Ids))
          /\ Ids \in Seq(Devices) /\ Len(Ids) = Len(prepared) /\ Len(prepared) \in Nat
      BY <1>1, <2>1, ConfigContent
    <3> QED BY <3>1, GeneratedContent
  <2>3. General(config)["sen_bus_id"].ids = Ids
    BY <2>2 DEF BusIds
  <2>4. Ids = Picked(results, Devices) /\ Ids = BusIdsOf(spec.devices)
    BY <1>1 DEF IInv, PreparedInv, WrittenInv, Picked, Ids
  <2>5. /\ prepared \in Seq(PreparedDevice) /\ DOMAIN prepared = 1..Len(prepared)
        /\ \A i \in 1..Len(prepared) :
             /\ prepared[i] \in PreparedDevice /\ Ids[i] = prepared[i].dev
             /\ prepared[i].dev \in Devices
             /\ product[prepared[i].dev] \in {"pf", "vf"}
    <3>1. prepared \in Seq(PreparedDevice)
      BY <1>1 DEF IInv, TypeOK, PreparedDevice
    <3>2. \A d \in allocatable : d \in Devices /\ product[d] \in {"pf", "vf"}
      BY <1>1 DEF IInv, TypeOK, AllocatableInv
    <3> QED BY <1>1, <3>1, <3>2, BusIdsType DEF IInv, PreparedInv, Ids
  <2>6. /\ OfProduct("pf") = BusIdsOf(Picked(prepared, {d \in ToSet(prepared) : IsPf(d)}))
        /\ OfProduct("vf") = BusIdsOf(Picked(prepared, {d \in ToSet(prepared) : IsVf(d)}))
    <3>1. \A i \in 1..Len(prepared) :
            /\ prepared[i] \in {d \in ToSet(prepared) : IsPf(d)}
                 <=> prepared[i].dev \in {d \in Devices : product[d] = "pf"}
            /\ prepared[i] \in {d \in ToSet(prepared) : IsVf(d)}
                 <=> prepared[i].dev \in {d \in Devices : product[d] = "vf"}
      BY <2>5 DEF IsPf, IsVf, ToSet
    <3> QED BY <2>5, <3>1, PickedBusIds DEF Ids
  <2>7. \A p \in {"pf", "vf"} : EnvOf(spec.common, p) = {OfProduct(p)} \ {<<>>}
    <3>1. spec.common = CommonEnvs(prepared)
      BY <1>1 DEF IInv, WrittenInv
    <3>2. spec.common = EnvsOf(OfProduct("pf"), OfProduct("vf"))
      BY <2>6, <3>1, Zenon DEF CommonEnvs, EnvsOf
    <3> HIDE DEF OfProduct
    <3> QED BY <3>2, EnvsByProduct
  <2>8. OfProduct("pf") = <<>> <=> ConfigProduct = "vf"
    <3>1. OfProduct("pf") = <<>> <=>
            \A i \in 1..Len(Ids) : Ids[i] \notin {d \in Devices : product[d] = "pf"}
      BY <2>2, PickedEmpty
    <3>2. ConfigProduct = "vf" <=> \A i \in 1..Len(Ids) : product[Ids[i]] # "pf"
      BY <2>2, <2>5 DEF ConfigProduct, IsPf, IsVf
    <3>3. \A i \in 1..Len(Ids) : Ids[i] \in Devices
      BY <2>2, <2>5
    <3> HIDE DEF OfProduct
    <3> QED BY <3>1, <3>2, <3>3
  <2>9. General(config)["doom"] = Text("true") <=> OfProduct("pf") = <<>>
    BY <2>2, <2>8 DEF Text
  <2>10. OfProduct("pf") # <<>> =>
           config.at["SNT_MCI"].at["DCR"].at["MCI_CTRL"].at["ENABLE_RISCV"] = Text("0x0")
    <3>1. SUFFICES ASSUME ConfigProduct = "pf"
                   PROVE  config.at["SNT_MCI"].at["DCR"].at["MCI_CTRL"].at["ENABLE_RISCV"]
                            = Text("0x0")
      BY <2>2, <2>8
    <3> DEFINE mci == Sub(config, "SNT_MCI")
               dcr == Sub(mci, "DCR")
               ctrl == Sub(dcr, "MCI_CTRL")
    <3>2. /\ Has(config, "SNT_MCI") /\ Has(mci, "DCR") /\ Has(dcr, "MCI_CTRL")
          /\ ctrl.at["ENABLE_RISCV"] = Text("0x0")
      <4>1. /\ IsObj(template) /\ Has(template, "GENERAL") /\ IsObj(template.at["GENERAL"])
            /\ ~ RISCVPanics("pf", template) /\ ~ BadMetrics(template)
            /\ config = ModifyRISCVContent("pf", SetMetrics(SetGeneral(template, "pf", Ids), Ids))
        BY <1>1, <2>1, <3>1, ConfigContent
      <4> QED BY <4>1, GeneratedContent
    <3> QED BY <3>2, SubPresent
  <2> QED BY <2>3, <2>4, <2>7, <2>9, <2>10 DEF SpecMatchesConfig, EnvOf
<1> QED BY Invariance, <1>1, PTL
=============================================================================
