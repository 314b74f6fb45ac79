----------------------------- MODULE ClaimSpec -----------------------------
(***************************************************************************)
(* What the containers of a claim are given, on a node with real devices:  *)
(* discovery reads sysfs once at start-up, Prepare reads it again for each *)
(* device, generates the senlib config from the template mounted at that   *)
(* moment, and writes the CDI spec of the claim.  Between the two readings *)
(* a device may move to another IOMMU group.  DeviceState has the files,   *)
(* crashes and the other claims; here is what one Prepare writes.          *)
(***************************************************************************)
EXTENDS SenlibConfig, SequencesExt

CONSTANTS
    Devices,      \* the PCI devices of the node
    Foreign,      \* stands for an allocation result of another driver
    Allocations,  \* the results an allocation may list, in order
    Templates     \* what the template file may contain

ASSUME ForeignAssumption == Foreign \notin Devices
ASSUME AllocationsAssumption == Allocations \subseteq Seq(Devices \cup {Foreign})

VARIABLES
    product,      \* "pf", "vf", or "other" for a device isSupportedDevice rejects
    vfio,         \* sysfs: the vfio device file of each device
    allocatable,  \* DeviceState.Allocatable
    moved,        \* devices whose sysfs has changed since discovery
    pc,           \* the next step of the driver
    results,      \* the allocation of the claim
    seen,         \* how many of its results have been looked at
    prepared,     \* preparedDevices: bus id and device nodes
    template,     \* the template as it was read
    config,       \* the senlib config written
    spec,         \* the CDI spec written
    outcome       \* how Prepare ended

node == <<product, vfio, moved>>
claim == <<results, seen, prepared, template, config, spec, outcome>>
vars == <<node, allocatable, pc, claim>>

Vfio == {"group", "noiommu", "missing"}
NoSpec == [common |-> <<>>, devices |-> <<>>]

BusIdsOf(devs) == [i \in DOMAIN devs |-> devs[i].dev]
IsVf(p) == product[p.dev] = "vf"
IsPf(p) == ~ IsVf(p)

TypeOK ==
    /\ product \in [Devices -> {"pf", "vf", "other"}]
    /\ vfio \in [Devices -> Vfio]
    /\ allocatable \subseteq Devices /\ moved \subseteq Devices
    /\ pc \in {"down", "idle", "devices", "config", "spec", "answer"}
    /\ results \in Allocations \cup {<<>>} /\ seen \in 0..Len(results)
    /\ prepared \in Seq([dev : Devices, nodes : SUBSET Devices])
    /\ template \in Templates \cup {Unreadable}
    /\ config = Unreadable \/ IsObj(config)
    /\ pc = "spec" \/ outcome = "ok" => IsObj(config)
    /\ spec.devices \in {<<>>, prepared}
    /\ outcome \in {"none", "ok", "refused", "error", "panic", "io"}

Clear ==
    /\ results' = <<>> /\ seen' = 0 /\ prepared' = <<>>
    /\ template' = Unreadable /\ config' = Unreadable /\ spec' = NoSpec
    /\ outcome' = "none"

Init ==
    /\ product \in [Devices -> {"pf", "vf", "other"}]
    /\ vfio \in [Devices -> Vfio]
    /\ allocatable = {} /\ moved = {} /\ pc = "down"
    /\ results = <<>> /\ seen = 0 /\ prepared = <<>>
    /\ template = Unreadable /\ config = Unreadable /\ spec = NoSpec
    /\ outcome = "none"

-----------------------------------------------------------------------------
(* The node.                                                               *)

\* A device is bound to another group, or unbound.  Only what happens before the
\* driver has read sysfs for the last time matters to the claim.
SysfsChanges ==
    /\ pc \in {"idle", "devices"}
    /\ \E d \in Devices, v \in Vfio :
          /\ v # vfio[d]
          /\ vfio' = [vfio EXCEPT ![d] = v]
          /\ moved' = moved \cup {d}
    /\ UNCHANGED <<product, allocatable, pc, claim>>

\* The device file of a group can be resolved; GetVFIODeviceFile returns an error
\* without a group and, to keep DMA isolated, for vfio-noiommu.
GetVFIODeviceFile(d) == vfio[d] = "group"

\* Mutant: discovery does not look for the vfio device file.
TakesSupported(d) == product[d] # "other"

\* discoverTargetDevices: isSupportedDevice, and a vfio device file.
IsTarget(d) == product[d] # "other" /\ GetVFIODeviceFile(d)

\* NewPciSpyreDevice fails, and the device is dropped, if the links to its driver
\* or its physical function cannot be read.
ConvertToSpyrePCIDevices(devs) == SUBSET devs

Discover ==
    /\ pc = "down" /\ pc' = "idle"
    /\ allocatable' \in ConvertToSpyrePCIDevices({d \in Devices : IsTarget(d)})
    /\ moved' = {}
    /\ Clear
    /\ UNCHANGED <<product, vfio>>

-----------------------------------------------------------------------------
(* Prepare.                                                                *)

Prepare ==
    /\ pc = "idle" /\ pc' = "devices"
    /\ results' \in Allocations
    /\ UNCHANGED <<node, allocatable, seen, prepared, template, config, spec, outcome>>

\* The answer of Prepare.
End(how) == pc' = "answer" /\ outcome' = how

\* Mutant: the node is added although GetVFIODeviceFile returned an error beside
\* the file name.
NodesDespiteError(d) == IF vfio[d] # "missing" THEN {d} ELSE {}

\* A vfio file that cannot be resolved is only logged.
GetCDIDeviceSpec(d) == IF GetVFIODeviceFile(d) THEN {d} ELSE {}

\* prepareDevices, one result after the other.
PrepareDevice ==
    /\ pc = "devices" /\ seen < Len(results)
    /\ LET d == results[seen + 1]
       IN  \/ /\ d = Foreign
              /\ UNCHANGED <<pc, prepared, outcome>>
           \/ /\ d \in Devices \ allocatable
              /\ End("refused") /\ UNCHANGED prepared
           \/ /\ d \in allocatable
              /\ prepared' = Append(prepared, [dev |-> d, nodes |-> GetCDIDeviceSpec(d)])
              /\ UNCHANGED <<pc, outcome>>
    /\ seen' = seen + 1
    /\ UNCHANGED <<node, allocatable, results, template, config, spec>>

DevicesPrepared ==
    /\ pc = "devices" /\ seen = Len(results) /\ pc' = "config"
    /\ UNCHANGED <<node, allocatable, claim>>

\* Mutant: the first device decides.
FirstDeviceDecides == IF IsVf(prepared[1]) THEN "vf" ELSE "pf"

\* The config of a physical function takes precedence.
ConfigProduct == IF \E i \in DOMAIN prepared : IsPf(prepared[i]) THEN "pf" ELSE "vf"

\* Mutant: the error of the generator is ignored.
ErrorIgnored ==
    /\ pc = "config" /\ pc' = "spec"
    /\ \E t \in Templates :
          /\ template' = t
          /\ config' = GenerateConfigContent(t, ConfigProduct, BusIdsOf(prepared)).content
    /\ UNCHANGED <<node, allocatable, results, seen, prepared, spec, outcome>>

\* GenerateConfigFile with the template of the moment.  A panic ends the process.
WriteConfig ==
    /\ pc = "config"
    /\ \E t \in Templates :
          LET g == GenerateConfigContent(t, ConfigProduct, BusIdsOf(prepared))
          IN  /\ template' = t
              /\ \/ g.outcome = "ok" /\ config' = g.content /\ pc' = "spec" /\ outcome' = "none"
                 \/ g.outcome = "ok" /\ End("io") /\ UNCHANGED config
                 \/ g.outcome = "error" /\ End("error") /\ UNCHANGED config
                 \/ g.outcome = "panic" /\ pc' = "down" /\ outcome' = "panic" /\ UNCHANGED config
    /\ UNCHANGED <<node, allocatable, results, seen, prepared, spec>>

\* The members of S among the first elements of s, for every number of those; and
\* among all of s, in its order.
PickedOf(s, S) ==
    LET p[i \in 0..Len(s)] ==
          IF i = 0 THEN <<>> ELSE IF s[i] \in S THEN Append(p[i - 1], s[i]) ELSE p[i - 1]
    IN  p
Picked(s, S) == PickedOf(s, S)[Len(s)]

\* One environment variable per product that has devices.
CommonEnvs(devs) ==
    LET Env(p, ids) == IF ids = <<>> THEN <<>> ELSE <<[product |-> p, ids |-> ids]>>
    IN  Env("pf", BusIdsOf(Picked(devs, {d \in ToSet(devs) : IsPf(d)})))
          \o Env("vf", BusIdsOf(Picked(devs, {d \in ToSet(devs) : IsVf(d)})))

CreateClaimSpecFile ==
    /\ pc = "spec"
    /\ \/ /\ spec' = [common |-> CommonEnvs(prepared), devices |-> prepared]
          /\ End("ok")
       \/ End("io") /\ UNCHANGED spec
    /\ UNCHANGED <<node, allocatable, results, seen, prepared, template, config>>

\* The answer leaves, and the next claim is prepared.
Answer ==
    /\ pc = "answer" /\ pc' = "idle"
    /\ Clear
    /\ UNCHANGED <<node, allocatable>>

Next == Discover \/ SysfsChanges \/ Prepare \/ PrepareDevice \/ DevicesPrepared
           \/ WriteConfig \/ CreateClaimSpecFile \/ Answer

Spec == Init /\ [][Next]_vars

-----------------------------------------------------------------------------
(* Properties.                                                             *)

\* A vfio-noiommu group, which bypasses IOMMU DMA isolation (device_utils.go:144),
\* is never given to a container, although a device may move there after discovery
\* has accepted it.
Injected == \A i \in DOMAIN prepared' \ DOMAIN prepared :
               \A d \in prepared'[i].nodes : vfio[d] # "noiommu"
NoiommuNotInjected == [][Injected]_vars

\* A device comes without its vfio node, which makes it useless and is only
\* logged, in no other case than that of a device that moved after discovery.
NodeMissingOnlyIfMoved ==
    \A i \in DOMAIN prepared : prepared[i].dev \notin moved => prepared[i].nodes # {}

\* Config, environment and devices of a claim agree, in the order of the results:
\* the config lists the bus ids of all devices, each device is in the variable of
\* its own product, and the settings of the config are those of a physical
\* function unless there is none (cdi.go:117-118).
General(c) == c.at["GENERAL"].at
SpecMatchesConfig ==
    outcome = "ok" =>
        LET ids == General(config)["sen_bus_id"].ids
            OfProduct(p) == Picked(ids, {d \in Devices : product[d] = p})
            env(p) == {spec.common[i].ids : i \in {j \in DOMAIN spec.common :
                                                     spec.common[j].product = p}}
        IN  /\ ids = Picked(results, Devices)
            /\ ids = BusIdsOf(spec.devices)
            /\ \A p \in {"pf", "vf"} : env(p) = {OfProduct(p)} \ {<<>>}
            /\ General(config)["doom"] = Text("true") <=> OfProduct("pf") = <<>>
            /\ OfProduct("pf") # <<>> =>
                 config.at["SNT_MCI"].at["DCR"].at["MCI_CTRL"].at["ENABLE_RISCV"] = Text("0x0")

\* The rules of the comment on GenerateConfigContent
\* (senlib_config_generator.go:95-107).  Rules 2.2 and 3.2 are not followed for a
\* METRICS.general without the key enable, which is excepted here.
MetricsGeneral(c) == Sub(Sub(c, "METRICS"), "general")
Enabled(t) == Has(MetricsGeneral(t), "enable") /\ MetricsGeneral(t).at["enable"] = Text("true")
NoEnable(t) == Has(Sub(t, "METRICS"), "general") /\ ~ Has(MetricsGeneral(t), "enable")
ContentDocumented ==
    config # Unreadable /\ ~ NoEnable(template) =>
        LET ids == General(config)["sen_bus_id"].ids
            path == MetricsGeneral(config).at["path"]
            multi == Sub(config.at["GENERAL"], "multi_aiu_config_path")
        IN  /\ ~ Enabled(template) => path = Text("./sentientmap")
            /\ Enabled(template) /\ Len(ids) = 1 => path = SentientMap(ids[1])
            /\ Enabled(template) /\ Len(ids) > 1 => path = Text("/data/multi-aiu-sentientmap")
            /\ Len(ids) > 1 => multi = Text(IF Enabled(template) THEN "/data/multi-aiu-config"
                                                                  ELSE "/tmp/testing")

\* The operator's settings survive: whatever the template says and the generator
\* does not have to set is in the config as it was.
Section(v, k) == IF IsObj(v) THEN Sub(v, k) ELSE Obj(<<>>)
Kept(t, c, set) ==
    IF IsObj(t) THEN \A k \in DOMAIN t.at \ set : Has(c, k) /\ c.at[k] = t.at[k]
                ELSE c = t
TemplateKept ==
    config # Unreadable =>
        LET Mci(v) == Sub(v, "SNT_MCI")
            Dcr(v) == Section(Mci(v), "DCR")
            Ctrl(v) == Section(Dcr(v), "MCI_CTRL")
        IN  /\ Kept(template, config, {"GENERAL", "METRICS", "SNT_MCI"})
            /\ Kept(template.at["GENERAL"], config.at["GENERAL"],
                    {"sen_bus_id", "doom", "multi_aiu_config_path"})
            /\ Kept(Sub(template, "METRICS"), Sub(config, "METRICS"), {"general"})
            /\ Kept(MetricsGeneral(template), MetricsGeneral(config), {"path"})
            /\ Kept(Mci(template), Mci(config), {"DCR"})
            /\ Kept(Dcr(template), Dcr(config), {"MCI_CTRL"})
            /\ Kept(Ctrl(template), Ctrl(config), {"ENABLE_RISCV"})

\* Prepare refuses a claim, or takes the process down, for a cause: a device that
\* is not allocatable, or a template with a section that is no JSON object.
\* Missing sections are no cause but GENERAL, results of other drivers neither.
WellFormed(t) ==
    /\ IsObj(t) /\ Has(t, "GENERAL") /\ IsObj(t.at["GENERAL"])
    /\ IsObj(Sub(t, "METRICS")) /\ IsObj(MetricsGeneral(t))
    /\ IsObj(Sub(t, "SNT_MCI")) /\ IsObj(Sub(Sub(t, "SNT_MCI"), "DCR"))
    /\ IsObj(Sub(Sub(Sub(t, "SNT_MCI"), "DCR"), "MCI_CTRL"))
RefusedForCause ==
    /\ outcome = "refused" => \E d \in ToSet(results) : d \in Devices \ allocatable
    /\ outcome \in {"error", "panic"} => ~ WellFormed(template)
=============================================================================
