---------------------------- MODULE SenlibConfig ----------------------------
(***************************************************************************)
(* The senlib configuration generated for a claim: what                    *)
(* senlib_config_generator.go makes of the operator's template (a mounted  *)
(* ConfigMap), the product of the claim and the bus ids of its devices.    *)
(*                                                                         *)
(* A JSON value is a record: an object maps keys to values, everything     *)
(* else is a text (booleans included) or one of the two values the         *)
(* generator computes, the list of bus ids and the path of one device.     *)
(***************************************************************************)
EXTENDS Sequences, Integers

Obj(f) == [is |-> "object", at |-> f]
Text(x) == [is |-> "text", text |-> x]
BusIds(ids) == [is |-> "busIds", ids |-> ids]
SentientMap(id) == [is |-> "sentientmap", id |-> id]

\* Stands for the bus id when a claim has none.
UnknownDevice == "unknown"

\* A file that cannot be read or parsed; JSON that is no object fails alike.
Unreadable == [is |-> "unreadable"]

IsObj(v) == v.is = "object"
Has(v, k) == k \in DOMAIN v.at
Put(v, k, x) == Obj([j \in DOMAIN v.at \cup {k} |-> IF j = k THEN x ELSE v.at[j]])
\* make(map[string]any) where the key is missing.
Sub(v, k) == IF Has(v, k) THEN v.at[k] ELSE Obj(<<>>)

-----------------------------------------------------------------------------
(* GENERAL and METRICS.                                                    *)

\* Bus ids, and doom for virtual functions only.
SetGeneral(c, product, ids) ==
    LET doom == IF product = "vf" THEN "true" ELSE "false"
    IN  Put(c, "GENERAL",
            Put(Put(c.at["GENERAL"], "sen_bus_id", BusIds(ids)), "doom", Text(doom)))

\* The folder of split programs, for more than one device.
SetMultiPath(c, ids, path) ==
    IF Len(ids) > 1
    THEN Put(c, "GENERAL", Put(c.at["GENERAL"], "multi_aiu_config_path", Text(path)))
    ELSE c

\* METRICS.general with its path set, the rest as it is.
SetMetricsPath(c, path) ==
    Put(c, "METRICS", Put(c.at["METRICS"], "general",
                          Put(c.at["METRICS"].at["general"], "path", path)))

DefaultMetrics == Obj([enable |-> Text("false"), path |-> Text("./sentientmap")])

\* Mutants: METRICS.general is replaced, not changed; the multi-device path is
\* set in the branch of enabled metrics only.
ReplacesGeneral(c, ids) ==
    SetMultiPath(Put(c, "METRICS", Obj([general |-> DefaultMetrics])), ids, "/tmp/testing")
ForgetsMultiPath(c, ids) ==
    IF Len(ids) > 1 THEN SetMetricsPath(c, Text("/data/multi-aiu-sentientmap"))
                    ELSE SetMetricsPath(c, SentientMap(ids[1]))

MetricsDisabled(c, ids) ==
    SetMultiPath(SetMetricsPath(c, Text("./sentientmap")), ids, "/tmp/testing")
MetricsEnabled(c, ids) ==
    IF Len(ids) > 1
    THEN SetMultiPath(SetMetricsPath(c, Text("/data/multi-aiu-sentientmap")),
                      ids, "/data/multi-aiu-config")
    ELSE SetMetricsPath(c, SentientMap(IF ids = <<>> THEN UnknownDevice ELSE ids[1]))

\* A section that is missing is made with metrics off; one that is there without
\* the key enable stays as it is.
SetMetrics(c, ids) ==
    LET metrics == Sub(c, "METRICS")
        general == Sub(metrics, "general")
    IN  CASE ~ Has(metrics, "general") ->
               SetMultiPath(Put(c, "METRICS", Put(metrics, "general", DefaultMetrics)),
                            ids, "/tmp/testing")
          [] Has(metrics, "general") /\ ~ Has(general, "enable") -> c
          [] Has(general, "enable") /\ general.at["enable"] = Text("true") ->
               MetricsEnabled(c, ids)
          [] OTHER -> MetricsDisabled(c, ids)

\* METRICS or METRICS.general that is no object.
BadMetrics(t) == \/ ~ IsObj(Sub(t, "METRICS"))
                 \/ ~ IsObj(Sub(Sub(t, "METRICS"), "general"))

-----------------------------------------------------------------------------
(* SNT_MCI.DCR.MCI_CTRL, for physical functions.                           *)

\* Mutant: MCI_CTRL is looked for although DCR may be missing.
DCRExpected(product, c) ==
    LET mci == Sub(c, "SNT_MCI")
    IN  product = "pf" /\ ~ (IsObj(mci) /\ Has(mci, "DCR") /\ IsObj(mci.at["DCR"])
                             /\ IsObj(Sub(mci.at["DCR"], "MCI_CTRL")))

\* The type assertions panic on a section that is there and no object.
RISCVPanics(product, c) ==
    LET mci == Sub(c, "SNT_MCI")
        dcr == Sub(mci, "DCR")
    IN  product = "pf" /\ (~ IsObj(mci) \/ ~ IsObj(dcr) \/ ~ IsObj(Sub(dcr, "MCI_CTRL")))

ModifyRISCVContent(product, c) ==
    LET mci == Sub(c, "SNT_MCI")
        dcr == Sub(mci, "DCR")
        ctrl == Put(Sub(dcr, "MCI_CTRL"), "ENABLE_RISCV", Text("0x0"))
    IN  IF product = "vf" THEN c
        ELSE Put(c, "SNT_MCI", Put(mci, "DCR", Put(dcr, "MCI_CTRL", ctrl)))

-----------------------------------------------------------------------------
(* GenerateConfigContent: the outcome and, if it is "ok", the content.     *)

Ok(c) == [outcome |-> "ok", content |-> c]
Fails(how) == [outcome |-> how, content |-> Unreadable]

\* The RISC-V content is modified, and may panic, although METRICS was refused.
GenerateConfigContent(t, product, ids) ==
    CASE ~ IsObj(t) -> Fails("error")
      [] IsObj(t) /\ ~ Has(t, "GENERAL") -> Fails("error")
      [] IsObj(t) /\ Has(t, "GENERAL") /\ ~ IsObj(t.at["GENERAL"]) -> Fails("error")
      [] OTHER ->
           IF RISCVPanics(product, t) THEN Fails("panic")
           ELSE IF BadMetrics(t) THEN Fails("error")
           ELSE Ok(ModifyRISCVContent(product,
                       SetMetrics(SetGeneral(t, product, ids), ids)))
=============================================================================
