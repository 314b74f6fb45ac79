---------------------------- MODULE MCClaimSpec ----------------------------
(* Two devices of any product and a set of templates for ClaimSpec. *)
EXTENDS ClaimSpec, TLC

CONSTANTS d1, d2

MCDevices == {d1, d2}

\* Every order of some devices of the node, with or without a foreign result.
MCAllocations ==
    {rs \in SeqOf(MCDevices \cup {Foreign}, 3) :
        /\ \A i, j \in DOMAIN rs : i # j => rs[i] # rs[j]
        /\ \E i \in DOMAIN rs : rs[i] # Foreign}

Other == Text("other")
In(k, v) == Obj(k :> v)

\* Where a section may be missing, an object, or something else.
NoSection == Text("none")
Add(t, k, v) == IF v = NoSection THEN t ELSE Put(t, k, v)

GeneralObj == Obj("sen_bus_id" :> Other @@ "multi_aiu_config_path" :> Other @@ "x" :> Other)
Metrics ==
    {NoSection, Other, Obj(<<>>), Obj("x" :> Other @@ "general" :> Other)}
      \cup {In("general", Obj("x" :> Other @@ f)) :
              f \in {<<>>, "path" :> Other, "enable" :> Text("true"),
                     "enable" :> Text("false") @@ "path" :> Other, "enable" :> Other}}
Ctrls == {Obj(<<>>), Other, Obj("x" :> Other @@ "ENABLE_RISCV" :> Other)}
Dcrs == {Obj(<<>>), Other} \cup {In("MCI_CTRL", v) : v \in Ctrls}
Mcis == {NoSection, Other, Obj("x" :> Other)} \cup {In("DCR", v) : v \in Dcrs}

MCTemplates ==
    {Unreadable, Obj(<<>>), In("GENERAL", Other)}
      \cup {Add(Add(Obj("GENERAL" :> GeneralObj @@ "x" :> Other), "METRICS", m), "SNT_MCI", s) :
              m \in Metrics, s \in Mcis}
=============================================================================
