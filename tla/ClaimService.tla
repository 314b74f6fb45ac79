---------------------------- MODULE ClaimService ----------------------------
(***************************************************************************)
(* What the driver promises kubelet about claims: a durable map from claim *)
(* to prepared devices on which Prepare and Unprepare act atomically, at   *)
(* one instant between the arrival of a call and its answer.  A call that  *)
(* fails has had no effect, except that an Unprepare may fail after it has *)
(* removed the claim.  A crash loses the calls in progress, never the map. *)
(***************************************************************************)
CONSTANTS Claims, Devices, Workers, None

VARIABLES
    prepared,  \* the devices prepared for each claim, {} when not prepared
    req        \* the call each worker executes: its stage, claim and devices

vars == <<prepared, req>>

NoReq == [stage |-> "idle", claim |-> None, devs |-> {}]

Init == /\ prepared = [c \in Claims |-> {}]
        /\ req = [w \in Workers |-> NoReq]

Stage(w, s) == req' = [req EXCEPT ![w].stage = s]

Call(w) ==
    /\ req[w] = NoReq
    /\ \E c \in Claims, D \in SUBSET Devices, s \in {"prepare", "unprepare"} :
          /\ s = "prepare" <=> D # {}
          /\ req' = [req EXCEPT ![w] = [stage |-> s, claim |-> c, devs |-> D]]
    /\ UNCHANGED prepared

\* The claim was prepared before: the answer is what was prepared then.
Again(w) ==
    /\ req[w].stage = "prepare" /\ prepared[req[w].claim] # {}
    /\ req' = [req EXCEPT ![w].stage = "done", ![w].devs = prepared[req[w].claim]]
    /\ UNCHANGED prepared

Prepare(w) ==
    /\ req[w].stage = "prepare" /\ prepared[req[w].claim] = {}
    /\ prepared' = [prepared EXCEPT ![req[w].claim] = req[w].devs]
    /\ Stage(w, "done")

Absent(w) ==
    /\ req[w].stage = "unprepare" /\ prepared[req[w].claim] = {}
    /\ Stage(w, "done")
    /\ UNCHANGED prepared

Unprepare(w) ==
    /\ req[w].stage = "unprepare" /\ prepared[req[w].claim] # {}
    /\ prepared' = [prepared EXCEPT ![req[w].claim] = {}]
    /\ Stage(w, "unprepared")

Finish(w) ==
    /\ req[w].stage = "unprepared"
    /\ Stage(w, "done")
    /\ UNCHANGED prepared

Fail(w) ==
    /\ req[w].stage \in {"prepare", "unprepare", "unprepared"}
    /\ Stage(w, "failed")
    /\ UNCHANGED prepared

Reply(w) ==
    /\ req[w].stage \in {"done", "failed"}
    /\ req' = [req EXCEPT ![w] = NoReq]
    /\ UNCHANGED prepared

Crash == req' = [w \in Workers |-> NoReq] /\ UNCHANGED prepared

Next == \/ Crash
        \/ \E w \in Workers :
              \/ Call(w) \/ Again(w) \/ Prepare(w) \/ Absent(w)
              \/ Unprepare(w) \/ Finish(w) \/ Fail(w) \/ Reply(w)

Spec == Init /\ [][Next]_vars
=============================================================================
