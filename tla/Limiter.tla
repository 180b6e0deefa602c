------------------------------ MODULE Limiter -------------------------------
(***************************************************************************)
(* What LLMRequestQueue promises its callers: a request is idle, waiting   *)
(* or active, at most MaxConcurrent requests are active, a waiting request *)
(* may be withdrawn, and nothing else ever happens to it.                  *)
(***************************************************************************)
EXTENDS Naturals, FiniteSets

CONSTANTS Entry, MaxConcurrent

VARIABLE stage

ActiveStage == {e \in Entry : stage[e] = "active"}

Init == stage = [e \in Entry |-> "idle"]

Wait(e) ==
    /\ stage[e] = "idle"
    /\ stage' = [stage EXCEPT ![e] = "waiting"]

Start(e) ==
    /\ stage[e] \in {"idle", "waiting"}
    /\ Cardinality(ActiveStage) < MaxConcurrent
    /\ stage' = [stage EXCEPT ![e] = "active"]

Withdraw(e) ==
    /\ stage[e] = "waiting"
    /\ stage' = [stage EXCEPT ![e] = "idle"]

Finish(e) ==
    /\ stage[e] = "active"
    /\ stage' = [stage EXCEPT ![e] = "idle"]

Next == \E e \in Entry : Wait(e) \/ Start(e) \/ Withdraw(e) \/ Finish(e)

Spec == Init /\ [][Next]_stage
=============================================================================
