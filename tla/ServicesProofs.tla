--------------------------- MODULE ServicesProofs ---------------------------
(* Proofs about the parts of the service behind the channels, for every    *)
(* set of users, requests, calls and files and every limit.                *)
EXTENDS MCServices, ModelProofs

-----------------------------------------------------------------------------
(* Containers *)

Box == [id : Nat, start : Nat, up : BOOLEAN, policy : {"current", "stale"}]
\* where the tool calls of a request may enter the container of its user
Admitted == {"ready", "refused", "exec", "inside"}

\* What was there before the first start has number 0, so a container made
\* under the policy is told from it; and a request is let in only after the
\* old one is gone for good.
BoxesInv ==
  /\ box \in [Tenants -> {None} \cup Box] /\ boxes \in Nat
  /\ req \in [Requests -> [pc : Admitted \cup {"idle", "check", "create", "creating"}, in : Nat]]
  /\ \A u \in Tenants : box[u] # None => (box[u].policy = "stale" <=> box[u].id = 0)
  /\ \A q \in Requests : req[q].pc \in Admitted /\ BoxOf(q) # None => BoxOf(q).policy = "current"
  /\ \A q \in Requests : req[q].pc = "inside" => req[q].in > 0

\* What replaces a container that may be there: nothing, or one that keeps its
\* policy and whose number still tells it from one of an earlier configuration.
LEMMA BoxReplaced ==
  ASSUME BoxesInv, NEW u \in Tenants, NEW new \in {None} \cup Box,
         new # None => (new.policy = "stale" <=> new.id = 0),
         new # None => new.policy = "current" \/ (box[u] # None /\ new.policy = box[u].policy),
         box' = [box EXCEPT ![u] = new], boxes' \in Nat,
         req' \in [Requests -> [pc : Admitted \cup {"idle", "check", "create", "creating"}, in : Nat]],
         \A q \in Requests : req'[q].pc \in Admitted =>
           \/ req[q].pc \in Admitted
           \/ TenantOf[q] = u /\ (new # None => new.policy = "current"),
         \A q \in Requests : req'[q].pc = "inside" => req[q] = req'[q]
  PROVE  BoxesInv'
<1>1. box' \in [Tenants -> {None} \cup Box]
  BY DEF BoxesInv
<1>2. ASSUME NEW v \in Tenants, box'[v] # None
      PROVE  box'[v].policy = "stale" <=> box'[v].id = 0
  BY <1>2 DEF BoxesInv
<1>3. ASSUME NEW q \in Requests, req'[q].pc \in Admitted, box'[TenantOf[q]] # None
      PROVE  box'[TenantOf[q]].policy = "current"
  <2>1. TenantOf[q] \in Tenants
    BY ContainersAssumption
  <2>2. CASE TenantOf[q] = u
    BY <1>3, <2>2 DEF BoxesInv, BoxOf
  <2>3. CASE TenantOf[q] # u
    BY <1>3, <2>1, <2>3 DEF BoxesInv, BoxOf
  <2>. QED BY <2>2, <2>3
<1>4. \A q \in Requests : req'[q].pc = "inside" => req'[q].in > 0
  BY DEF BoxesInv
<1>. QED BY <1>1, <1>2, <1>3, <1>4 DEF BoxesInv, BoxOf

LEMMA BoxUpdated ==
  ASSUME NEW r \in Box, NEW v \in BOOLEAN, NEW n \in Nat
  PROVE  /\ [r EXCEPT !.up = v] \in Box
         /\ [r EXCEPT !.up = v].policy = r.policy /\ [r EXCEPT !.up = v].id = r.id
         /\ [r EXCEPT !.up = v, !.start = n] \in Box
         /\ [r EXCEPT !.up = v, !.start = n].policy = r.policy
         /\ [r EXCEPT !.up = v, !.start = n].id = r.id
BY DEF Box

LEMMA BoxesInvInit == ContainersInit => BoxesInv
BY ContainersAssumption DEF ContainersInit, BoxesInv, Box, Admitted, Idle, BoxOf

LEMMA BoxesInvStep ==
  ASSUME BoxesInv, [ContainersNext]_boxVars
  PROVE  BoxesInv'
<1> USE ContainersAssumption DEF BoxesInv, Box, Admitted, BoxOf, Step
<1>1. ASSUME NEW q \in Requests, Ensure(q)
      PROVE  BoxesInv'
  BY <1>1 DEF Ensure
<1>2. ASSUME NEW q \in Requests, EnsureFails(q)
      PROVE  BoxesInv'
  BY <1>2 DEF EnsureFails
<1>3. ASSUME NEW q \in Requests, Missing(q)
      PROVE  BoxesInv'
  BY <1>3 DEF Missing
<1>4. ASSUME NEW q \in Requests, Mismatched(q)
      PROVE  BoxesInv'
  <2>1. TenantOf[q] \in Tenants
    OBVIOUS
  <2> DEFINE t == TenantOf[q]
  <2>2. PICK new \in {None, [box[t] EXCEPT !.up = FALSE], box[t]} : box' = [box EXCEPT ![t] = new]
    BY <1>4, <2>1 DEF Mismatched
  <2>3. new \in {None} \cup Box /\ (new # None => new.policy = box[t].policy /\ new.id = box[t].id)
    <3>1. box[t] \in Box
      BY <1>4, <2>1 DEF Mismatched
    <3> DEFINE stopped == [box[t] EXCEPT !.up = FALSE]
    <3>2. stopped \in Box /\ stopped.policy = box[t].policy /\ stopped.id = box[t].id
      BY ONLY <3>1, BoxUpdated
    <3>3. new \in {None, stopped, box[t]}
      BY <2>2
    <3> HIDE DEF stopped
    <3>. QED BY ONLY <3>1, <3>2, <3>3
  <2>4. boxes' = boxes /\ box[t] # None /\ req' = [req EXCEPT ![q].pc = "create"]
    BY <1>4 DEF Mismatched
  <2>. QED BY <2>1, <2>2, <2>3, <2>4, BoxReplaced
<1>5. ASSUME NEW q \in Requests, Restart(q)
      PROVE  BoxesInv'
  <2> DEFINE t == TenantOf[q]
             new == [box[t] EXCEPT !.up = TRUE, !.start = boxes + 1]
  <2>1. t \in Tenants /\ box[t] # None /\ box[t].policy = "current"
    BY <1>5 DEF Restart
  <2>2. new \in Box /\ new.policy = "current" /\ new.id = box[t].id
    <3>1. box[t] \in Box /\ boxes + 1 \in Nat
      BY <2>1
    <3>. QED BY ONLY <2>1, <3>1, BoxUpdated
  <2>3. box' = [box EXCEPT ![t] = new] /\ boxes' \in Nat /\ req' = [req EXCEPT ![q].pc = "ready"]
    BY <1>5 DEF Restart, StartBox
  <2> HIDE DEF new
  <2>. QED BY <2>1, <2>2, <2>3, BoxReplaced
<1>6. ASSUME NEW q \in Requests, Running(q)
      PROVE  BoxesInv'
  BY <1>6 DEF Running
<1>7. ASSUME NEW q \in Requests, TakeSlot(q)
      PROVE  BoxesInv'
  BY <1>7 DEF TakeSlot
<1>8. ASSUME NEW q \in Requests, Create(q)
      PROVE  BoxesInv'
  <2> DEFINE t == TenantOf[q]
             new == [id |-> boxes + 1, start |-> boxes + 1, up |-> TRUE, policy |-> "current"]
  <2>1. CASE box[t] = None
    <3>1. t \in Tenants /\ new \in Box /\ new.policy = "current" /\ new.id # 0
      OBVIOUS
    <3>2. box' = [box EXCEPT ![t] = new] /\ boxes' \in Nat /\ req' = [req EXCEPT ![q].pc = "ready"]
      BY <1>8, <2>1 DEF Create, StartBox
    <3> HIDE DEF new
    <3>. QED BY <3>1, <3>2, BoxReplaced
  <2>2. CASE box[t] # None
    <3>1. box' = box /\ boxes' = boxes /\ req' = [req EXCEPT ![q].pc = "idle"]
      BY <1>8, <2>2 DEF Create
    <3>. QED BY <3>1
  <2>. QED BY <2>1, <2>2
<1>9. ASSUME NEW q \in Requests, NEW user \in {None, TenantOf[q]}, Dispatch(q, user)
      PROVE  BoxesInv'
  BY <1>9 DEF Dispatch
<1>10. ASSUME NEW q \in Requests, Refused(q)
       PROVE  BoxesInv'
  BY <1>10 DEF Refused
<1>11. ASSUME NEW q \in Requests, Exec(q)
       PROVE  BoxesInv'
  BY <1>11 DEF Exec
<1>12. ASSUME NEW q \in Requests, ExecEnds(q)
       PROVE  BoxesInv'
  BY <1>12 DEF ExecEnds
<1>13. ASSUME NEW q \in Requests, EndRequest(q)
       PROVE  BoxesInv'
  BY <1>13 DEF EndRequest
<1>14. ASSUME NEW p \in Pruners \cup {"stop"}, SweepList(p) \/ SweepEnds(p)
       PROVE  BoxesInv'
  BY <1>14 DEF SweepList, SweepEnds
<1>15. ASSUME NEW p \in Pruners \cup {"stop"}, NEW u \in Tenants, SweepOne(p, u)
       PROVE  BoxesInv'
  BY <1>15 DEF SweepOne
<1>16. ASSUME NEW u \in Tenants, Ages(u)
       PROVE  BoxesInv'
  BY <1>16 DEF Ages
<1>17. ASSUME NEW u \in Tenants, BoxStops(u)
       PROVE  BoxesInv'
  <2> DEFINE new == [box[u] EXCEPT !.up = FALSE]
  <2>1. new \in Box /\ new.policy = box[u].policy /\ new.id = box[u].id /\ box[u] # None
    <3>1. box[u] \in Box /\ box[u] # None
      BY <1>17 DEF BoxStops
    <3>. QED BY ONLY <3>1, BoxUpdated
  <2>2. box' = [box EXCEPT ![u] = new] /\ boxes' = boxes /\ req' = req
    BY <1>17 DEF BoxStops
  <2> HIDE DEF new
  <2>. QED BY <2>1, <2>2, BoxReplaced
<1>18. CASE UNCHANGED boxVars
  BY <1>18 DEF boxVars
<1> QED
  BY <1>1, <1>2, <1>3, <1>4, <1>5, <1>6, <1>7, <1>8, <1>9, <1>10, <1>11, <1>12,
     <1>13, <1>14, <1>15, <1>16, <1>17, <1>18 DEF ContainersNext

LEMMA BoxesInvSound == BoxesInv => CurrentPolicyOnly
BY DEF BoxesInv, CurrentPolicyOnly, Admitted

\* No number is ahead of the starts, and whoever was used is a tenant.
BoxesRest ==
  /\ boxes \in 0..MaxBoxes /\ young \subseteq 1..boxes
  /\ recent \subseteq used /\ used \cup managed \subseteq Tenants
  /\ \A u \in Tenants : box[u] # None => box[u].id <= boxes /\ box[u].start <= boxes
  /\ \A q \in Requests : req[q].in <= boxes

LEMMA BoxesAreTyped == BoxesInv /\ BoxesRest => ContainersTypeOK
<1> SUFFICES ASSUME BoxesInv, BoxesRest PROVE ContainersTypeOK
  OBVIOUS
<1>1. ASSUME NEW u \in Tenants, box[u] # None
      PROVE  box[u] \in [id : 0..boxes, start : 0..boxes, up : BOOLEAN, policy : {"current", "stale"}]
  <2>1. box[u] \in Box
    BY <1>1 DEF BoxesInv
  <2>. QED BY <1>1, <2>1 DEF BoxesInv, BoxesRest, Box
<1>2. \A q \in Requests : req[q].in \in 0..boxes
  BY DEF BoxesInv, BoxesRest
<1>. QED BY <1>1, <1>2 DEF BoxesRest, ContainersTypeOK

LEMMA BoxesRestInit == ContainersInit => BoxesRest
BY ContainersAssumption DEF ContainersInit, BoxesRest, Idle

\* A step that starts nothing removes containers or stops them.
LEMMA BoxesFew ==
  ASSUME BoxesInv, BoxesRest, UNCHANGED boxes, young' \subseteq young,
         recent' \subseteq used', used' \cup managed' \subseteq Tenants,
         \A u \in Tenants : box'[u] = None \/ (box'[u].id = box[u].id /\ box'[u].start = box[u].start /\ box[u] # None),
         \A q \in Requests : req'[q].in = req[q].in \/ req'[q].in <= boxes
  PROVE  BoxesRest'
BY DEF BoxesRest

LEMMA BoxesRestStep ==
  ASSUME BoxesInv, BoxesRest, [ContainersNext]_boxVars PROVE BoxesRest'
<1>0. /\ box \in [Tenants -> {None} \cup Box] /\ boxes \in Nat
      /\ req \in [Requests -> [pc : Admitted \cup {"idle", "check", "create", "creating"}, in : Nat]]
      /\ TenantOf \in [Requests -> Tenants]
  BY ContainersAssumption DEF BoxesInv
<1> DEFINE Same == /\ UNCHANGED <<box, boxes, young>>
                   /\ \A q \in Requests : req'[q].in = req[q].in
           Users1 == recent' \subseteq used' /\ used' \cup managed' \subseteq Tenants
<1>a. ASSUME Same, Users1 PROVE BoxesRest'
  BY <1>a DEF BoxesRest
<1>b. ASSUME NEW q \in Requests, NEW pc, Step(q, pc) PROVE \A x \in Requests : req'[x].in = req[x].in
  BY <1>b, <1>0 DEF Step
<1>c. recent \subseteq used /\ used \cup managed \subseteq Tenants
  BY DEF BoxesRest
<1>1. ASSUME NEW q \in Requests, Ensure(q) \/ EnsureFails(q) \/ Missing(q) \/ Running(q)
                                 \/ TakeSlot(q) \/ Refused(q) \/ EndRequest(q)
      PROVE  BoxesRest'
  <2>1. Same
    BY <1>1, <1>b DEF Ensure, EnsureFails, Missing, Running, TakeSlot, Refused, EndRequest
  <2>2. Users1
    BY <1>0, <1>1, <1>c DEF Ensure, EnsureFails, Missing, Running, TakeSlot, Refused, EndRequest
  <2>. QED BY <2>1, <2>2, <1>a
<1>2. ASSUME NEW q \in Requests, Mismatched(q) PROVE BoxesRest'
  <2>1. \A x \in Requests : req'[x].in = req[x].in
    BY <1>2, <1>b DEF Mismatched
  <2>2. \A u \in Tenants : box'[u] = None \/ (box'[u].id = box[u].id /\ box'[u].start = box[u].start /\ box[u] # None)
    BY <1>0, <1>2 DEF Mismatched, BoxOf, Box
  <2>. QED BY <1>2, <1>c, <2>1, <2>2, BoxesFew DEF Mismatched
<1>3. ASSUME NEW q \in Requests, NEW new \in Box, new.id <= boxes + 1, new.start <= boxes + 1,
             StartBox(q, new), UNCHANGED <<used, recent, sweep>>
      PROVE  BoxesRest'
  <2>1. \A x \in Requests : req'[x].in = req[x].in
    BY <1>3, <1>b DEF StartBox
  <2>2. boxes' = boxes + 1 /\ boxes' \in 0..MaxBoxes /\ young' \subseteq 1..boxes'
    BY <1>3, <1>0, ContainersAssumption DEF StartBox, BoxesRest
  <2>3. Users1
    BY <1>0, <1>3, <1>c DEF StartBox
  <2>4. ASSUME NEW u \in Tenants, box'[u] # None PROVE box'[u].id <= boxes' /\ box'[u].start <= boxes'
    <3>1. box'[u] = new \/ box'[u] = box[u]
      BY <1>0, <1>3 DEF StartBox
    <3>2. box[u] # None => box[u] \in Box /\ box[u].id <= boxes /\ box[u].start <= boxes
      BY <1>0 DEF BoxesRest
    <3>. QED BY <1>0, <1>3, <2>2, <2>4, <3>1, <3>2 DEF Box
  <2>5. \A x \in Requests : req'[x].in <= boxes'
    BY <1>0, <2>1, <2>2 DEF BoxesRest
  <2>. QED BY <2>2, <2>3, <2>4, <2>5 DEF BoxesRest
<1>4. ASSUME NEW q \in Requests, Restart(q) PROVE BoxesRest'
  <2> DEFINE new == [BoxOf(q) EXCEPT !.up = TRUE, !.start = boxes + 1]
  <2>1. BoxOf(q) \in Box /\ BoxOf(q).id <= boxes
    BY <1>0, <1>4 DEF Restart, BoxOf, BoxesRest
  <2>2. new \in Box /\ new.id <= boxes + 1 /\ new.start <= boxes + 1
    <3>1. \A e \in Box : \A n \in Nat : /\ [e EXCEPT !.up = TRUE, !.start = n] \in Box
                                       /\ [e EXCEPT !.up = TRUE, !.start = n].id = e.id
                                       /\ [e EXCEPT !.up = TRUE, !.start = n].start = n
      BY DEF Box
    <3>2. boxes + 1 \in Nat /\ BoxOf(q).id \in Nat
      BY <1>0, <2>1 DEF Box
    <3>3. new \in Box /\ new.id = BoxOf(q).id /\ new.start = boxes + 1
      BY <2>1, <3>1, <3>2
    <3> HIDE DEF new
    <3>. QED BY <1>0, <2>1, <3>2, <3>3
  <2>3. StartBox(q, new) /\ UNCHANGED <<used, recent, sweep>>
    BY <1>4 DEF Restart
  <2> HIDE DEF new
  <2>. QED BY <1>3, <2>2, <2>3
<1>5. ASSUME NEW q \in Requests, Create(q) PROVE BoxesRest'
  <2>1. CASE BoxOf(q) = None
    <3> DEFINE new == [id |-> boxes + 1, start |-> boxes + 1, up |-> TRUE, policy |-> "current"]
    <3>1. new \in Box /\ new.id <= boxes + 1 /\ new.start <= boxes + 1
      BY <1>0 DEF Box
    <3>2. StartBox(q, new) /\ UNCHANGED <<used, recent, sweep>>
      BY <1>5, <2>1 DEF Create
    <3> HIDE DEF new
    <3>. QED BY <1>3, <3>1, <3>2
  <2>2. CASE BoxOf(q) # None
    <3>1. Same /\ Users1
      BY <1>5, <2>2, <1>b, <1>c DEF Create
    <3>. QED BY <3>1, <1>a
  <2>. QED BY <2>1, <2>2
<1>6. ASSUME NEW q \in Requests, NEW user \in {None, TenantOf[q]}, Dispatch(q, user) PROVE BoxesRest'
  <2>1. Same
    BY <1>6, <1>b DEF Dispatch
  <2>2. Users1
    BY <1>0, <1>6, <1>c DEF Dispatch
  <2>. QED BY <2>1, <2>2, <1>a
<1>7. ASSUME NEW q \in Requests, Exec(q) \/ ExecEnds(q) PROVE BoxesRest'
  <2>1. BoxOf(q) # None => BoxOf(q).id <= boxes
    BY <1>0 DEF BoxOf, BoxesRest
  <2>2. \A x \in Requests : req'[x].in = req[x].in \/ req'[x].in <= boxes
    BY <1>0, <1>7, <2>1 DEF Exec, ExecEnds
  <2>. QED BY <1>0, <1>7, <1>c, <2>2 DEF Exec, ExecEnds, BoxesRest
<1>8. ASSUME NEW p, SweepList(p) \/ SweepEnds(p) PROVE BoxesRest'
  <2>1. Same /\ Users1
    BY <1>8, <1>c DEF SweepList, SweepEnds
  <2>. QED BY <2>1, <1>a
<1>9. ASSUME NEW p, NEW u \in Tenants, SweepOne(p, u) PROVE BoxesRest'
  <2>1. UNCHANGED <<boxes, used, recent, young, managed, req>>
    BY <1>9 DEF SweepOne
  <2>2. \A v \in Tenants : box'[v] = None \/ box'[v] = box[v]
    BY <1>0, <1>9 DEF SweepOne
  <2>. QED BY <2>1, <2>2 DEF BoxesRest
<1>10. ASSUME NEW u \in Tenants, Ages(u) PROVE BoxesRest'
  BY <1>10 DEF Ages, BoxesRest
<1>11. ASSUME NEW u \in Tenants, BoxStops(u) PROVE BoxesRest'
  <2>1. \A v \in Tenants : box'[v] = None \/ (box'[v].id = box[v].id /\ box'[v].start = box[v].start /\ box[v] # None)
    BY <1>0, <1>11 DEF BoxStops, Box
  <2>. QED BY <1>11, <1>c, <2>1, BoxesFew DEF BoxStops
<1>12. CASE UNCHANGED boxVars
  BY <1>12 DEF boxVars, BoxesRest
<1>. QED BY <1>1, <1>2, <1>4, <1>5, <1>6, <1>7, <1>8, <1>9, <1>10, <1>11, <1>12 DEF ContainersNext

-----------------------------------------------------------------------------
(* Calibration *)

\* what config/calibrated may hold
Trees == [Surfaces \cup {"metadata"} -> {None} \cup Nat]
Climbs == [pc : Ended \cup {"baseline", "analyze", "backup", "write", "remove", "restore"},
           iteration : Nat, best : 0..Scenarios, todo : SUBSET Surfaces, failing : BOOLEAN]
SameSurfaces(t, r) == \A s \in Surfaces : Surface(t, s) = Surface(r, s)

\* What is in the directory, or in its copy, is what best was scored on; while
\* a proposal is written, scored or rolled back there is a directory to do it in.
CalibrationInv ==
  /\ {tree, backup, bestTree} \subseteq {None} \cup Trees
  /\ climb \in Climbs
  /\ bare \in BOOLEAN /\ proposals \in Nat
  /\ climb.pc \in {"write", "remove", "restore"} => tree # None
  /\ ~bare /\ climb.pc \in {"analyze", "backup", "done", "failed"} => SameSurfaces(tree, bestTree)
  /\ ~bare /\ climb.pc \in {"write", "remove", "restore"} =>
       backup # None /\ SameSurfaces(backup, bestTree)
  /\ climb.pc = "done" => tree # None /\ tree["metadata"] = climb.best

LEMMA ClimbBegins ==
  ASSUME NEW pc \in {"off", "baseline"}
  PROVE  Climb(pc) \in Climbs /\ Climb(pc).pc = pc
BY CalibrationAssumption DEF Climb, Climbs, Ended

LEMMA ClimbProposes ==
  ASSUME NEW w \in Climbs, NEW changes \in SUBSET Surfaces, NEW n \in Nat
  PROVE  /\ [w EXCEPT !.pc = "backup", !.iteration = n, !.todo = changes] \in Climbs
         /\ [w EXCEPT !.pc = "backup", !.iteration = n, !.todo = changes].pc = "backup"
BY DEF Climbs

LEMMA CalibrationInvInit == CalibrationInit => CalibrationInv
<1> SUFFICES ASSUME CalibrationInit PROVE CalibrationInv
  OBVIOUS
<1>1. [Blank EXCEPT !["metadata"] = 0] \in Trees
  BY CalibrationAssumption DEF Blank, Trees
<1>2. {tree, backup, bestTree} \subseteq {None} \cup Trees
  BY <1>1 DEF CalibrationInit
<1>3. climb \in Climbs /\ climb.pc = "off"
  BY ClimbBegins DEF CalibrationInit
<1>. QED BY <1>2, <1>3 DEF CalibrationInit, CalibrationInv

LEMMA CalibrationInvStep ==
  ASSUME CalibrationInv, [CalibrationNext]_calibrationVars
  PROVE  CalibrationInv'
<1>0. Scenarios \in Nat /\ MaxIterations \in Nat /\ "metadata" \notin Surfaces /\ None \notin Trees
  BY CalibrationAssumption DEF Trees
<1> USE <1>0 DEF CalibrationInv, Ended, Climbs, SameSurfaces, Surface
<1>1. CASE BeginCalibration
  BY <1>1, ClimbBegins DEF BeginCalibration
<1>2. ASSUME NEW passed \in 0..Scenarios, NEW dry \in BOOLEAN, ScoreBaseline(passed, dry)
      PROVE  CalibrationInv'
  BY <1>2 DEF ScoreBaseline
<1>3. ASSUME NEW changes \in SUBSET Surfaces, Propose(changes)
      PROVE  CalibrationInv'
  <2>1. climb' = [climb EXCEPT !.pc = "backup", !.iteration = climb.iteration + 1, !.todo = changes]
    BY <1>3 DEF Propose
  <2>2. climb' \in Climbs /\ climb'.pc = "backup"
    <3>1. climb \in Climbs /\ climb.iteration \in Nat
      OBVIOUS
    <3>2. climb.iteration + 1 \in Nat
      BY ONLY <3>1
    <3>. QED BY ONLY <2>1, <3>1, <3>2, ClimbProposes
  <2>. QED BY <1>3, <2>2 DEF Propose, MayIterate
<1>4. CASE AnalysisFails
  BY <1>4 DEF AnalysisFails, MayIterate
<1>5. CASE BackUp
  BY <1>5 DEF BackUp, Blank, Trees
<1>6. ASSUME NEW s \in Surfaces, WriteSurface(s)
      PROVE  CalibrationInv'
  BY <1>6 DEF WriteSurface, Trees
<1>7. CASE WriteFails
  BY <1>7 DEF WriteFails
<1>8. ASSUME NEW passed \in 0..Scenarios, ScoreProposal(passed)
      PROVE  CalibrationInv'
  <2>1. CASE passed > climb.best
    <3>1. climb' = [climb EXCEPT !.pc = "analyze", !.best = passed] /\ bestTree' = tree
      BY <1>8, <2>1 DEF ScoreProposal
    <3>. QED BY <1>8, <3>1 DEF ScoreProposal
  <2>2. CASE ~(passed > climb.best)
    <3>1. climb' = [climb EXCEPT !.pc = "remove"] /\ bestTree' = bestTree
      BY <1>8, <2>2 DEF ScoreProposal
    <3>. QED BY <1>8, <3>1 DEF ScoreProposal
  <2>. QED BY <2>1, <2>2
<1>9. CASE NoBackup
  BY <1>9 DEF NoBackup, AfterRollback
<1>10. ASSUME NEW s \in Surfaces \cup {"metadata"}, RemoveFile(s)
       PROVE  CalibrationInv'
  BY <1>10 DEF RemoveFile, Trees
<1>11. ASSUME NEW s \in Surfaces \cup {"metadata"}, PutBack(s)
       PROVE  CalibrationInv'
  BY <1>11 DEF PutBack, Trees
<1>12. CASE EndRollback
  BY <1>12 DEF EndRollback, AfterRollback
<1>13. CASE FinishCalibration
  BY <1>13 DEF FinishCalibration, Trees, Blank
<1>14. CASE CrashCalibration
  BY <1>14 DEF CrashCalibration, Climb
<1>15. CASE UNCHANGED calibrationVars
  BY <1>15 DEF calibrationVars
<1> QED
  BY <1>1, <1>2, <1>3, <1>4, <1>5, <1>6, <1>7, <1>8, <1>9, <1>10, <1>11, <1>12,
     <1>13, <1>14, <1>15 DEF CalibrationNext

LEMMA CalibrationInvSound == CalibrationInv => CalibrationIsSound
BY DEF CalibrationInv, CalibrationIsSound, BestIsKept, SameSurfaces

LEMMA CalibrationTyped == CalibrationInv => CalibrationTypeOK
<1> SUFFICES ASSUME CalibrationInv PROVE CalibrationTypeOK
  OBVIOUS
<1>1. \A t \in {tree, backup, bestTree} \ {None} : t \in Trees
  BY DEF CalibrationInv
<1>2. DOMAIN Blank = Surfaces \cup {"metadata"}
  BY DEF Blank
<1>. QED BY <1>1, <1>2 DEF CalibrationInv, CalibrationTypeOK, Climbs, Trees

-----------------------------------------------------------------------------
(* Pipes *)

Gots == PipeCalls \cup {None, "notice"}
OutPieces == [id : PipeCalls \cup {"notice"}, last : BOOLEAN]
Asked == [pc : {"lock", "read", "done"}, pipe : Pipes, buf : Seq(OutPieces), got : Gots]
Procs == [alive : BOOLEAN, inbox : Seq(PipeCalls), half : Gots, out : Seq(OutPieces)]

Reads(x, p) == calling[x] # NotCalled /\ calling[x].pc = "read" /\ calling[x].pipe = p

\* How far the one exchange of a call with its process has come, whoever holds
\* the pieces of the answer by now; the process may have died on the way.
Exchange(x, buf, r) ==
  \/ buf \o r.out = <<>> /\ r.inbox \in {<<>>, <<x>>} /\ r.half = None
  \/ buf \o r.out = <<Piece(x, FALSE)>> /\ r.inbox = <<>> /\ r.half \in {None, x}
  \/ buf \o r.out = <<Piece(x, FALSE), Piece(x, TRUE)>> /\ r.inbox = <<>> /\ r.half = None
Quiet(r) == r.inbox = <<>> /\ r.out = <<>> /\ r.half = None

PipesTyped ==
  /\ proc \in [Pipes -> Procs] /\ holders \in [Pipes -> Seq(PipeCalls)]
  /\ calling \in [PipeCalls -> {NotCalled} \cup Asked]
LockInv ==
  \A x \in PipeCalls : calling[x] # NotCalled =>
    /\ calling[x].pc = "read" =>
         holders[calling[x].pipe] # <<>> /\ x = Head(holders[calling[x].pipe])
    /\ calling[x].pc = "lock" => calling[x].buf = <<>>
    /\ calling[x].pc # "done" => calling[x].got = None
\* What a plugin holds is the exchange of the call that reads, or nothing.
ExchangeInv ==
  \A p \in PluginPipes \ torn :
    /\ \A x \in PipeCalls : Reads(x, p) => Exchange(x, calling[x].buf, proc[p])
    /\ (\A x \in PipeCalls : ~Reads(x, p)) => Quiet(proc[p])
DeadInv == \A p \in Pipes : ~proc[p].alive => proc[p].inbox = <<>> /\ proc[p].half = None
PipesInv == PipesTyped /\ LockInv /\ ExchangeInv /\ DeadInv /\ AnswersAreOwn

\* Who leaves the lock takes nobody's turn but his own.
LEMMA HeadStays ==
  ASSUME NEW S, NEW s \in Seq(S), s # <<>>, NEW e, e # Head(s)
  PROVE  RemoveFirst(s, e) # <<>> /\ Head(RemoveFirst(s, e)) = Head(s)
<1> DEFINE r == RemoveFirst(s, e)
<1>1. s[1] = Head(s) /\ Len(s) \in Nat \ {0}
  BY EmptySeq
<1>2. CASE ~ \E i \in 1..Len(s) : s[i] = e
  BY <1>2 DEF RemoveFirst
<1>3. CASE \E i \in 1..Len(s) : s[i] = e
  <2>1. PICK k \in 1..Len(s) : /\ s[k] = e
                               /\ Len(r) = Len(s) - 1
                               /\ \A i \in 1..Len(s) - 1 : r[i] = IF i < k THEN s[i] ELSE s[i + 1]
    BY <1>3, RemoveFirstAt
  <2>2. k > 1 /\ Len(s) > 1
    BY <1>1, <2>1
  <2>3. r \in Seq(S)
    BY RemoveFirstType
  <2> HIDE DEF r
  <2>4. Len(r) > 0 /\ r[1] = s[1]
    BY <1>1, <2>1, <2>2
  <2>5. r # <<>> /\ Head(r) = r[1]
    BY <2>3, <2>4, EmptySeq
  <2>. QED BY <1>1, <2>4, <2>5 DEF r
<1>. QED BY <1>2, <1>3

\* A read moves pieces from the output to the buffer; together they stay.
LEMMA ReadMoves ==
  ASSUME NEW S, NEW buf \in Seq(S), NEW out \in Seq(S), NEW n \in 1..Len(out)
  PROVE  /\ buf \o SubSeq(out, 1, n) \in Seq(S) /\ SubSeq(out, n + 1, Len(out)) \in Seq(S)
         /\ (buf \o SubSeq(out, 1, n)) \o SubSeq(out, n + 1, Len(out)) = buf \o out
<1> DEFINE x == SubSeq(out, 1, n)
           y == SubSeq(out, n + 1, Len(out))
<1>1. Len(out) \in Nat /\ \A i \in 1..Len(out) : out[i] \in S
  OBVIOUS
<1>2. x \in Seq(S) /\ y \in Seq(S)
  BY <1>1, SubSeqProperties
<1>3. x \o y = out
  BY <1>1, ConcatAdjacentSubSeq, SubSeqFull
<1> HIDE DEF x, y
<1>4. buf \o x \in Seq(S)
  BY <1>2, ConcatProperties
<1>5. (buf \o x) \o y = buf \o (x \o y)
  BY <1>2, ConcatAssociative, SMTT(30)
<1>. QED BY <1>2, <1>3, <1>4, <1>5 DEF x, y

\* The first line ends at the first newline.
LEMMA FirstLineEnds ==
  ASSUME NEW buf \in Seq(OutPieces), HasNewline(buf)
  PROVE  \E i \in 1..Len(buf) :
           /\ FirstLine(buf) = SubSeq(buf, 1, i)
           /\ buf[i].last /\ \A j \in 1..(i - 1) : ~buf[j].last
           /\ FirstLine(buf)[1] = buf[1] /\ Len(FirstLine(buf)) = i
<1> DEFINE I == {i \in 1..Len(buf) : buf[i].last}
           Ends(i) == buf[i].last /\ \A j \in 1..(i - 1) : ~buf[j].last
           k == CHOOSE i \in 1..Len(buf) : Ends(i)
<1>1. Len(buf) \in Nat
  OBVIOUS
<1>2. I # {} /\ I \in SUBSET Nat
  BY DEF HasNewline
<1>3. PICK m \in I : \A y \in I : m <= y
  BY <1>2, LeastExists
<1>4. Ends(m) /\ m \in 1..Len(buf)
  BY <1>1, <1>3
<1>5. k \in 1..Len(buf) /\ Ends(k)
  BY <1>4
<1>6. FirstLine(buf) = SubSeq(buf, 1, k)
  BY DEF FirstLine
<1> HIDE DEF k
<1>7. SubSeq(buf, 1, k)[1] = buf[1] /\ Len(SubSeq(buf, 1, k)) = k
  <2>1. \A i \in 1..k : buf[i] \in OutPieces
    BY <1>1, <1>5, ElementOfSeq
  <2>2. /\ Len(SubSeq(buf, 1, k)) = IF 1 <= k THEN k - 1 + 1 ELSE 0
        /\ \A i \in 1..k - 1 + 1 : SubSeq(buf, 1, k)[i] = buf[1 + i - 1]
    BY <1>5, <2>1, SubSeqProperties
  <2>. QED BY <1>5, <2>2
<1>. QED BY <1>5, <1>6, <1>7

\* The newline of an answer is the last that is left of the exchange.
LEMMA WholeAnswer ==
  ASSUME NEW x \in PipeCalls, NEW u \in Seq(OutPieces), NEW v \in Seq(OutPieces), HasNewline(u),
         u \o v \in {<<>>, <<Piece(x, FALSE)>>, <<Piece(x, FALSE), Piece(x, TRUE)>>}
  PROVE  v = <<>> /\ u \o v = <<Piece(x, FALSE), Piece(x, TRUE)>> /\ FirstLine(u)[1].id = x
<1> DEFINE w == u \o v
           first == Piece(x, FALSE)
           second == Piece(x, TRUE)
<1>1. first.id = x /\ second.id = x /\ ~first.last
  BY DEF Piece
<1>2. /\ Len(w) = Len(u) + Len(v) /\ Len(u) \in Nat /\ Len(v) \in Nat
      /\ \A i \in 1..Len(u) : w[i] = u[i]
  BY ConcatProperties
<1>3. PICK i \in 1..Len(u) : u[i].last
  BY DEF HasNewline
<1>4. w \in {<<>>, <<first>>, <<first, second>>}
  OBVIOUS
<1>5. PICK k \in 1..Len(u) : FirstLine(u)[1] = u[1]
  BY FirstLineEnds
<1> HIDE DEF w, first, second
<1>6. w # <<>> /\ w # <<first>>
  BY <1>1, <1>2, <1>3
<1>7. w = <<first, second>> /\ Len(w) = 2 /\ w[1] = first
  BY <1>4, <1>6
<1>8. Len(u) = 2
  BY <1>1, <1>2, <1>3, <1>7
<1>9. v = <<>>
  BY <1>2, <1>7, <1>8, EmptySeq
<1>10. FirstLine(u)[1] = first
  <2>1. 1 \in 1..Len(u)
    BY <1>8
  <2>. QED BY <1>2, <1>5, <1>7, <2>1
<1>11. FirstLine(u)[1].id = x
  BY <1>1, <1>10
<1>. QED BY <1>7, <1>9, <1>11 DEF w, first, second

LEMMA OnlyReader ==
  ASSUME LockInv, NEW p, NEW x \in PipeCalls, NEW y \in PipeCalls, Reads(x, p), Reads(y, p)
  PROVE  x = y
BY DEF LockInv, Reads

\* A process goes on by itself.
LEMMA ProcessGoesOn ==
  ASSUME PipesInv, NEW p \in Pipes, NEW r \in Procs, proc' = [proc EXCEPT ![p] = r],
         UNCHANGED <<holders, calling, torn>>,
         ~r.alive => r.inbox = <<>> /\ r.half = None,
         p \in PluginPipes \ torn =>
           /\ Quiet(proc[p]) => Quiet(r)
           /\ \A x \in PipeCalls : Reads(x, p) /\ Exchange(x, calling[x].buf, proc[p])
                                     => Exchange(x, calling[x].buf, r)
  PROVE  PipesInv'
<1>1. PipesTyped' /\ DeadInv'
  BY DEF PipesInv, PipesTyped, DeadInv
<1>2. LockInv' /\ AnswersAreOwn'
  BY DEF PipesInv, LockInv, AnswersAreOwn
<1>3. ASSUME NEW q \in PluginPipes \ torn
      PROVE  /\ \A x \in PipeCalls : Reads(x, q)' => Exchange(x, calling'[x].buf, proc'[q])
             /\ (\A x \in PipeCalls : ~Reads(x, q)') => Quiet(proc'[q])
  <2>1. q \in Pipes /\ \A x \in PipeCalls : Reads(x, q)' <=> Reads(x, q)
    BY DEF Pipes, Reads
  <2>2. CASE q = p
    <3>1. proc'[q] = r
      BY <2>1, <2>2 DEF PipesInv, PipesTyped
    <3>. QED BY <2>1, <2>2, <3>1 DEF PipesInv, ExchangeInv
  <2>3. CASE q # p
    <3>1. proc'[q] = proc[q]
      BY <2>1, <2>3 DEF PipesInv, PipesTyped
    <3>. QED BY <2>1, <3>1 DEF PipesInv, ExchangeInv
  <2>. QED BY <2>2, <2>3
<1>4. ExchangeInv'
  BY <1>3 DEF ExchangeInv
<1>. QED BY <1>1, <1>2, <1>4 DEF PipesInv

\* A call ends, with an answer of its own or an error, and leaves its process
\* where the next call finds it quiet.
LEMMA AskedEnds ==
  ASSUME NEW r \in Asked, NEW got \in Gots
  PROVE  LET e == [r EXCEPT !.pc = "done", !.buf = <<>>, !.got = got]
         IN  e \in Asked /\ e # NotCalled /\ e.pc = "done" /\ e.got = got /\ e.pipe = r.pipe
<1> DEFINE e == [r EXCEPT !.pc = "done", !.buf = <<>>, !.got = got]
<1>1. <<>> \in Seq(OutPieces)
  OBVIOUS
<1>2. e \in Asked /\ e.pc = "done" /\ e.got = got /\ e.pipe = r.pipe
  BY <1>1 DEF Asked
<1>. QED BY <1>2 DEF NotCalled

LEMMA CallEnds ==
  ASSUME PipesInv, NEW x \in PipeCalls, calling[x] # NotCalled, calling[x].pc \in {"lock", "read"},
         NEW got \in Gots, EndsWith(x, got),
         proc' \in [Pipes -> Procs], DeadInv', torn \subseteq torn',
         \A q \in Pipes \ {PipeOf(x)} : proc'[q] = proc[q],
         calling[x].pc = "lock" => proc' = proc,
         calling[x].pc = "read" /\ PipeOf(x) \in PluginPipes \ torn' => Quiet(proc'[PipeOf(x)]),
         got = None \/ got = x \/ PipeOf(x) \in PluginPipes \cap torn'
  PROVE  PipesInv'
<1> DEFINE p == calling[x].pipe
           e == [calling[x] EXCEPT !.pc = "done", !.buf = <<>>, !.got = got]
<1>0. calling[x] \in Asked /\ p \in Pipes /\ p = PipeOf(x)
  BY DEF PipesInv, PipesTyped, Asked, PipeOf
<1>1. e \in Asked /\ e # NotCalled /\ e.pc = "done" /\ e.got = got /\ e.pipe = p
  BY <1>0, AskedEnds
<1>2. /\ calling' = [calling EXCEPT ![x] = e]
      /\ holders' = [holders EXCEPT ![p] = RemoveFirst(@, x)]
  BY DEF EndsWith, PipeOf
<1> HIDE DEF e
<1>3. PipesTyped'
  <2>1. holders[p] \in Seq(PipeCalls)
    BY <1>0 DEF PipesInv, PipesTyped
  <2>2. RemoveFirst(holders[p], x) \in Seq(PipeCalls)
    BY <2>1, RemoveFirstType
  <2>. QED BY <1>0, <1>1, <1>2, <2>2 DEF PipesInv, PipesTyped
<1>4. /\ calling'[x] = e
      /\ \A y \in PipeCalls \ {x} : calling'[y] = calling[y]
  BY <1>2 DEF PipesInv, PipesTyped
<1>5. LockInv'
  <2> SUFFICES ASSUME NEW y \in PipeCalls, calling'[y] # NotCalled
               PROVE  /\ calling'[y].pc = "read" =>
                           /\ holders'[calling'[y].pipe] # <<>>
                           /\ y = Head(holders'[calling'[y].pipe])
                      /\ calling'[y].pc = "lock" => calling'[y].buf = <<>>
                      /\ calling'[y].pc # "done" => calling'[y].got = None
    BY DEF LockInv
  <2>1. CASE y = x
    BY <1>1, <1>4, <2>1
  <2>2. CASE y # x
    <3>1. calling'[y] = calling[y]
      BY <1>4, <2>2
    <3>2. calling[y].pc = "lock" => calling[y].buf = <<>>
      BY <3>1 DEF PipesInv, LockInv
    <3>3. calling[y].pc # "done" => calling[y].got = None
      BY <3>1 DEF PipesInv, LockInv
    <3>4. ASSUME calling[y].pc = "read"
          PROVE  holders'[calling[y].pipe] # <<>> /\ y = Head(holders'[calling[y].pipe])
      <4>1. /\ holders[calling[y].pipe] # <<>> /\ y = Head(holders[calling[y].pipe])
            /\ calling[y].pipe \in Pipes /\ holders[calling[y].pipe] \in Seq(PipeCalls)
        BY <3>1, <3>4 DEF PipesInv, PipesTyped, LockInv, Asked
      <4>2. CASE calling[y].pipe = p
        <5>1. holders'[p] = RemoveFirst(holders[p], x)
          BY <1>0, <1>2 DEF PipesInv, PipesTyped
        <5>. QED BY <2>2, <4>1, <4>2, <5>1, HeadStays
      <4>3. CASE calling[y].pipe # p
        BY <1>2, <4>1, <4>3 DEF PipesInv, PipesTyped
      <4>. QED BY <4>2, <4>3
    <3>. QED BY <3>1, <3>2, <3>3, <3>4
  <2>. QED BY <2>1, <2>2
<1>6. \A y \in PipeCalls, q \in Pipes : Reads(y, q)' <=> Reads(y, q) /\ y # x
  BY <1>1, <1>4 DEF Reads
<1>7. ASSUME NEW q \in PluginPipes \ torn'
      PROVE  /\ \A y \in PipeCalls : Reads(y, q)' => Exchange(y, calling'[y].buf, proc'[q])
             /\ (\A y \in PipeCalls : ~Reads(y, q)') => Quiet(proc'[q])
  <2>1. q \in Pipes /\ q \in PluginPipes \ torn
    BY DEF Pipes
  <2>2. CASE q = p /\ calling[x].pc = "read"
    <3>1. Quiet(proc'[q])
      BY <1>0, <2>2
    <3>2. \A y \in PipeCalls : ~Reads(y, q)'
      <4>1. Reads(x, q)
        BY <2>2 DEF Reads
      <4>. QED BY <1>6, <2>1, <4>1, OnlyReader DEF PipesInv
    <3>. QED BY <3>1, <3>2
  <2>3. CASE ~(q = p /\ calling[x].pc = "read")
    <3>1. proc'[q] = proc[q]
      BY <1>0, <2>1, <2>3
    <3>2. ~Reads(x, q)
      BY <2>3 DEF Reads
    <3>3. \A y \in PipeCalls : Reads(y, q)' <=> Reads(y, q)
      BY <1>6, <2>1, <3>2
    <3>. QED BY <1>4, <2>1, <3>1, <3>2, <3>3 DEF PipesInv, ExchangeInv
  <2>. QED BY <2>2, <2>3
<1>8. ExchangeInv'
  BY <1>7 DEF ExchangeInv
<1>9. AnswersAreOwn'
  <2> SUFFICES ASSUME NEW y \in PipeCalls, calling'[y] # NotCalled, calling'[y].got # None
               PROVE  calling'[y].got = y \/ calling'[y].pipe \in PluginPipes \cap torn'
    BY DEF AnswersAreOwn
  <2>1. CASE y = x
    BY <1>0, <1>1, <1>4, <2>1
  <2>2. CASE y # x
    BY <1>4, <2>2 DEF PipesInv, AnswersAreOwn
  <2>. QED BY <2>1, <2>2
<1>. QED BY <1>3, <1>5, <1>8, <1>9 DEF PipesInv

\* A call that reads on keeps what has come of its answer.
LEMMA CallReadsOn ==
  ASSUME PipesInv, NEW x \in PipeCalls, NEW p \in Pipes, Reads(x, p),
         NEW buf \in Seq(OutPieces), NEW rest \in Seq(OutPieces),
         calling' = [calling EXCEPT ![x].buf = buf], proc' = [proc EXCEPT ![p].out = rest],
         UNCHANGED <<holders, torn>>,
         p \in PluginPipes \ torn => buf \o rest = calling[x].buf \o proc[p].out
  PROVE  PipesInv'
<1> DEFINE e == [calling[x] EXCEPT !.buf = buf]
           r == [proc[p] EXCEPT !.out = rest]
<1>1. calling[x] \in Asked /\ proc[p] \in Procs
  BY DEF PipesInv, PipesTyped, Reads
<1>2. /\ e \in Asked /\ e.buf = buf /\ e.pc = calling[x].pc /\ e.pipe = calling[x].pipe
      /\ e.got = calling[x].got
  BY <1>1 DEF Asked
<1>3. /\ r \in Procs /\ r.out = rest /\ r.inbox = proc[p].inbox /\ r.half = proc[p].half
      /\ r.alive = proc[p].alive
  BY <1>1 DEF Procs
<1>4. calling' = [calling EXCEPT ![x] = e] /\ proc' = [proc EXCEPT ![p] = r]
  OBVIOUS
<1> HIDE DEF e, r
<1>5. e # NotCalled /\ e.pc = "read" /\ e.pipe = p
  BY <1>2 DEF Reads, NotCalled
<1>6. /\ calling'[x] = e /\ \A y \in PipeCalls \ {x} : calling'[y] = calling[y]
      /\ proc'[p] = r /\ \A q \in Pipes \ {p} : proc'[q] = proc[q]
  BY <1>4 DEF PipesInv, PipesTyped
<1>7. PipesTyped'
  BY <1>2, <1>3, <1>4 DEF PipesInv, PipesTyped
<1>8. LockInv'
  BY <1>2, <1>5, <1>6 DEF PipesInv, LockInv, Reads
<1>9. DeadInv'
  BY <1>3, <1>6 DEF PipesInv, DeadInv
<1>10. AnswersAreOwn'
  BY <1>2, <1>5, <1>6 DEF PipesInv, AnswersAreOwn, Reads
<1>11. \A y \in PipeCalls, q \in Pipes : Reads(y, q)' <=> Reads(y, q)
  BY <1>2, <1>5, <1>6 DEF Reads
<1>12. ASSUME NEW q \in PluginPipes \ torn
       PROVE  /\ \A y \in PipeCalls : Reads(y, q)' => Exchange(y, calling'[y].buf, proc'[q])
              /\ (\A y \in PipeCalls : ~Reads(y, q)') => Quiet(proc'[q])
  <2>1. q \in Pipes
    BY DEF Pipes
  <2>2. CASE q = p
    <3>1. Exchange(x, buf, r)
      BY <1>3, <2>2 DEF PipesInv, ExchangeInv, Exchange
    <3>2. \A y \in PipeCalls : Reads(y, q)' => y = x
      BY <1>11, <2>1, <2>2, OnlyReader DEF PipesInv
    <3>3. Reads(x, q)'
      BY <1>11, <2>1, <2>2
    <3>. QED BY <1>2, <1>6, <2>2, <3>1, <3>2, <3>3
  <2>3. CASE q # p
    <3>1. \A y \in PipeCalls : Reads(y, q) => y # x
      BY <2>3 DEF Reads
    <3>. QED BY <1>6, <1>11, <2>1, <2>3, <3>1 DEF PipesInv, ExchangeInv
  <2>. QED BY <2>2, <2>3
<1>13. ExchangeInv'
  BY <1>12 DEF ExchangeInv
<1>. QED BY <1>7, <1>8, <1>9, <1>10, <1>13 DEF PipesInv

LEMMA FreshProcess ==
  /\ NoProc \in Procs /\ ~NoProc.alive /\ Quiet(NoProc)
  /\ Spawned \in Procs /\ Spawned.alive /\ Quiet(Spawned)
<1>1. <<>> \in Seq(PipeCalls) /\ <<>> \in Seq(OutPieces)
  OBVIOUS
<1>2. NoProc \in Procs /\ ~NoProc.alive /\ Quiet(NoProc)
  BY <1>1 DEF NoProc, Procs, Quiet, Gots
<1>3. Spawned \in Procs /\ Spawned.alive /\ Quiet(Spawned)
  BY <1>2 DEF Spawned, Procs, Quiet
<1>. QED BY <1>2, <1>3

LEMMA PipesInvInit == PipesInit => PipesInv
<1> SUFFICES ASSUME PipesInit PROVE PipesInv
  OBVIOUS
<1>1. NoProc \in Procs /\ Spawned \in Procs /\ Quiet(NoProc) /\ Quiet(Spawned)
  BY FreshProcess
<1>2. \A q \in Pipes : proc[q] \in {NoProc, Spawned}
  BY DEF PipesInit
<1>3. PipesTyped
  <2>1. <<>> \in Seq(PipeCalls)
    OBVIOUS
  <2>. QED BY <1>1, <2>1 DEF PipesInit, PipesTyped
<1>4. ExchangeInv
  BY <1>1, <1>2 DEF PipesInit, ExchangeInv, Reads, Pipes
<1>5. DeadInv
  BY <1>1, <1>2 DEF DeadInv, Quiet
<1>. QED BY <1>3, <1>4, <1>5 DEF PipesInit, PipesInv, LockInv, AnswersAreOwn

LEMMA CallToolKeeps ==
  ASSUME PipesInv, NEW x \in PipeCalls, NEW p \in Pipes, CallTool(x, p)
  PROVE  PipesInv'
<1> DEFINE e == [pc |-> "lock", pipe |-> p, buf |-> <<>>, got |-> None]
<1>1. e \in Asked /\ e # NotCalled /\ e.pc = "lock" /\ e.buf = <<>> /\ e.got = None
  <2>1. <<>> \in Seq(OutPieces)
    OBVIOUS
  <2>. QED BY <2>1 DEF Asked, Gots, NotCalled
<1>2. /\ calling' = [calling EXCEPT ![x] = e] /\ holders' = [holders EXCEPT ![p] = Append(@, x)]
      /\ proc' = proc /\ torn' = torn /\ calling[x] = NotCalled
  BY DEF CallTool
<1> HIDE DEF e
<1>3. calling'[x] = e /\ \A y \in PipeCalls \ {x} : calling'[y] = calling[y]
  BY <1>2 DEF PipesInv, PipesTyped
<1>4. holders[p] \in Seq(PipeCalls)
  BY DEF PipesInv, PipesTyped
<1>5. Append(holders[p], x) \in Seq(PipeCalls)
  BY <1>4
<1>6. PipesTyped'
  BY <1>1, <1>2, <1>5 DEF PipesInv, PipesTyped
<1>7. \A q \in Pipes : holders[q] # <<>> =>
        holders'[q] # <<>> /\ Head(holders'[q]) = Head(holders[q])
  <2> SUFFICES ASSUME NEW q \in Pipes, holders[q] # <<>>
               PROVE  holders'[q] # <<>> /\ Head(holders'[q]) = Head(holders[q])
    OBVIOUS
  <2>1. CASE q = p
    <3>1. holders'[q] = Append(holders[p], x)
      BY <1>2, <2>1 DEF PipesInv, PipesTyped
    <3>2. holders[p] \in Seq(PipeCalls) /\ holders[p] # <<>>
      BY <1>4, <2>1
    <3>3. Append(holders[p], x) # <<>> /\ Head(Append(holders[p], x)) = Head(holders[p])
      BY <3>2, EmptySeq, AppendProperties
    <3>. QED BY <2>1, <3>1, <3>3
  <2>2. CASE q # p
    BY <1>2, <2>2 DEF PipesInv, PipesTyped
  <2>. QED BY <2>1, <2>2
<1>8. LockInv'
  <2> SUFFICES ASSUME NEW y \in PipeCalls, calling'[y] # NotCalled
               PROVE  /\ calling'[y].pc = "read" =>
                           /\ holders'[calling'[y].pipe] # <<>>
                           /\ y = Head(holders'[calling'[y].pipe])
                      /\ calling'[y].pc = "lock" => calling'[y].buf = <<>>
                      /\ calling'[y].pc # "done" => calling'[y].got = None
    BY DEF LockInv
  <2>1. CASE y = x
    BY <1>1, <1>3, <2>1
  <2>2. CASE y # x
    <3>1. calling'[y] = calling[y]
      BY <1>3, <2>2
    <3>2. calling[y].pipe \in Pipes
      BY <3>1 DEF PipesInv, PipesTyped, Asked
    <3>. QED BY <1>7, <3>1, <3>2 DEF PipesInv, LockInv
  <2>. QED BY <2>1, <2>2
<1>9. \A y \in PipeCalls, q \in Pipes : Reads(y, q)' <=> Reads(y, q)
  BY <1>1, <1>2, <1>3 DEF Reads
<1>10. ExchangeInv'
  <2>1. \A y \in PipeCalls : calling[y] # NotCalled => calling'[y] = calling[y]
    BY <1>2, <1>3
  <2>2. \A q \in PluginPipes : q \in Pipes
    BY DEF Pipes
  <2>3. \A y \in PipeCalls, q \in Pipes : Reads(y, q) => calling[y] # NotCalled
    BY DEF Reads
  <2>. QED BY <1>2, <1>9, <2>1, <2>2, <2>3 DEF PipesInv, ExchangeInv
<1>11. DeadInv'
  BY <1>2 DEF PipesInv, DeadInv
<1>12. AnswersAreOwn'
  BY <1>1, <1>2, <1>3 DEF PipesInv, AnswersAreOwn
<1>. QED BY <1>6, <1>8, <1>10, <1>11, <1>12 DEF PipesInv

LEMMA ReaderIsHead ==
  ASSUME LockInv, NEW x \in PipeCalls, calling[x] # NotCalled, calling[x].pc = "read"
  PROVE  HasPipe(x)
BY ToolPipesAssumption DEF LockInv, HasPipe

LEMMA SendKeeps ==
  ASSUME PipesInv, NEW x \in PipeCalls, Send(x)
  PROVE  PipesInv'
<1> DEFINE p == calling[x].pipe
           e == [calling[x] EXCEPT !.pc = "read"]
           old == Ready(p)
           r == [old EXCEPT !.inbox = Append(@, x)]
<1>1. calling[x] # NotCalled /\ calling[x].pc = "lock" /\ calling[x] \in Asked /\ p \in Pipes
  BY DEF Send, HasPipe, PipesInv, PipesTyped, Asked
<1>2. /\ calling[x].buf = <<>> /\ calling[x].got = None
      /\ e \in Asked /\ e.pc = "read" /\ e.pipe = p /\ e.got = None /\ e.buf = <<>>
  <2>1. calling[x].buf = <<>> /\ calling[x].got = None
    BY <1>1 DEF PipesInv, LockInv
  <2>. QED BY <1>1, <2>1 DEF Asked
<1>3. old \in Procs /\ old.alive /\ (Quiet(proc[p]) => Quiet(old))
  BY <1>1, FreshProcess DEF Ready, Send, PipeOf, PipesInv, PipesTyped
<1>4. Append(old.inbox, x) \in Seq(PipeCalls)
  <2>1. old.inbox \in Seq(PipeCalls)
    BY <1>3 DEF Procs
  <2>. QED BY ONLY <2>1, x \in PipeCalls, AppendProperties
<1>5. /\ r \in Procs /\ r.alive /\ r.out = old.out /\ r.half = old.half
      /\ r.inbox = Append(old.inbox, x)
  BY <1>3, <1>4 DEF Procs
<1>6. /\ calling' = [calling EXCEPT ![x] = e] /\ proc' = [proc EXCEPT ![p] = r]
      /\ holders' = holders /\ torn' = torn
  BY DEF Send, PipeOf
<1>7. holders[p] # <<>> /\ x = Head(holders[p])
  <2>1. x = Head(Append(holders[p], None)) /\ holders[p] \in Seq(PipeCalls)
    BY <1>1 DEF Send, HasPipe, PipesInv, PipesTyped
  <2>2. holders[p] # <<>>
    BY <2>1, ToolPipesAssumption
  <2>. QED BY <2>1, <2>2
<1> HIDE DEF e, r, old
<1>8. /\ calling'[x] = e /\ \A y \in PipeCalls \ {x} : calling'[y] = calling[y]
      /\ proc'[p] = r /\ \A q \in Pipes \ {p} : proc'[q] = proc[q]
  BY <1>1, <1>6 DEF PipesInv, PipesTyped
<1>9. PipesTyped'
  BY <1>1, <1>2, <1>5, <1>6 DEF PipesInv, PipesTyped
<1>10. e # NotCalled
  BY <1>2 DEF NotCalled
<1>11. LockInv'
  <2>1. calling'[x].pc = "read" /\ calling'[x].pipe = p /\ calling'[x].got = None
    BY <1>2, <1>8
  <2>. QED BY <1>6, <1>7, <1>8, <2>1 DEF PipesInv, LockInv
<1>12. \A y \in PipeCalls \ {x}, q \in Pipes : Reads(y, q)' <=> Reads(y, q)
  BY <1>8 DEF Reads
<1>13. Reads(x, p)' /\ \A q \in Pipes \ {p} : ~Reads(x, q)' /\ ~Reads(x, q)
  BY <1>1, <1>2, <1>8, <1>10 DEF Reads
<1>14. \A y \in PipeCalls : ~Reads(y, p)
  BY <1>1, <1>7 DEF PipesInv, LockInv, Reads
<1>15. ASSUME NEW q \in PluginPipes \ torn
       PROVE  /\ \A y \in PipeCalls : Reads(y, q)' => Exchange(y, calling'[y].buf, proc'[q])
              /\ (\A y \in PipeCalls : ~Reads(y, q)') => Quiet(proc'[q])
  <2>1. q \in Pipes
    BY DEF Pipes
  <2>2. CASE q = p
    <3>1. Quiet(old)
      BY <1>3, <1>14, <2>2 DEF PipesInv, ExchangeInv
    <3>2. r.inbox = <<x>> /\ r.out = <<>> /\ r.half = None
      BY <1>5, <3>1 DEF Quiet
    <3>3. Exchange(x, <<>>, r)
      BY <3>2 DEF Exchange
    <3>. QED BY <1>2, <1>8, <1>12, <1>13, <1>14, <2>1, <2>2, <3>3
  <2>3. CASE q # p
    <3>1. \A y \in PipeCalls : Reads(y, q)' <=> Reads(y, q)
      BY <1>12, <1>13, <2>1, <2>3
    <3>2. \A y \in PipeCalls : Reads(y, q) => y # x
      BY <1>13, <2>1, <2>3
    <3>. QED BY <1>8, <2>1, <2>3, <3>1, <3>2 DEF PipesInv, ExchangeInv
  <2>. QED BY <2>2, <2>3
<1>16. ExchangeInv'
  BY <1>6, <1>15 DEF ExchangeInv
<1>17. DeadInv'
  BY <1>5, <1>8 DEF PipesInv, DeadInv
<1>18. AnswersAreOwn'
  BY <1>2, <1>6, <1>8 DEF PipesInv, AnswersAreOwn
<1>. QED BY <1>9, <1>11, <1>16, <1>17, <1>18 DEF PipesInv

LEMMA BeginLineKeeps ==
  ASSUME PipesInv, NEW p \in Pipes, BeginLine(p)
  PROVE  PipesInv'
<1> DEFINE s == proc[p]
<1>0. s \in Procs /\ s.inbox \in Seq(PipeCalls) /\ s.out \in Seq(OutPieces) /\ s.alive /\ s.half = None
  BY DEF BeginLine, PipesInv, PipesTyped, Procs
<1>1. CASE /\ s.inbox # <<>>
           /\ proc' = [proc EXCEPT ![p] =
                [s EXCEPT !.inbox = Tail(s.inbox), !.half = Head(s.inbox),
                          !.out = Append(s.out, Piece(Head(s.inbox), FALSE))]]
  <2> DEFINE id == Head(s.inbox)
             out == Append(s.out, Piece(id, FALSE))
             r == [s EXCEPT !.inbox = Tail(s.inbox), !.half = id, !.out = out]
  <2>1. id \in PipeCalls /\ Tail(s.inbox) \in Seq(PipeCalls)
    BY <1>0, <1>1, HeadTailProperties
  <2>2. out \in Seq(OutPieces)
    <3>1. Piece(id, FALSE) \in OutPieces
      BY <2>1 DEF Piece, OutPieces
    <3>. QED BY ONLY <1>0, <3>1, AppendProperties
  <2> HIDE DEF out
  <2>3. /\ r \in Procs /\ r.alive /\ r.inbox = Tail(s.inbox) /\ r.half = id /\ r.out = out
    BY <1>0, <2>1, <2>2 DEF Procs, Gots
  <2>4. proc' = [proc EXCEPT ![p] = r]
    BY <1>1 DEF out
  <2> HIDE DEF r
  <2>5. ASSUME NEW x \in PipeCalls, Reads(x, p), Exchange(x, calling[x].buf, s)
        PROVE  Exchange(x, calling[x].buf, r)
    <3> DEFINE buf == calling[x].buf
    <3>1. buf \in Seq(OutPieces)
      BY <2>5 DEF Reads, PipesInv, PipesTyped, Asked
    <3>2. s.inbox = <<x>> /\ buf \o s.out = <<>>
      BY <1>1, <2>5 DEF Exchange
    <3>3. id = x /\ Tail(s.inbox) = <<>> /\ buf = <<>> /\ s.out = <<>>
      <4>1. buf = <<>> /\ s.out = <<>>
        <5> HIDE DEF buf
        <5>1. s.out \in Seq(OutPieces) /\ buf \o s.out = <<>>
          BY <1>0, <3>2
        <5>2. buf \o s.out = <<>> <=> buf = <<>> /\ s.out = <<>>
          BY ONLY <3>1, <5>1, ConcatEqualIffEmpty
        <5>. QED BY <5>1, <5>2
      <4>. QED BY <1>0, <3>2, <4>1
    <3>4. buf \o out = <<Piece(x, FALSE)>>
      <4>1. Append(<<>>, Piece(x, FALSE)) = <<Piece(x, FALSE)>>
        OBVIOUS
      <4>2. out = Append(<<>>, Piece(x, FALSE))
        BY ONLY <3>3 DEF out
      <4>. QED BY <2>2, <3>3, <4>1, <4>2, ConcatEmptySeq
    <3>. QED BY <2>3, <3>3, <3>4 DEF Exchange
  <2>6. Quiet(s) => Quiet(r)
    BY <1>1 DEF Quiet
  <2>. QED BY <2>3, <2>4, <2>5, <2>6, ProcessGoesOn DEF BeginLine
<1>2. CASE /\ p \in MCPPipes
           /\ proc' = [proc EXCEPT ![p] = [s EXCEPT !.half = "notice",
                                                    !.out = Append(s.out, Piece("notice", FALSE))]]
  <2> DEFINE out == Append(s.out, Piece("notice", FALSE))
             r == [s EXCEPT !.half = "notice", !.out = out]
  <2>1. out \in Seq(OutPieces)
    <3>1. Piece("notice", FALSE) \in OutPieces
      BY DEF Piece, OutPieces
    <3>. QED BY ONLY <1>0, <3>1, AppendProperties
  <2> HIDE DEF out
  <2>2. r \in Procs /\ r.alive
    BY <1>0, <2>1 DEF Procs, Gots
  <2>3. proc' = [proc EXCEPT ![p] = r]
    BY <1>2 DEF out
  <2>4. p \notin PluginPipes
    BY <1>2, ToolPipesAssumption
  <2> HIDE DEF r
  <2>. QED BY <2>2, <2>3, <2>4, ProcessGoesOn DEF BeginLine
<1>. QED BY <1>1, <1>2 DEF BeginLine

LEMMA TwoPieces ==
  ASSUME NEW S, NEW m \in S, NEW n \in S
  PROVE  Append(<<m>>, n) = <<m, n>>
<1> DEFINE two == <<m, n>>
           r == Append(<<m>>, n)
<1>1. two \in Seq(S) /\ Len(two) = 2 /\ two[1] = m /\ two[2] = n
  OBVIOUS
<1>2. r \in Seq(S) /\ Len(r) = 2
  OBVIOUS
<1>3. r[1] = m
  OBVIOUS
<1>4. r[2] = n
  OBVIOUS
<1> HIDE DEF r, two
<1>5. \A i \in 1..Len(r) : r[i] = two[i]
  BY <1>1, <1>2, <1>3, <1>4
<1>6. r = two
  BY <1>1, <1>2, <1>5, SeqEqual
<1>. QED BY <1>6 DEF r, two

LEMMA AppendToConcat ==
  ASSUME NEW S, NEW u \in Seq(S), NEW v \in Seq(S), NEW e \in S
  PROVE  u \o Append(v, e) = Append(u \o v, e)
<1> DEFINE one == <<e>>
<1>1. one \in Seq(S)
  OBVIOUS
<1>2. Append(v, e) = v \o one
  BY AppendIsConcat
<1>3. u \o v \in Seq(S)
  BY ConcatProperties
<1>4. Append(u \o v, e) = (u \o v) \o one
  BY <1>3, AppendIsConcat
<1> HIDE DEF one
<1>5. (u \o v) \o one = u \o (v \o one)
  BY <1>1, ConcatAssociative
<1>. QED BY ONLY <1>2, <1>4, <1>5

LEMMA EndLineKeeps ==
  ASSUME PipesInv, NEW p \in Pipes, EndLine(p)
  PROVE  PipesInv'
<1> DEFINE s == proc[p]
           last == Piece(s.half, TRUE)
           out == Append(s.out, last)
           r == [s EXCEPT !.half = None, !.out = out]
<1>1. /\ s \in Procs /\ s.out \in Seq(OutPieces) /\ s.alive
      /\ s.half \in PipeCalls \cup {"notice"}
  BY DEF EndLine, PipesInv, PipesTyped, Procs, Gots
<1>2. out \in Seq(OutPieces)
  <2>1. last \in OutPieces
    BY <1>1 DEF Piece, OutPieces
  <2> HIDE DEF last
  <2>. QED BY ONLY <1>1, <2>1, AppendProperties
<1>3. proc' = [proc EXCEPT ![p] = r]
  BY <1>1 DEF EndLine, PipesInv, PipesTyped
<1> HIDE DEF out
<1>4. r \in Procs /\ r.alive /\ r.inbox = s.inbox /\ r.half = None /\ r.out = out
  BY <1>1, <1>2 DEF Procs, Gots
<1> HIDE DEF r
<1>5. ASSUME NEW x \in PipeCalls, Reads(x, p), Exchange(x, calling[x].buf, s)
      PROVE  Exchange(x, calling[x].buf, r)
  <2> DEFINE buf == calling[x].buf
  <2>1. buf \in Seq(OutPieces)
    BY <1>5 DEF Reads, PipesInv, PipesTyped, Asked
  <2>2. buf \o s.out = <<Piece(x, FALSE)>> /\ s.inbox = <<>> /\ s.half = x
    BY <1>5 DEF Exchange, EndLine
  <2>3. last \in OutPieces /\ last = Piece(x, TRUE)
    BY <1>1, <2>2 DEF Piece, OutPieces
  <2> HIDE DEF buf, last
  <2>4. buf \o out = Append(buf \o s.out, last)
    <3>1. s.out \in Seq(OutPieces) /\ out = Append(s.out, last)
      BY <1>1 DEF out
    <3>2. last \in OutPieces
      BY <2>3
    <3>. QED BY ONLY <2>1, <3>1, <3>2, AppendToConcat
  <2>5. Append(<<Piece(x, FALSE)>>, Piece(x, TRUE)) = <<Piece(x, FALSE), Piece(x, TRUE)>>
    <3>1. Piece(x, FALSE) \in OutPieces /\ Piece(x, TRUE) \in OutPieces
      BY DEF Piece, OutPieces
    <3>. QED BY ONLY <3>1, TwoPieces
  <2>6. buf \o out = <<Piece(x, FALSE), Piece(x, TRUE)>>
    BY ONLY <2>2, <2>3, <2>4, <2>5
  <2>. QED BY <1>4, <2>2, <2>6 DEF Exchange, buf
<1>6. ~Quiet(s)
  BY DEF Quiet, EndLine
<1>. QED BY <1>3, <1>4, <1>5, <1>6, ProcessGoesOn DEF EndLine

LEMMA DieKeeps ==
  ASSUME PipesInv, NEW p \in Pipes, Die(p)
  PROVE  PipesInv'
<1> DEFINE s == proc[p]
           r == [s EXCEPT !.alive = FALSE, !.half = None, !.inbox = <<>>]
<1>1. s \in Procs
  BY DEF PipesInv, PipesTyped
<1>2. proc' = [proc EXCEPT ![p] = r]
  BY <1>1 DEF Die, PipesInv, PipesTyped
<1>3. r \in Procs /\ r.inbox = <<>> /\ r.half = None /\ r.out = s.out
  <2>1. <<>> \in Seq(PipeCalls)
    OBVIOUS
  <2>. QED BY <1>1, <2>1 DEF Procs, Gots
<1> HIDE DEF r
<1>. QED BY <1>2, <1>3, ProcessGoesOn DEF Die, Quiet, Exchange

\* Each way for a call to end without an answer.
LEMMA FailingKeeps ==
  ASSUME PipesInv, NEW x \in PipeCalls,
         SendFails(x) \/ ReadEnd(x) \/ TimeOutCall(x) \/ CancelCall(x)
  PROVE  PipesInv'
<1> DEFINE p == PipeOf(x)
<1>0. None \in Gots /\ EndsWith(x, None) /\ calling[x] # NotCalled /\ calling[x].pc \in {"lock", "read"}
  BY DEF SendFails, ReadEnd, TimeOutCall, CancelCall, Reading, HasPipe, Gots
<1>1. p \in Pipes /\ proc[p] \in Procs /\ proc \in [Pipes -> Procs]
  BY <1>0 DEF PipeOf, PipesInv, PipesTyped, Asked
<1>2. CASE SendFails(x)
  BY <1>0, <1>1, <1>2, CallEnds DEF SendFails, PipesInv, DeadInv
<1>3. CASE ReadEnd(x)
  <2>1. Quiet(proc[p])
    BY <1>1, <1>3 DEF ReadEnd, PipesInv, DeadInv, Quiet
  <2>. QED BY <1>0, <1>1, <1>3, <2>1, CallEnds DEF ReadEnd, PipesInv, DeadInv
<1>4. CASE TimeOutCall(x)
  <2>1. CASE p \in PluginPipes
    <3>1. proc' = [proc EXCEPT ![p] = NoProc] /\ torn' = torn /\ calling[x].pc = "read"
      BY <1>4, <2>1 DEF TimeOutCall, Forget, Reading
    <3>2. /\ proc' \in [Pipes -> Procs] /\ proc'[p] = NoProc
          /\ \A q \in Pipes \ {p} : proc'[q] = proc[q]
      BY <1>1, <3>1, FreshProcess
    <3>3. DeadInv'
      BY <3>2, FreshProcess DEF PipesInv, DeadInv, Quiet
    <3> HIDE DEF p
    <3>. QED BY <1>0, <3>1, <3>2, <3>3, FreshProcess, CallEnds DEF p
  <2>2. CASE p \notin PluginPipes
    <3>1. proc' = proc /\ torn \subseteq torn' /\ calling[x].pc = "read"
      BY <1>4, <2>2 DEF TimeOutCall, Reading
    <3>2. DeadInv'
      BY <3>1 DEF PipesInv, DeadInv
    <3>. QED BY <1>0, <1>1, <2>2, <3>1, <3>2, CallEnds
  <2>. QED BY <2>1, <2>2
<1>5. CASE CancelCall(x)
  <2>1. proc' = proc /\ torn \subseteq torn' /\ DeadInv'
    BY <1>5 DEF CancelCall, PipesInv, DeadInv
  <2>2. calling[x].pc = "read" => p \in torn'
    BY <1>0, <1>5, ReaderIsHead DEF CancelCall, Reading, PipesInv
  <2>. QED BY <1>0, <1>1, <2>1, <2>2, CallEnds
<1>. QED BY <1>2, <1>3, <1>4, <1>5

LEMMA ReadChunkKeeps ==
  ASSUME PipesInv, NEW x \in PipeCalls, NEW n \in Nat, ReadChunk(x, n)
  PROVE  PipesInv'
<1> DEFINE p == PipeOf(x)
           old == calling[x].buf
           out == proc[p].out
           buf == old \o SubSeq(out, 1, n)
           rest == SubSeq(out, n + 1, Len(out))
           line == FirstLine(buf)
           r == [proc[p] EXCEPT !.out = rest]
<1>1. /\ calling[x] # NotCalled /\ calling[x].pc = "read" /\ n \in 1..Len(out) /\ torn' = torn
  BY DEF ReadChunk, Reading, HasPipe
<1>2. /\ calling[x] \in Asked /\ p \in Pipes /\ Reads(x, p) /\ p = calling[x].pipe
      /\ proc \in [Pipes -> Procs] /\ proc[p] \in Procs
  BY <1>1 DEF PipesInv, PipesTyped, Asked, PipeOf, Reads
<1>3. old \in Seq(OutPieces) /\ out \in Seq(OutPieces)
  BY <1>2 DEF Asked, Procs
<1>4. buf \in Seq(OutPieces) /\ rest \in Seq(OutPieces) /\ buf \o rest = old \o out
  BY ONLY <1>1, <1>3, ReadMoves
<1>5. \/ /\ ~HasNewline(buf)
         /\ Consume(p, n) /\ calling' = [calling EXCEPT ![x].buf = buf] /\ UNCHANGED holders
      \/ /\ HasNewline(buf) /\ EndsWith(x, None)
         /\ IF p \in PluginPipes THEN Forget(p) ELSE Consume(p, n)
      \/ /\ HasNewline(buf) /\ p \in PluginPipes
         /\ EndsWith(x, line[1].id) /\ Consume(p, n)
      \/ /\ HasNewline(buf) /\ p \in MCPPipes /\ Consume(p, n)
         /\ IF IsAnswer(x, line) THEN EndsWith(x, line[1].id)
            ELSE calling' = [calling EXCEPT ![x].buf = <<>>] /\ UNCHANGED holders
  BY <1>2 DEF ReadChunk, Pipes
<1>6. Consume(p, n) => proc' = [proc EXCEPT ![p].out = rest]
  BY DEF Consume
<1> HIDE DEF buf, rest, line
<1>7. /\ r \in Procs /\ r.inbox = proc[p].inbox /\ r.half = proc[p].half /\ r.out = rest
      /\ r.alive = proc[p].alive
  BY <1>2, <1>4 DEF Procs
<1>8. ASSUME Consume(p, n)
      PROVE  /\ proc' \in [Pipes -> Procs] /\ proc'[p] = r /\ DeadInv'
             /\ \A q \in Pipes \ {p} : proc'[q] = proc[q]
  <2>1. proc' = [proc EXCEPT ![p] = r]
    BY <1>6, <1>8
  <2> HIDE DEF r
  <2>2. /\ proc' \in [Pipes -> Procs] /\ proc'[p] = r
        /\ \A q \in Pipes \ {p} : proc'[q] = proc[q]
    BY <1>2, <1>7, <2>1
  <2>. QED BY <1>7, <2>2 DEF PipesInv, DeadInv
<1>9. ASSUME HasNewline(buf) PROVE line[1].id \in Gots
  <2>1. line[1] \in OutPieces
    <3>1. \E i \in 1..Len(buf) : line[1] = buf[1]
      BY <1>4, <1>9, FirstLineEnds DEF line
    <3>2. 1 \in 1..Len(buf)
      BY <1>4, <3>1
    <3>. QED BY <1>4, <3>1, <3>2
  <2>. QED BY <2>1 DEF OutPieces, Gots
<1>10. CASE /\ ~HasNewline(buf)
            /\ Consume(p, n) /\ calling' = [calling EXCEPT ![x].buf = buf] /\ UNCHANGED holders
  BY <1>1, <1>2, <1>4, <1>6, <1>10, CallReadsOn
<1>11. CASE /\ HasNewline(buf) /\ EndsWith(x, None)
            /\ IF p \in PluginPipes THEN Forget(p) ELSE Consume(p, n)
  <2>0. None \in Gots
    BY DEF Gots
  <2>1. CASE p \in PluginPipes
    <3>1. proc' = [proc EXCEPT ![p] = NoProc]
      BY <1>11, <2>1 DEF Forget
    <3>2. /\ proc' \in [Pipes -> Procs] /\ proc'[p] = NoProc
          /\ \A q \in Pipes \ {p} : proc'[q] = proc[q]
      BY <1>2, <3>1, FreshProcess
    <3>3. DeadInv'
      BY <3>2, FreshProcess DEF PipesInv, DeadInv, Quiet
    <3> HIDE DEF p
    <3>. QED BY <1>1, <1>11, <2>0, <3>2, <3>3, FreshProcess, CallEnds DEF p
  <2>2. CASE p \notin PluginPipes
    BY <1>1, <1>8, <1>11, <2>0, <2>2, CallEnds
  <2>. QED BY <2>1, <2>2
<1>12. CASE /\ HasNewline(buf) /\ p \in PluginPipes
            /\ EndsWith(x, line[1].id) /\ Consume(p, n)
  <2>1. CASE p \in torn
    BY <1>1, <1>8, <1>9, <1>12, <2>1, CallEnds
  <2>2. CASE p \notin torn
    <3>1. Exchange(x, old, proc[p])
      BY <1>2, <1>12, <2>2 DEF PipesInv, ExchangeInv
    <3>2. buf \o rest \in {<<>>, <<Piece(x, FALSE)>>, <<Piece(x, FALSE), Piece(x, TRUE)>>}
      BY <1>4, <3>1 DEF Exchange
    <3>3. /\ rest = <<>> /\ line[1].id = x
          /\ old \o out = <<Piece(x, FALSE), Piece(x, TRUE)>>
      BY <1>4, <1>12, <3>2, WholeAnswer DEF line
    <3>4. proc[p].inbox = <<>> /\ proc[p].half = None
      BY <3>1, <3>3 DEF Exchange
    <3>5. Quiet(r)
      BY <1>7, <3>3, <3>4 DEF Quiet
    <3> HIDE DEF r
    <3>. QED BY <1>1, <1>8, <1>9, <1>12, <3>3, <3>5, CallEnds
  <2>. QED BY <2>1, <2>2
<1>13. CASE /\ HasNewline(buf) /\ p \in MCPPipes /\ Consume(p, n)
            /\ IF IsAnswer(x, line) THEN EndsWith(x, line[1].id)
               ELSE calling' = [calling EXCEPT ![x].buf = <<>>] /\ UNCHANGED holders
  <2>0. p \notin PluginPipes
    BY <1>13, ToolPipesAssumption
  <2>1. CASE IsAnswer(x, line)
    <3>1. line[1].id = x /\ EndsWith(x, line[1].id)
      BY <1>13, <2>1 DEF IsAnswer
    <3> HIDE DEF r
    <3>. QED BY <1>1, <1>8, <1>9, <1>13, <2>0, <3>1, CallEnds
  <2>2. CASE ~IsAnswer(x, line)
    <3>1. <<>> \in Seq(OutPieces)
      OBVIOUS
    <3>2. calling' = [calling EXCEPT ![x].buf = <<>>] /\ UNCHANGED holders
      BY <1>13, <2>2
    <3>. QED BY <1>1, <1>2, <1>4, <1>6, <1>13, <2>0, <3>1, <3>2, CallReadsOn
  <2>. QED BY <2>1, <2>2
<1>. QED BY <1>5, <1>10, <1>11, <1>12, <1>13

LEMMA PipesInvStep ==
  ASSUME PipesInv, [PipesNext]_pipeVars
  PROVE  PipesInv'
<1>1. ASSUME NEW x \in PipeCalls, NEW p \in Pipes, CallTool(x, p)
      PROVE  PipesInv'
  BY <1>1, CallToolKeeps
<1>2. ASSUME NEW x \in PipeCalls, Send(x)
      PROVE  PipesInv'
  BY <1>2, SendKeeps
<1>3. ASSUME NEW x \in PipeCalls, SendFails(x) \/ ReadEnd(x) \/ TimeOutCall(x) \/ CancelCall(x)
      PROVE  PipesInv'
  BY <1>3, FailingKeeps
<1>4. ASSUME NEW x \in PipeCalls, NEW n \in 1..(2 * (Cardinality(PipeCalls) + MaxNotices)), ReadChunk(x, n)
      PROVE  PipesInv'
  <2>1. n \in Nat
    OBVIOUS
  <2>. QED BY <1>4, <2>1, ReadChunkKeeps
<1>5. ASSUME NEW p \in Pipes, BeginLine(p)
      PROVE  PipesInv'
  BY <1>5, BeginLineKeeps
<1>6. ASSUME NEW p \in Pipes, EndLine(p)
      PROVE  PipesInv'
  BY <1>6, EndLineKeeps
<1>7. ASSUME NEW p \in Pipes, Die(p)
      PROVE  PipesInv'
  BY <1>7, DieKeeps
<1>8. CASE UNCHANGED pipeVars
  BY <1>8 DEF pipeVars, PipesInv, PipesTyped, LockInv, ExchangeInv, DeadInv, AnswersAreOwn,
              Reads, Exchange, Quiet
<1>. QED BY <1>1, <1>2, <1>3, <1>4, <1>5, <1>6, <1>7, <1>8 DEF PipesNext

LEMMA PipesAreTyped == PipesInv /\ torn \subseteq Pipes => PipesTypeOK
<1> SUFFICES ASSUME PipesInv, torn \subseteq Pipes PROVE PipesTypeOK
  OBVIOUS
<1>1. \A p \in Pipes : proc[p].alive \in BOOLEAN /\ proc[p].half \in PipeCalls \cup {None, "notice"}
  BY DEF PipesInv, PipesTyped, Procs, Gots
<1>2. \A p \in Pipes : ToSet(holders[p]) \subseteq PipeCalls
  <2>1. \A p \in Pipes : holders[p] \in Seq(PipeCalls)
    BY DEF PipesInv, PipesTyped
  <2>. QED BY <2>1 DEF ToSet
<1>3. \A x \in PipeCalls : calling[x] = NotCalled \/ calling[x].pc \in {"lock", "read", "done"}
  BY DEF PipesInv, PipesTyped, Asked
<1>. QED BY <1>1, <1>2, <1>3 DEF PipesTypeOK

LEMMA TornInit == PipesInit => torn \subseteq Pipes
BY DEF PipesInit

LEMMA TornStep ==
  ASSUME PipesInv, torn \subseteq Pipes, [PipesNext]_pipeVars PROVE torn' \subseteq Pipes
<1>1. \A x \in PipeCalls : calling[x] # NotCalled => PipeOf(x) \in Pipes
  BY DEF PipesInv, PipesTyped, Asked, PipeOf
<1>2. ASSUME NEW x \in PipeCalls, TimeOutCall(x) \/ CancelCall(x) PROVE torn' \subseteq Pipes
  BY <1>1, <1>2 DEF TimeOutCall, CancelCall, Reading, HasPipe
<1>3. ASSUME NEW x \in PipeCalls, Send(x) \/ SendFails(x) \/ ReadEnd(x) PROVE torn' \subseteq Pipes
  BY <1>3 DEF Send, SendFails, ReadEnd
<1>4. ASSUME NEW x, NEW n, ReadChunk(x, n) PROVE torn' \subseteq Pipes
  BY <1>4 DEF ReadChunk
<1>5. ASSUME NEW x, NEW p, CallTool(x, p) \/ BeginLine(p) \/ EndLine(p) \/ Die(p) PROVE torn' \subseteq Pipes
  BY <1>5 DEF CallTool, BeginLine, EndLine, Die
<1>6. CASE UNCHANGED pipeVars
  BY <1>6 DEF pipeVars
<1>. QED BY <1>2, <1>3, <1>4, <1>5, <1>6 DEF PipesNext

-----------------------------------------------------------------------------
(* Servers *)

Tasks == [pc : {"next", "closing", "connecting"}, remove : SUBSET Servers, add : SUBSET Servers,
          again : SUBSET Servers, server : {None} \cup Servers, client : {None} \cup Nat]
Holds(r) == reload[r].pc \in {"closing", "connecting"}

ServersTyped ==
  /\ config \in {None} \cup SUBSET Servers /\ made \in Nat /\ overlap \in BOOLEAN /\ halted \in BOOLEAN
  /\ clients \in [Servers -> {None} \cup Nat] /\ serverTools \in [Servers -> SUBSET MCPTools]
  /\ registry \in [MCPTools -> {None} \cup Nat] /\ running \subseteq Nat
  /\ reload \in [Reloaders -> {NoReload} \cup Tasks]
\* One reload at a time, and the client in its hand is no longer, or not yet,
\* that of its server.
ReloadInv ==
  /\ \A r, x \in Reloaders : reload[r] # NoReload /\ reload[x] # NoReload => r = x
  /\ \A r \in Reloaders : Holds(r) =>
       /\ reload[r].server \in Servers /\ clients[reload[r].server] = None
       /\ reload[r].client \in 0..made
       /\ \A s \in Servers : clients[s] # reload[r].client
       /\ reload[r].pc = "connecting" => reload[r].client \in running
ClientInv ==
  /\ \A k \in running : k <= made
  /\ \A s \in Servers : clients[s] # None => clients[s] <= made /\ clients[s] \in running
  /\ \A s, z \in Servers : clients[s] = clients[z] /\ clients[s] # None => s = z
  /\ \A k \in running : \/ \E s \in Servers : clients[s] = k
                        \/ \E r \in Reloaders : Holds(r) /\ reload[r].client = k
\* The tools noted for a server are those registered for its client, or for
\* the one it is about to lose.
ToolInv ==
  /\ \A t \in MCPTools : registry[t] # None => \E s \in Servers : t \in serverTools[s]
  /\ \A s \in Servers : \A t \in serverTools[s] :
       /\ registry[t] # None
       /\ \/ registry[t] = clients[s]
          \/ \E r \in Reloaders : /\ reload[r].pc = "closing"
                                  /\ reload[r].server = s /\ reload[r].client = registry[t]
  /\ \A s, z \in Servers : serverTools[s] \cap serverTools[z] # {} => s = z
ServersInv ==
  /\ ServersTyped
  /\ halted => \A r \in Reloaders : reload[r] = NoReload
  /\ ~overlap => /\ ReloadInv /\ ClientInv
                 /\ halted => running = {}
                 /\ ~halted => ToolInv

LEMMA ServersInvSound == ServersInv => ToolsAreServed
<1> SUFFICES ASSUME ServersInv, ~overlap PROVE ToolsAreServed
  BY DEF ToolsAreServed
<1>1. ASSUME ~halted, NEW t \in MCPTools, registry[t] # None
      PROVE  \/ registry[t] \in InHand("closing")
             \/ \E s \in Servers : clients[s] = registry[t] /\ t \in serverTools[s] /\ clients[s] \in running
  <2>1. PICK s \in Servers : t \in serverTools[s]
    BY <1>1 DEF ServersInv, ToolInv
  <2>2. \/ registry[t] = clients[s]
        \/ \E r \in Reloaders : /\ reload[r].pc = "closing"
                                /\ reload[r].server = s /\ reload[r].client = registry[t]
    BY <1>1, <2>1 DEF ServersInv, ToolInv
  <2>3. CASE registry[t] = clients[s]
    BY <1>1, <2>1, <2>3 DEF ServersInv, ClientInv
  <2>4. CASE \E r \in Reloaders : /\ reload[r].pc = "closing"
                                  /\ reload[r].server = s /\ reload[r].client = registry[t]
    BY <2>4 DEF InHand
  <2>. QED BY <2>2, <2>3, <2>4
<1>2. ASSUME NEW k \in running
      PROVE  k \in Range(clients) \cup InHand("closing") \cup InHand("connecting")
  <2>1. \/ \E s \in Servers : clients[s] = k
        \/ \E r \in Reloaders : Holds(r) /\ reload[r].client = k
    BY DEF ServersInv, ClientInv
  <2>2. DOMAIN clients = Servers
    BY DEF ServersInv, ServersTyped
  <2>. QED BY <2>1, <2>2 DEF Range, InHand, Holds
<1>3. halted => running = {}
  BY DEF ServersInv
<1>. QED BY <1>1, <1>2, <1>3 DEF ToolsAreServed

LEMMA TaskType ==
  ASSUME NEW w \in Tasks
  PROVE  /\ w.server \in {None} \cup Servers /\ w.client \in {None} \cup Nat
         /\ w.pc \in {"next", "closing", "connecting"} /\ w # NoReload
         /\ w.remove \in SUBSET Servers /\ w.add \in SUBSET Servers /\ w.again \in SUBSET Servers
BY DEF Tasks, NoReload

LEMMA TaskEnds == \A w \in Tasks : Rest(w) \in Tasks /\ Rest(w).pc = "next"
BY DEF Rest, Tasks

LEMMA TaskBegins ==
  ASSUME NEW w \in Tasks, NEW s \in Servers, NEW k \in {None} \cup Nat
  PROVE  LET v == [w EXCEPT !.server = s, !.client = k]
         IN  v \in Tasks /\ v.server = s /\ v.client = k /\ v.pc = w.pc
BY DEF Tasks

LEMMA TaskCloses ==
  ASSUME NEW w \in Tasks
  PROVE  LET v == [w EXCEPT !.pc = "closing"]
         IN  v \in Tasks /\ v.server = w.server /\ v.client = w.client /\ v.pc = "closing"
BY DEF Tasks

LEMMA TaskConnects ==
  ASSUME NEW w \in Tasks, NEW k \in Nat
  PROVE  LET v == [w EXCEPT !.pc = "connecting", !.client = k]
         IN  v \in Tasks /\ v.server = w.server /\ v.client = k /\ v.pc = "connecting"
BY DEF Tasks

LEMMA GoesOn ==
  ASSUME ServersTyped, NEW r \in Reloaders, NEW w \in Tasks, Goes(r, w)
  PROVE  /\ reload' \in [Reloaders -> {NoReload} \cup Tasks]
         /\ reload'[r] \in {NoReload, w} /\ (w.pc # "next" => reload'[r] = w)
         /\ \A x \in Reloaders \ {r} : reload'[x] = reload[x]
         /\ w.pc = "next" => reload'[r].pc \in {"next", "idle"}
<1>1. PICK v \in {NoReload, w} : reload' = [reload EXCEPT ![r] = v] /\ (w.pc # "next" => v = w)
  BY DEF Goes
<1>. QED BY <1>1 DEF ServersTyped, NoReload

\* A server is done with, or gets its next client: nobody else's tools go.
LEMMA ReplaceKeeps ==
  ASSUME ServersInv, ~halted, NEW r \in Reloaders, NEW w \in Tasks, NEW s, w.server = s,
         reload[r] # NoReload, clients' = clients,
         ~overlap => /\ s \in Servers /\ clients[s] = None
                     /\ \A z \in Servers : clients[z] # None => clients[z] # w.client
                     /\ Holds(r) => /\ reload[r].pc = "closing" /\ reload[r].server = s
                                    /\ reload[r].client = w.client,
         TakeTools(s), Replace(r, w), UNCHANGED <<config, overlap, halted>>
  PROVE  ServersInv'
<1>0. ServersTyped /\ None \notin Nat
  BY MCPServersAssumption DEF ServersInv
<1>1. \/ /\ reload' \in [Reloaders -> {NoReload} \cup Tasks]
         /\ reload'[r].pc \in {"next", "idle"}
         /\ running' = running \ {w.client} /\ made' = made
      \/ /\ reload' \in [Reloaders -> {NoReload} \cup Tasks]
         /\ reload'[r].pc = "connecting" /\ reload'[r].server = s /\ reload'[r].client = made'
         /\ made' = made + 1 /\ running' = (running \ {w.client}) \cup {made'}
  <2>1. CASE s \in w.remove
    <3>1. Rest(w) \in Tasks /\ Rest(w).pc = "next"
      BY TaskEnds
    <3>2. Goes(r, Rest(w)) /\ running' = running \ {w.client} /\ made' = made
      BY <2>1 DEF Replace
    <3>. QED BY <1>0, <3>1, <3>2, GoesOn
  <2>2. CASE s \notin w.remove
    <3> DEFINE v == [w EXCEPT !.pc = "connecting", !.client = made']
    <3>1. /\ made' = made + 1 /\ running' = (running \ {w.client}) \cup {made'} /\ Goes(r, v)
      BY <2>2 DEF Replace
    <3>2. made' \in Nat
      BY <1>0, <3>1 DEF ServersTyped
    <3>3. v \in Tasks /\ v.server = s /\ v.client = made' /\ v.pc = "connecting"
      BY <3>2, TaskConnects
    <3> HIDE DEF v
    <3>4. reload' \in [Reloaders -> {NoReload} \cup Tasks] /\ reload'[r] = v
      BY <1>0, <3>1, <3>3, GoesOn
    <3>. QED BY <3>1, <3>3, <3>4
  <2>. QED BY <2>1, <2>2
<1>2. \A x \in Reloaders \ {r} : reload'[x] = reload[x]
  <2>1. \E v : reload' = [reload EXCEPT ![r] = v]
    BY DEF Replace, Goes
  <2>. QED BY <1>0, <2>1 DEF ServersTyped
<1>3. /\ \A t \in MCPTools : registry'[t] = IF t \in serverTools[s] THEN None ELSE registry[t]
      /\ registry' \in [MCPTools -> {None} \cup Nat]
      /\ serverTools' \in [Servers -> SUBSET MCPTools]
      /\ \A z \in Servers : serverTools'[z] = IF z = s THEN {} ELSE serverTools[z]
  BY <1>0 DEF TakeTools, ServersTyped
<1>4. made' \in Nat /\ running' \subseteq Nat /\ made <= made'
  <2>1. made' \in {made, made + 1} /\ running' \subseteq running \cup {made'}
    BY <1>1
  <2>. QED BY <1>0, <2>1 DEF ServersTyped
<1>5. ServersTyped'
  BY <1>0, <1>1, <1>3, <1>4 DEF ServersTyped
<1>6. ASSUME ~overlap
      PROVE  ReloadInv' /\ ClientInv' /\ ToolInv'
  <2>1. ReloadInv /\ ClientInv /\ ToolInv
    BY <1>6 DEF ServersInv
  <2>0. /\ s \in Servers /\ clients[s] = None /\ clients' = clients
        /\ \A z \in Servers : clients[z] # None => clients[z] # w.client
        /\ Holds(r) => /\ reload[r].pc = "closing" /\ reload[r].server = s
                       /\ reload[r].client = w.client
    BY <1>6
  <2>2. \A x \in Reloaders \ {r} : reload'[x] = NoReload /\ reload[x] = NoReload
    BY <1>2, <2>1 DEF ReloadInv
  <2>3. \A x \in Reloaders : Holds(x) => x = r
    BY <2>2 DEF Holds, NoReload
  <2>4. \A x \in Reloaders : Holds(x)' => x = r
    BY <2>2 DEF Holds, NoReload
  <2>5. ReloadInv'
    <3>1. ASSUME Holds(r)'
          PROVE  /\ reload'[r].server \in Servers /\ clients'[reload'[r].server] = None
                 /\ reload'[r].client \in 0..made'
                 /\ \A z \in Servers : clients'[z] # reload'[r].client
                 /\ reload'[r].client \in running'
      <4>1. /\ reload'[r].server = s /\ reload'[r].client = made'
            /\ made' = made + 1 /\ made' \in running'
        BY <1>1, <3>1 DEF Holds
      <4>2. \A z \in Servers : clients[z] # made'
        BY <1>0, <1>4, <2>0, <2>1, <4>1 DEF ClientInv, ServersTyped
      <4>. QED BY <1>0, <1>4, <2>0, <4>1, <4>2 DEF ServersTyped
    <3>. QED BY <2>2, <2>4, <3>1 DEF ReloadInv
  <2>6. ClientInv'
    <3>1. \A k \in running' : k <= made'
      BY <1>0, <1>1, <1>4, <2>0, <2>1 DEF ClientInv, ServersTyped
    <3>2. \A z \in Servers : clients'[z] # None => clients'[z] <= made' /\ clients'[z] \in running'
      BY <1>0, <1>1, <1>4, <2>0, <2>1 DEF ClientInv, ServersTyped
    <3>3. ASSUME NEW k \in running'
          PROVE  \/ \E z \in Servers : clients'[z] = k
                 \/ \E x \in Reloaders : Holds(x)' /\ reload'[x].client = k
      <4>1. CASE k \in running /\ k # w.client
        <5>1. ~(\E x \in Reloaders : Holds(x) /\ reload[x].client = k)
          BY <2>0, <2>3, <4>1
        <5>. QED BY <2>0, <2>1, <4>1, <5>1 DEF ClientInv
      <4>2. CASE ~(k \in running /\ k # w.client)
        <5>1. Holds(r)' /\ reload'[r].client = k
          BY <1>1, <3>3, <4>2 DEF Holds
        <5>. QED BY <5>1
      <4>. QED BY <4>1, <4>2
    <3>. QED BY <2>0, <2>1, <3>1, <3>2, <3>3 DEF ClientInv
  <2>7. ToolInv'
    <3>1. ASSUME NEW t \in MCPTools, registry'[t] # None
          PROVE  \E z \in Servers : t \in serverTools'[z]
      BY <1>3, <2>0, <2>1, <3>1 DEF ToolInv
    <3>2. ASSUME NEW z \in Servers, NEW t \in serverTools'[z]
          PROVE  registry'[t] # None /\ registry'[t] = clients'[z]
      <4>1. z # s /\ t \in serverTools[z] /\ t \in MCPTools
        BY <1>3, <2>0, <3>2
      <4>2. t \notin serverTools[s]
        BY <2>0, <2>1, <4>1 DEF ToolInv
      <4>3. registry'[t] = registry[t]
        BY <1>3, <2>0, <4>1, <4>2
      <4>4. ~ \E x \in Reloaders : reload[x].pc = "closing" /\ reload[x].server = z
        BY <2>0, <2>3, <4>1 DEF Holds
      <4>. QED BY <2>0, <2>1, <4>1, <4>3, <4>4 DEF ToolInv
    <3>3. \A y, z \in Servers : serverTools'[y] \cap serverTools'[z] # {} => y = z
      <4> SUFFICES ASSUME NEW y \in Servers, NEW z \in Servers,
                          serverTools'[y] \cap serverTools'[z] # {}
                   PROVE  y = z
        OBVIOUS
      <4>1. y # s /\ z # s
        BY <1>3, <2>0
      <4>. QED BY <1>3, <2>0, <2>1, <4>1 DEF ToolInv
    <3>. QED BY <3>1, <3>2, <3>3 DEF ToolInv
  <2>. QED BY <2>5, <2>6, <2>7
<1>. QED BY <1>5, <1>6 DEF ServersInv

LEMMA ActiveRuns ==
  ASSUME ServersInv, NEW r \in Reloaders, reload[r] # NoReload
  PROVE  /\ reload[r] \in Tasks /\ ~halted
         /\ ~overlap => \A x \in Reloaders \ {r} : reload[x] = NoReload
BY DEF ServersInv, ServersTyped, ReloadInv

LEMMA BeginServerKeeps ==
  ASSUME ServersInv, NEW r \in Reloaders, NEW s \in Servers, BeginServer(r, s)
  PROVE  ServersInv'
<1> DEFINE w == [reload[r] EXCEPT !.server = s, !.client = clients[s]]
           v == [w EXCEPT !.pc = "closing"]
<1>0. ServersTyped /\ None \notin Nat
  BY MCPServersAssumption DEF ServersInv
<1>1. reload[r].pc = "next" /\ reload[r] # NoReload
  BY DEF BeginServer, NoReload
<1>2. reload[r] \in Tasks /\ ~halted
  BY <1>1, ActiveRuns
<1>3. clients[s] \in {None} \cup Nat
  BY <1>0 DEF ServersTyped
<1>4. w \in Tasks /\ w.server = s /\ w.client = clients[s] /\ w.pc = "next"
  <2>1. \A y \in Tasks, k \in {None} \cup Nat :
          LET x == [y EXCEPT !.server = s, !.client = k]
          IN  x \in Tasks /\ x.server = s /\ x.client = k /\ x.pc = y.pc
    BY TaskBegins
  <2>. QED BY ONLY <2>1, <1>1, <1>2, <1>3 DEF w
<1>5. /\ clients' = [clients EXCEPT ![s] = None] /\ UNCHANGED <<config, overlap, halted, lastSeen>>
      /\ IF clients[s] = None THEN TakeTools(s) /\ Replace(r, w)
         ELSE Goes(r, v) /\ UNCHANGED <<serverTools, registry, running, made>>
  BY DEF BeginServer
<1> HIDE DEF w
<1>6. CASE clients[s] = None
  <2>1. clients' = clients
    BY <1>0, <1>5, <1>6 DEF ServersTyped
  <2>. QED BY <1>1, <1>2, <1>4, <1>5, <1>6, <2>1, ReplaceKeeps DEF Holds
<1>7. CASE clients[s] # None
  <2>1. v \in Tasks /\ v.server = s /\ v.client = clients[s] /\ v.pc = "closing"
    BY <1>4, TaskCloses
  <2> HIDE DEF v
  <2>2. Goes(r, v) /\ UNCHANGED <<config, overlap, halted, serverTools, registry, running, made>>
    BY <1>5, <1>7
  <2>3. /\ reload' \in [Reloaders -> {NoReload} \cup Tasks] /\ reload'[r] = v
        /\ \A x \in Reloaders \ {r} : reload'[x] = reload[x]
    BY <1>0, <2>1, <2>2, GoesOn
  <2>4. /\ clients' \in [Servers -> {None} \cup Nat] /\ clients'[s] = None
        /\ \A z \in Servers \ {s} : clients'[z] = clients[z]
    BY <1>0, <1>5 DEF ServersTyped
  <2>5. ServersTyped'
    BY <1>0, <2>2, <2>3, <2>4 DEF ServersTyped
  <2>6. ASSUME ~overlap
        PROVE  ReloadInv' /\ ClientInv' /\ ToolInv'
    <3>1. ReloadInv /\ ClientInv /\ ToolInv
      BY <1>2, <2>6 DEF ServersInv
    <3>2. \A x \in Reloaders \ {r} : reload'[x] = NoReload /\ reload[x] = NoReload
      BY <1>1, <2>3, <2>6, ActiveRuns
    <3>3. \A x \in Reloaders : ~Holds(x)
      BY <1>1, <3>2 DEF Holds, NoReload
    <3>4. \A x \in Reloaders : Holds(x)' <=> x = r
      BY <2>1, <2>3, <3>2 DEF Holds, NoReload
    <3>5. ReloadInv'
      <4>1. clients[s] \in 0..made
        BY <1>0, <1>3, <1>7, <3>1 DEF ClientInv, ServersTyped
      <4>2. \A z \in Servers : clients'[z] # clients[s]
        BY <1>7, <2>4, <3>1 DEF ClientInv
      <4>. QED BY <2>1, <2>2, <2>3, <2>4, <3>2, <3>4, <4>1, <4>2 DEF ReloadInv
    <3>6. ClientInv'
      <4>1. ASSUME NEW k \in running
            PROVE  \/ \E z \in Servers : clients'[z] = k
                   \/ \E x \in Reloaders : Holds(x)' /\ reload'[x].client = k
        <5>1. PICK z \in Servers : clients[z] = k
          BY <3>1, <3>3 DEF ClientInv
        <5>2. CASE z = s
          BY <2>1, <2>3, <3>4, <5>1, <5>2
        <5>3. CASE z # s
          BY <2>4, <5>1, <5>3
        <5>. QED BY <5>2, <5>3
      <4>2. \A z \in Servers : clients'[z] # None => clients'[z] = clients[z]
        BY <2>4
      <4>. QED BY <2>2, <3>1, <4>1, <4>2 DEF ClientInv
    <3>7. ToolInv'
      <4>1. ASSUME NEW z \in Servers, NEW t \in serverTools[z]
            PROVE  /\ registry[t] # None
                   /\ \/ registry[t] = clients'[z]
                      \/ \E x \in Reloaders : /\ reload'[x].pc = "closing"
                                              /\ reload'[x].server = z /\ reload'[x].client = registry[t]
        <5>1. registry[t] # None /\ registry[t] = clients[z]
          BY <3>1, <3>3 DEF ToolInv, Holds
        <5>2. CASE z = s
          BY <2>1, <2>3, <5>1, <5>2
        <5>3. CASE z # s
          BY <2>4, <5>1, <5>3
        <5>. QED BY <5>1, <5>2, <5>3
      <4>. QED BY <2>2, <3>1, <4>1 DEF ToolInv
    <3>. QED BY <3>5, <3>6, <3>7
  <2>. QED BY <1>2, <2>2, <2>5, <2>6 DEF ServersInv
<1>. QED BY <1>6, <1>7

LEMMA CloseServerKeeps ==
  ASSUME ServersInv, NEW r \in Reloaders, CloseServer(r)
  PROVE  ServersInv'
<1> DEFINE w == reload[r]
           s == w.server
<1>1. w.pc = "closing" /\ w # NoReload /\ TakeTools(s) /\ Replace(r, w)
      /\ UNCHANGED <<config, clients, overlap, halted>>
  BY DEF CloseServer, NoReload
<1>2. w \in Tasks /\ ~halted
  BY <1>1, ActiveRuns
<1>3. ~overlap => /\ s \in Servers /\ clients[s] = None
                  /\ \A z \in Servers : clients[z] # w.client
  BY <1>1 DEF ServersInv, ReloadInv, Holds
<1> HIDE DEF s
<1>. QED BY <1>1, <1>2, <1>3, ReplaceKeeps DEF s

LEMMA ToolsKnown == \A s \in Servers : ToolsOf[s] \subseteq MCPTools
BY MCPServersAssumption DEF MCPTools, Range

LEMMA ConnectServerKeeps ==
  ASSUME ServersInv, NEW r \in Reloaders, ConnectServer(r)
  PROVE  ServersInv'
<1> DEFINE w == reload[r]
           s == w.server
           k == w.client
<1>0. ServersTyped /\ None \notin Nat
  BY MCPServersAssumption DEF ServersInv
<1>1. /\ w.pc = "connecting" /\ w # NoReload /\ Goes(r, Rest(w))
      /\ clients' = [clients EXCEPT ![s] = k]
      /\ serverTools' = [serverTools EXCEPT ![s] = TakenBy(registry, s)]
      /\ registry' = WithTools(registry, s, k)
      /\ UNCHANGED <<config, running, made, overlap, halted>>
  BY DEF ConnectServer, NoReload
<1>2. w \in Tasks /\ ~halted
  BY <1>1, ActiveRuns
<1>3. s \in {None} \cup Servers /\ k \in {None} \cup Nat
  BY <1>2, TaskType
<1>4. /\ reload' \in [Reloaders -> {NoReload} \cup Tasks] /\ reload'[r].pc \in {"next", "idle"}
      /\ \A x \in Reloaders \ {r} : reload'[x] = reload[x]
  BY <1>0, <1>1, <1>2, TaskEnds, GoesOn
<1> HIDE DEF s, k
<1>5. /\ clients' \in [Servers -> {None} \cup Nat]
      /\ \A z \in Servers : clients'[z] = IF z = s THEN k ELSE clients[z]
  BY <1>0, <1>1, <1>3 DEF ServersTyped
<1>6. /\ \A t \in MCPTools : registry'[t] = IF t \in TakenBy(registry, s) THEN k ELSE registry[t]
      /\ registry' \in [MCPTools -> {None} \cup Nat]
  BY <1>0, <1>1, <1>3 DEF ServersTyped, WithTools
<1>7. /\ \A z \in Servers : serverTools'[z] = IF z = s THEN TakenBy(registry, s) ELSE serverTools[z]
      /\ serverTools' \in [Servers -> SUBSET MCPTools]
  <2>1. s \in Servers => TakenBy(registry, s) \subseteq MCPTools
    BY ToolsKnown DEF TakenBy
  <2>. QED BY <1>0, <1>1, <2>1 DEF ServersTyped
<1>8. ServersTyped'
  BY <1>0, <1>1, <1>4, <1>5, <1>6, <1>7 DEF ServersTyped
<1>9. ASSUME ~overlap
      PROVE  ReloadInv' /\ ClientInv' /\ ToolInv'
  <2>1. ReloadInv /\ ClientInv /\ ToolInv
    BY <1>2, <1>9 DEF ServersInv
  <2>2. /\ s \in Servers /\ clients[s] = None /\ k \in 0..made /\ k \in running
        /\ \A z \in Servers : clients[z] # k
    BY <1>1, <2>1 DEF ReloadInv, Holds, s, k
  <2>3. \A x \in Reloaders \ {r} : reload'[x] = NoReload /\ reload[x] = NoReload
    BY <1>1, <1>4, <1>9, ActiveRuns
  <2>4. \A x \in Reloaders : /\ ~Holds(x)'
                             /\ reload[x].pc # "closing"
                             /\ Holds(x) => x = r
    BY <1>1, <1>4, <2>3 DEF Holds, NoReload
  <2>5. ReloadInv'
    BY <2>3, <2>4 DEF ReloadInv
  <2>6. ClientInv'
    <3>1. ASSUME NEW y \in running
          PROVE  \E z \in Servers : clients'[z] = y
      <4>1. CASE \E z \in Servers : clients[z] = y
        <5>1. PICK z \in Servers : clients[z] = y
          BY <4>1
        <5>2. y # None
          BY <1>0 DEF ServersTyped
        <5>. QED BY <1>5, <2>2, <5>1, <5>2
      <4>2. CASE \E x \in Reloaders : Holds(x) /\ reload[x].client = y
        <5>1. y = k
          BY <2>4, <4>2 DEF k
        <5>. QED BY <1>5, <2>2, <5>1
      <4>. QED BY <2>1, <4>1, <4>2 DEF ClientInv
    <3>2. \A z \in Servers : clients'[z] # None => clients'[z] <= made' /\ clients'[z] \in running'
      BY <1>0, <1>1, <1>5, <2>1, <2>2 DEF ClientInv, ServersTyped
    <3>3. \A y, z \in Servers : clients'[y] = clients'[z] /\ clients'[y] # None => y = z
      BY <1>5, <2>1, <2>2 DEF ClientInv
    <3>. QED BY <1>1, <2>1, <3>1, <3>2, <3>3 DEF ClientInv
  <2>7. ToolInv'
    <3>1. serverTools[s] = {}
      BY <2>1, <2>2, <2>4 DEF ToolInv
    <3>2. ASSUME NEW t \in MCPTools, registry'[t] # None
          PROVE  \E z \in Servers : t \in serverTools'[z]
      <4>1. CASE t \in TakenBy(registry, s)
        BY <1>7, <2>2, <4>1
      <4>2. CASE t \notin TakenBy(registry, s)
        <5>1. PICK z \in Servers : t \in serverTools[z]
          BY <1>6, <2>1, <3>2, <4>2 DEF ToolInv
        <5>. QED BY <1>7, <3>1, <5>1
      <4>. QED BY <4>1, <4>2
    <3>3. ASSUME NEW z \in Servers, NEW t \in serverTools'[z]
          PROVE  registry'[t] # None /\ registry'[t] = clients'[z]
      <4>0. t \in MCPTools
        BY <1>7
      <4>1. CASE z = s
        <5>1. t \in TakenBy(registry, s)
          BY <1>7, <4>1
        <5>2. k # None
          BY <1>0, <2>2
        <5>. QED BY <1>5, <1>6, <4>0, <4>1, <5>1, <5>2
      <4>2. CASE z # s
        <5>1. t \in serverTools[z]
          BY <1>7, <4>2
        <5>2. registry[t] # None /\ registry[t] = clients[z]
          BY <2>1, <2>4, <5>1 DEF ToolInv
        <5>3. t \notin TakenBy(registry, s)
          BY <5>2 DEF TakenBy
        <5>. QED BY <1>5, <1>6, <4>0, <4>2, <5>2, <5>3
      <4>. QED BY <4>1, <4>2
    <3>4. ASSUME NEW y \in Servers, NEW z \in Servers, NEW t \in serverTools'[y] \cap serverTools'[z]
          PROVE  y = z
      <4>1. registry'[t] # None /\ clients'[y] = registry'[t] /\ clients'[z] = registry'[t]
        BY <3>3
      <4>. QED BY <1>5, <2>1, <2>2, <4>1 DEF ClientInv
    <3>5. \A y, z \in Servers : serverTools'[y] \cap serverTools'[z] # {} => y = z
      BY <3>4
    <3>. QED BY <3>2, <3>3, <3>5 DEF ToolInv
  <2>. QED BY <2>5, <2>6, <2>7
<1>. QED BY <1>1, <1>2, <1>8, <1>9 DEF ServersInv

LEMMA ConnectFailsKeeps ==
  ASSUME ServersInv, NEW r \in Reloaders, ConnectFails(r)
  PROVE  ServersInv'
<1> DEFINE w == reload[r]
           k == w.client
<1>0. ServersTyped /\ None \notin Nat
  BY MCPServersAssumption DEF ServersInv
<1>1. /\ w.pc = "connecting" /\ w # NoReload /\ Goes(r, Rest(w)) /\ running' = running \ {k}
      /\ UNCHANGED <<config, clients, serverTools, registry, made, overlap, halted>>
  BY DEF ConnectFails, NoReload
<1>2. w \in Tasks /\ ~halted
  BY <1>1, ActiveRuns
<1>4. /\ reload' \in [Reloaders -> {NoReload} \cup Tasks] /\ reload'[r].pc \in {"next", "idle"}
      /\ \A x \in Reloaders \ {r} : reload'[x] = reload[x]
  BY <1>0, <1>1, <1>2, TaskEnds, GoesOn
<1> HIDE DEF k
<1>8. ServersTyped'
  BY <1>0, <1>1, <1>4 DEF ServersTyped
<1>9. ASSUME ~overlap
      PROVE  ReloadInv' /\ ClientInv' /\ ToolInv'
  <2>1. ReloadInv /\ ClientInv /\ ToolInv
    BY <1>2, <1>9 DEF ServersInv
  <2>2. \A z \in Servers : clients[z] # k
    BY <1>1, <2>1 DEF ReloadInv, Holds, k
  <2>3. \A x \in Reloaders \ {r} : reload'[x] = NoReload /\ reload[x] = NoReload
    BY <1>1, <1>4, <1>9, ActiveRuns
  <2>4. \A x \in Reloaders : /\ ~Holds(x)'
                             /\ reload[x].pc # "closing"
                             /\ Holds(x) => x = r
    BY <1>1, <1>4, <2>3 DEF Holds, NoReload
  <2>5. ReloadInv'
    BY <2>3, <2>4 DEF ReloadInv
  <2>6. ClientInv'
    <3>1. ASSUME NEW y \in running'
          PROVE  \E z \in Servers : clients[z] = y
      <4>1. y \in running /\ y # k
        BY <1>1
      <4>. QED BY <2>1, <2>4, <4>1 DEF ClientInv, k
    <3>. QED BY <1>1, <2>1, <2>2, <3>1 DEF ClientInv
  <2>7. ToolInv'
    BY <1>1, <2>1, <2>4 DEF ToolInv
  <2>. QED BY <2>5, <2>6, <2>7
<1>. QED BY <1>1, <1>2, <1>8, <1>9 DEF ServersInv

LEMMA CheckConfigKeeps ==
  ASSUME ServersInv, NEW r \in Reloaders, CheckConfig(r)
  PROVE  ServersInv'
<1> DEFINE w == [pc |-> "next", remove |-> Connected \ config, add |-> config \ Connected,
                 again |-> config \cap Connected, server |-> None, client |-> None]
<1>0. ServersTyped
  BY DEF ServersInv
<1>1. /\ ~halted /\ reload[r] = NoReload
      /\ UNCHANGED <<config, clients, serverTools, registry, running, made, halted>>
      /\ \/ UNCHANGED <<reload, overlap>>
         \/ /\ config # None /\ Goes(r, w)
            /\ overlap' = (overlap \/ \E x \in Reloaders \ {r} : reload[x] # NoReload)
  BY DEF CheckConfig
<1>2. CASE UNCHANGED <<reload, overlap>>
  BY <1>1, <1>2 DEF ServersInv, ServersTyped, ReloadInv, ClientInv, ToolInv, Holds
<1>3. CASE /\ config # None /\ Goes(r, w)
           /\ overlap' = (overlap \/ \E x \in Reloaders \ {r} : reload[x] # NoReload)
  <2>1. w \in Tasks /\ w.pc = "next"
    BY <1>0, <1>3 DEF ServersTyped, Tasks, Connected
  <2> HIDE DEF w
  <2>2. /\ reload' \in [Reloaders -> {NoReload} \cup Tasks] /\ reload'[r].pc \in {"next", "idle"}
        /\ \A x \in Reloaders \ {r} : reload'[x] = reload[x]
    BY <1>0, <1>3, <2>1, GoesOn
  <2>3. ServersTyped'
    BY <1>0, <1>1, <1>3, <2>2 DEF ServersTyped
  <2>4. ASSUME ~overlap'
        PROVE  ReloadInv' /\ ClientInv' /\ ToolInv'
    <3>1. ~overlap /\ ReloadInv /\ ClientInv /\ ToolInv
      BY <1>1, <1>3, <2>4 DEF ServersInv
    <3>2. \A x \in Reloaders \ {r} : reload'[x] = NoReload
      BY <1>3, <2>2, <2>4
    <3>3. \A x \in Reloaders : ~Holds(x)' /\ ~Holds(x)
      BY <1>1, <1>3, <2>2, <2>4, <3>2 DEF Holds, NoReload
    <3>4. ReloadInv'
      BY <3>2, <3>3 DEF ReloadInv
    <3>5. ClientInv'
      BY <1>1, <3>1, <3>3 DEF ClientInv
    <3>6. ToolInv'
      BY <1>1, <3>1, <3>3 DEF ToolInv, Holds
    <3>. QED BY <3>4, <3>5, <3>6
  <2>. QED BY <1>1, <2>3, <2>4 DEF ServersInv
<1>. QED BY <1>1, <1>2, <1>3

LEMMA StopMCPKeeps == ServersInv /\ StopMCP => ServersInv'
<1> SUFFICES ASSUME ServersInv, StopMCP PROVE ServersInv'
  OBVIOUS
<1>0. ServersTyped
  BY DEF ServersInv
<1>1. /\ halted' = TRUE /\ UNCHANGED <<config, registry, made>>
      /\ overlap' = (overlap \/ \E r \in Reloaders : reload[r] # NoReload)
      /\ reload' = [r \in Reloaders |-> NoReload]
      /\ running' \subseteq running \ Range(clients)
      /\ clients' = [s \in Servers |-> None] /\ serverTools' = [s \in Servers |-> {}]
  BY DEF StopMCP
<1>2. overlap' \in BOOLEAN
  BY <1>0, <1>1 DEF ServersTyped
<1>3. ServersTyped'
  BY <1>0, <1>1, <1>2 DEF ServersTyped
<1>4. ASSUME ~overlap'
      PROVE  ReloadInv' /\ ClientInv' /\ running' = {}
  <2>1. ~overlap /\ \A r \in Reloaders : reload[r] = NoReload
    BY <1>1, <1>4
  <2>2. \A r \in Reloaders : ~Holds(r) /\ ~Holds(r)'
    BY <1>1, <2>1 DEF Holds, NoReload
  <2>3. running' = {}
    <3>1. ASSUME NEW k \in running PROVE k \in Range(clients)
      <4>1. PICK s \in Servers : clients[s] = k
        BY <2>1, <2>2 DEF ServersInv, ClientInv
      <4>. QED BY <1>0, <4>1 DEF ServersTyped, Range
    <3>. QED BY <1>1, <3>1
  <2>4. ReloadInv'
    BY <1>1, <2>2 DEF ReloadInv
  <2>5. ClientInv'
    BY <1>1, <2>3 DEF ClientInv
  <2>. QED BY <2>3, <2>4, <2>5
<1>. QED BY <1>1, <1>3, <1>4 DEF ServersInv

LEMMA ServersInvStep == ServersInv /\ [MCPNext]_mcpVars => ServersInv'
<1> SUFFICES ASSUME ServersInv, [MCPNext]_mcpVars PROVE ServersInv'
  OBVIOUS
<1>1. ASSUME NEW some \in {None} \cup SUBSET Servers, EditConfig(some) PROVE ServersInv'
  BY <1>1 DEF EditConfig, ServersInv, ServersTyped, ReloadInv, ClientInv, ToolInv, Holds
<1>2. ASSUME NEW r \in Reloaders, CheckConfig(r) \/ CloseServer(r) \/ ConnectServer(r) \/ ConnectFails(r)
      PROVE  ServersInv'
  BY <1>2, CheckConfigKeeps, CloseServerKeeps, ConnectServerKeeps, ConnectFailsKeeps
<1>3. ASSUME NEW r \in Reloaders, NEW s \in Servers, BeginServer(r, s) PROVE ServersInv'
  BY <1>3, BeginServerKeeps
<1>4. CASE StopMCP
  BY <1>4, StopMCPKeeps
<1>5. CASE UNCHANGED mcpVars
  BY <1>5 DEF mcpVars, ServersInv, ServersTyped, ReloadInv, ClientInv, ToolInv, Holds
<1>. QED BY <1>1, <1>2, <1>3, <1>4, <1>5 DEF MCPNext

\* The order of the file: every server has one place in it.
Place(order, s) == CHOOSE n \in 1..Len(order) : order[n] = s
LEMMA PlacesDiffer ==
  ASSUME NEW order \in SetToSeqs(Servers)
  PROVE  /\ \A s \in Servers : /\ Place(order, s) \in 1..Len(order) /\ order[Place(order, s)] = s
                               /\ Place(order, s) \in Nat /\ Place(order, s) <= Cardinality(Servers)
         /\ \A n \in 1..Len(order) : order[n] \in Servers
         /\ Cardinality(Servers) \in Nat
<1> DEFINE n == Cardinality(Servers)
<1>1. IsFiniteSet(Servers) /\ n \in Nat
  BY MCPServersAssumption, FS_CardinalityType
<1>2. order \in [1..n -> Servers] /\ \A i, j \in 1..n : i # j => order[i] # order[j]
  BY DEF SetToSeqs
<1> HIDE DEF n
<1>3. Len(order) = n
  BY <1>1, <1>2
<1>4. order \in Injection(1..n, Servers)
  BY <1>2 DEF Injection, IsInjective
<1>5. Cardinality(1..n) = n
  BY <1>1, FS_Interval
<1>6. order \in Surjection(1..n, Servers)
  BY <1>1, <1>4, <1>5, FS_Injection DEF n
<1>7. ASSUME NEW s \in Servers
      PROVE  /\ Place(order, s) \in 1..Len(order) /\ order[Place(order, s)] = s
             /\ Place(order, s) \in Nat /\ Place(order, s) <= n
  <2>1. \E i \in 1..n : order[i] = s
    BY <1>6 DEF Surjection
  <2>2. Place(order, s) \in 1..Len(order) /\ order[Place(order, s)] = s
    BY <1>3, <2>1 DEF Place
  <2>. QED BY <1>1, <1>3, <2>2
<1>. QED BY <1>1, <1>2, <1>3, <1>7 DEF n

LEMMA ServersInvInit == MCPInit => ServersInv
<1> SUFFICES ASSUME MCPInit PROVE ServersInv
  OBVIOUS
<1> DEFINE Before(order, s) == {order[i] : i \in 1..Place(order, s)} \ {s}
           First(up, order, t) == {s \in up : t \in ToolsOf[s] /\ \A r \in Before(order, s) \cap up : t \notin ToolsOf[r]}
<1>1. PICK up \in SUBSET Servers, order \in SetToSeqs(Servers) :
        /\ config = Servers /\ version = 1 /\ lastSeen = None
        /\ clients = [s \in Servers |-> IF s \in up THEN Place(order, s) ELSE None]
        /\ serverTools = [s \in Servers |-> {t \in ToolsOf[s] : s \in First(up, order, t)}]
        /\ registry = [t \in MCPTools |-> IF First(up, order, t) = {} THEN None
                                          ELSE Place(order, CHOOSE s \in First(up, order, t) : TRUE)]
        /\ running = {Place(order, s) : s \in up}
        /\ reload = [r \in Reloaders |-> NoReload]
        /\ made = Cardinality(Servers) /\ overlap = FALSE /\ halted = FALSE
  BY DEF MCPInit, Place
<1>2. /\ \A s \in Servers : /\ Place(order, s) \in 1..Len(order) /\ order[Place(order, s)] = s
                            /\ Place(order, s) \in Nat /\ Place(order, s) <= Cardinality(Servers)
      /\ \A n \in 1..Len(order) : order[n] \in Servers
      /\ Cardinality(Servers) \in Nat
  BY PlacesDiffer
<1>3. \A s, z \in Servers : Place(order, s) = Place(order, z) => s = z
  BY <1>2
<1>4. ASSUME NEW t, NEW s \in First(up, order, t), NEW z \in First(up, order, t)
      PROVE  s = z
  <2>1. s \in Servers /\ z \in Servers /\ s \in up /\ z \in up /\ t \in ToolsOf[s] /\ t \in ToolsOf[z]
    BY DEF First
  <2>2. z \notin Before(order, s) /\ s \notin Before(order, z)
    BY <2>1 DEF First
  <2>3. Place(order, s) <= Place(order, z) \/ Place(order, z) <= Place(order, s)
    BY <1>2, <2>1
  <2>4. CASE Place(order, s) <= Place(order, z)
    <3>1. Place(order, s) \in 1..Place(order, z) /\ order[Place(order, s)] = s
      BY <1>2, <2>1, <2>4
    <3>. QED BY <2>2, <3>1
  <2>5. CASE Place(order, z) <= Place(order, s)
    <3>1. Place(order, z) \in 1..Place(order, s) /\ order[Place(order, z)] = z
      BY <1>2, <2>1, <2>5
    <3>. QED BY <2>2, <3>1
  <2>. QED BY <2>3, <2>4, <2>5
<1>5. \A t : First(up, order, t) \subseteq up /\ \A s \in First(up, order, t) : t \in ToolsOf[s]
  OBVIOUS
<1> HIDE DEF First
<1>6. ASSUME NEW t, NEW s \in First(up, order, t)
      PROVE  (CHOOSE z \in First(up, order, t) : TRUE) = s
  BY <1>4
<1>7. \A s \in Servers : clients[s] = IF s \in up THEN Place(order, s) ELSE None
  BY <1>1
<1>8. ServersTyped
  <2>1. clients \in [Servers -> {None} \cup Nat] /\ running \subseteq Nat
    BY <1>1, <1>2
  <2>2. serverTools \in [Servers -> SUBSET MCPTools]
    BY <1>1, ToolsKnown
  <2>3. ASSUME NEW t \in MCPTools PROVE registry[t] \in {None} \cup Nat
    <3>1. CASE First(up, order, t) = {}
      BY <1>1, <3>1
    <3>2. CASE First(up, order, t) # {}
      <4>1. PICK s \in First(up, order, t) : TRUE
        BY <3>2
      <4>2. registry[t] = Place(order, s)
        BY <1>1, <1>6, <3>2, <4>1
      <4>. QED BY <1>2, <1>5, <4>2
    <3>. QED BY <3>1, <3>2
  <2>4. registry \in [MCPTools -> {None} \cup Nat]
    BY <1>1, <2>3
  <2>5. reload \in [Reloaders -> {NoReload} \cup Tasks] /\ made \in Nat
    BY <1>1, <1>2
  <2>. QED BY <1>1, <2>1, <2>2, <2>4, <2>5 DEF ServersTyped
<1>9. None \notin Nat
  BY MCPServersAssumption
<1>10. \A r \in Reloaders : reload[r] = NoReload /\ ~Holds(r)
  BY <1>1 DEF Holds, NoReload
<1>11. ReloadInv
  BY <1>10 DEF ReloadInv
<1>12. ClientInv
  <2>1. \A k \in running : k <= made /\ \E s \in Servers : clients[s] = k
    BY <1>1, <1>2, <1>7
  <2>2. \A s \in Servers : clients[s] # None => clients[s] <= made /\ clients[s] \in running
    BY <1>1, <1>2, <1>7
  <2>3. \A s, z \in Servers : clients[s] = clients[z] /\ clients[s] # None => s = z
    BY <1>3, <1>7
  <2>. QED BY <2>1, <2>2, <2>3 DEF ClientInv
<1>13. ToolInv
  <2>1. ASSUME NEW t \in MCPTools, registry[t] # None PROVE \E s \in Servers : t \in serverTools[s]
    <3>1. PICK s \in First(up, order, t) : TRUE
      BY <1>1, <2>1
    <3>. QED BY <1>1, <1>5, <3>1
  <2>2. ASSUME NEW s \in Servers, NEW t \in serverTools[s]
        PROVE  registry[t] # None /\ registry[t] = clients[s] /\ s \in First(up, order, t)
    <3>1. s \in First(up, order, t) /\ s \in up /\ t \in ToolsOf[s]
      BY <1>1, <1>5
    <3>2. t \in MCPTools
      BY <3>1, ToolsKnown
    <3>3. registry[t] = Place(order, s)
      BY <1>1, <1>6, <3>1, <3>2
    <3>. QED BY <1>2, <1>7, <1>9, <3>1, <3>3
  <2>3. \A s, z \in Servers : serverTools[s] \cap serverTools[z] # {} => s = z
    BY <1>4, <2>2
  <2>. QED BY <2>1, <2>2, <2>3 DEF ToolInv
<1>. QED BY <1>1, <1>8, <1>10, <1>11, <1>12, <1>13 DEF ServersInv

\* Every client there is a word of is one of those made.
Numbers == {None} \cup 1..made
Numbered(tasks, S) == \A r \in Reloaders : tasks[r] # NoReload => tasks[r].client \in S
ServersRest ==
  /\ version \in 1..MaxConfigs /\ lastSeen \in {None} \cup 1..MaxConfigs
  /\ made <= MaxClients /\ running \subseteq 1..made
  /\ \A s \in Servers : clients[s] \in Numbers
  /\ \A t \in MCPTools : registry[t] \in Numbers
  /\ Numbered(reload, Numbers)

LEMMA ServersAreTyped == ServersInv /\ ServersRest => MCPTypeOK
<1> SUFFICES ASSUME ServersInv, ServersRest PROVE MCPTypeOK
  OBVIOUS
<1>1. made \in Nat /\ MaxClients \in Nat
  BY MCPServersAssumption DEF ServersInv, ServersTyped
<1>2. 1..made \subseteq 1..MaxClients /\ Numbers \subseteq {None} \cup 1..MaxClients
  BY <1>1 DEF ServersRest, Numbers
<1>3. \A r \in Reloaders : reload[r] = NoReload \/ reload[r].pc \in {"next", "closing", "connecting"}
  BY DEF ServersInv, ServersTyped, Tasks
<1>. QED BY <1>2, <1>3 DEF ServersInv, ServersTyped, ServersRest, MCPTypeOK

LEMMA ServersRestInit == MCPInit => ServersRest
<1> SUFFICES ASSUME MCPInit PROVE ServersRest
  OBVIOUS
<1> DEFINE Before(order, s) == {order[i] : i \in 1..Place(order, s)} \ {s}
           First(up, order, t) == {s \in up : t \in ToolsOf[s] /\ \A r \in Before(order, s) \cap up : t \notin ToolsOf[r]}
<1>1. PICK up \in SUBSET Servers, order \in SetToSeqs(Servers) :
        /\ version = 1 /\ lastSeen = None
        /\ clients = [s \in Servers |-> IF s \in up THEN Place(order, s) ELSE None]
        /\ registry = [t \in MCPTools |-> IF First(up, order, t) = {} THEN None
                                          ELSE Place(order, CHOOSE s \in First(up, order, t) : TRUE)]
        /\ running = {Place(order, s) : s \in up}
        /\ reload = [r \in Reloaders |-> NoReload] /\ made = Cardinality(Servers)
  BY DEF MCPInit, Place
<1>2. made \in Nat /\ \A s \in Servers : Place(order, s) \in 1..made
  <2>1. \A s \in Servers : /\ Place(order, s) \in 1..Len(order)
                           /\ Place(order, s) \in Nat /\ Place(order, s) <= Cardinality(Servers)
    BY PlacesDiffer
  <2>2. Cardinality(Servers) \in Nat
    BY PlacesDiffer
  <2>3. \A s \in Servers : Place(order, s) >= 1
    BY <2>1
  <2>. QED BY <1>1, <2>1, <2>2, <2>3
<1>3. \A t : First(up, order, t) \subseteq Servers
  OBVIOUS
<1> HIDE DEF First
<1>4. \A t \in MCPTools : registry[t] \in Numbers
  <2> SUFFICES ASSUME NEW t \in MCPTools PROVE registry[t] \in Numbers
    OBVIOUS
  <2>1. CASE First(up, order, t) = {}
    BY <1>1, <2>1 DEF Numbers
  <2>2. CASE First(up, order, t) # {}
    <3>1. (CHOOSE s \in First(up, order, t) : TRUE) \in Servers
      BY <1>3, <2>2
    <3>. QED BY <1>1, <1>2, <2>2, <3>1 DEF Numbers
  <2>. QED BY <2>1, <2>2
<1>5. version \in 1..MaxConfigs /\ made <= MaxClients
  BY <1>1, MCPServersAssumption
<1>. QED BY <1>1, <1>2, <1>4, <1>5 DEF ServersRest, Numbers, Numbered

LEMMA GoesNumbered ==
  ASSUME ServersInv, NEW S, Numbered(reload, S), NEW r \in Reloaders, NEW w, Goes(r, w), w.client \in S
  PROVE  Numbered(reload', S)
<1>1. reload \in [Reloaders -> {NoReload} \cup Tasks]
  BY DEF ServersInv, ServersTyped
<1>2. \A x \in Reloaders : reload'[x] = reload[x] \/ reload'[x] = NoReload \/ reload'[x] = w
  BY <1>1 DEF Goes
<1>. QED BY <1>2 DEF Numbered

\* What replaces the client of a server is numbered next.
LEMMA ReplaceNumbers ==
  ASSUME ServersInv, ServersRest, NEW r \in Reloaders, NEW w \in Tasks, Replace(r, w)
  PROVE  /\ made' \in Nat /\ made <= made' /\ made' <= MaxClients
         /\ running' \subseteq 1..made' /\ Numbered(reload', Numbers')
<1>1. made \in Nat /\ running \subseteq 1..made /\ made <= MaxClients /\ MaxClients \in Nat
  BY MCPServersAssumption DEF ServersInv, ServersTyped, ServersRest
<1>2. CASE w.server \in w.remove
  <2>1. Goes(r, Rest(w)) /\ running' \subseteq running /\ made' = made
    BY <1>2 DEF Replace
  <2>2. Rest(w).client = None
    BY DEF Rest, Tasks
  <2>3. Numbered(reload, Numbers) /\ None \in Numbers /\ Numbers' = Numbers
    BY <2>1 DEF ServersRest, Numbers
  <2>4. Numbered(reload', Numbers)
    BY <2>1, <2>2, <2>3, GoesNumbered
  <2>. QED BY <1>1, <2>1, <2>3, <2>4
<1>3. CASE w.server \notin w.remove
  <2> DEFINE v == [w EXCEPT !.pc = "connecting", !.client = made']
  <2>1. made < MaxClients /\ made' = made + 1 /\ running' = (running \ {w.client}) \cup {made'} /\ Goes(r, v)
    BY <1>3 DEF Replace
  <2>2. v.client = made'
    BY DEF Tasks
  <2>3. Numbers \subseteq Numbers' /\ made' \in Numbers'
    BY <1>1, <2>1 DEF Numbers
  <2>4. Numbered(reload, Numbers')
    BY <2>3 DEF ServersRest, Numbered
  <2> HIDE DEF v
  <2>5. Numbered(reload', Numbers')
    BY <2>1, <2>2, <2>3, <2>4, GoesNumbered
  <2>6. made' \in Nat /\ made <= made' /\ made' <= MaxClients
    BY <1>1, <2>1
  <2>7. 1..made \subseteq 1..made' /\ made' \in 1..made'
    BY <1>1, <2>1
  <2>8. running' \subseteq 1..made'
    BY <1>1, <2>1, <2>7
  <2>. QED BY <2>5, <2>6, <2>8
<1>. QED BY <1>2, <1>3

LEMMA ServersRestStep ==
  ASSUME ServersInv, ServersRest, [MCPNext]_mcpVars PROVE ServersRest'
<1>0. /\ made \in Nat /\ reload \in [Reloaders -> {NoReload} \cup Tasks]
      /\ clients \in [Servers -> {None} \cup Nat] /\ registry \in [MCPTools -> {None} \cup Nat]
      /\ version \in 1..MaxConfigs /\ MaxConfigs \in Nat /\ running \subseteq 1..made
      /\ \A s \in Servers : clients[s] \in Numbers
      /\ \A t \in MCPTools : registry[t] \in Numbers
      /\ made <= MaxClients /\ lastSeen \in {None} \cup 1..MaxConfigs /\ None \in Numbers
  BY MCPServersAssumption DEF ServersInv, ServersTyped, ServersRest, Numbers
<1>r. Numbered(reload, Numbers)
  BY DEF ServersRest
<1>1. ASSUME NEW some, EditConfig(some) PROVE ServersRest'
  <2>1. version' \in 1..MaxConfigs
    BY <1>0, <1>1 DEF EditConfig
  <2>. QED BY <1>1, <2>1 DEF EditConfig, ServersRest, Numbers, Numbered
<1>2. ASSUME NEW r \in Reloaders, CheckConfig(r) PROVE ServersRest'
  <2> DEFINE w == [pc |-> "next", remove |-> Connected \ config, add |-> config \ Connected,
                   again |-> config \cap Connected, server |-> None, client |-> None]
  <2>1. reload' = reload \/ Goes(r, w)
    BY <1>2 DEF CheckConfig
  <2>2. w.client \in Numbers
    BY <1>0
  <2> HIDE DEF w
  <2>3. Numbered(reload', Numbers)
    BY <1>r, <2>1, <2>2, GoesNumbered
  <2>4. lastSeen' \in {None} \cup 1..MaxConfigs /\ UNCHANGED <<version, made, running, clients, registry>>
    BY <1>0, <1>2 DEF CheckConfig
  <2>5. Numbers' = Numbers
    BY <2>4 DEF Numbers
  <2>. QED BY <1>0, <2>3, <2>4, <2>5 DEF ServersRest
<1>3. ASSUME NEW S, NEW s, TakeTools(s), \A t \in MCPTools : registry[t] \in S, None \in S
      PROVE  \A t \in MCPTools : registry'[t] \in S
  BY <1>3 DEF TakeTools
<1>4. ASSUME NEW r \in Reloaders, NEW s \in Servers, BeginServer(r, s) PROVE ServersRest'
  <2> DEFINE w == [reload[r] EXCEPT !.server = s, !.client = clients[s]]
  <2>1. reload[r] \in Tasks
    BY <1>0, <1>4 DEF BeginServer, NoReload
  <2>2. w \in Tasks /\ w.client = clients[s]
    BY <1>0, <2>1 DEF Tasks
  <2>3. \A z \in Servers : clients'[z] \in Numbers
    BY <1>0, <1>4 DEF BeginServer
  <2>4. UNCHANGED <<version, lastSeen>>
    BY <1>4 DEF BeginServer
  <2>5. CASE clients[s] = None
    <3>1. TakeTools(s) /\ Replace(r, w)
      BY <1>4, <2>5 DEF BeginServer
    <3> HIDE DEF w
    <3>2. /\ made' \in Nat /\ made <= made' /\ made' <= MaxClients
          /\ running' \subseteq 1..made' /\ Numbered(reload', Numbers')
      BY <2>2, <3>1, ReplaceNumbers
    <3>3. Numbers \subseteq Numbers'
      BY <1>0, <3>2 DEF Numbers
    <3>4. \A t \in MCPTools : registry'[t] \in Numbers
      BY <1>0, <1>3, <3>1
    <3>. QED BY <1>0, <2>3, <2>4, <3>2, <3>3, <3>4 DEF ServersRest
  <2>6. CASE clients[s] # None
    <3>1. Goes(r, [w EXCEPT !.pc = "closing"]) /\ UNCHANGED <<registry, running, made>>
      BY <1>4, <2>6 DEF BeginServer
    <3>2. [w EXCEPT !.pc = "closing"].client = clients[s]
      BY <2>1 DEF Tasks
    <3> HIDE DEF w
    <3>3. Numbered(reload', Numbers)
      BY <1>0, <1>r, <3>1, <3>2, GoesNumbered
    <3>4. Numbers' = Numbers
      BY <3>1 DEF Numbers
    <3>. QED BY <1>0, <2>3, <2>4, <3>1, <3>3, <3>4 DEF ServersRest
  <2>. QED BY <2>5, <2>6
<1>5. ASSUME NEW r \in Reloaders, CloseServer(r) PROVE ServersRest'
  <2>1. reload[r] \in Tasks
    BY <1>0, <1>5 DEF CloseServer, NoReload
  <2>2. TakeTools(reload[r].server) /\ Replace(r, reload[r]) /\ UNCHANGED <<version, lastSeen, clients>>
    BY <1>5 DEF CloseServer
  <2>3. /\ made' \in Nat /\ made <= made' /\ made' <= MaxClients
        /\ running' \subseteq 1..made' /\ Numbered(reload', Numbers')
    BY <2>1, <2>2, ReplaceNumbers
  <2>4. Numbers \subseteq Numbers'
    BY <1>0, <2>3 DEF Numbers
  <2>5. \A t \in MCPTools : registry'[t] \in Numbers
    BY <1>0, <1>3, <2>2
  <2>. QED BY <1>0, <2>2, <2>3, <2>4, <2>5 DEF ServersRest
<1>6. ASSUME NEW r \in Reloaders, ConnectServer(r) \/ ConnectFails(r) PROVE ServersRest'
  <2>1. reload[r] \in Tasks /\ reload[r].client \in Numbers
    BY <1>0, <1>6, <1>r DEF ConnectServer, ConnectFails, NoReload, Numbered
  <2>2. Goes(r, Rest(reload[r])) /\ UNCHANGED <<version, lastSeen, made>> /\ running' \subseteq running
    BY <1>6 DEF ConnectServer, ConnectFails
  <2>3. Rest(reload[r]).client = None
    BY <2>1 DEF Rest, Tasks
  <2>4. Numbered(reload', Numbers)
    BY <1>0, <1>r, <2>2, <2>3, GoesNumbered
  <2>5. \A s \in Servers : clients'[s] \in Numbers
    BY <1>0, <1>6, <2>1 DEF ConnectServer, ConnectFails
  <2>6. \A t \in MCPTools : registry'[t] \in Numbers
    BY <1>0, <1>6, <2>1 DEF ConnectServer, ConnectFails, WithTools
  <2>7. Numbers' = Numbers
    BY <2>2 DEF Numbers
  <2>. QED BY <1>0, <2>2, <2>4, <2>5, <2>6, <2>7 DEF ServersRest
<1>7. CASE StopMCP
  <2>1. /\ reload' = [r \in Reloaders |-> NoReload] /\ running' \subseteq running
        /\ clients' = [s \in Servers |-> None] /\ UNCHANGED <<version, lastSeen, registry, made>>
    BY <1>7 DEF StopMCP
  <2>2. Numbered(reload', Numbers)
    BY <2>1 DEF Numbered
  <2>3. Numbers' = Numbers
    BY <2>1 DEF Numbers
  <2>. QED BY <1>0, <2>1, <2>2, <2>3 DEF ServersRest
<1>8. CASE UNCHANGED mcpVars
  BY <1>8 DEF mcpVars, ServersRest, Numbers, Numbered
<1>. QED BY <1>1, <1>2, <1>4, <1>5, <1>6, <1>7, <1>8 DEF MCPNext

-----------------------------------------------------------------------------
(* Watchers *)

\* A time on disk never comes back, so what a watcher noted of a file that is
\* there is no later than the file; a time noted is that of what was loaded,
\* or what is registered under the name is as current as it gets.
WatchTyped ==
  /\ disk \in [Sources -> [at : Nat, valid : BOOLEAN]] /\ clock \in Nat /\ primedAt \in Nat
  /\ loadedAt \in [Sources -> Nat] /\ look \in [Scans -> {None} \cup [Sources -> Nat]]
  /\ lastLook \in {None} \cup [Sources -> Nat]
  /\ entries \in [Names -> {None} \cup [file : Sources, at : Nat]]
  /\ pluginName \in [PluginDirs -> {None} \cup Names]
  /\ \A p \in PluginDirs : pluginName[p] \in {None, NameOf[p]}
NotAhead(seen) ==
  \A p \in Sources : seen[p] <= clock /\ (disk[p].at > 0 => seen[p] <= disk[p].at)
TimesInv ==
  /\ primedAt <= clock
  /\ \A p \in Sources : disk[p].at <= clock /\ (disk[p].valid => disk[p].at > 0)
  /\ NotAhead(loadedAt)
  /\ \A r \in Scans : look[r] # None => NotAhead(look[r])
  /\ lastLook # None => NotAhead(lastLook) /\ \A p \in Sources : lastLook[p] <= loadedAt[p]
AsOnDisk(p) == disk[p].valid /\ loadedAt[p] = disk[p].at
EntriesInv ==
  /\ \A p \in Sources : AsOnDisk(p) /\ NameOf[p] \notin misnamed => entries[NameOf[p]] # None
  /\ \A n \in Names : entries[n] # None =>
       LET e == entries[n] IN
       /\ NameOf[e.file] = n
       /\ AsOnDisk(e.file) => e.at = disk[e.file].at \/ disk[e.file].at <= primedAt
WatchInv == WatchTyped /\ TimesInv /\ EntriesInv

LEMMA SourcesNamed ==
  /\ \A p \in Sources : NameOf[p] \in Names /\ p \in Nat
  /\ None \notin [Sources -> Nat] /\ None \notin [file : Sources, at : Nat]
  /\ Documents \cap PluginDirs = {} /\ Sources = Documents \cup PluginDirs
  /\ \A p \in PluginDirs, q \in Sources : NameOf[p] = NameOf[q] => p = q
<1>1. DOMAIN NameOf = Sources
  BY HotReloadAssumption DEF Sources
<1>2. \A p \in Sources : NameOf[p] \in Names
  BY <1>1 DEF Names, Range
<1>3. Cardinality(Sources) \in Nat
  BY HotReloadAssumption, FS_CardinalityType DEF Sources
<1>4. \A p \in Sources : p \in Nat
  BY <1>3, HotReloadAssumption DEF Sources
<1>5. None \notin [Sources -> Nat] /\ None \notin [file : Sources, at : Nat]
  BY HotReloadAssumption DEF Sources
<1>6. \A p \in PluginDirs, q \in Sources : NameOf[p] = NameOf[q] => p = q
  BY HotReloadAssumption DEF Sources
<1>7. Documents \cap PluginDirs = {} /\ Sources = Documents \cup PluginDirs
  BY HotReloadAssumption DEF Sources
<1>. QED BY <1>2, <1>4, <1>5, <1>6, <1>7

LEMMA MaxIn ==
  ASSUME NEW m \in Nat, NEW S \in SUBSET (1..m), S # {}
  PROVE  Max(S) \in S
<1> DEFINE P == {u \in Nat : \A x \in S : x <= u}
<1>1. m \in P
  OBVIOUS
<1>2. PICK u \in P : \A v \in P : u <= v
  BY <1>1, LeastExists
<1>3. u \in S
  <2> SUFFICES ASSUME u \notin S PROVE FALSE
    OBVIOUS
  <2>0. u \in Nat /\ \A x \in S : x <= u
    BY <1>2
  <2>1. \A x \in S : x \in Nat /\ x >= 1 /\ x < u
    <3>1. \A x \in S : x \in Nat /\ x >= 1
      OBVIOUS
    <3>2. \A x \in S : x # u
      OBVIOUS
    <3>. QED BY <2>0, <3>1, <3>2
  <2>2. u \in Nat /\ u > 1
    <3>1. PICK x \in S : TRUE
      OBVIOUS
    <3>. QED BY <2>0, <2>1, <3>1
  <2>3. u - 1 \in Nat /\ \A x \in S : x <= u - 1
    BY <2>1, <2>2
  <2>. QED BY <1>2, <2>2, <2>3
<1>4. \A x \in S : u >= x
  BY <1>2
<1>. QED BY <1>3, <1>4 DEF Max

LEMMA WinnerDeclares ==
  ASSUME NEW ps \in SUBSET Sources, NEW n, NEW p \in ps, NameOf[p] = n
  PROVE  Winner(n, ps) \in ps /\ NameOf[Winner(n, ps)] = n
<1> DEFINE S == {q \in ps : NameOf[q] = n}
<1>1. Cardinality(Sources) \in Nat /\ S \in SUBSET (1..Cardinality(Sources)) /\ S # {}
  BY HotReloadAssumption, FS_CardinalityType DEF Sources
<1>2. Max(S) \in S
  BY <1>1, MaxIn
<1>. QED BY <1>2 DEF Winner

\* What a load leaves under a name: a file that declares it, as it is now, or
\* what was there.
LEMMA LoadReplaces ==
  ASSUME \A p \in Sources : disk[p].at \in Nat, NEW reg \in [Names -> {None} \cup [file : Sources, at : Nat]],
         NEW ps \in SUBSET Sources
  PROVE  /\ WithLoaded(reg, ps) \in [Names -> {None} \cup [file : Sources, at : Nat]]
         /\ \A n \in Names :
              LET e == WithLoaded(reg, ps)[n] IN
              \/ /\ \E p \in ps : NameOf[p] = n
                 /\ e # None /\ e.file \in ps /\ NameOf[e.file] = n /\ e.at = disk[e.file].at
              \/ (\A p \in ps : NameOf[p] # n) /\ e = reg[n]
<1>1. ASSUME NEW n \in Names, NEW p \in ps, NameOf[p] = n
      PROVE  LET e == WithLoaded(reg, ps)[n] IN
             /\ e \in [file : Sources, at : Nat] /\ e # None
             /\ e.file \in ps /\ NameOf[e.file] = n /\ e.at = disk[e.file].at
  <2>1. Winner(n, ps) \in ps /\ NameOf[Winner(n, ps)] = n
    BY <1>1, WinnerDeclares
  <2>2. WithLoaded(reg, ps)[n] = Loaded(Winner(n, ps))
    BY <1>1 DEF WithLoaded
  <2>3. disk[Winner(n, ps)].at \in Nat
    BY <2>1
  <2>. QED BY <2>1, <2>2, <2>3, SourcesNamed DEF Loaded
<1>2. ASSUME NEW n \in Names, \A p \in ps : NameOf[p] # n
      PROVE  WithLoaded(reg, ps)[n] = reg[n]
  BY <1>2 DEF WithLoaded
<1>3. \A n \in Names : WithLoaded(reg, ps)[n] \in {None} \cup [file : Sources, at : Nat]
  BY <1>1, <1>2
<1>4. WithLoaded(reg, ps) \in [Names -> {None} \cup [file : Sources, at : Nat]]
  BY <1>3 DEF WithLoaded
<1>. QED BY <1>1, <1>2, <1>4

LEMMA WatchInvSound == WatchInv => RegistryFollowsFiles
<1> SUFFICES ASSUME WatchInv, Settled, NEW p \in Readable(Present), NameOf[p] \notin misnamed
             PROVE  LET e == entries[NameOf[p]] IN
                    /\ e # None /\ NameOf[e.file] = NameOf[p]
                    /\ e.at = disk[e.file].at \/ ~disk[e.file].valid \/ disk[e.file].at <= primedAt
  BY DEF RegistryFollowsFiles
<1>1. p \in Sources /\ disk[p].valid /\ NameOf[p] \in Names
  BY SourcesNamed DEF Readable, Present
<1>2. ASSUME NEW q \in Sources, disk[q].valid PROVE AsOnDisk(q)
  <2>0. Times \in [Sources -> Nat]
    BY DEF WatchInv, WatchTyped, Times
  <2>1. lastLook = Times /\ lastLook # None
    BY <2>0, SourcesNamed DEF Settled
  <2>2. disk[q].at > 0 /\ lastLook[q] = disk[q].at
    BY <1>2, <2>1 DEF WatchInv, TimesInv, Times
  <2>3. disk[q].at <= loadedAt[q] /\ loadedAt[q] <= disk[q].at
    BY <2>1, <2>2 DEF WatchInv, TimesInv, NotAhead
  <2>4. disk[q].at \in Nat /\ loadedAt[q] \in Nat
    BY DEF WatchInv, WatchTyped
  <2>. QED BY <1>2, <2>3, <2>4 DEF AsOnDisk
<1>3. entries[NameOf[p]] # None /\ NameOf[entries[NameOf[p]].file] = NameOf[p]
  BY <1>1, <1>2 DEF WatchInv, EntriesInv
<1>4. entries[NameOf[p]].file \in Sources
  BY <1>1, <1>3 DEF WatchInv, WatchTyped
<1>. QED BY <1>1, <1>2, <1>3, <1>4 DEF WatchInv, EntriesInv

LEMMA WatchInvInit == ReloadInit => WatchInv
<1> SUFFICES ASSUME ReloadInit PROVE WatchInv
  OBVIOUS
<1> DEFINE none == [n \in Names |-> None]
<1>1. /\ disk \in [Sources -> {Absent, [at |-> 1, valid |-> TRUE]}]
      /\ entries = WithLoaded(none, Readable(Present))
      /\ loadedAt = [p \in Sources |-> 0] /\ pluginName = [p \in PluginDirs |-> None]
      /\ look = [r \in Scans |-> None] /\ lastLook = None /\ clock = 1 /\ primedAt = 0
  BY DEF ReloadInit
<1>2. /\ disk \in [Sources -> [at : Nat, valid : BOOLEAN]]
      /\ \A p \in Sources : disk[p].at <= clock /\ (disk[p].valid => disk[p].at > 0)
  <2>1. {Absent, [at |-> 1, valid |-> TRUE]} \subseteq [at : Nat, valid : BOOLEAN]
    BY DEF Absent
  <2>2. \A d \in {Absent, [at |-> 1, valid |-> TRUE]} : d.at <= 1 /\ (d.valid => d.at > 0)
    BY DEF Absent
  <2>. QED BY <1>1, <2>1, <2>2
<1>3. Readable(Present) \in SUBSET Sources /\ none \in [Names -> {None} \cup [file : Sources, at : Nat]]
  BY DEF Readable, Present
<1> HIDE DEF none
<1>4. \A n \in Names : none[n] = None
  BY DEF none
<1>5. \A p \in PluginDirs : pluginName[p] \in {None, NameOf[p]}
  BY <1>1
<1>6. pluginName \in [PluginDirs -> {None} \cup Names]
  BY <1>1
<1>7. /\ entries \in [Names -> {None} \cup [file : Sources, at : Nat]]
      /\ \A n \in Names : entries[n] # None => NameOf[entries[n].file] = n /\ entries[n].at = disk[entries[n].file].at
  <2>1. \A p \in Sources : disk[p].at \in Nat
    BY <1>2
  <2>2. /\ entries \in [Names -> {None} \cup [file : Sources, at : Nat]]
        /\ \A n \in Names :
             LET e == entries[n] IN
             \/ /\ \E p \in Readable(Present) : NameOf[p] = n
                /\ e # None /\ e.file \in Readable(Present) /\ NameOf[e.file] = n
                /\ e.at = disk[e.file].at
             \/ (\A p \in Readable(Present) : NameOf[p] # n) /\ e = none[n]
    BY <1>1, <1>3, <2>1, LoadReplaces
  <2>. QED BY <1>4, <2>2
<1>8. WatchTyped
  BY <1>1, <1>2, <1>5, <1>6, <1>7 DEF WatchTyped
<1>9. TimesInv
  BY <1>1, <1>2 DEF TimesInv, NotAhead
<1>10. \A p \in Sources : ~AsOnDisk(p)
  BY <1>1, <1>2 DEF AsOnDisk
<1>11. EntriesInv
  BY <1>7, <1>10 DEF EntriesInv
<1>. QED BY <1>8, <1>9, <1>11 DEF WatchInv

LEMMA WriteSourceKeeps ==
  ASSUME WatchInv, NEW p \in Sources, NEW d \in [at : Nat, valid : BOOLEAN],
         clock' = clock + 1, disk' = [disk EXCEPT ![p] = d],
         d.at \in {0, clock'}, d.valid => d.at = clock',
         UNCHANGED <<entries, loadedAt, knownFiles, pluginName, look, lastLook, primedAt, misnamed>>
  PROVE  WatchInv'
<1>1. WatchTyped /\ TimesInv /\ EntriesInv
  BY DEF WatchInv
<1>2. /\ disk' \in [Sources -> [at : Nat, valid : BOOLEAN]] /\ clock' \in Nat
      /\ disk'[p] = d /\ \A q \in Sources \ {p} : disk'[q] = disk[q]
  BY <1>1 DEF WatchTyped
<1>3. WatchTyped'
  BY <1>1, <1>2 DEF WatchTyped
<1>4. ASSUME NEW seen \in [Sources -> Nat], NotAhead(seen)
      PROVE  \A q \in Sources : seen[q] <= clock' /\ (disk'[q].at > 0 => seen[q] <= disk'[q].at)
  <2> SUFFICES ASSUME NEW q \in Sources
               PROVE  seen[q] <= clock' /\ (disk'[q].at > 0 => seen[q] <= disk'[q].at)
    OBVIOUS
  <2>1. seen[q] \in Nat /\ clock \in Nat /\ seen[q] <= clock /\ (disk[q].at > 0 => seen[q] <= disk[q].at)
    BY <1>1, <1>4 DEF NotAhead, WatchTyped
  <2>2. CASE q = p
    BY <1>2, <2>1, <2>2
  <2>3. CASE q # p
    BY <1>2, <2>1, <2>3
  <2>. QED BY <2>2, <2>3
<1>5. TimesInv'
  <2>1. NotAhead(loadedAt)'
    BY <1>1, <1>4 DEF WatchTyped, TimesInv, NotAhead
  <2>2. \A r \in Scans : look'[r] # None => NotAhead(look[r])'
    BY <1>1, <1>4 DEF WatchTyped, TimesInv, NotAhead
  <2>3. lastLook' # None => NotAhead(lastLook)'
    BY <1>1, <1>4 DEF WatchTyped, TimesInv, NotAhead
  <2>4. ASSUME NEW q \in Sources PROVE disk'[q].at <= clock' /\ (disk'[q].valid => disk'[q].at > 0)
    <3>1. disk[q].at \in Nat /\ clock \in Nat /\ disk[q].at <= clock
      BY <1>1 DEF WatchTyped, TimesInv
    <3>2. CASE q = p
      BY <1>2, <3>1, <3>2
    <3>3. CASE q # p
      BY <1>1, <1>2, <3>1, <3>3 DEF TimesInv
    <3>. QED BY <3>2, <3>3
  <2>5. primedAt' <= clock'
    BY <1>1 DEF WatchTyped, TimesInv
  <2>. QED BY <1>1, <2>1, <2>2, <2>3, <2>4, <2>5 DEF TimesInv
<1>6. \A q \in Sources : AsOnDisk(q)' => AsOnDisk(q) /\ q # p
  <2>1. loadedAt[p] \in Nat /\ loadedAt[p] <= clock /\ clock \in Nat
    BY <1>1 DEF WatchTyped, TimesInv, NotAhead
  <2>2. ~AsOnDisk(p)'
    BY <1>2, <2>1 DEF AsOnDisk
  <2>. QED BY <1>2, <2>2 DEF AsOnDisk
<1>7. \A n \in Names : entries[n] # None => entries[n].file \in Sources
  BY <1>1 DEF WatchTyped
<1>8. EntriesInv'
  BY <1>1, <1>2, <1>6, <1>7 DEF EntriesInv
<1>. QED BY <1>3, <1>5, <1>8 DEF WatchInv

LEMMA PrimeKeeps ==
  ASSUME WatchInv, NEW byId \in BOOLEAN, Prime(byId)
  PROVE  WatchInv'
<1>1. WatchTyped /\ TimesInv /\ EntriesInv
  BY DEF WatchInv
<1>2. /\ primedAt' = clock
      /\ loadedAt' = [p \in Sources |-> IF p \in Primed(byId) THEN disk[p].at ELSE loadedAt[p]]
      /\ UNCHANGED <<disk, entries, pluginName, look, lastLook, clock, misnamed>>
  BY DEF Prime
<1>3. \A p \in Primed(byId) : p \in Sources /\ disk[p].at > 0 /\ entries[NameOf[p]] # None
  BY DEF Primed, Present
<1>4. loadedAt' \in [Sources -> Nat]
  BY <1>1, <1>2 DEF WatchTyped
<1>5. WatchTyped'
  BY <1>1, <1>2, <1>4 DEF WatchTyped
<1>6. \A p \in Sources : loadedAt'[p] = IF p \in Primed(byId) THEN disk[p].at ELSE loadedAt[p]
  BY <1>2
<1>7. TimesInv'
  <2>1. NotAhead(loadedAt)'
    BY <1>1, <1>2, <1>6 DEF WatchTyped, TimesInv, NotAhead
  <2>2. lastLook # None => \A p \in Sources : lastLook[p] <= loadedAt'[p]
    BY <1>1, <1>3, <1>6 DEF WatchTyped, TimesInv, NotAhead
  <2>. QED BY <1>1, <1>2, <2>1, <2>2 DEF WatchTyped, TimesInv, NotAhead
<1>8. \A p \in Sources : AsOnDisk(p)' => AsOnDisk(p) \/ entries[NameOf[p]] # None
  BY <1>2, <1>3, <1>6 DEF AsOnDisk
<1>9. \A n \in Names : entries[n] # None => disk[entries[n].file].at <= primedAt'
  BY <1>1, <1>2 DEF WatchTyped, TimesInv
<1>10. EntriesInv'
  BY <1>1, <1>2, <1>8, <1>9 DEF EntriesInv
<1>. QED BY <1>5, <1>7, <1>10 DEF WatchInv

LEMMA LookKeeps ==
  ASSUME WatchInv, NEW r \in Scans, Look(r)
  PROVE  WatchInv'
<1>1. WatchTyped /\ TimesInv /\ EntriesInv
  BY DEF WatchInv
<1>2. /\ look' = [look EXCEPT ![r] = Times]
      /\ UNCHANGED <<disk, entries, loadedAt, pluginName, lastLook, clock, primedAt, misnamed>>
  BY DEF Look
<1>3. Times \in [Sources -> Nat] /\ NotAhead(Times)
  BY <1>1 DEF WatchTyped, TimesInv, NotAhead, Times
<1> HIDE DEF Times
<1>4. look' \in [Scans -> {None} \cup [Sources -> Nat]] /\ \A x \in Scans : look'[x] = IF x = r THEN Times ELSE look[x]
  BY <1>1, <1>2, <1>3 DEF WatchTyped
<1>5. WatchTyped'
  BY <1>1, <1>2, <1>4 DEF WatchTyped
<1>6. TimesInv'
  BY <1>1, <1>2, <1>3, <1>4 DEF TimesInv, NotAhead
<1>7. EntriesInv'
  BY <1>1, <1>2 DEF EntriesInv, AsOnDisk
<1>. QED BY <1>5, <1>6, <1>7 DEF WatchInv

LEMMA ScanKeeps ==
  ASSUME WatchInv, NEW r \in Scans, Scan(r)
  PROVE  WatchInv'
<1> DEFINE seen == [p \in Sources |-> IF p \in PluginDirs THEN disk[p].at ELSE look[r][p]]
           found == {p \in Sources : seen[p] > 0}
           gone == knownFiles \ found
           changed == {p \in found : seen[p] > loadedAt[p]}
           stems == {StemOf[p] : p \in gone \cap Documents}
           freed == {pluginName[p] : p \in (gone \cup (changed \cap knownFiles)) \cap PluginDirs} \ {None}
           loaded == Readable(changed)
           kept == [n \in Names |-> IF n \in stems \cup freed THEN None ELSE entries[n]]
<1>1. WatchTyped /\ TimesInv /\ EntriesInv
  BY DEF WatchInv
<1>2. /\ look[r] # None /\ entries' = WithLoaded(kept, loaded) /\ misnamed' = misnamed \cup stems
      /\ loadedAt' = [p \in Sources |-> IF p \in gone THEN 0 ELSE IF p \in changed THEN seen[p] ELSE loadedAt[p]]
      /\ pluginName' = [p \in PluginDirs |-> IF p \in loaded THEN NameOf[p]
                                             ELSE IF p \in gone \cup changed THEN None ELSE pluginName[p]]
      /\ look' = [look EXCEPT ![r] = None] /\ lastLook' = seen
      /\ UNCHANGED <<disk, clock, primedAt>>
  BY DEF Scan
<1>3. /\ seen \in [Sources -> Nat]
      /\ \A p \in Sources : seen[p] <= clock /\ (disk[p].at > 0 => seen[p] <= disk[p].at)
  <2>1. look[r] \in [Sources -> Nat] /\ NotAhead(look[r])
    BY <1>1, <1>2 DEF WatchTyped, TimesInv
  <2>2. \A p \in Sources : /\ disk[p].at \in Nat /\ disk[p].at <= clock
                           /\ look[r][p] \in Nat /\ look[r][p] <= clock
                           /\ disk[p].at > 0 => look[r][p] <= disk[p].at
    BY <1>1, <2>1 DEF WatchTyped, TimesInv, NotAhead
  <2>3. \A p \in Sources : seen[p] \in {disk[p].at, look[r][p]}
    OBVIOUS
  <2>4. seen \in [Sources -> Nat]
    BY <2>2
  <2> HIDE DEF seen
  <2>. QED BY <2>2, <2>3, <2>4
<1>4. /\ \A p \in Sources : p \in changed <=> seen[p] > 0 /\ seen[p] > loadedAt[p]
      /\ \A p \in Sources : p \in gone => ~(seen[p] > 0)
      /\ changed \in SUBSET Sources
  OBVIOUS
<1>5. /\ loaded \in SUBSET Sources
      /\ \A p \in Sources : p \in loaded <=> p \in changed /\ disk[p].valid
  BY DEF Readable
<1>6. \A n \in Names : kept[n] = IF n \in stems \cup freed THEN None ELSE entries[n]
  OBVIOUS
<1>7. kept \in [Names -> {None} \cup [file : Sources, at : Nat]]
  BY <1>1 DEF WatchTyped
<1>8. \A n \in freed : \E p \in PluginDirs : p \in gone \cup changed /\ n = NameOf[p]
  BY <1>1 DEF WatchTyped
<1> HIDE DEF seen, found, gone, changed, stems, freed, loaded, kept
<1>9. \A p \in Sources : disk[p].at \in Nat /\ loadedAt[p] \in Nat /\ seen[p] \in Nat
  BY <1>1, <1>3 DEF WatchTyped
<1>10. /\ entries' \in [Names -> {None} \cup [file : Sources, at : Nat]]
       /\ \A n \in Names :
            LET e == entries'[n] IN
            \/ /\ \E p \in loaded : NameOf[p] = n
               /\ e # None /\ e.file \in loaded /\ NameOf[e.file] = n /\ e.at = disk[e.file].at
            \/ (\A p \in loaded : NameOf[p] # n) /\ e = kept[n]
  BY <1>2, <1>5, <1>7, <1>9, LoadReplaces
<1>11. \A p \in Sources : loadedAt'[p] = IF p \in gone THEN 0 ELSE IF p \in changed THEN seen[p] ELSE loadedAt[p]
  BY <1>2
<1>12. WatchTyped'
  <2>1. loadedAt' \in [Sources -> Nat]
    BY <1>2, <1>9
  <2>2. look' \in [Scans -> {None} \cup [Sources -> Nat]]
    BY <1>1, <1>2 DEF WatchTyped
  <2>3. \A p \in PluginDirs : /\ pluginName'[p] \in {None, NameOf[p]}
                              /\ pluginName'[p] \in {None} \cup Names
    BY <1>1, <1>2, SourcesNamed DEF WatchTyped
  <2>4. pluginName' \in [PluginDirs -> {None} \cup Names]
    BY <1>2, <2>3
  <2>. QED BY <1>1, <1>2, <1>3, <1>10, <2>1, <2>2, <2>3, <2>4 DEF WatchTyped
<1>13. TimesInv'
  <2>1. NotAhead(loadedAt)'
    <3> SUFFICES ASSUME NEW p \in Sources
                 PROVE  loadedAt'[p] <= clock /\ (disk[p].at > 0 => loadedAt'[p] <= disk[p].at)
      BY <1>2 DEF NotAhead
    <3>1. /\ loadedAt[p] <= clock /\ (disk[p].at > 0 => loadedAt[p] <= disk[p].at)
          /\ clock \in Nat
      BY <1>1 DEF TimesInv, NotAhead, WatchTyped
    <3>2. loadedAt'[p] \in {0, seen[p], loadedAt[p]}
      BY <1>11
    <3>. QED BY <1>3, <1>9, <3>1, <3>2
  <2>2. \A x \in Scans : look'[x] # None => NotAhead(look[x])'
    <3>1. \A x \in Scans : look'[x] # None => look'[x] = look[x] /\ look[x] # None
      BY <1>1, <1>2 DEF WatchTyped
    <3>. QED BY <1>1, <1>2, <3>1 DEF TimesInv, NotAhead
  <2>3. NotAhead(lastLook)'
    BY <1>2, <1>3 DEF NotAhead
  <2>4. \A p \in Sources : lastLook'[p] <= loadedAt'[p]
    BY <1>2, <1>4, <1>9, <1>11
  <2>. QED BY <1>1, <1>2, <2>1, <2>2, <2>3, <2>4 DEF TimesInv
\* A file that is as noted was loaded now, or is one the scan left alone.
<1>14. \A p \in Sources : AsOnDisk(p)' => p \in loaded \/ (AsOnDisk(p) /\ p \notin gone \cup changed)
  <2> SUFFICES ASSUME NEW p \in Sources, AsOnDisk(p)', p \notin loaded
               PROVE  AsOnDisk(p) /\ p \notin gone \cup changed
    OBVIOUS
  <2>1. disk[p].valid /\ loadedAt'[p] = disk[p].at /\ disk[p].at > 0
    BY <1>1, <1>2 DEF AsOnDisk, TimesInv
  <2>2. p \notin changed
    BY <1>5, <2>1
  <2>3. p \notin gone
    BY <1>9, <1>11, <2>1
  <2>. QED BY <1>11, <2>1, <2>2, <2>3 DEF AsOnDisk
<1>15. EntriesInv'
  <2>1. ASSUME NEW p \in Sources, AsOnDisk(p)', NameOf[p] \notin misnamed'
        PROVE  entries'[NameOf[p]] # None
    <3>0. NameOf[p] \in Names
      BY SourcesNamed
    <3>1. CASE p \in loaded
      BY <1>10, <3>0, <3>1
    <3>2. CASE AsOnDisk(p) /\ p \notin gone \cup changed
      <4>1. NameOf[p] \notin misnamed /\ NameOf[p] \notin stems
        BY <1>2, <2>1
      <4>2. entries[NameOf[p]] # None
        BY <1>1, <3>2, <4>1 DEF EntriesInv
      <4>3. NameOf[p] \notin freed
        BY <1>8, <3>2, SourcesNamed
      <4>4. kept[NameOf[p]] # None
        BY <1>6, <3>0, <4>1, <4>2, <4>3
      <4>. QED BY <1>10, <3>0, <4>4
    <3>. QED BY <1>14, <2>1, <3>1, <3>2
  <2>2. ASSUME NEW n \in Names, entries'[n] # None
        PROVE  /\ NameOf[entries'[n].file] = n
               /\ disk[entries'[n].file].valid /\ loadedAt'[entries'[n].file] = disk[entries'[n].file].at =>
                    entries'[n].at = disk[entries'[n].file].at \/ disk[entries'[n].file].at <= primedAt
    <3> DEFINE e == entries'[n]
    <3>1. CASE e.file \in loaded /\ NameOf[e.file] = n /\ e.at = disk[e.file].at
      BY <1>2, <3>1
    <3>2. CASE (\A p \in loaded : NameOf[p] # n) /\ e = kept[n]
      <4>1. e = entries[n] /\ entries[n] # None
        BY <1>6, <2>2, <3>2
      <4>2. e.file \in Sources /\ NameOf[e.file] = n
        BY <1>1, <4>1 DEF WatchTyped, EntriesInv
      <4>3. e.file \notin loaded
        BY <3>2, <4>2
      <4>4. AsOnDisk(e.file) => e.at = disk[e.file].at \/ disk[e.file].at <= primedAt
        BY <1>1, <4>1 DEF EntriesInv
      <4>5. disk[e.file].valid /\ loadedAt'[e.file] = disk[e.file].at => AsOnDisk(e.file)
        BY <1>2, <1>14, <4>2, <4>3 DEF AsOnDisk
      <4>. QED BY <1>2, <4>2, <4>4, <4>5
    <3>. QED BY <1>10, <3>1, <3>2
  <2>. QED BY <1>2, <2>1, <2>2 DEF EntriesInv, AsOnDisk
<1>. QED BY <1>12, <1>13, <1>15 DEF WatchInv

LEMMA WatchInvStep == WatchInv /\ [ReloadNext]_reloadVars => WatchInv'
<1> SUFFICES ASSUME WatchInv, [ReloadNext]_reloadVars PROVE WatchInv'
  OBVIOUS
<1>0. clock \in Nat
  BY DEF WatchInv, WatchTyped
<1>1. ASSUME NEW p \in Sources, NEW valid \in BOOLEAN, WriteSource(p, valid) PROVE WatchInv'
  <2> DEFINE d == [at |-> clock', valid |-> valid]
  <2>1. /\ clock' = clock + 1 /\ disk' = [disk EXCEPT ![p] = d]
        /\ UNCHANGED <<entries, loadedAt, knownFiles, pluginName, look, lastLook, primedAt, misnamed>>
    BY <1>1 DEF WriteSource
  <2>2. d \in [at : Nat, valid : BOOLEAN] /\ d.at \in {0, clock'} /\ (d.valid => d.at = clock')
    BY <1>0, <2>1
  <2> HIDE DEF d
  <2>. QED BY <2>1, <2>2, WriteSourceKeeps
<1>2. ASSUME NEW p \in Sources, DeleteSource(p) PROVE WatchInv'
  <2>1. /\ clock' = clock + 1 /\ disk' = [disk EXCEPT ![p] = Absent]
        /\ UNCHANGED <<entries, loadedAt, knownFiles, pluginName, look, lastLook, primedAt, misnamed>>
    BY <1>2 DEF DeleteSource
  <2>2. Absent \in [at : Nat, valid : BOOLEAN] /\ Absent.at \in {0, clock'} /\ ~Absent.valid
    BY DEF Absent
  <2>. QED BY <2>1, <2>2, WriteSourceKeeps
<1>3. ASSUME NEW byId \in BOOLEAN, Prime(byId) PROVE WatchInv'
  BY <1>3, PrimeKeeps
<1>4. ASSUME NEW r \in Scans, Look(r) \/ Scan(r) PROVE WatchInv'
  BY <1>4, LookKeeps, ScanKeeps
<1>5. CASE UNCHANGED reloadVars
  BY <1>5 DEF reloadVars, WatchInv, WatchTyped, TimesInv, EntriesInv, NotAhead, AsOnDisk
<1>. QED BY <1>1, <1>2, <1>3, <1>4, <1>5 DEF ReloadNext

\* Every edit is counted, and what was loaded was there.
WatchRest ==
  /\ clock <= MaxEdits /\ knownFiles \subseteq Sources
  /\ \A n \in Names : entries[n] # None => entries[n].at \in 1..clock

LEMMA FilesAreTyped == WatchInv /\ WatchRest => ReloadTypeOK
<1> SUFFICES ASSUME WatchInv, WatchRest PROVE ReloadTypeOK
  OBVIOUS
<1>1. clock \in Nat /\ MaxEdits \in Nat /\ clock <= MaxEdits
  BY HotReloadAssumption DEF WatchInv, WatchTyped, WatchRest
<1>2. \A p \in Sources : disk[p].at \in 0..MaxEdits /\ loadedAt[p] \in 0..MaxEdits
  <2>1. \A p \in Sources : /\ disk[p].at \in Nat /\ loadedAt[p] \in Nat
                           /\ disk[p].at <= clock /\ loadedAt[p] <= clock
    BY DEF WatchInv, WatchTyped, TimesInv, NotAhead
  <2>. QED BY <1>1, <2>1
<1>3. \A n \in Names : entries[n] = None \/ (entries[n].file \in Sources /\ entries[n].at \in 1..MaxEdits)
  <2>1. \A n \in Names : entries[n] # None => entries[n].file \in Sources /\ entries[n].at \in 1..clock
    BY DEF WatchInv, WatchTyped, WatchRest
  <2>2. 1..clock \subseteq 1..MaxEdits
    BY <1>1
  <2>. QED BY <2>1, <2>2
<1>. QED BY <1>2, <1>3 DEF WatchRest, ReloadTypeOK

\* A file that can be read is there, at a time of its own.
LEMMA LoadedInTime ==
  ASSUME WatchInv, NEW reg \in [Names -> {None} \cup [file : Sources, at : Nat]],
         NEW ps \in SUBSET {p \in Sources : disk[p].valid},
         \A n \in Names : reg[n] # None => reg[n].at \in 1..clock
  PROVE  \A n \in Names : WithLoaded(reg, ps)[n] # None => WithLoaded(reg, ps)[n].at \in 1..clock
<1>1. \A p \in Sources : disk[p].at \in Nat
  BY DEF WatchInv, WatchTyped
<1>2. \A p \in ps : disk[p].at \in 1..clock
  BY DEF WatchInv, WatchTyped, TimesInv
<1>3. \A n \in Names : LET e == WithLoaded(reg, ps)[n] IN
         \/ e.file \in ps /\ e.at = disk[e.file].at
         \/ e = reg[n]
  BY <1>1, LoadReplaces
<1>. QED BY <1>2, <1>3

LEMMA WatchRestInit == ReloadInit => WatchRest
<1> SUFFICES ASSUME ReloadInit PROVE WatchRest
  OBVIOUS
<1> DEFINE none == [n \in Names |-> None]
<1>1. WatchInv
  BY WatchInvInit
<1>2. /\ entries = WithLoaded(none, Readable(Present)) /\ knownFiles = {} /\ clock = 1
      /\ Readable(Present) \in SUBSET {p \in Sources : disk[p].valid}
      /\ none \in [Names -> {None} \cup [file : Sources, at : Nat]]
      /\ \A n \in Names : none[n] = None
  BY DEF ReloadInit, Readable, Present
<1> HIDE DEF none
<1>3. \A n \in Names : entries[n] # None => entries[n].at \in 1..clock
  BY <1>1, <1>2, LoadedInTime
<1>. QED BY <1>2, <1>3, HotReloadAssumption DEF WatchRest

LEMMA WatchRestStep ==
  ASSUME WatchInv, WatchRest, [ReloadNext]_reloadVars PROVE WatchRest'
<1>0. clock \in Nat /\ MaxEdits \in Nat /\ entries \in [Names -> {None} \cup [file : Sources, at : Nat]]
  BY HotReloadAssumption DEF WatchInv, WatchTyped
<1>1. ASSUME clock < MaxEdits, clock' = clock + 1, UNCHANGED <<entries, knownFiles>> PROVE WatchRest'
  BY <1>0, <1>1 DEF WatchRest
<1>2. ASSUME NEW p \in Sources, NEW valid, WriteSource(p, valid) \/ DeleteSource(p) PROVE WatchRest'
  BY <1>1, <1>2 DEF WriteSource, DeleteSource
<1>3. ASSUME NEW byId, Prime(byId) PROVE WatchRest'
  BY <1>3 DEF Prime, WatchRest, Present, Sources
<1>4. ASSUME NEW r, Look(r) PROVE WatchRest'
  BY <1>4 DEF Look, WatchRest
<1>5. ASSUME NEW r, Scan(r) PROVE WatchRest'
  <2> DEFINE seen == [p \in Sources |-> IF p \in PluginDirs THEN disk[p].at ELSE look[r][p]]
             found == {p \in Sources : seen[p] > 0}
             gone == knownFiles \ found
             changed == {p \in found : seen[p] > loadedAt[p]}
             unnamed == {StemOf[p] : p \in gone \cap Documents}
                        \cup ({pluginName[p] : p \in (gone \cup (changed \cap knownFiles)) \cap PluginDirs} \ {None})
             loaded == Readable(changed)
             kept == [n \in Names |-> IF n \in unnamed THEN None ELSE entries[n]]
  <2>1. entries' = WithLoaded(kept, loaded) /\ knownFiles' = found /\ UNCHANGED <<disk, clock>>
    BY <1>5 DEF Scan
  <2>2. found \subseteq Sources /\ loaded \in SUBSET {p \in Sources : disk[p].valid}
    BY DEF Readable
  <2>3. \A n \in Names : kept[n] = None \/ kept[n] = entries[n]
    OBVIOUS
  <2>4. kept \in [Names -> {None} \cup [file : Sources, at : Nat]]
    BY <1>0
  <2> HIDE DEF seen, found, gone, changed, unnamed, loaded, kept
  <2>5. \A n \in Names : kept[n] # None => kept[n].at \in 1..clock
    BY <2>3 DEF WatchRest
  <2>6. \A n \in Names : WithLoaded(kept, loaded)[n] # None => WithLoaded(kept, loaded)[n].at \in 1..clock
    BY <2>2, <2>4, <2>5, LoadedInTime
  <2>. QED BY <2>1, <2>2, <2>6 DEF WatchRest
<1>6. CASE UNCHANGED reloadVars
  BY <1>6 DEF reloadVars, WatchRest
<1>. QED BY <1>2, <1>3, <1>4, <1>5, <1>6 DEF ReloadNext

-----------------------------------------------------------------------------
(* Delegation *)

Memos == [mode : Modes2, searches : Nat, rereads : Nat, down : Nat, listed : BOOLEAN, attempts : Nat]
DelegationTyped ==
  /\ agent \in {"none", "research", "other"} /\ wait \in {"model", "search"} \cup Urls
  /\ memo \in Memos /\ page \in [Urls -> {None, "ok"}]
Spent(m, n) ==
  n <= MaxSources[m.mode] /\ m.searches <= MaxWaves[m.mode] /\ m.rereads <= MaxRereads[m.mode]
\* A fetch under way has room for the page it will store; facts are of stored
\* pages.
ResearchInv ==
  /\ DelegationTyped /\ Spent(memo, Cardinality(Pages))
  /\ wait \in Urls => wait \notin Pages /\ Cardinality(Pages) < MaxSources[memo.mode]
  /\ fact \subseteq Pages
  /\ outcome.kind \in {"partial", "skeleton"} =>
       agent = "research" /\ fact \subseteq outcome.facts /\ outcome.facts \subseteq outcome.cited

LEMMA LimitsGrow ==
  /\ \A m \in Modes2 : MaxSources[m] \in Nat /\ MaxWaves[m] \in Nat /\ MaxRereads[m] \in Nat
  /\ \A m \in Modes2 : /\ MaxSources[m] <= MaxSources["deep"] /\ MaxWaves[m] <= MaxWaves["deep"]
                       /\ MaxRereads[m] <= MaxRereads["deep"]
  /\ \A m \in Modes2 : /\ MaxSources["research"] <= MaxSources[m] /\ MaxWaves["research"] <= MaxWaves[m]
                       /\ MaxRereads["research"] <= MaxRereads[m]
  /\ Growth \in Nat /\ IsFiniteSet(Urls) /\ {"model", "search"} \cap Urls = {}
  /\ None \notin {"ok", "partial", "skeleton"} /\ Modes2 = {"research", "deep"}
<1>1. \A limit \in {MaxSources, MaxWaves, MaxRereads} :
        limit \in [Modes2 -> Nat] /\ limit["research"] <= limit["deep"]
  BY DelegationAssumption
<1>2. \A limit \in {MaxSources, MaxWaves, MaxRereads} : \A m \in Modes2 :
        limit[m] \in Nat /\ limit[m] <= limit["deep"] /\ limit["research"] <= limit[m]
  BY <1>1 DEF Modes2
<1>3. \A m \in Modes2 : MaxSources[m] \in Nat /\ MaxWaves[m] \in Nat /\ MaxRereads[m] \in Nat
  BY <1>2
<1>4. \A m \in Modes2 : /\ MaxSources[m] <= MaxSources["deep"] /\ MaxWaves[m] <= MaxWaves["deep"]
                        /\ MaxRereads[m] <= MaxRereads["deep"]
  BY <1>2
<1>5. \A m \in Modes2 : /\ MaxSources["research"] <= MaxSources[m] /\ MaxWaves["research"] <= MaxWaves[m]
                        /\ MaxRereads["research"] <= MaxRereads[m]
  BY <1>2
<1>. QED BY <1>3, <1>4, <1>5, DelegationAssumption DEF Modes2

\* Only usable pages are stored, so no limit grows.
LEMMA NothingGrows ==
  ASSUME DelegationTyped, NEW limit, NEW m, limit[m] \in Nat
  PROVE  Grown(limit, m) = limit[m]
<1>1. Pages \ Usable = {}
  BY DEF DelegationTyped, Pages, Usable
<1>2. Cardinality(Pages \ Usable) = 0
  BY <1>1, FS_EmptySet
<1>. QED BY <1>2, LimitsGrow DEF Grown, Least

LEMMA PagesCounted == IsFiniteSet(Pages) /\ Cardinality(Pages) \in Nat
<1>1. Pages \in SUBSET Urls
  BY DEF Pages
<1>. QED BY <1>1, LimitsGrow, FS_Subset, FS_CardinalityType

\* The mode only goes up, and with it the limits.
LEMMA ModeGoesUp ==
  ASSUME NEW m \in Modes2, memo \in Memos, NEW v \in Memos, v.mode = Upgraded(m),
         v.searches = memo.searches, v.rereads = memo.rereads,
         NEW n \in Nat, Spent(memo, n)
  PROVE  Spent(v, n)
<1>1. memo.mode \in Modes2 /\ memo.searches \in Nat /\ memo.rereads \in Nat
  BY DEF Memos
<1>2. v.mode \in Modes2 /\ (v.mode = memo.mode \/ v.mode = "deep" \/ memo.mode = "research")
  BY <1>1 DEF Upgraded, Modes2
<1>3. CASE v.mode = memo.mode
  BY <1>3 DEF Spent
<1>4. CASE v.mode = "deep"
  BY <1>1, <1>4, LimitsGrow DEF Spent
<1>5. CASE memo.mode = "research"
  BY <1>1, <1>2, <1>5, LimitsGrow DEF Spent
<1>. QED BY <1>2, <1>3, <1>4, <1>5

LEMMA ResearchInvSound == ResearchInv => DelegationIsSound
<1> SUFFICES ASSUME ResearchInv PROVE DelegationIsSound
  OBVIOUS
<1>1. DelegationTyped /\ memo.mode \in Modes2
  BY DEF ResearchInv, DelegationTyped, Memos
<1>2. /\ Grown(MaxSources, memo.mode) = MaxSources[memo.mode]
      /\ Grown(MaxWaves, memo.mode) = MaxWaves[memo.mode]
  BY <1>1, LimitsGrow, NothingGrows
<1>3. BudgetsHold
  BY <1>2 DEF ResearchInv, Spent, BudgetsHold
<1>4. outcome.kind \in {"partial", "skeleton"} => outcome.kind \notin {"error", "cancelled", None}
  BY LimitsGrow
<1>5. HandOverIsWhole
  BY <1>4 DEF ResearchInv, HandOverIsWhole, Direct
<1>. QED BY <1>3, <1>5 DEF DelegationIsSound

LEMMA ResearchInvInit == DelegationInit => ResearchInv
<1> SUFFICES ASSUME DelegationInit PROVE ResearchInv
  OBVIOUS
<1>1. DelegationTyped
  BY DEF DelegationInit, DelegationTyped, NoMemo, Memos, Modes2
<1>2. Pages = {} /\ fact = {}
  BY DEF DelegationInit, Pages
<1>3. memo.mode = "research" /\ memo.searches = 0 /\ memo.rereads = 0
  BY DEF DelegationInit, NoMemo
<1>4. Cardinality(Pages) = 0
  BY <1>2, FS_EmptySet
<1>5. Spent(memo, Cardinality(Pages))
  BY <1>3, <1>4, LimitsGrow DEF Spent, Modes2
<1>6. wait \notin Urls
  BY LimitsGrow DEF DelegationInit
<1>7. outcome.kind \notin {"partial", "skeleton"}
  BY LimitsGrow DEF DelegationInit, NoOutcome
<1>. QED BY <1>1, <1>2, <1>5, <1>6, <1>7 DEF ResearchInv

\* A step of a task that goes on, as far as its memo and its wait are concerned.
LEMMA GoesOnResearching ==
  ASSUME ResearchInv, NEW v \in Memos, memo' = v, Spent(v, Cardinality(Pages)),
         wait' \in {"model", "search"}, agent' = agent, page' = page, fact' \in SUBSET Pages,
         outcome'.kind \in {"partial", "skeleton"} =>
           agent = "research" /\ fact' \subseteq outcome'.facts /\ outcome'.facts \subseteq outcome'.cited
  PROVE  ResearchInv'
<1>1. Pages' = Pages
  BY DEF Pages
<1>2. wait' \notin Urls
  BY LimitsGrow
<1>3. DelegationTyped'
  BY DEF ResearchInv, DelegationTyped
<1>4. Spent(memo', Cardinality(Pages)')
  BY <1>1
<1>. QED BY <1>1, <1>2, <1>3, <1>4 DEF ResearchInv, Spent

LEMMA MemoUpgraded ==
  ASSUME memo \in Memos, NEW m \in Modes2
  PROVE  LET v == [memo EXCEPT !.mode = Upgraded(m)]
         IN  /\ v \in Memos /\ v.mode = Upgraded(m) /\ v.searches = memo.searches
             /\ v.rereads = memo.rereads
<1>1. Upgraded(m) \in Modes2
  BY DEF Upgraded, Modes2
<1> HIDE DEF Upgraded
<1>. QED BY <1>1 DEF Memos

\* What a call may do to the memo keeps it within its limits.
LEMMA MemoStaysSpent ==
  ASSUME ResearchInv, NEW m \in Modes2
  PROVE  LET v == [memo EXCEPT !.mode = Upgraded(m)]
         IN  v \in Memos /\ Spent(v, Cardinality(Pages)) /\ v.mode = Upgraded(m)
BY MemoUpgraded, ModeGoesUp, PagesCounted DEF ResearchInv, DelegationTyped

LEMMA ResearchInvStep == ResearchInv /\ [DelegationNext]_delegationVars => ResearchInv'
<1> SUFFICES ASSUME ResearchInv, [DelegationNext]_delegationVars PROVE ResearchInv'
  OBVIOUS
<1>0. /\ DelegationTyped /\ Spent(memo, Cardinality(Pages)) /\ fact \subseteq Pages
      /\ memo \in Memos /\ Pages \subseteq Urls
  BY DEF ResearchInv, DelegationTyped, Pages
<1>u. outcome = NoOutcome => outcome.kind \notin {"partial", "skeleton"}
  BY LimitsGrow DEF NoOutcome
<1>1. CASE RefuseTask
  <2>1. outcome'.kind = "error" /\ UNCHANGED <<agent, wait, memo, page, fact>>
    BY <1>1 DEF RefuseTask
  <2>. QED BY <2>1 DEF ResearchInv, DelegationTyped, Pages, Spent
<1>2. ASSUME NEW who \in {"research", "other"}, NEW m \in Modes2, StartTask(who, m)
      PROVE  ResearchInv'
  <2>1. /\ outcome = NoOutcome /\ agent' = who /\ UNCHANGED <<wait, page, fact, outcome>>
        /\ memo' \in {memo, [memo EXCEPT !.mode = Upgraded(m)]}
    BY <1>2 DEF StartTask
  <2>2. memo' \in Memos /\ Spent(memo', Cardinality(Pages))
    BY <1>0, <2>1, MemoStaysSpent
  <2>3. MaxSources[memo.mode] <= MaxSources[memo'.mode] /\ memo'.mode \in Modes2 /\ memo.mode \in Modes2
    <3>1. memo'.mode \in {memo.mode, Upgraded(m)} /\ memo.mode \in Modes2
      BY <1>0, <2>1, MemoStaysSpent DEF Memos
    <3>. QED BY <3>1, LimitsGrow DEF Upgraded
  <2>4. Pages' = Pages
    BY <2>1 DEF Pages
  <2>5. DelegationTyped'
    BY <1>0, <2>1, <2>2 DEF DelegationTyped
  <2>6. wait \in Urls => wait \notin Pages /\ Cardinality(Pages) < MaxSources[memo'.mode]
    BY <2>3, LimitsGrow, PagesCounted DEF ResearchInv
  <2>. QED BY <1>0, <1>u, <2>1, <2>2, <2>4, <2>5, <2>6 DEF ResearchInv, Spent
<1>3. CASE OtherTool
  <2>1. outcome = NoOutcome /\ UNCHANGED <<agent, wait, memo, page, fact, outcome>>
    BY <1>3 DEF OtherTool, Thinking, AtWork
  <2>. QED BY <2>1 DEF ResearchInv, DelegationTyped, Pages, Spent
<1>4. ASSUME NEW m \in Modes2, BeginSearch(m) PROVE ResearchInv'
  <2>1. /\ outcome = NoOutcome /\ wait' = "search" /\ UNCHANGED <<agent, page, fact, outcome>>
        /\ memo' = [memo EXCEPT !.mode = Upgraded(m)]
    BY <1>4 DEF BeginSearch, Researching, Thinking, AtWork
  <2>. QED BY <1>0, <1>u, <2>1, MemoStaysSpent, GoesOnResearching
<1>5. ASSUME NEW up \in BOOLEAN, SearchAnswers(up) PROVE ResearchInv'
  <2>1. /\ outcome = NoOutcome /\ wait' = "model" /\ UNCHANGED <<agent, page, fact, outcome>>
        /\ \/ memo' = [memo EXCEPT !.down = Least(memo.down + 1, 2)]
           \/ /\ memo.searches < Grown(MaxWaves, memo.mode)
              /\ memo' = [memo EXCEPT !.searches = memo.searches + 1]
           \/ memo' = memo
    BY <1>5 DEF SearchAnswers, AtWork
  <2>2. memo.mode \in Modes2 /\ Grown(MaxWaves, memo.mode) = MaxWaves[memo.mode]
    BY <1>0, LimitsGrow, NothingGrows DEF Memos
  <2>3. memo' \in Memos /\ Spent(memo', Cardinality(Pages))
    <3>1. CASE memo' = [memo EXCEPT !.down = Least(memo.down + 1, 2)]
      <4>1. Least(memo.down + 1, 2) \in Nat
        BY <1>0 DEF Memos, Least
      <4> HIDE DEF Least
      <4>. QED BY <1>0, <3>1, <4>1 DEF Memos, Spent
    <3>2. CASE /\ memo.searches < Grown(MaxWaves, memo.mode)
               /\ memo' = [memo EXCEPT !.searches = memo.searches + 1]
      <4>1. memo' \in Memos
        BY <1>0, <3>2 DEF Memos
      <4>2. /\ memo'.searches = memo.searches + 1 /\ memo'.mode = memo.mode
            /\ memo'.rereads = memo.rereads /\ memo.searches \in Nat
        BY <1>0, <3>2 DEF Memos
      <4>3. memo'.searches <= MaxWaves[memo.mode]
        BY <2>2, <3>2, <4>2, LimitsGrow
      <4>. QED BY <1>0, <4>1, <4>2, <4>3 DEF Spent
    <3>3. CASE memo' = memo
      BY <1>0, <3>3
    <3>. QED BY <2>1, <3>1, <3>2, <3>3
  <2>. QED BY <1>0, <1>u, <2>1, <2>3, GoesOnResearching
<1>6. ASSUME NEW m \in Modes2, NEW u \in Urls, FetchStored(m, u) PROVE ResearchInv'
  <2>1. /\ outcome = NoOutcome /\ wait' = "model" /\ UNCHANGED <<agent, page, fact, outcome>>
        /\ memo' = [memo EXCEPT !.mode = Upgraded(m)]
    BY <1>6 DEF FetchStored, Researching, Thinking, AtWork
  <2>. QED BY <1>0, <1>u, <2>1, MemoStaysSpent, GoesOnResearching
<1>7. ASSUME NEW m \in Modes2, NEW u \in Urls, BeginFetch(m, u) PROVE ResearchInv'
  <2>1. /\ outcome = NoOutcome /\ wait' = u /\ UNCHANGED <<agent, page, fact, outcome>>
        /\ memo' = [memo EXCEPT !.mode = Upgraded(m)] /\ u \notin Pages
        /\ Cardinality(Pages) < Grown(MaxSources, Upgraded(m))
    BY <1>7 DEF BeginFetch, Researching, Thinking, AtWork
  <2>2. memo' \in Memos /\ Spent(memo', Cardinality(Pages)) /\ memo'.mode = Upgraded(m)
    BY <2>1, MemoStaysSpent
  <2>3. Upgraded(m) \in Modes2
    BY DEF Upgraded, Modes2
  <2>4. Cardinality(Pages) < MaxSources[memo'.mode]
    BY <1>0, <2>1, <2>2, <2>3, LimitsGrow, NothingGrows
  <2>5. Pages' = Pages
    BY <2>1 DEF Pages
  <2>6. DelegationTyped'
    BY <1>0, <2>1, <2>2 DEF DelegationTyped
  <2>. QED BY <1>0, <1>u, <2>1, <2>2, <2>4, <2>5, <2>6 DEF ResearchInv, Spent
<1>8. ASSUME NEW m \in Modes2, NEW u \in Urls, Reread(m, u) PROVE ResearchInv'
  <2> DEFINE k == IF memo.rereads < MaxRereads[Upgraded(m)] THEN memo.rereads + 1 ELSE memo.rereads
             v == [memo EXCEPT !.mode = Upgraded(m)]
  <2>1. /\ outcome = NoOutcome /\ wait' = "model" /\ UNCHANGED <<agent, page, fact, outcome>>
        /\ memo' = [memo EXCEPT !.mode = Upgraded(m), !.rereads = k]
    BY <1>8 DEF Reread, Researching, Thinking, AtWork
  <2>2. v \in Memos /\ Spent(v, Cardinality(Pages)) /\ v.mode = Upgraded(m) /\ v.rereads = memo.rereads
    BY <1>0, MemoStaysSpent, MemoUpgraded
  <2>3. Upgraded(m) \in Modes2 /\ memo.rereads \in Nat
    BY <1>0 DEF Upgraded, Modes2, Memos
  <2>4. k \in Nat /\ k <= MaxRereads[Upgraded(m)]
    BY <2>2, <2>3, LimitsGrow DEF Spent
  <2>5. memo' = [v EXCEPT !.rereads = k]
    BY <2>1
  <2> HIDE DEF v, k
  <2>6. memo' \in Memos /\ memo'.mode = v.mode /\ memo'.searches = v.searches /\ memo'.rereads = k
    BY <2>2, <2>4, <2>5 DEF Memos
  <2>7. Spent(memo', Cardinality(Pages))
    BY <2>2, <2>4, <2>6 DEF Spent
  <2>. QED BY <1>0, <1>u, <2>1, <2>6, <2>7, GoesOnResearching
<1>9. ASSUME NEW u \in Urls, NEW ok \in BOOLEAN, FetchAnswers(u, ok) PROVE ResearchInv'
  <2>1. /\ outcome = NoOutcome /\ wait = u /\ wait' = "model" /\ UNCHANGED <<agent, memo, fact, outcome>>
        /\ page' \in {page, [page EXCEPT ![u] = "ok"]}
    BY <1>9 DEF FetchAnswers, AtWork
  <2>2. CASE page' = page
    BY <1>0, <1>u, <2>1, <2>2, GoesOnResearching
  <2>3. CASE page' = [page EXCEPT ![u] = "ok"]
    <3>1. DelegationTyped'
      BY <1>0, <2>1, <2>3 DEF DelegationTyped
    <3>2. Pages' = Pages \cup {u}
      BY <1>0, <2>3, LimitsGrow DEF Pages, DelegationTyped
    <3>3. u \notin Pages /\ Cardinality(Pages) < MaxSources[memo.mode]
      BY <2>1 DEF ResearchInv
    <3>4. Cardinality(Pages') = Cardinality(Pages) + 1
      BY <3>2, <3>3, PagesCounted, FS_AddElement
    <3>5. MaxSources[memo.mode] \in Nat
      BY <1>0, LimitsGrow DEF Memos
    <3>6. Cardinality(Pages') <= MaxSources[memo.mode]
      BY <3>3, <3>4, <3>5, PagesCounted
    <3>7. wait' \notin Urls
      BY <2>1, LimitsGrow
    <3>. QED BY <1>0, <1>u, <2>1, <3>1, <3>2, <3>6, <3>7 DEF ResearchInv, Spent
  <2>. QED BY <2>1, <2>2, <2>3
<1>10. ASSUME NEW u \in Urls, StoreFact(u) PROVE ResearchInv'
  <2>1. /\ outcome = NoOutcome /\ wait' = "model" /\ UNCHANGED <<agent, memo, page, outcome>>
        /\ fact' = fact \cup {u} /\ u \in Pages
    BY <1>10 DEF StoreFact, Researching, Thinking, AtWork
  <2>. QED BY <1>0, <1>u, <2>1, GoesOnResearching
<1>11. CASE ListFacts
  <2>1. /\ outcome = NoOutcome /\ wait' = "model" /\ UNCHANGED <<agent, page, fact, outcome>>
        /\ memo' = [memo EXCEPT !.listed = TRUE]
    BY <1>11 DEF ListFacts, Researching, Thinking, AtWork
  <2>2. memo' \in Memos /\ Spent(memo', Cardinality(Pages))
    BY <1>0, <2>1 DEF Memos, Spent
  <2>. QED BY <1>0, <1>u, <2>1, <2>2, GoesOnResearching
<1>12. ASSUME NEW cited \in SUBSET Urls, SubmitReport(cited) PROVE ResearchInv'
  <2>1. outcome'.kind = "submitted" /\ wait' = "model" /\ UNCHANGED <<agent, memo, page, fact>>
    BY <1>12 DEF SubmitReport, ReportAs, Thinking
  <2>. QED BY <1>0, <2>1, GoesOnResearching
<1>13. ASSUME NEW cited \in SUBSET Urls, NEW m \in Modes2, FinalizeReport(m, cited) PROVE ResearchInv'
  <2> DEFINE v == [memo EXCEPT !.mode = Upgraded(m)]
  <2>1. /\ outcome = NoOutcome /\ agent = "research" /\ wait' = "model" /\ UNCHANGED <<agent, page, fact>>
        /\ memo' \in {v, [memo EXCEPT !.mode = Upgraded(m), !.attempts = memo.attempts + 1]}
        /\ outcome' \in {outcome, Skeleton("skeleton"), ReportAs(cited, "report")}
    BY <1>13 DEF FinalizeReport, Researching, Thinking, AtWork
  <2>2. v \in Memos /\ Spent(v, Cardinality(Pages))
    BY MemoStaysSpent
  <2>3. memo.attempts \in Nat
    BY <1>0 DEF Memos
  <2>4. memo' \in {v, [v EXCEPT !.attempts = memo.attempts + 1]}
    BY <2>1
  <2> HIDE DEF v
  <2>5. memo' \in Memos /\ Spent(memo', Cardinality(Pages))
    <3>1. CASE memo' = v
      BY <2>2, <3>1
    <3>2. CASE memo' = [v EXCEPT !.attempts = memo.attempts + 1]
      BY <2>2, <2>3, <3>2 DEF Memos, Spent
    <3>. QED BY <2>4, <3>1, <3>2
  <2>6. outcome'.kind \in {"partial", "skeleton"} =>
          fact' \subseteq outcome'.facts /\ outcome'.facts \subseteq outcome'.cited
    BY <1>0, <1>u, <2>1 DEF Skeleton, ReportAs
  <2>. QED BY <1>0, <2>1, <2>5, <2>6, GoesOnResearching
<1>14. CASE TimeOutTask
  <2>1. /\ wait' = "model" /\ UNCHANGED <<agent, memo, page, fact>>
        /\ \/ agent = "research" /\ outcome' = Skeleton("partial")
           \/ outcome' \in {[kind |-> "notice"], [kind |-> "error"]}
    BY <1>14 DEF TimeOutTask
  <2>2. outcome'.kind \in {"partial", "skeleton"} =>
          agent = "research" /\ fact' \subseteq outcome'.facts /\ outcome'.facts \subseteq outcome'.cited
    BY <1>0, <2>1 DEF Skeleton
  <2>. QED BY <1>0, <2>1, <2>2, GoesOnResearching
<1>15. CASE TaskFails
  <2>1. /\ wait' = "model" /\ UNCHANGED <<agent, memo, page, fact>> /\ outcome'.kind \in {"error", "cancelled"}
    BY <1>15 DEF TaskFails
  <2>. QED BY <1>0, <2>1, GoesOnResearching
<1>16. CASE UNCHANGED delegationVars
  BY <1>16 DEF delegationVars, ResearchInv, DelegationTyped, Pages, Spent
<1>. QED BY <1>1, <1>2, <1>3, <1>4, <1>5, <1>6, <1>7, <1>8, <1>9, <1>10, <1>11, <1>12, <1>13, <1>14,
            <1>15, <1>16 DEF DelegationNext

\* A run is refused twice, and the third time it gets the skeleton.
TaskRest ==
  /\ journal \in [calls : 0..MaxSteps, phase : {None, "started", "partial"}]
  /\ memo.attempts <= MaxAttempts + 1 /\ (outcome = NoOutcome => memo.attempts <= MaxAttempts)

LEMMA TasksAreTyped == ResearchInv /\ TaskRest => DelegationTypeOK
<1> SUFFICES ASSUME ResearchInv, TaskRest PROVE DelegationTypeOK
  OBVIOUS
<1>1. memo.mode \in Modes2 /\ memo.attempts \in Nat /\ MaxAttempts + 1 \in Nat
  BY DEF ResearchInv, DelegationTyped, Memos, MaxAttempts
<1>2. memo.attempts \in 0..MaxAttempts + 1
  BY <1>1 DEF TaskRest
<1>3. fact \subseteq Urls
  BY DEF ResearchInv, Pages
<1>. QED BY <1>1, <1>2, <1>3 DEF ResearchInv, DelegationTyped, TaskRest, DelegationTypeOK

LEMMA TaskRestInit == DelegationInit => TaskRest
BY DelegationAssumption DEF DelegationInit, TaskRest, NoMemo, MaxAttempts

LEMMA TaskRestStep ==
  ASSUME ResearchInv, TaskRest, [DelegationNext]_delegationVars PROVE TaskRest'
<1>0. /\ memo \in Memos /\ memo.attempts \in Nat /\ MaxSteps \in Nat
      /\ journal \in [calls : 0..MaxSteps, phase : {None, "started", "partial"}]
  BY DelegationAssumption DEF ResearchInv, DelegationTyped, Memos, TaskRest
<1>1. ASSUME journal.calls < MaxSteps, Recorded
      PROVE  journal' \in [calls : 0..MaxSteps, phase : {None, "started", "partial"}]
  BY <1>0, <1>1 DEF Recorded
<1>2. ASSUME NEW v \in Memos, v.attempts = memo.attempts, memo' = v, outcome = NoOutcome,
             journal' \in [calls : 0..MaxSteps, phase : {None, "started", "partial"}]
      PROVE  TaskRest'
  BY <1>2 DEF TaskRest
<1>3. \A m : LET v == [memo EXCEPT !.mode = Upgraded(m)] IN Upgraded(m) \in Modes2 => v \in Memos /\ v.attempts = memo.attempts
  BY <1>0 DEF Memos
<1>4. \A m \in Modes2 : Upgraded(m) \in Modes2
  BY DEF Upgraded, Modes2
<1>5. ASSUME UNCHANGED memo, outcome = NoOutcome,
             journal' \in [calls : 0..MaxSteps, phase : {None, "started", "partial"}]
      PROVE  TaskRest'
  BY <1>0, <1>2, <1>5
<1>6. CASE RefuseTask
  BY <1>0, <1>5, <1>6 DEF RefuseTask
<1>7. ASSUME NEW who \in {"research", "other"}, NEW m \in Modes2, StartTask(who, m) PROVE TaskRest'
  <2>1. /\ memo' \in {memo, [memo EXCEPT !.mode = Upgraded(m)]} /\ outcome = NoOutcome
        /\ journal' = [journal EXCEPT !.phase = "started"]
    BY <1>7 DEF StartTask
  <2>2. journal' \in [calls : 0..MaxSteps, phase : {None, "started", "partial"}]
    BY <1>0, <2>1
  <2>. QED BY <1>2, <1>3, <1>4, <1>5, <2>1, <2>2
<1>8. CASE OtherTool
  BY <1>1, <1>5, <1>8 DEF OtherTool, Thinking, AtWork
<1>9. ASSUME NEW m \in Modes2, BeginSearch(m) PROVE TaskRest'
  BY <1>0, <1>2, <1>3, <1>4, <1>9 DEF BeginSearch, Researching, Thinking, AtWork
<1>10. ASSUME NEW up \in BOOLEAN, SearchAnswers(up) PROVE TaskRest'
  <2>1. /\ outcome = NoOutcome /\ journal.calls < MaxSteps /\ Recorded
        /\ \/ memo' = [memo EXCEPT !.down = Least(memo.down + 1, 2)]
           \/ memo' = [memo EXCEPT !.searches = memo.searches + 1]
           \/ memo' = memo
    BY <1>10 DEF SearchAnswers, AtWork
  <2>2. Least(memo.down + 1, 2) \in Nat /\ memo.searches + 1 \in Nat
    BY <1>0 DEF Memos, Least
  <2> HIDE DEF Least
  <2>3. memo' \in Memos /\ memo'.attempts = memo.attempts
    BY <1>0, <2>1, <2>2 DEF Memos
  <2>. QED BY <1>1, <1>2, <2>1, <2>3
<1>11. ASSUME NEW m \in Modes2, NEW u \in Urls, FetchStored(m, u) PROVE TaskRest'
  BY <1>1, <1>2, <1>3, <1>4, <1>11 DEF FetchStored, Researching, Thinking, AtWork
<1>12. ASSUME NEW m \in Modes2, NEW u \in Urls, BeginFetch(m, u) PROVE TaskRest'
  BY <1>0, <1>2, <1>3, <1>4, <1>12 DEF BeginFetch, Researching, Thinking, AtWork
<1>13. ASSUME NEW m \in Modes2, NEW u \in Urls, Reread(m, u) PROVE TaskRest'
  <2> DEFINE k == IF memo.rereads < MaxRereads[Upgraded(m)] THEN memo.rereads + 1 ELSE memo.rereads
  <2>1. /\ outcome = NoOutcome /\ journal.calls < MaxSteps /\ Recorded
        /\ memo' = [memo EXCEPT !.mode = Upgraded(m), !.rereads = k]
    BY <1>13 DEF Reread, Researching, Thinking, AtWork
  <2>2. k \in Nat
    BY <1>0 DEF Memos
  <2>3. Upgraded(m) \in Modes2
    BY <1>4
  <2> HIDE DEF k, Upgraded
  <2>4. memo' \in Memos /\ memo'.attempts = memo.attempts
    BY <1>0, <2>1, <2>2, <2>3 DEF Memos
  <2>. QED BY <1>1, <1>2, <2>1, <2>4
<1>14. ASSUME NEW u \in Urls, NEW ok \in BOOLEAN, FetchAnswers(u, ok) PROVE TaskRest'
  BY <1>1, <1>5, <1>14 DEF FetchAnswers, AtWork
<1>15. ASSUME NEW u \in Urls, StoreFact(u) PROVE TaskRest'
  BY <1>1, <1>5, <1>15 DEF StoreFact, Researching, Thinking, AtWork
<1>16. CASE ListFacts
  <2>1. memo' = [memo EXCEPT !.listed = TRUE] /\ outcome = NoOutcome /\ journal.calls < MaxSteps /\ Recorded
    BY <1>16 DEF ListFacts, Researching, Thinking, AtWork
  <2>2. memo' \in Memos /\ memo'.attempts = memo.attempts
    BY <1>0, <2>1 DEF Memos
  <2>. QED BY <1>1, <1>2, <2>1, <2>2
<1>17. ASSUME NEW cited, SubmitReport(cited) PROVE TaskRest'
  BY <1>0, <1>5, <1>17 DEF SubmitReport, Thinking, AtWork
<1>18. ASSUME NEW cited, NEW m \in Modes2, FinalizeReport(m, cited) PROVE TaskRest'
  <2> DEFINE v == [memo EXCEPT !.mode = Upgraded(m)]
  <2>1. /\ outcome = NoOutcome /\ journal.calls < MaxSteps /\ Recorded
        /\ \/ memo' = v
           \/ /\ memo' = [v EXCEPT !.attempts = memo.attempts + 1]
              /\ memo.attempts >= MaxAttempts => outcome' = Skeleton("skeleton")
    BY <1>18 DEF FinalizeReport, Researching, Thinking, AtWork
  <2>2. v \in Memos /\ v.attempts = memo.attempts /\ memo.attempts <= MaxAttempts
    BY <1>3, <1>4, <2>1 DEF TaskRest
  <2> HIDE DEF v
  <2>3. CASE memo' = v
    BY <1>1, <1>2, <2>1, <2>2, <2>3
  <2>4. CASE /\ memo' = [v EXCEPT !.attempts = memo.attempts + 1]
             /\ memo.attempts >= MaxAttempts => outcome' = Skeleton("skeleton")
    <3>1. memo'.attempts = memo.attempts + 1
      BY <2>2, <2>4 DEF Memos
    <3>2. Skeleton("skeleton") # NoOutcome
      BY DelegationAssumption DEF Skeleton, NoOutcome
    <3>3. memo'.attempts <= MaxAttempts + 1 /\ (outcome' = NoOutcome => memo'.attempts <= MaxAttempts)
      BY <1>0, <2>2, <2>4, <3>1, <3>2 DEF MaxAttempts
    <3>. QED BY <1>1, <2>1, <3>3 DEF TaskRest, MaxAttempts
  <2>. QED BY <2>1, <2>3, <2>4
<1>19. CASE TimeOutTask
  <2>1. UNCHANGED memo /\ outcome = NoOutcome /\ journal' \in {journal, [journal EXCEPT !.phase = "partial"]}
    BY <1>19 DEF TimeOutTask
  <2>2. journal' \in [calls : 0..MaxSteps, phase : {None, "started", "partial"}]
    BY <1>0, <2>1
  <2>. QED BY <1>5, <2>1, <2>2
<1>20. CASE TaskFails
  BY <1>0, <1>5, <1>20 DEF TaskFails
<1>21. CASE UNCHANGED delegationVars
  BY <1>21 DEF delegationVars, TaskRest
<1>. QED BY <1>6, <1>7, <1>8, <1>9, <1>10, <1>11, <1>12, <1>13, <1>14, <1>15, <1>16, <1>17, <1>18, <1>19,
            <1>20, <1>21 DEF DelegationNext

-----------------------------------------------------------------------------
(* Memory *)

Counts == [count : Nat, quiet : BOOLEAN]
Stores == [fact : Facts, cue : SUBSET Cues, seen : MaybeCues]
MemoryTyped ==
  /\ row \in [Facts -> MaybeCues] /\ index \in [Facts -> MaybeCues]
  /\ given \in [Facts -> SUBSET Cues] /\ held \in [Facts -> SUBSET Cues] /\ whole \in BOOLEAN
  /\ healing \in [Processes -> {Healed} \cup Counts]
  /\ writing \in [Writers -> {Resting} \cup Stores]
\* A count taken beside no store is the count of the entries now.
CountIsFresh(p) ==
  healing[p] # Healed /\ healing[p].quiet => healing[p].count = Cardinality(Stored)
\* A store of an entry nobody else wrote has read it as it is.
ReadIsFresh(w) ==
  writing[w] # Resting /\ writing[w].fact \notin raced => writing[w].seen = row[writing[w].fact]
MemoryInv ==
  /\ MemoryTyped
  /\ Indexed \subseteq Stored /\ (whole => Stored \subseteq Indexed)
  /\ \A p \in Processes : CountIsFresh(p)
  /\ \A w \in Writers : ReadIsFresh(w)
  /\ CuesAreKept

\* The first of a list are all of it or as many as asked for.
LEMMA CappedIs ==
  ASSUME NEW S, IsFiniteSet(S), NEW n \in Nat, NEW t \in Capped(S, n)
  PROVE  /\ t \subseteq S /\ IsFiniteSet(t) /\ Cardinality(t) \in Nat /\ Cardinality(t) <= n
         /\ t = S \/ Cardinality(t) = n
<1>1. t \in SUBSET S /\ Cardinality(t) = IF Cardinality(S) <= n THEN Cardinality(S) ELSE n
  BY DEF Capped
<1>2. /\ IsFiniteSet(t) /\ Cardinality(t) \in Nat /\ Cardinality(S) \in Nat
      /\ Cardinality(t) = Cardinality(S) => t = S
  BY <1>1, FS_Subset, FS_CardinalityType
<1>. QED BY <1>1, <1>2

LEMMA StoredIsFinite == IsFiniteSet(Stored) /\ Cardinality(Stored) \in Nat
BY MemoryAssumption, FS_Subset, FS_CardinalityType DEF Stored

\* When index and table hold the same entries an answer with room misses none.
LEMMA MemoryInvSound ==
  ASSUME MemoryInv PROVE MemoryIsSound
<1>1. ASSUME whole, NEW p \in Processes, NEW f \in Stored, NEW word \in WordsOf[f] \cup row[f],
             NEW hits \in Recall(p, word)
      PROVE  \/ f \in hits \/ Cardinality(hits) = RecallLimit
             \/ word \notin WordsOf[f] /\ Cardinality(Stored) > ScanLimit
  <2>1. PICK scanned \in Capped(Stored, ScanLimit) :
               hits \in Capped(Hits(p, word, scanned), RecallLimit)
    BY <1>1 DEF Recall
  <2>2. scanned \subseteq Stored /\ (Cardinality(Stored) <= ScanLimit => scanned = Stored)
    <3>1. scanned \subseteq Stored /\ (scanned = Stored \/ Cardinality(scanned) = ScanLimit)
      BY StoredIsFinite, MemoryAssumption, CappedIs
    <3>2. /\ Cardinality(scanned) <= Cardinality(Stored)
          /\ Cardinality(scanned) = Cardinality(Stored) => scanned = Stored
      BY <3>1, StoredIsFinite, FS_Subset
    <3>. QED BY <3>1, <3>2, StoredIsFinite, MemoryAssumption
  <2> SUFFICES ASSUME word \in WordsOf[f] \/ Cardinality(Stored) <= ScanLimit
               PROVE  f \in hits \/ Cardinality(hits) = RecallLimit
    BY <1>1, StoredIsFinite, MemoryAssumption
  <2>3. f \in FtsHits(word, scanned) /\ FtsHits(word, scanned) \subseteq Stored
    <3>1. f \in Indexed
      BY <1>1 DEF MemoryInv
    <3>2. word \in WordsOf[f] \/ (word \in row[f] /\ f \in scanned)
      BY <1>1, <2>2
    <3>. QED BY <1>1, <2>2, <3>1, <3>2 DEF FtsHits
  <2>4. f \in LikeHits(word) /\ LikeHits(word) \subseteq Stored
    BY <1>1 DEF LikeHits
  <2>5. f \in Hits(p, word, scanned) /\ Hits(p, word, scanned) \subseteq Stored
    BY <2>3, <2>4 DEF Hits
  <2>6. IsFiniteSet(Hits(p, word, scanned))
    BY <2>5, StoredIsFinite, FS_Subset
  <2>7. hits = Hits(p, word, scanned) \/ Cardinality(hits) = RecallLimit
    BY <2>1, <2>6, MemoryAssumption, CappedIs
  <2>. QED BY <2>5, <2>7
<1>2. RecallFinds
  BY <1>1 DEF RecallFinds
<1>. QED BY <1>2 DEF MemoryIsSound, MemoryInv

LEMMA MemoryInvInit ==
  ASSUME MemoryInit PROVE MemoryInv
<1>1. MemoryTyped
  BY DEF MemoryInit, MemoryTyped, MaybeCues
<1>2. Indexed \subseteq Stored /\ Stored = {}
  BY DEF MemoryInit, Indexed, Stored
<1>3. \A p \in Processes : CountIsFresh(p)
  BY DEF MemoryInit, CountIsFresh
<1>4. \A w \in Writers : ReadIsFresh(w)
  BY DEF MemoryInit, ReadIsFresh
<1>5. CuesAreKept
  BY DEF MemoryInit, CuesAreKept
<1>. QED BY <1>1, <1>2, <1>3, <1>4, <1>5 DEF MemoryInv

\* What a store leaves fits, holds what it read, and all it was given unless it
\* is full.
LEMMA UnionIsCues ==
  ASSUME NEW seen \in MaybeCues, NEW cue \in SUBSET Cues, NEW left \in UnionCues(seen, cue)
  PROVE  /\ left \in MaybeCues /\ left # None /\ left \in SUBSET Cues
         /\ OldCues(seen) \subseteq left
         /\ cue \subseteq left \/ Cardinality(left) = MaxCues
<1> DEFINE old == OldCues(seen)
<1>1. PICK t \in Capped(cue, MaxCues) :
             \E more \in Capped(t \ old, MaxCues - Cardinality(old)) : left = old \cup more
  BY Zenon DEF UnionCues
<1>2. old \in SUBSET Cues /\ IsFiniteSet(old) /\ Cardinality(old) \in Nat
      /\ Cardinality(old) <= MaxCues
  <2>1. old \in SUBSET Cues /\ (old = {} \/ Cardinality(old) <= MaxCues)
    BY DEF OldCues, MaybeCues
  <2>2. IsFiniteSet(old) /\ Cardinality(old) \in Nat
    BY <2>1, MemoryAssumption, FS_Subset, FS_CardinalityType
  <2>3. old = {} => Cardinality(old) = 0
    BY FS_EmptySet
  <2> HIDE DEF old
  <2>. QED BY <2>1, <2>2, <2>3, MemoryAssumption
<1> HIDE DEF old
<1> DEFINE room == MaxCues - Cardinality(old)
<1>3. room \in Nat
  BY <1>2, MemoryAssumption
<1>4. PICK more \in Capped(t \ old, room) : left = old \cup more
  BY <1>1
<1>5. /\ t \subseteq cue /\ IsFiniteSet(t) /\ Cardinality(t) \in Nat
      /\ t = cue \/ Cardinality(t) = MaxCues
  <2>1. IsFiniteSet(cue)
    BY MemoryAssumption, FS_Subset
  <2>. QED BY <2>1, MemoryAssumption, CappedIs
<1>6. IsFiniteSet(t \ old) /\ Cardinality(t \ old) \in Nat
  BY <1>5, FS_Subset, FS_CardinalityType
<1>7. /\ more \subseteq t \ old /\ IsFiniteSet(more) /\ Cardinality(more) \in Nat
      /\ Cardinality(more) <= room /\ (more = t \ old \/ Cardinality(more) = room)
  <2> HIDE DEF room
  <2>. QED BY <1>3, <1>6, CappedIs
<1>8. left \in SUBSET Cues /\ old \subseteq left /\ left # None
  BY <1>2, <1>4, <1>5, <1>7, MemoryAssumption
<1>9. Cardinality(left) = Cardinality(old) + Cardinality(more)
  <2>1. Cardinality(old \cup more) = Cardinality(old) + Cardinality(more) - Cardinality(old \cap more)
    BY <1>2, <1>7, FS_Union
  <2>2. old \cap more = {} /\ Cardinality({}) = 0
    BY <1>7, FS_EmptySet
  <2>3. Cardinality(old \cap more) = 0
    BY <2>2, Zenon
  <2>4. Cardinality(left) = Cardinality(old \cup more)
    BY <1>4, Zenon
  <2>. QED BY <1>2, <1>7, <2>1, <2>3, <2>4
<1>10. Cardinality(left) <= MaxCues /\ (Cardinality(more) = room => Cardinality(left) = MaxCues)
  BY <1>2, <1>7, <1>9, MemoryAssumption
<1>11. ASSUME more = t \ old, Cardinality(more) # room PROVE t = cue /\ cue \subseteq left
  <2>1. t \subseteq left
    BY <1>4, <1>11
  <2>2. Cardinality(t) <= Cardinality(left)
    <3>1. IsFiniteSet(left)
      BY <1>8, MemoryAssumption, FS_Subset
    <3>. QED BY <2>1, <3>1, FS_Subset
  <2>3. Cardinality(left) < MaxCues
    BY <1>2, <1>7, <1>9, <1>10, <1>11, MemoryAssumption
  <2>4. Cardinality(t) # MaxCues
    BY <1>5, <1>2, <1>7, <1>9, <2>2, <2>3, MemoryAssumption
  <2>. QED BY <1>5, <2>1, <2>4
<1>12. cue \subseteq left \/ Cardinality(left) = MaxCues
  BY <1>7, <1>10, <1>11
<1>13. left \in MaybeCues
  BY <1>8, <1>10 DEF MaybeCues
<1>. QED BY <1>8, <1>12, <1>13 DEF old

\* The steps that write neither table, index nor history leave the invariant when
\* the new store or count is fresh.
LEMMA MemoryKept ==
  ASSUME MemoryInv, UNCHANGED <<row, index, given, held, raced, whole>>,
         healing' \in [Processes -> {Healed} \cup Counts],
         writing' \in [Writers -> {Resting} \cup Stores],
         \A p \in Processes : healing'[p] = healing[p] \/
             (healing'[p].count = Cardinality(Stored)),
         \A w \in Writers : \/ writing'[w] = writing[w] \/ writing'[w] = Resting
                            \/ writing'[w].seen = row[writing'[w].fact]
  PROVE  MemoryInv'
<1>1. MemoryTyped'
  BY DEF MemoryInv, MemoryTyped
<1>2. Indexed' = Indexed /\ Stored' = Stored
  BY DEF Indexed, Stored
<1>3. \A p \in Processes : CountIsFresh(p)'
  BY <1>2 DEF MemoryInv, CountIsFresh
<1>4. \A w \in Writers : ReadIsFresh(w)'
  BY DEF MemoryInv, ReadIsFresh
<1>5. CuesAreKept'
  BY DEF MemoryInv, CuesAreKept
<1>. QED BY <1>1, <1>2, <1>3, <1>4, <1>5 DEF MemoryInv

LEMMA WriteKeeps ==
  ASSUME MemoryInv, NEW w \in Writers, WriteEntry(w)
  PROVE  MemoryInv'
<1> DEFINE store == writing[w]
<1>1. store \in Stores /\ store # Resting
  BY DEF MemoryInv, MemoryTyped, WriteEntry
<1>2. /\ store.fact \in Facts /\ store.cue \in SUBSET Cues /\ store.seen \in MaybeCues
  BY <1>1 DEF Stores
<1>4. PICK left \in UnionCues(store.seen, store.cue) :
      /\ row' = [row EXCEPT ![store.fact] = left]
      /\ Upsert(w, store.fact, left)
      /\ held' = [held EXCEPT ![store.fact] = @ \cup left]
      /\ given' = [given EXCEPT ![store.fact] = @ \cup store.cue]
      /\ raced' = IF Conflicts(w) = {} THEN raced ELSE raced \cup {store.fact}
      /\ writing' = [writing EXCEPT ![w] = Resting]
      /\ healing' = [p \in Processes |-> IF healing[p] = Healed THEN Healed
                                         ELSE [healing[p] EXCEPT !.quiet = FALSE]]
  BY DEF WriteEntry
<1>3. /\ left \in MaybeCues /\ left # None /\ left \in SUBSET Cues
      /\ OldCues(store.seen) \subseteq left
      /\ store.cue \subseteq left \/ Cardinality(left) = MaxCues
  <2> HIDE DEF store
  <2>. QED BY <1>2, UnionIsCues
<1>5. ReadIsFresh(w)
  BY DEF MemoryInv
<1>6. store.fact \notin raced => store.seen = row[store.fact]
  BY <1>1, <1>5 DEF ReadIsFresh
<1>7. \A v \in Writers \ {w} : writing[v].fact = store.fact => Conflicts(w) # {}
  BY DEF Conflicts
<1>8. /\ index' \in [Facts -> MaybeCues] /\ whole' \in BOOLEAN /\ (whole' => whole)
      /\ \A f \in Facts \ {store.fact} : index'[f] = index[f]
      /\ whole' => index'[store.fact] = left
  <2>1. /\ index \in [Facts -> MaybeCues] /\ whole \in BOOLEAN
        /\ left \in MaybeCues /\ None \in MaybeCues
    BY <1>3 DEF MemoryInv, MemoryTyped, MaybeCues
  <2> HIDE DEF store
  <2>2. CASE index' = [index EXCEPT ![store.fact] = left] /\ whole' = whole
    BY <2>1, <2>2, <1>2
  <2>3. CASE index' \in {index, [index EXCEPT ![store.fact] = None]} /\ whole' = FALSE
    BY <2>1, <2>3, <1>2
  <2>. QED BY <1>4, <2>2, <2>3 DEF Upsert
<1> HIDE DEF store
<1>9. /\ row \in [Facts -> MaybeCues] /\ given \in [Facts -> SUBSET Cues]
      /\ held \in [Facts -> SUBSET Cues]
  BY DEF MemoryInv, MemoryTyped
<1>10. /\ row' \in [Facts -> MaybeCues] /\ given' \in [Facts -> SUBSET Cues]
       /\ held' \in [Facts -> SUBSET Cues]
       /\ row'[store.fact] = left /\ given'[store.fact] = given[store.fact] \cup store.cue
       /\ held'[store.fact] = held[store.fact] \cup left
       /\ \A f \in Facts \ {store.fact} :
            row'[f] = row[f] /\ given'[f] = given[f] /\ held'[f] = held[f]
  BY <1>2, <1>3, <1>4, <1>9
<1>11. /\ healing' \in [Processes -> {Healed} \cup Counts]
       /\ \A p \in Processes : healing'[p] # Healed => healing'[p].quiet = FALSE
  BY <1>4 DEF MemoryInv, MemoryTyped, Counts
<1>12. /\ writing' \in [Writers -> {Resting} \cup Stores] /\ writing'[w] = Resting
       /\ \A v \in Writers \ {w} : writing'[v] = writing[v]
  BY <1>4 DEF MemoryInv, MemoryTyped
<1>13. MemoryTyped'
  BY <1>8, <1>10, <1>11, <1>12 DEF MemoryTyped
<1>14. store.fact \in Stored'
  BY <1>2, <1>3, <1>10 DEF Stored
<1>15. Indexed' \subseteq Stored'
  <2>1. SUFFICES ASSUME NEW f \in Indexed', f # store.fact PROVE f \in Stored'
    BY <1>14
  <2>2. f \in Indexed
    BY <2>1, <1>8 DEF Indexed
  <2>3. f \in Stored
    BY <2>2 DEF MemoryInv
  <2>. QED BY <2>1, <2>3, <1>10 DEF Stored
<1>16. whole' => Stored' \subseteq Indexed'
  <2>1. SUFFICES ASSUME whole', NEW f \in Stored' PROVE f \in Indexed'
    OBVIOUS
  <2>2. CASE f = store.fact
    BY <2>1, <2>2, <1>2, <1>3, <1>8 DEF Indexed
  <2>3. CASE f # store.fact
    <3>1. f \in Stored
      BY <2>1, <2>3, <1>10 DEF Stored
    <3>2. f \in Indexed
      BY <2>1, <3>1, <1>8 DEF MemoryInv
    <3>. QED BY <2>3, <3>2, <1>8 DEF Indexed
  <2>. QED BY <2>2, <2>3
<1>17. \A p \in Processes : CountIsFresh(p)'
  BY <1>11 DEF CountIsFresh
<1>18. raced \subseteq raced'
  BY <1>4
<1>19. ASSUME NEW v \in Writers PROVE ReadIsFresh(v)'
  <2>1. CASE v = w
    BY <2>1, <1>12 DEF ReadIsFresh
  <2>2. CASE v # w
    <3>1. SUFFICES ASSUME writing[v] # Resting, writing[v].fact \notin raced'
                   PROVE  writing[v].seen = row'[writing[v].fact]
      BY <2>2, <1>12 DEF ReadIsFresh
    <3>2. writing[v].fact # store.fact
      BY <3>1, <2>2, <1>4, <1>7
    <3>3. writing[v].fact \in Facts
      BY <3>1 DEF MemoryInv, MemoryTyped, Stores
    <3>4. writing[v].seen = row[writing[v].fact]
      BY <3>1, <1>18 DEF MemoryInv, ReadIsFresh
    <3>. QED BY <3>2, <3>3, <3>4, <1>10
  <2>. QED BY <2>1, <2>2
<1>20. CuesAreKept'
  <2> DEFINE Kept(cues, told, had) ==
        IF cues = None THEN told \cup had = {}
        ELSE had \subseteq cues /\ (told \subseteq cues \/ Cardinality(cues) = MaxCues)
  <2>1. SUFFICES ASSUME NEW f \in Facts, f \notin raced'
                 PROVE  Kept(row'[f], given'[f], held'[f])
    BY DEF CuesAreKept
  <2>2. Kept(row[f], given[f], held[f])
    BY <2>1, <1>18 DEF MemoryInv, CuesAreKept
  <2>3. CASE f = store.fact
    <3>1. OldCues(row[f]) \subseteq left
      BY <2>1, <2>3, <1>3, <1>6, <1>18
    <3>2. CASE row[f] = None
      BY <2>2, <2>3, <3>2, <1>3, <1>10
    <3>3. CASE row[f] # None
      <4>1. row[f] \subseteq left /\ held[f] \subseteq left
        BY <2>2, <3>1, <3>3 DEF OldCues
      <4>2. Cardinality(row[f]) = MaxCues => Cardinality(left) = MaxCues
        <5>1. IsFiniteSet(left) /\ Cardinality(left) \in Nat /\ Cardinality(left) <= MaxCues
          BY <1>3, MemoryAssumption, FS_Subset, FS_CardinalityType DEF MaybeCues
        <5>2. Cardinality(row[f]) <= Cardinality(left)
          BY <4>1, <5>1, FS_Subset
        <5>. QED BY <5>1, <5>2, MemoryAssumption
      <4>3. \/ given[f] \cup store.cue \subseteq left
            \/ Cardinality(left) = MaxCues
        BY <2>2, <3>3, <4>1, <4>2, <1>3
      <4>. QED BY <2>3, <4>1, <4>3, <1>3, <1>10
    <3>. QED BY <3>2, <3>3
  <2>4. CASE f # store.fact
    BY <2>2, <2>4, <1>10
  <2>. QED BY <2>3, <2>4
<1>. QED BY <1>13, <1>15, <1>16, <1>17, <1>19, <1>20 DEF MemoryInv

\* When the counts agree and no store fell between them the index is whole: it
\* holds only stored entries, and as many as there are.
LEMMA HealKeeps ==
  ASSUME MemoryInv, NEW p \in Processes, Heal(p)
  PROVE  MemoryInv'
<1>1. /\ UNCHANGED <<row, given, held, raced, writing>>
      /\ healing[p] # Healed /\ healing' = [healing EXCEPT ![p] = Healed]
  BY DEF Heal
<1>2. Stored' = Stored
  BY <1>1 DEF Stored
<1>3. index' \in [Facts -> MaybeCues] /\ whole' \in BOOLEAN
  <2>1. healing[p] \in Counts
    BY <1>1 DEF MemoryInv, MemoryTyped
  <2>2. healing[p].quiet \in BOOLEAN
    BY <2>1 DEF Counts
  <2>3. CASE UNCHANGED index /\ whole' = (whole \/ healing[p].quiet)
    BY <2>2, <2>3 DEF MemoryInv, MemoryTyped
  <2>4. CASE index' = row /\ whole' = TRUE
    BY <2>4 DEF MemoryInv, MemoryTyped
  <2>5. CASE /\ \E part \in SUBSET Stored :
                  index' = [f \in Facts |-> IF f \in part THEN row[f] ELSE None]
             /\ whole' = FALSE
    BY <2>5 DEF MemoryInv, MemoryTyped, MaybeCues
  <2>. QED BY <2>3, <2>4, <2>5 DEF Heal
<1>4. /\ healing' \in [Processes -> {Healed} \cup Counts]
      /\ \A q \in Processes : healing'[q] = healing[q] \/ healing'[q] = Healed
  BY <1>1 DEF MemoryInv, MemoryTyped
<1>5. MemoryTyped'
  BY <1>1, <1>3, <1>4 DEF MemoryInv, MemoryTyped
<1>6. Indexed' \subseteq Stored' /\ (whole' => Stored' \subseteq Indexed')
  <2>1. CASE ~NeedsHeal(p) /\ UNCHANGED index /\ whole' = (whole \/ healing[p].quiet)
    <3>1. Indexed' = Indexed
      BY <2>1 DEF Indexed
    <3>2. Indexed \subseteq Stored /\ (whole => Stored \subseteq Indexed)
      BY DEF MemoryInv
    <3>3. healing[p].quiet => healing[p].count = Cardinality(Stored)
      BY <1>1 DEF MemoryInv, CountIsFresh
    <3>4. healing[p].quiet => Cardinality(Indexed) = Cardinality(Stored)
      BY <2>1, <3>3 DEF NeedsHeal
    <3>5. healing[p].quiet => Indexed = Stored
      BY <3>2, <3>4, StoredIsFinite, FS_Subset
    <3>. QED BY <2>1, <3>1, <3>2, <3>5, <1>2
  <2>2. CASE index' = row /\ whole' = TRUE
    BY <2>2, <1>2 DEF Indexed, Stored
  <2>3. CASE /\ \E part \in SUBSET Stored :
                  index' = [f \in Facts |-> IF f \in part THEN row[f] ELSE None]
             /\ whole' = FALSE
    BY <2>3, <1>2 DEF Indexed, Stored
  <2>. QED BY <2>1, <2>2, <2>3 DEF Heal
<1>7. \A q \in Processes : CountIsFresh(q)'
  BY <1>2, <1>4 DEF MemoryInv, CountIsFresh
<1>8. \A w \in Writers : ReadIsFresh(w)'
  BY <1>1 DEF MemoryInv, ReadIsFresh
<1>9. CuesAreKept'
  BY <1>1 DEF MemoryInv, CuesAreKept
<1>. QED BY <1>5, <1>6, <1>7, <1>8, <1>9 DEF MemoryInv

\* A store reads the entry: what it has read is what there is.
LEMMA ReadKeeps ==
  ASSUME MemoryInv, NEW w \in Writers, NEW f \in Facts, NEW cue \in SUBSET Cues,
         ReadEntry(w, f, cue), UNCHANGED <<row, index, healing, given, held, raced, whole>>
  PROVE  MemoryInv'
<1> DEFINE store == [fact |-> f, cue |-> cue, seen |-> row[f]]
<1>1. writing' = [writing EXCEPT ![w] = store]
  BY DEF ReadEntry
<1>2. store \in Stores /\ store.seen = row[store.fact]
  BY DEF Stores, MemoryInv, MemoryTyped
<1> HIDE DEF store
<1>3. /\ writing' \in [Writers -> {Resting} \cup Stores] /\ writing'[w] = store
      /\ \A v \in Writers \ {w} : writing'[v] = writing[v]
  BY <1>1, <1>2 DEF MemoryInv, MemoryTyped
<1>4. healing' \in [Processes -> {Healed} \cup Counts]
  BY DEF MemoryInv, MemoryTyped
<1>. QED BY <1>2, <1>3, <1>4, MemoryKept

LEMMA BeginKeeps ==
  ASSUME MemoryInv, NEW p \in Processes, Begin(p)
  PROVE  MemoryInv'
<1> DEFINE counted == [count |-> Cardinality(Stored), quiet |-> TRUE]
<1>1. counted \in Counts /\ counted.count = Cardinality(Stored)
  BY StoredIsFinite DEF Counts
<1>2. healing' = [healing EXCEPT ![p] = counted]
  BY DEF Begin
<1> HIDE DEF counted
<1>3. /\ healing' \in [Processes -> {Healed} \cup Counts]
      /\ \A q \in Processes : healing'[q] = healing[q] \/ healing'[q] = counted
  BY <1>1, <1>2 DEF MemoryInv, MemoryTyped
<1>4. /\ writing' \in [Writers -> {Resting} \cup Stores]
      /\ \A w \in Writers : writing'[w] = writing[w] \/ writing'[w] = Resting
  BY DEF Begin, MemoryInv, MemoryTyped
<1>5. UNCHANGED <<row, index, given, held, raced, whole>>
  BY DEF Begin
<1>. QED BY <1>1, <1>3, <1>4, <1>5, MemoryKept

LEMMA MemoryInvStep ==
  ASSUME MemoryInv, [MemoryNext]_memoryVars PROVE MemoryInv'
<1>1. ASSUME UNCHANGED <<row, index, healing, writing, given, held, raced, whole>>
      PROVE  MemoryInv'
  <2>1. /\ healing' \in [Processes -> {Healed} \cup Counts]
        /\ writing' \in [Writers -> {Resting} \cup Stores]
    BY <1>1 DEF MemoryInv, MemoryTyped
  <2>. QED BY <1>1, <2>1, MemoryKept
<1>2. CASE UNCHANGED memoryVars
  BY <1>1, <1>2 DEF memoryVars
<1>3. CASE TakeTurn \/ GiveTurn
  BY <1>1, <1>3 DEF TakeTurn, GiveTurn
<1>4. ASSUME NEW w \in StoreCalls, NEW f \in Facts, NEW cue \in CueSets, MemoryStore(w, f, cue)
      PROVE  MemoryInv'
  BY <1>4, ReadKeeps, MemoryAssumption DEF MemoryStore, Writers
<1>5. ASSUME NEW p \in Curators, NEW facts \in (SUBSET Facts) \ {{}}, Curate(p, facts)
      PROVE  MemoryInv'
  BY <1>1, <1>5 DEF Curate
<1>6. ASSUME NEW p \in Curators, NEW f \in Facts, NEW cue \in CueSets, Merge(p, f, cue)
      PROVE  MemoryInv'
  BY <1>6, ReadKeeps, MemoryAssumption DEF Merge, Writers
<1>7. ASSUME NEW p \in Curators, Curated(p)
      PROVE  MemoryInv'
  BY <1>1, <1>7 DEF Curated
<1>8. ASSUME NEW w \in Writers, StoreFails(w)
      PROVE  MemoryInv'
  <2>1. /\ writing' \in [Writers -> {Resting} \cup Stores]
        /\ \A v \in Writers : writing'[v] = writing[v] \/ writing'[v] = Resting
    BY <1>8 DEF StoreFails, MemoryInv, MemoryTyped
  <2>2. UNCHANGED <<row, index, healing, given, held, raced, whole>>
    BY <1>8 DEF StoreFails
  <2>3. healing' \in [Processes -> {Healed} \cup Counts]
    BY <2>2 DEF MemoryInv, MemoryTyped
  <2>. QED BY <2>1, <2>2, <2>3, MemoryKept
<1>. QED BY <1>2, <1>3, <1>4, <1>5, <1>6, <1>7, <1>8, WriteKeeps, BeginKeeps, HealKeeps DEF MemoryNext

\* What a curator has left, whose the gate is, and what was written in a race.
MemoryRest ==
  /\ curator \in [Curators -> (SUBSET Facts) \cup {None}] /\ turn \in {None, "request", "curator"}
  /\ raced \subseteq Facts /\ indexing \in [Processes -> BOOLEAN]

LEMMA MemoryIsTyped == MemoryInv /\ MemoryRest => MemoryTypeOK
BY DEF MemoryInv, MemoryTyped, MemoryRest, MemoryTypeOK, Counts, Stores

LEMMA MemoryRestInit == MemoryInit => MemoryRest
BY DEF MemoryInit, MemoryRest, Curators

LEMMA MemoryRestStep ==
  ASSUME MemoryInv, MemoryRest, [MemoryNext]_memoryVars PROVE MemoryRest'
<1>0. Curators = Processes /\ \A w : ProcessOf(w) \in Processes
  BY DEF Curators, Processes, ProcessOf
<1>1. CASE TakeTurn \/ GiveTurn
  BY <1>1 DEF TakeTurn, GiveTurn, MemoryRest
<1>2. ASSUME NEW w, NEW f, NEW cues, MemoryStore(w, f, cues) PROVE MemoryRest'
  BY <1>2 DEF MemoryStore, MemoryRest
<1>3. ASSUME NEW p \in Curators, NEW facts \in SUBSET Facts, Curate(p, facts) PROVE MemoryRest'
  BY <1>3 DEF Curate, MemoryRest
<1>4. ASSUME NEW p \in Curators, NEW f \in Facts, NEW cues, Merge(p, f, cues) PROVE MemoryRest'
  <2>1. curator[p] \ {f} \in SUBSET Facts
    BY <1>4 DEF Merge, MemoryRest
  <2>. QED BY <1>4, <2>1 DEF Merge, MemoryRest
<1>5. ASSUME NEW p \in Curators, Curated(p) PROVE MemoryRest'
  BY <1>5 DEF Curated, MemoryRest
<1>6. ASSUME NEW w \in Writers, WriteEntry(w) PROVE MemoryRest'
  <2>1. writing[w].fact \in Facts
    BY <1>6 DEF WriteEntry, MemoryInv, MemoryTyped, Stores
  <2>2. indexing' = indexing \/ indexing' = [indexing EXCEPT ![ProcessOf(w)] = FALSE]
    BY <1>6 DEF WriteEntry, Upsert
  <2>. QED BY <1>6, <1>0, <2>1, <2>2 DEF WriteEntry, MemoryRest
<1>7. ASSUME NEW w \in Writers, StoreFails(w) PROVE MemoryRest'
  BY <1>7 DEF StoreFails, MemoryRest
<1>8. ASSUME NEW p \in Processes, Begin(p) PROVE MemoryRest'
  BY <1>8, <1>0 DEF Begin, MemoryRest
<1>9. ASSUME NEW p \in Processes, Heal(p) PROVE MemoryRest'
  <2>1. indexing' = indexing \/ indexing' = [indexing EXCEPT ![p] = FALSE]
    BY <1>9 DEF Heal
  <2>. QED BY <1>9, <1>0, <2>1 DEF Heal, MemoryRest
<1>10. CASE UNCHANGED memoryVars
  BY <1>10 DEF memoryVars, MemoryRest
<1>. QED BY <1>1, <1>2, <1>3, <1>4, <1>5, <1>6, <1>7, <1>8, <1>9, <1>10 DEF MemoryNext

-----------------------------------------------------------------------------
(* The journal of writes and the undo *)

Changes == [run : AgentRuns, file : Files, op : {"create", "modify"}, before : Contents,
            after : Contents, kept : BOOLEAN, status : {"open", "reverted"}]
OnFile(t, f) == t.pc # "idle" /\ t.file = f
Calling == [pc : {"running", "ran", "record"}, run : AgentRuns, file : Files,
            out : Files, before : Contents, after : Contents,
            kept : BOOLEAN, warned : BOOLEAN]
WritesTo(t, f) == t.pc \in {"running", "ran"} /\ t.file = f

\* The copy of the only call of a run on a file is what the file was before it.
CopyIsOf(t) ==
  /\ begun[t.run][t.file] # 0
  /\ t.kept => t.before # None
  /\ t.kept /\ begun[t.run][t.file] = 1 => backups[t.run][t.file] = t.before

JournalShape ==
  /\ onDisk \in [Files -> Contents] /\ content \in 0..MaxContents
  /\ DOMAIN knows = AgentRuns /\ \A r \in AgentRuns : DOMAIN knows[r] = Files
  /\ backups \in [AgentRuns -> [Files -> Contents]]
  /\ sets \in [AgentRuns -> {"none", "open", "reverted"}]
  /\ live \subseteq AgentRuns /\ reads \in [AgentRuns -> SUBSET Files] /\ writer \in [Files -> AgentRuns \cup {None}]
  /\ begun \in [AgentRuns -> [Files -> Nat]]
  /\ DOMAIN tool = ToolCalls /\ DOMAIN undo = Undoers
  /\ \A k \in ToolCalls : tool[k] = NoTool \/ (tool[k] \in Calling /\ tool[k].run \in live)
  /\ rows \in Seq(Changes)
  /\ \A v \in Undoers : undo[v].pc # "idle" => undo[v].row \in DOMAIN rows
  /\ \A r \in AgentRuns : reads[r] # {} => r \in live \cup over

\* While nothing crosses on a file: the one call that writes it knows what it
\* holds, and so does a run that has read it and whom no other has followed.
KnownIsThere ==
  \A f \in Files : f \notin mixed =>
    /\ \A k, h \in ToolCalls : OnFile(tool[k], f) /\ OnFile(tool[h], f) => k = h
    /\ \A k \in ToolCalls : WritesTo(tool[k], f) /\ onDisk[f] # None =>
         onDisk[f] = knows[tool[k].run][f]
    /\ \A r \in live : f \in reads[r] /\ writer[f] \in {None, r} /\ onDisk[f] # None
                       /\ (\A k \in ToolCalls : ~WritesTo(tool[k], f)) =>
         onDisk[f] = knows[r][f]

CopiesAreRight ==
  /\ \A k \in ToolCalls : tool[k].pc # "idle" => CopyIsOf(tool[k])
  /\ \A i \in DOMAIN rows : /\ CopyIsOf(rows[i])
                            /\ rows[i].op = "create" => rows[i].before = None

JournalInv == JournalShape /\ KnownIsThere /\ CopiesAreRight

LEMMA RowsAre ==
  ASSUME JournalShape
  PROVE  /\ Len(rows) \in Nat /\ DOMAIN rows = 1..Len(rows)
         /\ \A i \in DOMAIN rows : rows[i] \in Changes
BY ElementOfSeq, LenProperties DEF JournalShape

LEMMA JournalTyped == JournalShape => JournalTypeOK
<1> SUFFICES ASSUME JournalShape PROVE JournalTypeOK
  OBVIOUS
<1>1. \A i \in DOMAIN rows : rows[i] \in Changes
  BY RowsAre
<1>. QED BY <1>1 DEF JournalShape, JournalTypeOK, Changes

LEMMA JournalInvInit == JournalInit => JournalInv
BY JournalAssumption DEF JournalAssumption, JournalInit, JournalInv, JournalShape, KnownIsThere, CopiesAreRight, NoTool, NoUndo, Contents, WritesTo,
       OnFile

LEMMA OpenCall ==
  ASSUME JournalShape, NEW k \in ToolCalls, tool[k].pc # "idle"
  PROVE  /\ tool[k] \in Calling /\ tool[k].run \in live
         /\ tool[k].run \in AgentRuns /\ tool[k].file \in Files /\ tool[k].out \in Files
BY DEF JournalShape, NoTool, Calling

\* A call moves on.
LEMMA CallMoves ==
  ASSUME JournalShape, NEW k \in ToolCalls, NEW t, tool' = [tool EXCEPT ![k] = t]
  PROVE  /\ DOMAIN tool' = ToolCalls /\ tool'[k] = t
         /\ \A h \in ToolCalls : h # k => tool'[h] = tool[h]
BY DEF JournalShape

LEMMA StartRunKeeps ==
  ASSUME JournalInv, NEW r \in AgentRuns, StartRun(r)
  PROVE  JournalInv'
<1>1. JournalShape'
  BY DEF JournalInv, JournalShape, Calling, StartRun, NoTool, NoUndo
<1>2. KnownIsThere'
  BY DEF JournalInv, JournalShape, Calling, KnownIsThere, StartRun, NoTool, OnFile, WritesTo
<1>3. CopiesAreRight'
  BY DEF JournalInv, JournalShape, Calling, CopiesAreRight, CopyIsOf, StartRun, NoTool
<1>. QED BY <1>1, <1>2, <1>3 DEF JournalInv

LEMMA EndRunKeeps ==
  ASSUME JournalInv, NEW r \in AgentRuns, EndRun(r)
  PROVE  JournalInv'
<1>1. JournalShape'
  BY DEF JournalInv, JournalShape, Calling, EndRun, NoTool, NoUndo
<1>2. KnownIsThere'
  BY DEF JournalInv, JournalShape, Calling, KnownIsThere, EndRun, NoTool, OnFile, WritesTo
<1>3. CopiesAreRight'
  BY DEF JournalInv, JournalShape, Calling, CopiesAreRight, CopyIsOf, EndRun, NoTool
<1>. QED BY <1>1, <1>2, <1>3 DEF JournalInv

LEMMA ReadFileKeeps ==
  ASSUME JournalInv, NEW r \in AgentRuns, NEW f \in Files, ReadFile(r, f)
  PROVE  JournalInv'
<1>1. JournalShape'
  BY DEF JournalInv, JournalShape, Calling, ReadFile, NoTool, NoUndo
<1>2. KnownIsThere'
  BY DEF JournalInv, JournalShape, Calling, KnownIsThere, ReadFile, NoTool, OnFile, WritesTo
<1>3. CopiesAreRight'
  BY DEF JournalInv, JournalShape, Calling, CopiesAreRight, CopyIsOf, ReadFile, NoTool
<1>. QED BY <1>1, <1>2, <1>3 DEF JournalInv

LEMMA ToolWritesKeeps ==
  ASSUME JournalInv, NEW k \in ToolCalls, ToolWrites(k)
  PROVE  JournalInv'
<1> DEFINE r == tool[k].run
           f == tool[k].out
           t == [tool[k] EXCEPT !.pc = "ran"]
<1>1. /\ JournalShape /\ KnownIsThere /\ CopiesAreRight /\ tool[k].pc = "running"
      /\ tool' = [tool EXCEPT ![k] = t]
      /\ UNCHANGED <<backups, rows, sets, reads, writer, live, over, undo, begun>>
  BY DEF JournalInv, ToolWrites
<1>2. \/ /\ content' = content + 1 /\ onDisk' = [onDisk EXCEPT ![f] = content']
         /\ knows' = [knows EXCEPT ![r][f] = content']
         /\ mixed' = IF f = tool[k].file THEN mixed ELSE mixed \cup {f}
      \/ UNCHANGED <<content, onDisk, knows, mixed>>
  BY DEF ToolWrites
<1>0. content + 1 \in 0..MaxContents \/ UNCHANGED <<content, onDisk, knows>>
  BY JournalAssumption DEF JournalAssumption, ToolWrites, JournalInv, JournalShape
<1>3. tool[k] \in Calling /\ r \in live /\ r \in AgentRuns /\ f \in Files
  BY <1>1, OpenCall
<1>4. /\ t \in Calling /\ t.pc = "ran" /\ t.run = r /\ t.file = tool[k].file
      /\ t.before = tool[k].before /\ t.kept = tool[k].kept
  BY <1>3 DEF Calling
<1> HIDE DEF t
<1>5. /\ DOMAIN tool' = ToolCalls /\ tool'[k] = t
      /\ \A h \in ToolCalls : h # k => tool'[h] = tool[h]
  BY <1>1, CallMoves
<1>7. /\ onDisk' \in [Files -> Contents] /\ content' \in 0..MaxContents
      /\ DOMAIN knows' = AgentRuns /\ \A q \in AgentRuns : DOMAIN knows'[q] = Files
  <2>1. CASE UNCHANGED <<content, onDisk, knows>>
    BY <1>1, <2>1 DEF JournalShape
  <2>2. CASE /\ content + 1 \in 0..MaxContents
             /\ content' = content + 1 /\ onDisk' = [onDisk EXCEPT ![f] = content']
             /\ knows' = [knows EXCEPT ![r][f] = content']
    <3>1. content' \in Contents
      BY <2>2 DEF Contents
    <3>. QED BY <1>1, <1>3, <2>2, <3>1 DEF JournalShape
  <2>. QED BY <1>0, <1>2, <2>1, <2>2
<1>8. JournalShape'
  BY <1>1, <1>3, <1>4, <1>5, <1>7 DEF JournalShape
<1>9. ASSUME NEW g \in Files, g \notin mixed'
      PROVE  /\ \A h, e \in ToolCalls : OnFile(tool'[h], g) /\ OnFile(tool'[e], g) => h = e
             /\ \A h \in ToolCalls : WritesTo(tool'[h], g) /\ onDisk'[g] # None =>
                  onDisk'[g] = knows'[tool'[h].run][g]
             /\ \A q \in live : g \in reads[q] /\ writer[g] \in {None, q} /\ onDisk'[g] # None
                                /\ (\A h \in ToolCalls : ~WritesTo(tool'[h], g)) =>
                  onDisk'[g] = knows'[q][g]
  <2> DEFINE on(h) == OnFile(tool[h], g)
             onNow(h) == OnFile(tool'[h], g)
             at(h) == WritesTo(tool[h], g)
             atNow(h) == WritesTo(tool'[h], g)
             who(h) == tool[h].run
             whoNow(h) == tool'[h].run
             there == onDisk[g]
             heldNow == onDisk'[g]
             known(q) == knows[q][g]
             knownNow(q) == knows'[q][g]
             has(q) == g \in reads[q] /\ writer[g] \in {None, q}
  <2>1. /\ \A h, e \in ToolCalls : on(h) /\ on(e) => h = e
        /\ \A h \in ToolCalls : at(h) /\ there # None => there = known(who(h))
        /\ \A q \in live : has(q) /\ there # None /\ (\A h \in ToolCalls : ~at(h)) => there = known(q)
    <3>1. g \notin mixed
      BY <1>2, <1>9
    <3>. QED BY <1>1, <3>1 DEF KnownIsThere
  <2>2. /\ on(k) <=> onNow(k)
        /\ at(k) <=> atNow(k)
        /\ who(k) = whoNow(k) /\ who(k) = r
        /\ \A h \in ToolCalls : h # k => onNow(h) = on(h) /\ atNow(h) = at(h) /\ whoNow(h) = who(h)
    BY <1>1, <1>4, <1>5 DEF OnFile, WritesTo
  <2>3. \A h \in ToolCalls : /\ (on(h) <=> onNow(h)) /\ (at(h) <=> atNow(h))
                            /\ who(h) = whoNow(h)
    <3> HIDE DEF on, onNow, at, atNow, who, whoNow
    <3>. QED BY <2>2
  <2>4. \A h \in ToolCalls : (at(h) => on(h)) /\ (at(h) => who(h) \in AgentRuns)
    BY <1>1, OpenCall DEF OnFile, WritesTo
  <2>5. live \subseteq AgentRuns
    BY <1>1 DEF JournalShape
  <2>6. \/ heldNow = there /\ \A q \in AgentRuns : knownNow(q) = known(q)
        \/ on(k) /\ at(k) /\ heldNow = knownNow(r)
    <3>1. CASE UNCHANGED <<content, onDisk, knows>>
      BY <3>1
    <3>2. CASE /\ onDisk' = [onDisk EXCEPT ![f] = content']
               /\ knows' = [knows EXCEPT ![r][f] = content']
               /\ mixed' = IF f = tool[k].file THEN mixed ELSE mixed \cup {f}
      <4>1. CASE g # f
        <5>1. heldNow = there
          BY <1>1, <1>3, <3>2, <4>1 DEF JournalShape
        <5>2. \A q \in AgentRuns : knownNow(q) = known(q)
          BY <1>1, <1>3, <3>2, <4>1 DEF JournalShape
        <5>. QED BY <5>1, <5>2
      <4>2. CASE g = f
        <5>1. heldNow = content' /\ knownNow(r) = content'
          BY <1>1, <1>3, <3>2, <4>2 DEF JournalShape
        <5>2. g = tool[k].file
          BY <1>9, <3>2, <4>2
        <5>3. on(k) /\ at(k)
          BY <1>1, <5>2 DEF OnFile, WritesTo
        <5>. QED BY <5>1, <5>3
      <4>. QED BY <4>1, <4>2
    <3>. QED BY <1>2, <3>1, <3>2
  <2> HIDE DEF on, onNow, at, atNow, who, whoNow, there, heldNow, known, knownNow, has
  <2>7. \A h, e \in ToolCalls : onNow(h) /\ onNow(e) => h = e
    BY <2>1, <2>3
  <2>8. \A h \in ToolCalls : atNow(h) /\ heldNow # None => heldNow = knownNow(whoNow(h))
    BY <2>1, <2>2, <2>3, <2>4, <2>6
  <2>9. \A q \in live : has(q) /\ heldNow # None /\ (\A h \in ToolCalls : ~atNow(h)) =>
                        heldNow = knownNow(q)
    BY <2>1, <2>3, <2>5, <2>6
  <2>. QED BY <2>7, <2>8, <2>9 DEF onNow, atNow, whoNow, heldNow, knownNow, has
<1>10. KnownIsThere'
  BY <1>1, <1>9 DEF KnownIsThere
<1>11. CopiesAreRight'
  BY <1>1, <1>4, <1>5 DEF CopiesAreRight, CopyIsOf
<1>. QED BY <1>8, <1>10, <1>11 DEF JournalInv

\* What no call tracks is written over: the file is mixed.
LEMMA WriteUntrackedKeeps ==
  ASSUME JournalInv, NEW r \in AgentRuns, NEW f \in Files, WriteUntracked(r, f)
  PROVE  JournalInv'
<1>1. /\ JournalShape /\ KnownIsThere /\ CopiesAreRight
      /\ content' = content + 1 /\ onDisk' = [onDisk EXCEPT ![f] = content']
      /\ knows' = [knows EXCEPT ![r][f] = content']
      /\ mixed' = mixed \cup {f}
      /\ UNCHANGED <<backups, rows, sets, reads, writer, live, over, tool, undo, begun>>
  BY DEF JournalInv, WriteUntracked
<1>2. content' \in 0..MaxContents /\ content' \in Contents
  BY JournalAssumption DEF JournalAssumption, WriteUntracked, JournalInv, JournalShape, Contents
<1>3. JournalShape'
  BY <1>1, <1>2 DEF JournalShape
<1>4. \A g \in Files : g \notin mixed' =>
        /\ g \notin mixed /\ onDisk'[g] = onDisk[g]
        /\ \A q \in AgentRuns : knows'[q][g] = knows[q][g]
  BY <1>1 DEF JournalShape
<1>5. \A k \in ToolCalls, g \in Files : WritesTo(tool[k], g) => tool[k].run \in AgentRuns
  BY <1>1, OpenCall DEF WritesTo
<1>6. live \subseteq AgentRuns
  BY <1>1 DEF JournalShape
<1>7. KnownIsThere'
  BY <1>1, <1>4, <1>5, <1>6 DEF KnownIsThere
<1>8. CopiesAreRight'
  BY <1>1 DEF CopiesAreRight, CopyIsOf
<1>. QED BY <1>3, <1>7, <1>8 DEF JournalInv

LEMMA NoteKeeps ==
  ASSUME JournalInv, NEW k \in ToolCalls, Note(k)
  PROVE  JournalInv'
<1> DEFINE r == tool[k].run
           f == tool[k].file
           t == IF onDisk[f] # None /\ onDisk[f] # tool[k].before
                THEN [tool[k] EXCEPT !.pc = "record", !.after = onDisk[f]] ELSE NoTool
<1>1. /\ JournalShape /\ KnownIsThere /\ CopiesAreRight /\ tool[k].pc = "ran"
      /\ tool' = [tool EXCEPT ![k] = t]
      /\ writer' = [writer EXCEPT ![f] = r]
      /\ UNCHANGED <<onDisk, backups, rows, sets, reads, knows, live, over, undo, mixed,
                     content, begun>>
  BY DEF JournalInv, Note
<1>2. tool[k] \in Calling /\ r \in live /\ r \in AgentRuns /\ f \in Files
  BY <1>1, OpenCall
<1>3. onDisk[f] \in Contents
  BY <1>1, <1>2 DEF JournalShape
<1>4. \/ t = NoTool
      \/ /\ t \in Calling /\ t.pc = "record" /\ t.run = r /\ t.file = f
         /\ t.before = tool[k].before /\ t.kept = tool[k].kept
  BY <1>2, <1>3 DEF Calling
<1> HIDE DEF t
<1>5. /\ DOMAIN tool' = ToolCalls /\ tool'[k] = t
      /\ \A h \in ToolCalls : h # k => tool'[h] = tool[h]
  BY <1>1, CallMoves
<1>6. JournalShape'
  BY <1>1, <1>2, <1>4, <1>5 DEF JournalShape
<1>8. ASSUME NEW g \in Files, g \notin mixed
      PROVE  /\ \A h, e \in ToolCalls : OnFile(tool'[h], g) /\ OnFile(tool'[e], g) => h = e
             /\ \A h \in ToolCalls : WritesTo(tool'[h], g) /\ onDisk[g] # None =>
                  onDisk[g] = knows[tool'[h].run][g]
             /\ \A q \in live : g \in reads[q] /\ writer'[g] \in {None, q} /\ onDisk[g] # None
                                /\ (\A h \in ToolCalls : ~WritesTo(tool'[h], g)) =>
                  onDisk[g] = knows[q][g]
  <2> DEFINE on(h) == OnFile(tool[h], g)
             onNow(h) == OnFile(tool'[h], g)
             at(h) == WritesTo(tool[h], g)
             atNow(h) == WritesTo(tool'[h], g)
             who(h) == tool[h].run
             whoNow(h) == tool'[h].run
             there == onDisk[g]
             known(q) == knows[q][g]
             has(q) == g \in reads[q] /\ writer[g] \in {None, q}
             hasNow(q) == g \in reads[q] /\ writer'[g] \in {None, q}
  <2>1. /\ \A h, e \in ToolCalls : on(h) /\ on(e) => h = e
        /\ \A h \in ToolCalls : at(h) /\ there # None => there = known(who(h))
        /\ \A q \in live : has(q) /\ there # None /\ (\A h \in ToolCalls : ~at(h)) => there = known(q)
    BY <1>1, <1>8 DEF KnownIsThere
  <2>2. /\ onNow(k) => on(k)
        /\ ~atNow(k)
        /\ who(k) = r
        /\ \A h \in ToolCalls : h # k => onNow(h) = on(h) /\ atNow(h) = at(h) /\ whoNow(h) = who(h)
    BY <1>1, <1>4, <1>5 DEF OnFile, WritesTo, NoTool
  <2>3. \/ ~at(k) /\ \A q : hasNow(q) <=> has(q)
        \/ at(k) /\ \A q \in AgentRuns : hasNow(q) => q = r
    <3>1. CASE g # f
      <4>1. writer'[g] = writer[g] /\ ~at(k)
        BY <1>1, <1>2, <3>1 DEF JournalShape, WritesTo
      <4>. QED BY <4>1
    <3>2. CASE g = f
      <4>1. writer'[g] = r /\ r # None /\ at(k)
        BY <1>1, <1>2, <3>2, JournalAssumption DEF JournalShape, WritesTo, JournalAssumption
      <4>. QED BY <4>1
    <3>. QED BY <3>1, <3>2
  <2>4. live \subseteq AgentRuns
    BY <1>1 DEF JournalShape
  <2> HIDE DEF on, onNow, at, atNow, who, whoNow, there, known, has, hasNow
  <2>7. \A h, e \in ToolCalls : onNow(h) /\ onNow(e) => h = e
    BY <2>1, <2>2
  <2>8. \A h \in ToolCalls : atNow(h) /\ there # None => there = known(whoNow(h))
    BY <2>1, <2>2
  <2>9. \A q \in live : hasNow(q) /\ there # None /\ (\A h \in ToolCalls : ~atNow(h)) => there = known(q)
    <3> SUFFICES ASSUME NEW q \in live, hasNow(q), there # None, \A h \in ToolCalls : ~atNow(h)
                 PROVE  there = known(q)
      OBVIOUS
    <3>1. CASE ~at(k)
      <4>1. \A h \in ToolCalls : ~at(h)
        BY <2>2, <3>1
      <4>. QED BY <2>1, <2>3, <3>1, <4>1
    <3>2. CASE at(k)
      <4>1. q = r
        BY <2>3, <2>4, <3>2
      <4>. QED BY <2>1, <2>2, <3>2, <4>1
    <3>. QED BY <3>1, <3>2
  <2>. QED BY <2>7, <2>8, <2>9 DEF onNow, atNow, whoNow, there, known, hasNow
<1>9. KnownIsThere'
  BY <1>1, <1>8 DEF KnownIsThere
<1>10. CopiesAreRight'
  BY <1>1, <1>4, <1>5 DEF CopiesAreRight, CopyIsOf, NoTool
<1>. QED BY <1>6, <1>9, <1>10 DEF JournalInv

LEMMA RecordChangeKeeps ==
  ASSUME JournalInv, NEW k \in ToolCalls, RecordChange(k)
  PROVE  JournalInv'
<1> DEFINE t == tool[k]
           e == RowOf(t)
<1>1. /\ JournalShape /\ KnownIsThere /\ CopiesAreRight /\ t.pc = "record"
      /\ tool' = [tool EXCEPT ![k] = NoTool]
      /\ UNCHANGED <<onDisk, backups, reads, writer, knows, live, over, undo, mixed,
                     content, begun>>
  BY DEF JournalInv, RecordChange
<1>2. \/ /\ rows' = Append(rows, e)
         /\ sets' = [sets EXCEPT ![t.run] = IF @ = "none" THEN "open" ELSE @]
      \/ UNCHANGED <<rows, sets>>
  BY DEF RecordChange
<1>3. /\ DOMAIN tool' = ToolCalls /\ tool'[k] = NoTool
      /\ \A h \in ToolCalls : h # k => tool'[h] = tool[h]
  BY <1>1, CallMoves
<1>4. t \in Calling /\ t.run \in AgentRuns /\ t.file \in Files
  BY <1>1, OpenCall
<1>5. /\ Len(rows) \in Nat /\ DOMAIN rows = 1..Len(rows) /\ rows \in Seq(Changes)
      /\ \A i \in DOMAIN rows : rows[i] \in Changes
  BY <1>1, RowsAre DEF JournalShape
<1>6. /\ e \in Changes /\ e.run = t.run /\ e.file = t.file /\ e.kept = t.kept /\ e.before = t.before
      /\ e.op = "create" => e.before = None
  BY <1>4 DEF RowOf, Changes, Calling
<1>7. CopyIsOf(t)
  BY <1>1 DEF CopiesAreRight
<1>8. CopyIsOf(e)
  BY <1>6, <1>7 DEF CopyIsOf
<1> HIDE DEF e
<1>9. /\ rows' \in Seq(Changes) /\ DOMAIN rows \subseteq DOMAIN rows'
      /\ \A i \in DOMAIN rows' : (i \in DOMAIN rows /\ rows'[i] = rows[i]) \/ rows'[i] = e
  <2>1. CASE rows' = Append(rows, e)
    <3>1. /\ rows' \in Seq(Changes) /\ Len(rows') = Len(rows) + 1
          /\ \A i \in 1..Len(rows) : rows'[i] = rows[i]
          /\ rows'[Len(rows) + 1] = e
      BY <1>5, <1>6, <2>1, AppendProperties
    <3>2. DOMAIN rows' = 1..(Len(rows) + 1)
      BY <3>1, LenProperties
    <3>. QED BY <1>5, <3>1, <3>2
  <2>2. CASE UNCHANGED <<rows, sets>>
    BY <1>5, <2>2
  <2>. QED BY <1>2, <2>1, <2>2
<1>10. sets' \in [AgentRuns -> {"none", "open", "reverted"}]
  BY <1>1, <1>2, <1>4 DEF JournalShape
<1>11. JournalShape'
  <2>1. \A h \in ToolCalls : tool'[h] = NoTool \/ (tool'[h] \in Calling /\ tool'[h].run \in live)
    BY <1>1, <1>3 DEF JournalShape
  <2>. QED BY <1>1, <1>3, <1>9, <1>10, <2>1 DEF JournalShape
<1>12. KnownIsThere'
  BY <1>1, <1>3 DEF KnownIsThere, OnFile, WritesTo, NoTool
<1>13. CopiesAreRight'
  <2>1. \A h \in ToolCalls : tool'[h].pc # "idle" => tool'[h] = tool[h] /\ CopyIsOf(tool[h])
    BY <1>1, <1>3 DEF NoTool, CopiesAreRight
  <2>2. \A i \in DOMAIN rows' : CopyIsOf(rows'[i]) /\ (rows'[i].op = "create" => rows'[i].before = None)
    BY <1>1, <1>6, <1>8, <1>9 DEF CopiesAreRight
  <2>3. \A h \in ToolCalls : tool'[h].pc # "idle" => CopyIsOf(tool'[h])
    BY <2>1
  <2>. QED BY <1>1, <2>2, <2>3 DEF CopiesAreRight, CopyIsOf
<1>. QED BY <1>11, <1>12, <1>13 DEF JournalInv

LEMMA CancelWriteKeeps ==
  ASSUME JournalInv, NEW k \in ToolCalls, CancelWrite(k)
  PROVE  JournalInv'
<1>1. JournalShape'
  BY DEF JournalInv, JournalShape, Calling, CancelWrite, NoTool, NoUndo
<1>2. KnownIsThere'
  BY DEF JournalInv, JournalShape, Calling, KnownIsThere, CancelWrite, NoTool, OnFile, WritesTo
<1>3. CopiesAreRight'
  BY DEF JournalInv, JournalShape, Calling, CopiesAreRight, CopyIsOf, CancelWrite, NoTool
<1>. QED BY <1>1, <1>2, <1>3 DEF JournalInv

LEMMA BeginUndoKeeps ==
  ASSUME JournalInv, NEW v \in Undoers, NEW i \in DOMAIN rows, BeginUndo(v, i)
  PROVE  JournalInv'
<1>1. JournalShape'
  BY DEF JournalInv, JournalShape, Calling, BeginUndo, NoTool, NoUndo
<1>2. KnownIsThere'
  BY DEF JournalInv, JournalShape, Calling, KnownIsThere, BeginUndo, NoTool, OnFile, WritesTo
<1>3. CopiesAreRight'
  BY DEF JournalInv, JournalShape, Calling, CopiesAreRight, CopyIsOf, BeginUndo, NoTool
<1>. QED BY <1>1, <1>2, <1>3 DEF JournalInv

LEMMA GetChangeKeeps ==
  ASSUME JournalInv, NEW v \in Undoers, GetChange(v)
  PROVE  JournalInv'
<1>1. JournalShape'
  BY DEF JournalInv, JournalShape, Calling, GetChange, NoTool, NoUndo
<1>2. KnownIsThere'
  BY DEF JournalInv, JournalShape, Calling, KnownIsThere, GetChange, NoTool, OnFile, WritesTo
<1>3. CopiesAreRight'
  BY DEF JournalInv, JournalShape, Calling, CopiesAreRight, CopyIsOf, GetChange, NoTool
<1>. QED BY <1>1, <1>2, <1>3 DEF JournalInv

LEMMA RestoreKeeps ==
  ASSUME JournalInv, NEW v \in Undoers, Restore(v)
  PROVE  JournalInv'
<1> DEFINE was == rows[undo[v].row]
           f == was.file
           able == was.kept \/ was.op = "create"
           back == IF was.kept THEN backups[was.run][f] ELSE None
<1>1. /\ JournalShape /\ KnownIsThere /\ CopiesAreRight /\ undo[v].pc = "restore"
      /\ undo' = [undo EXCEPT ![v] = IF able THEN [@ EXCEPT !.pc = "mark"] ELSE NoUndo]
      /\ onDisk' = IF ~able THEN onDisk ELSE [onDisk EXCEPT ![f] = back]
      /\ mixed' = IF able /\ live # {} THEN mixed \cup {f} ELSE mixed
      /\ UNCHANGED <<backups, rows, sets, reads, writer, knows, live, over, tool,
                     content, begun>>
  BY DEF JournalInv, Restore
<1>2. was \in Changes /\ undo[v].row \in DOMAIN rows
  BY <1>1, RowsAre DEF JournalShape
<1>3. was.run \in AgentRuns /\ f \in Files
  BY <1>2 DEF Changes
<1>4. back \in Contents
  BY <1>1, <1>3 DEF JournalShape, Contents
<1> HIDE DEF back
<1>5. JournalShape'
  <2>1. onDisk' \in [Files -> Contents]
    BY <1>1, <1>3, <1>4 DEF JournalShape
  <2>2. /\ DOMAIN undo' = Undoers
        /\ \A u \in Undoers : undo'[u].pc # "idle" => undo'[u].row \in DOMAIN rows
    BY <1>1, <1>2 DEF JournalShape, NoUndo
  <2>. QED BY <1>1, <2>1, <2>2 DEF JournalShape
<1>6. KnownIsThere'
  <2>1. CASE live = {}
    <3>1. \A k \in ToolCalls : tool[k].pc = "idle"
      BY <1>1, <2>1 DEF JournalShape, NoTool
    <3>. QED BY <1>1, <2>1, <3>1 DEF KnownIsThere, OnFile, WritesTo
  <2>2. CASE live # {}
    <3>1. /\ mixed \subseteq mixed'
          /\ \A g \in Files : g \notin mixed' => onDisk'[g] = onDisk[g]
      BY <1>1, <1>3, <2>2 DEF JournalShape
    <3>. QED BY <1>1, <3>1 DEF KnownIsThere, OnFile, WritesTo
  <2>. QED BY <2>1, <2>2
<1>7. CopiesAreRight'
  BY <1>1 DEF CopiesAreRight, CopyIsOf
<1>. QED BY <1>5, <1>6, <1>7 DEF JournalInv

LEMMA MarkRevertedKeeps ==
  ASSUME JournalInv, NEW v \in Undoers, MarkReverted(v)
  PROVE  JournalInv'
<1> DEFINE i == undo[v].row
           e == [rows[i] EXCEPT !.status = "reverted"]
<1>1. /\ JournalShape /\ KnownIsThere /\ CopiesAreRight /\ undo[v].pc = "mark"
      /\ undo' = [undo EXCEPT ![v] = NoUndo]
      /\ UNCHANGED <<onDisk, backups, reads, writer, knows, live, over, tool, mixed,
                     content, begun>>
  BY DEF JournalInv, MarkReverted
<1>2. /\ Len(rows) \in Nat /\ DOMAIN rows = 1..Len(rows) /\ rows \in Seq(Changes)
      /\ i \in 1..Len(rows) /\ rows[i] \in Changes
  BY <1>1, RowsAre DEF JournalShape
<1>3. \/ /\ rows' = [rows EXCEPT ![i] = e]
         /\ \/ sets' = [sets EXCEPT ![rows[i].run] = "open"]
            \/ sets' = [sets EXCEPT ![rows[i].run] = "reverted"]
      \/ UNCHANGED <<rows, sets>>
  BY DEF MarkReverted
<1>4. /\ e \in Changes /\ e.run = rows[i].run /\ e.file = rows[i].file /\ e.kept = rows[i].kept
      /\ e.before = rows[i].before /\ e.op = rows[i].op
  BY <1>2 DEF Changes
<1>5. sets' \in [AgentRuns -> {"none", "open", "reverted"}]
  BY <1>1, <1>2, <1>3 DEF JournalShape, Changes
<1>6. CopyIsOf(rows[i]) /\ (rows[i].op = "create" => rows[i].before = None)
  BY <1>1, <1>2 DEF CopiesAreRight
<1>7. CopyIsOf(e) /\ (e.op = "create" => e.before = None)
  BY <1>4, <1>6 DEF CopyIsOf
<1> HIDE DEF e, i
<1>8. /\ rows' \in Seq(Changes) /\ DOMAIN rows = DOMAIN rows'
      /\ \A n \in DOMAIN rows' : rows'[n] = rows[n] \/ rows'[n] = e
  <2>1. CASE rows' = [rows EXCEPT ![i] = e]
    <3>1. rows' \in Seq(Changes)
      BY <1>2, <1>4, <2>1, ExceptSeq
    <3>. QED BY <1>2, <2>1, <3>1
  <2>2. CASE UNCHANGED <<rows, sets>>
    BY <1>2, <2>2
  <2>. QED BY <1>3, <2>1, <2>2
<1>9. JournalShape'
  <2>1. /\ DOMAIN undo' = Undoers
        /\ \A u \in Undoers : undo'[u].pc # "idle" => undo'[u].row \in DOMAIN rows
    BY <1>1 DEF JournalShape, NoUndo
  <2>. QED BY <1>1, <1>5, <1>8, <2>1 DEF JournalShape
<1>10. KnownIsThere'
  BY <1>1 DEF KnownIsThere, OnFile, WritesTo
<1>11. CopiesAreRight'
  <2>1. \A n \in DOMAIN rows' : CopyIsOf(rows'[n]) /\ (rows'[n].op = "create" => rows'[n].before = None)
    BY <1>1, <1>7, <1>8 DEF CopiesAreRight
  <2>. QED BY <1>1, <2>1 DEF CopiesAreRight, CopyIsOf
<1>. QED BY <1>9, <1>10, <1>11 DEF JournalInv

\* A run is told of a file, by a warning or a read, or has seen the last of it.
TellsOf(r, f) ==
  /\ \E seen \in {reads[r], reads[r] \cup {f}} : reads' = [reads EXCEPT ![r] = seen]
  /\ \E told \in BOOLEAN :
       /\ knows' = IF told THEN [knows EXCEPT ![r][f] = onDisk[f]] ELSE knows
       /\ onDisk[f] # None /\ ~told => f \in reads[r] /\ writer[f] \in {None, r}
Begins(k, r, f) == \E out \in Files, warned \in BOOLEAN : BeginCall(k, r, f, out, warned)

LEMMA BeginCallKeeps ==
  ASSUME JournalInv, NEW k \in ToolCalls, NEW r \in AgentRuns, NEW f \in Files,
         Begins(k, r, f), TellsOf(r, f)
  PROVE  JournalInv'
<1>a. PICK out \in Files, warned \in BOOLEAN : BeginCall(k, r, f, out, warned)
  BY DEF Begins
<1>b. PICK seen \in {reads[r], reads[r] \cup {f}} : reads' = [reads EXCEPT ![r] = seen]
  BY DEF TellsOf
<1>c. PICK told \in BOOLEAN :
        /\ knows' = IF told THEN [knows EXCEPT ![r][f] = onDisk[f]] ELSE knows
        /\ onDisk[f] # None /\ ~told => f \in reads[r] /\ writer[f] \in {None, r}
  BY DEF TellsOf
<1> DEFINE exists == onDisk[f] # None
<1>1. /\ JournalShape /\ KnownIsThere /\ CopiesAreRight /\ tool[k].pc = "idle" /\ r \in live
      /\ mixed' = IF Open(f) = {} THEN mixed ELSE mixed \cup {f}
      /\ begun' = [begun EXCEPT ![r][f] = @ + 1]
      /\ UNCHANGED <<onDisk, rows, sets, writer, live, over, undo, content>>
  BY <1>a DEF JournalInv, BeginCall
<1>2. PICK kept \in {exists, FALSE} :
        /\ backups' = IF kept THEN Copied(r, f) ELSE backups
        /\ tool' = [tool EXCEPT ![k] = [pc |-> "running", run |-> r, file |-> f, out |-> out,
                        before |-> onDisk[f], after |-> None, kept |-> kept,
                        warned |-> warned]]
  BY <1>a DEF BeginCall
<1> DEFINE t == [pc |-> "running", run |-> r, file |-> f, out |-> out, before |-> onDisk[f],
                 after |-> None, kept |-> kept, warned |-> warned]
<1>3. onDisk[f] \in Contents /\ None \in Contents
  BY <1>1 DEF JournalShape, Contents
<1>4. /\ t \in Calling /\ t.pc = "running" /\ t.run = r /\ t.file = f
      /\ t.before = onDisk[f] /\ t.kept = kept
  BY <1>3 DEF Calling
<1>5. tool' = [tool EXCEPT ![k] = t]
  BY <1>2
<1> HIDE DEF t
<1>6. /\ DOMAIN tool' = ToolCalls /\ tool'[k] = t
      /\ \A h \in ToolCalls : h # k => tool'[h] = tool[h]
  BY <1>1, <1>5, CallMoves
<1>7. /\ begun' \in [AgentRuns -> [Files -> Nat]] /\ begun'[r][f] = begun[r][f] + 1
      /\ begun[r][f] \in Nat
      /\ \A q \in AgentRuns, g \in Files : ~(q = r /\ g = f) => begun'[q][g] = begun[q][g]
  BY <1>1 DEF JournalShape
<1>8. /\ backups' \in [AgentRuns -> [Files -> Contents]]
      /\ kept => backups'[r][f] = onDisk[f]
      /\ \A q \in AgentRuns, g \in Files : ~(q = r /\ g = f) => backups'[q][g] = backups[q][g]
  BY <1>1, <1>2, <1>3 DEF JournalShape, Copied
<1>9. /\ DOMAIN knows' = AgentRuns /\ \A q \in AgentRuns : DOMAIN knows'[q] = Files
      /\ told => knows'[r][f] = onDisk[f]
      /\ ~told => knows' = knows
      /\ \A q \in AgentRuns, g \in Files : ~(q = r /\ g = f) => knows'[q][g] = knows[q][g]
  BY <1>1, <1>c DEF JournalShape
<1>10. JournalShape'
  <2>1. \A h \in ToolCalls : tool'[h] = NoTool \/ (tool'[h] \in Calling /\ tool'[h].run \in live)
    BY <1>1, <1>4, <1>6 DEF JournalShape
  <2>2. /\ reads' \in [AgentRuns -> SUBSET Files]
        /\ \A q \in AgentRuns : reads'[q] # {} => q \in live \cup over
    <3>1. seen \in SUBSET Files
      BY <1>1, <1>b DEF JournalShape
    <3>. QED BY <1>1, <1>b, <3>1 DEF JournalShape
  <2>. QED BY <1>1, <1>6, <1>7, <1>8, <1>9, <2>1, <2>2 DEF JournalShape
<1>11. \A q \in AgentRuns, g \in Files : g # f => (g \in reads'[q] <=> g \in reads[q])
  <2> SUFFICES ASSUME NEW q \in AgentRuns, NEW g \in Files, g # f
               PROVE  g \in reads'[q] <=> g \in reads[q]
    OBVIOUS
  <2>1. reads'[q] = IF q = r THEN seen ELSE reads[q]
    BY <1>1, <1>b DEF JournalShape
  <2>2. g \in seen <=> g \in reads[r]
    BY <1>b
  <2>. QED BY <2>1, <2>2
<1>12. ASSUME NEW g \in Files, g \notin mixed'
       PROVE  /\ \A h, e \in ToolCalls : OnFile(tool'[h], g) /\ OnFile(tool'[e], g) => h = e
              /\ \A h \in ToolCalls : WritesTo(tool'[h], g) /\ onDisk[g] # None =>
                   onDisk[g] = knows'[tool'[h].run][g]
              /\ \A q \in live : g \in reads'[q] /\ writer[g] \in {None, q} /\ onDisk[g] # None
                                 /\ (\A h \in ToolCalls : ~WritesTo(tool'[h], g)) =>
                   onDisk[g] = knows'[q][g]
  <2> DEFINE on(h) == OnFile(tool[h], g)
             onNow(h) == OnFile(tool'[h], g)
             at(h) == WritesTo(tool[h], g)
             atNow(h) == WritesTo(tool'[h], g)
             who(h) == tool[h].run
             whoNow(h) == tool'[h].run
             there == onDisk[g]
             known(q) == knows[q][g]
             knownNow(q) == knows'[q][g]
             has(q) == g \in reads[q] /\ writer[g] \in {None, q}
             hasNow(q) == g \in reads'[q] /\ writer[g] \in {None, q}
  <2>1. /\ \A h, e \in ToolCalls : on(h) /\ on(e) => h = e
        /\ \A h \in ToolCalls : at(h) /\ there # None => there = known(who(h))
        /\ \A q \in live : has(q) /\ there # None /\ (\A h \in ToolCalls : ~at(h)) => there = known(q)
    <3>1. g \notin mixed
      BY <1>1, <1>12
    <3>. QED BY <1>1, <3>1 DEF KnownIsThere
  <2>2. /\ ~on(k) /\ ~at(k) /\ whoNow(k) = r
        /\ \A h \in ToolCalls : h # k => onNow(h) = on(h) /\ atNow(h) = at(h) /\ whoNow(h) = who(h)
    BY <1>1, <1>4, <1>6 DEF OnFile, WritesTo
  <2>3. \A h \in ToolCalls : (at(h) => on(h)) /\ (at(h) => who(h) \in AgentRuns)
    BY <1>1, OpenCall DEF OnFile, WritesTo
  <2>4. live \subseteq AgentRuns
    BY <1>1 DEF JournalShape
  <2>5. CASE g # f
    <3>1. /\ ~onNow(k) /\ ~atNow(k)
          /\ \A q \in AgentRuns : knownNow(q) = known(q) /\ (hasNow(q) => has(q))
      BY <1>4, <1>6, <1>9, <1>11, <2>5 DEF OnFile, WritesTo
    <3> HIDE DEF on, onNow, at, atNow, who, whoNow, there, known, knownNow, has, hasNow
    <3>2. \A h, e \in ToolCalls : onNow(h) /\ onNow(e) => h = e
      BY <2>1, <2>2, <3>1
    <3>3. \A h \in ToolCalls : atNow(h) /\ there # None => there = knownNow(whoNow(h))
      BY <2>1, <2>2, <2>3, <3>1
    <3>4. \A q \in live : hasNow(q) /\ there # None /\ (\A h \in ToolCalls : ~atNow(h)) =>
                          there = knownNow(q)
      BY <2>1, <2>2, <2>4, <3>1
    <3>. QED BY <3>2, <3>3, <3>4 DEF onNow, atNow, whoNow, there, knownNow, hasNow
  <2>6. CASE g = f
    <3>1. \A h \in ToolCalls : ~on(h)
      BY <1>1, <1>12, <2>6 DEF OnFile, Open
    <3>2. atNow(k)
      BY <1>4, <1>6, <2>6 DEF WritesTo
    <3>3. there # None => told \/ has(r)
      BY <1>c, <2>6
    <3>4. (told => knownNow(r) = there) /\ (~told => knownNow(r) = known(r))
      BY <1>9, <2>6
    <3> HIDE DEF on, onNow, at, atNow, who, whoNow, there, known, knownNow, has, hasNow
    <3>5. there # None => there = knownNow(r)
      BY <1>1, <2>1, <2>3, <3>1, <3>3, <3>4
    <3>6. \A h, e \in ToolCalls : onNow(h) /\ onNow(e) => h = e
      BY <2>2, <3>1
    <3>7. \A h \in ToolCalls : atNow(h) /\ there # None => there = knownNow(whoNow(h))
      BY <2>2, <2>3, <3>1, <3>5
    <3>8. \A q \in live : hasNow(q) /\ there # None /\ (\A h \in ToolCalls : ~atNow(h)) =>
                          there = knownNow(q)
      BY <3>2
    <3>. QED BY <3>6, <3>7, <3>8 DEF onNow, atNow, whoNow, there, knownNow, hasNow
  <2>. QED BY <2>5, <2>6
<1>13. KnownIsThere'
  BY <1>1, <1>12 DEF KnownIsThere
<1>14. ASSUME NEW q \in AgentRuns, NEW g \in Files
       PROVE  \/ begun'[q][g] = begun[q][g] /\ backups'[q][g] = backups[q][g]
              \/ begun[q][g] # 0 => begun'[q][g] # 0 /\ begun'[q][g] # 1
  <2>1. CASE q = r /\ g = f
    <3>1. begun[r][f] # 0 => begun'[r][f] # 0 /\ begun'[r][f] # 1
      <4> DEFINE m == begun[r][f]
                 n == begun'[r][f]
      <4>1. m \in Nat /\ n = m + 1
        BY <1>7
      <4> HIDE DEF m, n
      <4>2. m # 0 => n # 0 /\ n # 1
        BY <4>1
      <4>. QED BY <4>2 DEF m, n
    <3>2. ASSUME q = r, g = f
          PROVE  begun[q][g] # 0 => begun'[q][g] # 0 /\ begun'[q][g] # 1
      BY ONLY <3>1, <3>2, Zenon
    <3>. QED BY <2>1, <3>2
  <2>2. CASE ~(q = r /\ g = f)
    BY <1>7, <1>8, <2>2
  <2>. QED BY <2>1, <2>2
<1>15. \A h \in ToolCalls : tool'[h].pc # "idle" => CopyIsOf(tool[h])' 
  <2> SUFFICES ASSUME NEW h \in ToolCalls, tool'[h].pc # "idle"
               PROVE  CopyIsOf(tool[h])'
    OBVIOUS
  <2>1. CASE h = k
    <3>1. (kept => onDisk[f] # None)
      OBVIOUS
    <3>. QED BY <1>4, <1>6, <1>7, <1>8, <2>1, <3>1 DEF CopyIsOf
  <2>2. CASE h # k
    <3>1. tool'[h] = tool[h] /\ CopyIsOf(tool[h]) /\ tool[h].run \in AgentRuns /\ tool[h].file \in Files
      BY <1>1, <1>6, <2>2, OpenCall DEF CopiesAreRight
    <3>. QED BY <1>14, <3>1 DEF CopyIsOf
  <2>. QED BY <2>1, <2>2
<1>16. \A i \in DOMAIN rows : CopyIsOf(rows[i])' /\ (rows[i].op = "create" => rows[i].before = None)
  <2> SUFFICES ASSUME NEW i \in DOMAIN rows
               PROVE  CopyIsOf(rows[i])' /\ (rows[i].op = "create" => rows[i].before = None)
    OBVIOUS
  <2>1. /\ rows[i].run \in AgentRuns /\ rows[i].file \in Files /\ CopyIsOf(rows[i])
        /\ rows[i].op = "create" => rows[i].before = None
    BY <1>1, RowsAre DEF CopiesAreRight, Changes
  <2>2. rows'[i] = rows[i]
    BY <1>1
  <2>. QED BY <1>14, <2>1, <2>2 DEF CopyIsOf
<1>17. CopiesAreRight'
  BY <1>1, <1>15, <1>16 DEF CopiesAreRight
<1>. QED BY <1>10, <1>13, <1>17 DEF JournalInv

LEMMA BeginWriteKeeps ==
  ASSUME JournalInv, NEW k \in ToolCalls, NEW r \in AgentRuns, NEW f \in Files, NEW p \in BOOLEAN,
         BeginWrite(k, r, f, p)
  PROVE  JournalInv'
<1> DEFINE warned == (p \/ onDisk[f] # None) /\ Stale(r, f)
<1>1. /\ BeginCall(k, r, f, f, warned) /\ reads' = reads
      /\ knows' = IF warned THEN [knows EXCEPT ![r][f] = onDisk[f]] ELSE knows
  BY DEF BeginWrite
<1>2. /\ warned \in BOOLEAN
      /\ onDisk[f] # None /\ ~warned => f \in reads[r] /\ writer[f] \in {None, r}
  BY DEF Stale
<1>3. reads' = [reads EXCEPT ![r] = reads[r]]
  BY <1>1 DEF JournalInv, JournalShape
<1> HIDE DEF warned
<1>4. Begins(k, r, f)
  BY <1>1, <1>2 DEF Begins
<1>5. TellsOf(r, f)
  BY <1>1, <1>2, <1>3, Zenon DEF TellsOf
<1>. QED BY <1>4, <1>5, BeginCallKeeps

LEMMA BeginFillKeeps ==
  ASSUME JournalInv, NEW k \in ToolCalls, NEW r \in AgentRuns, NEW f \in Files, NEW out \in Files,
         BeginFill(k, r, f, out)
  PROVE  JournalInv'
<1> DEFINE seen == IF onDisk[f] = None THEN reads[r] ELSE reads[r] \cup {f}
           warned == f \notin seen \/ writer[f] \notin {None, r}
<1>1. /\ BeginCall(k, r, f, out, warned) /\ reads' = [reads EXCEPT ![r] = seen]
      /\ knows' = [knows EXCEPT ![r][f] = onDisk[f]]
  BY DEF BeginFill
<1>2. seen \in {reads[r], reads[r] \cup {f}} /\ warned \in BOOLEAN
  OBVIOUS
<1> HIDE DEF warned, seen
<1>3. Begins(k, r, f)
  BY <1>1, <1>2 DEF Begins
<1>4. TellsOf(r, f)
  <2>1. PICK told \in BOOLEAN : told
    OBVIOUS
  <2>2. /\ knows' = IF told THEN [knows EXCEPT ![r][f] = onDisk[f]] ELSE knows
        /\ onDisk[f] # None /\ ~told => f \in reads[r] /\ writer[f] \in {None, r}
    BY <1>1, <2>1
  <2>. QED BY <1>1, <1>2, <2>2 DEF TellsOf
<1>. QED BY <1>3, <1>4, BeginCallKeeps

LEMMA JournalInvStep ==
  JournalInv /\ [JournalNext]_journalVars => JournalInv'
<1> SUFFICES ASSUME JournalInv, [JournalNext]_journalVars
             PROVE  JournalInv'
  OBVIOUS
<1>1. CASE \E r \in AgentRuns : StartRun(r) \/ EndRun(r)
                               \/ \E f \in Files : ReadFile(r, f) \/ WriteUntracked(r, f)
  BY <1>1, StartRunKeeps, EndRunKeeps, ReadFileKeeps, WriteUntrackedKeeps
<1>2. CASE \E k \in ToolCalls :
             \/ \E r \in AgentRuns, f \in Files : \/ \E p \in BOOLEAN : BeginWrite(k, r, f, p)
                                                 \/ \E g \in Files : BeginFill(k, r, f, g)
             \/ ToolWrites(k) \/ Note(k) \/ RecordChange(k) \/ CancelWrite(k)
  BY <1>2, BeginWriteKeeps, BeginFillKeeps, ToolWritesKeeps, NoteKeeps, RecordChangeKeeps,
     CancelWriteKeeps
<1>3. CASE \E v \in Undoers : \/ \E i \in DOMAIN rows : BeginUndo(v, i)
                              \/ GetChange(v) \/ Restore(v) \/ MarkReverted(v)
  BY <1>3, BeginUndoKeeps, GetChangeKeeps, RestoreKeeps, MarkRevertedKeeps
<1>4. CASE UNCHANGED journalVars
  BY <1>4 DEF journalVars, JournalInv, JournalShape, Calling, KnownIsThere, OnFile, WritesTo,
              CopiesAreRight, CopyIsOf, Changes
<1>. QED BY <1>1, <1>2, <1>3, <1>4 DEF JournalNext

\* While a file is not mixed, the call that writes it knows what it holds.
LEMMA NoWriteIsSilent ==
  JournalInv => NoSilentOverwrite
BY OpenCall DEF JournalInv, KnownIsThere, WritesTo, Overwrites, NoSilentOverwrite

\* An undo puts back the copy of the row, or removes the file it created.
LEMMA UndoPutsBack ==
  JournalInv /\ [JournalNext]_journalVars => UndoRestoresOneCall
<1> SUFFICES ASSUME JournalInv, [JournalNext]_journalVars, NEW i \in DOMAIN rows,
                    NEW v \in Undoers, undo[v].pc = "restore", undo[v].row = i,
                    undo'[v].pc = "mark", begun[rows[i].run][rows[i].file] = 1
             PROVE  onDisk'[rows[i].file] = rows[i].before
  BY DEF UndoRestoresOneCall, Undone
<1>1. Restore(v)
  <2>1. CASE UNCHANGED journalVars
    BY <2>1 DEF journalVars
  <2>2. CASE \E r \in AgentRuns : StartRun(r) \/ EndRun(r)
                                 \/ \E f \in Files : ReadFile(r, f) \/ WriteUntracked(r, f)
    BY <2>2 DEF StartRun, EndRun, ReadFile, WriteUntracked
  <2>3. CASE \E k \in ToolCalls :
               \/ \E r \in AgentRuns, f \in Files : \/ \E p \in BOOLEAN : BeginWrite(k, r, f, p)
                                                   \/ \E g \in Files : BeginFill(k, r, f, g)
               \/ ToolWrites(k) \/ Note(k) \/ RecordChange(k) \/ CancelWrite(k)
    BY <2>3 DEF BeginWrite, BeginFill, BeginCall, ToolWrites, Note, RecordChange, CancelWrite
  <2>4. CASE \E u \in Undoers : \/ \E j \in DOMAIN rows : BeginUndo(u, j)
                                \/ GetChange(u) \/ Restore(u) \/ MarkReverted(u)
    BY <2>4 DEF BeginUndo, GetChange, Restore, MarkReverted, JournalInv, JournalShape
  <2>. QED BY <2>1, <2>2, <2>3, <2>4 DEF JournalNext
<1>2. /\ rows[i].file \in Files
      /\ rows[i].kept => backups[rows[i].run][rows[i].file] = rows[i].before
      /\ rows[i].op = "create" => rows[i].before = None
  BY RowsAre DEF JournalInv, CopiesAreRight, CopyIsOf, Changes
<1>3. /\ rows[i].kept \/ rows[i].op = "create"
      /\ onDisk' = [onDisk EXCEPT ![rows[i].file] =
                      IF rows[i].kept THEN backups[rows[i].run][rows[i].file] ELSE None]
  BY <1>1 DEF Restore, JournalInv, JournalShape, NoUndo
<1>. QED BY <1>2, <1>3 DEF JournalInv, JournalShape

-----------------------------------------------------------------------------
(* The workbook *)

\* The results after which a plan goes on, and all results of a sheet.
Saves == {"SUCCESS", "PARTIAL", "NOOP"}
SheetResults == Saves \cup {"Error:", "Error saving file:"}
Lined(sheet) == \E n \in Nat : DOMAIN sheet = 1..n
IsBook(x) == x = [s \in Sheets |-> x[s]] /\ \A s \in Sheets : Lined(x[s])

FillIs(f) ==
  /\ f = [pc |-> f.pc, at |-> f.at, values |-> f.values, results |-> f.results,
          wrote |-> f.wrote, began |-> f.began, sources |-> f.sources, calm |-> f.calm]
  /\ f.at \in 1..(Len(SheetNames) + 1) /\ f.results \in Seq(SheetResults)
  /\ IsBook(f.began) /\ f.sources \in [SourceFiles -> SourceBooks]
  /\ f.values = Resolved(f.sources, plan)

\* The template the call began with, with the sheets before f.at filled.
SoFar(f) ==
  [s \in Sheets |-> IF \E j \in 1..(f.at - 1) : SheetNames[j] = s
                    THEN Filled(f.began[s], f.values, plan.onlyEmpty) ELSE f.began[s]]

\* As long as no sheet failed and no file was replaced, the book the next sheet
\* starts from is the template with the sheets so far, whichever they were.
WorkbookInv ==
  /\ plan \in Plans /\ source \in [SourceFiles -> SourceBooks]
  /\ book = [n \in DOMAIN book |-> book[n]] /\ {"template"} \subseteq DOMAIN book
  /\ \A n \in DOMAIN book : IsBook(book[n])
  /\ fill.pc \in {"none", "fill", "done"}
  /\ fill.pc # "none" => FillIs(fill)
  /\ fill.pc = "fill" => fill.at <= Len(SheetNames)
  /\ fill.pc # "none" /\ fill.calm /\ Range(fill.results) \subseteq Saves =>
       /\ fill.pc = "done" => fill.at = Len(SheetNames) + 1
       /\ BaseOf(fill.at) \in DOMAIN book
       /\ book[BaseOf(fill.at)] = SoFar(fill)

\* No row adds up to nothing.
LEMMA AmountOfNone == ASSUME NEW sheet PROVE Amount(sheet, {}) = 0
<1> DEFINE Def(it) == it = [s \in SUBSET {} |-> IF s = {} THEN 0
                             ELSE sheet[CHOOSE x \in s : TRUE][2] + it[s \ {CHOOSE x \in s : TRUE}]]
           it == CHOOSE f : Def(f)
           zero == [s \in SUBSET {} |-> 0]
<1>1. Amount(sheet, {}) = it[{}]
  BY Zenon DEF Amount, MapThenSumSet, MapThenFoldSet
<1>2. Def(zero)
  <2>1. \A s \in SUBSET {} : s = {}
    OBVIOUS
  <2>. QED BY <2>1
<1>3. Def(it)
  <2> HIDE DEF Def
  <2>. QED BY <1>2, Zenon
<1>4. it[{}] = 0
  <2> HIDE DEF it
  <2>. QED BY <1>3
<1>. QED BY <1>1, <1>4

\* What the lemmas below say of the rows a key and a label stand for.
Sourced(src) ==
  /\ plan \in Plans /\ src \in [SourceFiles -> SourceBooks]
  /\ plan.mode = "key" => OneSpelling(src)
KeysOf(sheet) == {KeyOf(sheet[i][1], plan.mode) : i \in Counted(sheet, plan.mode)}
OfKey(sheet, k) == {i \in Counted(sheet, plan.mode) : KeyOf(sheet[i][1], plan.mode) = k}

LEMMA RowsHaveKeys ==
  ASSUME NEW src, Sourced(src), NEW f \in SourceFiles, NEW i \in Counted(src[f], plan.mode)
  PROVE  /\ i \in DOMAIN src[f] /\ src[f][i][1] \in Labels
         /\ KeyOf(src[f][i][1], plan.mode) \in Labels
         /\ Fold[KeyOf(src[f][i][1], plan.mode)] = Fold[src[f][i][1]]
<1>1. src[f] \in Seq(Labels \X Nat)
  BY WorkbookAssumption DEF Sourced
<1>2. i \in DOMAIN src[f]
  BY DEF Counted
<1>3. src[f][i] \in Labels \X Nat
  BY <1>1, <1>2
<1>4. src[f][i][1] \in Labels
  BY <1>3
<1>. QED BY <1>2, <1>4, WorkbookAssumption DEF KeyOf

LEMMA KeysAreOne ==
  ASSUME NEW src, Sourced(src), NEW f \in SourceFiles, NEW g \in SourceFiles,
         NEW i \in Counted(src[f], plan.mode), NEW j \in Counted(src[g], plan.mode),
         Fold[src[f][i][1]] = Fold[src[g][j][1]]
  PROVE  KeyOf(src[f][i][1], plan.mode) = KeyOf(src[g][j][1], plan.mode)
<1>1. CASE plan.mode = "date"
  BY <1>1 DEF KeyOf
<1>2. CASE plan.mode # "date"
  <2>1. OneSpelling(src)
    BY <1>2 DEF Sourced, Plans
  <2>2. src[f][i] \in Range(src[f]) /\ src[g][j] \in Range(src[g])
    BY RowsHaveKeys DEF Range
  <2>3. src[f][i][1] = src[g][j][1]
    BY <2>1, <2>2 DEF OneSpelling
  <2>. QED BY <2>3
<1>. QED BY <1>1, <1>2

\* A key that matches a label stands for the rows about the label.
LEMMA KeyIsAbout ==
  ASSUME NEW src, Sourced(src), NEW f \in SourceFiles, NEW g \in SourceFiles, NEW l,
         NEW k \in KeysOf(src[f]), Fold[k] = Fold[l]
  PROVE  OfKey(src[g], k) = About(src[g], l)
<1>1. PICK i \in Counted(src[f], plan.mode) : k = KeyOf(src[f][i][1], plan.mode)
  BY DEF KeysOf
<1>2. Fold[src[f][i][1]] = Fold[l]
  BY <1>1, RowsHaveKeys
<1>3. ASSUME NEW j \in Counted(src[g], plan.mode)
      PROVE  KeyOf(src[g][j][1], plan.mode) = k <=> Fold[src[g][j][1]] = Fold[l]
  <2>1. Fold[KeyOf(src[g][j][1], plan.mode)] = Fold[src[g][j][1]]
    BY RowsHaveKeys
  <2>2. Fold[src[g][j][1]] = Fold[l] => KeyOf(src[g][j][1], plan.mode) = k
    BY <1>1, <1>2, KeysAreOne
  <2>. QED BY <2>1, <2>2
<1>. QED BY <1>3 DEF OfKey, About

\* What a source gives is what it says of each key.
LEMMA ExtractIs ==
  ASSUME NEW sheet
  PROVE  /\ DOMAIN Extract(sheet, plan.mode) = KeysOf(sheet)
         /\ \A k \in KeysOf(sheet) : Extract(sheet, plan.mode)[k] = Amount(sheet, OfKey(sheet, k))
         /\ \A k : k \in KeysOf(sheet) <=> OfKey(sheet, k) # {}
BY DEF Extract, KeysOf, OfKey

LEMMA ResolvedIs ==
  ASSUME NEW src, Sourced(src)
  PROVE  /\ DOMAIN Resolved(src, plan) = KeysOf(src["first"]) \cup KeysOf(src["second"])
         /\ \A k \in DOMAIN Resolved(src, plan) :
              Resolved(src, plan)[k] =
                IF plan.aggregate = "sum"
                THEN Amount(src["first"], OfKey(src["first"], k)) + Amount(src["second"], OfKey(src["second"], k))
                ELSE IF OfKey(src["first"], k) # {} THEN Amount(src["first"], OfKey(src["first"], k))
                ELSE Amount(src["second"], OfKey(src["second"], k))
<1> DEFINE one == Extract(src["first"], plan.mode)
           two == Extract(src["second"], plan.mode)
           A(k) == Amount(src["first"], OfKey(src["first"], k))
           B(k) == Amount(src["second"], OfKey(src["second"], k))
           N(k) == OfKey(src["first"], k) # {}
           M(k) == OfKey(src["second"], k) # {}
<1>1. Resolved(src, plan) =
        [k \in DOMAIN one \cup DOMAIN two |->
          IF plan.aggregate = "sum" THEN (IF k \in DOMAIN one THEN one[k] ELSE 0) + (IF k \in DOMAIN two THEN two[k] ELSE 0)
          ELSE IF k \in DOMAIN one THEN one[k] ELSE two[k]]
  BY DEF Resolved
<1>2. /\ DOMAIN one = KeysOf(src["first"]) /\ DOMAIN two = KeysOf(src["second"])
      /\ \A k \in DOMAIN one : one[k] = A(k)
      /\ \A k \in DOMAIN two : two[k] = B(k)
      /\ \A k : k \in DOMAIN one <=> N(k)
      /\ \A k : k \in DOMAIN two <=> M(k)
  BY ExtractIs, Zenon
<1>3. \A k : (~N(k) => A(k) = 0) /\ (~M(k) => B(k) = 0)
  BY AmountOfNone
<1> HIDE DEF one, two, A, B, N, M
<1>4. DOMAIN Resolved(src, plan) = DOMAIN one \cup DOMAIN two
  BY <1>1
<1>5. ASSUME NEW k \in DOMAIN one \cup DOMAIN two
      PROVE  Resolved(src, plan)[k] =
               IF plan.aggregate = "sum" THEN A(k) + B(k) ELSE IF N(k) THEN A(k) ELSE B(k)
  <2>1. (IF k \in DOMAIN one THEN one[k] ELSE 0) = A(k) /\ (IF k \in DOMAIN two THEN two[k] ELSE 0) = B(k)
    BY <1>2, <1>3
  <2>2. (IF k \in DOMAIN one THEN one[k] ELSE two[k]) = IF N(k) THEN A(k) ELSE B(k)
    BY <1>2
  <2>. QED BY <1>1, <2>1, <2>2
<1>. QED BY <1>2, <1>4, <1>5 DEF A, B, N, M

\* A plan gives a row exactly what its sources say of the label.
LEMMA ValueIsTold ==
  ASSUME NEW src, Sourced(src), NEW l
  PROVE  /\ Matching(Resolved(src, plan), l) # {} <=> Named(src, l)
         /\ Named(src, l) => ValueFor(Resolved(src, plan), l) = Told(src, l)
<1> DEFINE values == Resolved(src, plan)
           Match == Matching(values, l)
<1>0. SourceFiles = {"first", "second"}
  BY DEF SourceFiles
<1>1. \A k \in Match : Fold[k] = Fold[l] /\ k \in DOMAIN values /\ \E f \in SourceFiles : k \in KeysOf(src[f])
  BY ResolvedIs, <1>0 DEF Matching
<1>2. \A k \in Match : \A g \in SourceFiles : OfKey(src[g], k) = About(src[g], l)
  BY <1>1, KeyIsAbout
<1>3. ASSUME NEW f \in SourceFiles, NEW i \in About(src[f], l)
      PROVE  KeyOf(src[f][i][1], plan.mode) \in Match
  <2>1. i \in Counted(src[f], plan.mode) /\ Fold[src[f][i][1]] = Fold[l]
    BY DEF About
  <2>2. Fold[KeyOf(src[f][i][1], plan.mode)] = Fold[l]
    BY <2>1, RowsHaveKeys
  <2>3. KeyOf(src[f][i][1], plan.mode) \in KeysOf(src[f])
    BY <2>1 DEF KeysOf
  <2>4. KeysOf(src[f]) \subseteq DOMAIN values
    BY ResolvedIs, <1>0
  <2>. QED BY <2>2, <2>3, <2>4 DEF Matching
<1>4. Match # {} <=> Named(src, l)
  <2>1. ASSUME NEW k \in Match PROVE Named(src, l)
    <3>1. PICK f \in SourceFiles : k \in KeysOf(src[f])
      BY <1>1
    <3>2. OfKey(src[f], k) # {}
      BY <3>1, ExtractIs
    <3>. QED BY <3>2, <1>2 DEF Named
  <2>2. ASSUME Named(src, l) PROVE Match # {}
    BY <2>2, <1>3 DEF Named
  <2>. QED BY <2>1, <2>2
<1>5. \A k, h \in Match : k = h
  <2> SUFFICES ASSUME NEW k \in Match, NEW h \in Match PROVE k = h
    OBVIOUS
  <2>1. PICK f \in SourceFiles : h \in KeysOf(src[f])
    BY <1>1
  <2>2. PICK i : i \in OfKey(src[f], h)
    BY <2>1, ExtractIs
  <2>3. OfKey(src[f], h) = OfKey(src[f], k)
    BY <1>2
  <2>. QED BY <2>2, <2>3 DEF OfKey
<1>6. ASSUME NEW k \in Match PROVE values[k] = Told(src, l)
  <2> HIDE DEF Match
  <2>1. k \in DOMAIN values /\ OfKey(src["first"], k) = About(src["first"], l)
        /\ OfKey(src["second"], k) = About(src["second"], l)
    BY <1>1, <1>2, <1>0
  <2>. QED BY <2>1, ResolvedIs DEF Told
<1>7. \A k \in Match : k \in Labels
  <2> SUFFICES ASSUME NEW k \in Match PROVE k \in Labels
    OBVIOUS
  <2>1. PICK f \in SourceFiles : k \in KeysOf(src[f])
    BY <1>1
  <2>. QED BY <2>1, RowsHaveKeys DEF KeysOf
<1>8. ASSUME NEW k \in Match PROVE ValueFor(values, l) = values[k]
  <2> DEFINE Top(x) == \A h \in Match : Rank[h] <= Rank[x]
  <2>1. Top(k)
    BY <1>5, <1>7, WorkbookAssumption
  <2>2. ValueFor(values, l) = values[CHOOSE x \in Match : Top(x)]
    BY DEF ValueFor
  <2> HIDE DEF Top, Match, values
  <2>3. (CHOOSE x \in Match : Top(x)) \in Match
    BY <2>1
  <2>. QED BY <1>5, <2>2, <2>3
<1>. QED BY <1>4, <1>6, <1>8

\* Filling a sheet keeps its rows and their labels, and doing it again changes nothing.
LEMMA FilledKeeps ==
  ASSUME NEW sheet, Lined(sheet), NEW values, NEW onlyEmpty
  PROVE  /\ Lined(Filled(sheet, values, onlyEmpty))
         /\ Filled(Filled(sheet, values, onlyEmpty), values, onlyEmpty) = Filled(sheet, values, onlyEmpty)
<1> DEFINE once == Filled(sheet, values, onlyEmpty)
           twice == Filled(once, values, onlyEmpty)
           V(i) == <<sheet[i][1], ValueFor(values, sheet[i][1])>>
           W == Writes(sheet, values, onlyEmpty)
           X == Writes(once, values, onlyEmpty)
           May(cell) == cell # Merged /\ (onlyEmpty => cell = EmptyCell)
           Wants(i) == Target(sheet, i) /\ Matching(values, sheet[i][1]) # {}
<1>1. PICK n \in Nat : DOMAIN sheet = 1..n
  BY DEF Lined
<1>2. once = [i \in 1..n |-> IF i \in W THEN V(i) ELSE sheet[i]]
  BY <1>1 DEF Filled
<1>3. DOMAIN once = 1..n /\ \A i \in 1..n : once[i][1] = sheet[i][1]
  BY <1>2
<1>4. \A i \in 1..n : Target(once, i) <=> Target(sheet, i)
  BY <1>3 DEF Target
<1>5. \A i \in 1..n : i \in W <=> Wants(i) /\ May(sheet[i][2])
  BY <1>1 DEF Writes
<1>6. \A i \in 1..n : i \in X <=> Wants(i) /\ May(once[i][2])
  BY <1>3, <1>4 DEF Writes
<1>7. twice = [i \in 1..n |-> IF i \in X THEN V(i) ELSE once[i]]
  <2>1. twice = [i \in DOMAIN once |-> IF i \in X THEN <<once[i][1], ValueFor(values, once[i][1])>> ELSE once[i]]
    BY DEF Filled
  <2> HIDE DEF once, X
  <2>. QED BY <2>1, <1>3
<1> HIDE DEF once, twice, V, W, X, May, Wants
<1>8. \A i \in 1..n : twice[i] = once[i]
  <2> SUFFICES ASSUME NEW i \in 1..n PROVE twice[i] = once[i]
    OBVIOUS
  <2>1. CASE i \in W
    BY <2>1, <1>2, <1>7
  <2>2. CASE i \notin W
    BY <2>2, <1>2, <1>5, <1>6, <1>7
  <2>. QED BY <2>1, <2>2
<1>9. twice = once
  BY <1>2, <1>7, <1>8
<1>. QED BY <1>3, <1>9 DEF once, twice, Lined

LEMMA WorkbookInvInit == WorkbookInit => WorkbookInv
<1> SUFFICES ASSUME WorkbookInit PROVE WorkbookInv
  OBVIOUS
<1>1. \A t \in Templates : Lined(t)
  <2> SUFFICES ASSUME NEW t \in Templates PROVE Lined(t)
    OBVIOUS
  <2>1. t \in Seq(Labels \X Cells)
    BY WorkbookAssumption
  <2>. QED BY <2>1 DEF Lined
<1>2. book \in [{"template"} -> [Sheets -> Templates]]
  BY DEF WorkbookInit
<1>3. \A x \in [Sheets -> Templates] : IsBook(x)
  BY <1>1 DEF IsBook
<1>. QED BY <1>2, <1>3 DEF WorkbookInit, WorkbookInv, NoFill

LEMMA WorkbookInvSound == WorkbookInv => PlanIsApplied
<1> SUFFICES ASSUME WorkbookInv, fill.pc = "done", fill.calm, Range(fill.results) \subseteq Saves,
                    plan.mode = "key" => OneSpelling(fill.sources),
                    NEW s \in Sheets, NEW i \in DOMAIN fill.began[s]
             PROVE  book[plan.out][s][i] =
                      IF Target(fill.began[s], i) /\ Named(fill.sources, fill.began[s][i][1])
                         /\ fill.began[s][i][2] # Merged /\ (plan.onlyEmpty => fill.began[s][i][2] = EmptyCell)
                      THEN <<fill.began[s][i][1], Told(fill.sources, fill.began[s][i][1])>> ELSE fill.began[s][i]
  BY DEF PlanIsApplied, Saves
<1> DEFINE sheet == fill.began[s]
           l == sheet[i][1]
<1>1. FillIs(fill) /\ fill.at = Len(SheetNames) + 1 /\ book[BaseOf(fill.at)] = SoFar(fill)
  BY DEF WorkbookInv
<1>2. SheetNames \in Seq(Sheets) /\ SheetNames # <<>>
  BY WorkbookAssumption
<1>3. BaseOf(fill.at) = plan.out
  BY <1>1, <1>2 DEF BaseOf
<1>4. \E j \in 1..(fill.at - 1) : SheetNames[j] = s
  BY <1>1, <1>2 DEF Sheets, Range
<1>5. book[plan.out][s] = Filled(sheet, fill.values, plan.onlyEmpty)
  BY <1>1, <1>3, <1>4 DEF SoFar
<1>6. fill.values = Resolved(fill.sources, plan) /\ Sourced(fill.sources)
  BY <1>1 DEF FillIs, Sourced, WorkbookInv
<1>7. /\ Matching(fill.values, l) # {} <=> Named(fill.sources, l)
      /\ Named(fill.sources, l) => ValueFor(fill.values, l) = Told(fill.sources, l)
  BY <1>6, ValueIsTold
<1>8. book[plan.out][s][i] = IF i \in Writes(sheet, fill.values, plan.onlyEmpty)
                             THEN <<l, ValueFor(fill.values, l)>> ELSE sheet[i]
  BY <1>5 DEF Filled
<1>9. i \in Writes(sheet, fill.values, plan.onlyEmpty) <=>
        /\ Target(sheet, i) /\ Matching(fill.values, l) # {}
        /\ sheet[i][2] # Merged /\ (plan.onlyEmpty => sheet[i][2] = EmptyCell)
  BY DEF Writes
<1>. QED BY <1>7, <1>8, <1>9

\* The call under way is as it was, or there is none.
LEMMA CallKept ==
  ASSUME WorkbookInv, UNCHANGED <<plan, fill>>, source' \in [SourceFiles -> SourceBooks],
         book' = [n \in DOMAIN book' |-> book'[n]], {"template"} \subseteq DOMAIN book',
         \A n \in DOMAIN book' : IsBook(book'[n]),
         fill.pc = "none" \/ book' = book
  PROVE  WorkbookInv'
<1>1. FillIs(fill)' <=> FillIs(fill)
  BY DEF FillIs
<1>2. SoFar(fill)' = SoFar(fill) /\ BaseOf(fill.at)' = BaseOf(fill.at)
  BY DEF SoFar, BaseOf
<1>. QED BY <1>1, <1>2 DEF WorkbookInv

\* Saving a sheet leaves books that are well formed.
LEMMA SavedIs ==
  ASSUME WorkbookInv, NEW name, NEW s \in Sheets, NEW from \in DOMAIN book, NEW sheet, Lined(sheet),
         book' = Saved(name, s, from, sheet)
  PROVE  /\ book' = [n \in DOMAIN book' |-> book'[n]] /\ {"template"} \subseteq DOMAIN book'
         /\ name \in DOMAIN book'
         /\ \A n \in DOMAIN book' : IsBook(book'[n])
         /\ book'[name] = [t \in Sheets |-> IF t = s THEN sheet ELSE book[from][t]]
<1> DEFINE new == [book[from] EXCEPT ![s] = sheet]
<1>1. book' = [n \in DOMAIN book \cup {name} |-> IF n = name THEN new ELSE book[n]]
  BY DEF Saved
<1>2. IsBook(book[from]) /\ {"template"} \subseteq DOMAIN book /\ \A n \in DOMAIN book : IsBook(book[n])
  BY DEF WorkbookInv
<1>3. new = [t \in Sheets |-> IF t = s THEN sheet ELSE book[from][t]]
  BY <1>2 DEF IsBook
<1>4. IsBook(new)
  BY <1>2, <1>3 DEF IsBook
<1> HIDE DEF new
<1>. QED BY <1>1, <1>2, <1>3, <1>4

LEMMA StartPlanKeeps == WorkbookInv /\ StartPlan => WorkbookInv'
<1> SUFFICES ASSUME WorkbookInv, StartPlan PROVE WorkbookInv'
  OBVIOUS
<1> DEFINE values == Resolved(source, plan)
           started == [pc |-> "fill", at |-> 1, values |-> values, results |-> <<>>, wrote |-> 0,
                       began |-> book["template"], sources |-> source, calm |-> TRUE]
<1>1. fill.pc = "none" /\ UNCHANGED <<book, source, plan>> /\ fill' \in {NoFill, started}
  BY DEF StartPlan
<1>2. CASE fill' = NoFill
  <2>1. fill'.pc = "none"
    BY <1>2 DEF NoFill
  <2>. QED BY <1>1, <2>1 DEF WorkbookInv
<1>3. CASE fill' = started
  <2> HIDE DEF values
  <2>0. IsBook(book["template"]) /\ "template" \in DOMAIN book
    BY DEF WorkbookInv
  <2>1. fill'.pc = "fill" /\ fill'.at = 1 /\ fill'.values = values /\ fill'.results = <<>>
        /\ fill'.began = book["template"] /\ fill'.sources = source
    BY <1>3
  <2>2. SheetNames \in Seq(Sheets) /\ Len(SheetNames) \in Nat \ {0}
    BY WorkbookAssumption
  <2>3. values' = values
    BY <1>1 DEF values, Resolved
  <2>4. FillIs(fill)'
    <3>1. fill' = [pc |-> fill'.pc, at |-> fill'.at, values |-> fill'.values, results |-> fill'.results,
                   wrote |-> fill'.wrote, began |-> fill'.began, sources |-> fill'.sources, calm |-> fill'.calm]
      BY <1>3
    <3>2. fill'.values = Resolved(fill.sources, plan)'
      BY <1>1, <2>1 DEF values, Resolved
    <3>3. source \in [SourceFiles -> SourceBooks]
      BY DEF WorkbookInv
    <3>. QED BY <3>1, <3>2, <3>3, <2>0, <2>1, <2>2 DEF FillIs
  <2>5. SoFar(fill)' = book["template"]
    BY <2>0, <2>1 DEF SoFar, IsBook
  <2>6. BaseOf(fill.at)' = "template"
    BY <2>1 DEF BaseOf
  <2>. QED BY <1>1, <2>0, <2>1, <2>2, <2>4, <2>5, <2>6 DEF WorkbookInv
<1>. QED BY <1>1, <1>2, <1>3

\* A result ends the call, or goes on with the next sheet.
LEMMA ReportIs ==
  ASSUME WorkbookInv, fill.pc = "fill", UNCHANGED plan,
         NEW result \in SheetResults, NEW wrote, Report(result, wrote)
  PROVE  /\ fill'.pc \in {"fill", "done"} /\ fill'.at = fill.at + 1 /\ FillIs(fill)'
         /\ fill'.pc = "fill" => fill.at # Len(SheetNames)
         /\ fill'.pc = "done" /\ result \in Saves => fill.at = Len(SheetNames)
         /\ fill'.calm = fill.calm /\ fill'.began = fill.began /\ fill'.values = fill.values
         /\ Range(fill'.results) = Range(fill.results) \cup {result}
<1>1. FillIs(fill) /\ fill.at <= Len(SheetNames) /\ Len(SheetNames) \in Nat
  BY WorkbookAssumption DEF WorkbookInv
<1> DEFINE goes == IF result \in {"Error:", "Error saving file:"} \/ fill.at = Len(SheetNames)
                   THEN "done" ELSE "fill"
<1>2. fill' = [pc |-> goes, at |-> fill.at + 1, values |-> fill.values,
               results |-> Append(fill.results, result), wrote |-> fill.wrote + wrote,
               began |-> fill.began, sources |-> fill.sources, calm |-> fill.calm]
  BY <1>1 DEF Report, FillIs
<1>3. fill.results \in Seq(SheetResults)
  BY <1>1 DEF FillIs, SheetResults
<1>4. Append(fill.results, result) \in Seq(SheetResults)
  BY <1>3
<1>5. Range(Append(fill.results, result)) = Range(fill.results) \cup {result}
  <2>1. \A q \in Seq(SheetResults) : Range(q) = Elements(q)
    BY DEF Range, Elements
  <2>2. Elements(Append(fill.results, result)) = Elements(fill.results) \cup {result}
    BY <1>3, AppendElements
  <2>. QED BY <1>3, <1>4, <2>1, <2>2
<1>6. FillIs(fill)'
  <2> HIDE DEF goes
  <2>0. fill'.values = fill.values /\ fill'.sources = fill.sources /\ fill.values = Resolved(fill.sources, plan)
    BY <1>1, <1>2 DEF FillIs
  <2>1. fill'.values = Resolved(fill.sources, plan)'
    BY <2>0 DEF Resolved
  <2>2. fill'.at \in 1..(Len(SheetNames) + 1)
    <3>1. fill.at \in 1..(Len(SheetNames) + 1) /\ fill'.at = fill.at + 1
      BY <1>1, <1>2 DEF FillIs
    <3>. QED BY <1>1, <3>1
  <2>. QED BY <1>1, <1>2, <1>4, <2>1, <2>2 DEF FillIs, SheetResults
<1>. QED BY <1>1, <1>2, <1>5, <1>6 DEF Saves

LEMMA FillSheetKeeps == WorkbookInv /\ FillSheet => WorkbookInv'
<1> SUFFICES ASSUME WorkbookInv, FillSheet PROVE WorkbookInv'
  OBVIOUS
<1> DEFINE s == SheetNames[fill.at]
           base == BaseOf(fill.at)
           sheet == book[base][s]
           filled == Filled(sheet, fill.values, plan.onlyEmpty)
           status == Status(sheet, fill.values, plan.onlyEmpty)
<1>1. /\ fill.pc = "fill" /\ base \in DOMAIN book /\ UNCHANGED <<source, plan>>
      /\ book' = Saved(plan.out, s, base, filled)
      /\ \E wrote : Report(status, wrote)
  BY DEF FillSheet
<1>2. status \in Saves
  BY DEF Status, Saves
<1>3. FillIs(fill) /\ fill.at \in 1..Len(SheetNames) /\ SheetNames \in Seq(Sheets)
  <2>1. SheetNames \in Seq(Sheets) /\ Len(SheetNames) \in Nat
    BY WorkbookAssumption
  <2>2. FillIs(fill) /\ fill.at <= Len(SheetNames)
    BY <1>1 DEF WorkbookInv
  <2>3. fill.at \in 1..(Len(SheetNames) + 1)
    BY <2>2 DEF FillIs
  <2>. QED BY <2>1, <2>2, <2>3
<1>4. s \in Sheets /\ Lined(sheet)
  <2>1. s \in Sheets
    BY <1>3
  <2>. QED BY <1>1, <2>1 DEF WorkbookInv, IsBook
<1>5. /\ fill'.pc \in {"fill", "done"} /\ fill'.at = fill.at + 1 /\ FillIs(fill)'
      /\ fill'.pc = "fill" => fill.at # Len(SheetNames)
      /\ fill'.pc = "done" => fill.at = Len(SheetNames)
      /\ fill'.calm = fill.calm /\ fill'.began = fill.began /\ fill'.values = fill.values
      /\ Range(fill'.results) = Range(fill.results) \cup {status}
  BY <1>1, <1>2, ReportIs DEF SheetResults
<1>6. Lined(filled)
  BY <1>4, FilledKeeps
<1>7. /\ book' = [n \in DOMAIN book' |-> book'[n]] /\ {"template"} \subseteq DOMAIN book'
      /\ plan.out \in DOMAIN book' /\ \A n \in DOMAIN book' : IsBook(book'[n])
      /\ book'[plan.out] = [t \in Sheets |-> IF t = s THEN filled ELSE book[base][t]]
  <2> HIDE DEF s, base, sheet, filled
  <2>1. book' = Saved(plan.out, s, base, filled) /\ base \in DOMAIN book /\ s \in Sheets
    BY <1>1, <1>4
  <2>. QED BY <2>1, <1>6, SavedIs
<1>8. BaseOf(fill.at)' = plan.out
  BY <1>1, <1>3, <1>5 DEF BaseOf
<1>9. ASSUME fill'.calm, Range(fill'.results) \subseteq Saves
      PROVE  book'[plan.out] = SoFar(fill)'
  <2>1. book[base] = SoFar(fill)
    BY <1>1, <1>5, <1>9 DEF WorkbookInv
  <2>2. \A t \in Sheets : book[base][t] =
          IF \E j \in 1..(fill.at - 1) : SheetNames[j] = t
          THEN Filled(fill.began[t], fill.values, plan.onlyEmpty) ELSE fill.began[t]
    BY <2>1 DEF SoFar
  <2>3. Lined(fill.began[s])
    BY <1>3, <1>4 DEF FillIs, IsBook
  <2>4. filled = Filled(fill.began[s], fill.values, plan.onlyEmpty)
    BY <1>4, <2>2, <2>3, FilledKeeps
  <2>5. SoFar(fill)' = [t \in Sheets |-> IF \E j \in 1..fill.at : SheetNames[j] = t
                         THEN Filled(fill.began[t], fill.values, plan.onlyEmpty) ELSE fill.began[t]]
    <3>1. fill'.at - 1 = fill.at
      BY <1>3, <1>5
    <3>. QED BY <1>1, <1>5, <3>1 DEF SoFar
  <2>6. ASSUME NEW t \in Sheets
        PROVE  (IF t = s THEN filled ELSE book[base][t]) =
                 IF \E j \in 1..fill.at : SheetNames[j] = t
                 THEN Filled(fill.began[t], fill.values, plan.onlyEmpty) ELSE fill.began[t]
    <3>1. CASE t = s
      <4>1. \E j \in 1..fill.at : SheetNames[j] = t
        BY <1>3, <3>1
      <4>. QED BY <2>4, <3>1, <4>1
    <3>2. CASE t # s
      <4>1. (\E j \in 1..fill.at : SheetNames[j] = t) <=> \E j \in 1..(fill.at - 1) : SheetNames[j] = t
        BY <1>3, <3>2
      <4>. QED BY <2>2, <3>2, <4>1
    <3>. QED BY <3>1, <3>2
  <2> HIDE DEF s, base, filled
  <2>. QED BY <1>7, <2>5, <2>6
<1>10. fill'.pc = "fill" => fill'.at <= Len(SheetNames)
  BY <1>3, <1>5
<1> HIDE DEF s, base, sheet, filled, status
<1>. QED BY <1>1, <1>5, <1>7, <1>8, <1>9, <1>10 DEF WorkbookInv

LEMMA FillFailsKeeps ==
  ASSUME WorkbookInv, NEW result \in {"Error:", "Error saving file:"}, FillFails(result)
  PROVE  WorkbookInv'
<1>1. fill.pc = "fill" /\ UNCHANGED <<book, source, plan>> /\ Report(result, 0) /\ result \in SheetResults
  BY DEF FillFails, SheetResults
<1>2. /\ fill'.pc = "done" /\ FillIs(fill)'
      /\ Range(fill'.results) = Range(fill.results) \cup {result}
  <2>1. fill'.pc = "done"
    BY <1>1 DEF Report, WorkbookInv, FillIs
  <2>. QED BY <1>1, <2>1, ReportIs
<1>3. ~(Range(fill'.results) \subseteq Saves)
  BY <1>2 DEF Saves
<1>. QED BY <1>1, <1>2, <1>3 DEF WorkbookInv

LEMMA UserReplacesKeeps == WorkbookInv /\ UserReplaces => WorkbookInv'
<1> SUFFICES ASSUME WorkbookInv, UserReplaces PROVE WorkbookInv'
  OBVIOUS
<1>1. fill.pc = "fill" /\ fill' = [fill EXCEPT !.calm = FALSE] /\ UNCHANGED plan
  BY DEF UserReplaces, Disturbed
<1>2. FillIs(fill) /\ fill.at <= Len(SheetNames)
  BY <1>1 DEF WorkbookInv
<1>3. fill' = [pc |-> fill.pc, at |-> fill.at, values |-> fill.values, results |-> fill.results,
               wrote |-> fill.wrote, began |-> fill.began, sources |-> fill.sources, calm |-> FALSE]
  BY <1>1, <1>2 DEF FillIs
<1>4. FillIs(fill)' /\ fill'.pc = "fill" /\ fill'.at <= Len(SheetNames) /\ ~fill'.calm
  <2>1. fill'.values = Resolved(fill.sources, plan)'
    BY <1>1, <1>2, <1>3 DEF FillIs, Resolved
  <2>. QED BY <1>1, <1>2, <1>3, <2>1 DEF FillIs
<1> DEFINE Sound == /\ book' = [n \in DOMAIN book' |-> book'[n]] /\ {"template"} \subseteq DOMAIN book'
                    /\ \A n \in DOMAIN book' : IsBook(book'[n])
                    /\ source' \in [SourceFiles -> SourceBooks]
<1>5. Sound
  <2>1. /\ book = [n \in DOMAIN book |-> book[n]] /\ {"template"} \subseteq DOMAIN book
        /\ \A n \in DOMAIN book : IsBook(book[n])
        /\ source \in [SourceFiles -> SourceBooks]
    BY DEF WorkbookInv
  <2>2. ASSUME NEW t \in Templates, NEW s \in Sheets, NEW n \in DOMAIN book,
               book' = [book EXCEPT ![n][s] = t], UNCHANGED source
        PROVE  Sound
    <3>1. t \in Seq(Labels \X Cells)
      BY WorkbookAssumption
    <3>2. Lined(t)
      BY <3>1 DEF Lined
    <3>3. IsBook([book[n] EXCEPT ![s] = t])
      BY <2>1, <3>2 DEF IsBook
    <3>. QED BY <2>1, <2>2, <3>3
  <2>3. ASSUME book' = [n \in {"template"} |-> book[n]], UNCHANGED source
        PROVE  Sound
    BY <2>1, <2>3
  <2>4. ASSUME NEW f \in SourceFiles, NEW sheet \in SourceBooks,
               source' = [source EXCEPT ![f] = sheet], UNCHANGED book
        PROVE  Sound
    BY <2>1, <2>4
  <2> HIDE DEF Sound
  <2>5. \/ \E t \in Templates, s \in Sheets, n \in DOMAIN book :
            book' = [book EXCEPT ![n][s] = t] /\ UNCHANGED source
        \/ book' = [n \in {"template"} |-> book[n]] /\ UNCHANGED source
        \/ \E f \in SourceFiles, sheet \in SourceBooks :
            source' = [source EXCEPT ![f] = sheet] /\ UNCHANGED book
    BY DEF UserReplaces
  <2>. QED BY <2>2, <2>3, <2>4, <2>5
<1>. QED BY <1>1, <1>4, <1>5 DEF WorkbookInv

LEMMA FillCellsKeeps ==
  ASSUME WorkbookInv, NEW s \in Sheets, NEW i, NEW v, NEW out, FillCells(s, i, v, out)
  PROVE  WorkbookInv'
<1> DEFINE cell == book["template"][s][i]
           sheet == [book["template"][s] EXCEPT ![i] = IF cell[2] = Merged THEN cell ELSE <<cell[1], v>>]
<1>1. fill.pc = "none" /\ UNCHANGED <<source, plan, fill>> /\ book' = Saved(out, s, "template", sheet)
  BY DEF FillCells
<1>2. "template" \in DOMAIN book /\ Lined(book["template"][s])
  BY DEF WorkbookInv, IsBook
<1>3. DOMAIN sheet = DOMAIN book["template"][s]
  OBVIOUS
<1>4. Lined(sheet)
  BY <1>2, <1>3 DEF Lined
<1> HIDE DEF sheet
<1>5. /\ book' = [n \in DOMAIN book' |-> book'[n]] /\ {"template"} \subseteq DOMAIN book'
      /\ \A n \in DOMAIN book' : IsBook(book'[n])
  BY <1>1, <1>2, <1>4, SavedIs
<1>6. source' \in [SourceFiles -> SourceBooks]
  BY <1>1 DEF WorkbookInv
<1>. QED BY <1>1, <1>5, <1>6, CallKept

LEMMA WorkbookInvStep == WorkbookInv /\ [WorkbookNext]_workbookVars => WorkbookInv'
<1> SUFFICES ASSUME WorkbookInv, [WorkbookNext]_workbookVars PROVE WorkbookInv'
  OBVIOUS
<1>1. CASE StartPlan
  BY <1>1, StartPlanKeeps
<1>2. CASE FillSheet
  BY <1>2, FillSheetKeeps
<1>3. CASE FillRaises \/ EndPlan
  <2>1. fill' = NoFill /\ UNCHANGED <<book, source, plan>>
    BY <1>3 DEF FillRaises, EndPlan
  <2>. QED BY <2>1 DEF WorkbookInv, NoFill
<1>4. CASE UserReplaces
  BY <1>4, UserReplacesKeeps
<1>5. CASE \E result \in {"Error:", "Error saving file:"} : FillFails(result)
  BY <1>5, FillFailsKeeps
<1>6. CASE \E s \in Sheets, i \in 1..2, out \in {"template", "report"} : FillCells(s, i, 9, out)
  BY <1>6, FillCellsKeeps
<1>7. CASE UNCHANGED workbookVars
  <2>1. UNCHANGED <<book, source, plan, fill>>
    BY <1>7 DEF workbookVars
  <2>. QED BY <2>1, CallKept DEF WorkbookInv
<1>. QED BY <1>1, <1>2, <1>3, <1>4, <1>5, <1>6, <1>7 DEF WorkbookNext

BooksRest ==
  DOMAIN book \subseteq {"template", "report"} /\ fills \in 0..MaxFills /\ nudged \in BOOLEAN

LEMMA BooksAreTyped == WorkbookInv /\ BooksRest => WorkbookTypeOK
<1> SUFFICES ASSUME WorkbookInv, BooksRest PROVE WorkbookTypeOK
  OBVIOUS
<1>1. \A n \in DOMAIN book : DOMAIN book[n] = Sheets
  BY DEF WorkbookInv, IsBook
<1>. QED BY <1>1 DEF WorkbookInv, BooksRest, WorkbookTypeOK

LEMMA BooksRestInit == WorkbookInit => BooksRest
<1> SUFFICES ASSUME WorkbookInit PROVE BooksRest
  OBVIOUS
<1>1. DOMAIN book = {"template"} /\ fills = 0
  BY DEF WorkbookInit
<1>2. MaxFills \in Nat
  BY WorkbookAssumption
<1>3. nudged \in BOOLEAN
  BY Zenon DEF WorkbookInit
<1>. QED BY <1>1, <1>2, <1>3 DEF BooksRest

LEMMA BooksRestStep ==
  ASSUME WorkbookInv, BooksRest, [WorkbookNext]_workbookVars PROVE BooksRest'
<1>0. MaxFills \in Nat /\ plan.out \in {"template", "report"}
  BY WorkbookAssumption DEF WorkbookInv, Plans
<1>1. ASSUME NEW name \in {"template", "report"}, NEW s, NEW from, NEW sheet, book' = Saved(name, s, from, sheet)
      PROVE  DOMAIN book' \subseteq {"template", "report"}
  <2>1. DOMAIN book' = DOMAIN book \cup {name}
    BY <1>1 DEF Saved
  <2>. QED BY <2>1 DEF BooksRest
<1>2. CASE StartPlan
  BY <1>0, <1>2 DEF StartPlan, BooksRest
<1>3. CASE FillSheet
  <2>1. \E s, from, sheet : book' = Saved(plan.out, s, from, sheet)
    BY <1>3 DEF FillSheet
  <2>2. UNCHANGED <<fills, nudged>>
    BY <1>3 DEF FillSheet
  <2>. QED BY <1>0, <1>1, <2>1, <2>2 DEF BooksRest
<1>4. CASE FillRaises \/ EndPlan
  <2>1. UNCHANGED <<book, fills>> /\ nudged' \in BOOLEAN
    BY <1>4 DEF FillRaises, EndPlan, BooksRest
  <2>. QED BY <2>1 DEF BooksRest
<1>5. CASE UserReplaces
  <2>1. DOMAIN book' \subseteq DOMAIN book /\ UNCHANGED <<fills, nudged>>
    BY <1>5 DEF UserReplaces, WorkbookInv
  <2>. QED BY <2>1 DEF BooksRest
<1>6. ASSUME NEW result, FillFails(result) PROVE BooksRest'
  BY <1>6 DEF FillFails, BooksRest
<1>7. ASSUME NEW s \in Sheets, NEW i, NEW v, NEW out \in {"template", "report"}, FillCells(s, i, v, out)
      PROVE  BooksRest'
  <2>1. \E sheet : book' = Saved(out, s, "template", sheet)
    BY <1>7 DEF FillCells
  <2>2. fills' \in 0..MaxFills /\ UNCHANGED nudged
    BY <1>0, <1>7 DEF FillCells, BooksRest
  <2>. QED BY <1>1, <2>1, <2>2 DEF BooksRest
<1>8. CASE UNCHANGED workbookVars
  BY <1>8 DEF workbookVars, BooksRest
<1>. QED BY <1>2, <1>3, <1>4, <1>5, <1>6, <1>7, <1>8 DEF WorkbookNext

-----------------------------------------------------------------------------
(* All parts together *)

serviceVars == <<focus, cacheVars, routingVars, streamVars, journalVars, delegationVars, memoryVars,
                 pipeVars, mcpVars, reloadVars, boxVars, calibrationVars, workbookVars>>

ServicesSpec == Init /\ [][Next]_serviceVars

LEMMA ServiceSteps ==
  ASSUME [Next]_serviceVars
  PROVE  /\ focus' = focus
         /\ focus = "pipes" => [PipesNext]_pipeVars
         /\ focus = "servers" => [MCPNext]_mcpVars
         /\ focus = "reload" => [ReloadNext]_reloadVars
         /\ focus = "boxes" => [ContainersNext]_boxVars
         /\ focus = "calibration" => [CalibrationNext]_calibrationVars
         /\ focus = "delegation" => [DelegationNext]_delegationVars
         /\ focus = "memory" => [MemoryNext]_memoryVars
         /\ focus = "journal" => [JournalNext]_journalVars
         /\ focus = "cache" => [CacheNext]_cacheVars
         /\ focus = "routing" => [RoutingNext]_routingVars
         /\ focus = "stream" => [StreamNext]_streamVars
         /\ focus = "workbook" => [WorkbookNext]_workbookVars
<1>1. CASE UNCHANGED serviceVars
  BY <1>1 DEF serviceVars
<1>2. CASE Next
  BY <1>2 DEF Next, Apart
<1>. QED BY <1>1, <1>2

\* For every set of calls, servers and files and however reloads, deaths and edits
\* fall: a call of a tool process gets its own answer or none, but for a plugin of
\* which a call was cancelled while it read; while no reload overlapped another or was
\* cut off, an offered tool is one its server's present client serves; and the
\* registries of a watcher that has seen the files follow them, but for the names of
\* deleted files and edits before the priming.
THEOREM ExtensionsStaySound == ServicesSpec => []ExtensionsAreSound
<1> DEFINE Inv == /\ focus = "pipes" => PipesInv
                  /\ focus = "servers" => ServersInv
                  /\ focus = "reload" => WatchInv
<1>1. Init => Inv
  BY PipesInvInit, ServersInvInit, WatchInvInit DEF Init
<1>2. Inv /\ [Next]_serviceVars => Inv'
  BY ServiceSteps, PipesInvStep, ServersInvStep, WatchInvStep
<1>3. Inv => ExtensionsAreSound
  BY ServersInvSound, WatchInvSound DEF ExtensionsAreSound, PipesInv
<1>. QED BY <1>1, <1>2, <1>3, PTL DEF ServicesSpec

\* For every number of tenants, requests, sweeps and containers: no tool runs in a
\* container with other labels than its policy's, whatever prunes or restarts it meanwhile.
THEOREM SandboxStaysCurrent == ServicesSpec => []SandboxIsCurrent
<1> DEFINE Inv == focus = "boxes" => BoxesInv
<1>1. Init => Inv
  BY BoxesInvInit DEF Init
<1>2. Inv /\ [Next]_serviceVars => Inv'
  BY ServiceSteps, BoxesInvStep
<1>3. Inv => SandboxIsCurrent
  BY BoxesInvSound DEF SandboxIsCurrent
<1>. QED BY <1>1, <1>2, <1>3, PTL DEF ServicesSpec

\* For every set of surfaces and every number of scenarios, iterations, proposals
\* and crashes: a calibration that found a directory ends with the best proposal
\* in it.
THEOREM CalibrationKeepsBest == ServicesSpec => []BestStays
<1> DEFINE Inv == focus = "calibration" => CalibrationInv
<1>1. Init => Inv
  BY CalibrationInvInit DEF Init
<1>2. Inv /\ [Next]_serviceVars => Inv'
  BY ServiceSteps, CalibrationInvStep
<1>3. Inv => BestStays
  BY CalibrationInvSound DEF BestStays
<1>. QED BY <1>1, <1>2, <1>3, PTL DEF ServicesSpec

\* For every finite set of pages and all limits that do not shrink with the mode: a
\* research run stays within the pages, searches and rereads of the mode it is in,
\* and the skeleton or partial report it ends with reaches the user with every fact
\* it noted, each of a page the report names.
THEOREM DelegationStaysSound == ServicesSpec => []DelegationHolds
<1> DEFINE Inv == focus = "delegation" => ResearchInv
<1>1. Init => Inv
  BY ResearchInvInit DEF Init
<1>2. Inv /\ [Next]_serviceVars => Inv'
  BY ServiceSteps, ResearchInvStep
<1>3. Inv => DelegationHolds
  BY ResearchInvSound DEF DelegationHolds
<1>. QED BY <1>1, <1>2, <1>3, PTL DEF ServicesSpec

\* For every finite set of entries and every number of parallel stores, with
\* processes that end anywhere: after a healing and until the index fails, an answer
\* of the recall misses an entry only if the answer is full or, by a cue, if there
\* are more entries than are scanned; unless two stores of an entry overlapped, a cue
\* it once had stays, and an acknowledged one is missing only if the entry is full.
THEOREM MemoryStaysSound == ServicesSpec => []MemoryHolds
<1> DEFINE Inv == focus = "memory" => MemoryInv
<1>1. Init => Inv
  BY MemoryInvInit DEF Init
<1>2. Inv /\ [Next]_serviceVars => Inv'
  BY ServiceSteps, MemoryInvStep
<1>3. Inv => MemoryHolds
  BY MemoryInvSound DEF MemoryHolds
<1>. QED BY <1>1, <1>2, <1>3, PTL DEF ServicesSpec

\* For every set of runs, tool calls, files and browser tabs, and however many
\* contents are written: while no two calls, no cut and no late undo crossed on a
\* file, a run whose call tracks what it writes changes it only as it knows it or after
\* a warning; calls that write another file than they track are out; and the undo of
\* the only call of a run on a file brings back what the file was before that call.
THEOREM JournalStaysKept == ServicesSpec => JournalIsKept
<1> DEFINE Inv == focus = "journal" => JournalInv
<1>1. Init => Inv
  BY JournalInvInit DEF Init
<1>2. Inv /\ [Next]_serviceVars => Inv'
  BY ServiceSteps, JournalInvStep
<1>3. Inv /\ [Next]_serviceVars =>
        [focus = "journal" => NoSilentOverwrite /\ UndoRestoresOneCall]_journalVars
  BY ServiceSteps, NoWriteIsSilent, UndoPutsBack
<1>. QED BY <1>1, <1>2, <1>3, PTL DEF ServicesSpec, JournalIsKept

\* For every set of calls, slots and conversations, and however many resets, with
\* the resets of a user between his calls (the web's /new takes his gate): prune
\* never deletes the file of a scope some slot is tracked to hold; and until a call
\* is cancelled or fails for the second time, every cache file holds the
\* conversation it is named after and no call reuses one from before a reset, but
\* for files the reset could not delete.
THEOREM CacheStaysKept ==
  ASSUME ~ResetWhileBusy
  PROVE  ServicesSpec => CacheIsKept
<1> DEFINE Inv == focus = "cache" => CacheInv
<1>1. Init => Inv
  BY CacheInvInit DEF Init
<1>2. Inv /\ [Next]_serviceVars => Inv'
  BY ServiceSteps, CacheInvStep
<1>3. Inv /\ Inv' /\ [Next]_serviceVars =>
        [focus = "cache" => FilesHoldTheirScope' /\ NothingOldReturns' /\ PruneSparesActive]_cacheVars
  <2> SUFFICES ASSUME Inv, Inv', [Next]_serviceVars, focus = "cache"
               PROVE  FilesHoldTheirScope' /\ NothingOldReturns' /\ PruneSparesActive
    OBVIOUS
  <2>1. CacheInv /\ CacheInv' /\ [CacheNext]_cacheVars
    BY ServiceSteps
  <2>2. PruneSparesActive
    BY <2>1, PruneLooks
  <2>3. (CacheInv => FilesHoldTheirScope /\ NothingOldReturns)'
    BY CacheInvSound, PTL
  <2>. QED BY <2>1, <2>2, <2>3
<1>. QED BY <1>1, <1>2, <1>3, PTL DEF ServicesSpec, CacheIsKept

\* For every set of rules, profiles and runs, and every answer of a model, however it
\* is cut and mixed, with the LLM queue: no route of the process or of a run leads to
\* a closed provider, the default included; none is left open when the runs are over
\* but for headless runs and those that failed in their prologue; a model gets only
\* inference settings meant for it or given by the caller of the override; and a call
\* that answers, streamed or asked for again, gives what the unstreamed parse of the
\* model's answer gives, if its calls have arguments and an id.
THEOREM ModelCallsStaySound ==
  ASSUME Queued
  PROVE  ServicesSpec => []ModelCallsAreSound
<1> DEFINE Inv == /\ focus = "routing" => RoutingInv
                  /\ focus = "stream" => StreamInv
<1>1. Init => Inv
  BY RoutingInvInit, StreamInvInit DEF Init
<1>2. Inv /\ [Next]_serviceVars => Inv'
  BY ServiceSteps, RoutingInvStep, StreamInvStep
<1>3. Inv => ModelCallsAreSound
  BY RoutingInvSound DEF ModelCallsAreSound, StreamInv
<1>. QED BY <1>1, <1>2, <1>3, PTL DEF ServicesSpec

\* For every set of labels, sources and templates and every order of the sheets: a
\* plan whose sheets were all saved leaves a report in which the first row of each
\* label a source names holds what the sources say of it and every other cell what
\* the template held, unless a file was replaced meanwhile or the sources spell a
\* key in two ways.
THEOREM ReportStaysRight == ServicesSpec => []ReportIsRight
<1> DEFINE Inv == focus = "workbook" => WorkbookInv
<1>1. Init => Inv
  BY WorkbookInvInit DEF Init
<1>2. Inv /\ [Next]_serviceVars => Inv'
  BY ServiceSteps, WorkbookInvStep
<1>3. Inv => ReportIsRight
  BY WorkbookInvSound DEF ReportIsRight
<1>. QED BY <1>1, <1>2, <1>3, PTL DEF ServicesSpec

\* The invariant of the part in focus, with the bounds its type adds.
PartInv ==
  /\ focus \in Parts
  /\ focus = "cache" => CacheShape
  /\ focus = "routing" => RoutingInv
  /\ focus = "stream" => StreamInv /\ StreamRest
  /\ focus = "journal" => JournalInv
  /\ focus = "delegation" => ResearchInv /\ TaskRest
  /\ focus = "memory" => MemoryInv /\ MemoryRest
  /\ focus = "pipes" => PipesInv /\ torn \subseteq Pipes
  /\ focus = "servers" => ServersInv /\ ServersRest
  /\ focus = "reload" => WatchInv /\ WatchRest
  /\ focus = "boxes" => BoxesInv /\ BoxesRest
  /\ focus = "calibration" => CalibrationInv
  /\ focus = "workbook" => WorkbookInv /\ BooksRest

\* For every set and every bound of each part, and also where resets run across the
\* calls of their user: each part keeps its type, so no record, slot, row or file it
\* holds is of a kind its handlers do not expect.
THEOREM ServicesStayTyped == ServicesSpec => []ServicesTypeOK
<1>1. Init => PartInv
  BY CacheShapeInit, RoutingInvInit, StreamInvInit, StreamRestInit, JournalInvInit, ResearchInvInit,
     TaskRestInit, MemoryInvInit, MemoryRestInit, PipesInvInit, TornInit, ServersInvInit,
     ServersRestInit, WatchInvInit, WatchRestInit, BoxesInvInit, BoxesRestInit, CalibrationInvInit,
     WorkbookInvInit, BooksRestInit DEF Init, PartInv
<1>2. PartInv /\ [Next]_serviceVars => PartInv'
  BY ServiceSteps, CacheShapeStep, RoutingInvStep, StreamInvStep, StreamRestStep, JournalInvStep,
     ResearchInvStep, TaskRestStep, MemoryInvStep, MemoryRestStep, PipesInvStep, TornStep,
     ServersInvStep, ServersRestStep, WatchInvStep, WatchRestStep, BoxesInvStep, BoxesRestStep,
     CalibrationInvStep, WorkbookInvStep, BooksRestStep DEF PartInv
<1>3. PartInv => ServicesTypeOK
  <2> SUFFICES ASSUME PartInv PROVE ServicesTypeOK
    OBVIOUS
  <2>1. CASE focus = "cache"
    BY <2>1, CacheIsTyped DEF PartInv, ServicesTypeOK
  <2>2. CASE focus = "routing"
    BY <2>2, RoutingTyped DEF PartInv, ServicesTypeOK
  <2>3. CASE focus = "stream"
    BY <2>3, StreamIsTyped DEF PartInv, ServicesTypeOK
  <2>4. CASE focus = "journal"
    BY <2>4, JournalTyped DEF PartInv, JournalInv, ServicesTypeOK
  <2>5. CASE focus = "delegation"
    BY <2>5, TasksAreTyped DEF PartInv, ServicesTypeOK
  <2>6. CASE focus = "memory"
    BY <2>6, MemoryIsTyped DEF PartInv, ServicesTypeOK
  <2>7. CASE focus = "pipes"
    BY <2>7, PipesAreTyped DEF PartInv, ServicesTypeOK
  <2>8. CASE focus = "servers"
    BY <2>8, ServersAreTyped DEF PartInv, ServicesTypeOK
  <2>9. CASE focus = "reload"
    BY <2>9, FilesAreTyped DEF PartInv, ServicesTypeOK
  <2>10. CASE focus = "boxes"
    BY <2>10, BoxesAreTyped DEF PartInv, ServicesTypeOK
  <2>11. CASE focus = "calibration"
    BY <2>11, CalibrationTyped DEF PartInv, ServicesTypeOK
  <2>12. CASE focus = "workbook"
    BY <2>12, BooksAreTyped DEF PartInv, ServicesTypeOK
  <2>. QED BY <2>1, <2>2, <2>3, <2>4, <2>5, <2>6, <2>7, <2>8, <2>9, <2>10, <2>11, <2>12,
     PartsAssumption DEF PartInv, PartsAssumption
<1>. QED BY <1>1, <1>2, <1>3, PTL DEF ServicesSpec
=============================================================================
