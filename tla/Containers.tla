----------------------------- MODULE Containers -----------------------------
(***************************************************************************)
(* The containers the file and script tools run in: ensure_running before  *)
(* a request (container/manager.py), the tool calls of the request         *)
(* (container/proxy.py, ipc.py, agent_worker.py), and who removes          *)
(* containers: the idle loops of the channels, the prune command and the   *)
(* shutdown.  Docker names a container after its user, so there is one at  *)
(* most; it is told from its successor by a number.                        *)
(* The sets recent and young stand for clock readings: the users whose     *)
(* last call, and the starts that, are less than idle_timeout_seconds old. *)
(***************************************************************************)
EXTENDS Naturals, FiniteSets, World

CONSTANTS Tenants,     \* users with a container
          Requests,    \* tasks that serve a request
          TenantOf,    \* the user of each request
          Pruners,     \* "loop" has the call times, "command" has not
          MaxCreate,   \* max_concurrent_containers
          MaxSweeps,   \* bound: removals under way at the same time
          MaxBoxes     \* bound: containers started or restarted in all

ASSUME ContainersAssumption ==
    /\ TenantOf \in [Requests -> Tenants]
    /\ Pruners \subseteq {"loop", "command"}
    /\ MaxCreate \in Nat \ {0}
    /\ {MaxBoxes, MaxSweeps} \subseteq Nat

VARIABLES box,      \* the container of each user, or None
          boxes,    \* starts so far; a container is numbered by its first
          used,     \* _last_used: users the channel's process made a call for
          recent,   \* those whose last call began within the idle limit
          young,    \* starts within it
          managed,  \* _managed_user_ids
          req,      \* the requests
          sweep     \* the removals under way, with the list each has read

boxVars == <<box, boxes, used, recent, young, managed, req, sweep>>

Idle == [pc |-> "idle", in |-> 0]
NoSweep == [on |-> FALSE, seen |-> [u \in Tenants |-> None]]

\* A container of an earlier configuration may be there, running or not.
ContainersInit ==
    /\ box \in [Tenants -> {[id |-> 0, start |-> 0, up |-> b, policy |-> "stale"] : b \in BOOLEAN}]
    /\ boxes = 0
    /\ used = {} /\ recent = {} /\ young = {} /\ managed = {}
    /\ req = [q \in Requests |-> Idle]
    /\ sweep = [p \in Pruners \cup {"stop"} |-> NoSweep]

Step(q, pc) == req' = [req EXCEPT ![q].pc = pc]
BoxOf(q) == box[TenantOf[q]]
\* the section of ensure_running_async under the lock of the user
InSection(q) == req[q].pc \in {"check", "create", "creating"}

----------------------------------------------------------------------------
Ensure(q) ==
    /\ req[q].pc = "idle"
    /\ \A p \in Requests : InSection(p) => TenantOf[p] # TenantOf[q]
    /\ Step(q, "check")
    /\ UNCHANGED <<box, boxes, used, recent, young, managed, sweep>>

\* Docker does not answer
EnsureFails(q) ==
    /\ InSection(q)
    /\ Step(q, "idle")
    /\ UNCHANGED <<box, boxes, used, recent, young, managed, sweep>>

\* a container made, or an old one restarted
StartBox(q, b) ==
    /\ boxes < MaxBoxes
    /\ boxes' = boxes + 1
    /\ box' = [box EXCEPT ![TenantOf[q]] = b]
    /\ young' = young \cup {boxes'}
    /\ managed' = managed \cup {TenantOf[q]}
    /\ Step(q, "ready")

Missing(q) ==
    /\ req[q].pc = "check" /\ BoxOf(q) = None
    /\ Step(q, "create")
    /\ UNCHANGED <<box, boxes, used, recent, young, managed, sweep>>

\* It was made under another policy, which is to say with other labels (image,
\* strict capabilities, network): stop and remove, either may fail
Mismatched(q) ==
    /\ req[q].pc = "check" /\ BoxOf(q) # None
    /\ BoxOf(q).policy = "stale"
    /\ \/ box' = [box EXCEPT ![TenantOf[q]] = None]
       \/ box' = [box EXCEPT ![TenantOf[q]].up = FALSE]
       \/ UNCHANGED box
    /\ Step(q, "create")
    /\ UNCHANGED <<boxes, used, recent, young, managed, sweep>>

\* Mutant: a stopped container is restarted whatever it was made for.
RestartAny(q) ==
    /\ req[q].pc = "check" /\ BoxOf(q) # None
    /\ ~BoxOf(q).up
    /\ StartBox(q, [BoxOf(q) EXCEPT !.up = TRUE, !.start = boxes + 1])
    /\ UNCHANGED <<used, recent, sweep>>

Restart(q) ==
    /\ req[q].pc = "check" /\ BoxOf(q) # None
    /\ BoxOf(q).policy = "current" /\ ~BoxOf(q).up
    /\ StartBox(q, [BoxOf(q) EXCEPT !.up = TRUE, !.start = boxes + 1])
    /\ UNCHANGED <<used, recent, sweep>>

Running(q) ==
    /\ req[q].pc = "check" /\ BoxOf(q) # None
    /\ BoxOf(q).policy = "current" /\ BoxOf(q).up
    /\ managed' = managed \cup {TenantOf[q]}
    /\ Step(q, "ready")
    /\ UNCHANGED <<box, boxes, used, recent, young, sweep>>

\* the semaphore around containers.run
TakeSlot(q) ==
    /\ req[q].pc = "create"
    /\ Cardinality({p \in Requests : req[p].pc = "creating"}) < MaxCreate
    /\ Step(q, "creating")
    /\ UNCHANGED <<box, boxes, used, recent, young, managed, sweep>>

\* the name may still be taken
Create(q) ==
    /\ req[q].pc = "creating"
    /\ IF BoxOf(q) = None
       THEN StartBox(q, [id |-> boxes + 1, start |-> boxes + 1, up |-> TRUE,
                         policy |-> "current"])
       ELSE Step(q, "idle") /\ UNCHANGED <<box, boxes, young, managed>>
    /\ UNCHANGED <<used, recent, sweep>>

----------------------------------------------------------------------------
\* IPCToolProxy.execute takes the user from its arguments.  A caller that hands
\* it over gets a call; ToolRegistry.execute keeps the user in a context
\* variable and hands over the model's arguments only.
Dispatch(q, user) ==
    /\ req[q].pc = "ready"
    /\ IF user = None
       THEN Step(q, "refused") /\ UNCHANGED <<used, recent>>
       ELSE /\ used' = used \cup {user}
            /\ recent' = recent \cup {user}
            /\ Step(q, "exec")
    /\ UNCHANGED <<box, boxes, young, managed, sweep>>

\* the error goes to the model, which may try again
Refused(q) ==
    /\ req[q].pc = "refused"
    /\ Step(q, "ready")
    /\ UNCHANGED <<box, boxes, used, recent, young, managed, sweep>>

\* docker exec: an error if the container does not run
Exec(q) ==
    /\ req[q].pc = "exec"
    /\ req' = [req EXCEPT ![q] = IF BoxOf(q) # None /\ BoxOf(q).up
                                 THEN [pc |-> "inside", in |-> BoxOf(q).id]
                                 ELSE [pc |-> "ready", in |-> 0]]
    /\ UNCHANGED <<box, boxes, used, recent, young, managed, sweep>>

\* the answer, a refused signature, the time-out, or the container is gone
ExecEnds(q) ==
    /\ req[q].pc = "inside"
    /\ req' = [req EXCEPT ![q] = [pc |-> "ready", in |-> 0]]
    /\ UNCHANGED <<box, boxes, used, recent, young, managed, sweep>>

EndRequest(q) ==
    /\ req[q].pc = "ready"
    /\ Step(q, "idle")
    /\ UNCHANGED <<box, boxes, used, recent, young, managed, sweep>>

----------------------------------------------------------------------------
\* containers.list, and the names of stop_managed
SweepList(p) ==
    /\ ~sweep[p].on /\ Cardinality({o \in DOMAIN sweep : sweep[o].on}) < MaxSweeps
    /\ sweep' = [sweep EXCEPT ![p] =
          [on |-> TRUE, seen |-> [u \in Tenants |->
              IF p = "stop" /\ u \notin managed THEN None ELSE box[u]]]]
    /\ UNCHANGED <<box, boxes, used, recent, young, managed, req>>

\* the time of the last call if this process made one, else the start listed
FoundIdle(p, u) ==
    IF p = "loop" /\ u \in used THEN u \notin recent
    ELSE sweep[p].seen[u].start \notin young

\* One container of the list: the status is the one listed, the clock is read
\* now; the object refers to the container listed, not to its successor.
Removable(p, u) ==
    LET old == sweep[p].seen[u] IN
    /\ old # None
    /\ p = "stop" \/ ~old.up \/ FoundIdle(p, u)

\* a removal may fail; stop_managed finds its containers by name
SweepOne(p, u) ==
    /\ sweep[p].on /\ sweep[p].seen[u] # None
    /\ sweep' = [sweep EXCEPT ![p].seen[u] = None]
    /\ \/ /\ Removable(p, u)
          /\ box[u] # None
          /\ p = "stop" \/ box[u].id = sweep[p].seen[u].id
          /\ box' = [box EXCEPT ![u] = None]
       \/ UNCHANGED box
    /\ UNCHANGED <<boxes, used, recent, young, managed, req>>

SweepEnds(p) ==
    /\ sweep[p].on
    /\ \A u \in Tenants : sweep[p].seen[u] = None
    /\ sweep' = [sweep EXCEPT ![p] = NoSweep]
    /\ managed' = IF p = "stop" THEN {} ELSE managed
    /\ UNCHANGED <<box, boxes, used, recent, young, req>>

\* the idle limit passes; a container stops by itself
Ages(u) ==
    /\ \/ recent' = recent \ {u} /\ recent' # recent /\ UNCHANGED young
       \/ young # {} /\ young' = {} /\ UNCHANGED recent
    /\ UNCHANGED <<box, boxes, used, managed, req, sweep>>

BoxStops(u) ==
    /\ box[u] # None /\ box[u].up
    /\ box' = [box EXCEPT ![u].up = FALSE]
    /\ UNCHANGED <<boxes, used, recent, young, managed, req, sweep>>

----------------------------------------------------------------------------
ContainersNext ==
    \/ \E q \in Requests :
          \/ Ensure(q) \/ EnsureFails(q) \/ Missing(q) \/ Mismatched(q) \/ Restart(q)
          \/ Running(q) \/ TakeSlot(q) \/ Create(q)
          \/ \E user \in {None, TenantOf[q]} : Dispatch(q, user)
          \/ Refused(q) \/ Exec(q) \/ ExecEnds(q) \/ EndRequest(q)
    \/ \E p \in Pruners \cup {"stop"} :
          \/ SweepList(p) \/ SweepEnds(p)
          \/ \E u \in Tenants : SweepOne(p, u)
    \/ \E u \in Tenants : Ages(u) \/ BoxStops(u)

----------------------------------------------------------------------------
(* Properties *)

ContainersTypeOK ==
    /\ \A u \in Tenants : box[u] # None =>
          box[u] \in [id : 0..boxes, start : 0..boxes, up : BOOLEAN, policy : {"current", "stale"}]
    /\ boxes \in 0..MaxBoxes
    /\ recent \subseteq used /\ used \cup managed \subseteq Tenants
    /\ young \subseteq 1..boxes
    /\ \A q \in Requests : req[q].in \in 0..boxes

\* A tool never runs in a container with other labels than the policy's: whatever is
\* removed, stopped, restarted or recreated between the check and the call, and
\* whichever removal fails ("must not be silently reused as the sandbox").
CurrentPolicyOnly ==
    \A q \in Requests : req[q].pc = "inside" /\ BoxOf(q) # None /\ BoxOf(q).id = req[q].in
        => BoxOf(q).policy = "current"
=============================================================================
