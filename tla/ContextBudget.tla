---------------------------- MODULE ContextBudget ----------------------------
(***************************************************************************)
(* What a chat may carry into the next prompt: attachments for the next    *)
(* message (channels/web/pending_attachments.py) and pinned files          *)
(* (channels/web/pinned_context_store.py), each let in by a budget that is *)
(* read before the file is read, described by a model and measured, and    *)
(* spent after.  Requests of several tabs overlap; a run may start and end *)
(* in between.                                                             *)
(***************************************************************************)
EXTENDS Naturals, FiniteSetsExt, World

CONSTANTS Files,
          Sizes,        \* tokens a file may measure
          Portion,      \* CHUNKED_TEXT_TOKEN_BUDGET
          ContextLimit, \* compression.max_context_tokens
          PinRatio,     \* pin_context_ratio, in percent
          MaxPendingFiles,
          Usages,       \* tokens the last call of a run may have used
          Asks          \* requests of the tabs

ASSUME BudgetAssumption ==
    /\ Sizes \cup Usages \cup {Portion, PinRatio, MaxPendingFiles} \subseteq Nat
    /\ ContextLimit \in Nat \ {0}
    /\ IsFiniteSet(Files) /\ None \notin {"attach", "pin"}

VARIABLES usage,     \* tokens of the last call
          attached,  \* tokens of each pending attachment, or None
          pinned,    \* tokens of each pinned file, or None
          asking,    \* the request in flight, with the room it has seen
          run,       \* whether a run of the chat is going
          attachMet, \* history: two attach requests, or one and a run, overlapped
          pinMet     \* history: two pin requests overlapped

budgetVars == <<usage, attached, pinned, asking, run, attachMet, pinMet>>

NotAsking == [kind |-> None]
TokensOf(f) == IF f = None THEN 0 ELSE f
Total(held, fs) == MapThenSumSet(LAMBDA f : TokensOf(held[f]), fs)

BudgetInit ==
    /\ usage = 0 /\ run = FALSE /\ attachMet = FALSE /\ pinMet = FALSE
    /\ attached = [f \in Files |-> None] /\ pinned = [f \in Files |-> None]
    /\ asking = [a \in Asks |-> NotAsking]

\* pin_budget_limit: the ratio is held between 5 and 50 percent
PinBudget ==
    LET ratio == Min({50, Max({5, PinRatio})})
    IN  Max({1, (ContextLimit * ratio) \div 100})

\* evaluate_budget: more than 95 percent is refused, more than half of it in
\* one file is worth a portion
Blocked(n, baseline, limit) == 100 * (baseline + n) > 95 * limit
OfferPortion(n, limit) == 2 * n > limit

----------------------------------------------------------------------------
\* materialize_attachment: the tokens it may come to, given what the file
\* measures; none when it is refused.  A text may be cut to a portion, any
\* other kind of file is like a text not to be cut.
Materialized(n, chunked, baseline, limit) ==
    LET cut == IF n > Portion THEN Portion ELSE n IN
    IF ~Blocked(n, baseline, limit)
    THEN IF chunked = "yes" \/ (chunked = "ask" /\ OfferPortion(n, limit)) THEN {cut} ELSE {n}
    ELSE IF chunked # "no" /\ ~Blocked(cut, baseline, limit) THEN {cut} ELSE {}

Chunkings == {"yes", "no", "ask"}

Ask(a, r) == asking[a] = NotAsking /\ ~run /\ asking' = [asking EXCEPT ![a] = r]
Others(a, kind) == {b \in Asks \ {a} : asking[b].kind = kind}
Answered(a) == asking' = [asking EXCEPT ![a] = NotAsking]

\* _handle_attach_context, _compose_attach_baseline: usage, the other pending
\* files and the pins
BeginAttach(a, f) ==
    /\ Ask(a, [kind |-> "attach", file |-> f, met |-> FALSE,
               baseline |-> usage + Total(attached, Files \ {f}) + Total(pinned, Files)])
    /\ UNCHANGED <<usage, attached, pinned, run, attachMet, pinMet>>

EndAttach(a, n, chunked) ==
    LET r == asking[a] IN
    /\ r.kind = "attach"
    /\ LET sizes == Materialized(n, chunked, r.baseline, ContextLimit) IN
       IF sizes # {} /\ Cardinality({g \in Files \ {r.file} : attached[g] # None}) < MaxPendingFiles
       THEN /\ attached' = [attached EXCEPT ![r.file] = CHOOSE m \in sizes : TRUE]
            /\ attachMet' = (attachMet \/ r.met \/ Others(a, "attach") # {} \/ run)
       ELSE UNCHANGED <<attached, attachMet>>
    /\ Answered(a)
    /\ UNCHANGED <<usage, pinned, run, pinMet>>

\* A bug: pinning a file again makes room for all of them.
OtherPinsReset(f) == IF pinned[f] = None THEN Total(pinned, Files) ELSE 0
\* the tokens pinned besides the file
OtherPins(f) == Total(pinned, Files \ {f})

\* _handle_pin_context: the pin and the total are read before the file is
BeginPin(a, f) ==
    /\ Ask(a, [kind |-> "pin", file |-> f, others |-> OtherPins(f), met |-> FALSE])
    /\ UNCHANGED <<usage, attached, pinned, run, attachMet, pinMet>>

\* evaluate_pin_budget and the upsert
EndPin(a, n, chunked) ==
    LET r == asking[a]
        room == IF r.others < PinBudget THEN PinBudget - r.others ELSE 1
        sizes == Materialized(n, chunked, 0, room) IN
    /\ r.kind = "pin"
    /\ IF \E m \in sizes : r.others + m <= PinBudget
       THEN /\ pinned' = [pinned EXCEPT ![r.file] = CHOOSE m \in sizes : TRUE]
            /\ pinMet' = (pinMet \/ Others(a, "pin") # {})
       ELSE UNCHANGED <<pinned, pinMet>>
    /\ Answered(a)
    /\ UNCHANGED <<usage, attached, run, attachMet>>

DetachFiles(fs) ==
    /\ attached' = [f \in Files |-> IF f \in fs THEN None ELSE attached[f]]
    /\ UNCHANGED <<usage, pinned, asking, run, attachMet, pinMet>>

UnpinFiles(fs) ==
    /\ pinned' = [f \in Files |-> IF f \in fs THEN None ELSE pinned[f]]
    /\ UNCHANGED <<usage, attached, asking, run, attachMet, pinMet>>

----------------------------------------------------------------------------
\* A message takes the pending attachments with it; its run uses tokens.
SendMessage ==
    /\ ~run /\ run' = TRUE
    /\ attached' = [f \in Files |-> None]
    /\ asking' = [a \in Asks |-> IF asking[a] = NotAsking THEN NotAsking
                                 ELSE [asking[a] EXCEPT !.met = TRUE]]
    /\ UNCHANGED <<usage, pinned, attachMet, pinMet>>

EndRun(n) ==
    /\ run /\ run' = FALSE /\ usage' = n
    /\ UNCHANGED <<attached, pinned, asking, attachMet, pinMet>>

\* The server restarts: what is pending is lost, the pins are rows.
LosePending ==
    /\ attached' = [f \in Files |-> None]
    /\ asking' = [a \in Asks |-> NotAsking] /\ run' = FALSE
    /\ UNCHANGED <<usage, pinned, attachMet, pinMet>>

BudgetNext ==
    \/ \E a \in Asks, f \in Files : BeginAttach(a, f) \/ BeginPin(a, f)
    \/ \E a \in Asks, n \in Sizes, c \in Chunkings : EndAttach(a, n, c) \/ EndPin(a, n, c)
    \/ \E f \in Files : DetachFiles({f}) \/ UnpinFiles({f})
    \/ DetachFiles(Files) \/ UnpinFiles(Files)
    \/ SendMessage \/ (\E n \in Usages : EndRun(n)) \/ LosePending

----------------------------------------------------------------------------
\* The files held, the requests and the history are well formed.
BudgetTypeOK ==
    /\ usage \in Usages \cup {0} /\ run \in BOOLEAN
    /\ attached \in [Files -> Sizes \cup {Portion, None}]
    /\ pinned \in [Files -> Sizes \cup {Portion, None}]
    /\ \A a \in Asks : asking[a].kind \in {None, "attach", "pin"}

\* Pins never take more than their share of the context, pinned again or not,
\* unless two requests to pin overlapped (pin_budget.py:57, B-095).
PinsFit == pinMet \/ Total(pinned, Files) <= PinBudget

\* What waits for the next message fits the context together with the usage,
\* and pins can push it over by their own share only, unless a request to
\* attach overlapped another or a run (orchestrator.py:1206-1212, H2 and H3).
AttachmentsFit ==
    \/ attachMet \/ Total(attached, Files) = 0
    \/ ~Blocked(Total(attached, Files), usage, ContextLimit)

\* Pins and pending attachments stay within what was checked.
BudgetIsKept == PinsFit /\ AttachmentsFit
=============================================================================
