---------------------------- MODULE ModelStream ----------------------------
(***************************************************************************)
(* One call of a model, streamed: the assembly of the answer from its      *)
(* deltas (chat_streamed of llm/openai.py and llm/anthropic.py), the       *)
(* fallback to the unstreamed call and the stall monitor around it         *)
(* (_call_provider of agent/loop.py), with the unstreamed parse of the     *)
(* same answer as the reference.  An answer is a sequence of blocks; the   *)
(* text, the thinking and the arguments of a block are sequences of        *)
(* pieces.  Of the pieces only these matter: "<x", "x>" (and y) are the    *)
(* two halves of a tool call in XML, "{" and "}" of a JSON object.         *)
(***************************************************************************)
EXTENDS Naturals, Sequences, FiniteSets, SequencesExt, World

CONSTANTS Answers,      \* answers the model may give
          Dialects,     \* subset of {"openai", "anthropic"}
          Offered,      \* names of the tools offered
          MaxPieces,    \* _MAX_STREAM_TEXT_CHARS
          MaxArgs,      \* _MAX_STREAM_TOOL_ARGUMENT_CHARS
          MaxStreamedCalls,     \* _MAX_STREAM_TOOL_CALLS
          LongReasoning, \* _REASONING_FALLBACK_MIN_CHARS
          MaxStalls     \* bound: stalls in all

ASSUME ModelStreamAssumption ==
    /\ Dialects \subseteq {"openai", "anthropic"}
    /\ {MaxPieces, MaxArgs, MaxStreamedCalls, LongReasoning, MaxStalls} \subseteq Nat
    /\ \A a \in Answers :
         /\ a.blocks \in Seq(Range(a.blocks))
         /\ \A i \in DOMAIN a.blocks : /\ a.blocks[i].kind \in {"text", "thinking", "call"}
                                      /\ a.blocks[i].pieces \in Seq(STRING)
         \* an OpenAI message has one content and one reasoning_content
         /\ "openai" \in Dialects => \A i, j \in DOMAIN a.blocks :
              a.blocks[i].kind = a.blocks[j].kind /\ i # j => a.blocks[i].kind = "call"

\* what takes the place of a response when there is none
Failed == [failed |-> TRUE, text |-> <<>>, calls |-> <<>>, opaque |-> <<>>]

VARIABLES dialect,    \* the provider of the call
          answer,     \* what the model says to the request under way
          sent,       \* pieces sent of each block; 0 is before its start
          parts,      \* what is assembled: text, reasoning, opaque, calls
          phase,      \* "stream", "fallback", "done", "failed"
          response,   \* the response of the call, Failed before there is one
          shown,      \* the status shown to the user
          stage,      \* last_stage
          stalls      \* llm_stream_stalls

streamVars == <<dialect, answer, sent, parts, phase, response, shown, stage, stalls>>

NothingYet ==
    [text |-> <<>>, reasoning |-> <<>>, opaque |-> [i \in {} |-> <<>>], calls |-> [i \in {} |-> <<>>]]

StreamInit ==
    /\ dialect \in Dialects
    /\ answer \in Answers
    /\ sent = [i \in DOMAIN answer.blocks |-> 0]
    /\ parts = NothingYet
    /\ phase = "stream" /\ response = Failed
    /\ shown = "started" /\ stage = "started"
    /\ stalls = 0

----------------------------------------------------------------------------
(* What both ways do with an answer that is complete. *)

IsObject(args) == args = <<"{", "}">>
IsList(args) == args = <<"[", "]">>

\* The tool calls of a text: all of its blocks, or none when one is not allowed.
Half(t, a, b) == {i \in 1..(Len(t) - 1) : t[i] = a /\ t[i + 1] = b}
XmlCalls(t) ==
    LET ends == Half(t, "<x", "x>") \cup Half(t, "<y", "y>")
        name(i) == IF t[i] = "<x" THEN "x" ELSE "y"
        order == SetToSortSeq(ends, LAMBDA i, j : i < j)
    IN IF \A i \in ends : name(i) \in Offered
       THEN [k \in DOMAIN order |-> [id |-> <<"xml", k>>, tool |-> name(order[k]), args |-> "object"]]
       ELSE <<>>
HasMarker(t) == \E i \in DOMAIN t : t[i] \in {"<x", "<y"}

\* _tool_calls_from_native, on calls [id, tool, args]
NativeCalls(calls) ==
    LET kept == SelectSeq(calls, LAMBDA c : c.tool \in Offered)
    IN [k \in DOMAIN kept |-> [id |-> kept[k].id, tool |-> kept[k].tool,
           args |-> IF IsObject(kept[k].args) THEN "object" ELSE "raw"]]

\* _resolve_reasoning_fallback: an answer that went into the reasoning, as calls or
\* as text if it is long
Unstuck(text, reasoning, calls, finish) ==
    LET stuck == text = <<>> /\ calls = <<>> /\ finish = "stop" /\ reasoning # <<>>
        inXml == stuck /\ HasMarker(reasoning) /\ XmlCalls(reasoning) # <<>>
    IN [text |-> IF stuck /\ ~inXml /\ Len(reasoning) >= LongReasoning THEN reasoning ELSE text,
        calls |-> IF inXml THEN XmlCalls(reasoning) ELSE NativeCalls(calls)]

\* _finalize_response; the type of ToolCall raises for a missing id and for
\* arguments that are JSON but no object
OpenAIResponse(text, reasoning, calls, finish) ==
    LET found == Unstuck(text, reasoning, calls, finish)
        inXml == IF found.calls = <<>> THEN XmlCalls(found.text) ELSE <<>>
    IN IF \E k \in DOMAIN calls : /\ calls[k].tool \in Offered
                                  /\ IsList(calls[k].args) \/ calls[k].id = None
       THEN Failed
       ELSE [failed |-> FALSE, text |-> IF inXml # <<>> THEN <<>> ELSE found.text,
             calls |-> IF inXml # <<>> THEN inXml ELSE found.calls, opaque |-> <<>>]

\* calls that are offered and have an object; thinking must be signed
AnthropicResponse(text, opaque, calls) ==
    LET kept == SelectSeq(calls, LAMBDA c : c.tool \in Offered /\ IsObject(c.args) /\ c.id # None)
    IN IF \E k \in DOMAIN opaque : ~opaque[k].signed
       THEN Failed
       ELSE [failed |-> FALSE, text |-> text,
             calls |-> [k \in DOMAIN kept |-> [id |-> kept[k].id, tool |-> kept[k].tool,
                                               args |-> "object"]],
             opaque |-> IF kept = <<>> THEN <<>> ELSE opaque]

\* what the blocks of a kind say, in their order
OfKind(kind, b, said) == IF b.kind = kind THEN said ELSE <<>>
Pieces(a, kind) ==
    FlattenSeq([i \in DOMAIN a.blocks |-> OfKind(kind, a.blocks[i], a.blocks[i].pieces)])

CallOf(b) == [id |-> b.id, tool |-> b.tool, args |-> b.pieces]
CallsOf(a) ==
    FlattenSeq([i \in DOMAIN a.blocks |-> OfKind("call", a.blocks[i], <<CallOf(a.blocks[i])>>)])

Thought(b) == [pieces |-> b.pieces, signed |-> b.signed]
ThoughtsOf(a) ==
    FlattenSeq([i \in DOMAIN a.blocks |-> OfKind("thinking", a.blocks[i], <<Thought(a.blocks[i])>>)])

\* chat(): the answer in one piece
WholeOpenAI(a) ==
    OpenAIResponse(Pieces(a, "text"), Pieces(a, "thinking"), CallsOf(a), a.finish)

\* _parse_response raises for a call it would make that has no id
WholeAnthropic(a) ==
    LET calls == CallsOf(a)
    IN IF \E k \in DOMAIN calls : calls[k].id = None /\ calls[k].tool \in Offered
                                   /\ IsObject(calls[k].args)
       THEN Failed
       ELSE AnthropicResponse(Pieces(a, "text"), ThoughtsOf(a), calls)

Whole(a) == IF dialect = "openai" THEN WholeOpenAI(a) ELSE WholeAnthropic(a)

----------------------------------------------------------------------------
Block(i) == answer.blocks[i]
\* a block has its start, its pieces and, a thinking block, its signature
Length(i) == 1 + Len(Block(i).pieces) + (IF Block(i).kind = "thinking" THEN 1 ELSE 0)
Unsent(i) == i \in DOMAIN sent /\ sent[i] < Length(i)

\* Anthropic sends block after block; the others mix them.
MaySend(i) ==
    /\ phase = "stream" /\ Unsent(i)
    /\ dialect = "anthropic" => \A j \in 1..(i - 1) : ~Unsent(j)

Show(s) ==
    /\ stage' = s
    /\ shown' = IF s = stage THEN shown ELSE s

\* a delta of the stream sent after the start of its block: k pieces of it
PieceOf(i, k) == SubSeq(Block(i).pieces, sent[i], sent[i] + k - 1)
Fits(i, k) == sent[i] >= 1 /\ sent[i] + k - 1 <= Len(Block(i).pieces)
Sends(i, k) == sent' = [sent EXCEPT ![i] = @ + k]

\* Mutant: the arguments of a delta replace those before it.
AddedLast(i, k, call) == [call EXCEPT !.args = PieceOf(i, k)]

Added(i, k, call) == [call EXCEPT !.args = @ \o PieceOf(i, k)]

\* _check_stream_bound: only Anthropic's stream is bounded
TooLong(i, k) ==
    /\ dialect = "anthropic"
    /\ CASE Block(i).kind = "call" -> Len(parts.calls[i].args) + k > MaxArgs
         [] OTHER -> Len(parts.text) + Len(parts.reasoning) + k > MaxPieces

\* f with what block i begins with
WithBlock(f, i, said) == [j \in DOMAIN f \cup {i} |-> IF j = i THEN said ELSE f[j]]

BlockStart(i) ==
    /\ MaySend(i) /\ sent[i] = 0
    /\ Sends(i, 1)
    /\ CASE Block(i).kind = "call" ->
              IF dialect = "anthropic" /\ Cardinality(DOMAIN parts.calls) >= MaxStreamedCalls
              THEN phase' = "fallback" /\ shown' = "fallback" /\ UNCHANGED <<parts, stage>>
              ELSE /\ parts' = [parts EXCEPT !.calls = WithBlock(@, i, [id |-> Block(i).id,
                                    tool |-> Block(i).tool, args |-> <<>>])]
                   /\ Show("tool_call")
                   /\ UNCHANGED phase
         [] Block(i).kind = "thinking" ->
              /\ parts' = [parts EXCEPT !.opaque = WithBlock(@, i, [pieces |-> <<>>, signed |-> FALSE])]
              /\ UNCHANGED <<phase, shown, stage>>
         [] OTHER -> UNCHANGED <<parts, phase, shown, stage>>
    /\ UNCHANGED <<dialect, answer, response, stalls>>

Delta(i, k) ==
    /\ MaySend(i) /\ Fits(i, k)
    /\ Sends(i, k)
    /\ IF TooLong(i, k)
       THEN phase' = "fallback" /\ shown' = "fallback" /\ UNCHANGED <<parts, stage>>
       ELSE /\ CASE Block(i).kind = "call" ->
                      /\ parts' = [parts EXCEPT !.calls[i] = Added(i, k, @)]
                      /\ Show("tool_call")
                 [] Block(i).kind = "text" ->
                      /\ parts' = [parts EXCEPT !.text = @ \o PieceOf(i, k)]
                      /\ Show("answer")
                 [] OTHER ->
                      /\ parts' = [parts EXCEPT !.reasoning = @ \o PieceOf(i, k),
                                                !.opaque[i].pieces = @ \o PieceOf(i, k)]
                      /\ Show("reasoning")
            /\ UNCHANGED phase
    /\ UNCHANGED <<dialect, answer, response, stalls>>

Signature(i) ==
    /\ MaySend(i) /\ Block(i).kind = "thinking" /\ sent[i] = Length(i) - 1 /\ sent[i] >= 1
    /\ Sends(i, 1)
    /\ parts' = [parts EXCEPT !.opaque[i].signed = Block(i).signed]
    /\ UNCHANGED <<dialect, answer, phase, response, shown, stage, stalls>>

\* sorted by the index of the block
InOrder(f) == FlattenSeq([i \in DOMAIN sent |-> IF i \in DOMAIN f THEN <<f[i]>> ELSE <<>>])

\* The stream is over: an OpenAI call without an id gets one, empty arguments are
\* an empty object, and what the dialect refuses is left out or raises.
Streamed ==
    LET calls == InOrder(parts.calls)
        object(c) == [c EXCEPT !.args = IF @ = <<>> THEN <<"{", "}">> ELSE @]
        named(k) == IF dialect = "openai" /\ calls[k].id = None
                    THEN [object(calls[k]) EXCEPT !.id = <<"call", k>>] ELSE object(calls[k])
        done == [k \in DOMAIN calls |-> named(k)]
    IN IF dialect = "openai"
       THEN OpenAIResponse(parts.text, parts.reasoning, done, answer.finish)
       ELSE AnthropicResponse(parts.text, InOrder(parts.opaque), done)

\* The iterator ends after the last piece, or raises (StreamBreaks): an end
\* before it without an error would pass for a whole answer.
StreamEnds ==
    /\ phase = "stream" /\ \A i \in DOMAIN sent : ~Unsent(i)
    /\ IF Streamed.failed
       THEN phase' = "fallback" /\ shown' = "fallback" /\ UNCHANGED <<response, stage>>
       ELSE /\ phase' = "done" /\ response' = Streamed
            /\ Show("finished")
    /\ UNCHANGED <<dialect, answer, sent, parts, stalls>>

\* any Exception of the stream
StreamBreaks ==
    /\ phase = "stream"
    /\ phase' = "fallback" /\ shown' = "fallback"
    /\ UNCHANGED <<dialect, answer, sent, parts, response, stage, stalls>>

\* The request is made again, unstreamed, and the model may say something else.
Fallback ==
    /\ phase = "fallback"
    /\ \E a \in Answers :
          /\ answer' = a
          /\ sent' = [i \in DOMAIN a.blocks |-> 0]
          /\ IF Whole(a).failed THEN phase' = "failed" /\ UNCHANGED response
             ELSE response' = Whole(a) /\ phase' = "done"
    /\ UNCHANGED <<dialect, parts, shown, stage, stalls>>

\* the monitor runs until the call is over, the fallback included
Stall ==
    /\ phase \in {"stream", "fallback"} /\ stalls < MaxStalls
    /\ stalls' = stalls + 1
    /\ shown' = "stalled"
    /\ UNCHANGED <<dialect, answer, sent, parts, phase, response, stage>>

\* the caller's time-out
CallTimesOut ==
    /\ phase \in {"stream", "fallback"}
    /\ phase' = "failed"
    /\ UNCHANGED <<dialect, answer, sent, parts, response, shown, stage, stalls>>

StreamNext ==
    \/ \E i \in DOMAIN sent :
          BlockStart(i) \/ Signature(i) \/ \E k \in 1..2 : Delta(i, k)
    \/ StreamEnds \/ StreamBreaks \/ Fallback \/ Stall \/ CallTimesOut

----------------------------------------------------------------------------
(* Properties *)

StreamTypeOK ==
    /\ phase \in {"stream", "fallback", "done", "failed"}
    /\ \A i \in DOMAIN sent : sent[i] \in 0..Length(i)
    /\ stalls \in 0..MaxStalls
    /\ (phase = "done") <=> ~response.failed

\* A call that answers returns what the unstreamed parse of the model's answer
\* returns, however the answer was cut, mixed, bounded, broken off and asked for
\* again: the same text, the same calls in the same order, the same opaque
\* thinking.  Two differences the code has on purpose are left out: a call
\* without arguments, and one without an id.
PlainCall(b) == b.kind = "call" => b.pieces # <<>> /\ b.id # None
StreamMatchesWhole ==
    phase = "done" /\ (\A i \in DOMAIN answer.blocks : PlainCall(answer.blocks[i]))
        => response = Whole(answer)
=============================================================================
