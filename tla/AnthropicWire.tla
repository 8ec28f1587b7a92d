---------------------------- MODULE AnthropicWire ----------------------------
(***************************************************************************)
(* The Anthropic Messages wire (anthropicWire in wire.go): the stream      *)
(* validator, the tool-input validator, the normalizer that replaces the   *)
(* input fragments of a tool call by one delta, and the refusal sentinel.  *)
(*                                                                         *)
(* An event is [type, index, body, input].  input is the partial JSON of   *)
(* an input_json_delta, as a sequence of the fragments "{" and "}" (empty: *)
(* the empty fragment); body tells the events of one type apart.  The type *)
(* stands for the event's name and for the type in its data: an upstream   *)
(* that contradicts itself is left out, as is the cap on the tool input    *)
(* that is retained (errTooLarge).  While a stream is buffered its spool   *)
(* meets that cap no later; on the live path the verdict is the one of     *)
(* ParserOverflows in StreamCapture.                                       *)
(***************************************************************************)
EXTENDS Integers, Sequences, SequencesExt, Failures

CONSTANTS
    ValidateJSON,      \* cfg.validateJSON
    NormalizeToolJSON, \* cfg.normalizeToolJSON
    InterceptRefusal   \* a complete refusal is handed to the handler

Event0(type, body) == [type |-> type, index |-> 0, body |-> body, input |-> <<>>]
Block(type, i, body) == [Event0(type, body) EXCEPT !.index = i]

MessageStart    == Event0("message_start", "")
MessageStop     == Event0("message_stop", "")
StopReason(r)   == Event0("message_delta", r)  \* "end_turn", "refusal", "limit"
UsageDelta      == Event0("message_delta", "") \* one without a stop reason
Ping            == Event0("ping", "")
Bare            == Event0("", "")              \* a frame of id or retry fields only
Shapeless       == Event0("shapeless", "")     \* no data, no name, or not JSON
ErrorTransient  == Event0("error", "transient")
ErrorTerminal   == Event0("error", "terminal")
TextStart(i)    == Block("content_block_start", i, "text")
ToolStart(i)    == Block("content_block_start", i, "tool_use")
BlockStop(i)    == Block("content_block_stop", i, "")
TextDelta(i)    == Block("content_block_delta", i, "text_delta")
InputDelta(i, input) ==
    [Block("content_block_delta", i, "input_json_delta") EXCEPT !.input = input]

\* What the partial JSON of a tool input is made of.
Fragments == {"{", "}"}

\* The events of the wire.
Events ==
    {MessageStart, MessageStop, UsageDelta, Ping, Bare, Shapeless, ErrorTransient, ErrorTerminal}
    \cup {StopReason(r) : r \in {"end_turn", "refusal", "limit"}}
    \cup {TextStart(i) : i \in Int} \cup {ToolStart(i) : i \in Int}
    \cup {BlockStop(i) : i \in Int} \cup {TextDelta(i) : i \in Int}
    \cup {InputDelta(i, input) : i \in Int, input \in Seq(Fragments)}

IsInputDelta(ev) == ev.type = "content_block_delta" /\ ev.body = "input_json_delta"

\* validJSONObject, of an accumulated input that is not empty
ValidObject(input) == input = <<"{", "}">>

-----------------------------------------------------------------------------
(* streamValidator                                                         *)

NewValidator == [sawStart |-> FALSE, open |-> 0, sawStop |-> FALSE, invalid |-> FALSE]

ValidatorAccept(v, ev) ==
    LET inMessage == v.sawStart /\ ~v.sawStop
    IN  CASE ev.type = "message_start" ->
                [v EXCEPT !.sawStart = TRUE, !.invalid = @ \/ v.sawStart \/ v.sawStop]
          [] ev.type = "content_block_start" ->
                [v EXCEPT !.open = @ + 1, !.invalid = @ \/ ~inMessage]
          [] ev.type = "content_block_stop" ->
                IF v.open <= 0 \/ v.sawStop THEN [v EXCEPT !.invalid = TRUE]
                ELSE [v EXCEPT !.open = @ - 1]
          [] ev.type \in {"content_block_delta", "message_delta"} ->
                [v EXCEPT !.invalid = @ \/ ~inMessage]
          [] ev.type = "message_stop" ->
                [v EXCEPT !.sawStop = TRUE, !.invalid = @ \/ ~v.sawStart \/ v.open # 0]
          [] OTHER -> v

StreamTerminal(v) == v.sawStart /\ v.sawStop /\ v.open = 0 /\ ~v.invalid

-----------------------------------------------------------------------------
(* Tool input: what both the validator and the normalizer keep per block   *)

NoBlocks == [i \in {} |-> 0]
NewBlock == [sawInputDelta |-> FALSE, input |-> <<>>, rawDeltas |-> <<>>]

Put(blocks, i, b) == [j \in DOMAIN blocks \cup {i} |-> IF j = i THEN b ELSE blocks[j]]
Drop(blocks, i)   == [j \in DOMAIN blocks \ {i} |-> blocks[j]]
Get(blocks, i)    == IF i \in DOMAIN blocks THEN blocks[i] ELSE NewBlock

\* Seeded fault: a fragment replaces those before it.
AccumulateLast(blocks, ev) ==
    Put(blocks, ev.index,
        [sawInputDelta |-> TRUE, input |-> ev.input, rawDeltas |-> <<>>])

\* A fragment joins its block; a block not announced as a tool is made up.
\* Only an input that stays empty needs its original fragments.
Accumulate(blocks, ev) ==
    LET b == Get(blocks, ev.index)
    IN  Put(blocks, ev.index,
            [sawInputDelta |-> TRUE, input |-> b.input \o ev.input,
             rawDeltas |-> IF ev.input # <<>> THEN <<>>
                           ELSE IF b.input = <<>> THEN Append(b.rawDeltas, ev)
                           ELSE b.rawDeltas])

\* A block closes with input that is not a JSON object.
ClosesInvalid(blocks, i) ==
    LET b == Get(blocks, i)
    IN  b.sawInputDelta /\ b.input # <<>> /\ ~ValidObject(b.input)

\* Seeded fault: any end of the message excuses the block.
JudgeTruncatedLeniently(ev) ==
    CASE ev.type = "ping" -> "wait"
      [] ev.type \in {"message_delta", "message_stop"} -> "excused"
      [] OTHER -> "reject"

\* judgeTruncatedToolInput: the event after such a block decides.
JudgeTruncated(ev) ==
    CASE ev.type = "ping" -> "wait"
      [] ev = StopReason("limit") -> "excused"
      [] OTHER -> "reject"

-----------------------------------------------------------------------------
(* toolJSONValidator                                                       *)

NewToolValidator == [blocks |-> NoBlocks, truncated |-> FALSE]

\* What the validator knows after an event, and what it thinks of it.
Judged(blocks, truncated, fail) ==
    [tool |-> [blocks |-> blocks, truncated |-> truncated], fail |-> fail]

\* An event without data is not looked at; message_stop with an input still
\* open, and an unexcused invalid input, are malformed.
ToolAccept(v, ev) ==
    LET stillOpen == \E i \in DOMAIN v.blocks : v.blocks[i].sawInputDelta
        next      == JudgeTruncated(ev)
    IN  IF ev.type = "" THEN Judged(v.blocks, v.truncated, NoFail)
        ELSE IF ev.type = "shapeless" \/ (ev.type = "message_stop" /\ stillOpen)
                \/ (v.truncated /\ next \notin {"wait", "excused"})
        THEN Judged(v.blocks, v.truncated, MalformedSSE)
        ELSE IF v.truncated THEN Judged(v.blocks, next = "wait", NoFail)
        ELSE IF ev.type = "content_block_start" /\ ev.body = "tool_use"
        THEN Judged(Put(v.blocks, ev.index, NewBlock), FALSE, NoFail)
        ELSE IF IsInputDelta(ev) THEN Judged(Accumulate(v.blocks, ev), FALSE, NoFail)
        ELSE IF ev.type = "content_block_stop"
        THEN Judged(Drop(v.blocks, ev.index), ClosesInvalid(v.blocks, ev.index), NoFail)
        ELSE Judged(v.blocks, FALSE, NoFail)

-----------------------------------------------------------------------------
(* toolJSONReplayNormalizer                                                *)

\* held: the frames of a block that closed invalid, until they are judged.
NewNormalizer == [blocks |-> NoBlocks, held |-> <<>>]

\* What is left and what goes out when the normalizer accepts an event.
Normalized(blocks, held, frames) ==
    [norm |-> [blocks |-> blocks, held |-> held], out |-> frames, fail |-> NoFail]

\* The next event judges the frames that are held.
JudgeHeld(n, ev) ==
    IF JudgeTruncated(ev) = "wait" THEN Normalized(n.blocks, Append(n.held, ev), <<>>)
    ELSE IF JudgeTruncated(ev) = "excused" THEN Normalized(n.blocks, <<>>, Append(n.held, ev))
    ELSE [norm |-> n, out |-> <<>>, fail |-> MalformedSSE]

\* A block ends: its input goes out as one frame, or is held if it is invalid;
\* without any, what fragments there were go out as they came.
CloseBlock(n, ev) ==
    LET b      == Get(n.blocks, ev.index)
        others == Drop(n.blocks, ev.index)
        joined == <<InputDelta(ev.index, b.input), ev>>
    IN  IF b.input = <<>> THEN Normalized(others, n.held, Append(b.rawDeltas, ev))
        ELSE IF ClosesInvalid(n.blocks, ev.index) THEN Normalized(others, joined, <<>>)
        ELSE Normalized(others, n.held, joined)

NormalizerAccept(n, ev) ==
    IF ~(ValidateJSON /\ NormalizeToolJSON) THEN Normalized(n.blocks, n.held, <<ev>>)
    ELSE IF n.held # <<>> THEN JudgeHeld(n, ev)
    ELSE IF ev.type = "content_block_start" /\ ev.body = "tool_use"
    THEN Normalized(Put(n.blocks, ev.index, NewBlock), n.held, <<ev>>)
    ELSE IF IsInputDelta(ev) THEN Normalized(Accumulate(n.blocks, ev), n.held, <<>>)
    ELSE IF ev.type = "content_block_stop" THEN CloseBlock(n, ev)
    ELSE Normalized(n.blocks, n.held, <<ev>>)

\* replayBufferedWithNormalizer: event by event, up to the first error.
NormalizeNext(acc, ev) ==
    IF acc.fail # NoFail THEN acc
    ELSE LET r == NormalizerAccept(acc.norm, ev)
         IN  [norm |-> r.norm, out |-> acc.out \o r.out, fail |-> r.fail]

Normalize(n, evs) ==
    FoldLeft(NormalizeNext, [norm |-> n, out |-> <<>>, fail |-> NoFail], evs)

-----------------------------------------------------------------------------
(* The wire                                                                *)

\* A new wire.  streamToolDeltas: a gated caller gets the raw fragments on the
\* live path (captureSSECore sets it from progressGated); stop is
\* captureStats.stop, scraped from every message_delta.
AnthropicInit(streamToolDeltas) ==
    [streamToolDeltas |-> streamToolDeltas,
     val |-> NewValidator, tool |-> NewToolValidator, norm |-> NewNormalizer,
     sawProgress |-> FALSE, stop |-> ""]

Scrape(w, ev) ==
    IF ev.type = "message_delta" /\ ev.body # "" THEN [w EXCEPT !.stop = ev.body] ELSE w

\* classifySSEError
ErrorFailure(ev) == IF ev.body = "transient" THEN InBandTransient ELSE InBandTerminal

\* Seeded fault: the validator is not shown the start of a block.
ToolCheckSkipsStarts(w, ev) ==
    IF ev.type = "error" THEN [tool |-> w.tool, fail |-> ErrorFailure(ev)]
    ELSE IF ValidateJSON /\ ev.type # "content_block_start" THEN ToolAccept(w.tool, ev)
    ELSE [tool |-> w.tool, fail |-> NoFail]

\* The checks both paths make first: shape, error event, tool input.
ToolCheck(w, ev) ==
    IF ev.type = "error" THEN [tool |-> w.tool, fail |-> ErrorFailure(ev)]
    ELSE IF ValidateJSON THEN ToolAccept(w.tool, ev)
    ELSE [tool |-> w.tool, fail |-> NoFail]

\* Seeded fault: the refusal is handed over at its stop reason.
AnthropicBufferedRefusesEarly(w0, ev) ==
    LET w   == Scrape(w0, ev)
        chk == ToolCheck(w, ev)
        val == ValidatorAccept(w.val, ev)
        ok  == [w EXCEPT !.tool = chk.tool, !.val = val,
                         !.sawProgress = @ \/ ev.type = "content_block_delta"]
        verdict(x, done, fail) == [wire |-> x, done |-> done, fail |-> fail]
    IN  CASE chk.fail # NoFail -> verdict(w, FALSE, chk.fail)
          [] chk.fail = NoFail /\ val.invalid -> verdict(w, FALSE, MalformedSSE)
          [] OTHER -> IF InterceptRefusal /\ w.stop = "refusal"
                      THEN verdict(ok, FALSE, RefusalFallback)
                      ELSE verdict(ok, StreamTerminal(val), NoFail)

AnthropicBuffered(w0, ev) ==
    LET w   == Scrape(w0, ev)
        chk == ToolCheck(w, ev)
        val == ValidatorAccept(w.val, ev)
        ok  == [w EXCEPT !.tool = chk.tool, !.val = val,
                         !.sawProgress = @ \/ ev.type = "content_block_delta"]
        verdict(x, done, fail) == [wire |-> x, done |-> done, fail |-> fail]
    IN  CASE chk.fail # NoFail -> verdict(w, FALSE, chk.fail)
          [] chk.fail = NoFail /\ val.invalid -> verdict(w, FALSE, MalformedSSE)
          [] OTHER ->
                IF StreamTerminal(val) /\ InterceptRefusal /\ w.stop = "refusal"
                THEN verdict(ok, FALSE, RefusalFallback)
                ELSE verdict(ok, StreamTerminal(val), NoFail)

\* The live path does not reject an out-of-order event any more: the client
\* has the stream, and message_stop ends it.
AnthropicLive(w0, ev) ==
    LET w    == Scrape(w0, ev)
        chk  == ToolCheck(w, ev)
        val  == ValidatorAccept(w.val, ev)
        norm == NormalizerAccept(w.norm, ev)
        verdict(x, sent, done, fail) ==
            [wire |-> x, out |-> sent, done |-> done, fail |-> fail]
        stop == ev.type = "message_stop"
    IN  CASE chk.fail # NoFail ->
                IF ev.type = "error" /\ ~chk.fail.transient
                THEN verdict(w, <<ev>>, FALSE, Delivered(chk.fail))
                ELSE verdict(w, <<>>, FALSE, chk.fail)
          [] chk.fail = NoFail /\ w.streamToolDeltas ->
                verdict([w EXCEPT !.tool = chk.tool, !.val = val], <<ev>>, stop, NoFail)
          [] OTHER ->
                IF norm.fail # NoFail
                THEN verdict([w EXCEPT !.tool = chk.tool], <<>>, FALSE, norm.fail)
                ELSE verdict([w EXCEPT !.tool = chk.tool, !.val = val,
                                       !.norm = norm.norm],
                             norm.out, stop \/ StreamTerminal(val), NoFail)

AnthropicForwardable(w) == w.sawProgress

AnthropicCompleteOnEOF(w) == FALSE

\* replayBuffered uses a normalizer of its own, which knows the whole stream.
AnthropicReplay(w, evs) ==
    LET r == Normalize(NewNormalizer, evs)
    IN  [wire |-> w, out |-> r.out,
         fail |-> IF r.fail = NoFail THEN NoFail ELSE ReplayFailed]

\* Seeded fault: what the replay held back is forgotten.
AnthropicReplayPrefixForgets(w, evs) ==
    LET r == Normalize(w.norm, evs)
    IN  [wire |-> w, out |-> r.out,
         fail |-> IF r.fail = NoFail THEN NoFail ELSE ReplayFailed]

\* replayPrefix shares the wire's normalizer with the live path that follows.
AnthropicReplayPrefix(w, evs) ==
    LET r == Normalize(w.norm, evs)
    IN  IF w.streamToolDeltas THEN [wire |-> w, out |-> evs, fail |-> NoFail]
        ELSE [wire |-> [w EXCEPT !.norm = r.norm], out |-> r.out,
              fail |-> IF r.fail = NoFail THEN NoFail ELSE ReplayFailed]

-----------------------------------------------------------------------------
(* What a client makes of a stream                                         *)

\* What one frame adds to the tool input of block i.
InputPart(i, frame) == IF IsInputDelta(frame) /\ frame.index = i THEN frame.input ELSE <<>>

\* The tool input a client accumulates for one block index.
InputOf(frames, i) == FlattenSeq([k \in DOMAIN frames |-> InputPart(i, frames[k])])

\* A frame that is not part of any tool's input.
OtherPart(frame) == IF IsInputDelta(frame) THEN <<>> ELSE <<frame>>

\* All the rest of the stream, in order.
Others(frames) == FlattenSeq([k \in DOMAIN frames |-> OtherPart(frames[k])])

SameContent(frames, evs) ==
    /\ Others(frames) = Others(evs)
    /\ \A i \in {evs[k].index : k \in DOMAIN evs} : InputOf(frames, i) = InputOf(evs, i)

\* The last stop reason of a stream is a refusal.
Refused(frames) ==
    \E i \in DOMAIN frames :
        /\ frames[i] = StopReason("refusal")
        /\ \A j \in DOMAIN frames :
             j > i /\ frames[j].type = "message_delta" => frames[j].body = ""

\* A complete answer that is one.
IsRefusal(frames) ==
    frames # <<>> /\ frames[Len(frames)] = MessageStop /\ Refused(frames)

=============================================================================
