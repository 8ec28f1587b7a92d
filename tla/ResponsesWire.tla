---------------------------- MODULE ResponsesWire ----------------------------
(***************************************************************************)
(* The OpenAI Responses wire (openaiWire in responses.go): completion,     *)
(* in-band errors and the replay that joins adjacent text deltas.          *)
(*                                                                         *)
(* An event is [kind, route, text]: text is the sequence of tokens a text  *)
(* delta carries, route the item it belongs to with everything else two    *)
(* deltas must share to be joined (event name, indices, optional fields).  *)
(***************************************************************************)
EXTENDS Naturals, Sequences, SequencesExt, Failures

CONSTANT MaxGroup   \* replayDeltaBytes, in tokens; 0 replays raw frames

Plain(kind) == [kind |-> kind, route |-> "none", text |-> <<>>]

\* kind "text" may be joined; "opaque_text" has logprobs, unknown fields or a
\* framing that must be kept as it is.
Text(route, text)       == [kind |-> "text", route |-> route, text |-> text]
OpaqueText(route, text) == [kind |-> "opaque_text", route |-> route, text |-> text]

Meta           == Plain("meta")            \* response.created and the like
Output         == Plain("output")          \* any other output event
Completed      == Plain("completed")       \* a terminal snapshot Codex parses
BadCompleted   == Plain("bad_completed")   \* one it would reject
ErrorTransient == Plain("error_transient") \* error or response.failed
ErrorTerminal  == Plain("error_terminal")
ErrorNative    == Plain("error_native")    \* failed: context_length_exceeded

\* The events of the wire, for given routes and tokens.
Events(Route, Token) ==
    {Text(r, t) : r \in Route, t \in Seq(Token)}
    \cup {OpaqueText(r, t) : r \in Route, t \in Seq(Token)}
    \cup {Meta, Output, Completed, BadCompleted, ErrorTransient, ErrorTerminal, ErrorNative}

-----------------------------------------------------------------------------
(* The wire                                                                *)

ResponsesInit == [sawContent |-> FALSE]

\* isResponsesOutputEvent
IsOutput(ev) == ev.kind \in {"text", "opaque_text", "output"}

\* classifyResponsesFrame, for the frames isResponsesErrorFrame recognizes
IsErrorFrame(ev) == ev.kind \in {"error_transient", "error_terminal", "error_native"}
FrameFailure(ev) == IF ev.kind = "error_transient" THEN InBandTransient ELSE InBandTerminal
IsNative(ev)     == ev.kind = "error_native"

ResponsesBuffered(w, ev) ==
    LET verdict(done, fail) ==
            [wire |-> [sawContent |-> w.sawContent \/ IsOutput(ev)],
             done |-> done, fail |-> fail]
    IN  CASE IsErrorFrame(ev) -> IF IsNative(ev) THEN verdict(TRUE, NoFail)
                                 ELSE verdict(FALSE, FrameFailure(ev))
          [] ev.kind = "bad_completed" -> verdict(FALSE, InvalidCompleted)
          [] OTHER -> verdict(ev.kind = "completed", NoFail)

\* Seeded fault: on a committed stream every error frame is forwarded.
ResponsesLiveForwardsErrors(w, ev) ==
    LET verdict(done, fail) ==
            [wire |-> w, out |-> <<ev>>, done |-> done, fail |-> fail]
    IN  IF IsErrorFrame(ev) THEN verdict(TRUE, Delivered(FrameFailure(ev)))
        ELSE verdict(ev.kind = "completed", NoFail)

\* Seeded fault: an unusable terminal event counts as the end of the answer.
ResponsesLiveTakesAnyEnd(w, ev) ==
    [wire |-> w, out |-> <<ev>>, done |-> ev.kind \in {"completed", "bad_completed"},
     fail |-> NoFail]

\* Seeded fault: a forwarded error frame is not marked as delivered.
ResponsesLiveUnmarked(w, ev) ==
    [wire |-> w, out |-> <<ev>>, done |-> IsErrorFrame(ev) \/ ev.kind = "completed",
     fail |-> IF IsErrorFrame(ev) THEN FrameFailure(ev) ELSE NoFail]

\* A transient error ends the stream unseen; a terminal or native one is the
\* answer; an unusable terminal event is forwarded but does not count.
ResponsesLive(w, ev) ==
    LET verdict(sent, done, fail) ==
            [wire |-> w, out |-> sent, done |-> done, fail |-> fail]
    IN  CASE IsErrorFrame(ev) ->
                IF FrameFailure(ev).transient /\ ~IsNative(ev)
                THEN verdict(<<>>, FALSE, FrameFailure(ev))
                ELSE verdict(<<ev>>, TRUE, Delivered(FrameFailure(ev)))
          [] ev.kind = "bad_completed" -> verdict(<<ev>>, FALSE, InvalidCompleted)
          [] OTHER -> verdict(<<ev>>, ev.kind = "completed", NoFail)

ResponsesForwardable(w) == w.sawContent

ResponsesCompleteOnEOF(w) == FALSE

-----------------------------------------------------------------------------
(* Replay: responsesReplayCoalescer                                        *)

\* The group being collected, as a sequence of at most one joined delta.
NewCoalescer == [out |-> <<>>, pending |-> <<>>]

Flushed(c) == c.out \o c.pending

\* An event that is not a small, simple text delta is an ordering barrier.
Joinable(ev) == ev.kind = "text" /\ Len(ev.text) <= MaxGroup

Fits(group, ev) ==
    /\ group.route = ev.route
    /\ Len(group.text) + Len(ev.text) <= MaxGroup

\* Seeded fault: a delta of another item replaces the pending group.
CoalescerAcceptUnflushed(c, ev) ==
    CASE ~Joinable(ev) -> [out |-> Append(Flushed(c), ev), pending |-> <<>>]
      [] Joinable(ev) /\ c.pending # <<>> /\ Fits(Head(c.pending), ev) ->
            [c EXCEPT !.pending[1].text = @ \o ev.text]
      [] OTHER -> [out |-> c.out, pending |-> <<ev>>]

CoalescerAccept(c, ev) ==
    CASE ~Joinable(ev) -> [out |-> Append(Flushed(c), ev), pending |-> <<>>]
      [] Joinable(ev) /\ c.pending # <<>> /\ Fits(Head(c.pending), ev) ->
            [c EXCEPT !.pending[1].text = @ \o ev.text]
      [] OTHER -> [out |-> Flushed(c), pending |-> <<ev>>]

Coalesce(evs) ==
    IF MaxGroup = 0 THEN evs
    ELSE Flushed(FoldLeft(CoalescerAccept, NewCoalescer, evs))

ResponsesReplay(w, evs) == [wire |-> w, out |-> Coalesce(evs), fail |-> NoFail]

-----------------------------------------------------------------------------
(* What a client makes of a stream                                         *)

\* A joinable delta, token by token.
Pieces(ev) ==
    IF ev.kind = "text" THEN [j \in DOMAIN ev.text |-> Text(ev.route, <<ev.text[j]>>)]
    ELSE <<ev>>

\* A stream with every joinable delta split into its tokens: what a client
\* that accumulates deltas reads, whatever the deltas' boundaries.
Tokens(frames) == FlattenSeq([i \in DOMAIN frames |-> Pieces(frames[i])])

\* A client takes a stream for a finished turn at one of these frames.
EndsTurn(frames) ==
    frames # <<>> /\ frames[Len(frames)] \in {Completed, ErrorNative}

=============================================================================
