------------------------------ MODULE WireModel ------------------------------
(***************************************************************************)
(* The wireModel interface of wire.go: what the stream engine asks of a    *)
(* wire protocol.  An SSE event is a member of Event, its bytes included,  *)
(* and a frame written downstream is an event or one the wire made up.     *)
(* AnthropicWire, ResponsesWire and GeminiWire each define these operators *)
(* and a configuration picks one of them.                                  *)
(***************************************************************************)
EXTENDS Naturals, Sequences, Failures

CONSTANTS
    Event,                \* the events of the wire
    WireInits,            \* the states a new wire instance may have
    Buffered(_, _),       \* buffered: [wire, done, fail]
    Live(_, _),           \* live: [wire, out, done, fail]
    ReplayBuffered(_, _), \* replayBuffered: [wire, out, fail]
    ReplayPrefix(_, _),   \* replayPrefix: [wire, out, fail]
    CompleteOnEOF(_),     \* completeOnEOF
    Forwardable(_)        \* forwardable

\* What a replay may leave downstream: all its frames with its own verdict,
\* or a part of them when reading the spool or writing to the client fails.
Replays(replay) ==
    {replay} \cup {[replay EXCEPT !.out = SubSeq(@, 1, n), !.fail = ReplayFailed]
                     : n \in 0 .. Len(replay.out)}

=============================================================================
