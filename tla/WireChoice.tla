------------------------------ MODULE WireChoice ------------------------------
(***************************************************************************)
(* The wire a stream is on: what a theorem about the streams of one wire   *)
(* assumes of the operators behind the interface.                          *)
(***************************************************************************)
EXTENDS Wires, WireModel

\* What the stream asks of a wire of this protocol, the protocol's module answers.
OnWire(proto) ==
    \A w : w.proto = proto =>
        /\ \A ev : Buffered(w, ev) = WiresBuffered(w, ev) /\ Live(w, ev) = WiresLive(w, ev)
        /\ \A evs : /\ ReplayBuffered(w, evs) = WiresReplay(w, evs)
                    /\ ReplayPrefix(w, evs) = WiresReplayPrefix(w, evs)
        /\ CompleteOnEOF(w) = WiresCompleteOnEOF(w)
        /\ Forwardable(w) = WiresForwardable(w)

\* A stream of Anthropic events on a wire of its own.
AnthropicStream ==
    /\ WireInits \subseteq {AnthropicWireOf(deltas) : deltas \in BOOLEAN}
    /\ Event \subseteq A!Events
    /\ OnWire("anthropic")

\* A stream of Responses events on a wire of its own.
ResponsesStream(Route, Token) ==
    /\ WireInits \subseteq {ResponsesWireOf} /\ Event \subseteq R!Events(Route, Token)
    /\ OnWire("responses")

\* A stream of Gemini events on a wire of its own.
GeminiStream ==
    /\ WireInits \subseteq {GeminiWireOf} /\ Event \subseteq G!Events
    /\ OnWire("gemini")

=============================================================================
