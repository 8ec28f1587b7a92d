-------------------------------- MODULE Wires --------------------------------
(***************************************************************************)
(* The three wires behind the one interface of wire.go: a wire is tagged   *)
(* with its protocol, and every operation goes to that protocol's module.  *)
(***************************************************************************)
EXTENDS Naturals, Sequences

CONSTANTS
    ValidateJSON, NormalizeToolJSON, InterceptRefusal,   \* Anthropic
    MaxGroup,                                            \* Responses
    CandidateCount                                       \* Gemini

ASSUME WirePolicyAssumption ==
    {ValidateJSON, NormalizeToolJSON, InterceptRefusal} \subseteq BOOLEAN

ASSUME GroupAssumption == MaxGroup \in Nat

ASSUME CandidatesAssumption == CandidateCount \in Nat \ {0}

A == INSTANCE AnthropicWire
R == INSTANCE ResponsesWire
G == INSTANCE GeminiWire

\* wireFor: one wire per attempt, chosen by the path of the request.
AnthropicWireOf(deltas) == [proto |-> "anthropic", state |-> A!AnthropicInit(deltas)]
ResponsesWireOf         == [proto |-> "responses", state |-> R!ResponsesInit]
GeminiWireOf            == [proto |-> "gemini", state |-> G!GeminiInit]

\* A verdict of the protocol's module, as a verdict of the tagged wire.
Of(w, v) == [v EXCEPT !.wire = [w EXCEPT !.state = v.wire]]

WiresBuffered(w, ev) ==
    Of(w, CASE w.proto = "anthropic" -> A!AnthropicBuffered(w.state, ev)
            [] w.proto = "responses" -> R!ResponsesBuffered(w.state, ev)
            [] OTHER                 -> G!GeminiBuffered(w.state, ev))

WiresLive(w, ev) ==
    Of(w, CASE w.proto = "anthropic" -> A!AnthropicLive(w.state, ev)
            [] w.proto = "responses" -> R!ResponsesLive(w.state, ev)
            [] OTHER                 -> G!GeminiLive(w.state, ev))

WiresReplay(w, evs) ==
    Of(w, CASE w.proto = "anthropic" -> A!AnthropicReplay(w.state, evs)
            [] w.proto = "responses" -> R!ResponsesReplay(w.state, evs)
            [] OTHER                 -> G!GeminiReplay(w.state, evs))

WiresReplayPrefix(w, evs) ==
    Of(w, CASE w.proto = "anthropic" -> A!AnthropicReplayPrefix(w.state, evs)
            [] w.proto = "responses" -> R!ResponsesReplay(w.state, evs)
            [] OTHER                 -> G!GeminiReplay(w.state, evs))

WiresCompleteOnEOF(w) ==
    CASE w.proto = "anthropic" -> A!AnthropicCompleteOnEOF(w.state)
      [] w.proto = "responses" -> R!ResponsesCompleteOnEOF(w.state)
      [] OTHER                 -> G!GeminiCompleteOnEOF(w.state)

WiresForwardable(w) ==
    CASE w.proto = "anthropic" -> A!AnthropicForwardable(w.state)
      [] w.proto = "responses" -> R!ResponsesForwardable(w.state)
      [] OTHER                 -> G!GeminiForwardable(w.state)

=============================================================================
