------------------------------- MODULE MCWires -------------------------------
(***************************************************************************)
(* Streams of each wire, committed at every possible point: all short ones *)
(* and longer Anthropic ones that keep to the block protocol.              *)
(***************************************************************************)
EXTENDS WireStreams

AllWires == {AnthropicWireOf(FALSE), AnthropicWireOf(TRUE), ResponsesWireOf, GeminiWireOf}
RawWire  == {AnthropicWireOf(FALSE)}

-----------------------------------------------------------------------------
(* The streams                                                             *)

\* One tool block and the frames that may surround and interrupt it.
ToolEvents ==
    {A!MessageStart, A!ToolStart(0), A!InputDelta(0, <<"{">>), A!InputDelta(0, <<"}">>),
     A!InputDelta(0, <<>>), A!BlockStop(0), A!Ping, A!StopReason("limit"), A!ErrorTerminal,
     A!MessageStop}

\* Two blocks open at once, the second not announced as a tool.
TwoBlockEvents ==
    {A!MessageStart, A!ToolStart(0), A!TextStart(1), A!InputDelta(0, <<"{">>),
     A!InputDelta(0, <<"}">>), A!InputDelta(1, <<"{", "}">>), A!BlockStop(0),
     A!BlockStop(1), A!MessageStop}

BareEvents == ToolEvents \cup {A!Bare}

\* Deltas that may be joined, one of another item, one that may not, and a
\* frame of no item.
DeltaEvents ==
    {R!Text("a", <<"x">>), R!Text("a", <<"y">>), R!Text("b", <<"x">>),
     R!OpaqueText("a", <<"z">>), R!Meta, R!Completed}

\* Two candidates that may report in one chunk or in several, end twice, or
\* reappear after their end; an index outside the request; a blocked prompt.
ChunkEvents ==
    {G!Chunk(<<G!Candidate(0, TRUE, FALSE)>>), G!Chunk(<<G!Candidate(0, FALSE, TRUE)>>),
     G!Chunk(<<G!Candidate(0, TRUE, TRUE), G!Candidate(1, FALSE, TRUE)>>),
     G!Chunk(<<G!Candidate(1, TRUE, FALSE), G!Candidate(1, FALSE, TRUE)>>),
     G!Chunk(<<G!Candidate(1, TRUE, TRUE)>>), G!Chunk(<<G!Candidate(2, TRUE, FALSE)>>),
     G!Usage, G!Control, G!Blocked, G!NotJSON, G!ErrorTransient, G!ErrorTerminal}

MCEvent == BareEvents \cup TwoBlockEvents \cup DeltaEvents \cup ChunkEvents

\* Any stream of the wire up to a length.
Free(w, evs) ==
    CASE w.proto = "anthropic" -> Len(evs) <= 5 /\ ToSet(evs) \subseteq ToolEvents
      [] w.proto = "responses" -> Len(evs) <= 4 /\ ToSet(evs) \subseteq DeltaEvents
      [] OTHER                 -> Len(evs) <= 4 /\ ToSet(evs) \subseteq ChunkEvents

\* Longer Anthropic streams of such an upstream that start once.
Conforming(w, evs, events) ==
    /\ w.proto = "anthropic" /\ ~w.state.streamToolDeltas
    /\ ToSet(evs) \subseteq events
    /\ \A k \in DOMAIN evs : evs[k] = A!MessageStart <=> k = 1
    /\ BlockProtocol(evs)

EventsOf(w) ==
    CASE w.proto = "anthropic" -> BareEvents \cup TwoBlockEvents
      [] w.proto = "responses" -> DeltaEvents
      [] OTHER                 -> ChunkEvents

Step(Explored(_, _)) ==
    \/ \E ev \in EventsOf(wire) :
         /\ Explored(wire, Append(seen, ev))
         /\ Buffer(ev) \/ Answer(ev) \/ Reject(ev) \/ Forward(ev) \/ BreakAt(ev)
    \/ Commit \/ AnswerAtEOF \/ Break \/ Ended

FreeOrConforming(w, evs) == Free(w, evs) \/ Conforming(w, evs, TwoBlockEvents)
WithBare(w, evs)         == Conforming(w, evs, BareEvents)

WiresSpec == Init /\ [][Step(FreeOrConforming)]_vars
BareSpec  == Init /\ [][Step(WithBare)]_vars

=============================================================================
