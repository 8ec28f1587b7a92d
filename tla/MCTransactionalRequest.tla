------------------------ MODULE MCTransactionalRequest ------------------------
(***************************************************************************)
(* Requests on the three wires, each attempt with a short stream, and for  *)
(* Claude one fallback candidate.                                          *)
(***************************************************************************)
EXTENDS TransactionalRequest

W == INSTANCE Wires WITH
        ValidateJSON <- TRUE, NormalizeToolJSON <- TRUE, InterceptRefusal <- TRUE,
        MaxGroup <- 2, CandidateCount <- 1

MCBuffered(w, ev)        == W!WiresBuffered(w, ev)
MCLive(w, ev)            == W!WiresLive(w, ev)
MCReplayBuffered(w, evs) == W!WiresReplay(w, evs)
MCReplayPrefix(w, evs)   == W!WiresReplayPrefix(w, evs)
MCCompleteOnEOF(w)       == W!WiresCompleteOnEOF(w)
MCForwardable(w)         == W!WiresForwardable(w)

MCWiresOf(route) ==
    CASE route = "responses" -> {W!ResponsesWireOf}
      [] route = "gemini"    -> {W!GeminiWireOf}
      [] OTHER               -> {W!AnthropicWireOf(FALSE)}

\* An answer and a refusal of three events, an answer of two and of one, and
\* the errors each wire tells apart.
MCEventsOf(route) ==
    CASE route = "responses" ->
           {W!R!Text("a", <<"x">>), W!R!Completed, W!R!ErrorTransient,
            W!R!ErrorTerminal, W!R!ErrorNative}
      [] route = "gemini" ->
           {W!G!Chunk(<<W!G!Candidate(0, TRUE, FALSE)>>),
            W!G!Chunk(<<W!G!Candidate(0, TRUE, TRUE)>>),
            W!G!ErrorTransient, W!G!ErrorTerminal}
      [] OTHER ->
           {W!A!MessageStart, W!A!StopReason("refusal"), W!A!StopReason("end_turn"),
            W!A!MessageStop, W!A!ErrorTransient, W!A!ErrorTerminal}

FallbackModels == <<"original", "candidate">>

Type(name) == [NoError EXCEPT !.type = name]

UpstreamReplies == {Reply(503, NoError)}

StreamErrors ==
    {[Type("overloaded_error") EXCEPT !.native = "UNAVAILABLE"],
     [Type("invalid_request_error") EXCEPT !.text = "safeguard", !.native = "INVALID_ARGUMENT"]}

StreamFailures ==
    {FaultOf(fail) : fail \in {S!UpstreamIdle, S!ClientGone, S!Deadline, S!ResponseTooLarge,
                               S!SpoolError, S!TruncatedStream, S!StreamReadError,
                               S!MalformedSSE, S!InvalidCompleted}}

\* The Anthropic wire intercepts refusals for Claude models only.
MCInit == RequestInit /\ request.route # "messages"
MCSpec == MCInit /\ [][RequestNext]_<<vars, streamVars>>

-----------------------------------------------------------------------------

\* The client has the whole of a stream that was answered as complete.
SameAnswer(route, out, evs) ==
    CASE route = "responses" -> W!R!Tokens(out) = W!R!Tokens(evs)
      [] route = "gemini"    -> out = evs /\ W!G!CompleteAnswer(evs)
      [] OTHER               -> W!A!SameContent(out, evs) /\ out[Len(out)] = W!A!MessageStop

IsRefusal(evs) ==
    \E i \in DOMAIN evs : evs[i] = W!A!StopReason("refusal")

\* The client sees the answer of one attempt (main.go, the loop of handle
\* around captureSSECore): nothing of an attempt that another one followed, and
\* nothing at all before an error it is to act on.  A success is the whole
\* answer of the last attempt, a held answer the whole refusal that was kept,
\* and a delivered error ends with the upstream's own frame.
ClientSeesOneAnswer ==
    /\ OneAttemptAnswers
    /\ response.kind = "ok" /\ phase = "ended" =>
         SameAnswer(request.route, frames, seen)
    /\ response.kind = "held" =>
         SameAnswer(request.route, frames, kept.seen) /\ IsRefusal(kept.seen)
    /\ response.kind = "delivered" => frames[Len(frames)] = seen[Len(seen)]

=============================================================================
