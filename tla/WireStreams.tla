----------------------------- MODULE WireStreams -----------------------------
(***************************************************************************)
(* What the client gets of a transactional stream on each of the wires:    *)
(* what normalization, joining and the commit do to the answer.            *)
(***************************************************************************)
EXTENDS WireChoice, TransactionalStream, FiniteSets, SequencesExt

Answered == phase = "ended" /\ verdict = [wrote |-> TRUE, fail |-> NoFail]

Keeping(proto) == wire.proto = proto

-----------------------------------------------------------------------------
(* Anthropic                                                               *)

\* Block i is open just before frame k: it was started and not stopped since.
OpenBefore(frames, i, k) ==
    \E j \in 1 .. k - 1 :
        /\ frames[j].index = i /\ frames[j].type = "content_block_start"
        /\ \A m \in j + 1 .. k - 1 :
             frames[m].index = i => frames[m].type # "content_block_stop"

\* The upstream keeps to the block protocol: deltas and stops belong to an open
\* block, and an open block is not opened again.  The validator counts blocks
\* without their indices and the live path rejects no order at all, so neither
\* enforces it.
BlockProtocol(evs) ==
    \A k \in DOMAIN evs :
        /\ evs[k].type \in {"content_block_delta", "content_block_stop"} =>
             OpenBefore(evs, evs[k].index, k)
        /\ evs[k].type = "content_block_start" => ~OpenBefore(evs, evs[k].index, k)

\* A stream answered as a success carries the upstream's content: the client
\* accumulates the same tool input for every block and sees every other event
\* once and in order, wherever the commit fell (sse.go, the normalizer).
SuccessKeepsContent ==
    Keeping("anthropic") /\ Answered /\ BlockProtocol(seen) => A!SameContent(sent, seen)

\* The frames sent, without the terminal error that ended the stream.
BeforeError ==
    IF phase = "ended" /\ verdict.fail.delivered THEN SubSeq(sent, 1, Len(sent) - 1) ELSE sent

\* What has been sent is never ahead of the upstream: at every moment the
\* client's content is a prefix of the upstream's.  Only a terminal error
\* overtakes the frames of a tool call that is still being judged.
NeverAhead ==
    Keeping("anthropic") /\ BlockProtocol(seen) =>
        /\ IsPrefix(A!Others(BeforeError), A!Others(seen))
        /\ \A k \in DOMAIN sent :
             IsPrefix(A!InputOf(sent, sent[k].index), A!InputOf(seen, sent[k].index))

\* The input of the block that frame k closes.
ClosedInput(frames, k) ==
    LET i     == frames[k].index
        moves == {j \in 1 .. k - 1 : frames[j].index = i /\ frames[j].type
                    \in {"content_block_start", "content_block_stop"}}
    IN  A!InputOf(SubSeq(frames, Max(moves \cup {1}), k), i)

\* The first event after frame k that is not a ping.
Follower(frames, k) ==
    LET rest == {j \in k + 1 .. Len(frames) : frames[j] # A!Ping}
    IN  IF rest = {} THEN "none" ELSE frames[Min(rest)].body

\* No client is shown a closed tool call whose input is not a JSON object,
\* unless the provider declared that a limit cut it off (sse.go,
\* judgeTruncatedToolInput).  A gated client, who gets raw fragments, may see
\* one before the fault is noticed, but never in a stream that succeeded.
NoGarbledTool ==
    /\ Keeping("anthropic") /\ BlockProtocol(seen)
    /\ wire.state.streamToolDeltas => Answered
    => \A k \in DOMAIN sent : sent[k].type = "content_block_stop" =>
         LET input == ClosedInput(sent, k) IN
         \/ input = <<>> \/ A!ValidObject(input)
         \/ Follower(sent, k) = "limit"
         \/ phase = "ended" /\ verdict.fail = ReplayFailed

\* Whatever the validators let into the buffer can be delivered: neither a
\* commit at this point nor a replay fails by itself.
BufferIsDeliverable ==
    phase = "buffering" =>
        /\ ReplayPrefix(wire, seen).fail = NoFail
        /\ ReplayBuffered(wire, seen).fail = NoFail

\* wire.go, buffered: "done == true -> the buffered stream is now a complete,
\* deliverable response", so its replay fails only with the client or a disk.
DoneIsDeliverable ==
    A!StreamTerminal(wire.state.val) => ReplayBuffered(wire, seen).fail = NoFail

-----------------------------------------------------------------------------
(* Responses                                                               *)

\* Joining adjacent text deltas for a replay loses, repeats and reorders
\* nothing: at every moment the client has read a prefix of the upstream's
\* text and events, and the whole of them in a stream that succeeded.
TextIsKept ==
    Keeping("responses") =>
        /\ IsPrefix(R!Tokens(sent), R!Tokens(seen))
        /\ Answered => R!Tokens(sent) = R!Tokens(seen)

-----------------------------------------------------------------------------
(* Gemini                                                                  *)

\* An answered stream is complete: every candidate finished (or the prompt was
\* blocked and nothing was generated), nothing followed a finish, and the
\* client has every event of it, whichever of them came before the commit.
AnswerIsComplete ==
    Keeping("gemini") /\ Answered =>
        sent = seen /\ G!CompleteAnswer(seen) /\ G!NothingAfterFinish(seen)

\* A committed stream is forwarded event by event, and only valid events are:
\* a transient error, a malformed chunk or content after a finish never
\* reaches the client, and a terminal error frame only as the last frame of
\* the response, with the verdict that keeps the handler from reporting it
\* again.
OnlyValidForwarded ==
    Keeping("gemini") =>
        /\ phase = "live" => sent = seen
        /\ G!NothingAfterFinish(sent)
        /\ \A i \in DOMAIN sent :
             /\ sent[i] \notin {G!ErrorTransient, G!NotJSON}
             /\ sent[i] = G!ErrorTerminal =>
                  i = Len(sent) /\ phase = "ended" /\ verdict.fail.delivered

=============================================================================
