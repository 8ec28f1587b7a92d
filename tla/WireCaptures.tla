----------------------------- MODULE WireCaptures -----------------------------
(***************************************************************************)
(* What the client gets of the stream engine on each of the wires, with    *)
(* its reader, timers, buffer and commits.                                 *)
(***************************************************************************)
EXTENDS WireChoice, StreamCaptureRefinement

Succeeded == pc = "returned" /\ result = [wrote |-> TRUE, fail |-> NoFail]

-----------------------------------------------------------------------------
(* Responses                                                               *)

\* A stream answered as a success is the whole upstream stream up to its
\* terminal event: replay and live forwarding together lose, repeat and
\* reorder nothing, wherever the commit fell.
ResponsesSuccessIsComplete ==
    Succeeded => R!Tokens(out) = R!Tokens(seen) /\ R!EndsTurn(out)

\* While a committed stream waits for the upstream, the client already has
\* every event of it: the live path withholds nothing.  Only a transient error
\* never reaches it, since Codex gives up on the frame that carries one and a
\* re-send may clear it.
LiveIsCurrent ==
    /\ pc = "select" /\ committed => R!Tokens(out) = R!Tokens(seen)
    /\ \A i \in DOMAIN out : out[i] # R!ErrorTransient

\* The client can take a stream for a finished turn only if the handler will
\* not retry or abort it as unfinished, except that the replay of a complete
\* buffer failed after its last byte.
FinishedOnlyIfSuccess ==
    pc = "returned" /\ R!EndsTurn(out) =>
        result.fail = NoFail \/ result.fail.delivered \/ result.fail = ReplayFailed

-----------------------------------------------------------------------------
(* Gemini                                                                  *)

\* A stream is answered as a success only if every candidate finished (or the
\* prompt was blocked), nothing followed a finish, the transport ended
\* cleanly with no partial frame while the request was alive, and the client
\* has all of it: a cut-off stream never passes for a complete answer.
GeminiSuccessIsComplete ==
    Succeeded =>
        /\ out = seen
        /\ G!CompleteAnswer(seen) /\ G!NothingAfterFinish(seen)
        /\ readErr = "eof" /\ partial = "none"

-----------------------------------------------------------------------------
(* Anthropic                                                               *)

\* An intercepted refusal is kept whole, its terminal event included, and none
\* of it was sent; no refusal is delivered as the buffered answer while they
\* are intercepted.
RefusalIntercepted ==
    /\ spoolState = "held" => A!IsRefusal(spool) /\ out = <<>>
    /\ InterceptRefusal /\ head = "buffered" => ~A!IsRefusal(out)

\* A Workflow watchdog counts only content: once such a client has a head and
\* the prefix was written, it also has content.
GatedClientSeesProgress ==
    ProgressGated /\ head = "live" /\ pc = "select" =>
        \E i \in DOMAIN out : out[i].type = "content_block_delta"

=============================================================================
