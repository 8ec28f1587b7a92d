------------------------------ MODULE Transport ------------------------------
(***************************************************************************)
(* One upstream exchange in time: roundTripBefore and its pre-stream       *)
(* timer, cancelBody and byteIdleReader of transport.go, under the three   *)
(* copies that read a body to its end: bufferNonSSE ("buffer"),            *)
(* readHTTPErrorBody ("error") and proxyOnce ("once") of main.go.  The     *)
(* stream engine reads a body differently (StreamPacing).                  *)
(*                                                                         *)
(* A body is a sequence of pieces 1, 2, ...; an error is the set of the    *)
(* errors that errors.Is finds in it.  Timers, callbacks and the proxy's   *)
(* own steps take no time, but come in any order within a tick: Tick waits *)
(* for them, and only the upstream and the client take time.               *)
(***************************************************************************)
EXTENDS Naturals, Sequences, FiniteSets, BodyCapture

CONSTANTS
    Calls,       \* the exchanges: [consumer, archived, commitBy]
    Idle,        \* cfg.upstreamByteIdle, in ticks
    Lifetime,    \* cfg.maxRequestDur, in ticks
    ErrorCap,    \* httpErrorBodyBytes, in pieces
    MaxPieces    \* bound on the pieces of a body

Never == Lifetime + 1   \* the commitBy of an exchange without a window

ASSUME TransportAssumption ==
    /\ Idle \in Nat \ {0} /\ Lifetime \in Nat \ {0}
    /\ ErrorCap \in Nat /\ MaxPieces \in Nat
    /\ \A c \in Calls :
         /\ c.consumer \in {"buffer", "error", "once"} /\ c.archived \in BOOLEAN
         /\ c.commitBy \in 0 .. Never
         /\ c.consumer = "once" => c.commitBy = Never

VARIABLES
    now, call,
    ctx, clientGone,    \* the request's context and its client
    cause,              \* why the attempt's context ended; "none": it did not
    preTimer,           \* the pre-stream timer is armed
    pc,                 \* "headers", "reading", "writing" or "done"
    idleAt,             \* when the idle timer fires; 0: stopped
    callback,           \* its callback: "none", "started", "timed_out", "closed"
    readSince,          \* when the current read began
    longest,            \* history: the longest time of a read
    got, kept,          \* pieces read, and pieces the destination accepted
    bodyEnd,            \* how the upstream ended the body: "open", "eof", "cut"
    readErr,            \* the error of the last read
    capture,            \* the archive's copy
    verdict             \* "none", "complete", "http" or the code of a failure

vars == <<now, call, ctx, clientGone, cause, preTimer, pc, idleAt, callback,
          readSince, longest, got, kept, bodyEnd, readErr, capture, verdict>>

timer == <<idleAt, callback>>
body  == <<got, kept, bodyEnd, capture>>

-----------------------------------------------------------------------------
(* Errors                                                                  *)

TimedOut == callback \in {"timed_out", "closed"}

\* Seeded fault: the cause of a cancelled attempt is not added to its error.
JoinedNot(err) == err

\* roundTripBefore and cancelBody.Read; proxyOnce has no attempt context.
Joined(err) ==
    IF cause = "none" \/ call.consumer = "once" THEN err ELSE err \cup {cause}

\* What the HTTP library may report: a fault of the connection; the end of
\* the attempt's context, on HTTP/2 as a plain cancellation; a closed body.
LibraryErrors ==
    {{"fault"}}
      \cup (IF cause = "none" THEN {} ELSE {{"canceled"}, {cause}})
      \cup (IF callback = "closed" THEN {{"closed"}} ELSE {})

ClassifyTransport(err) ==
    IF ctx = "deadline" \/ "deadline" \in err THEN "deadline"
    ELSE IF ctx = "canceled" \/ "canceled" \in err THEN "client_gone"
    ELSE "transport_error"

\* bufferNonSSE after a failed read, and proxyOnce after any failure.
Judged(err) ==
    IF TimedOut /\ ctx = "alive" THEN "upstream_idle"
    ELSE IF call.consumer = "once" /\ ctx = "alive"
    THEN IF "write_deadline" \in err THEN "deadline" ELSE "response_read_error"
    ELSE ClassifyTransport(err)

-----------------------------------------------------------------------------
(* The request's context and the attempt's                                 *)

\* An attempt whose deadline has passed is cancelled before it is sent.
Init ==
    /\ now = 0 /\ call \in Calls
    /\ ctx = "alive" /\ clientGone = FALSE
    /\ cause = (IF call.commitBy = 0 THEN "deadline" ELSE "none")
    /\ preTimer = (call.commitBy \notin {0, Never})
    /\ pc = "headers"
    /\ idleAt = 0 /\ callback = "none" /\ readSince = 0 /\ longest = 0
    /\ got = <<>> /\ kept = <<>> /\ bodyEnd = "open" /\ readErr = {}
    /\ capture = NewCapture
    /\ verdict = "none"

Cancel(why) == cause' = IF cause = "none" THEN why ELSE cause

\* A timer that is due, a running callback, or a read that must return.
Pending ==
    \/ preTimer /\ now >= call.commitBy
    \/ idleAt # 0 /\ now >= idleAt
    \/ callback \in {"started", "timed_out"}
    \/ pc \in {"headers", "reading"} /\ (cause # "none" \/ callback = "closed")
    \/ pc = "writing" /\ call.consumer # "once"

Tick ==
    /\ pc # "done" /\ now < Lifetime /\ ~Pending
    /\ now' = now + 1
    /\ IF now' = Lifetime /\ ctx = "alive"
       THEN ctx' = "deadline" /\ Cancel("deadline")
       ELSE UNCHANGED <<ctx, cause>>
    /\ UNCHANGED <<call, clientGone, preTimer, pc, timer, readSince, longest,
                   body, readErr, verdict>>

ClientLeaves ==
    /\ pc # "done" /\ ~clientGone
    /\ clientGone' = TRUE
    /\ IF ctx = "alive" THEN ctx' = "canceled" /\ Cancel("canceled")
       ELSE UNCHANGED <<ctx, cause>>
    /\ UNCHANGED <<now, call, preTimer, pc, timer, readSince, longest, body,
                   readErr, verdict>>

\* The pre-stream timer is armed until the body is closed.
PreTimerFires ==
    /\ preTimer /\ now >= call.commitBy
    /\ preTimer' = FALSE
    /\ Cancel("deadline")
    /\ UNCHANGED <<now, call, ctx, clientGone, pc, timer, readSince, longest,
                   body, readErr, verdict>>

-----------------------------------------------------------------------------
(* byteIdleReader                                                          *)

IdleTimerFires ==
    /\ idleAt # 0 /\ now >= idleAt /\ callback = "none"
    /\ idleAt' = 0 /\ callback' = "started"
    /\ UNCHANGED <<now, call, ctx, clientGone, cause, preTimer, pc, readSince,
                   longest, body, readErr, verdict>>

CallbackMarks ==
    /\ callback = "started"
    /\ callback' = "timed_out"
    /\ UNCHANGED <<now, call, ctx, clientGone, cause, preTimer, pc, idleAt,
                   readSince, longest, body, readErr, verdict>>

\* Closing the body releases the attempt's context, and with it the timer.
CallbackCloses ==
    /\ callback = "timed_out"
    /\ callback' = "closed"
    /\ IF call.consumer = "once" THEN UNCHANGED <<cause, preTimer>>
       ELSE Cancel("canceled") /\ preTimer' = FALSE
    /\ UNCHANGED <<now, call, ctx, clientGone, pc, idleAt, readSince, longest,
                   body, readErr, verdict>>

Finish(v) ==
    /\ pc' = "done" /\ verdict' = v
    /\ idleAt' = 0 /\ preTimer' = FALSE

\* The next Read arms the timer, unless an earlier one already timed out.
StartRead ==
    /\ pc' = "reading" /\ readSince' = now
    /\ idleAt' = now + Idle

-----------------------------------------------------------------------------
(* The response headers                                                    *)

\* The library also has a timeout of its own for the headers.
DoFails ==
    /\ pc = "headers"
    /\ \E err \in LibraryErrors \cup {{"deadline"}} :
         readErr' = Joined(err) /\ Finish(ClassifyTransport(Joined(err)))
    /\ UNCHANGED <<now, call, ctx, clientGone, cause, callback, readSince,
                   longest, body>>

\* Seeded fault: the pre-stream timer is stopped for every body.
HeadersArriveUntimed ==
    /\ pc = "headers" /\ cause = "none"
    /\ StartRead /\ preTimer' = FALSE
    /\ UNCHANGED <<now, call, ctx, clientGone, cause, callback, longest, body,
                   readErr, verdict>>

HeadersArrive ==
    /\ pc = "headers" /\ cause = "none"
    /\ StartRead
    /\ UNCHANGED <<now, call, ctx, clientGone, cause, preTimer, callback, longest,
                   body, readErr, verdict>>

\* proxyOnce sends the head of an SSE response before its body: the first
\* flush fails if the client left as the headers came, and nothing is read.
HeadFails ==
    /\ pc = "headers" /\ call.consumer = "once" /\ clientGone
    /\ capture' = NoteReadError(capture, call.archived)
    /\ readErr' = {"write"}
    /\ Finish(Judged({"write"}))
    /\ UNCHANGED <<now, call, ctx, clientGone, cause, callback, readSince,
                   longest, got, kept, bodyEnd>>

-----------------------------------------------------------------------------
(* The body                                                                *)

\* io.Copy and the limited ReadAll end: with the body read whole, or the
\* error body's prefix, or with an error of the read or the write.
EndCopy(err, done) ==
    /\ capture' = NoteReadError(done, call.archived /\ err # {})
    /\ Finish(CASE call.consumer = "error" /\ err = {} -> "http"
                [] call.consumer = "error" /\ err # {} -> ClassifyTransport(err)
                [] call.consumer # "error" /\ err = {} -> "complete"
                [] OTHER -> IF "spool" \in err THEN "spool_error" ELSE Judged(err))

\* Seeded fault: a read that timed out ends the body.
ReturnedErrEnds(raw) ==
    IF TimedOut THEN {"eof"}
    ELSE IF raw \in {{}, {"eof"}} THEN raw ELSE Joined(raw)

\* What Read returns besides the pieces: the idle timeout goes before all
\* else, a clean end of the body is never touched by the cause.
ReturnedErr(raw) ==
    IF TimedOut THEN {"deadline"}
    ELSE IF raw \in {{}, {"eof"}} THEN raw ELSE Joined(raw)

\* Seeded fault: a read that ends does not stop its timer.
ReadReturnsTimed(pieces, raw) ==
    LET err == ReturnedErr(raw) IN
    /\ pc = "reading" /\ (pieces # <<>> \/ err # {})
    /\ got' = got \o pieces
    /\ bodyEnd' = CASE raw = {} -> "open" [] raw = {"eof"} -> "eof" [] OTHER -> "cut"
    /\ longest' = IF now - readSince > longest THEN now - readSince ELSE longest
    /\ readErr' = err
    /\ IF pieces # <<>>
       THEN pc' = "writing" /\ UNCHANGED <<idleAt, preTimer, capture, verdict>>
       ELSE EndCopy(err \ {"eof"}, capture)
    /\ UNCHANGED <<now, call, ctx, clientGone, cause, callback, readSince, kept>>

\* Read returns with pieces, with an error, or with both; the timer is
\* stopped, but a callback that has started runs on.
ReadReturns(pieces, raw) ==
    LET err == ReturnedErr(raw) IN
    /\ pc = "reading" /\ (pieces # <<>> \/ err # {})
    /\ got' = got \o pieces
    /\ bodyEnd' = CASE raw = {} -> "open" [] raw = {"eof"} -> "eof" [] OTHER -> "cut"
    /\ longest' = IF now - readSince > longest THEN now - readSince ELSE longest
    /\ readErr' = err
    /\ IF pieces # <<>>
       THEN pc' = "writing" /\ idleAt' = 0 /\ UNCHANGED <<preTimer, capture, verdict>>
       ELSE EndCopy(err \ {"eof"}, capture)
    /\ UNCHANGED <<now, call, ctx, clientGone, cause, callback, readSince, kept>>

Read ==
    \E pieces \in {<<>>} \cup IF Len(got) < MaxPieces THEN {<<Len(got) + 1>>} ELSE {} :
        \E raw \in {{}, {"eof"}} \cup LibraryErrors : ReadReturns(pieces, raw)

\* The unarchived error body is only read up to one piece past its cap.
PrefixRead == call.consumer = "error" /\ ~call.archived /\ Len(got) > ErrorCap

\* The destination takes the piece, the archive after it; then the error the
\* piece came with is looked at.  A timed-out reader fails the next read.
WriteSucceeds ==
    /\ pc = "writing"
    /\ kept' = Append(kept, got[Len(got)])
    /\ \E done \in IF call.archived THEN CaptureWrites(capture, got[Len(got)]) ELSE {capture} :
         CASE readErr # {} -> EndCopy(readErr \ {"eof"}, done) /\ UNCHANGED readSince
           [] readErr = {} /\ PrefixRead -> EndCopy({}, done) /\ UNCHANGED readSince
           [] readErr = {} /\ ~PrefixRead /\ TimedOut ->
                EndCopy({"deadline"}, done) /\ UNCHANGED readSince
           [] OTHER -> StartRead /\ capture' = done /\ UNCHANGED <<preTimer, verdict>>
    /\ UNCHANGED <<now, call, ctx, clientGone, cause, callback, longest, got,
                   bodyEnd, readErr>>

\* The spool refuses the piece, or the client is gone or past the write
\* deadline: the archive does not see the piece.
WriteFails ==
    /\ pc = "writing"
    /\ \E err \in (IF call.consumer = "buffer" THEN {{"spool"}} ELSE {})
             \cup (IF call.consumer = "once" /\ clientGone THEN {{"write"}} ELSE {})
             \cup (IF call.consumer = "once" /\ now = Lifetime
                   THEN {{"write_deadline"}} ELSE {}) :
         EndCopy(err, capture)
    /\ UNCHANGED <<now, call, ctx, clientGone, cause, callback, readSince,
                   longest, got, kept, bodyEnd, readErr>>

Done == pc = "done" /\ UNCHANGED vars

Next ==
    \/ Tick \/ ClientLeaves \/ PreTimerFires
    \/ IdleTimerFires \/ CallbackMarks \/ CallbackCloses
    \/ DoFails \/ HeadersArrive \/ HeadFails
    \/ Read \/ WriteSucceeds \/ WriteFails \/ Done

Spec == Init /\ [][Next]_vars

-----------------------------------------------------------------------------
(* Properties                                                              *)

\* A timeout of the proxy's own, which cancels or closes the exchange, is
\* never taken for a client that left: "callers do not mistake a proxy timeout
\* for a disconnected client" (a 499 is final, a timeout is retried).
TimeoutIsNotDisconnect == verdict = "client_gone" => clientGone

\* A body counts as complete only if the upstream ended it cleanly and every
\* piece of it was accepted: a cut, a stall or a failed write ends in a
\* failure, which bufferNonSSE retries and proxyOnce turns into an abort.
CutNeverClean ==
    verdict = "complete" =>
        bodyEnd = "eof" /\ readErr = {"eof"} /\ kept = got

\* An idle verdict means that the upstream was silent for the whole period
\* while the proxy was waiting for it, not while the proxy was writing.
IdleIsSilence == verdict = "upstream_idle" => longest >= Idle

\* The proxy never waits for the upstream longer than it says: neither past
\* the buffering window and the request deadline nor, in a body, longer than
\* the idle period.
WaitsAreBounded ==
    pc \in {"headers", "reading"} =>
        /\ now <= call.commitBy /\ now <= Lifetime
        /\ pc = "reading" => now - readSince <= Idle

\* The archive never claims more than it has: what it kept is a prefix of the
\* body as read, and a copy without a capture error is all of the body that
\* was read, of a read that was not interrupted.
ArchiveIsHonest ==
    /\ \E n \in 0 .. Len(got) : ArchivedData(capture) = SubSeq(got, 1, n)
    /\ pc = "done" /\ call.archived /\ got # <<>> /\ ~capture.err =>
         /\ ArchivedData(capture) = got /\ capture.size = Len(got)
         /\ readErr \in {{}, {"eof"}}

\* main.go, httpErrorBodyBytes: "A longer body is classified from its prefix":
\* what comes a piece and more past the cap decides nothing.
LongBodyIsClassified ==
    verdict # "none" /\ call.consumer = "error" /\ Len(kept) > ErrorCap + 1 =>
        verdict = "http"

=============================================================================
