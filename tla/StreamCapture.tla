---------------------------- MODULE StreamCapture ----------------------------
(***************************************************************************)
(* The transactional stream engine of one upstream attempt: captureSSECore *)
(* and process in sse.go, with the reader goroutine they start, its one-   *)
(* slot channel, the keepalive and idle timers and the request context.    *)
(*                                                                         *)
(* The engine is independent of the wire protocol (the wireModel interface *)
(* of wire.go), so the wire is a parameter: see WireModel.  Time is        *)
(* abstracted to "a timer has expired".                                    *)
(***************************************************************************)
EXTENDS Naturals, Sequences, Failures, WireModel

CONSTANTS
    EarlyCommit,          \* commit at the first content (Responses)
    ProgressGated,        \* never commit before content (Workflow agents)
    Keepalives,           \* keepaliveMs > 0
    MaxResponse,          \* maxResponseBytes, in events
    MaxBufferMem          \* maxBufferMem, in events: beyond it a file is used

CONSTANTS                 \* bounds of the upstream
    MaxChunks,            \* reads that return bytes
    MaxPerChunk,          \* events completed by one read
    MaxEvents             \* events of the whole stream

ASSUME PolicyAssumption ==
    /\ EarlyCommit \in BOOLEAN
    /\ ProgressGated \in BOOLEAN
    /\ Keepalives \in BOOLEAN

ASSUME BoundAssumption ==
    /\ MaxResponse \in Nat
    /\ MaxBufferMem \in Nat
    /\ MaxChunks \in Nat
    /\ MaxPerChunk \in Nat
    /\ MaxEvents \in Nat

VARIABLES
    \* the reader goroutine
    reader,      \* "reading", "sending" or "exited"
    chunk,       \* the result it is about to send
    ch,          \* the channel: empty or one result
    nchunks,     \* reads so far that returned bytes
    nevents,     \* events read so far
    bodyOpen,    \* the caller has not closed the body
    \* timers and context
    keepTimer,   \* "armed", "expired" or "off"
    idleTimer,   \* the same
    ctx,         \* "alive", "canceled" or "deadline"
    \* the capture loop
    pc,          \* "select", "process" or "returned"
    pending,     \* parsed events the range loop has still to visit
    readErr,     \* error of the result being handled
    partial,     \* what the parser holds: "none", "partial" or "overflow"
    wire,        \* state of the wire instance
    spool,       \* the buffered events
    spoolState,  \* "open", "discarded" or "held" (handed to the caller)
    committed, graceElapsed,
    result,      \* what the capture returned: [wrote, fail]
    \* the downstream response
    head,        \* "none", "buffered", "live"; "implicit" if a body byte
                 \* went out before writeHead
    out,         \* the frames written, keepalives left out
    seen         \* history: the events handed to the wire so far

timers == <<keepTimer, idleTimer>>
vars == <<reader, chunk, ch, nchunks, nevents, bodyOpen, keepTimer, idleTimer,
          ctx, pc, pending, readErr, partial, wire, spool, spoolState,
          committed, graceElapsed, result, head, out, seen>>

-----------------------------------------------------------------------------
(* Reads                                                                   *)

ReadErrors == {"none", "eof", "unexpected_eof", "fault"}

NoChunk == [data |-> FALSE, events |-> <<>>, partial |-> "none", err |-> "none"]

EventLists == UNION {[1 .. n -> Event] : n \in 0 .. MaxPerChunk}

Init ==
    /\ reader = "reading" /\ chunk = NoChunk /\ ch = NoChunk
    /\ nchunks = 0 /\ nevents = 0 /\ bodyOpen = TRUE
    /\ keepTimer = "armed" /\ idleTimer = "armed" /\ ctx = "alive"
    /\ pc = "select" /\ pending = <<>> /\ readErr = "none"
    /\ partial = "none" /\ wire \in WireInits
    /\ spool = <<>> /\ spoolState = "open"
    /\ committed = FALSE /\ graceElapsed = FALSE
    /\ result = [wrote |-> FALSE, fail |-> NoFail]
    /\ head = "none" /\ out = <<>> /\ seen = <<>>

\* The reader's Read returns bytes, perhaps the last ones of the body.  They
\* complete any number of events; what follows the last one stays in the
\* parser, and is too long for it once it exceeds the response cap.  (Bytes
\* that come with another error are two reads here; bytes read after the
\* capture returned are never looked at, ReadNothing stands for those reads.)
ReadBytes ==
    /\ reader = "reading" /\ pc # "returned"
    /\ nchunks < MaxChunks
    /\ \E evs \in EventLists, rest \in {"none", "partial", "overflow"},
          err \in {"none", "eof"} :
         /\ nevents + Len(evs) <= MaxEvents
         /\ chunk' = [data |-> TRUE, events |-> evs, partial |-> rest,
                      err |-> err]
         /\ nevents' = nevents + Len(evs)
    /\ nchunks' = nchunks + 1
    /\ reader' = "sending"
    /\ UNCHANGED <<ch, bodyOpen, keepTimer, idleTimer, ctx, pc, pending,
                   readErr, partial, wire, spool, spoolState, committed,
                   graceElapsed, result, head, out, seen>>

\* Read fails without bytes: the upstream closed or broke the connection, the
\* context ended, or the caller closed the body under the reader.
ReadNothing ==
    /\ reader = "reading"
    /\ \E err \in ReadErrors \ {"none"} :
         /\ bodyOpen \/ err = "fault"
         /\ chunk' = [NoChunk EXCEPT !.err = err]
    /\ reader' = "sending"
    /\ UNCHANGED <<ch, nchunks, nevents, bodyOpen, keepTimer, idleTimer, ctx,
                   pc, pending, readErr, partial, wire, spool, spoolState,
                   committed, graceElapsed, result, head, out, seen>>

\* case ch <- rr{cp, err}
ReaderSends ==
    /\ reader = "sending" /\ ch = NoChunk
    /\ ch' = chunk
    /\ chunk' = NoChunk
    /\ reader' = IF chunk.err # "none" THEN "exited" ELSE "reading"
    /\ UNCHANGED <<nchunks, nevents, bodyOpen, keepTimer, idleTimer, ctx, pc,
                   pending, readErr, partial, wire, spool, spoolState,
                   committed, graceElapsed, result, head, out, seen>>

\* Seeded fault: the break leaves the select, not the reader's loop.
ReaderStopsSending ==
    /\ reader = "sending" /\ pc = "returned"
    /\ reader' = "reading"
    /\ chunk' = NoChunk
    /\ UNCHANGED <<ch, nchunks, nevents, bodyOpen, keepTimer, idleTimer, ctx,
                   pc, pending, readErr, partial, wire, spool, spoolState,
                   committed, graceElapsed, result, head, out, seen>>

\* case <-done: the capture returned and closed the channel.
ReaderStops ==
    /\ reader = "sending" /\ pc = "returned"
    /\ reader' = "exited"
    /\ chunk' = NoChunk
    /\ UNCHANGED <<ch, nchunks, nevents, bodyOpen, keepTimer, idleTimer, ctx,
                   pc, pending, readErr, partial, wire, spool, spoolState,
                   committed, graceElapsed, result, head, out, seen>>

-----------------------------------------------------------------------------
(* The environment: timers, the client, the deadline and the caller        *)

KeepTimerExpires ==
    /\ keepTimer = "armed"
    /\ keepTimer' = "expired"
    /\ UNCHANGED <<reader, chunk, ch, nchunks, nevents, bodyOpen, idleTimer,
                   ctx, pc, pending, readErr, partial, wire, spool, spoolState,
                   committed, graceElapsed, result, head, out, seen>>

\* The idle timer also runs while the loop is busy writing to the client.
IdleTimerExpires ==
    /\ idleTimer = "armed"
    /\ idleTimer' = "expired"
    /\ UNCHANGED <<reader, chunk, ch, nchunks, nevents, bodyOpen, keepTimer,
                   ctx, pc, pending, readErr, partial, wire, spool, spoolState,
                   committed, graceElapsed, result, head, out, seen>>

\* (Once the capture has returned nothing of it looks at the context again.)
ContextEnds(cause) ==
    /\ ctx = "alive" /\ pc # "returned"
    /\ ctx' = cause
    /\ UNCHANGED <<reader, chunk, ch, nchunks, nevents, bodyOpen, keepTimer,
                   idleTimer, pc, pending, readErr, partial, wire, spool,
                   spoolState, committed, graceElapsed, result, head, out, seen>>

ClientLeaves   == ContextEnds("canceled")
DeadlinePasses == ContextEnds("deadline")

\* The handler closes the response body as soon as the capture has returned.
CallerClosesBody ==
    /\ pc = "returned" /\ bodyOpen
    /\ bodyOpen' = FALSE
    /\ UNCHANGED <<reader, chunk, ch, nchunks, nevents, keepTimer, idleTimer,
                   ctx, pc, pending, readErr, partial, wire, spool, spoolState,
                   committed, graceElapsed, result, head, out, seen>>

-----------------------------------------------------------------------------
(* Pieces of the capture loop                                              *)

Discard == spool' = <<>> /\ spoolState' = "discarded"

\* Every return stops both timers, and all but that of a held refusal discard
\* the spool.
Result(wrote, fail) ==
    /\ pc' = "returned"
    /\ result' = [wrote |-> wrote, fail |-> fail]
    /\ keepTimer' = "off" /\ idleTimer' = "off"

Return(wrote, fail) == Result(wrote, fail) /\ Discard

\* writeHead: the first call wins.
HeadAfter(mode) == IF head = "none" THEN mode ELSE head

\* Body bytes without a head make net/http send an implicit 200.
HeadAfterBytes == IF head = "none" THEN "implicit" ELSE head

\* Seeded fault: the cap is compared with the buffer before the event.
SpoolWritesPastCap(n) ==
    IF n > MaxResponse + 1 THEN {ResponseTooLarge}
    ELSE IF n > MaxBufferMem THEN {NoFail, SpoolError}
    ELSE {NoFail}

\* spool.write: the cap first; an event past the memory limit goes through a
\* temporary file, which may fail.
SpoolWrites(n) ==
    IF n > MaxResponse THEN {ResponseTooLarge}
    ELSE IF n > MaxBufferMem THEN {NoFail, SpoolError}
    ELSE {NoFail}

\* replayCaptured, whose result is what the capture returns.
ReplayAndReturn(w, evs) ==
    \E r \in Replays(ReplayBuffered(w, evs)) :
        /\ head' = HeadAfter("buffered")
        /\ out' = out \o r.out
        /\ Return(TRUE, r.fail)

\* onReadErr: the context explains a failed read better than its error.
ReadFailure(err) ==
    IF ctx = "deadline" THEN Deadline
    ELSE IF ctx = "canceled" THEN ClientGone
    ELSE IF err \in {"eof", "unexpected_eof"} THEN TruncatedStream
    ELSE StreamReadError

\* Seeded fault: the spool is kept after a commit.
CommitLiveKeepsSpool(timerAfter) ==
    /\ head' = HeadAfter("live")
    /\ committed' = TRUE
    /\ \E r \in Replays(ReplayPrefix(wire, spool)) :
         /\ out' = out \o r.out
         /\ wire' = r.wire
         /\ IF r.fail = NoFail
            THEN /\ pc' = "select" /\ keepTimer' = timerAfter
                 /\ UNCHANGED <<idleTimer, result, spool, spoolState>>
            ELSE Return(TRUE, r.fail)

\* commitLive: the head, then the buffered prefix; a replay error ends the
\* capture, success continues at the given place with the spool released.
CommitLive(timerAfter) ==
    /\ head' = HeadAfter("live")
    /\ committed' = TRUE
    /\ \E r \in Replays(ReplayPrefix(wire, spool)) :
         /\ out' = out \o r.out
         /\ wire' = r.wire
         /\ IF r.fail = NoFail
            THEN /\ Discard
                 /\ pc' = "select" /\ keepTimer' = timerAfter
                 /\ UNCHANGED <<idleTimer, result>>
            ELSE Return(TRUE, r.fail)

-----------------------------------------------------------------------------
(* The select loop                                                         *)

\* case r := <-ch: bytes reset the idle timer and are parsed; process then
\* visits the events one by one.
ReceiveChunk ==
    /\ pc = "select" /\ ch # NoChunk
    /\ ch' = NoChunk
    /\ pending' = ch.events
    /\ readErr' = ch.err
    /\ partial' = IF ch.data THEN ch.partial ELSE partial
    /\ idleTimer' = IF ch.data THEN "armed" ELSE idleTimer
    /\ pc' = "process"
    /\ UNCHANGED <<reader, chunk, nchunks, nevents, bodyOpen, keepTimer, ctx,
                   wire, spool, spoolState, committed, graceElapsed, result,
                   head, out, seen>>

\* What every iteration of process's range loop leaves alone.
ProcessFrame ==
    UNCHANGED <<reader, chunk, ch, nchunks, nevents, bodyOpen, ctx, readErr,
                partial, committed, graceElapsed>>

\* The next event, handed to the wire on the buffering path.
NextBuffered(verdict) ==
    /\ pc = "process" /\ pending # <<>> /\ ~committed
    /\ pending' = Tail(pending)
    /\ seen' = Append(seen, Head(pending))
    /\ wire' = verdict.wire
    /\ ProcessFrame

\* The event is valid and joins the buffer.
BufferEvent ==
    LET v == Buffered(wire, Head(pending)) IN
    /\ NextBuffered(v)
    /\ v.fail = NoFail /\ ~v.done
    /\ NoFail \in SpoolWrites(Len(spool) + 1)
    /\ spool' = Append(spool, Head(pending))
    /\ UNCHANGED <<spoolState, pc, result, head, out, timers>>

\* The event completes the response: the whole buffer is replayed.
CompleteBuffered ==
    LET v == Buffered(wire, Head(pending)) IN
    /\ NextBuffered(v)
    /\ v.fail = NoFail /\ v.done
    /\ NoFail \in SpoolWrites(Len(spool) + 1)
    /\ ReplayAndReturn(v.wire, Append(spool, Head(pending)))

\* Seeded fault: the refusal is handed over before its last event is kept.
HoldRefusalUnfinished ==
    LET v == Buffered(wire, Head(pending)) IN
    /\ NextBuffered(v)
    /\ v.fail = RefusalFallback
    /\ spoolState' = "held"
    /\ Result(FALSE, v.fail)
    /\ UNCHANGED <<spool, head, out>>

\* A complete refusal is kept, its terminal event included, for the caller.
HoldRefusal ==
    LET v == Buffered(wire, Head(pending)) IN
    /\ NextBuffered(v)
    /\ v.fail = RefusalFallback
    /\ NoFail \in SpoolWrites(Len(spool) + 1)
    /\ spool' = Append(spool, Head(pending))
    /\ spoolState' = "held"
    /\ Result(FALSE, v.fail)
    /\ UNCHANGED <<head, out>>

\* An in-band error or an invalid event: nothing is downstream yet.
AbortBuffered ==
    LET v == Buffered(wire, Head(pending)) IN
    /\ NextBuffered(v)
    /\ v.fail \notin {NoFail, RefusalFallback}
    /\ Return(FALSE, v.fail)
    /\ UNCHANGED <<head, out>>

\* Seeded fault: an error of the buffer is ignored and the event lost.
BufferFailsUnnoticed ==
    LET v == Buffered(wire, Head(pending)) IN
    /\ NextBuffered(v)
    /\ v.fail = NoFail /\ ~v.done
    /\ SpoolWrites(Len(spool) + 1) # {NoFail}
    /\ UNCHANGED <<spool, spoolState, pc, result, head, out, timers>>

\* The event does not fit the buffer, or the buffer file fails.
BufferFails ==
    LET v == Buffered(wire, Head(pending)) IN
    /\ NextBuffered(v)
    /\ v.fail \in {NoFail, RefusalFallback}
    /\ \E f \in SpoolWrites(Len(spool) + 1) \ {NoFail} : Return(FALSE, f)
    /\ UNCHANGED <<head, out>>

\* The next event on the live path: its frames are written even if it fails;
\* an event that forwards nothing yields a keepalive instead.
LiveEvent ==
    LET v == Live(wire, Head(pending)) IN
    /\ pc = "process" /\ pending # <<>> /\ committed
    /\ pending' = Tail(pending)
    /\ seen' = Append(seen, Head(pending))
    /\ wire' = v.wire
    /\ out' = out \o v.out
    /\ head' = IF v.out = <<>> /\ v.fail # NoFail THEN head ELSE HeadAfterBytes
    /\ IF v.fail # NoFail \/ v.done
       THEN Return(TRUE, v.fail)
       ELSE UNCHANGED <<pc, result, spool, spoolState, timers>>
    /\ ProcessFrame

\* What the end of a chunk leaves alone, whatever it decides.
ChunkFrame ==
    UNCHANGED <<reader, chunk, ch, nchunks, nevents, bodyOpen, ctx, pending,
                readErr, partial, graceElapsed, seen>>

ChunkProcessed == pc = "process" /\ pending = <<>>

\* The parser gave up on an event longer than the response cap.
ParserOverflows ==
    /\ ChunkProcessed /\ partial = "overflow"
    /\ Return(committed, ResponseTooLarge)
    /\ ChunkFrame /\ UNCHANGED <<wire, committed, head, out>>

\* Seeded fault: the parser's partial frame is not asked for.
CleanEOFWithPartialFrame ==
    readErr = "eof" /\ ctx = "alive" /\ partial # "overflow" /\ CompleteOnEOF(wire)

\* A clean end of a fully framed stream completes it for a wire without a
\* terminal event.
CleanEOF ==
    readErr = "eof" /\ ctx = "alive" /\ partial = "none" /\ CompleteOnEOF(wire)

CompleteAtEOF ==
    /\ ChunkProcessed /\ CleanEOF
    /\ IF committed
       THEN Return(TRUE, NoFail) /\ UNCHANGED <<head, out>>
       ELSE ReplayAndReturn(wire, spool)
    /\ ChunkFrame /\ UNCHANGED <<wire, committed>>

\* Seeded fault: the failure is reported as uncommitted, whatever was sent.
ReadFailsUnseen ==
    /\ ChunkProcessed /\ partial # "overflow"
    /\ readErr # "none" /\ ~CleanEOF
    /\ Return(FALSE, ReadFailure(readErr))
    /\ ChunkFrame /\ UNCHANGED <<wire, committed, head, out>>

ReadFails ==
    /\ ChunkProcessed /\ partial # "overflow"
    /\ readErr # "none" /\ ~CleanEOF
    /\ Return(committed, ReadFailure(readErr))
    /\ ChunkFrame /\ UNCHANGED <<wire, committed, head, out>>

\* Seeded fault: the check after a chunk forgets the gated caller.
CommitDueForEarlyOnly == ~committed /\ Forwardable(wire) /\ EarlyCommit

\* The per-chunk commit check.
CommitDue ==
    /\ ~committed /\ Forwardable(wire)
    /\ EarlyCommit \/ (ProgressGated /\ graceElapsed)

CommitAfterChunk ==
    /\ ChunkProcessed /\ partial # "overflow" /\ readErr = "none"
    /\ CommitDue
    /\ CommitLive(keepTimer)
    /\ ChunkFrame

NextChunk ==
    /\ ChunkProcessed /\ partial # "overflow" /\ readErr = "none"
    /\ ~CommitDue
    /\ pc' = "select"
    /\ ChunkFrame
    /\ UNCHANGED <<wire, spool, spoolState, committed, result, head, out, timers>>

\* case <-keepTimer.C
KeepTick == pc = "select" /\ keepTimer = "expired"

TickFrame ==
    UNCHANGED <<reader, chunk, ch, nchunks, nevents, bodyOpen, ctx, pending,
                readErr, partial, seen>>

KeepTickDisabled ==
    /\ KeepTick /\ ~Keepalives
    /\ keepTimer' = "off"
    /\ TickFrame
    /\ UNCHANGED <<idleTimer, pc, wire, spool, spoolState, committed,
                   graceElapsed, result, head, out>>

\* A gated caller has no content to be shown yet: stay buffered.
KeepTickGated ==
    /\ KeepTick /\ Keepalives
    /\ ~committed /\ ProgressGated /\ ~Forwardable(wire)
    /\ graceElapsed' = TRUE
    /\ keepTimer' = "armed"
    /\ TickFrame
    /\ UNCHANGED <<idleTimer, pc, wire, spool, spoolState, committed, result,
                   head, out>>

\* Seeded fault: the window commits without asking for content.
KeepTickCommitsEmpty ==
    /\ KeepTick /\ Keepalives /\ ~committed
    /\ graceElapsed' = TRUE
    /\ CommitLive("armed")
    /\ TickFrame

\* The window is over: commit, then the first keepalive.
KeepTickCommits ==
    /\ KeepTick /\ Keepalives
    /\ ~committed /\ (ProgressGated => Forwardable(wire))
    /\ graceElapsed' = TRUE
    /\ CommitLive("armed")
    /\ TickFrame

KeepTickLive ==
    /\ KeepTick /\ Keepalives /\ committed
    /\ graceElapsed' = TRUE
    /\ keepTimer' = "armed"
    /\ head' = HeadAfterBytes
    /\ TickFrame
    /\ UNCHANGED <<idleTimer, pc, wire, spool, spoolState, committed, result, out>>

\* What an ending by a timer or the context leaves alone.
EndFrame ==
    UNCHANGED <<reader, chunk, ch, nchunks, nevents, bodyOpen, ctx, pending,
                readErr, partial, wire, committed, graceElapsed, head, out, seen>>

\* case <-idleTimer.C
IdleTick ==
    /\ pc = "select" /\ idleTimer = "expired"
    /\ Return(committed, UpstreamIdle)
    /\ EndFrame

\* Seeded fault: only the deadline ends the loop, not a client that left.
ContextDoneByDeadline ==
    /\ pc = "select" /\ ctx = "deadline"
    /\ Return(committed, Deadline)
    /\ EndFrame

\* case <-ctx.Done()
ContextDone ==
    /\ pc = "select" /\ ctx # "alive"
    /\ Return(committed, IF ctx = "deadline" THEN Deadline ELSE ClientGone)
    /\ EndFrame

-----------------------------------------------------------------------------

Reader == ReadBytes \/ ReadNothing \/ ReaderSends \/ ReaderStops

Process ==
    \/ BufferEvent \/ CompleteBuffered \/ HoldRefusal \/ AbortBuffered
    \/ BufferFails \/ LiveEvent
    \/ ParserOverflows \/ CompleteAtEOF \/ ReadFails \/ CommitAfterChunk
    \/ NextChunk

Select ==
    \/ ReceiveChunk \/ KeepTickDisabled \/ KeepTickGated \/ KeepTickCommits
    \/ KeepTickLive \/ IdleTick \/ ContextDone

Environment ==
    \/ KeepTimerExpires \/ IdleTimerExpires \/ ClientLeaves \/ DeadlinePasses
    \/ CallerClosesBody

\* The capture returned, its reader is gone and the body is closed.
Finished == pc = "returned" /\ reader = "exited" /\ ~bodyOpen /\ UNCHANGED vars

Next == Reader \/ Process \/ Select \/ Environment \/ Finished

Spec == Init /\ [][Next]_vars

\* The goroutines run; the request's deadline passes; a closed body unblocks
\* Read; and Go's select picks a ready case at random, so one that is ready
\* again and again is taken: strong fairness of ContextDone.
Fairness ==
    /\ WF_vars(Process) /\ WF_vars(Select) /\ SF_vars(ContextDone)
    /\ WF_vars(DeadlinePasses) /\ WF_vars(CallerClosesBody)
    /\ WF_vars(ReaderSends) /\ WF_vars(ReaderStops)
    /\ WF_vars(ReadNothing /\ ~bodyOpen)

FairSpec == Spec /\ Fairness

-----------------------------------------------------------------------------
(* Properties of the engine, whatever the wire                             *)

\* The control state.
ControlOK ==
    /\ reader \in {"reading", "sending", "exited"}
    /\ nchunks \in Nat /\ nevents \in Nat /\ bodyOpen \in BOOLEAN
    /\ keepTimer \in {"armed", "expired", "off"}
    /\ idleTimer \in {"armed", "expired", "off"}
    /\ ctx \in {"alive", "canceled", "deadline"}
    /\ pc \in {"select", "process", "returned"}
    /\ chunk.err \in ReadErrors /\ ch.err \in ReadErrors
    /\ readErr \in ReadErrors
    /\ partial \in {"none", "partial", "overflow"}
    /\ spoolState \in {"open", "discarded", "held"}
    /\ committed \in BOOLEAN /\ graceElapsed \in BOOLEAN
    /\ result.wrote \in BOOLEAN
    /\ head \in {"none", "buffered", "live", "implicit"}

\* Events are the wire's own all the way from the read to the buffer.
QueuesOK ==
    /\ chunk.events \in Seq(Event) /\ ch.events \in Seq(Event)
    /\ pending \in Seq(Event) /\ seen \in Seq(Event) /\ spool \in Seq(Event)

\* Types, with the cap that keeps one response from filling the buffer.
TypeOK == ControlOK /\ QueuesOK /\ Len(spool) <= MaxResponse

\* The contract the handler relies on (sse.go, captureSSE): a failure with
\* wrote = false left the client's response untouched, so it can still become
\* a status and a retry; a return with wrote = true sent a head exactly once,
\* through writeHead and before any body byte.
ReturnContract ==
    /\ head # "implicit"
    /\ head = "none" => out = <<>>
    /\ pc = "returned" => (result.wrote <=> head # "none")
    /\ pc = "returned" /\ ~result.wrote => result.fail # NoFail

\* While nothing is committed the spool is the upstream stream itself: every
\* event handed to the wire, once and in order; so is a held refusal, which
\* the handler may replay later.
SpoolFaithful ==
    (pc # "returned" /\ ~committed) \/ spoolState = "held" => spool = seen

\* The spool is given up exactly once: open while buffering, released by a
\* commit or a return, and handed over only with the refusal sentinel.
SpoolReleased ==
    /\ spoolState = "open" <=> pc # "returned" /\ ~committed
    /\ spoolState = "held" <=> pc = "returned" /\ result.fail = RefusalFallback

\* The loop never waits for the upstream with a commit owed to the client: an
\* early-commit stream once content is buffered, a gated one once content is
\* buffered and the window is over, any other once the window is over.
CommitPrompt ==
    pc = "select" /\ ~committed =>
        /\ EarlyCommit => ~Forwardable(wire)
        /\ graceElapsed => ProgressGated /\ ~Forwardable(wire)

\* The capture returns: whatever the upstream does, the deadline ends it.
CaptureReturns == <>(pc = "returned")

\* The reader goroutine does not outlive the capture forever.
ReaderExits == <>(reader = "exited")

=============================================================================
