----------------------------- MODULE StreamPacing -----------------------------
(***************************************************************************)
(* The stream engine's idle timer in time: the reader goroutine with its   *)
(* one-slot channel, the loop of captureSSECore that resets the timer when *)
(* it receives bytes, and writes to a client that may be slow once the     *)
(* stream is live.  What the bytes mean is left to StreamCapture.          *)
(***************************************************************************)
EXTENDS Naturals

CONSTANTS
    Idle,      \* cfg.upstreamByteIdle, in ticks
    Horizon    \* bound on the clock

VARIABLES
    now,
    reading,     \* the reader is in Read; else it holds bytes it cannot send
    queued,      \* the channel is full
    loop,        \* "select", "writing" or "returned"
    committed,   \* the stream is live
    idleAt,      \* when the idle timer expires
    lastBytes,   \* history: when the upstream's last bytes were read
    longestGap   \* history: the longest time without any

vars == <<now, reading, queued, loop, committed, idleAt, lastBytes, longestGap>>

Init ==
    /\ now = 0 /\ reading = TRUE /\ queued = FALSE
    /\ loop = "select" /\ committed = FALSE
    /\ idleAt = Idle /\ lastBytes = 0 /\ longestGap = 0

Larger(a, b) == IF a > b THEN a ELSE b

\* The loop acts at once, and so does the reader; the upstream and a write to
\* the client take time.
Tick ==
    /\ now < Horizon /\ loop # "returned"
    /\ loop = "select" => ~queued /\ now < idleAt
    /\ queued \/ reading
    /\ now' = now + 1
    /\ longestGap' = Larger(longestGap, now' - lastBytes)
    /\ UNCHANGED <<reading, queued, loop, committed, idleAt, lastBytes>>

BytesArrive ==
    /\ reading /\ loop # "returned"
    /\ lastBytes' = now
    /\ IF queued THEN reading' = FALSE /\ UNCHANGED queued
       ELSE queued' = TRUE /\ UNCHANGED reading
    /\ UNCHANGED <<now, loop, committed, idleAt, longestGap>>

ReaderSends ==
    /\ ~reading /\ ~queued
    /\ reading' = TRUE /\ queued' = TRUE
    /\ UNCHANGED <<now, loop, committed, idleAt, lastBytes, longestGap>>

\* Bytes are received, the timer is reset; buffered events are written to no
\* client, live ones are.
ReceiveBytes ==
    /\ loop = "select" /\ queued
    /\ queued' = FALSE /\ idleAt' = now + Idle
    /\ loop' = IF committed THEN "writing" ELSE "select"
    /\ UNCHANGED <<now, reading, committed, lastBytes, longestGap>>

\* The window ends, or content makes an early stream live: the prefix is
\* written to the client.
Commit ==
    /\ loop = "select" /\ ~committed
    /\ committed' = TRUE /\ loop' = "writing"
    /\ UNCHANGED <<now, reading, queued, idleAt, lastBytes, longestGap>>

WriteEnds ==
    /\ loop = "writing"
    /\ loop' = "select"
    /\ UNCHANGED <<now, reading, queued, committed, idleAt, lastBytes, longestGap>>

\* The select takes any of its cases that is ready.
IdleTick ==
    /\ loop = "select" /\ now >= idleAt
    /\ loop' = "returned"
    /\ UNCHANGED <<now, reading, queued, committed, idleAt, lastBytes, longestGap>>

Done == loop = "returned" \/ now = Horizon

Next ==
    \/ Tick \/ BytesArrive \/ ReaderSends \/ ReceiveBytes \/ Commit
    \/ WriteEnds \/ IdleTick \/ (Done /\ UNCHANGED vars)

Spec == Init /\ [][Next]_vars

-----------------------------------------------------------------------------

\* docs/TROUBLESHOOTING.md on upstream_idle: "No bytes received from gateway
\* within PROXY_UPSTREAM_BYTE_IDLE_MS" (sse.go, the idleTimer case).
IdleMeansNoBytes == loop = "returned" => longestGap >= Idle

\* The same of a stream that is still buffered, the only one whose idle verdict
\* becomes a retry: there the loop never waits for a client.
BufferedIdleMeansNoBytes == ~committed => IdleMeansNoBytes

=============================================================================
