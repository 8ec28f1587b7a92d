------------------------------ MODULE Failures ------------------------------
(***************************************************************************)
(* The failure verdicts the proxy computes and the few of them the stream  *)
(* engine makes up itself.  A failure is abstracted to what the handler    *)
(* branches on: its code, whether it may be retried (transient) and        *)
(* whether its own terminal frame already reached the client (delivered).  *)
(***************************************************************************)

\* No failure: the nil *failure of the code.
NoFail == [code |-> "none", transient |-> FALSE, delivered |-> FALSE]

Transient(code) == [code |-> code, transient |-> TRUE, delivered |-> FALSE]
Terminal(code)  == [code |-> code, transient |-> FALSE, delivered |-> FALSE]

\* The same verdict, once its frame was forwarded on a committed stream.
Delivered(fail) == [fail EXCEPT !.delivered = TRUE]

\* What classifyBufferError makes of errTooLarge and of any other spool error.
ResponseTooLarge == Terminal("response_too_large")
SpoolError       == Transient("spool_error")

\* A buffered response that could not be written downstream completely.
ReplayFailed == Transient("response_replay_failed")

\* How the engine classifies silence, the end of the context and a bad read.
UpstreamIdle    == Transient("upstream_idle")
ClientGone      == Terminal("client_gone")
Deadline        == Transient("deadline")
TruncatedStream == Transient("truncated_stream")
StreamReadError == Transient("stream_read_error")

\* Verdicts of the wires: an invalid or out-of-order event, a terminal event
\* the client could not parse, and the sentinel for a complete refusal.
MalformedSSE     == Transient("malformed_sse")
InvalidCompleted == Transient("responses_invalid_completed")
RefusalFallback  == Terminal("refusal_fallback")

\* An in-band error frame, classified transient or terminal.
InBandTransient == Transient("in_band_error")
InBandTerminal  == Terminal("in_band_error")

=============================================================================
