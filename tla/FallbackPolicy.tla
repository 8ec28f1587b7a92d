---------------------------- MODULE FallbackPolicy ----------------------------
(***************************************************************************)
(* What the request handler reads off a failed attempt: whether it may be  *)
(* retried, and, once a refusal started a fallback chain, what the failure *)
(* means for the chain (claudeFallbackAction in main.go).                  *)
(*                                                                         *)
(* A failure keeps the upstream identity the policy looks at (origStatus,  *)
(* the result of origStatusOf, and the type) next to the status to show    *)
(* and the retry verdict of the classifiers; text stands for the phrases   *)
(* that are searched for in the message.                                   *)
(***************************************************************************)
EXTENDS Naturals

\* Where no reply gave its status, origStatusOf is the status to show.
Fault(code, status, type) ==
    [code |-> code, status |-> status, origStatus |-> status, type |-> type, text |-> "",
     transient |-> FALSE, fastRetry |-> FALSE, retryAfter |-> 0]

\* The failure is what came of a reply: the reply's status stays with it.
OfReply(fault, status) == [fault EXCEPT !.origStatus = status]

Retryable(fault) == [fault EXCEPT !.transient = TRUE]

NoFault == Fault("none", 200, "")

\* What the handler may rely on in any failure: all its fields, two statuses, a
\* verdict and a delay (the struct failure).
IsFault(f) ==
    /\ DOMAIN f = DOMAIN NoFault
    /\ f.status \in Nat /\ f.origStatus \in Nat
    /\ f.transient \in BOOLEAN /\ f.retryAfter \in Nat

-----------------------------------------------------------------------------
(* Failures that are no answer of the upstream (those are Classification's) *)

\* classifyTransport
DeadlineFault  == Retryable(Fault("deadline", 504, "timeout_error"))
ClientGone     == Fault("client_gone", 499, "api_error")
TransportFault ==
    [Retryable(Fault("transport_error", 502, "api_error")) EXCEPT !.fastRetry = TRUE]

\* The stream engine and the non-SSE buffer, before the response was committed
SpoolFault   == Retryable(Fault("spool_error", 502, "api_error"))
TooLarge     == Fault("response_too_large", 502, "api_error")
Idle         == Retryable(Fault("upstream_idle", 504, "timeout_error"))
RefusalFault == Fault("refusal_fallback", 502, "api_error")

-----------------------------------------------------------------------------
(* Their meaning for a fallback chain                                      *)

\* Seeded fault: the status to show is taken for the upstream's.
IsAccountErrorAsShown(f) ==
    \/ f.status \in {401, 402, 403}
    \/ f.type \in {"authentication_error", "billing_error", "permission_error"}

\* isClaudeFallbackAccountError
IsAccountError(f) ==
    \/ f.origStatus \in {401, 402, 403}
    \/ f.type \in {"authentication_error", "billing_error", "permission_error"}

\* isModelSafeguardRefusal
IsSafeguard(f) == ~f.transient /\ ~IsAccountError(f) /\ f.text = "safeguard"

\* "stop" keeps the error, "next" tries the next candidate, "original" goes
\* back to the original answer.  The order of the tests decides.
FallbackAction(f) ==
    IF IsAccountError(f) THEN "stop"
    ELSE IF f.code \in {"refusal_fallback", "sse_stream_disconnect"} \/ IsSafeguard(f)
    THEN "next"
    ELSE IF f.type = "rate_limit_error" THEN "original"
    ELSE IF f.origStatus = 404 \/ f.type = "not_found_error" \/ f.text = "model_not_found"
    THEN "next"
    ELSE IF f.type \in {"invalid_request_error", "request_too_large"} \/ f.origStatus = 413
    THEN "stop"
    ELSE IF f.origStatus = 429 \/ f.code = "spool_error" THEN "original"
    ELSE IF f.transient THEN "next" ELSE "stop"

\* classifyUpstreamHTTPError: within a chain an error that stops it is final,
\* whatever retry hint came with it.
WithinFallback(f) ==
    IF f.transient /\ FallbackAction(f) = "stop"
    THEN [f EXCEPT !.transient = FALSE, !.fastRetry = FALSE]
    ELSE f

=============================================================================
