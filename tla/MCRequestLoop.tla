---------------------------- MODULE MCRequestLoop ----------------------------
(***************************************************************************)
(* The request loop with two fallback candidates around the request's own  *)
(* model, requests with and without a window of a few seconds, and every   *)
(* disposition of a failure.                                               *)
(***************************************************************************)
EXTENDS RequestLoop

FallbackModels == <<"candidate_a", "original", "candidate_b">>

Type(name) == [NoError EXCEPT !.type = name]
Safeguard == [Type("invalid_request_error") EXCEPT !.text = "safeguard"]

\* An outage, a rate limit with a delay, an exhausted quota, an error of the
\* account with and without a hint to retry it, a bad request, a safeguard, a
\* missing model and an overload that came as a bad request.
UpstreamReplies ==
    {Reply(503, NoError),
     [Reply(429, Type("rate_limit_error")) EXCEPT !.retryAfter = 1],
     Reply(429, [Type("insufficient_quota") EXCEPT !.native = "RESOURCE_EXHAUSTED",
                                                   !.daily = TRUE]),
     Reply(401, Type("authentication_error")),
     [Reply(401, Type("authentication_error")) EXCEPT !.should = "true"],
     [Reply(503, NoError) EXCEPT !.gateway = "false", !.should = "true"],
     Reply(400, Type("invalid_request_error")),
     Reply(400, Safeguard),
     Reply(404, [NoError EXCEPT !.code = "model_not_found"]),
     Reply(400, [Type("overloaded_error") EXCEPT !.native = "UNAVAILABLE"])}

\* Fewer of them, where time is explored further: liveness.
FewReplies ==
    {Reply(503, NoError),
     [Reply(429, Type("rate_limit_error")) EXCEPT !.retryAfter = 1],
     Reply(400, Safeguard)}

StreamErrors ==
    {[Type("overloaded_error") EXCEPT !.native = "UNAVAILABLE"],
     [Safeguard EXCEPT !.native = "INVALID_ARGUMENT"]}

OtherFailures == {SpoolFault}

=============================================================================
