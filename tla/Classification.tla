---------------------------- MODULE Classification ----------------------------
(***************************************************************************)
(* How an upstream error becomes a failure: the classifiers of classify.go, *)
(* responses.go, gemini_errors.go and systemone.go, for an HTTP error with *)
(* its retry headers and for an error event inside a stream.               *)
(*                                                                         *)
(* An error body is what the classifiers read of it: the type and code it  *)
(* names, Google's own status, and the one phrase of its message that they *)
(* search for.  A failure keeps the upstream's status and type; what the   *)
(* code writes over them when it makes a failure retryable is read by      *)
(* nobody but the log, for surface hides it.                               *)
(***************************************************************************)
EXTENDS Surfacing

NoError == [type |-> "", code |-> "", text |-> "", native |-> "", daily |-> FALSE]

\* A reply without retry headers; each of the two headers is "", "true" or
\* "false".
Reply(status, error) ==
    [status |-> status, gateway |-> "", should |-> "", retryAfter |-> 0, error |-> error]

\* What http.Response guarantees of any reply, and httpRetryAfter of its delay.
IsReply(reply) ==
    /\ DOMAIN reply = DOMAIN Reply(200, NoError)
    /\ reply.status \in Nat /\ reply.retryAfter \in Nat

ShapePhrase(e) ==
    \/ e.text \in {"shape", "model_not_found"}
    \/ e.code \in {"model_not_found", "context_length_exceeded"}

TypeOf(e) == IF e.type = "" THEN "api_error" ELSE e.type

\* The failure an error stands for before it is known to be retryable.
Named(code, status, e) ==
    [Fault(code, status, TypeOf(e)) EXCEPT
        !.text = IF e.code = "model_not_found" THEN "model_not_found" ELSE e.text]

RetryAfter(f, seconds) == [f EXCEPT !.retryAfter = seconds]

-----------------------------------------------------------------------------
(* What a body says about its own retry: "transient", "permanent" or       *)
(* "unknown"                                                               *)

AnthropicErrorVerdict(e) ==
    CASE ShapePhrase(e) -> "permanent"
      [] ~ShapePhrase(e) /\ e.type \in {"rate_limit_error", "overloaded_error", "timeout_error"} ->
            "transient"
      [] OTHER -> "unknown"

Quota == {"insufficient_quota", "usage_limit_reached", "usage_not_included"}

Rejected == [authentication_error |-> 401, permission_error |-> 403, not_found_error |-> 404]

ShapeCodes == {"context_length_exceeded", "model_not_found", "invalid_prompt", "cyber_policy"}

ByCode == [request_timeout |-> "timeout", rate_limit_exceeded |-> "rate_limit",
           server_is_overloaded |-> "overloaded", overloaded |-> "overloaded"]

ByType == [timeout_error |-> "timeout", rate_limit_error |-> "rate_limit",
           overloaded_error |-> "overloaded", service_unavailable_error |-> "overloaded",
           invalid_request_error |-> "shape"]

\* responsesFaultOf: a code the proxy knows owns the verdict, then the type;
\* phrases count only where neither is named.
ResponsesFaultOf(e) ==
    IF e.type \in Quota \/ e.code \in Quota THEN "quota"
    ELSE IF e.text = "too_large" \/ e.code \in ShapeCodes THEN "shape"
    ELSE IF e.code \in DOMAIN ByCode THEN ByCode[e.code]
    ELSE IF e.type \in DOMAIN ByType THEN ByType[e.type]
    ELSE IF e.type = "" /\ ShapePhrase(e) THEN "shape"
    ELSE IF e.type \in DOMAIN Rejected THEN "rejected" ELSE "unknown"

\* Seeded fault: an exhausted quota is left to the status.
ResponsesErrorVerdictByStatus(e) ==
    CASE ResponsesFaultOf(e) \in {"timeout", "rate_limit", "overloaded"} -> "transient"
      [] ResponsesFaultOf(e) = "shape" -> "permanent"
      [] OTHER -> "unknown"

ResponsesErrorVerdict(e) ==
    CASE ResponsesFaultOf(e) \in {"timeout", "rate_limit", "overloaded"} -> "transient"
      [] ResponsesFaultOf(e) \in {"shape", "quota"} -> "permanent"
      [] OTHER -> "unknown"

GeminiTransient == {"UNAVAILABLE", "DEADLINE_EXCEEDED", "INTERNAL", "UNKNOWN", "ABORTED"}

GeminiPermanent ==
    {"INVALID_ARGUMENT", "FAILED_PRECONDITION", "OUT_OF_RANGE", "UNAUTHENTICATED",
     "PERMISSION_DENIED", "NOT_FOUND", "ALREADY_EXISTS", "UNIMPLEMENTED"}

\* geminiErrorVerdict, or the rule for other gateways where no status is named;
\* daily says that a violation names a quota per day.
GeminiErrorVerdict(e) ==
    CASE e.native = "" -> AnthropicErrorVerdict([e EXCEPT !.code = ""])
      [] e.native \in GeminiTransient -> "transient"
      [] e.native \in GeminiPermanent -> "permanent"
      [] e.native = "RESOURCE_EXHAUSTED" -> IF e.daily THEN "permanent" ELSE "transient"
      [] OTHER -> IF ShapePhrase([e EXCEPT !.code = ""]) THEN "permanent" ELSE "unknown"

-----------------------------------------------------------------------------
(* HTTP errors                                                             *)

\* httpRetryHint: the gateway's header, else the API's own.
HttpRetryHint(reply) == IF reply.gateway # "" THEN reply.gateway ELSE reply.should

Redirect == Fault("upstream_redirect", 502, "api_error")

\* A hint that says no keeps the delay only if it is the gateway's; nothing
\* reads the delay of a final failure.
Hinted(reply) ==
    LET f == Named("upstream_hint", reply.status, reply.error)
    IN  IF HttpRetryHint(reply) = "true" THEN RetryAfter(Retryable(f), reply.retryAfter) ELSE f

Fast(f) == [f EXCEPT !.fastRetry = TRUE]

\* classifyHTTPErrorBytesShaped: headers beat the status, the status decides,
\* and a body refines it where it names an identity.
ClassifyShaped(reply, verdict) ==
    LET st    == reply.status
        f     == Named("http", st, reply.error)
        again == RetryAfter(Retryable(f), reply.retryAfter)
    IN  IF st \in 300 .. 399 THEN Redirect
        ELSE IF HttpRetryHint(reply) # "" THEN Hinted(reply)
        ELSE IF st \in {408, 409} THEN Fast(again)
        ELSE IF st = 429 THEN IF verdict = "permanent" THEN f
                              ELSE IF reply.error.type = ""
                              THEN [again EXCEPT !.type = "rate_limit_error"] ELSE again
        ELSE IF st >= 500 THEN IF st \in {502, 503} THEN Fast(again) ELSE again
        ELSE IF verdict = "transient" THEN again ELSE f

\* classifySystemOneHTTPErrorBytes goes by the status and the headers alone.
ClassifySystemOne(reply) ==
    LET f == Named("http", reply.status, reply.error)
    IN  IF reply.status \in 300 .. 399 THEN Redirect
        ELSE IF HttpRetryHint(reply) # "" THEN Hinted(reply)
        ELSE IF reply.status \in {408, 429} \cup (500 .. 599)
        THEN RetryAfter(Retryable(f), reply.retryAfter) ELSE f

ClassifyHTTP(route, reply) ==
    CASE route = "responses" -> ClassifyShaped(reply, ResponsesErrorVerdict(reply.error))
      [] route = "gemini"    -> ClassifyShaped(reply, GeminiErrorVerdict(reply.error))
      [] route = "systemone" -> ClassifySystemOne(reply)
      [] OTHER               -> ClassifyShaped(reply, AnthropicErrorVerdict(reply.error))

\* classifyHTTPErrorForPath for a body that could not be read to its end: a
\* retry header still decides, as long as the request itself lives.
ClassifyBroken(route, reply, alive, broken) ==
    IF HttpRetryHint(reply) = "" \/ ~alive
    THEN IF broken.transient THEN RetryAfter(broken, reply.retryAfter) ELSE broken
    ELSE ClassifyHTTP(route, [reply EXCEPT !.error = NoError])

-----------------------------------------------------------------------------
(* Errors inside a stream                                                  *)

\* classifySSEError: the statuses of the documented types
PermanentStatus ==
    [invalid_request_error |-> 400, authentication_error |-> 401, billing_error |-> 402,
     permission_error |-> 403, not_found_error |-> 404, request_too_large |-> 413]

ClassifySSEError(e) ==
    IF e.type = "overloaded_error" THEN Retryable(Named("sse_overloaded", 529, e))
    ELSE IF e.type = "rate_limit_error" THEN Retryable(Named("sse_rate_limit", 429, e))
    ELSE IF e.type \in {"api_error", "timeout_error", ""}
    THEN Retryable(Named("sse_api_error", 502, e))
    ELSE IF e.type = "invalid_request_error" /\ e.text = "disconnect"
    THEN Retryable(Named("sse_stream_disconnect", 502, e))
    ELSE IF e.type \in DOMAIN PermanentStatus
    THEN Named("sse_permanent", PermanentStatus[e.type], e)
    ELSE IF ShapePhrase([e EXCEPT !.code = ""]) THEN Named("sse_request_shape", 400, e)
    ELSE Retryable(Named("sse_retryable", 502, e))

\* classifyResponsesError names the failure itself.
ClassifyResponsesError(e) ==
    LET fault == ResponsesFaultOf(e)
        As(status, type) == [Named("responses", status, e) EXCEPT !.type = type]
    IN  CASE fault = "timeout"    -> Retryable(As(504, "timeout_error"))
          [] fault = "rate_limit" -> Retryable(As(429, "rate_limit_error"))
          [] fault = "overloaded" -> Retryable(As(529, "overloaded_error"))
          [] fault = "quota"      -> As(429, IF e.type \in Quota THEN e.type ELSE e.code)
          [] fault = "shape"      -> As(400, "invalid_request_error")
          [] fault = "rejected"   -> As(Rejected[e.type], e.type)
          [] OTHER                -> Retryable(As(502, "api_error"))

\* geminiHTTPStatus, 502 for a name outside the table.
GeminiStatus(native) ==
    CASE native \in {"INVALID_ARGUMENT", "FAILED_PRECONDITION", "OUT_OF_RANGE"} -> 400
      [] native = "UNAUTHENTICATED" -> 401
      [] native = "PERMISSION_DENIED" -> 403
      [] native = "NOT_FOUND" -> 404
      [] native \in {"ALREADY_EXISTS", "ABORTED"} -> 409
      [] native = "RESOURCE_EXHAUSTED" -> 429
      [] native = "CANCELLED" -> 499
      [] native \in {"UNKNOWN", "INTERNAL", "DATA_LOSS"} -> 500
      [] native = "UNIMPLEMENTED" -> 501
      [] native = "UNAVAILABLE" -> 503
      [] native = "DEADLINE_EXCEEDED" -> 504
      [] OTHER -> 502

\* classifyGeminiSSEError: the error event as an HTTP error of the status that
\* its name stands for, its own code left out.
ClassifyGeminiSSEError(e) ==
    ClassifyShaped(Reply(GeminiStatus(e.native), e), GeminiErrorVerdict(e))

ClassifyInBand(route, e) ==
    CASE route = "responses" -> ClassifyResponsesError(e)
      [] route = "gemini"    -> ClassifyGeminiSSEError(e)
      [] OTHER               -> ClassifySSEError(e)

-----------------------------------------------------------------------------
(* The classifiers on every error they tell apart                          *)

ErrorTypes ==
    {"", "api_error", "server_error"} \cup DOMAIN PermanentStatus \cup DOMAIN ByType \cup Quota

ErrorCodes == {""} \cup DOMAIN ByCode \cup ShapeCodes \cup Quota

ErrorNatives ==
    {"", "CANCELLED", "VENDOR", "RESOURCE_EXHAUSTED"} \cup GeminiTransient \cup GeminiPermanent

ErrorsOf(route) ==
    IF route = "gemini"
    THEN [type: {"", "rate_limit_error"}, code: {""}, text: {"", "shape"},
          native: ErrorNatives, daily: BOOLEAN]
    ELSE [type: ErrorTypes, code: ErrorCodes, text: {"", "shape", "too_large", "disconnect"},
          native: {""}, daily: {FALSE}]

\* Errors that name their kind in a way both classifiers of the wire know.
\* The Anthropic wire's HTTP classifier gives way to a phrase of the message,
\* which the one for events does not look for behind a known type, and its one
\* known broken connection is known by its event alone.  Two of Google's names
\* stand for a status that is always retried, whatever they say.
NamedAlike(route, e) ==
    CASE route = "responses" -> ResponsesFaultOf(e) # "unknown"
      [] route = "gemini" ->
            /\ e.native \in GeminiTransient \cup GeminiPermanent \cup {"RESOURCE_EXHAUSTED"}
            /\ e.native \notin {"ALREADY_EXISTS", "UNIMPLEMENTED"}
      [] OTHER ->
            /\ ~ShapePhrase(e) /\ e.text # "disconnect"
            /\ e.type \in DOMAIN PermanentStatus
                  \cup {"overloaded_error", "rate_limit_error", "timeout_error"}

\* An error has the verdict of its event when it comes as an HTTP error of the
\* same status, without hints, and a transient one has it even when a gateway
\* sends it as a bad request.
ReadAlike(route, e) ==
    LET event == ClassifyInBand(route, e)
        http(status) == ClassifyHTTP(route, Reply(status, e))
    IN  /\ http(event.status).transient = event.transient
        /\ event.transient => http(400).transient

=============================================================================
