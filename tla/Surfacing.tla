------------------------------ MODULE Surfacing ------------------------------
(***************************************************************************)
(* What a client is shown of a failure: surface, surfaceFor and            *)
(* retrySurfaceFor in classify.go.  Whether a retry is offered goes out as *)
(* the X-Should-Retry header, but only the Anthropic SDK reads it; Codex   *)
(* and the Gemini clients decide by the status.                            *)
(*                                                                         *)
(* A route is "claude" (Messages, a Claude model), "messages" (any other   *)
(* model), "responses" or "gemini": the transactional ones.                *)
(***************************************************************************)
EXTENDS FallbackPolicy

\* Every retryable failure looks the same; another keeps its identity.
Surface(f) ==
    IF f.transient THEN [status |-> 503, type |-> "api_error"]
    ELSE [status |-> f.status, type |-> f.type]

\* Codex takes only 400 and 429 for final.
SurfaceFor(route, f) ==
    LET s == Surface(f)
    IN  IF route = "responses" /\ ~f.transient /\ s.status \notin {400, 429}
        THEN [s EXCEPT !.status = 400] ELSE s

\* Seeded fault: a failure that is not offered for a retry keeps its mask.
RetrySurfaceMasked(route, f, canRetry) == SurfaceFor(route, f)

\* A status these clients would retry must not go out without an offer.
RetrySurfaceFor(route, f, canRetry) ==
    IF canRetry \/ route \notin {"responses", "gemini"} THEN SurfaceFor(route, f)
    ELSE LET final == [f EXCEPT !.transient = FALSE]
             retried == f.transient \/ f.status \in {408, 429} \/ f.status >= 500
         IN  SurfaceFor(route, IF route = "gemini" /\ retried
                               THEN [final EXCEPT !.status = 400] ELSE final)

\* The clients' own rule, as the comments of classify.go describe it.
RetriedByStatus(route, status) ==
    IF route = "responses" THEN status \notin {400, 429}
    ELSE status \in {408, 429} \/ status >= 500

=============================================================================
