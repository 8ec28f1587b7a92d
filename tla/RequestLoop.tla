----------------------------- MODULE RequestLoop -----------------------------
(***************************************************************************)
(* One transactional request: the loop of handle in main.go that issues    *)
(* upstream attempts, retries the original model locally, walks the        *)
(* refusal-fallback candidates and answers the client exactly once.        *)
(*                                                                         *)
(* An attempt is one step from its start to the verdict of the component   *)
(* that read its response: the transport, the error classifier, the        *)
(* non-SSE buffer or the stream engine (StreamCapture, whose contract      *)
(* [wrote, fail] is the shape of the verdicts here).  Time is a clock in   *)
(* ticks; everything that compares times in the code compares ticks here.  *)
(***************************************************************************)
EXTENDS Naturals, Sequences, FiniteSets, Classification

CONSTANTS
    FirstModel,           \* the model of the request
    Fallbacks,            \* claudeRefusalFallbacks, in order
    TxLocalRetries,       \* local retries of the original model
    SDKRetryCap,          \* client retries after which none is offered
    Windows,              \* the buffering windows of the wires; 0: none
    MaxRequestDur,        \* the request deadline
    Replies,              \* non-2xx responses of the upstream
    InBandErrors,         \* error events in its streams
    EngineFailures        \* what else ends a stream uncommitted

CONSTANTS                 \* durations, in ticks
    Second,               \* one second
    FastWait,             \* the 250ms of the legacy fast retry
    BackoffCap            \* localBackoffCap

ASSUME LoopAssumption ==
    /\ Fallbacks \in Seq(STRING)   \* loadClaudeRefusalFallbacks: none twice
    /\ \A i, j \in DOMAIN Fallbacks : Fallbacks[i] = Fallbacks[j] => i = j
    /\ TxLocalRetries \in Nat /\ SDKRetryCap \in Nat
    /\ Windows \subseteq Nat /\ MaxRequestDur \in Nat \ {0}
    /\ Second \in Nat \ {0} /\ FastWait \in Nat \ {0} /\ BackoffCap \in Nat
    /\ FastWait < Second
    /\ \A reply \in Replies : IsReply(reply)
    /\ \A f \in EngineFailures : IsFault(f)

VARIABLES
    now,            \* time since the request started
    ctx,            \* "alive", "canceled" or "deadline"
    clientGone,     \* the client closed its connection
    request,        \* [route, swappable, retryCount, window]: never changes
    pc,             \* "read", "issue", "inflight", "decide", "waiting",
                    \* "finish", "surface" or "done"
    branch,         \* which kind of failure is being decided
    started,        \* when the current attempt was issued
    wake, waitKind, \* when the current wait ends and what it is for
    last,           \* the failure to surface
    proxyRetries, legacyFastUsed,
    model,          \* the model in the body
    fallbackIndex,  \* how many entries of Fallbacks are used up
    heldRefusal,    \* attempt whose refusal is held; 0: none
    heldSafeguard,  \* the safeguard error that is held and its attempt
    spools,         \* attempts whose response is still in a spool
    sent,           \* history: the model of every attempt the upstream saw
    attempts,       \* iterations of the loop
    response        \* what the client was answered, and which status and
                    \* error type it saw: [kind, attempt, fault, shown]

vars == <<now, ctx, clientGone, request, pc, branch, started, wake, waitKind,
          last, proxyRetries, legacyFastUsed, model, fallbackIndex,
          heldRefusal, heldSafeguard, spools, sent, attempts, response>>

clock == <<now, ctx, clientGone>>
held  == <<heldRefusal, heldSafeguard, spools>>
chain == <<model, fallbackIndex>>
retry == <<proxyRetries, legacyFastUsed>>

-----------------------------------------------------------------------------
(* Helpers of handle                                                       *)

\* The status and error type of an answer that is not a failure.
Success == [status |-> 200, type |-> ""]

NoResponse == [kind |-> "none", attempt |-> 0, fault |-> NoFault, shown |-> Success]

\* Only the body of a Claude request is ever rewritten (swapModel).
Requests ==
    {r \in [route: {"claude", "messages", "responses", "gemini"},
            swappable: BOOLEAN, retryCount: 0 .. SDKRetryCap, window: Windows] :
        r.swappable \/ r.route = "claude"}

Init ==
    /\ now = 0 /\ ctx = "alive" /\ clientGone = FALSE
    /\ request \in Requests
    /\ pc = "read" /\ branch = "none"
    /\ started = 0 /\ wake = 0 /\ waitKind = "none"
    /\ last = NoFault
    /\ proxyRetries = 0 /\ legacyFastUsed = FALSE
    /\ model = FirstModel /\ fallbackIndex = 0
    /\ heldRefusal = 0 /\ spools = {}
    /\ heldSafeguard = [attempt |-> 0, fault |-> NoFault]
    /\ sent = <<>> /\ attempts = 0
    /\ response = NoResponse

\* Seeded fault: the request's own model is a candidate like the others.
CandidatesWithFirst(from) == from + 1 .. Len(Fallbacks)

\* The unused entries of Fallbacks, without the request's own model: the first
\* of them is nextFallback.
Candidates(from) ==
    {i \in from + 1 .. Len(Fallbacks) : Fallbacks[i] # FirstModel}

NextFallback(from) == CHOOSE i \in Candidates(from) : \A j \in Candidates(from) : i <= j

InterceptRefusal == request.route = "claude" /\ Candidates(0) # {}

FallbackActive == heldRefusal # 0 \/ heldSafeguard.attempt # 0

BudgetLeft == request.retryCount < SDKRetryCap

WindowOver == request.window # 0 /\ now >= request.window

\* Seeded fault: the wait is measured against the request deadline only.
CanWaitPastWindow(wait) ==
    /\ ctx = "alive"
    /\ wait = 0 \/ now + Second + wait < MaxRequestDur

\* canWaitForLocalRetry keeps a second of the request for the retry itself.
CanWait(wait) ==
    /\ ctx = "alive"
    /\ wait = 0 \/ now + Second + wait < MaxRequestDur
    /\ request.window # 0 => now + wait < request.window

\* localRetryDelay: the upstream's Retry-After and a capped doubling.
Smaller(a, b) == IF a < b THEN a ELSE b

LocalRetryDelay(seconds, retries) ==
    seconds * Second + Smaller(BackoffCap, Second * 2 ^ retries)

\* classifyTransport, for an error of the transport or of a body read
Classified(err) ==
    IF ctx = "deadline" \/ err = "deadline" THEN DeadlineFault
    ELSE IF ctx = "canceled" THEN ClientGone
    ELSE TransportFault

\* What a failure looks like depends on the route and the offer of a retry.
Answered(kind, attempt, fault) ==
    [kind |-> kind, attempt |-> attempt, fault |-> fault,
     shown |-> IF kind \in {"retry", "fail"}
               THEN RetrySurfaceFor(request.route, fault, kind = "retry") ELSE Success]

\* Seeded fault: the held refusal is not discarded on every return.
RespondHolding(kind, attempt, fault) ==
    /\ pc' = "done"
    /\ response' = Answered(kind, attempt, fault)
    /\ UNCHANGED spools

\* The one answer; what is still held is discarded when handle returns.
Respond(kind, attempt, fault) ==
    /\ pc' = "done"
    /\ response' = Answered(kind, attempt, fault)
    /\ spools' = spools \ {heldRefusal}

Wait(kind, duration) ==
    /\ pc' = "waiting" /\ waitKind' = kind /\ wake' = now + duration

-----------------------------------------------------------------------------
(* Time, the client and the upload                                         *)

Running == pc # "done"

\* Seeded fault: the request has no deadline of its own.
TickUnlimited ==
    /\ Running /\ now < MaxRequestDur
    /\ now' = now + 1
    /\ UNCHANGED <<ctx, clientGone, request, pc, branch, started, wake, waitKind,
                   last, retry, chain, held, sent, attempts, response>>

\* The request deadline ends the context unless the client did so first.
Tick ==
    /\ Running /\ now < MaxRequestDur
    /\ now' = now + 1
    /\ ctx' = IF now' = MaxRequestDur /\ ctx = "alive" THEN "deadline" ELSE ctx
    /\ UNCHANGED <<clientGone, request, pc, branch, started, wake, waitKind,
                   last, retry, chain, held, sent, attempts, response>>

ClientLeaves ==
    /\ Running /\ ~clientGone
    /\ clientGone' = TRUE
    /\ ctx' = IF ctx = "alive" THEN "canceled" ELSE ctx
    /\ UNCHANGED <<now, request, pc, branch, started, wake, waitKind, last,
                   retry, chain, held, sent, attempts, response>>

AcceptBody ==
    /\ pc = "read" /\ ctx = "alive"
    /\ pc' = "issue"
    /\ UNCHANGED <<clock, request, branch, started, wake, waitKind, last, retry,
                   chain, held, sent, attempts, response>>

\* The body is too large, or the upload failed or outlived the read deadline.
RejectBody ==
    /\ pc = "read"
    /\ Respond("rejected", 0, NoFault)
    /\ UNCHANGED <<clock, request, branch, started, wake, waitKind, last, retry,
                   chain, heldRefusal, heldSafeguard, sent, attempts>>

-----------------------------------------------------------------------------
(* One attempt                                                             *)

\* roundTripBefore: past the window or the request the attempt fails before
\* anything is sent, with the cause of whichever came first.
IssueAttempt ==
    /\ pc = "issue"
    /\ ctx = "alive" /\ ~WindowOver
    /\ pc' = "inflight"
    /\ started' = now
    /\ attempts' = attempts + 1
    /\ sent' = Append(sent, model)
    /\ UNCHANGED <<clock, request, branch, wake, waitKind, last, retry, chain,
                   held, response>>

IssueTooLate ==
    /\ pc = "issue"
    /\ \/ WindowOver /\ last' = Classified("deadline")
       \/ ctx # "alive" /\ last' = Classified("ended")
    /\ pc' = "decide" /\ branch' = "transport"
    /\ started' = now
    /\ attempts' = attempts + 1
    /\ UNCHANGED <<clock, request, wake, waitKind, retry, chain, held, sent, response>>

Attempt == Len(sent)

\* No response: a connection fault, the context's end, or a deadline, which may
\* be the window's or one of the library's own (dialling, response headers).
TransportFails ==
    /\ pc = "inflight"
    /\ pc' = "decide" /\ branch' = "transport"
    /\ \E err \in {"fault", "deadline"} : last' = Classified(err)
    /\ UNCHANGED <<clock, request, started, wake, waitKind, retry, chain, held,
                   sent, attempts, response>>

\* classifyUpstreamHTTPError: a non-2xx response whose body was read, or broke
\* or stalled while read; either keeps the status of the reply.  In a chain a
\* failure that stops it is final, if the body was read.
HTTPVerdicts ==
    LET read(reply) == OfReply(ClassifyHTTP(request.route, reply), reply.status)
        broke(reply, err) ==
            OfReply(ClassifyBroken(request.route, reply, ctx = "alive", Classified(err)),
                    reply.status)
    IN  {IF FallbackActive THEN WithinFallback(read(reply)) ELSE read(reply) :
            reply \in Replies}
        \cup {broke(reply, err) : reply \in Replies, err \in {"deadline", "fault"}}

HTTPError ==
    /\ pc = "inflight"
    /\ \E f \in HTTPVerdicts :
         /\ last' = f
         /\ IF InterceptRefusal /\ IsSafeguard(f)
            THEN /\ branch' = "swap"
                 /\ heldSafeguard' = IF FallbackActive THEN heldSafeguard
                                    ELSE [attempt |-> Attempt, fault |-> f]
            ELSE branch' = "http" /\ UNCHANGED heldSafeguard
    /\ pc' = "decide"
    /\ UNCHANGED <<clock, request, started, wake, waitKind, retry, chain,
                   heldRefusal, spools, sent, attempts, response>>

\* A 2xx body that is not a stream: complete, cut off, or not fully written
\* to the client after its head.
NonSSEAnswer ==
    /\ pc = "inflight"
    /\ \E kind \in {"ok", "drop"} : Respond(kind, Attempt, NoFault)
    /\ UNCHANGED <<clock, request, branch, started, wake, waitKind, last, retry,
                   chain, heldRefusal, heldSafeguard, sent, attempts>>

\* Such a body broke, stalled, or did not fit the buffer (bufferNonSSE).
NonSSEFails ==
    /\ pc = "inflight"
    /\ pc' = "decide" /\ branch' = "stream"
    /\ \E f \in {TooLarge, SpoolFault, Classified("deadline"), Classified("fault")}
                 \cup IF ctx = "alive" THEN {Idle} ELSE {} :
         last' = f
    /\ UNCHANGED <<clock, request, started, wake, waitKind, retry, chain, held,
                   sent, attempts, response>>

StreamVerdicts ==
    {ClassifyInBand(request.route, e) : e \in InBandErrors} \cup EngineFailures
        \cup {Classified("deadline"), Classified("fault")}

\* A stream that failed with wrote = false.
StreamFails ==
    /\ pc = "inflight"
    /\ \E f \in StreamVerdicts :
         /\ last' = f
         /\ IF InterceptRefusal /\ IsSafeguard(f)
            THEN /\ branch' = "swap"
                 /\ heldSafeguard' = IF FallbackActive THEN heldSafeguard
                                    ELSE [attempt |-> Attempt, fault |-> f]
            ELSE branch' = "stream" /\ UNCHANGED heldSafeguard
    /\ pc' = "decide"
    /\ UNCHANGED <<clock, request, started, wake, waitKind, retry, chain,
                   heldRefusal, spools, sent, attempts, response>>

\* A complete refusal: the first one is kept, a candidate's is discarded.
StreamRefuses ==
    /\ pc = "inflight" /\ InterceptRefusal
    /\ last' = RefusalFault
    /\ IF FallbackActive THEN UNCHANGED <<heldRefusal, spools>>
       ELSE heldRefusal' = Attempt /\ spools' = spools \cup {Attempt}
    /\ pc' = "decide" /\ branch' = "swap"
    /\ UNCHANGED <<clock, request, started, wake, waitKind, retry, chain,
                   heldSafeguard, sent, attempts, response>>

\* The capture sent the head: a complete response, an error frame of the
\* upstream's own, or a cut-off stream whose connection is aborted.
StreamAnswers ==
    /\ pc = "inflight"
    /\ \E kind \in {"ok", "delivered", "drop"} : Respond(kind, Attempt, NoFault)
    /\ UNCHANGED <<clock, request, branch, started, wake, waitKind, last, retry,
                   chain, heldRefusal, heldSafeguard, sent, attempts>>

-----------------------------------------------------------------------------
(* What follows a failed attempt                                           *)

\* swapToFallback, up to the body rewrite
CanSwap ==
    ctx = "alive" /\ ~WindowOver /\ Candidates(fallbackIndex) # {} /\ request.swappable

FastRetryDue ==
    /\ ~legacyFastUsed /\ last.fastRetry /\ BudgetLeft
    /\ now - started < 3 * Second /\ CanWait(FastWait)
    /\ CASE branch = "transport" -> FallbackActive \/ TxLocalRetries = 0
         [] branch = "http" ->
              ~FallbackActive /\ TxLocalRetries = 0 /\ last.retryAfter = 0
         [] OTHER -> FALSE

\* Seeded fault: one local retry too many.
LocalRetryDueOnceMore ==
    /\ branch # "swap"
    /\ ~FallbackActive /\ proxyRetries <= TxLocalRetries
    /\ last.transient /\ BudgetLeft
    /\ CanWait(LocalRetryDelay(last.retryAfter, proxyRetries))

LocalRetryDue ==
    /\ branch # "swap"
    /\ ~FallbackActive /\ proxyRetries < TxLocalRetries
    /\ last.transient /\ BudgetLeft
    /\ CanWait(LocalRetryDelay(last.retryAfter, proxyRetries))

\* A refusal always tries the next candidate, another failure only if the
\* policy says so.
SwapDue ==
    /\ CanSwap
    /\ \/ branch = "swap"
       \/ FallbackActive /\ FallbackAction(last) = "next" /\ ~FastRetryDue

LocalRetry ==
    /\ pc = "decide" /\ LocalRetryDue
    /\ Wait("local", LocalRetryDelay(last.retryAfter, proxyRetries))
    /\ UNCHANGED <<clock, request, branch, started, last, retry, chain, held,
                   sent, attempts, response>>

FastRetry ==
    /\ pc = "decide" /\ ~LocalRetryDue /\ FastRetryDue
    /\ Wait("fast", FastWait)
    /\ UNCHANGED <<clock, request, branch, started, last, retry, chain, held,
                   sent, attempts, response>>

SwapToFallback ==
    /\ pc = "decide" /\ SwapDue
    /\ LET i == NextFallback(fallbackIndex)
       IN  model' = Fallbacks[i] /\ fallbackIndex' = i
    /\ pc' = "issue"
    /\ UNCHANGED <<clock, request, branch, started, wake, waitKind, last, retry,
                   held, sent, attempts, response>>

GiveUp ==
    /\ pc = "decide"
    /\ ~LocalRetryDue /\ ~FastRetryDue /\ ~SwapDue
    /\ pc' = "finish"
    /\ UNCHANGED <<clock, request, branch, started, wake, waitKind, last, retry,
                   chain, held, sent, attempts, response>>

\* waitToRetry: the timer, or the context with its own verdict.
WaitEnds ==
    /\ pc = "waiting" /\ now >= wake
    /\ pc' = "issue"
    /\ proxyRetries' = proxyRetries + 1
    /\ legacyFastUsed' = (legacyFastUsed \/ waitKind = "fast")
    /\ UNCHANGED <<clock, request, branch, started, wake, waitKind, last, chain,
                   held, sent, attempts, response>>

WaitInterrupted ==
    /\ pc = "waiting" /\ ctx # "alive"
    /\ last' = Classified("none")
    /\ pc' = "finish"
    /\ UNCHANGED <<clock, request, branch, started, wake, waitKind, retry, chain,
                   held, sent, attempts, response>>

-----------------------------------------------------------------------------
(* After the loop                                                          *)

\* if ctx.Err() != nil { last = classifyTransport(...) }
ClassifyEnd ==
    /\ pc = "finish"
    /\ last' = IF ctx = "alive" THEN last ELSE Classified("none")
    /\ pc' = "surface"
    /\ UNCHANGED <<clock, request, branch, started, wake, waitKind, retry, chain,
                   held, sent, attempts, response>>

\* Seeded fault: only a refusal that is held whole is returned to.
OriginalDueIfStream ==
    heldRefusal # 0 /\ ~clientGone /\ FallbackAction(last) # "stop"

\* The chain failed for a candidate's reason: the original answer is due, if
\* there is still a client.
OriginalDue == FallbackActive /\ ~clientGone /\ FallbackAction(last) # "stop"

\* deliverHeldRefusal, whose replay may break off
DeliverHeldRefusal ==
    /\ pc = "surface" /\ OriginalDue /\ heldRefusal # 0
    /\ \E kind \in {"held", "drop"} : Respond(kind, heldRefusal, NoFault)
    /\ UNCHANGED <<clock, request, branch, started, wake, waitKind, last, retry,
                   chain, heldRefusal, heldSafeguard, sent, attempts>>

DeliverHeldSafeguard ==
    /\ pc = "surface" /\ OriginalDue /\ heldRefusal = 0
    /\ Respond("fail", heldSafeguard.attempt, heldSafeguard.fault)
    /\ last' = heldSafeguard.fault
    /\ UNCHANGED <<clock, request, branch, started, wake, waitKind, retry, chain,
                   heldRefusal, heldSafeguard, sent, attempts>>

\* A retry is offered with a 503, everything else is final.
SurfaceFailure ==
    /\ pc = "surface" /\ ~OriginalDue
    /\ Respond(IF ~FallbackActive /\ last.transient /\ BudgetLeft
               THEN "retry" ELSE "fail", Attempt, last)
    /\ UNCHANGED <<clock, request, branch, started, wake, waitKind, last, retry,
                   chain, heldRefusal, heldSafeguard, sent, attempts>>

Done == pc = "done" /\ UNCHANGED vars

-----------------------------------------------------------------------------

Outcome ==
    \/ TransportFails \/ HTTPError \/ NonSSEAnswer \/ NonSSEFails
    \/ StreamFails \/ StreamRefuses \/ StreamAnswers

Handler ==
    \/ IssueAttempt \/ IssueTooLate \/ LocalRetry \/ FastRetry \/ SwapToFallback
    \/ GiveUp \/ WaitEnds \/ WaitInterrupted \/ ClassifyEnd
    \/ DeliverHeldRefusal \/ DeliverHeldSafeguard \/ SurfaceFailure

Next ==
    \/ Tick \/ ClientLeaves \/ AcceptBody \/ RejectBody
    \/ Outcome \/ Handler \/ Done

Spec == Init /\ [][Next]_vars

\* Time passes and the handler runs; an upload or an attempt is only known to
\* end once the context has.
Fairness ==
    /\ WF_vars(Tick) /\ WF_vars(Handler)
    /\ WF_vars(RejectBody /\ ctx # "alive") /\ WF_vars(Outcome /\ ctx # "alive")

FairSpec == Spec /\ Fairness

-----------------------------------------------------------------------------
(* Properties                                                              *)

Repeats == {k \in 2 .. Len(sent) : sent[k] = sent[k - 1]}

\* Attempts are bounded: the original model gets its local retries (or the one
\* fast retry where there are none), all candidates together at most the one
\* fast retry, and nobody gets any once the client's own budget is spent.
RetriesBounded ==
    LET original == {k \in Repeats : sent[k] = FirstModel}
    IN  /\ Cardinality(original) <= IF TxLocalRetries = 0 THEN 1 ELSE TxLocalRetries
        /\ Cardinality(Repeats \ original) <= 1
        /\ TxLocalRetries = 0 => Cardinality(Repeats) <= 1
        /\ ~BudgetLeft => Repeats = {}

Held == IF heldRefusal # 0 THEN heldRefusal ELSE heldSafeguard.attempt

\* Another model is asked only after the original one refused, and it is that
\* refusal that stays held: every attempt up to it was the original model's
\* and every later one a candidate's ("candidate refusals never replace it").
HeldIsOriginal ==
    /\ heldRefusal = 0 \/ heldSafeguard.attempt = 0
    /\ \A k \in DOMAIN sent : sent[k] # FirstModel <=> Held # 0 /\ k > Held

\* A failed chain is never offered to the client for another round, and what
\* it shows of a candidate is only a complete answer or an error of the
\* account or the request; otherwise it is the original refusal.  The sentinel
\* for a held refusal is internal: "it never reaches the client".
ChainNeverRestarts ==
    pc = "done" /\ Held # 0 =>
        /\ response.kind # "retry"
        /\ response.kind = "held" => response.attempt = Held
        /\ response.kind = "fail" /\ ~clientGone =>
             /\ response.fault = heldSafeguard.fault \/ FallbackAction(response.fault) = "stop"
             /\ response.fault # RefusalFault

\* A candidate that is refused for the account's sake ends the chain, even if
\* the body of that reply never came whole ("A changed model can fix
\* availability, not bad credentials"): no other model is asked, the attempt is
\* not repeated, and the client gets this error and not the original answer,
\* unless it left or the time ran out.
AccountErrorEndsChain ==
    [][/\ FallbackActive /\ branch = "http" /\ pc \in {"decide", "finish", "surface"}
       /\ last.origStatus \in {401, 402, 403}
       => /\ pc' \in {"decide", "finish", "surface", "done"}
          /\ pc' = "done" => response'.kind = "fail" /\ response'.fault = last]_vars

\* The client retries exactly the failures that are offered for it: a Claude
\* client sees nothing but a plain 503 (an identity it knows would leave its
\* retry loop), and a client that goes by the status sees one it retries if
\* and only if the budget, the chain and the failure allowed the offer.
OfferIsHeeded ==
    response.kind \in {"retry", "fail"} =>
        /\ response.kind = "retry" =>
             response.shown = [status |-> 503, type |-> "api_error"]
        /\ request.route \in {"responses", "gemini"} =>
             (RetriedByStatus(request.route, response.shown.status)
                <=> response.kind = "retry")

\* A wait for a retry leaves time for it: it ends before the window does and
\* a second before the request deadline.
WaitFits ==
    pc = "waiting" =>
        /\ BackoffCap # 0 => wake + Second < MaxRequestDur
        /\ request.window # 0 => wake < request.window

\* No response is held in a spool but the original refusal, and none once
\* handle returned.
SpoolsReleased ==
    /\ spools \subseteq {heldRefusal}
    /\ pc = "done" => spools = {}

\* One error is not retried on one path and final on the other (responses.go:
\* "so one error cannot be retry on one path and terminal on the other"): an
\* error that names its kind has one verdict, whether it comes as an event of a
\* stream or as an HTTP error of its status, and a transient one has it even
\* when a gateway sends it as a bad request.
ErrorsReadAlike ==
    pc = "read" /\ now = 0 /\ ctx = "alive" =>
        \A e \in ErrorsOf(request.route) :
            NamedAlike(request.route, e) => ReadAlike(request.route, e)

\* The handler answers, or at least returns, whatever the upstream does.
HandlerReturns == <>(pc = "done")

=============================================================================
