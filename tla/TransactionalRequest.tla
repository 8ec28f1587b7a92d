------------------------- MODULE TransactionalRequest -------------------------
(***************************************************************************)
(* The request loop with a stream for each attempt that gets one: handle   *)
(* of main.go around captureSSECore, with TransactionalStream for what the *)
(* engine promises.  All attempts write to the one client; the loop knows  *)
(* of that only what the verdict says, and keeps the spool of a refusal    *)
(* for a later answer.                                                     *)
(***************************************************************************)
EXTENDS RequestLoop

CONSTANTS
    WiresOf(_),           \* wireFor: what the wire of a route may start as
    EventsOf(_),          \* the events of a route's streams
    MaxEvents,            \* bound on the events of a stream
    Buffered(_, _), Live(_, _), ReplayBuffered(_, _), ReplayPrefix(_, _),
    CompleteOnEOF(_), Forwardable(_)    \* the operations of WireModel

VARIABLES
    phase, wire, seen, verdict,   \* the attempt's stream; phase "none": no stream
    frames,                       \* what the current attempt sent the client
    earlier,                      \* history: what the ones before it did
    kept                          \* the stream of the held refusal

stream     == <<phase, wire, seen, verdict>>
streamVars == <<stream, frames, earlier, kept>>

S == INSTANCE TransactionalStream WITH
        Event <- {}, WireInits <- {}, sent <- frames

NoVerdict == [wrote |-> FALSE, fail |-> S!NoFail]

RequestInit ==
    /\ Init
    /\ phase = "none" /\ wire = "none" /\ seen = <<>> /\ verdict = NoVerdict
    /\ frames = <<>> /\ earlier = <<>>
    /\ kept = [wire |-> "none", seen |-> <<>>]

-----------------------------------------------------------------------------
(* The streams of the attempts                                             *)

\* A 2xx event stream: captureSSE gets a new wire and the request's writer.
StreamStarts ==
    /\ pc = "inflight" /\ phase = "none"
    /\ wire' \in WiresOf(request.route)
    /\ phase' = "buffering"
    /\ UNCHANGED <<vars, seen, verdict, frames, earlier, kept>>

\* The engine blames the context only if that has ended.
StreamStep ==
    /\ pc = "inflight" /\ phase \in {"buffering", "live"}
    /\ \/ \E ev \in EventsOf(request.route) :
            S!Buffer(ev) \/ S!Answer(ev) \/ S!Reject(ev) \/ S!Forward(ev) \/ S!BreakAt(ev)
       \/ S!Commit \/ S!AnswerAtEOF \/ S!Break
    /\ verdict'.fail = S!ClientGone => ctx = "canceled"
    /\ verdict'.fail = S!Deadline   => ctx = "deadline"
    /\ UNCHANGED <<vars, earlier, kept>>

\* The engine's failures, as the loop sees them.
FaultOf(fail) ==
    CASE fail = S!UpstreamIdle     -> Idle
      [] fail = S!ClientGone       -> ClientGone
      [] fail = S!Deadline         -> DeadlineFault
      [] fail = S!ResponseTooLarge -> TooLarge
      [] fail = S!SpoolError       -> SpoolFault
      [] OTHER                     -> Retryable(Fault(fail.code, 502, "api_error"))

\* What handle takes them for: an in-band error is classified by its event.
StreamFaults ==
    IF verdict.fail \in {S!InBandTransient, S!InBandTerminal}
    THEN {f \in {ClassifyInBand(request.route, e) : e \in InBandErrors} :
             f.transient = verdict.fail.transient}
    ELSE {FaultOf(verdict.fail)}

\* What the client gets of a stream that was committed.
KindOf(fail) ==
    IF fail = S!NoFail THEN "ok" ELSE IF fail.delivered THEN "delivered" ELSE "drop"

\* The next attempt begins without one.
ForgetStream ==
    phase' = "none" /\ wire' = "none" /\ seen' = <<>> /\ verdict' = NoVerdict

\* wrote is TRUE: the stream was the answer, whole or not.
StreamDelivered ==
    /\ pc = "inflight" /\ phase = "ended" /\ verdict.wrote
    /\ StreamAnswers /\ response'.kind = KindOf(verdict.fail)
    /\ UNCHANGED streamVars

\* A complete refusal comes with its spool, which only the first one keeps.
StreamHeld ==
    /\ pc = "inflight" /\ phase = "ended"
    /\ ~verdict.wrote /\ verdict.fail = S!RefusalFallback
    /\ StreamRefuses
    /\ kept' = IF FallbackActive THEN kept ELSE [wire |-> wire, seen |-> seen]
    /\ ForgetStream /\ UNCHANGED <<frames, earlier>>

\* Seeded fault: a stream that was cut off after its head is retried as well.
StreamUnseenOrDropped ==
    /\ pc = "inflight" /\ phase = "ended"
    /\ verdict.fail # S!NoFail /\ ~verdict.fail.delivered
    /\ verdict.fail # S!RefusalFallback
    /\ StreamFails /\ last' \in StreamFaults
    /\ ForgetStream /\ UNCHANGED <<frames, earlier, kept>>

\* Nothing was sent: the failure is the loop's to handle.
StreamUnseen ==
    /\ pc = "inflight" /\ phase = "ended"
    /\ ~verdict.wrote /\ verdict.fail # S!RefusalFallback
    /\ StreamFails /\ last' \in StreamFaults
    /\ ForgetStream /\ UNCHANGED <<frames, earlier, kept>>

\* The next attempt writes to the same client.
NextAttempt ==
    /\ IssueAttempt
    /\ earlier' = earlier \o frames /\ frames' = <<>>
    /\ UNCHANGED <<stream, kept>>

\* An attempt that ends without a stream.
WithoutStream ==
    /\ phase = "none"
    /\ TransportFails \/ HTTPError \/ NonSSEAnswer \/ NonSSEFails
    /\ UNCHANGED streamVars

\* deliverHeldRefusal replays the spool that was kept.
KeptDelivered ==
    /\ DeliverHeldRefusal
    /\ \E r \in S!Replays(ReplayBuffered(kept.wire, kept.seen)) :
         /\ frames' = frames \o r.out
         /\ response'.kind = IF r.fail = S!NoFail THEN "held" ELSE "drop"
    /\ UNCHANGED <<stream, earlier, kept>>

\* The rest of handle does not touch a stream.
Elsewhere ==
    /\ \/ Tick \/ ClientLeaves \/ AcceptBody \/ RejectBody \/ IssueTooLate
       \/ LocalRetry \/ FastRetry \/ SwapToFallback \/ GiveUp \/ WaitEnds
       \/ WaitInterrupted \/ ClassifyEnd \/ DeliverHeldSafeguard
       \/ SurfaceFailure \/ Done
    /\ UNCHANGED streamVars

RequestNext ==
    \/ NextAttempt \/ WithoutStream
    \/ StreamStarts \/ StreamStep \/ StreamDelivered \/ StreamHeld \/ StreamUnseen
    \/ KeptDelivered \/ Elsewhere

RequestSpec == RequestInit /\ [][RequestNext]_<<vars, streamVars>>

-----------------------------------------------------------------------------

\* The client gets frames of one attempt, of the one that is answered with or of
\* the refusal that was kept, and what the loop takes for the answer is what
\* the stream says it delivered.
OneAttemptAnswers ==
    /\ earlier = <<>>
    /\ frames # <<>> =>
         pc = "inflight" \/ response.kind \in {"ok", "delivered", "drop", "held"}
    /\ pc = "done" /\ phase # "none" =>
         /\ phase = "ended" /\ verdict.wrote
         /\ response.kind = KindOf(verdict.fail) /\ response.attempt = Attempt

=============================================================================
