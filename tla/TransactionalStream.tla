------------------------- MODULE TransactionalStream -------------------------
(***************************************************************************)
(* What the stream engine promises, without its goroutine, timers and      *)
(* files: the events of one upstream stream pass through the wire one by   *)
(* one; until the commit they are only remembered, afterwards each is      *)
(* forwarded; the stream ends once, by the wire's verdict or by a fault    *)
(* from outside, and the verdict says whether the client saw any of it.    *)
(*                                                                         *)
(* StreamCapture implements this specification (StreamCaptureRefinement).  *)
(***************************************************************************)
EXTENDS Naturals, Sequences, Failures, WireModel

CONSTANT MaxEvents   \* bound on the events of a stream

VARIABLES
    phase,    \* "buffering", "live" or "ended"
    wire,     \* state of the wire instance
    seen,     \* the upstream events so far
    sent,     \* the frames the client was sent
    verdict   \* [wrote, fail] of an ended stream

vars == <<phase, wire, seen, sent, verdict>>

\* Faults the wire has no part in.
Faults ==
    {UpstreamIdle, ClientGone, Deadline, TruncatedStream, StreamReadError,
     ResponseTooLarge, SpoolError}

Init ==
    /\ phase = "buffering" /\ wire \in WireInits
    /\ seen = <<>> /\ sent = <<>>
    /\ verdict = [wrote |-> FALSE, fail |-> NoFail]

Arrives(ev) ==
    Len(seen) < MaxEvents /\ seen' = Append(seen, ev)

End(wrote, fail) ==
    phase' = "ended" /\ verdict' = [wrote |-> wrote, fail |-> fail]

\* A valid event that does not complete the response is remembered.
Buffer(ev) ==
    LET v == Buffered(wire, ev) IN
    /\ phase = "buffering" /\ Arrives(ev)
    /\ v.fail = NoFail /\ ~v.done
    /\ wire' = v.wire
    /\ UNCHANGED <<phase, sent, verdict>>

\* The event that completes the response: the client gets all of it at once,
\* or an incomplete replay.
Answer(ev) ==
    LET v == Buffered(wire, ev) IN
    /\ phase = "buffering" /\ Arrives(ev)
    /\ v.fail = NoFail /\ v.done
    /\ wire' = v.wire
    /\ \E r \in Replays(ReplayBuffered(v.wire, Append(seen, ev))) :
         sent' = sent \o r.out /\ End(TRUE, r.fail)

\* An error, an invalid event or a refusal to hold, before the client saw
\* anything.
Reject(ev) ==
    LET v == Buffered(wire, ev) IN
    /\ phase = "buffering" /\ Arrives(ev)
    /\ v.fail # NoFail
    /\ wire' = v.wire
    /\ End(FALSE, v.fail)
    /\ UNCHANGED sent

\* The client gets what was remembered so far and the rest as it comes.
Commit ==
    /\ phase = "buffering"
    /\ \E r \in Replays(ReplayPrefix(wire, seen)) :
         /\ sent' = sent \o r.out
         /\ wire' = r.wire
         /\ IF r.fail = NoFail THEN phase' = "live" /\ UNCHANGED verdict
            ELSE End(TRUE, r.fail)
    /\ UNCHANGED seen

Forward(ev) ==
    LET v == Live(wire, ev) IN
    /\ phase = "live" /\ Arrives(ev)
    /\ wire' = v.wire
    /\ sent' = sent \o v.out
    /\ IF v.fail # NoFail \/ v.done THEN End(TRUE, v.fail)
       ELSE UNCHANGED <<phase, verdict>>

\* The upstream ended and the wire accepts that as the end of the response.
AnswerAtEOF ==
    /\ phase # "ended" /\ CompleteOnEOF(wire)
    /\ IF phase = "live" THEN End(TRUE, NoFail) /\ UNCHANGED sent
       ELSE \E r \in Replays(ReplayBuffered(wire, seen)) :
              sent' = sent \o r.out /\ End(TRUE, r.fail)
    /\ UNCHANGED <<wire, seen>>

\* A fault from outside, between two events or on the way into the buffer.
Break ==
    /\ phase # "ended"
    /\ \E f \in Faults : End(phase = "live", f)
    /\ UNCHANGED <<wire, seen, sent>>

BreakAt(ev) ==
    LET v == Buffered(wire, ev) IN
    /\ phase = "buffering" /\ Arrives(ev)
    /\ v.fail \in {NoFail, RefusalFallback}
    /\ wire' = v.wire
    /\ \E f \in {ResponseTooLarge, SpoolError} : End(FALSE, f)
    /\ UNCHANGED sent

Ended == phase = "ended" /\ UNCHANGED vars

Next ==
    \/ \E ev \in Event :
         Buffer(ev) \/ Answer(ev) \/ Reject(ev) \/ Forward(ev) \/ BreakAt(ev)
    \/ Commit \/ AnswerAtEOF \/ Break \/ Ended

Spec == Init /\ [][Next]_vars

=============================================================================
