----------------------- MODULE StreamCaptureRefinement -----------------------
(***************************************************************************)
(* The engine with its reader, channel, timers and spool implements the    *)
(* promise of TransactionalStream: the reader and the timers only decide   *)
(* when its steps happen.                                                  *)
(***************************************************************************)
EXTENDS StreamCapture

Phase ==
    IF pc = "returned" THEN "ended" ELSE IF committed THEN "live" ELSE "buffering"

Stream == INSTANCE TransactionalStream WITH
            phase <- Phase, sent <- out, verdict <- result

\* Every behaviour of the engine is one of the promised ones: the client's
\* frames, the commit and the verdict change only as the wire's decisions on
\* the event at hand allow.
ImplementsStream == Stream!Spec

=============================================================================
