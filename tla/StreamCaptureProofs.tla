------------------------- MODULE StreamCaptureProofs -------------------------
(***************************************************************************)
(* Invariants of the stream engine for every wire and all bounds, the      *)
(* proof that it implements TransactionalStream, and what the client of    *)
(* the engine gets on each of the wires: the invariants that WireProofs    *)
(* shows of the abstract stream, carried over to the engine.               *)
(***************************************************************************)
EXTENDS WireCaptures, SequenceTheorems, TLAPS

-----------------------------------------------------------------------------
(* Types                                                                   *)

Partials == {"none", "partial", "overflow"}

\* ControlOK with the results on their way to the loop, and with the heads that
\* a stream can really have.
TypeInv ==
    /\ ControlOK
    /\ chunk.partial \in Partials /\ ch.partial \in Partials
    /\ head # "implicit"
    /\ pc # "returned" => head = IF committed THEN "live" ELSE "none"

\* The initial state has them.
LEMMA TypeInit == Init => TypeInv
<1> SUFFICES ASSUME Init PROVE TypeInv
  OBVIOUS
<1> USE DEF Init
<1>1. ControlOK
  BY DEF ControlOK, NoChunk, ReadErrors
<1>2. chunk.partial \in Partials /\ ch.partial \in Partials
  BY DEF Partials, NoChunk
<1>3. head # "implicit"
  OBVIOUS
<1>4. pc # "returned" => head = IF committed THEN "live" ELSE "none"
  OBVIOUS
<1> QED
  BY <1>1, <1>2, <1>3, <1>4 DEF TypeInv

\* Each action keeps the types.
LEMMA TypeNext == TypeInv /\ [Next]_vars => TypeInv'
<1> SUFFICES ASSUME TypeInv, [Next]_vars PROVE TypeInv'
  OBVIOUS
<1> USE DEF TypeInv, ControlOK, Partials, ReadErrors
<1>1. CASE ReadBytes
  BY <1>1, BoundAssumption DEF ReadBytes, EventLists
<1>2. CASE ReadNothing
  BY <1>2 DEF ReadNothing, NoChunk
<1>3. CASE ReaderSends
  BY <1>3 DEF ReaderSends, NoChunk
<1>4. CASE ReaderStops
  BY <1>4 DEF ReaderStops, NoChunk
<1>5. CASE KeepTimerExpires
  BY <1>5 DEF KeepTimerExpires
<1>6. CASE IdleTimerExpires
  BY <1>6 DEF IdleTimerExpires
<1>7. CASE ClientLeaves
  BY <1>7 DEF ClientLeaves, ContextEnds
<1>8. CASE DeadlinePasses
  BY <1>8 DEF DeadlinePasses, ContextEnds
<1>9. CASE CallerClosesBody
  <2>1. bodyOpen' \in BOOLEAN
    BY <1>9 DEF CallerClosesBody
  <2> QED
    BY <1>9, <2>1 DEF CallerClosesBody
<1>10. CASE ReceiveChunk
  BY <1>10 DEF ReceiveChunk, NoChunk
<1>11. CASE BufferEvent
  BY <1>11 DEF BufferEvent, NextBuffered, ProcessFrame, timers
<1>12. CASE CompleteBuffered
  BY <1>12 DEF CompleteBuffered, NextBuffered, ProcessFrame, ReplayAndReturn,
     Return, Result, Discard, HeadAfter
<1>13. CASE HoldRefusal
  BY <1>13 DEF HoldRefusal, NextBuffered, ProcessFrame, Result
<1>14. CASE AbortBuffered
  BY <1>14 DEF AbortBuffered, NextBuffered, ProcessFrame, Return, Result,
     Discard
<1>15. CASE BufferFails
  BY <1>15 DEF BufferFails, NextBuffered, ProcessFrame, Return, Result, Discard
<1>16. CASE LiveEvent
  <2>1. head = "live" /\ head' = "live"
    BY <1>16 DEF LiveEvent, HeadAfterBytes
  <2>2. \/ \E f : Return(TRUE, f)
        \/ UNCHANGED <<pc, result, spool, spoolState, timers>>
    BY <1>16 DEF LiveEvent
  <2>3. CASE \E f : Return(TRUE, f)
    BY <1>16, <2>1, <2>3 DEF LiveEvent, ProcessFrame, Return, Result, Discard
  <2>4. CASE UNCHANGED <<pc, result, spool, spoolState, timers>>
    BY <1>16, <2>1, <2>4 DEF LiveEvent, ProcessFrame, timers
  <2> QED
    BY <2>2, <2>3, <2>4
<1>17. CASE ParserOverflows
  BY <1>17 DEF ParserOverflows, ChunkProcessed, ChunkFrame, Return, Result,
     Discard
<1>18. CASE CompleteAtEOF
  <2>1. \E f : Return(TRUE, f)
    BY <1>18 DEF CompleteAtEOF, ReplayAndReturn
  <2>2. head' \in {"live", "buffered"}
    BY <1>18 DEF CompleteAtEOF, ChunkProcessed, ReplayAndReturn, HeadAfter
  <2> QED
    BY <1>18, <2>1, <2>2 DEF CompleteAtEOF, ChunkFrame, Return, Result, Discard
<1>19. CASE ReadFails
  BY <1>19 DEF ReadFails, ChunkProcessed, ChunkFrame, Return, Result, Discard
<1>20. CASE CommitAfterChunk
  <2>1. head' = "live" /\ committed'
    BY <1>20 DEF CommitAfterChunk, CommitDue, ChunkProcessed, CommitLive,
       HeadAfter
  <2>2. \/ \E f : Return(TRUE, f)
        \/ /\ Discard /\ pc' = "select" /\ keepTimer' = keepTimer
           /\ UNCHANGED <<idleTimer, result>>
    BY <1>20 DEF CommitAfterChunk, CommitLive
  <2>3. CASE \E f : Return(TRUE, f)
    BY <1>20, <2>1, <2>3 DEF CommitAfterChunk, ChunkFrame, Return, Result,
       Discard
  <2>4. CASE /\ Discard /\ pc' = "select" /\ keepTimer' = keepTimer
             /\ UNCHANGED <<idleTimer, result>>
    BY <1>20, <2>1, <2>4 DEF CommitAfterChunk, ChunkFrame, Discard
  <2> QED
    BY <2>2, <2>3, <2>4
<1>21. CASE NextChunk
  BY <1>21 DEF NextChunk, ChunkProcessed, ChunkFrame, timers
<1>22. CASE KeepTickDisabled
  BY <1>22 DEF KeepTickDisabled, KeepTick, TickFrame
<1>23. CASE KeepTickGated
  BY <1>23 DEF KeepTickGated, KeepTick, TickFrame
<1>24. CASE KeepTickCommits
  <2>1. head' = "live" /\ committed'
    BY <1>24 DEF KeepTickCommits, KeepTick, CommitLive, HeadAfter
  <2>2. \/ \E f : Return(TRUE, f)
        \/ /\ Discard /\ pc' = "select" /\ keepTimer' = "armed"
           /\ UNCHANGED <<idleTimer, result>>
    BY <1>24 DEF KeepTickCommits, CommitLive
  <2>3. CASE \E f : Return(TRUE, f)
    BY <1>24, <2>1, <2>3 DEF KeepTickCommits, TickFrame, Return, Result,
       Discard
  <2>4. CASE /\ Discard /\ pc' = "select" /\ keepTimer' = "armed"
             /\ UNCHANGED <<idleTimer, result>>
    BY <1>24, <2>1, <2>4 DEF KeepTickCommits, TickFrame, Discard
  <2> QED
    BY <2>2, <2>3, <2>4
<1>25. CASE KeepTickLive
  BY <1>25 DEF KeepTickLive, KeepTick, TickFrame, HeadAfterBytes
<1>26. CASE IdleTick
  BY <1>26 DEF IdleTick, EndFrame, Return, Result, Discard
<1>27. CASE ContextDone
  BY <1>27 DEF ContextDone, EndFrame, Return, Result, Discard
<1>28. CASE Finished \/ UNCHANGED vars
  BY <1>28 DEF Finished, vars
<1> QED
  BY <1>1, <1>2, <1>3, <1>4, <1>5, <1>6, <1>7, <1>8, <1>9, <1>10, <1>11, <1>12,
     <1>13, <1>14, <1>15, <1>16, <1>17, <1>18, <1>19, <1>20, <1>21, <1>22,
     <1>23, <1>24, <1>25, <1>26, <1>27, <1>28
  DEF Next, Reader, Process, Select, Environment

\* The control variables keep to their values.
LEMMA TypeInvCorrect == Spec => []TypeInv
  BY TypeInit, TypeNext, PTL DEF Spec

-----------------------------------------------------------------------------
(* What a step can do: the cases of the proofs below                       *)

EngineFaults ==
    {UpstreamIdle, ClientGone, Deadline, TruncatedStream, StreamReadError,
     ResponseTooLarge, SpoolError}

\* The reader, a timer, the context or the caller moves.
Quiet ==
    UNCHANGED <<pc, wire, spool, spoolState, committed, graceElapsed, result,
                head, out, seen>>

\* The loop turns without an event: a chunk comes or is done, or the window's
\* timer finds nothing to commit.
Turn ==
    /\ pc # "returned"
    /\ \/ pc' = "process" /\ UNCHANGED graceElapsed
       \/ pc' = "select" /\ ~CommitDue /\ UNCHANGED graceElapsed
       \/ pc' = "select" /\ (committed \/ (ProgressGated /\ ~Forwardable(wire)))
    /\ UNCHANGED <<wire, spool, spoolState, committed, result, head, out, seen>>

\* A fault from outside ends the capture.
Fault ==
    /\ pc # "returned"
    /\ \E f \in EngineFaults : Return(committed, f)
    /\ UNCHANGED <<wire, committed, head, out, seen>>

\* The buffered prefix is committed; for a gated caller there is content in it.
CommitStep ==
    /\ pc # "returned" /\ ~committed
    /\ ProgressGated => Forwardable(wire)
    /\ \E timer : CommitLive(timer)
    /\ UNCHANGED seen

\* There is no other kind of step.
LEMMA StepKinds ==
  ASSUME TypeInv, [Next]_vars
  PROVE  \/ Quiet \/ Turn \/ Fault \/ CommitStep
         \/ BufferEvent \/ CompleteBuffered \/ HoldRefusal \/ AbortBuffered
         \/ BufferFails \/ LiveEvent \/ CompleteAtEOF
<1>1. CASE Reader
  BY <1>1 DEF Reader, ReadBytes, ReadNothing, ReaderSends, ReaderStops, Quiet
<1>2. CASE Environment
  BY <1>2 DEF Environment, KeepTimerExpires, IdleTimerExpires, ClientLeaves,
              DeadlinePasses, ContextEnds, CallerClosesBody, Quiet
<1>3. CASE KeepTickDisabled \/ Finished \/ UNCHANGED vars
  BY <1>3 DEF KeepTickDisabled, TickFrame, Finished, vars, Quiet
<1>4. CASE ReceiveChunk \/ NextChunk
  BY <1>4 DEF ReceiveChunk, NextChunk, ChunkProcessed, ChunkFrame, Turn
<1>5. CASE KeepTickGated \/ KeepTickLive
  BY <1>5 DEF KeepTickGated, KeepTickLive, KeepTick, TickFrame, HeadAfterBytes,
              TypeInv, Turn
<1>6. CASE ParserOverflows \/ ReadFails
  <2>1. pc # "returned" /\ UNCHANGED <<wire, committed, head, out, seen>>
    BY <1>6 DEF ParserOverflows, ReadFails, ChunkProcessed, ChunkFrame
  <2>2. \E f \in EngineFaults : Return(committed, f)
    BY <1>6 DEF ParserOverflows, ReadFails, ReadFailure, EngineFaults
  <2> QED
    BY <2>1, <2>2 DEF Fault
<1>7. CASE IdleTick \/ ContextDone
  <2>1. pc # "returned" /\ UNCHANGED <<wire, committed, head, out, seen>>
    BY <1>7 DEF IdleTick, ContextDone, EndFrame
  <2>2. \E f \in EngineFaults : Return(committed, f)
    BY <1>7 DEF IdleTick, ContextDone, EngineFaults
  <2> QED
    BY <2>1, <2>2 DEF Fault
<1>8. CASE CommitAfterChunk
  BY <1>8 DEF CommitAfterChunk, ChunkProcessed, CommitDue, ChunkFrame,
     CommitStep
<1>9. CASE KeepTickCommits
  BY <1>9 DEF KeepTickCommits, KeepTick, TickFrame, CommitStep
<1> QED
  BY <1>1, <1>2, <1>3, <1>4, <1>5, <1>6, <1>7, <1>8, <1>9
  DEF Next, Process, Select

-----------------------------------------------------------------------------
(* The contract with the handler                                           *)

\* No kind of step breaks the contract.
LEMMA ContractNext ==
  ASSUME TypeInv, TypeInv', ReturnContract, [Next]_vars
  PROVE  ReturnContract'
<1> USE DEF ReturnContract
<1>0. (pc # "returned" => head = IF committed THEN "live" ELSE "none")
      /\ committed \in BOOLEAN /\ head' # "implicit"
  BY DEF TypeInv, ControlOK
<1>1. CASE Quiet \/ Turn
  BY <1>1 DEF Quiet, Turn
<1>2. CASE Fault
  BY <1>0, <1>2 DEF Fault, Return, Result, EngineFaults, NoFail, Transient,
     Terminal, UpstreamIdle, ClientGone, Deadline, TruncatedStream,
     StreamReadError, ResponseTooLarge, SpoolError
<1>3. CASE CommitStep
  <2>1. head' = "live"
    BY <1>0, <1>3 DEF CommitStep, CommitLive, HeadAfter
  <2>2. pc' = "returned" => result'.wrote = TRUE
    BY <1>3 DEF CommitStep, CommitLive, Return, Result
  <2> QED
    BY <2>1, <2>2
<1>4. CASE BufferEvent
  BY <1>4 DEF BufferEvent, NextBuffered
<1>5. CASE CompleteBuffered \/ CompleteAtEOF
  <2>1. head' \in {"live", "buffered"}
    BY <1>0, <1>5 DEF CompleteBuffered, CompleteAtEOF, NextBuffered,
       ChunkProcessed, ReplayAndReturn, HeadAfter
  <2>2. pc' = "returned" => result'.wrote = TRUE
    BY <1>5 DEF CompleteBuffered, CompleteAtEOF, ReplayAndReturn, Return,
       Result
  <2> QED
    BY <2>1, <2>2
<1>6. CASE HoldRefusal \/ AbortBuffered \/ BufferFails
  <2>1. head' = "none" /\ out' = out /\ out = <<>>
    BY <1>0, <1>6 DEF HoldRefusal, AbortBuffered, BufferFails, NextBuffered
  <2>2. result'.wrote = FALSE /\ result'.fail # NoFail
    BY <1>6 DEF HoldRefusal, AbortBuffered, BufferFails, Return, Result,
       SpoolWrites, NoFail, Terminal, RefusalFallback
  <2> QED
    BY <2>1, <2>2
<1>7. CASE LiveEvent
  <2>1. head' = "live"
    BY <1>0, <1>7 DEF LiveEvent, HeadAfterBytes
  <2>2. pc' = "returned" => result'.wrote = TRUE
    BY <1>7 DEF LiveEvent, Return, Result
  <2> QED
    BY <2>1, <2>2
<1> QED
  BY <1>1, <1>2, <1>3, <1>4, <1>5, <1>6, <1>7, StepKinds

\* A failure reported as wrote = false left the client untouched, and one
\* reported as wrote = true sent exactly one head, before any body byte.
THEOREM ContractHolds == Spec => []ReturnContract
<1>1. Init => ReturnContract
  BY DEF Init, ReturnContract
<1>2. TypeInv /\ ReturnContract /\ [Next]_vars => (TypeInv /\ ReturnContract)'
  BY TypeNext, ContractNext
<1> QED
  BY <1>1, <1>2, TypeInit, PTL DEF Spec

-----------------------------------------------------------------------------
(* The spool                                                               *)

\* The spool is the stream while it is open and when it is held.
SpoolInv ==
    /\ spoolState = "open" <=> pc # "returned" /\ ~committed
    /\ spoolState = "held" => pc = "returned" /\ result.fail = RefusalFallback
    /\ spoolState \in {"open", "held"} => spool = seen
    /\ spoolState = "discarded" => spool = <<>>

\* The spool is appended to with the stream, and discarded when it is behind.
LEMMA SpoolNext ==
  ASSUME TypeInv, SpoolInv, [Next]_vars
  PROVE  SpoolInv'
<1> USE DEF SpoolInv
<1>0. committed \in BOOLEAN
  BY DEF TypeInv, ControlOK
<1>1. CASE Quiet \/ Turn
  BY <1>1 DEF Quiet, Turn
<1>2. CASE Fault
  BY <1>2 DEF Fault, Return, Result, Discard
<1>3. CASE CommitStep
  <2>1. spoolState' = "discarded" /\ spool' = <<>>
    BY <1>3 DEF CommitStep, CommitLive, Return, Discard
  <2>2. committed' = TRUE
    BY <1>3 DEF CommitStep, CommitLive
  <2> QED
    BY <2>1, <2>2
<1>4. CASE BufferEvent
  BY <1>4 DEF BufferEvent, NextBuffered, ProcessFrame
<1>5. CASE CompleteBuffered \/ CompleteAtEOF \/ AbortBuffered \/ BufferFails
  <2>1. spoolState' = "discarded" /\ spool' = <<>> /\ pc' = "returned"
    BY <1>5 DEF CompleteBuffered, CompleteAtEOF, AbortBuffered, BufferFails,
       ReplayAndReturn, Return, Result, Discard
  <2> QED
    BY <2>1
<1>6. CASE HoldRefusal
  BY <1>6 DEF HoldRefusal, NextBuffered, Result
<1>7. CASE LiveEvent
  <2>1. CASE pc' = pc
    BY <1>7, <2>1 DEF LiveEvent, ProcessFrame, Return, Result, Discard
  <2>2. CASE pc' # pc
    BY <1>7, <2>2 DEF LiveEvent, Return, Result, Discard
  <2> QED
    BY <2>1, <2>2
<1> QED
  BY <1>1, <1>2, <1>3, <1>4, <1>5, <1>6, <1>7, StepKinds

\* So the spool follows the stream always.
LEMMA SpoolInvCorrect == Spec => [](TypeInv /\ SpoolInv)
<1>1. Init => SpoolInv
  BY DEF Init, SpoolInv
<1>2. TypeInv /\ SpoolInv /\ [Next]_vars => (TypeInv /\ SpoolInv)'
  BY TypeNext, SpoolNext
<1> QED
  BY <1>1, <1>2, TypeInit, PTL DEF Spec

\* What is buffered, and what a held refusal hands to the handler, is the
\* upstream stream itself.
THEOREM SpoolIsFaithful == Spec => []SpoolFaithful
<1>1. TypeInv /\ SpoolInv => SpoolFaithful
  BY DEF SpoolInv, SpoolFaithful
<1> QED
  BY <1>1, SpoolInvCorrect, PTL

\* The refusal sentinel is a verdict of buffered alone: a wire neither fails a
\* live event nor a replay with it.
SentinelIsBuffered ==
    /\ \A w, ev : Live(w, ev).fail # RefusalFallback
    /\ \A w, evs : ReplayBuffered(w, evs).fail # RefusalFallback
    /\ \A w, evs : ReplayPrefix(w, evs).fail # RefusalFallback

\* An incomplete replay fails as such, a complete one with its own verdict.
LEMMA ReplaysFail ==
  ASSUME NEW replay, NEW r \in Replays(replay)
  PROVE  r.fail \in {replay.fail, ReplayFailed}
<1>1. CASE r = replay
  BY <1>1
<1>2. CASE \E n \in 0 .. Len(replay.out) :
             r = [replay EXCEPT !.out = SubSeq(@, 1, n), !.fail = ReplayFailed]
  BY <1>2
<1> QED
  BY <1>1, <1>2 DEF Replays

\* A spool leaves the engine only with the sentinel, and the sentinel never
\* without the spool.
THEOREM SpoolIsReleased ==
  ASSUME SentinelIsBuffered
  PROVE  Spec => []SpoolReleased
<1> DEFINE Held ==
      pc = "returned" /\ result.fail = RefusalFallback => spoolState = "held"
<1>1. Init => Held
  BY DEF Init
<1>2. ASSUME TypeInv, SpoolInv, Held, [Next]_vars
      PROVE  Held'
  <2>0. committed \in BOOLEAN
    BY <1>2 DEF TypeInv, ControlOK
  <2>1. CASE Quiet \/ Turn
    BY <1>2, <2>1 DEF Quiet, Turn
  <2>2. CASE Fault
    BY <2>2 DEF Fault, Return, Result, EngineFaults, Transient, Terminal,
       UpstreamIdle, ClientGone, Deadline, TruncatedStream, StreamReadError,
       ResponseTooLarge, SpoolError, RefusalFallback
  <2>3. CASE CommitStep
    <3>1. PICK r \in Replays(ReplayPrefix(wire, spool)) :
            pc' = "returned" => result'.fail = r.fail
      BY <2>3 DEF CommitStep, CommitLive, Return, Result
    <3>2. r.fail # RefusalFallback
      BY <3>1, ReplaysFail, SentinelIsBuffered DEF SentinelIsBuffered,
         ReplayFailed, RefusalFallback, Transient, Terminal
    <3> QED
      BY <3>1, <3>2
  <2>4. CASE BufferEvent
    BY <2>4 DEF BufferEvent, NextBuffered
  <2>5. CASE CompleteBuffered \/ CompleteAtEOF
    <3>1. CASE result'.fail = NoFail
      BY <3>1 DEF NoFail, RefusalFallback, Terminal
    <3>2. CASE \E w, evs : \E r \in Replays(ReplayBuffered(w, evs)) :
                 result'.fail = r.fail
      <4>1. PICK w, evs : \E r \in Replays(ReplayBuffered(w, evs)) :
                 result'.fail = r.fail
        BY <3>2
      <4>2. PICK r \in Replays(ReplayBuffered(w, evs)) : result'.fail = r.fail
        BY <4>1
      <4>3. r.fail \in {ReplayBuffered(w, evs).fail, ReplayFailed}
        BY ReplaysFail
      <4> QED
        BY <4>2, <4>3, SentinelIsBuffered DEF SentinelIsBuffered,
           ReplayFailed, RefusalFallback, Transient, Terminal
    <3>3. CASE CompleteBuffered
      BY <3>2, <3>3 DEF CompleteBuffered, ReplayAndReturn, Return, Result
    <3>4. CASE CompleteAtEOF
      BY <3>1, <3>2, <3>4 DEF CompleteAtEOF, ReplayAndReturn, Return, Result
    <3> QED
      BY <2>5, <3>3, <3>4
  <2>6. CASE AbortBuffered \/ BufferFails
    BY <2>6 DEF AbortBuffered, BufferFails, Return, Result, SpoolWrites,
       Transient, Terminal, ResponseTooLarge, SpoolError, RefusalFallback
  <2>7. CASE HoldRefusal
    BY <2>7 DEF HoldRefusal
  <2>8. CASE LiveEvent
    <3>1. pc' = "returned" => result'.fail = Live(wire, Head(pending)).fail
      BY <2>8 DEF LiveEvent, Return, Result
    <3> QED
      BY <3>1, SentinelIsBuffered DEF SentinelIsBuffered
  <2> QED
    BY <1>2, <2>1, <2>2, <2>3, <2>4, <2>5, <2>6, <2>7, <2>8, StepKinds
<1>3. TypeInv /\ SpoolInv /\ Held => SpoolReleased
  BY DEF SpoolInv, SpoolReleased
<1>4. TypeInv /\ SpoolInv /\ Held /\ [Next]_vars => (TypeInv /\ SpoolInv /\ Held)'
  BY <1>2, TypeNext, SpoolNext
<1>5. Init => TypeInv /\ SpoolInv /\ Held
  BY <1>1, TypeInit DEF Init, SpoolInv
<1> QED
  BY <1>3, <1>4, <1>5, PTL DEF Spec

-----------------------------------------------------------------------------
(* The events on their way from the reader to the wire                     *)

AtReader == chunk.events
InChannel == ch.events

\* Events are passed on, never made up: those handed to the wire and those on
\* their way to it are together no more than the reader read.
EventsInv ==
    /\ AtReader \in Seq(Event) /\ InChannel \in Seq(Event)
    /\ pending \in Seq(Event) /\ seen \in Seq(Event)
    /\ nevents \in 0 .. MaxEvents
    /\ Len(seen) + Len(pending) + Len(InChannel) + Len(AtReader) <= nevents

\* What one read completes is a sequence of the wire's events.
LEMMA EventListsAreSeqs ==
  ASSUME NEW evs \in EventLists
  PROVE  evs \in Seq(Event)
<1>1. PICK n \in 0 .. MaxPerChunk : evs \in [1 .. n -> Event]
  BY DEF EventLists
<1>2. n \in Nat
  BY BoundAssumption
<1> QED
  BY <1>1, <1>2

\* The queues have lengths, which the prover needs to be told.
LEMMA EventsAreCounted ==
  ASSUME EventsInv
  PROVE  /\ Len(seen) \in Nat /\ Len(pending) \in Nat
         /\ Len(InChannel) \in Nat /\ Len(AtReader) \in Nat
         /\ nevents \in Nat /\ MaxEvents \in Nat
  BY BoundAssumption, LenProperties DEF EventsInv

\* The empty result carries no event.
LEMMA NoChunkIsEmpty ==
  NoChunk.events \in Seq(Event) /\ Len(NoChunk.events) = 0
  BY EmptySeq DEF NoChunk

\* The next event is one of the wire's, and there is room for it.
LEMMA NextEvent ==
  ASSUME EventsInv, pending # <<>>
  PROVE  /\ Head(pending) \in Event /\ Tail(pending) \in Seq(Event)
         /\ Len(Tail(pending)) = Len(pending) - 1
         /\ Len(seen) < MaxEvents
<1>0. /\ Len(seen) \in Nat /\ Len(pending) \in Nat
      /\ Len(InChannel) \in Nat /\ Len(AtReader) \in Nat
      /\ nevents \in Nat /\ MaxEvents \in Nat
  BY EventsAreCounted
<1>1. /\ Head(pending) \in Event /\ Tail(pending) \in Seq(Event)
      /\ Len(Tail(pending)) = Len(pending) - 1
  BY HeadTailProperties DEF EventsInv
<1>2. Len(pending) > 0
  BY EmptySeq DEF EventsInv
<1>3. Len(seen) + Len(pending) + Len(InChannel) + Len(AtReader) <= MaxEvents
  BY <1>0 DEF EventsInv
<1> QED
  BY <1>1, <1>2, <1>3, <1>0

\* Every step of the engine passes events on.
LEMMA EventsNext ==
  ASSUME EventsInv, [Next]_vars
  PROVE  EventsInv'
<1>0. /\ Len(seen) \in Nat /\ Len(pending) \in Nat
      /\ Len(InChannel) \in Nat /\ Len(AtReader) \in Nat
      /\ nevents \in Nat /\ MaxEvents \in Nat
  BY EventsAreCounted
<1>1. CASE ReadBytes
  <2>1. PICK evs \in EventLists :
          /\ nevents + Len(evs) <= MaxEvents
          /\ AtReader' = evs /\ nevents' = nevents + Len(evs)
    BY <1>1 DEF ReadBytes, AtReader
  <2>2. evs \in Seq(Event) /\ Len(evs) \in Nat
    BY EventListsAreSeqs, LenProperties
  <2>3. UNCHANGED <<InChannel, pending, seen>>
    BY <1>1 DEF ReadBytes, InChannel
  <2> QED
    BY <2>1, <2>2, <2>3, <1>0 DEF EventsInv
<1>2. CASE ReadNothing
  <2>1. AtReader' = NoChunk.events
    BY <1>2 DEF ReadNothing, NoChunk, AtReader
  <2>2. UNCHANGED <<InChannel, pending, seen, nevents>>
    BY <1>2 DEF ReadNothing, InChannel
  <2> QED
    BY <2>1, <2>2, <1>0, NoChunkIsEmpty DEF EventsInv
<1>3. CASE ReaderSends
  <2>1. /\ InChannel' = AtReader /\ AtReader' = NoChunk.events
        /\ InChannel = NoChunk.events
    BY <1>3 DEF ReaderSends, InChannel, AtReader
  <2>2. UNCHANGED <<pending, seen, nevents>>
    BY <1>3 DEF ReaderSends
  <2> QED
    BY <2>1, <2>2, <1>0, NoChunkIsEmpty DEF EventsInv
<1>4. CASE ReaderStops
  <2>1. AtReader' = NoChunk.events /\ UNCHANGED <<InChannel, pending, seen, nevents>>
    BY <1>4 DEF ReaderStops, AtReader, InChannel
  <2> QED
    BY <2>1, <1>0, NoChunkIsEmpty DEF EventsInv
<1>5. CASE ReceiveChunk
  <2>1. /\ InChannel' = NoChunk.events /\ pending' = InChannel
        /\ UNCHANGED <<AtReader, seen, nevents>>
    BY <1>5 DEF ReceiveChunk, InChannel, AtReader
  <2> QED
    BY <2>1, <1>0, NoChunkIsEmpty DEF EventsInv
<1>6. CASE BufferEvent \/ CompleteBuffered \/ HoldRefusal \/ AbortBuffered
           \/ BufferFails \/ LiveEvent
  <2>1. /\ pending # <<>> /\ pending' = Tail(pending)
        /\ seen' = Append(seen, Head(pending))
        /\ UNCHANGED <<AtReader, InChannel, nevents>>
    BY <1>6 DEF AtReader, InChannel, BufferEvent, CompleteBuffered,
       HoldRefusal, AbortBuffered, BufferFails, LiveEvent, NextBuffered,
       ProcessFrame
  <2>2. seen' \in Seq(Event) /\ Len(seen') = Len(seen) + 1
    BY <2>1, NextEvent DEF EventsInv
  <2> QED
    BY <2>1, <2>2, <1>0, NextEvent DEF EventsInv
<1>7. CASE \/ ParserOverflows \/ CompleteAtEOF \/ ReadFails \/ CommitAfterChunk
           \/ NextChunk
  BY <1>7 DEF EventsInv, AtReader, InChannel, ParserOverflows, CompleteAtEOF,
     ReadFails, CommitAfterChunk, NextChunk, ChunkFrame
<1>8. CASE KeepTickDisabled \/ KeepTickGated \/ KeepTickCommits \/ KeepTickLive
  BY <1>8 DEF EventsInv, AtReader, InChannel, KeepTickDisabled, KeepTickGated,
     KeepTickCommits, KeepTickLive, TickFrame
<1>9. CASE IdleTick \/ ContextDone
  BY <1>9 DEF EventsInv, AtReader, InChannel, IdleTick, ContextDone, EndFrame
<1>10. CASE Environment
  BY <1>10 DEF EventsInv, AtReader, InChannel, Environment, KeepTimerExpires,
     IdleTimerExpires, ClientLeaves, DeadlinePasses, ContextEnds,
     CallerClosesBody
<1>11. CASE Finished \/ UNCHANGED vars
  BY <1>11 DEF EventsInv, AtReader, InChannel, Finished, vars
<1> QED
  BY <1>1, <1>2, <1>3, <1>4, <1>5, <1>6, <1>7, <1>8, <1>9, <1>10, <1>11
  DEF Next, Reader, Process, Select

\* Every queue holds events of the wire, and the spool is within the cap.
CapInv == Len(spool) <= MaxResponse

\* Only an event that fits is buffered.
LEMMA CapNext ==
  ASSUME TypeInv, SpoolInv, EventsInv, CapInv, [Next]_vars
  PROVE  CapInv'
<1> USE DEF CapInv
<1>1. CASE BufferEvent \/ HoldRefusal
  <2>1. spool = seen
    BY <1>1 DEF BufferEvent, HoldRefusal, NextBuffered, SpoolInv
  <2>2. NoFail \in SpoolWrites(Len(spool) + 1)
    BY <1>1 DEF BufferEvent, HoldRefusal
  <2>3. Len(spool) + 1 <= MaxResponse
    <3>1. NoFail # ResponseTooLarge
      BY DEF NoFail, ResponseTooLarge, Terminal
    <3>2. ~(Len(spool) + 1 > MaxResponse)
      BY <2>2, <3>1 DEF SpoolWrites
    <3> QED
      BY <2>1, <3>2, EventsAreCounted, BoundAssumption
  <2>4. Len(spool') = Len(spool) + 1
    <3>1. Head(pending) \in Event
      BY <1>1, NextEvent DEF BufferEvent, HoldRefusal, NextBuffered
    <3>2. spool' = Append(spool, Head(pending)) /\ spool \in Seq(Event)
      BY <1>1, <2>1 DEF BufferEvent, HoldRefusal, EventsInv
    <3> QED
      BY <3>1, <3>2
  <2> QED
    BY <2>3, <2>4
<1>2. CASE ~(BufferEvent \/ HoldRefusal)
  <2>1. UNCHANGED spool \/ spool' = <<>>
    BY <1>2, StepKinds DEF Quiet, Turn, Fault, CommitStep, CommitLive,
       CompleteBuffered, AbortBuffered, BufferFails, LiveEvent, CompleteAtEOF,
       ReplayAndReturn, Return, Discard
  <2>2. Len(<<>>) = 0
    BY EmptySeq
  <2> QED
    BY <2>1, <2>2, BoundAssumption
<1> QED
  BY <1>1, <1>2

\* What a run of the engine keeps to.
EngineInv == TypeInv /\ SpoolInv /\ EventsInv /\ CapInv

\* It holds at the start.
LEMMA EngineInvInit == Init => EngineInv
<1>1. Init => SpoolInv
  BY DEF Init, SpoolInv
<1>2. Init => EventsInv /\ CapInv
  BY EmptySeq, BoundAssumption
  DEF Init, EventsInv, CapInv, AtReader, InChannel, NoChunk
<1> QED
  BY <1>1, <1>2, TypeInit DEF EngineInv

\* Every step keeps it.
LEMMA EngineInvNext == EngineInv /\ [Next]_vars => EngineInv'
  BY TypeNext, SpoolNext, EventsNext, CapNext DEF EngineInv

\* Control state, queues and buffer keep to their types whatever the wire
\* answers, and the buffer never exceeds the response cap.
THEOREM TypeCorrect == Spec => []TypeOK
<1>1. ASSUME EngineInv PROVE TypeOK
  <2>1. ControlOK
    BY <1>1 DEF EngineInv, TypeInv
  <2>2. spool \in Seq(Event)
    <3>1. spool = seen \/ spool = <<>>
      BY <1>1 DEF EngineInv, TypeInv, ControlOK, SpoolInv
    <3> QED
      BY <1>1, <3>1, EmptySeq DEF EngineInv, EventsInv
  <2> QED
    BY <1>1, <2>1, <2>2
    DEF EngineInv, CapInv, EventsInv, AtReader, InChannel, TypeOK, QueuesOK
<1> QED
  BY <1>1, EngineInvInit, EngineInvNext, PTL DEF Spec

-----------------------------------------------------------------------------
(* The commit                                                              *)

\* CommitPrompt, and what holds of the window between two turns of the loop.
CommitInv ==
    /\ CommitPrompt
    /\ pc # "returned" /\ ~committed /\ graceElapsed => ProgressGated

\* A turn goes back to waiting only if nothing is owed.
LEMMA CommitNext ==
  ASSUME TypeInv, CommitInv, [Next]_vars
  PROVE  CommitInv'
<1> USE DEF CommitInv, CommitPrompt
<1>0. committed \in BOOLEAN /\ graceElapsed \in BOOLEAN
  BY DEF TypeInv, ControlOK
<1>1. CASE Quiet
  BY <1>1 DEF Quiet
<1>2. CASE Turn
  BY <1>0, <1>2 DEF Turn, CommitDue
<1>3. CASE Fault \/ CompleteBuffered \/ HoldRefusal \/ AbortBuffered
           \/ BufferFails \/ CompleteAtEOF
  <2>1. pc' = "returned"
    BY <1>3 DEF Fault, CompleteBuffered, HoldRefusal, AbortBuffered,
       BufferFails, CompleteAtEOF, ReplayAndReturn, Return, Result
  <2> QED
    BY <2>1
<1>4. CASE CommitStep
  <2>1. committed' = TRUE
    BY <1>4 DEF CommitStep, CommitLive
  <2> QED
    BY <2>1
<1>5. CASE BufferEvent
  BY <1>5 DEF BufferEvent, NextBuffered, ProcessFrame
<1>6. CASE LiveEvent
  BY <1>6 DEF LiveEvent, ProcessFrame
<1> QED
  BY <1>1, <1>2, <1>3, <1>4, <1>5, <1>6, StepKinds

\* Once it has something to commit for, the loop never waits for the upstream
\* before it has committed: a new wire has nothing to forward, and every turn
\* looks.
THEOREM CommitIsPrompt ==
  ASSUME \A w \in WireInits : ~Forwardable(w)
  PROVE  Spec => []CommitPrompt
<1>1. Init => CommitInv
  BY DEF Init, CommitInv, CommitPrompt
<1>2. TypeInv /\ CommitInv /\ [Next]_vars => (TypeInv /\ CommitInv)'
  BY TypeNext, CommitNext
<1>3. CommitInv => CommitPrompt
  BY DEF CommitInv
<1> QED
  BY <1>1, <1>2, <1>3, TypeInit, PTL DEF Spec

-----------------------------------------------------------------------------
(* Every step of the engine is a step of the stream, or none               *)

\* The instance's copies of the shared definitions.
LEMMA SameFailures ==
  /\ Stream!NoFail = NoFail /\ Stream!RefusalFallback = RefusalFallback
  /\ Stream!ResponseTooLarge = ResponseTooLarge /\ Stream!SpoolError = SpoolError
  /\ Stream!Faults = EngineFaults
<1>1. /\ Stream!NoFail = NoFail /\ Stream!RefusalFallback = RefusalFallback
      /\ Stream!ResponseTooLarge = ResponseTooLarge /\ Stream!SpoolError = SpoolError
  BY DEF Stream!NoFail, NoFail, Stream!RefusalFallback, RefusalFallback,
     Stream!Terminal, Terminal, Stream!ResponseTooLarge, ResponseTooLarge,
     Stream!SpoolError, SpoolError, Stream!Transient, Transient
<1>2. /\ Stream!UpstreamIdle = UpstreamIdle /\ Stream!ClientGone = ClientGone
      /\ Stream!Deadline = Deadline /\ Stream!TruncatedStream = TruncatedStream
      /\ Stream!StreamReadError = StreamReadError
  BY DEF Stream!UpstreamIdle, UpstreamIdle, Stream!ClientGone, ClientGone,
     Stream!Deadline, Deadline, Stream!TruncatedStream, TruncatedStream,
     Stream!StreamReadError, StreamReadError, Stream!Terminal, Terminal,
     Stream!Transient, Transient
<1> QED
  BY <1>1, <1>2 DEF Stream!Faults, EngineFaults

\* So are its replays.
LEMMA SameReplays ==
  \A replay : Stream!Replays(replay) = Replays(replay)
BY DEF Stream!Replays, Replays, Stream!ReplayFailed, ReplayFailed,
   Stream!Transient, Transient

\* The sentinel for a held refusal is a failure.
LEMMA RefusalIsAFailure == RefusalFallback # NoFail
  BY DEF RefusalFallback, NoFail, Terminal

\* An event handed to the wire arrives in the stream.
LEMMA EventArrives ==
  ASSUME EventsInv, pending # <<>>, seen' = Append(seen, Head(pending))
  PROVE  Head(pending) \in Event /\ Stream!Arrives(Head(pending))
  BY NextEvent DEF Stream!Arrives

\* Kind by kind: a turn of the loop is a stutter, every other kind a step.
LEMMA StepRefines ==
  ASSUME EngineInv, [Next]_vars
  PROVE  [Stream!Next]_(Stream!vars)
<1>0. TypeInv /\ SpoolInv /\ EventsInv /\ committed \in BOOLEAN
  BY DEF EngineInv, TypeInv, ControlOK
<1>1. CASE Quiet \/ Turn
  BY <1>1 DEF Quiet, Turn, Stream!vars, Phase
<1>2. CASE Fault
  <2>1. PICK f \in EngineFaults : Return(committed, f)
    BY <1>2 DEF Fault
  <2>2. Phase # "ended" /\ (committed <=> Phase = "live")
    BY <1>0, <1>2 DEF Fault, Phase
  <2>3. Stream!End(Phase = "live", f)
    BY <1>0, <2>1, <2>2 DEF Return, Result, Stream!End, Phase
  <2> QED
    BY <1>2, <2>1, <2>2, <2>3, SameFailures
    DEF Fault, Stream!Break, Stream!Next
<1>3. CASE CommitStep
  <2>1. Phase = "buffering" /\ spool = seen
    BY <1>0, <1>3 DEF CommitStep, Phase, SpoolInv
  <2>2. PICK timer : CommitLive(timer)
    BY <1>3 DEF CommitStep
  <2>3. PICK r \in Replays(ReplayPrefix(wire, seen)) :
          /\ out' = out \o r.out /\ wire' = r.wire
          /\ IF r.fail = NoFail THEN pc' = "select" /\ UNCHANGED result
             ELSE Return(TRUE, r.fail)
    BY <2>1, <2>2 DEF CommitLive
  <2>4. IF r.fail = NoFail THEN Phase' = "live" /\ UNCHANGED result
        ELSE Stream!End(TRUE, r.fail)
    BY <2>2, <2>3 DEF CommitLive, Return, Result, Stream!End, Phase
  <2> QED
    BY <1>3, <2>1, <2>3, <2>4, SameFailures, SameReplays
    DEF CommitStep, Stream!Commit, Stream!Next
<1>4. CASE BufferEvent
  <2>1. Head(pending) \in Event /\ Stream!Arrives(Head(pending))
    BY <1>0, <1>4, EventArrives DEF BufferEvent, NextBuffered
  <2>2. Stream!Buffer(Head(pending))
    BY <1>4, <2>1, SameFailures
    DEF BufferEvent, NextBuffered, ProcessFrame, Phase, Stream!Buffer
  <2> QED
    BY <2>1, <2>2 DEF Stream!Next
<1>5. CASE CompleteBuffered
  <2>1. Head(pending) \in Event /\ Stream!Arrives(Head(pending))
    BY <1>0, <1>5, EventArrives DEF CompleteBuffered, NextBuffered
  <2>2. Phase = "buffering" /\ spool = seen
    BY <1>0, <1>5 DEF CompleteBuffered, NextBuffered, Phase, SpoolInv
  <2>3. Stream!Answer(Head(pending))
    BY <1>5, <2>1, <2>2, SameFailures, SameReplays DEF CompleteBuffered,
       NextBuffered, ReplayAndReturn, Return, Result, Phase, Stream!Answer,
       Stream!End
  <2> QED
    BY <2>1, <2>3 DEF Stream!Next
<1>6. CASE HoldRefusal \/ AbortBuffered
  <2>1. Head(pending) \in Event /\ Stream!Arrives(Head(pending))
    BY <1>0, <1>6, EventArrives DEF HoldRefusal, AbortBuffered, NextBuffered
  <2>2. Buffered(wire, Head(pending)).fail # NoFail
    BY <1>6, RefusalIsAFailure DEF HoldRefusal, AbortBuffered
  <2>3. Stream!Reject(Head(pending))
    BY <1>6, <2>1, <2>2, SameFailures DEF HoldRefusal, AbortBuffered,
       NextBuffered, Return, Result, Phase, Stream!Reject, Stream!End
  <2> QED
    BY <2>1, <2>3 DEF Stream!Next
<1>7. CASE BufferFails
  <2>1. Head(pending) \in Event /\ Stream!Arrives(Head(pending))
    BY <1>0, <1>7, EventArrives DEF BufferFails, NextBuffered
  <2>2. \E f \in {ResponseTooLarge, SpoolError} : Return(FALSE, f)
    BY <1>7 DEF BufferFails, SpoolWrites
  <2>3. Stream!BreakAt(Head(pending))
    BY <1>7, <2>1, <2>2, SameFailures DEF BufferFails, NextBuffered, Return,
       Result, Phase, Stream!BreakAt, Stream!End
  <2> QED
    BY <2>1, <2>3 DEF Stream!Next
<1>8. CASE LiveEvent
  <2>1. Head(pending) \in Event /\ Stream!Arrives(Head(pending))
    BY <1>0, <1>8, EventArrives DEF LiveEvent
  <2>2. Phase = "live"
    BY <1>8 DEF LiveEvent, Phase
  <2>3. IF Live(wire, Head(pending)).fail # NoFail \/ Live(wire, Head(pending)).done
        THEN Stream!End(TRUE, Live(wire, Head(pending)).fail)
        ELSE UNCHANGED <<Phase, result>>
    BY <1>8 DEF LiveEvent, ProcessFrame, Return, Result, Phase, Stream!End
  <2>4. Stream!Forward(Head(pending))
    BY <1>8, <2>1, <2>2, <2>3, SameFailures DEF LiveEvent, Stream!Forward
  <2> QED
    BY <2>1, <2>4 DEF Stream!Next
<1>9. CASE CompleteAtEOF
  <2>1. /\ Phase = IF committed THEN "live" ELSE "buffering"
        /\ ~committed => spool = seen
    BY <1>0, <1>9 DEF CompleteAtEOF, ChunkProcessed, Phase, SpoolInv
  <2>2. Stream!AnswerAtEOF
    BY <1>0, <1>9, <2>1, SameFailures, SameReplays DEF CompleteAtEOF,
       CleanEOF, ChunkFrame, ReplayAndReturn, Return, Result, Phase,
       Stream!AnswerAtEOF, Stream!End
  <2> QED
    BY <2>2 DEF Stream!Next
<1> QED
  BY <1>0, <1>1, <1>2, <1>3, <1>4, <1>5, <1>6, <1>7, <1>8, <1>9, StepKinds

\* The engine keeps the promise of TransactionalStream, whatever the wire, the
\* commit policy and the bounds: reads, timers, the context and the spool file
\* only decide when its steps are taken.
THEOREM EngineImplementsStream == Spec => ImplementsStream
<1>1. Init => Stream!Init
  BY SameFailures DEF Init, Stream!Init, Phase
<1>2. EngineInv /\ [Next]_vars => [Stream!Next]_(Stream!vars)
  BY StepRefines
<1> QED
  BY <1>1, <1>2, EngineInvInit, EngineInvNext, PTL
  DEF Spec, ImplementsStream, Stream!Spec

-----------------------------------------------------------------------------
(* The streams of WireProofs are the engine's                              *)

W == INSTANCE WireProofs WITH phase <- Phase, sent <- out, verdict <- result

\* The two copies of the failures agree.
LEMMA SameVerdicts ==
    /\ W!NoFail = NoFail /\ W!ReplayFailed = ReplayFailed
    /\ W!RefusalFallback = RefusalFallback /\ W!ResponseTooLarge = ResponseTooLarge
    /\ W!SpoolError = SpoolError /\ W!Faults = EngineFaults
<1>1. /\ W!NoFail = NoFail /\ W!ReplayFailed = ReplayFailed
      /\ W!RefusalFallback = RefusalFallback /\ W!ResponseTooLarge = ResponseTooLarge
      /\ W!SpoolError = SpoolError
  BY DEF W!NoFail, NoFail, W!ReplayFailed, ReplayFailed, W!RefusalFallback, RefusalFallback,
     W!ResponseTooLarge, ResponseTooLarge, W!SpoolError, SpoolError, W!Terminal, Terminal,
     W!Transient, Transient
<1>2. /\ W!UpstreamIdle = UpstreamIdle /\ W!ClientGone = ClientGone /\ W!Deadline = Deadline
      /\ W!TruncatedStream = TruncatedStream /\ W!StreamReadError = StreamReadError
  BY DEF W!UpstreamIdle, UpstreamIdle, W!ClientGone, ClientGone, W!Deadline, Deadline,
     W!TruncatedStream, TruncatedStream, W!StreamReadError, StreamReadError, W!Terminal,
     Terminal, W!Transient, Transient
<1> QED
  BY <1>1, <1>2 DEF W!Faults, EngineFaults

\* A new stream of the one is a new stream of the other.
LEMMA SameInit == Stream!Init => W!Init
BY SameVerdicts, SameFailures DEF Stream!Init, W!Init

\* A step of the one is a step of the other.
LEMMA SameNext == [Stream!Next]_(Stream!vars) => [W!Next]_(W!vars)
<1>1. \A replay : W!Replays(replay) = Stream!Replays(replay)
  BY SameReplays, SameVerdicts DEF W!Replays, Replays
<1> QED
  BY <1>1, SameVerdicts, SameFailures, Zenon
  DEF Stream!Next, W!Next, Stream!vars, W!vars, Stream!Arrives, W!Arrives, Stream!End, W!End,
      Stream!Buffer, W!Buffer, Stream!Answer, W!Answer, Stream!Reject, W!Reject,
      Stream!Commit, W!Commit, Stream!Forward, W!Forward, Stream!AnswerAtEOF, W!AnswerAtEOF,
      Stream!Break, W!Break, Stream!BreakAt, W!BreakAt, Stream!Ended, W!Ended

\* An invariant of the streams of WireProofs is one of the engine.
LEMMA EngineIsAStream ==
    /\ Init => W!Init
    /\ EngineInv /\ [Next]_vars => [W!Next]_(W!vars)
<1>1. Init => Stream!Init
  BY SameFailures DEF Init, Stream!Init, Phase
<1> QED
  BY <1>1, SameInit, SameNext, StepRefines

-----------------------------------------------------------------------------
(* Responses                                                               *)

\* The two copies of the Responses wire decide alike.
LEMMA SameResponsesVerdicts ==
    \A x, ev : /\ W!R!ResponsesBuffered(x, ev) = R!ResponsesBuffered(x, ev)
               /\ W!R!ResponsesLive(x, ev) = R!ResponsesLive(x, ev)
BY Zenon DEF W!R!ResponsesBuffered, R!ResponsesBuffered, W!R!ResponsesLive, R!ResponsesLive,
   W!R!IsErrorFrame, R!IsErrorFrame, W!R!IsNative, R!IsNative, W!R!FrameFailure,
   R!FrameFailure, W!R!IsOutput, R!IsOutput, W!R!NoFail, R!NoFail, W!R!InBandTransient,
   R!InBandTransient, W!R!InBandTerminal, R!InBandTerminal, W!R!InvalidCompleted,
   R!InvalidCompleted, W!R!Transient, R!Transient, W!R!Terminal, R!Terminal,
   W!R!Delivered, R!Delivered

\* They join deltas alike.
LEMMA SameCoalesce == \A evs : W!R!Coalesce(evs) = R!Coalesce(evs)
BY Zenon DEF W!R!Coalesce, R!Coalesce, W!R!Flushed, R!Flushed, W!R!FoldLeft, R!FoldLeft,
   W!R!MapThenFoldSet, R!MapThenFoldSet, W!R!Max, R!Max, W!R!NewCoalescer, R!NewCoalescer,
   W!R!CoalescerAccept, R!CoalescerAccept, W!R!Joinable, R!Joinable, W!R!Fits, R!Fits

\* They speak of the same events, and read a stream alike.
LEMMA SameResponsesEvents ==
    /\ \A Route, Token : W!R!Events(Route, Token) = R!Events(Route, Token)
    /\ \A fs : W!R!Tokens(fs) = R!Tokens(fs) /\ W!R!EndsTurn(fs) = R!EndsTurn(fs)
<1>1. /\ W!R!Meta = R!Meta /\ W!R!Output = R!Output /\ W!R!Completed = R!Completed
      /\ W!R!BadCompleted = R!BadCompleted /\ W!R!ErrorTransient = R!ErrorTransient
      /\ W!R!ErrorTerminal = R!ErrorTerminal /\ W!R!ErrorNative = R!ErrorNative
  BY DEF W!R!Plain, R!Plain, W!R!Meta, W!R!Output, W!R!Completed, W!R!BadCompleted,
     W!R!ErrorTransient, W!R!ErrorTerminal, W!R!ErrorNative, R!Meta, R!Output, R!Completed,
     R!BadCompleted, R!ErrorTransient, R!ErrorTerminal, R!ErrorNative
<1>2. \A r, t : W!R!Text(r, t) = R!Text(r, t) /\ W!R!OpaqueText(r, t) = R!OpaqueText(r, t)
  BY DEF W!R!Text, R!Text, W!R!OpaqueText, R!OpaqueText
<1>3. \A Route, Token : W!R!Events(Route, Token) = R!Events(Route, Token)
  BY <1>1, <1>2 DEF W!R!Events, R!Events
<1>4. \A fs : W!R!Tokens(fs) = R!Tokens(fs)
  BY Zenon DEF W!R!Tokens, R!Tokens, W!R!Pieces, R!Pieces, W!R!FlattenSeq, R!FlattenSeq,
     W!R!Text, R!Text
<1>5. \A fs : W!R!EndsTurn(fs) = R!EndsTurn(fs)
  BY <1>1, Zenon DEF W!R!EndsTurn, R!EndsTurn
<1> QED
  BY <1>3, <1>4, <1>5

\* A stream on a Responses wire is one of WireProofs'.
LEMMA SameResponsesStream ==
    ASSUME NEW Route, NEW Token, ResponsesStream(Route, Token)
    PROVE  W!ResponsesStream(Route, Token)
<1>1. ASSUME NEW w, w.proto = "responses"
      PROVE  /\ \A ev : /\ W!WiresBuffered(w, ev) = WiresBuffered(w, ev)
                        /\ W!WiresLive(w, ev) = WiresLive(w, ev)
             /\ \A evs : /\ W!WiresReplay(w, evs) = WiresReplay(w, evs)
                         /\ W!WiresReplayPrefix(w, evs) = WiresReplayPrefix(w, evs)
             /\ W!WiresCompleteOnEOF(w) = WiresCompleteOnEOF(w)
             /\ W!WiresForwardable(w) = WiresForwardable(w)
  <2>1. \A ev : /\ W!WiresBuffered(w, ev) = WiresBuffered(w, ev)
                /\ W!WiresLive(w, ev) = WiresLive(w, ev)
    BY <1>1, SameResponsesVerdicts, Zenon
    DEF W!WiresBuffered, WiresBuffered, W!WiresLive, WiresLive, W!Of, Of
  <2>2. \A evs : W!R!ResponsesReplay(w.state, evs) = R!ResponsesReplay(w.state, evs)
    BY SameCoalesce, Zenon DEF R!ResponsesReplay, W!R!ResponsesReplay, R!NoFail, W!R!NoFail
  <2>3. \A evs : /\ W!WiresReplay(w, evs) = WiresReplay(w, evs)
                 /\ W!WiresReplayPrefix(w, evs) = WiresReplayPrefix(w, evs)
    BY <1>1, <2>2, Zenon
    DEF W!WiresReplay, WiresReplay, W!WiresReplayPrefix, WiresReplayPrefix, W!Of, Of
  <2>4. /\ W!WiresCompleteOnEOF(w) = WiresCompleteOnEOF(w)
        /\ W!WiresForwardable(w) = WiresForwardable(w)
    BY <1>1, Zenon
    DEF W!WiresCompleteOnEOF, WiresCompleteOnEOF, W!WiresForwardable, WiresForwardable,
        R!ResponsesCompleteOnEOF, W!R!ResponsesCompleteOnEOF, R!ResponsesForwardable,
        W!R!ResponsesForwardable
  <2> QED
    BY <2>1, <2>3, <2>4
<1>2. W!OnWire("responses")
  BY <1>1 DEF ResponsesStream, OnWire, W!OnWire
<1>3. W!ResponsesWireOf = ResponsesWireOf
  BY DEF W!ResponsesWireOf, ResponsesWireOf, W!R!ResponsesInit, R!ResponsesInit
<1> QED
  BY <1>2, <1>3, SameResponsesEvents DEF ResponsesStream, W!ResponsesStream

\* What the engine keeps to on a Responses wire.
LEMMA ResponsesEngineInv ==
    ASSUME NEW Route, NEW Token, ResponsesStream(Route, Token)
    PROVE  Spec => [](EngineInv /\ W!ResponsesInv(Route, Token))
<1> DEFINE Inv == EngineInv /\ W!ResponsesInv(Route, Token)
<1>1. Init => Inv
  BY EngineInvInit, EngineIsAStream, SameResponsesStream, W!ResponsesInvInit,
     WirePolicyAssumption, GroupAssumption, CandidatesAssumption
<1>2. Inv /\ [Next]_vars => Inv'
  <2> SUFFICES ASSUME EngineInv, W!ResponsesInv(Route, Token), [Next]_vars PROVE Inv'
    OBVIOUS
  <2>1. EngineInv' /\ [W!Next]_(W!vars)
    BY EngineInvNext, EngineIsAStream
  <2>2. W!ResponsesInv(Route, Token)'
    BY <2>1, SameResponsesStream, W!ResponsesInvNext,
       WirePolicyAssumption, GroupAssumption, CandidatesAssumption
  <2> QED
    BY <2>1, <2>2
<1> HIDE DEF Inv
<1>3. Spec => []Inv
  BY <1>1, <1>2, PTL DEF Spec
<1> QED
  BY <1>3 DEF Inv

\* A Responses stream answered as a success reached the client whole, for every
\* commit policy, bound and group size, whatever the reader and the timers did.
THEOREM ResponsesSuccessReachesClient ==
    ASSUME NEW Route, NEW Token, ResponsesStream(Route, Token)
    PROVE  Spec => []ResponsesSuccessIsComplete
<1>1. W!ResponsesInv(Route, Token) => ResponsesSuccessIsComplete
  <2> SUFFICES ASSUME W!ResponsesInv(Route, Token), Succeeded
               PROVE  R!Tokens(out) = R!Tokens(seen) /\ R!EndsTurn(out)
    BY DEF ResponsesSuccessIsComplete
  <2>1. W!Answered
    BY SameVerdicts DEF Succeeded, W!Answered, Phase
  <2> QED
    BY <2>1, SameResponsesEvents DEF W!ResponsesInv
<1> QED
  BY <1>1, ResponsesEngineInv, PTL

\* The live path withholds nothing from a waiting client, and no transient error
\* ever reaches it (responses.go, live).
THEOREM ResponsesLiveIsCurrent ==
    ASSUME NEW Route, NEW Token, ResponsesStream(Route, Token)
    PROVE  Spec => []LiveIsCurrent
<1>1. W!ResponsesInv(Route, Token) => LiveIsCurrent
  <2> SUFFICES ASSUME W!ResponsesInv(Route, Token) PROVE LiveIsCurrent
    OBVIOUS
  <2>1. pc = "select" /\ committed => R!Tokens(out) = R!Tokens(seen)
    BY SameResponsesEvents DEF W!ResponsesInv, Phase
  <2>2. \A i \in DOMAIN out : out[i].kind \in W!Sendable
    BY DEF W!ResponsesInv, W!KindsIn
  <2>3. R!ErrorTransient.kind \notin W!Sendable
    BY DEF R!ErrorTransient, R!Plain, W!Sendable, W!Passing
  <2> QED
    BY <2>1, <2>2, <2>3 DEF LiveIsCurrent
<1> QED
  BY <1>1, ResponsesEngineInv, PTL

\* The client never takes for finished a turn that the handler will retry or
\* report as broken, but for a replay that failed after its last byte.
THEOREM ResponsesFinishIsFinal ==
    ASSUME NEW Route, NEW Token, ResponsesStream(Route, Token)
    PROVE  Spec => []FinishedOnlyIfSuccess
<1>1. W!ResponsesInv(Route, Token) => FinishedOnlyIfSuccess
  <2> SUFFICES ASSUME W!ResponsesInv(Route, Token), pc = "returned", R!EndsTurn(out)
               PROVE  \/ result.fail = NoFail \/ result.fail.delivered
                      \/ result.fail = ReplayFailed
    BY DEF FinishedOnlyIfSuccess
  <2>1. Phase = "ended" /\ W!R!EndsTurn(out)
    BY SameResponsesEvents DEF Phase
  <2> QED
    BY <2>1, SameVerdicts DEF W!ResponsesInv, W!Final
<1> QED
  BY <1>1, ResponsesEngineInv, PTL

-----------------------------------------------------------------------------
(* Gemini                                                                  *)

\* The two copies of the Gemini wire judge an event alike.
LEMMA SameAccept == \A w, ev : W!G!Accept(w, ev) = G!Accept(w, ev)
<1>1. \A w, cs : W!G!AcceptCandidates(w, cs) = G!AcceptCandidates(w, cs)
  BY Zenon DEF W!G!AcceptCandidates, G!AcceptCandidates, W!G!Accepted, G!Accepted,
     W!G!Rejected, G!Rejected, W!G!Index, G!Index, W!G!Cardinality, G!Cardinality
<1>2. \A w, ev : W!G!AcceptChunk(w, ev) = G!AcceptChunk(w, ev)
  BY <1>1, Zenon DEF W!G!AcceptChunk, G!AcceptChunk, W!G!Accepted, G!Accepted, W!G!Rejected,
     G!Rejected, W!G!Index, G!Index, W!G!NoFail, G!NoFail, W!G!MalformedSSE, G!MalformedSSE,
     W!G!Transient, G!Transient
<1> QED
  BY <1>2, Zenon DEF W!G!Accept, G!Accept, W!G!NoFail, G!NoFail, W!G!MalformedSSE,
     G!MalformedSSE, W!G!InBandTransient, G!InBandTransient, W!G!InBandTerminal,
     G!InBandTerminal, W!G!Transient, G!Transient, W!G!Terminal, G!Terminal

\* They decide alike.
LEMMA SameGeminiVerdicts ==
    \A x, ev : /\ W!G!GeminiBuffered(x, ev) = G!GeminiBuffered(x, ev)
               /\ W!G!GeminiLive(x, ev) = G!GeminiLive(x, ev)
<1> SUFFICES ASSUME NEW x, NEW ev
             PROVE  /\ W!G!GeminiBuffered(x, ev) = G!GeminiBuffered(x, ev)
                    /\ W!G!GeminiLive(x, ev) = G!GeminiLive(x, ev)
  OBVIOUS
<1> DEFINE a == G!Accept(x, ev)
<1>1. W!G!Accept(x, ev) = a
  BY SameAccept
<1>2. W!G!NoFail = G!NoFail /\ W!G!Delivered(a.fail) = G!Delivered(a.fail)
  BY Zenon DEF W!G!NoFail, G!NoFail, W!G!Delivered, G!Delivered
<1> HIDE DEF a
<1>3. W!G!GeminiBuffered(x, ev) = G!GeminiBuffered(x, ev)
  BY <1>1, <1>2, Zenon DEF W!G!GeminiBuffered, G!GeminiBuffered, a
<1>4. W!G!GeminiLive(x, ev) = G!GeminiLive(x, ev)
  BY <1>1, <1>2, Zenon DEF W!G!GeminiLive, G!GeminiLive, a
<1> QED
  BY <1>3, <1>4

\* They call the same streams complete.
LEMMA SameAnswers ==
    \A evs : /\ W!G!CompleteAnswer(evs) = G!CompleteAnswer(evs)
             /\ W!G!NothingAfterFinish(evs) = G!NothingAfterFinish(evs)
BY Zenon DEF W!G!CompleteAnswer, G!CompleteAnswer, W!G!NothingAfterFinish,
   G!NothingAfterFinish, W!G!CandidatesOf, G!CandidatesOf, W!G!ToSet, G!ToSet, W!G!Index,
   G!Index

\* A stream on a Gemini wire is one of WireProofs'.
LEMMA SameGeminiStream == GeminiStream => W!GeminiStream
<1>1. ASSUME NEW w, w.proto = "gemini"
      PROVE  /\ \A ev : /\ W!WiresBuffered(w, ev) = WiresBuffered(w, ev)
                        /\ W!WiresLive(w, ev) = WiresLive(w, ev)
             /\ \A evs : /\ W!WiresReplay(w, evs) = WiresReplay(w, evs)
                         /\ W!WiresReplayPrefix(w, evs) = WiresReplayPrefix(w, evs)
             /\ W!WiresCompleteOnEOF(w) = WiresCompleteOnEOF(w)
             /\ W!WiresForwardable(w) = WiresForwardable(w)
  <2>1. \A ev : /\ W!WiresBuffered(w, ev) = WiresBuffered(w, ev)
                /\ W!WiresLive(w, ev) = WiresLive(w, ev)
    BY <1>1, SameGeminiVerdicts, Zenon
    DEF W!WiresBuffered, WiresBuffered, W!WiresLive, WiresLive, W!Of, Of
  <2>2. \A evs : W!G!GeminiReplay(w.state, evs) = G!GeminiReplay(w.state, evs)
    BY Zenon DEF G!GeminiReplay, W!G!GeminiReplay, G!NoFail, W!G!NoFail
  <2>3. \A evs : /\ W!WiresReplay(w, evs) = WiresReplay(w, evs)
                 /\ W!WiresReplayPrefix(w, evs) = WiresReplayPrefix(w, evs)
    BY <1>1, <2>2, Zenon
    DEF W!WiresReplay, WiresReplay, W!WiresReplayPrefix, WiresReplayPrefix, W!Of, Of
  <2>4. /\ W!WiresCompleteOnEOF(w) = WiresCompleteOnEOF(w)
        /\ W!WiresForwardable(w) = WiresForwardable(w)
    BY <1>1, Zenon
    DEF W!WiresCompleteOnEOF, WiresCompleteOnEOF, W!WiresForwardable, WiresForwardable,
        G!GeminiCompleteOnEOF, W!G!GeminiCompleteOnEOF, G!GeminiForwardable,
        W!G!GeminiForwardable, G!Index, W!G!Index
  <2> QED
    BY <2>1, <2>3, <2>4
<1>2. GeminiStream => W!OnWire("gemini")
  BY <1>1 DEF GeminiStream, OnWire, W!OnWire
<1>3. W!GeminiWireOf = GeminiWireOf
  BY Zenon DEF W!GeminiWireOf, GeminiWireOf, W!G!GeminiInit, G!GeminiInit, W!G!Index, G!Index
<1>4. W!G!Events = G!Events
  BY Zenon DEF W!G!Events, G!Events, W!G!Candidates, G!Candidates, W!G!Plain, G!Plain
<1> QED
  BY <1>2, <1>3, <1>4 DEF GeminiStream, W!GeminiStream

\* No event completes a Gemini stream.
LEMMA NoEventIsTheLast ==
    ASSUME GeminiStream, wire = W!Tagged(wire.state), NEW ev
    PROVE  ~Buffered(wire, ev).done /\ ~Live(wire, ev).done
<1> DEFINE x == wire.state
           b == W!G!GeminiBuffered(x, ev)
           v == W!G!GeminiLive(x, ev)
<1>1. b.done = FALSE /\ v.done = FALSE
  BY DEF W!G!GeminiBuffered, W!G!GeminiLive
<1> HIDE DEF b, v
<1>2. Buffered(W!Tagged(x), ev).done = b.done /\ Live(W!Tagged(x), ev).done = v.done
  BY SameGeminiStream, W!GeminiOperators,
     WirePolicyAssumption, GroupAssumption, CandidatesAssumption DEF b, v
<1> QED
  BY <1>1, <1>2

\* A success was found at the clean end of the body.
EndedCleanly == Succeeded => readErr = "eof" /\ partial = "none"

\* Only CompleteAtEOF returns a success, and what it saw of the last read stays.
LEMMA EndsCleanly ==
    ASSUME GeminiStream, TypeInv, W!GeminiInv, EndedCleanly, [Next]_vars
    PROVE  EndedCleanly'
<1>0. wire = W!Tagged(wire.state) /\ committed \in BOOLEAN
  BY DEF W!GeminiInv, TypeInv, ControlOK
<1>1. CASE pc = "returned"
  <2>1. UNCHANGED <<pc, result, readErr, partial>>
    <3>1. CASE Reader
      BY <3>1 DEF Reader, ReadBytes, ReadNothing, ReaderSends, ReaderStops
    <3>2. CASE Environment
      BY <3>2 DEF Environment, KeepTimerExpires, IdleTimerExpires, ClientLeaves,
         DeadlinePasses, ContextEnds, CallerClosesBody
    <3>3. CASE Finished \/ UNCHANGED vars
      BY <3>3 DEF Finished, vars
    <3>4. ~Process
      BY <1>1 DEF Process, BufferEvent, CompleteBuffered, HoldRefusal, AbortBuffered,
         BufferFails, NextBuffered, LiveEvent, ParserOverflows, CompleteAtEOF, ReadFails,
         CommitAfterChunk, NextChunk, ChunkProcessed
    <3>5. ~Select
      BY <1>1 DEF Select, ReceiveChunk, KeepTickDisabled, KeepTickGated, KeepTickCommits,
         KeepTickLive, KeepTick, IdleTick, ContextDone
    <3> QED
      BY <3>1, <3>2, <3>3, <3>4, <3>5 DEF Next
  <2> QED
    BY <2>1 DEF EndedCleanly, Succeeded
<1>2. CASE pc # "returned"
  <2>1. CASE Quiet \/ Turn
    BY <1>2, <2>1 DEF Quiet, Turn, EndedCleanly, Succeeded
  <2>2. CASE Fault
    <3>1. PICK f \in EngineFaults : result' = [wrote |-> committed, fail |-> f]
      BY <2>2 DEF Fault, Return, Result
    <3>2. f # NoFail
      BY DEF EngineFaults, NoFail, Transient, Terminal, UpstreamIdle, ClientGone, Deadline,
         TruncatedStream, StreamReadError, ResponseTooLarge, SpoolError
    <3> QED
      BY <3>1, <3>2 DEF EndedCleanly, Succeeded
  <2>3. CASE CommitStep
    BY <1>2, <2>3 DEF CommitStep, CommitLive, Return, Result, EndedCleanly, Succeeded
  <2>4. CASE BufferEvent
    BY <1>2, <2>4 DEF BufferEvent, NextBuffered, EndedCleanly, Succeeded
  <2>5. CASE CompleteBuffered
    BY <1>0, <2>5, NoEventIsTheLast DEF CompleteBuffered
  <2>6. CASE HoldRefusal \/ AbortBuffered \/ BufferFails
    <3>1. result'.wrote = FALSE
      BY <2>6 DEF HoldRefusal, AbortBuffered, BufferFails, Return, Result
    <3> QED
      BY <3>1 DEF EndedCleanly, Succeeded
  <2>7. CASE LiveEvent
    <3>1. ~Live(wire, Head(pending)).done
      BY <1>0, NoEventIsTheLast
    <3>2. CASE Live(wire, Head(pending)).fail = NoFail
      BY <1>2, <2>7, <3>1, <3>2 DEF LiveEvent, EndedCleanly, Succeeded
    <3>3. CASE Live(wire, Head(pending)).fail # NoFail
      BY <2>7, <3>3 DEF LiveEvent, Return, Result, EndedCleanly, Succeeded
    <3> QED
      BY <3>2, <3>3
  <2>8. CASE CompleteAtEOF
    BY <2>8 DEF CompleteAtEOF, CleanEOF, ChunkFrame, EndedCleanly
  <2> QED
    BY <2>1, <2>2, <2>3, <2>4, <2>5, <2>6, <2>7, <2>8, StepKinds
<1> QED
  BY <1>1, <1>2

\* A cut-off Gemini stream never passes for a complete answer, and a complete
\* one reached the client whole, for any number of candidates, every commit
\* policy and bound (gemini.go, completeOnEOF; sse.go, onReadErr).
THEOREM GeminiSuccessReachesClient ==
    ASSUME GeminiStream
    PROVE  Spec => []GeminiSuccessIsComplete
<1> DEFINE Inv == EngineInv /\ W!GeminiInv /\ EndedCleanly
<1>1. Init => Inv
  <2>1. Init => EndedCleanly
    BY DEF Init, EndedCleanly, Succeeded
  <2> QED
    BY <2>1, EngineInvInit, EngineIsAStream, SameGeminiStream, W!GeminiInvInit,
       WirePolicyAssumption, GroupAssumption, CandidatesAssumption
<1>2. Inv /\ [Next]_vars => Inv'
  <2> SUFFICES ASSUME EngineInv, W!GeminiInv, EndedCleanly, [Next]_vars PROVE Inv'
    OBVIOUS
  <2>1. EngineInv' /\ [W!Next]_(W!vars)
    BY EngineInvNext, EngineIsAStream
  <2>2. W!GeminiInv'
    BY <2>1, SameGeminiStream, W!GeminiInvNext,
       WirePolicyAssumption, GroupAssumption, CandidatesAssumption
  <2>3. EndedCleanly'
    BY EndsCleanly DEF EngineInv
  <2> QED
    BY <2>1, <2>2, <2>3
<1>3. Inv => GeminiSuccessIsComplete
  <2> SUFFICES ASSUME W!GeminiInv, EndedCleanly, Succeeded
               PROVE  /\ out = seen
                      /\ G!CompleteAnswer(seen) /\ G!NothingAfterFinish(seen)
                      /\ readErr = "eof" /\ partial = "none"
    BY DEF GeminiSuccessIsComplete
  <2>1. W!Answered
    BY SameVerdicts DEF Succeeded, W!Answered, Phase
  <2> QED
    BY <2>1, SameAnswers DEF W!GeminiInv, W!Passed, EndedCleanly
<1> HIDE DEF Inv
<1> QED
  BY <1>1, <1>2, <1>3, PTL DEF Spec

-----------------------------------------------------------------------------
(* Anthropic                                                               *)

AW == INSTANCE AnthropicProofs WITH phase <- Phase, sent <- out, verdict <- result

\* The two copies of the failures agree.
LEMMA SameAnthropicFailures ==
    /\ AW!NoFail = NoFail /\ AW!ReplayFailed = ReplayFailed
    /\ AW!RefusalFallback = RefusalFallback /\ AW!ResponseTooLarge = ResponseTooLarge
    /\ AW!SpoolError = SpoolError /\ AW!Faults = EngineFaults
<1>1. /\ AW!NoFail = NoFail /\ AW!ReplayFailed = ReplayFailed
      /\ AW!RefusalFallback = RefusalFallback /\ AW!ResponseTooLarge = ResponseTooLarge
      /\ AW!SpoolError = SpoolError
  BY DEF AW!NoFail, NoFail, AW!ReplayFailed, ReplayFailed, AW!RefusalFallback, RefusalFallback,
     AW!ResponseTooLarge, ResponseTooLarge, AW!SpoolError, SpoolError, AW!Terminal, Terminal,
     AW!Transient, Transient
<1>2. /\ AW!UpstreamIdle = UpstreamIdle /\ AW!ClientGone = ClientGone /\ AW!Deadline = Deadline
      /\ AW!TruncatedStream = TruncatedStream /\ AW!StreamReadError = StreamReadError
  BY DEF AW!UpstreamIdle, UpstreamIdle, AW!ClientGone, ClientGone, AW!Deadline, Deadline,
     AW!TruncatedStream, TruncatedStream, AW!StreamReadError, StreamReadError, AW!Terminal,
     Terminal, AW!Transient, Transient
<1> QED
  BY <1>1, <1>2 DEF AW!Faults, EngineFaults

\* Their replays are those of the engine.
LEMMA SameAnthropicReplays == \A replay : AW!Replays(replay) = Replays(replay)
BY SameAnthropicFailures DEF AW!Replays, Replays

\* An invariant of the streams of AnthropicProofs is one of the engine.
LEMMA EngineIsAnAnthropicStream ==
    /\ Init => AW!Init
    /\ EngineInv /\ [Next]_vars => [AW!Next]_(AW!vars)
<1>1. Init => Stream!Init
  BY SameFailures DEF Init, Stream!Init, Phase
<1>2. Stream!Init => AW!Init
  BY SameAnthropicFailures, SameFailures DEF Stream!Init, AW!Init
<1>3. [Stream!Next]_(Stream!vars) => [AW!Next]_(AW!vars)
  <2>1. \A replay : AW!Replays(replay) = Stream!Replays(replay)
    BY SameReplays, SameAnthropicReplays
  <2> QED
    BY <2>1, SameAnthropicFailures, SameFailures, Zenon
    DEF Stream!Next, AW!Next, Stream!vars, AW!vars, Stream!Arrives, AW!Arrives, Stream!End,
        AW!End, Stream!Buffer, AW!Buffer, Stream!Answer, AW!Answer, Stream!Reject, AW!Reject,
        Stream!Commit, AW!Commit, Stream!Forward, AW!Forward, Stream!AnswerAtEOF,
        AW!AnswerAtEOF, Stream!Break, AW!Break, Stream!BreakAt, AW!BreakAt, Stream!Ended,
        AW!Ended
<1> QED
  BY <1>1, <1>2, <1>3, StepRefines

\* The two copies of the Anthropic wire know the same events and failures.
LEMMA SameAnthropicEvents ==
    /\ AW!A!Events = A!Events
    /\ \A fs : AW!A!IsRefusal(fs) = A!IsRefusal(fs)
<1>3. /\ \A type, body : AW!A!Event0(type, body) = A!Event0(type, body)
      /\ \A type, i, body : AW!A!Block(type, i, body) = A!Block(type, i, body)
      /\ \A i, input : AW!A!InputDelta(i, input) = A!InputDelta(i, input)
      /\ AW!A!Fragments = A!Fragments
  BY Zenon DEF AW!A!Event0, A!Event0, AW!A!Block, A!Block, AW!A!InputDelta, A!InputDelta,
     AW!A!Fragments, A!Fragments
<1>4. /\ AW!A!MessageStart = A!MessageStart /\ AW!A!MessageStop = A!MessageStop
      /\ AW!A!UsageDelta = A!UsageDelta /\ AW!A!Ping = A!Ping /\ AW!A!Bare = A!Bare
      /\ AW!A!Shapeless = A!Shapeless /\ AW!A!ErrorTransient = A!ErrorTransient
      /\ AW!A!ErrorTerminal = A!ErrorTerminal
  BY <1>3 DEF AW!A!MessageStart, A!MessageStart, AW!A!MessageStop, A!MessageStop, AW!A!UsageDelta,
     A!UsageDelta, AW!A!Ping, A!Ping, AW!A!Bare, A!Bare, AW!A!Shapeless, A!Shapeless,
     AW!A!ErrorTransient, A!ErrorTransient, AW!A!ErrorTerminal, A!ErrorTerminal
<1>5. \A i : /\ AW!A!StopReason(i) = A!StopReason(i) /\ AW!A!TextStart(i) = A!TextStart(i)
             /\ AW!A!ToolStart(i) = A!ToolStart(i) /\ AW!A!BlockStop(i) = A!BlockStop(i)
             /\ AW!A!TextDelta(i) = A!TextDelta(i)
  BY <1>3 DEF AW!A!StopReason, A!StopReason, AW!A!TextStart, A!TextStart, AW!A!ToolStart,
     A!ToolStart,
     AW!A!BlockStop, A!BlockStop, AW!A!TextDelta, A!TextDelta
<1>1. AW!A!Events = A!Events
  BY <1>3, <1>4, <1>5 DEF AW!A!Events, A!Events
<1>2. \A fs : AW!A!IsRefusal(fs) = A!IsRefusal(fs)
  BY Zenon DEF AW!A!IsRefusal, A!IsRefusal, AW!A!Refused, A!Refused, AW!A!StopReason,
     A!StopReason, AW!A!MessageStop, A!MessageStop, AW!A!Event0, A!Event0
<1> QED
  BY <1>1, <1>2

\* They check an event alike.
LEMMA SameToolChecks ==
    \A w, ev : /\ AW!A!ToolCheck(w, ev) = A!ToolCheck(w, ev)
               /\ AW!A!Scrape(w, ev) = A!Scrape(w, ev)
<1>1. \A w, ev : AW!A!Scrape(w, ev) = A!Scrape(w, ev)
  BY Zenon DEF AW!A!Scrape, A!Scrape
<1>2. \A ev : AW!A!ErrorFailure(ev) = A!ErrorFailure(ev)
  BY Zenon DEF AW!A!ErrorFailure, A!ErrorFailure, AW!A!InBandTransient, A!InBandTransient,
     AW!A!InBandTerminal, A!InBandTerminal, AW!A!Transient, A!Transient, AW!A!Terminal,
     A!Terminal
<1>3. \A v, ev : AW!A!ToolAccept(v, ev) = A!ToolAccept(v, ev)
  BY ZenonT(60)
  DEF AW!A!ToolAccept, A!ToolAccept, AW!A!Judged, A!Judged, AW!A!JudgeTruncated, A!JudgeTruncated,
     AW!A!StopReason, A!StopReason, AW!A!Event0, A!Event0, AW!A!Put, A!Put, AW!A!Drop,
     A!Drop, AW!A!Get, A!Get, AW!A!NewBlock, A!NewBlock, AW!A!Accumulate, A!Accumulate,
     AW!A!IsInputDelta, A!IsInputDelta, AW!A!ClosesInvalid, A!ClosesInvalid,
     AW!A!ValidObject, A!ValidObject, AW!A!NoFail, A!NoFail, AW!A!MalformedSSE,
     A!MalformedSSE, AW!A!Transient, A!Transient
<1>4. AW!A!NoFail = A!NoFail
  BY DEF AW!A!NoFail, A!NoFail
<1>5. \A w, ev : AW!A!ToolCheck(w, ev) = A!ToolCheck(w, ev)
  BY <1>2, <1>3, <1>4, Zenon DEF AW!A!ToolCheck, A!ToolCheck
<1> QED
  BY <1>1, <1>5

\* They normalize alike.
LEMMA SameNormalizer ==
    /\ \A n, ev : AW!A!NormalizerAccept(n, ev) = A!NormalizerAccept(n, ev)
    /\ \A n, evs : AW!A!Normalize(n, evs) = A!Normalize(n, evs)
    /\ AW!A!NewNormalizer = A!NewNormalizer
<1>1. \A n, ev : AW!A!NormalizerAccept(n, ev) = A!NormalizerAccept(n, ev)
  BY ZenonT(60) DEF AW!A!NormalizerAccept, A!NormalizerAccept, AW!A!Normalized, A!Normalized,
     AW!A!JudgeHeld, A!JudgeHeld, AW!A!CloseBlock, A!CloseBlock, AW!A!JudgeTruncated,
     A!JudgeTruncated, AW!A!StopReason, A!StopReason, AW!A!Event0, A!Event0, AW!A!Put, A!Put,
     AW!A!Drop, A!Drop, AW!A!Get, A!Get, AW!A!NewBlock, A!NewBlock, AW!A!Accumulate,
     A!Accumulate, AW!A!IsInputDelta, A!IsInputDelta, AW!A!ClosesInvalid, A!ClosesInvalid,
     AW!A!ValidObject, A!ValidObject, AW!A!InputDelta, A!InputDelta, AW!A!Block, A!Block,
     AW!A!NoFail, A!NoFail, AW!A!MalformedSSE, A!MalformedSSE, AW!A!Transient, A!Transient
<1>2. \A n, evs : AW!A!Normalize(n, evs) = A!Normalize(n, evs)
  BY ZenonT(60) DEF AW!A!Normalize, A!Normalize, AW!A!FoldLeft, A!FoldLeft, AW!A!MapThenFoldSet,
     A!MapThenFoldSet, AW!A!Max, A!Max, AW!A!NormalizeNext, A!NormalizeNext,
     AW!A!NormalizerAccept, A!NormalizerAccept, AW!A!Normalized, A!Normalized,
     AW!A!JudgeHeld, A!JudgeHeld, AW!A!CloseBlock, A!CloseBlock, AW!A!JudgeTruncated,
     A!JudgeTruncated, AW!A!StopReason, A!StopReason, AW!A!Event0, A!Event0, AW!A!Put,
     A!Put, AW!A!Drop, A!Drop, AW!A!Get, A!Get, AW!A!NewBlock, A!NewBlock, AW!A!Accumulate,
     A!Accumulate, AW!A!IsInputDelta, A!IsInputDelta, AW!A!ClosesInvalid, A!ClosesInvalid,
     AW!A!ValidObject, A!ValidObject, AW!A!InputDelta, A!InputDelta, AW!A!Block, A!Block,
     AW!A!NoFail, A!NoFail, AW!A!MalformedSSE, A!MalformedSSE, AW!A!Transient, A!Transient
<1>3. AW!A!NewNormalizer = A!NewNormalizer
  BY Zenon DEF AW!A!NewNormalizer, A!NewNormalizer, AW!A!NoBlocks, A!NoBlocks
<1> QED
  BY <1>1, <1>2, <1>3

\* They decide alike.
LEMMA SameAnthropicVerdicts ==
    \A x, ev : /\ AW!A!AnthropicBuffered(x, ev) = A!AnthropicBuffered(x, ev)
               /\ AW!A!AnthropicLive(x, ev) = A!AnthropicLive(x, ev)
<1>1. \A v, ev : /\ AW!A!ValidatorAccept(v, ev) = A!ValidatorAccept(v, ev)
                 /\ AW!A!StreamTerminal(v) = A!StreamTerminal(v)
  BY Zenon DEF AW!A!ValidatorAccept, A!ValidatorAccept, AW!A!StreamTerminal, A!StreamTerminal
<1>2. /\ AW!A!NoFail = A!NoFail /\ AW!A!MalformedSSE = A!MalformedSSE
      /\ AW!A!RefusalFallback = A!RefusalFallback
      /\ \A f : AW!A!Delivered(f) = A!Delivered(f)
  BY Zenon DEF AW!A!NoFail, A!NoFail, AW!A!MalformedSSE, A!MalformedSSE, AW!A!RefusalFallback,
     A!RefusalFallback, AW!A!Delivered, A!Delivered, AW!A!Transient, A!Transient, AW!A!Terminal,
     A!Terminal
<1>3. ASSUME NEW x, NEW ev
      PROVE  AW!A!AnthropicBuffered(x, ev) = A!AnthropicBuffered(x, ev)
  <2> DEFINE w   == A!Scrape(x, ev)
             chk == A!ToolCheck(w, ev)
             val == A!ValidatorAccept(w.val, ev)
  <2>1. /\ AW!A!Scrape(x, ev) = w /\ AW!A!ToolCheck(w, ev) = chk
        /\ AW!A!ValidatorAccept(w.val, ev) = val
        /\ AW!A!StreamTerminal(val) = A!StreamTerminal(val)
    BY <1>1, SameToolChecks
  <2> HIDE DEF w, chk, val
  <2> QED
    BY <1>2, <2>1, Zenon DEF AW!A!AnthropicBuffered, A!AnthropicBuffered, w, chk, val
<1>4. ASSUME NEW x, NEW ev
      PROVE  AW!A!AnthropicLive(x, ev) = A!AnthropicLive(x, ev)
  <2> DEFINE w    == A!Scrape(x, ev)
             chk  == A!ToolCheck(w, ev)
             val  == A!ValidatorAccept(w.val, ev)
             norm == A!NormalizerAccept(w.norm, ev)
  <2>1. /\ AW!A!Scrape(x, ev) = w /\ AW!A!ToolCheck(w, ev) = chk
        /\ AW!A!ValidatorAccept(w.val, ev) = val
        /\ AW!A!NormalizerAccept(w.norm, ev) = norm
        /\ AW!A!Delivered(chk.fail) = A!Delivered(chk.fail)
        /\ AW!A!StreamTerminal(val) = A!StreamTerminal(val)
    BY <1>1, <1>2, SameToolChecks, SameNormalizer
  <2> HIDE DEF w, chk, val, norm
  <2> QED
    BY <1>2, <2>1, Zenon DEF AW!A!AnthropicLive, A!AnthropicLive, w, chk, val, norm
<1> QED
  BY <1>3, <1>4

\* They begin alike.
LEMMA SameAnthropicWire ==
    \A deltas : AW!AnthropicWireOf(deltas) = AnthropicWireOf(deltas)
BY Zenon DEF AW!AnthropicWireOf, AnthropicWireOf, AW!A!AnthropicInit, A!AnthropicInit,
   AW!A!NewValidator, A!NewValidator, AW!A!NewToolValidator, A!NewToolValidator,
   AW!A!NewNormalizer, A!NewNormalizer, AW!A!NoBlocks, A!NoBlocks

\* A stream on an Anthropic wire is one of AnthropicProofs'.
LEMMA SameAnthropicStream == AnthropicStream => AW!AnthropicStream
<1>1. ASSUME NEW w, w.proto = "anthropic"
      PROVE  /\ \A ev : /\ AW!WiresBuffered(w, ev) = WiresBuffered(w, ev)
                        /\ AW!WiresLive(w, ev) = WiresLive(w, ev)
             /\ \A evs : /\ AW!WiresReplay(w, evs) = WiresReplay(w, evs)
                         /\ AW!WiresReplayPrefix(w, evs) = WiresReplayPrefix(w, evs)
             /\ AW!WiresCompleteOnEOF(w) = WiresCompleteOnEOF(w)
             /\ AW!WiresForwardable(w) = WiresForwardable(w)
  <2>1. \A ev : /\ AW!WiresBuffered(w, ev) = WiresBuffered(w, ev)
                /\ AW!WiresLive(w, ev) = WiresLive(w, ev)
    BY <1>1, SameAnthropicVerdicts, Zenon
    DEF AW!WiresBuffered, WiresBuffered, AW!WiresLive, WiresLive, AW!Of, Of
  <2>2. \A evs : /\ AW!A!AnthropicReplay(w.state, evs) = A!AnthropicReplay(w.state, evs)
                 /\ AW!A!AnthropicReplayPrefix(w.state, evs)
                      = A!AnthropicReplayPrefix(w.state, evs)
    <3>1. AW!A!NoFail = A!NoFail /\ AW!A!ReplayFailed = A!ReplayFailed
      BY DEF AW!A!NoFail, A!NoFail, AW!A!ReplayFailed, A!ReplayFailed, AW!A!Transient,
         A!Transient
    <3>2. \A evs : AW!A!AnthropicReplay(w.state, evs) = A!AnthropicReplay(w.state, evs)
      BY <3>1, SameNormalizer, Zenon DEF AW!A!AnthropicReplay, A!AnthropicReplay
    <3>3. \A evs : AW!A!AnthropicReplayPrefix(w.state, evs)
                     = A!AnthropicReplayPrefix(w.state, evs)
      BY <3>1, SameNormalizer, Zenon DEF AW!A!AnthropicReplayPrefix, A!AnthropicReplayPrefix
    <3> QED
      BY <3>2, <3>3
  <2>3. \A evs : /\ AW!WiresReplay(w, evs) = WiresReplay(w, evs)
                 /\ AW!WiresReplayPrefix(w, evs) = WiresReplayPrefix(w, evs)
    BY <1>1, <2>2, Zenon
    DEF AW!WiresReplay, WiresReplay, AW!WiresReplayPrefix, WiresReplayPrefix, AW!Of, Of
  <2>4. /\ AW!WiresCompleteOnEOF(w) = WiresCompleteOnEOF(w)
        /\ AW!WiresForwardable(w) = WiresForwardable(w)
    BY <1>1, Zenon
    DEF AW!WiresCompleteOnEOF, WiresCompleteOnEOF, AW!WiresForwardable, WiresForwardable,
        A!AnthropicCompleteOnEOF, AW!A!AnthropicCompleteOnEOF, A!AnthropicForwardable,
        AW!A!AnthropicForwardable
  <2> QED
    BY <2>1, <2>3, <2>4
<1>2. AnthropicStream => AW!OnWire("anthropic")
  BY <1>1 DEF AnthropicStream, OnWire, AW!OnWire
<1> QED
  BY <1>2, SameAnthropicWire, SameAnthropicEvents DEF AnthropicStream, AW!AnthropicStream

\* No buffered answer is a refusal while they are intercepted, and a gated client
\* with a live head has content.
Shown ==
    /\ InterceptRefusal /\ head = "buffered" => ~AW!A!IsRefusal(out)
    /\ ProgressGated /\ head = "live" /\ pc # "returned" => AW!DeltaSeen(out)

\* Every step of the engine keeps it so: the wire knows what the buffer holds.
LEMMA ShownNext ==
    ASSUME AnthropicStream, EngineInv, AW!AnthropicInv, AW!RefusalInv(ProgressGated), Shown,
           [Next]_vars
    PROVE  Shown'
<1>0. /\ TypeInv /\ SpoolInv /\ EventsInv /\ committed \in BOOLEAN
      /\ pc # "returned" => head = IF committed THEN "live" ELSE "none"
  BY DEF EngineInv, TypeInv, ControlOK
<1>1. AW!AnthropicStream
  BY SameAnthropicStream
<1>2. /\ Phase = "buffering" => out = <<>>
      /\ Phase # "ended" => wire = AW!AnthropicTagged(wire.state)
      /\ seen \in Seq(AW!A!Events)
  BY DEF AW!AnthropicInv
<1>3. CASE Quiet \/ Turn
  BY <1>3 DEF Quiet, Turn, Shown
<1>4. CASE Fault \/ HoldRefusal \/ AbortBuffered \/ BufferFails
  <2>1. /\ pc # "returned" /\ pc' = "returned" /\ head' = head
    BY <1>4 DEF Fault, HoldRefusal, AbortBuffered, BufferFails, NextBuffered, Return, Result
  <2> QED
    BY <1>0, <2>1 DEF Shown
<1>5. CASE CommitStep
  <2>1. /\ Phase = "buffering" /\ spool = seen /\ head = "none"
        /\ ProgressGated => Forwardable(wire)
    BY <1>0, <1>5 DEF CommitStep, Phase, SpoolInv
  <2>2. PICK timer : CommitLive(timer)
    BY <1>5 DEF CommitStep
  <2>3. PICK r \in Replays(ReplayPrefix(wire, seen)) :
          /\ out' = out \o r.out
          /\ r.fail # NoFail => pc' = "returned"
    BY <2>1, <2>2 DEF CommitLive, Return, Result
  <2>4. head' = "live"
    BY <2>1, <2>2 DEF CommitLive, HeadAfter
  <2>5. ASSUME ProgressGated, pc' # "returned"
        PROVE  AW!DeltaSeen(out')
    <3>1. AW!RefusalInv(TRUE)
      <4>1. ProgressGated = TRUE
        BY <2>5, PolicyAssumption
      <4> QED
        BY <4>1, ZenonT(60)
    <3>2. r \in AW!Replays(ReplayPrefix(wire, seen))
      BY <2>3, SameAnthropicReplays, Zenon
    <3>3. r.fail = AW!NoFail
      BY <2>3, <2>5, SameAnthropicFailures, Zenon
    <3>4. r.out = seen /\ AW!DeltaSeen(seen)
      BY <1>1, <2>1, <2>5, <3>1, <3>2, <3>3, AW!PrefixShowsProgress,
         WirePolicyAssumption, GroupAssumption, CandidatesAssumption
    <3>5. out' = seen
      <4>1. <<>> \o seen = seen
        BY <1>2, ConcatEmptySeq
      <4>2. out = <<>> /\ out' = out \o r.out /\ r.out = seen
        BY <1>2, <2>1, <2>3, <3>4
      <4> QED
        BY <4>1, <4>2, ZenonT(60)
    <3> QED
      BY <3>4, <3>5
  <2> QED
    BY <2>4, <2>5 DEF Shown
<1>6. CASE BufferEvent
  BY <1>6 DEF BufferEvent, NextBuffered, Shown
<1>7. CASE CompleteBuffered
  <2> DEFINE ev == Head(pending)
             w  == Buffered(wire, ev)
  <2>1. /\ Phase = "buffering" /\ spool = seen /\ head = "none"
    BY <1>0, <1>7 DEF CompleteBuffered, NextBuffered, Phase, SpoolInv
  <2>2. ev \in Event
    BY <1>0, <1>7, NextEvent DEF CompleteBuffered, NextBuffered
  <2>3. w.fail = AW!NoFail /\ w.done
    BY <1>7, SameAnthropicFailures DEF CompleteBuffered
  <2>4. PICK r \in Replays(ReplayBuffered(w.wire, Append(seen, ev))) :
          out' = out \o r.out /\ pc' = "returned" /\ head' = "buffered"
    BY <1>7, <2>1 DEF CompleteBuffered, ReplayAndReturn, HeadAfter, Return, Result
  <2> HIDE DEF ev
  <2>5. ASSUME InterceptRefusal
        PROVE  ~AW!A!IsRefusal(out')
    <3>1. r \in AW!Replays(ReplayBuffered(w.wire, Append(seen, ev)))
      BY <2>4, SameAnthropicReplays
    <3>2. w = Buffered(wire, ev)
      OBVIOUS
    <3> HIDE DEF w
    <3>3. <<>> \o r.out = r.out /\ ~AW!A!IsRefusal(r.out)
      BY <1>1, <2>1, <2>2, <2>3, <2>5, <3>1, <3>2, AW!AnswerIsNoRefusal,
         WirePolicyAssumption, GroupAssumption, CandidatesAssumption
    <3>4. out' = r.out
      BY <1>2, <2>1, <2>4, <3>3
    <3> QED
      BY <3>3, <3>4
  <2> QED
    BY <2>4, <2>5 DEF Shown
<1>8. CASE LiveEvent
  <2> DEFINE ev == Head(pending)
             v  == Live(wire, ev)
  <2>1. Phase = "live" /\ head = "live" /\ pc # "returned"
    BY <1>0, <1>8 DEF LiveEvent, Phase
  <2>2. ev \in Event
    BY <1>0, <1>8, NextEvent DEF LiveEvent
  <2>3. /\ head' = "live" /\ out' = out \o v.out
        /\ v.fail # NoFail => pc' = "returned"
    BY <2>1, <1>8 DEF LiveEvent, HeadAfterBytes, Return, Result
  <2> HIDE DEF ev
  <2>4. ASSUME ProgressGated, pc' # "returned"
        PROVE  AW!DeltaSeen(out')
    <3>1. v.fail = AW!NoFail /\ AW!DeltaSeen(out)
      BY <2>1, <2>3, <2>4, SameAnthropicFailures DEF Shown
    <3>2. AW!DeltaSeen(out \o v.out)
      BY <1>1, <2>1, <2>2, <3>1, AW!ProgressStays,
         WirePolicyAssumption, GroupAssumption, CandidatesAssumption
    <3> QED
      BY <2>3, <3>2
  <2> QED
    BY <2>3, <2>4 DEF Shown
<1>9. CASE CompleteAtEOF
  <2>1. CompleteOnEOF(wire) /\ Phase # "ended"
    BY <1>9 DEF CompleteAtEOF, CleanEOF, ChunkProcessed, Phase
  <2>2. ~CompleteOnEOF(AW!AnthropicTagged(wire.state))
    BY <1>1, AW!AnthropicOperators,
       WirePolicyAssumption, GroupAssumption, CandidatesAssumption
  <2> QED
    BY <1>2, <2>1, <2>2
<1> QED
  BY <1>0, <1>3, <1>4, <1>5, <1>6, <1>7, <1>8, <1>9, StepKinds

\* A wire of the engine is told to keep a tool's deltas for a Workflow agent,
\* and for no one else (sse.go, captureSSECore).
GatedWires == WireInits \subseteq {AnthropicWireOf(ProgressGated)}

\* What the engine keeps to on an Anthropic wire.
LEMMA AnthropicEngineInv ==
    ASSUME AnthropicStream, GatedWires
    PROVE  Spec => [](EngineInv /\ AW!RefusalInv(ProgressGated) /\ Shown)
<1> DEFINE Inv == EngineInv /\ AW!AnthropicInv /\ AW!RefusalInv(ProgressGated) /\ Shown
<1>0. AW!AnthropicStream
  BY SameAnthropicStream
<1>1. Init => Inv
  <2> SUFFICES ASSUME Init PROVE Inv
    OBVIOUS
  <2>1. EngineInv /\ AW!Init
    BY EngineInvInit, EngineIsAnAnthropicStream
  <2>2. AW!AnthropicInv
    BY <1>0, <2>1, AW!AnthropicInvInit,
       WirePolicyAssumption, GroupAssumption, CandidatesAssumption
  <2>3. AW!RefusalInv(ProgressGated)
    <3>1. WireInits \subseteq {AW!AnthropicWireOf(ProgressGated)}
      <4>1. AW!AnthropicWireOf(ProgressGated) = AnthropicWireOf(ProgressGated)
        BY SameAnthropicWire
      <4> QED
        BY <4>1 DEF GatedWires
    <3>2. ProgressGated \in BOOLEAN
      BY PolicyAssumption
    <3> QED
      BY <2>1, <3>1, <3>2, AW!RefusalInvInit,
         WirePolicyAssumption, GroupAssumption, CandidatesAssumption
  <2>4. Shown
    BY DEF Init, Shown
  <2> QED
    BY <2>1, <2>2, <2>3, <2>4
<1>2. Inv /\ [Next]_vars => Inv'
  <2> SUFFICES ASSUME Inv, [Next]_vars PROVE Inv'
    OBVIOUS
  <2>1. EngineInv' /\ [AW!Next]_(AW!vars)
    BY EngineInvNext, EngineIsAnAnthropicStream
  <2>2. AW!AnthropicInv'
    BY <1>0, <2>1, AW!AnthropicInvNext,
       WirePolicyAssumption, GroupAssumption, CandidatesAssumption
  <2>3. AW!RefusalInv(ProgressGated)'
    BY <1>0, <2>1, AW!RefusalInvNext,
       WirePolicyAssumption, GroupAssumption, CandidatesAssumption
  <2>4. Shown'
    BY ShownNext
  <2> QED
    BY <2>1, <2>2, <2>3, <2>4
<1>3. Inv => EngineInv /\ AW!RefusalInv(ProgressGated) /\ Shown
  OBVIOUS
<1> HIDE DEF Inv
<1> QED
  BY <1>1, <1>2, <1>3, PTL DEF Spec

\* An intercepted refusal is kept whole and none of it was sent, and no refusal
\* is the buffered answer while they are intercepted, for every stream of
\* Anthropic events, commit policy and bound (sse.go, process; wire.go, buffered).
THEOREM AnthropicRefusalIsKept ==
    ASSUME AnthropicStream, GatedWires
    PROVE  Spec => []RefusalIntercepted
<1>1. EngineInv /\ AW!RefusalInv(ProgressGated) /\ Shown => RefusalIntercepted
  <2> SUFFICES ASSUME EngineInv, AW!RefusalInv(ProgressGated), Shown
               PROVE  RefusalIntercepted
    OBVIOUS
  <2>1. ASSUME spoolState = "held"
        PROVE  A!IsRefusal(spool) /\ out = <<>>
    <3>1. Phase = "ended" /\ result.fail = AW!RefusalFallback /\ spool = seen
      BY <2>1, SameAnthropicFailures DEF EngineInv, SpoolInv, Phase
    <3>2. AW!A!IsRefusal(seen) /\ out = <<>>
      BY <3>1 DEF AW!RefusalInv
    <3> QED
      BY <3>1, <3>2, SameAnthropicEvents
  <2>2. InterceptRefusal /\ head = "buffered" => ~A!IsRefusal(out)
    BY SameAnthropicEvents DEF Shown
  <2> QED
    BY <2>1, <2>2 DEF RefusalIntercepted
<1> QED
  BY <1>1, AnthropicEngineInv, PTL

\* A Workflow agent with a live head has content too, for every stream of
\* Anthropic events and whenever the window ends (sse.go, captureSSECore: the
\* commit after a chunk and the keepalive timer's case).
THEOREM GatedClientIsShownProgress ==
    ASSUME AnthropicStream, GatedWires
    PROVE  Spec => []GatedClientSeesProgress
<1>1. Shown => GatedClientSeesProgress
  BY DEF Shown, GatedClientSeesProgress, AW!DeltaSeen
<1> QED
  BY <1>1, AnthropicEngineInv, PTL

=============================================================================
