---------------------------- MODULE TransportProofs ----------------------------
(***************************************************************************)
(* The upstream exchange of Transport for every set of exchanges and every *)
(* duration: a timeout is never taken for a client that left, an idle      *)
(* verdict means silence, no wait is longer than it should be, and the     *)
(* archive's copy of a body is what it says it is.                         *)
(***************************************************************************)
EXTENDS Transport, SequenceTheorems, TLAPS

\* Where a plain cancellation can come from: a client that left, or the close
\* of the body by the idle timer, after which every read is a timeout.
CausesKnown ==
    /\ callback \in {"none", "started", "timed_out", "closed"}
    /\ ctx = "canceled" => clientGone
    /\ cause = "canceled" => clientGone \/ callback = "closed"
    /\ cause \in {"none", "canceled", "deadline"}
    /\ pc = "headers" => callback = "none" /\ idleAt = 0

\* proxyOnce has no attempt context: only its request ends it.
OnceKnown ==
    /\ call \in Calls
    /\ call.consumer = "once" => ~preTimer /\ (cause = "deadline" => ctx = "deadline")

\* An error that is kept over a write already names its cause.
ErrorsKnown ==
    "canceled" \in readErr => "deadline" \in readErr \/ clientGone \/ ctx = "deadline"

DisconnectInv == CausesKnown /\ OnceKnown /\ ErrorsKnown /\ TimeoutIsNotDisconnect

\* What the library reports of an exchange that is not closed by the idle
\* timer names a cancellation only with its cause.
LEMMA LibraryErrorsKnown ==
  ASSUME DisconnectInv, callback # "closed", NEW raw \in LibraryErrors,
         "canceled" \in Joined(raw)
  PROVE  "deadline" \in Joined(raw) \/ clientGone \/ ctx = "deadline"
<1>1. raw \in {{"fault"}, {"canceled"}, {cause}}
  BY DEF LibraryErrors
<1>2. cause # "none"
  BY <1>1 DEF LibraryErrors, Joined
<1>3. CASE call.consumer = "once"
  BY <1>2, <1>3 DEF DisconnectInv, CausesKnown, OnceKnown
<1>4. CASE call.consumer # "once" /\ cause = "deadline"
  BY <1>2, <1>4 DEF Joined
<1>5. CASE cause = "canceled"
  BY <1>5 DEF DisconnectInv, CausesKnown
<1> QED
  BY <1>2, <1>3, <1>4, <1>5 DEF DisconnectInv, CausesKnown

\* No classifier takes a known error for a disconnect.
LEMMA VerdictsKnown ==
  ASSUME DisconnectInv, ~clientGone, NEW err,
         "canceled" \in err => "deadline" \in err \/ ctx = "deadline"
  PROVE  ClassifyTransport(err) # "client_gone" /\ Judged(err) # "client_gone"
BY DEF DisconnectInv, CausesKnown, ClassifyTransport, Judged

\* The context and the timers keep the causes known.
LEMMA DisconnectContext ==
  ASSUME DisconnectInv,
         Tick \/ ClientLeaves \/ PreTimerFires \/ IdleTimerFires \/ CallbackMarks
           \/ CallbackCloses
  PROVE  DisconnectInv'
<1> USE DEF DisconnectInv, CausesKnown, OnceKnown, ErrorsKnown, TimeoutIsNotDisconnect, Cancel
<1>1. CASE Tick
  BY <1>1 DEF Tick, timer, body
<1>2. CASE ClientLeaves
  BY <1>2 DEF ClientLeaves, timer, body
<1>3. CASE PreTimerFires
  BY <1>3 DEF PreTimerFires, timer, body
<1>4. CASE IdleTimerFires
  BY <1>4 DEF IdleTimerFires, body
<1>5. CASE CallbackMarks
  BY <1>5 DEF CallbackMarks, body
<1>6. CASE CallbackCloses
  BY <1>6 DEF CallbackCloses, body
<1> QED
  BY <1>1, <1>2, <1>3, <1>4, <1>5, <1>6

\* So do the headers.
LEMMA DisconnectHeaders ==
  ASSUME DisconnectInv, DoFails \/ HeadersArrive \/ HeadFails
  PROVE  DisconnectInv'
<1> USE DEF DisconnectInv, CausesKnown, OnceKnown, ErrorsKnown, TimeoutIsNotDisconnect
<1>1. CASE DoFails
  <2>1. PICK err \in LibraryErrors \cup {{"deadline"}} :
              readErr' = Joined(err) /\ Finish(ClassifyTransport(Joined(err)))
    BY <1>1 DEF DoFails
  <2>2. callback # "closed"
    BY <1>1 DEF DoFails
  <2>3. "canceled" \in Joined(err) => "deadline" \in Joined(err) \/ clientGone \/ ctx = "deadline"
    <3>1. CASE err \in LibraryErrors
      BY <2>2, <3>1, LibraryErrorsKnown
    <3>2. CASE err = {"deadline"}
      BY <3>2 DEF Joined
    <3> QED
      BY <3>1, <3>2
  <2>4. ~clientGone => ClassifyTransport(Joined(err)) # "client_gone"
    BY <2>3, VerdictsKnown
  <2> QED
    BY <1>1, <2>1, <2>3, <2>4 DEF DoFails, Finish, body
<1>2. CASE HeadersArrive
  BY <1>2 DEF HeadersArrive, StartRead, body
<1>3. CASE HeadFails
  BY <1>3 DEF HeadFails, Finish
<1> QED
  BY <1>1, <1>2, <1>3

\* And so does the end of a copy with a known error.
LEMMA DisconnectEndCopy ==
  ASSUME DisconnectInv, NEW err, NEW done, EndCopy(err, done),
         "canceled" \in err => "deadline" \in err \/ clientGone \/ ctx = "deadline",
         UNCHANGED <<call, ctx, clientGone, cause, callback>>,
         ErrorsKnown'
  PROVE  DisconnectInv'
<1>1. ~clientGone => verdict' # "client_gone"
  BY VerdictsKnown DEF EndCopy, Finish
<1>2. pc' = "done" /\ ~preTimer'
  BY DEF EndCopy, Finish
<1> QED
  BY <1>1, <1>2
  DEF DisconnectInv, CausesKnown, OnceKnown, TimeoutIsNotDisconnect

\* What a read returns is known.
LEMMA ReturnedErrKnown ==
  ASSUME DisconnectInv, NEW raw \in {{}, {"eof"}} \cup LibraryErrors
  PROVE  "canceled" \in ReturnedErr(raw) =>
           "deadline" \in ReturnedErr(raw) \/ clientGone \/ ctx = "deadline"
<1>1. CASE TimedOut
  BY <1>1 DEF ReturnedErr
<1>2. CASE ~TimedOut /\ raw \in {{}, {"eof"}}
  BY <1>2 DEF ReturnedErr
<1>3. CASE ~TimedOut /\ raw \notin {{}, {"eof"}}
  BY <1>3, LibraryErrorsKnown DEF ReturnedErr, TimedOut
<1> QED
  BY <1>1, <1>2, <1>3

\* A read keeps the causes known, whatever it returns.
LEMMA DisconnectRead ==
  ASSUME DisconnectInv, Read
  PROVE  DisconnectInv'
<1>1. PICK pieces \in {<<>>} \cup IF Len(got) < MaxPieces THEN {<<Len(got) + 1>>} ELSE {} :
        \E raw \in {{}, {"eof"}} \cup LibraryErrors : ReadReturns(pieces, raw)
  BY DEF Read
<1>2. PICK raw \in {{}, {"eof"}} \cup LibraryErrors : ReadReturns(pieces, raw)
  BY <1>1
<1> DEFINE err == ReturnedErr(raw)
<1>3. "canceled" \in err => "deadline" \in err \/ clientGone \/ ctx = "deadline"
  BY ReturnedErrKnown
<1>4. readErr' = err /\ UNCHANGED <<call, ctx, clientGone, cause, callback>>
  BY <1>2 DEF ReadReturns
<1>5. ErrorsKnown'
  BY <1>3, <1>4 DEF ErrorsKnown
<1>6. CASE pieces # <<>>
  <2>1. pc' = "writing" /\ UNCHANGED <<preTimer, verdict>>
    BY <1>2, <1>6 DEF ReadReturns
  <2> QED
    BY <1>4, <1>5, <2>1 DEF DisconnectInv, CausesKnown, OnceKnown, TimeoutIsNotDisconnect
<1>7. CASE pieces = <<>>
  <2>1. EndCopy(err \ {"eof"}, capture)
    BY <1>2, <1>7 DEF ReadReturns
  <2> QED
    BY <1>3, <1>4, <1>5, <2>1, DisconnectEndCopy
<1> QED
  BY <1>6, <1>7

\* And a write to the destination, with the error the piece came with.
LEMMA DisconnectWrite ==
  ASSUME DisconnectInv, WriteSucceeds \/ WriteFails
  PROVE  DisconnectInv'
<1>1. CASE WriteSucceeds
  <2>1. UNCHANGED <<call, ctx, clientGone, cause, callback, readErr>>
    BY <1>1 DEF WriteSucceeds
  <2>2. ErrorsKnown'
    BY <2>1 DEF DisconnectInv, ErrorsKnown
  <2>3. PICK done \in IF call.archived THEN CaptureWrites(capture, got[Len(got)]) ELSE {capture} :
         CASE readErr # {} -> EndCopy(readErr \ {"eof"}, done) /\ UNCHANGED readSince
           [] readErr = {} /\ PrefixRead -> EndCopy({}, done) /\ UNCHANGED readSince
           [] readErr = {} /\ ~PrefixRead /\ TimedOut ->
                EndCopy({"deadline"}, done) /\ UNCHANGED readSince
           [] OTHER -> StartRead /\ capture' = done /\ UNCHANGED <<preTimer, verdict>>
    BY <1>1 DEF WriteSucceeds
  <2>4. CASE readErr # {}
    BY <2>1, <2>2, <2>3, <2>4, DisconnectEndCopy DEF DisconnectInv, ErrorsKnown
  <2>5. CASE readErr = {} /\ PrefixRead
    BY <2>1, <2>2, <2>3, <2>5, DisconnectEndCopy
  <2>6. CASE readErr = {} /\ ~PrefixRead /\ TimedOut
    BY <2>1, <2>2, <2>3, <2>6, DisconnectEndCopy
  <2>7. CASE readErr = {} /\ ~PrefixRead /\ ~TimedOut
    <3>1. pc' = "reading" /\ UNCHANGED <<preTimer, verdict>>
      BY <2>3, <2>7 DEF StartRead
    <3> QED
      BY <2>1, <2>2, <3>1 DEF DisconnectInv, CausesKnown, OnceKnown, TimeoutIsNotDisconnect
  <2> QED
    BY <2>4, <2>5, <2>6, <2>7
<1>2. CASE WriteFails
  <2>1. UNCHANGED <<call, ctx, clientGone, cause, callback, readErr>>
    BY <1>2 DEF WriteFails
  <2>2. ErrorsKnown'
    BY <2>1 DEF DisconnectInv, ErrorsKnown
  <2>3. PICK err \in {{"spool"}, {"write"}, {"write_deadline"}} : EndCopy(err, capture)
    BY <1>2 DEF WriteFails
  <2> QED
    BY <2>1, <2>2, <2>3, DisconnectEndCopy
<1> QED
  BY <1>1, <1>2

\* A timeout of the proxy is never taken for a client that left (transport.go,
\* roundTripBefore and cancelBody; classify.go, classifyTransport).
THEOREM TimeoutsAreTold == Spec => []TimeoutIsNotDisconnect
<1>1. Init => DisconnectInv
  <2> SUFFICES ASSUME Init
               PROVE  DisconnectInv
    OBVIOUS
  <2>1. CausesKnown
    BY DEF Init, CausesKnown
  <2>2. call \in Calls
    BY DEF Init
  <2>3. call.consumer = "once" => call.commitBy = Never /\ Never # 0
    BY <2>2, TransportAssumption DEF Never
  <2>4. OnceKnown
    BY <2>2, <2>3 DEF Init, OnceKnown
  <2>5. ErrorsKnown /\ TimeoutIsNotDisconnect
    BY DEF Init, ErrorsKnown, TimeoutIsNotDisconnect
  <2> QED
    BY <2>1, <2>4, <2>5 DEF DisconnectInv
<1>2. DisconnectInv /\ [Next]_vars => DisconnectInv'
  <2>1. ASSUME DisconnectInv, Done \/ UNCHANGED vars
        PROVE  DisconnectInv'
    BY <2>1 DEF Done, vars, DisconnectInv, CausesKnown, OnceKnown, ErrorsKnown,
                TimeoutIsNotDisconnect
  <2> QED
    BY <2>1, DisconnectContext, DisconnectHeaders, DisconnectRead, DisconnectWrite DEF Next
<1>3. DisconnectInv => TimeoutIsNotDisconnect
  BY DEF DisconnectInv
<1> QED
  BY <1>1, <1>2, <1>3, PTL DEF Spec

-----------------------------------------------------------------------------
(* Durations                                                               *)

\* What is measured, and how long.  The idle timer belongs to a read, and once
\* it has fired the read it belonged to was that long.
IdleKnown ==
    /\ now \in Nat /\ readSince \in Nat /\ longest \in Nat /\ idleAt \in Nat
    /\ callback \in {"none", "started", "timed_out", "closed"}
    /\ pc \in {"headers", "reading", "writing", "done"}
    /\ now <= Lifetime /\ readSince <= now
    /\ idleAt # 0 => pc = "reading" /\ idleAt = readSince + Idle
    /\ pc = "reading" => now <= readSince + Idle
    /\ pc = "reading" /\ callback = "none" => idleAt = readSince + Idle
    /\ callback # "none" =>
         longest >= Idle \/ (pc = "reading" /\ now >= readSince + Idle)

\* An attempt within a window is either ended or guarded by its timer.
WindowKnown ==
    /\ call \in Calls
    /\ call.commitBy = 0 => cause # "none"
    /\ pc # "done" =>
         /\ now <= call.commitBy
         /\ cause # "none" \/ call.commitBy \in {0, Never} \/ preTimer

TimesInv == IdleKnown /\ WindowKnown /\ IdleIsSilence

\* What the assumption says of the exchange.
LEMMA CallKnown ==
  ASSUME call \in Calls
  PROVE  /\ call.commitBy \in Nat /\ call.commitBy <= Lifetime + 1
         /\ call.consumer = "once" => call.commitBy = Lifetime + 1
         /\ Lifetime \in Nat /\ Idle \in Nat /\ Idle # 0
BY TransportAssumption DEF Never

\* An end of the copy is an idle verdict only after the timer has fired.
LEMMA IdleVerdict ==
  ASSUME NEW err, NEW done, EndCopy(err, done), verdict' = "upstream_idle"
  PROVE  callback # "none"
BY DEF EndCopy, Finish, Judged, TimedOut, ClassifyTransport

\* The clock only moves when no timer is due.
LEMMA TimesTick ==
  ASSUME TimesInv, Tick
  PROVE  TimesInv'
<1>1. /\ now' = now + 1 /\ now < Lifetime /\ ~Pending /\ pc # "done"
      /\ UNCHANGED <<call, pc, preTimer, idleAt, callback, readSince, longest, verdict>>
  BY DEF Tick, timer
<1>2. cause # "none" => cause' # "none"
  BY DEF Tick, Cancel
<1>3. /\ callback # "started" /\ callback # "timed_out"
      /\ ~(idleAt # 0 /\ now >= idleAt)
      /\ ~(preTimer /\ now >= call.commitBy)
      /\ pc \in {"headers", "reading"} => cause = "none" /\ callback # "closed"
      /\ call.consumer = "once" \/ pc # "writing"
  BY <1>1 DEF Pending
<1>4. /\ call.commitBy \in Nat
      /\ call.consumer = "once" => call.commitBy = Lifetime + 1
      /\ Lifetime \in Nat /\ Idle \in Nat /\ Idle # 0
  BY CallKnown DEF TimesInv, WindowKnown
<1>5. IdleKnown'
  BY <1>1, <1>3, <1>4 DEF TimesInv, IdleKnown
<1>6. now' <= call.commitBy
  <2>1. CASE pc = "writing"
    BY <1>1, <1>3, <1>4, <2>1 DEF TimesInv, IdleKnown
  <2>2. CASE pc # "writing"
    <3>1. cause = "none"
      BY <1>1, <1>3, <2>2 DEF TimesInv, IdleKnown
    <3>2. CASE call.commitBy = Never
      BY <1>1, <1>4, <3>2 DEF Never, TimesInv, IdleKnown
    <3>3. CASE call.commitBy # Never
      BY <1>1, <1>3, <1>4, <3>1, <3>3 DEF TimesInv, IdleKnown, WindowKnown
    <3> QED
      BY <3>2, <3>3
  <2> QED
    BY <2>1, <2>2
<1>7. WindowKnown'
  BY <1>1, <1>2, <1>6 DEF TimesInv, WindowKnown
<1>8. IdleIsSilence'
  BY <1>1 DEF TimesInv, IdleIsSilence
<1> QED
  BY <1>5, <1>7, <1>8 DEF TimesInv

\* The other events of the context and the timers take no time.
LEMMA TimesContext ==
  ASSUME TimesInv,
         ClientLeaves \/ PreTimerFires \/ IdleTimerFires \/ CallbackMarks \/ CallbackCloses
  PROVE  TimesInv'
<1> USE DEF TimesInv, IdleKnown, WindowKnown, IdleIsSilence, Cancel
<1>1. CASE ClientLeaves
  BY <1>1 DEF ClientLeaves, timer
<1>2. CASE PreTimerFires
  BY <1>2 DEF PreTimerFires, timer
<1>3. CASE IdleTimerFires
  BY <1>3, TransportAssumption DEF IdleTimerFires
<1>4. CASE CallbackMarks
  BY <1>4 DEF CallbackMarks
<1>5. CASE CallbackCloses
  BY <1>5 DEF CallbackCloses
<1> QED
  BY <1>1, <1>2, <1>3, <1>4, <1>5

\* The end of a copy stops both timers.
LEMMA TimesEndCopy ==
  ASSUME TimesInv, NEW err, NEW done, EndCopy(err, done),
         UNCHANGED <<now, call, cause, callback, readSince>>,
         longest' \in Nat, longest' >= longest,
         callback # "none" => longest' >= Idle
  PROVE  TimesInv'
<1>1. pc' = "done" /\ idleAt' = 0
  BY DEF EndCopy, Finish
<1>2. IdleKnown'
  BY <1>1 DEF TimesInv, IdleKnown
<1>3. WindowKnown'
  BY <1>1 DEF TimesInv, WindowKnown
<1>4. IdleIsSilence'
  BY IdleVerdict DEF IdleIsSilence
<1> QED
  BY <1>2, <1>3, <1>4 DEF TimesInv

\* The headers end without a body, or begin the first read.
LEMMA TimesHeaders ==
  ASSUME TimesInv, DoFails \/ HeadersArrive \/ HeadFails
  PROVE  TimesInv'
<1>1. CASE DoFails
  <2>1. PICK err \in LibraryErrors \cup {{"deadline"}} :
              Finish(ClassifyTransport(Joined(err)))
    BY <1>1 DEF DoFails
  <2>2. /\ pc = "headers" /\ pc' = "done" /\ idleAt' = 0 /\ verdict' # "upstream_idle"
        /\ UNCHANGED <<now, call, cause, callback, readSince, longest>>
    BY <1>1, <2>1 DEF DoFails, Finish, ClassifyTransport
  <2> QED
    BY <2>2 DEF TimesInv, IdleKnown, WindowKnown, IdleIsSilence
<1>2. CASE HeadersArrive
  <2>1. /\ pc = "headers" /\ pc' = "reading" /\ readSince' = now /\ idleAt' = now + Idle
        /\ UNCHANGED <<now, call, cause, preTimer, callback, longest, verdict>>
    BY <1>2 DEF HeadersArrive, StartRead
  <2> QED
    BY <2>1, TransportAssumption DEF TimesInv, IdleKnown, WindowKnown, IdleIsSilence
<1>3. CASE HeadFails
  <2>1. /\ pc = "headers" /\ pc' = "done" /\ idleAt' = 0
        /\ verdict' = Judged({"write"})
        /\ UNCHANGED <<now, call, cause, callback, readSince, longest>>
    BY <1>3 DEF HeadFails, Finish
  <2>2. verdict' = "upstream_idle" => callback # "none"
    BY <2>1 DEF Judged, TimedOut, ClassifyTransport
  <2> QED
    BY <2>1, <2>2 DEF TimesInv, IdleKnown, WindowKnown, IdleIsSilence
<1> QED
  BY <1>1, <1>2, <1>3

\* A read adds its own time to the history before its verdict is given.
LEMMA TimesRead ==
  ASSUME TimesInv, Read
  PROVE  TimesInv'
<1>1. PICK pieces \in {<<>>} \cup IF Len(got) < MaxPieces THEN {<<Len(got) + 1>>} ELSE {} :
        \E raw \in {{}, {"eof"}} \cup LibraryErrors : ReadReturns(pieces, raw)
  BY DEF Read
<1>2. PICK raw \in {{}, {"eof"}} \cup LibraryErrors : ReadReturns(pieces, raw)
  BY <1>1
<1>3. /\ pc = "reading"
      /\ UNCHANGED <<now, call, cause, callback, readSince>>
      /\ longest' = IF now - readSince > longest THEN now - readSince ELSE longest
  BY <1>2 DEF ReadReturns
<1>4. /\ longest' \in Nat /\ longest' >= longest
      /\ callback # "none" => longest' >= Idle
  BY <1>3, TransportAssumption DEF TimesInv, IdleKnown
<1>5. CASE pieces # <<>>
  <2>1. pc' = "writing" /\ idleAt' = 0 /\ UNCHANGED <<preTimer, verdict>>
    BY <1>2, <1>5 DEF ReadReturns
  <2> QED
    BY <1>3, <1>4, <2>1, TransportAssumption
    DEF TimesInv, IdleKnown, WindowKnown, IdleIsSilence
<1>6. CASE pieces = <<>>
  <2>1. EndCopy(ReturnedErr(raw) \ {"eof"}, capture)
    BY <1>2, <1>6 DEF ReadReturns
  <2> QED
    BY <1>3, <1>4, <2>1, TimesEndCopy
<1> QED
  BY <1>5, <1>6

\* A write ends the copy or begins the next read.
LEMMA TimesWrite ==
  ASSUME TimesInv, WriteSucceeds \/ WriteFails
  PROVE  TimesInv'
<1>1. pc = "writing" /\ UNCHANGED <<now, call, cause, callback, longest>>
  BY DEF WriteSucceeds, WriteFails
<1>2. longest \in Nat /\ (callback # "none" => longest >= Idle)
  BY <1>1 DEF TimesInv, IdleKnown
<1>3. ASSUME NEW err, NEW done, EndCopy(err, done), UNCHANGED readSince
      PROVE  TimesInv'
  BY <1>1, <1>2, <1>3, TimesEndCopy
<1>4. CASE WriteSucceeds
  <2>1. PICK done \in IF call.archived THEN CaptureWrites(capture, got[Len(got)]) ELSE {capture} :
         CASE readErr # {} -> EndCopy(readErr \ {"eof"}, done) /\ UNCHANGED readSince
           [] readErr = {} /\ PrefixRead -> EndCopy({}, done) /\ UNCHANGED readSince
           [] readErr = {} /\ ~PrefixRead /\ TimedOut ->
                EndCopy({"deadline"}, done) /\ UNCHANGED readSince
           [] OTHER -> StartRead /\ capture' = done /\ UNCHANGED <<preTimer, verdict>>
    BY <1>4 DEF WriteSucceeds
  <2>2. CASE readErr # {} \/ PrefixRead \/ TimedOut
    BY <1>3, <2>1, <2>2
  <2>3. CASE ~(readErr # {} \/ PrefixRead \/ TimedOut)
    <3>1. /\ pc' = "reading" /\ readSince' = now /\ idleAt' = now + Idle
          /\ UNCHANGED <<preTimer, verdict>>
      BY <2>1, <2>3 DEF StartRead
    <3> QED
      BY <1>1, <1>2, <3>1, TransportAssumption
      DEF TimesInv, IdleKnown, WindowKnown, IdleIsSilence
  <2> QED
    BY <2>2, <2>3
<1>5. CASE WriteFails
  <2>1. UNCHANGED readSince
    BY <1>5 DEF WriteFails
  <2>2. PICK err \in {{"spool"}, {"write"}, {"write_deadline"}} : EndCopy(err, capture)
    BY <1>5 DEF WriteFails
  <2> QED
    BY <1>3, <2>1, <2>2
<1> QED
  BY <1>4, <1>5

\* The three invariants of an exchange in time hold in every state.
LEMMA TimesAlways == Spec => []TimesInv
<1>1. Init => TimesInv
  <2> SUFFICES ASSUME Init
               PROVE  TimesInv
    OBVIOUS
  <2>1. /\ now = 0 /\ call \in Calls /\ pc = "headers" /\ idleAt = 0
        /\ callback = "none" /\ readSince = 0 /\ longest = 0 /\ verdict = "none"
    BY DEF Init
  <2>2. /\ call.commitBy = 0 => cause # "none"
        /\ cause # "none" \/ call.commitBy \in {0, Never} \/ preTimer
    BY DEF Init
  <2>3. call.commitBy \in Nat /\ Lifetime \in Nat
    BY <2>1, CallKnown
  <2> QED
    BY <2>1, <2>2, <2>3 DEF TimesInv, IdleKnown, WindowKnown, IdleIsSilence
<1>2. TimesInv /\ [Next]_vars => TimesInv'
  <2>1. ASSUME TimesInv, Done \/ UNCHANGED vars
        PROVE  TimesInv'
    BY <2>1 DEF Done, vars, TimesInv, IdleKnown, WindowKnown, IdleIsSilence
  <2> QED
    BY <2>1, TimesTick, TimesContext, TimesHeaders, TimesRead, TimesWrite DEF Next
<1> QED
  BY <1>1, <1>2, PTL DEF Spec

\* An idle verdict means that the upstream was silent for the whole period
\* (transport.go, byteIdleReader).
THEOREM IdleIsTold == Spec => []IdleIsSilence
<1>1. TimesInv => IdleIsSilence
  BY DEF TimesInv
<1> QED
  BY <1>1, TimesAlways, PTL

\* No wait for the upstream outlasts the window, the request or the idle period
\* (transport.go, roundTripBefore and byteIdleReader).
THEOREM WaitsEnd == Spec => []WaitsAreBounded
<1>1. TimesInv => WaitsAreBounded
  <2> SUFFICES ASSUME TimesInv, pc \in {"headers", "reading"}
               PROVE  /\ now <= call.commitBy /\ now <= Lifetime
                      /\ pc = "reading" => now - readSince <= Idle
    BY DEF WaitsAreBounded
  <2>1. now <= call.commitBy /\ now <= Lifetime
    BY DEF TimesInv, IdleKnown, WindowKnown
  <2>2. pc = "reading" => now - readSince <= Idle
    BY TransportAssumption DEF TimesInv, IdleKnown
  <2> QED
    BY <2>1, <2>2
<1> QED
  BY <1>1, TimesAlways, PTL

-----------------------------------------------------------------------------
(* Clean ends                                                              *)

\* Between a read and its write the destination lacks exactly the last piece;
\* a clean end that came with it is remembered over the write.
CopyInv ==
    /\ got \in Seq(Nat) /\ kept \in Seq(Nat)
    /\ cause \in {"none", "canceled", "deadline"}
    /\ pc # "done" => verdict = "none"
    /\ pc \in {"headers", "reading"} => kept = got
    /\ pc = "writing" =>
         /\ got = Append(kept, got[Len(got)])
         /\ readErr = {"eof"} => bodyEnd = "eof"
    /\ CutNeverClean

\* Only the end of a copy without an error counts as complete.
LEMMA CompleteEnd ==
  ASSUME NEW err, NEW done, EndCopy(err, done), verdict' = "complete"
  PROVE  err = {} /\ call.consumer # "error"
BY DEF EndCopy, Finish, Judged, ClassifyTransport

\* What is returned as a clean end was one.
LEMMA CleanEnd ==
  ASSUME CopyInv, NEW raw \in {{}, {"eof"}} \cup LibraryErrors, ReturnedErr(raw) = {"eof"}
  PROVE  raw = {"eof"}
<1>1. ~TimedOut
  BY DEF ReturnedErr
<1>2. CASE raw \in {{}, {"eof"}}
  BY <1>1, <1>2 DEF ReturnedErr
<1>3. CASE raw \in LibraryErrors
  <2>1. "eof" \notin raw
    BY <1>3 DEF LibraryErrors, CopyInv
  <2>2. Joined(raw) = {"eof"}
    BY <1>1, <2>1 DEF ReturnedErr
  <2>3. "eof" \notin Joined(raw)
    BY <2>1 DEF Joined, CopyInv
  <2> QED
    BY <2>2, <2>3
<1> QED
  BY <1>2, <1>3

\* A read keeps the copy one piece behind at most.
LEMMA CopyRead ==
  ASSUME CopyInv, Read
  PROVE  CopyInv'
<1>1. PICK pieces \in {<<>>} \cup IF Len(got) < MaxPieces THEN {<<Len(got) + 1>>} ELSE {} :
        \E raw \in {{}, {"eof"}} \cup LibraryErrors : ReadReturns(pieces, raw)
  BY DEF Read
<1>2. PICK raw \in {{}, {"eof"}} \cup LibraryErrors : ReadReturns(pieces, raw)
  BY <1>1
<1>3. /\ pc = "reading" /\ UNCHANGED <<cause, call, kept>> /\ kept = got
      /\ readErr' = ReturnedErr(raw) /\ got' = got \o pieces
      /\ pieces # <<>> \/ ReturnedErr(raw) # {}
  BY <1>2 DEF ReadReturns, CopyInv
<1>4. readErr' = {"eof"} => bodyEnd' = "eof"
  BY <1>2, <1>3, CleanEnd DEF ReadReturns
<1>5. CASE pieces # <<>>
  <2>1. pc' = "writing" /\ verdict' = verdict
    BY <1>2, <1>5 DEF ReadReturns
  <2>2. got' = Append(got, Len(got) + 1) /\ got' \in Seq(Nat)
    <3>1. pieces = <<Len(got) + 1>> /\ got \in Seq(Nat)
      BY <1>1, <1>5 DEF CopyInv
    <3>2. Len(got) + 1 \in Nat
      BY <3>1
    <3>3. got \o <<Len(got) + 1>> = Append(got, Len(got) + 1)
      BY <3>1, <3>2
    <3> QED
      BY <1>3, <3>1, <3>2, <3>3
  <2>3. got' = Append(kept', got'[Len(got')])
    BY <1>3, <2>2 DEF CopyInv
  <2>4. CutNeverClean'
    BY <1>3, <2>1 DEF CopyInv, CutNeverClean
  <2> QED
    BY <1>3, <1>4, <2>1, <2>2, <2>3, <2>4 DEF CopyInv
<1>6. CASE pieces = <<>>
  <2>1. EndCopy(ReturnedErr(raw) \ {"eof"}, capture) /\ got' = got
    BY <1>2, <1>3, <1>6 DEF ReadReturns, CopyInv
  <2>2. pc' = "done"
    BY <2>1 DEF EndCopy, Finish
  <2>3. verdict' = "complete" => readErr' = {"eof"}
    BY <1>3, <1>6, <2>1, CompleteEnd
  <2> QED
    BY <1>3, <1>4, <2>1, <2>2, <2>3 DEF CopyInv, CutNeverClean
<1> QED
  BY <1>5, <1>6

\* A write catches up with the read, or ends the copy with an error.
LEMMA CopyWrite ==
  ASSUME CopyInv, WriteSucceeds \/ WriteFails
  PROVE  CopyInv'
<1>1. /\ pc = "writing" /\ UNCHANGED <<got, cause, call, readErr, bodyEnd>>
      /\ verdict = "none" /\ got = Append(kept, got[Len(got)])
      /\ got \in Seq(Nat) /\ kept \in Seq(Nat)
      /\ readErr = {"eof"} => bodyEnd = "eof"
  BY DEF WriteSucceeds, WriteFails, CopyInv
<1>2. CASE WriteSucceeds
  <2>1. kept' = got
    BY <1>1, <1>2 DEF WriteSucceeds
  <2>2. PICK done \in IF call.archived THEN CaptureWrites(capture, got[Len(got)]) ELSE {capture} :
         CASE readErr # {} -> EndCopy(readErr \ {"eof"}, done) /\ UNCHANGED readSince
           [] readErr = {} /\ PrefixRead -> EndCopy({}, done) /\ UNCHANGED readSince
           [] readErr = {} /\ ~PrefixRead /\ TimedOut ->
                EndCopy({"deadline"}, done) /\ UNCHANGED readSince
           [] OTHER -> StartRead /\ capture' = done /\ UNCHANGED <<preTimer, verdict>>
    BY <1>2 DEF WriteSucceeds
  <2>3. ASSUME NEW err, EndCopy(err, done),
               err = {} => readErr = {"eof"} \/ call.consumer = "error"
        PROVE  CopyInv'
    <3>1. pc' = "done"
      BY <2>3 DEF EndCopy, Finish
    <3>2. verdict' = "complete" => readErr = {"eof"}
      BY <2>3, CompleteEnd
    <3> QED
      BY <1>1, <2>1, <3>1, <3>2 DEF CopyInv, CutNeverClean
  <2>4. CASE readErr # {}
    <3>1. readErr \ {"eof"} = {} => readErr = {"eof"}
      BY <2>4
    <3> QED
      BY <2>2, <2>3, <2>4, <3>1
  <2>5. CASE readErr = {} /\ PrefixRead
    BY <2>2, <2>3, <2>5 DEF PrefixRead
  <2>6. CASE readErr = {} /\ ~PrefixRead /\ TimedOut
    BY <2>2, <2>3, <2>6
  <2>7. CASE readErr = {} /\ ~PrefixRead /\ ~TimedOut
    <3>1. pc' = "reading" /\ verdict' = verdict
      BY <2>2, <2>7 DEF StartRead
    <3> QED
      BY <1>1, <2>1, <3>1 DEF CopyInv, CutNeverClean
  <2> QED
    BY <2>4, <2>5, <2>6, <2>7
<1>3. CASE WriteFails
  <2>1. kept' = kept
    BY <1>3 DEF WriteFails
  <2>2. PICK err \in {{"spool"}, {"write"}, {"write_deadline"}} : EndCopy(err, capture)
    BY <1>3 DEF WriteFails
  <2>3. pc' = "done"
    BY <2>2 DEF EndCopy, Finish
  <2>4. verdict' # "complete"
    BY <2>2, CompleteEnd
  <2> QED
    BY <1>1, <2>1, <2>3, <2>4 DEF CopyInv, CutNeverClean
<1> QED
  BY <1>2, <1>3

\* Nothing else touches the body.
LEMMA CopyRest ==
  ASSUME CopyInv,
         \/ Tick \/ ClientLeaves \/ PreTimerFires
         \/ IdleTimerFires \/ CallbackMarks \/ CallbackCloses
         \/ DoFails \/ HeadersArrive \/ HeadFails \/ Done \/ UNCHANGED vars
  PROVE  CopyInv'
<1> USE DEF CopyInv, CutNeverClean, Cancel
<1>1. CASE Tick
  BY <1>1 DEF Tick, body, timer
<1>2. CASE ClientLeaves
  BY <1>2 DEF ClientLeaves, body, timer
<1>3. CASE PreTimerFires
  BY <1>3 DEF PreTimerFires, body, timer
<1>4. CASE IdleTimerFires
  BY <1>4 DEF IdleTimerFires, body
<1>5. CASE CallbackMarks
  BY <1>5 DEF CallbackMarks, body
<1>6. CASE CallbackCloses
  BY <1>6 DEF CallbackCloses, body
<1>7. CASE DoFails
  <2>1. pc' = "done" /\ verdict' # "complete" /\ UNCHANGED <<got, kept, cause>>
    BY <1>7 DEF DoFails, Finish, ClassifyTransport, body
  <2> QED
    BY <2>1
<1>8. CASE HeadersArrive
  <2>1. pc = "headers" /\ pc' = "reading" /\ UNCHANGED <<got, kept, cause, verdict>>
    BY <1>8 DEF HeadersArrive, StartRead, body
  <2> QED
    BY <2>1
<1>9. CASE HeadFails
  <2>1. pc' = "done" /\ verdict' # "complete" /\ UNCHANGED <<got, kept, cause>>
    BY <1>9 DEF HeadFails, Finish, Judged, ClassifyTransport
  <2> QED
    BY <2>1
<1>10. CASE Done \/ UNCHANGED vars
  BY <1>10 DEF Done, vars
<1> QED
  BY <1>1, <1>2, <1>3, <1>4, <1>5, <1>6, <1>7, <1>8, <1>9, <1>10

\* A body counts as complete only after a clean end with every piece accepted
\* (main.go, bufferNonSSE and proxyOnce).
THEOREM CutsAreTold == Spec => []CutNeverClean
<1>1. Init => CopyInv
  <2> SUFFICES ASSUME Init
               PROVE  CopyInv
    OBVIOUS
  <2>1. got = <<>> /\ kept = <<>> /\ pc = "headers" /\ verdict = "none"
    BY DEF Init
  <2>2. cause \in {"none", "canceled", "deadline"}
    BY DEF Init
  <2> QED
    BY <2>1, <2>2 DEF CopyInv, CutNeverClean
<1>2. CopyInv /\ [Next]_vars => CopyInv'
  BY CopyRead, CopyWrite, CopyRest DEF Next
<1>3. CopyInv => CutNeverClean
  BY DEF CopyInv
<1> QED
  BY <1>1, <1>2, <1>3, PTL DEF Spec

-----------------------------------------------------------------------------
(* The archive's copy                                                      *)

Captures ==
    [buf: Seq(Nat), file: Seq(Nat), inFile: BOOLEAN, size: Nat, err: BOOLEAN]

\* s is how t begins.
Begins(s, t) == Len(s) <= Len(t) /\ \A i \in 1 .. Len(s) : s[i] = t[i]

\* The copy is what the destination accepted, or the beginning of it once it
\* failed; without an error the exchange ended with all of the body.
HonestInv ==
    /\ call \in Calls /\ capture \in Captures
    /\ Begins(ArchivedData(capture), kept) /\ Begins(kept, got)
    /\ call.archived /\ ~capture.err =>
         ArchivedData(capture) = kept /\ capture.size = Len(kept)
    /\ pc = "headers" => got = <<>>
    /\ pc = "done" /\ call.archived /\ got # <<>> /\ ~capture.err =>
         kept = got /\ readErr \in {{}, {"eof"}}

LEMMA CaptureMoves ==
  ASSUME NEW c \in Captures, NEW buf \in Seq(Nat), NEW file \in Seq(Nat)
  PROVE  [c EXCEPT !.inFile = TRUE, !.buf = buf, !.file = file] \in Captures
BY DEF Captures

\* One more piece extends the copy or fails it, and a failed one is left alone.
LEMMA CaptureTakes ==
  ASSUME NEW c \in Captures, NEW p \in Nat, NEW d \in CaptureWrites(c, p)
  PROVE  /\ d \in Captures /\ d.size = c.size + 1
         /\ \/ ArchivedData(d) = ArchivedData(c) /\ d.err
            \/ ArchivedData(d) = Append(ArchivedData(c), p) /\ ~d.err /\ ~c.err
<1> DEFINE q     == [c EXCEPT !.size = @ + 1]
           moved == [q EXCEPT !.inFile = TRUE, !.buf = <<>>, !.file = c.buf]
<1>1. /\ c.buf \in Seq(Nat) /\ c.file \in Seq(Nat) /\ c.inFile \in BOOLEAN /\ c.size \in Nat
      /\ c.err \in BOOLEAN
  BY DEF Captures
<1>2. q = [buf |-> c.buf, file |-> c.file, inFile |-> c.inFile, size |-> c.size + 1, err |-> c.err]
  BY SMTT(30) DEF Captures
<1> HIDE DEF q
<1>3. /\ moved \in Captures /\ moved.buf = <<>> /\ moved.file = c.buf
      /\ moved.size = c.size + 1 /\ moved.inFile /\ moved.err = c.err
  <2>1. q \in Captures /\ q.size = c.size + 1 /\ q.err = c.err
    BY <1>1, <1>2 DEF Captures
  <2>2. moved.buf = <<>> /\ moved.file = c.buf
    BY <2>1 DEF Captures
  <2>3. moved.size = q.size /\ moved.err = q.err
    BY <2>1 DEF Captures
  <2>4. moved.inFile
    BY <2>1 DEF Captures
  <2>5. moved \in Captures
    <3>1. <<>> \in Seq(Nat) /\ c.buf \in Seq(Nat) /\ q \in Captures
      BY <1>1, <2>1
    <3> HIDE DEF Captures
    <3> QED
      BY <3>1, CaptureMoves
  <2> QED
    BY <2>1, <2>2, <2>3, <2>4, <2>5
<1>4. Append(c.file, p) \in Seq(Nat) /\ Append(c.buf, p) \in Seq(Nat) /\ c.size + 1 \in Nat
  BY <1>1
<1>5. d \in IF c.err THEN {q}
            ELSE IF c.inFile THEN {[q EXCEPT !.file = Append(@, p)], [q EXCEPT !.err = TRUE]}
            ELSE IF Len(c.buf) < MemoryLimit THEN {[q EXCEPT !.buf = Append(@, p)]}
            ELSE {[moved EXCEPT !.file = Append(@, p)], [moved EXCEPT !.err = TRUE],
                  [q EXCEPT !.err = TRUE]}
  BY DEF CaptureWrites, q
<1> HIDE DEF moved
<1>6. CASE c.err
  <2>1. d = q
    BY <1>5, <1>6
  <2> QED
    BY <1>1, <1>2, <1>4, <1>6, <2>1 DEF Captures, ArchivedData
<1>7. CASE ~c.err /\ d = [q EXCEPT !.err = TRUE]
  <2>1. d = [buf |-> c.buf, file |-> c.file, inFile |-> c.inFile, size |-> c.size + 1,
             err |-> TRUE]
    BY <1>2, <1>7
  <2> QED
    BY <1>1, <1>4, <2>1 DEF Captures, ArchivedData
<1>8. CASE ~c.err /\ c.inFile /\ d = [q EXCEPT !.file = Append(@, p)]
  <2>1. d = [buf |-> c.buf, file |-> Append(c.file, p), inFile |-> c.inFile,
             size |-> c.size + 1, err |-> FALSE]
    BY <1>1, <1>2, <1>8
  <2>2. d \in Captures
    BY <1>1, <1>4, <2>1 DEF Captures
  <2>3. ArchivedData(d) = Append(c.file, p) /\ ArchivedData(c) = c.file
    BY <1>8, <2>1 DEF ArchivedData
  <2>4. d.size = c.size + 1 /\ ~d.err
    BY <1>1, <1>8, <2>1, SMTT(30)
  <2> QED
    BY <1>8, <2>2, <2>3, <2>4
<1>9. CASE ~c.err /\ ~c.inFile /\ d = [q EXCEPT !.buf = Append(@, p)]
  <2>1. d = [buf |-> Append(c.buf, p), file |-> c.file, inFile |-> c.inFile,
             size |-> c.size + 1, err |-> FALSE]
    BY <1>1, <1>2, <1>9
  <2>2. d \in Captures
    BY <1>1, <1>4, <2>1 DEF Captures
  <2>3. ArchivedData(d) = Append(c.buf, p) /\ ArchivedData(c) = c.buf
    BY <1>9, <2>1 DEF ArchivedData
  <2>4. d.size = c.size + 1 /\ ~d.err
    BY <1>1, <1>9, <2>1, SMTT(30)
  <2> QED
    BY <1>9, <2>2, <2>3, <2>4
<1>10. CASE ~c.err /\ ~c.inFile /\ d = [moved EXCEPT !.file = Append(@, p)]
  <2>1. d \in Captures /\ d.size = c.size + 1
    BY <1>1, <1>3, <1>4, <1>10 DEF Captures
  <2>2. d.inFile /\ ~d.err
    BY <1>3, <1>10 DEF Captures
  <2>3. d.file = Append(c.buf, p)
    BY <1>3, <1>10 DEF Captures
  <2>4. ArchivedData(d) = Append(c.buf, p) /\ ArchivedData(c) = c.buf
    BY <1>10, <2>2, <2>3 DEF ArchivedData
  <2> QED
    BY <1>10, <2>1, <2>2, <2>4
<1>11. CASE ~c.err /\ ~c.inFile /\ d = [moved EXCEPT !.err = TRUE]
  <2>1. d \in Captures /\ d.size = c.size + 1
    BY <1>3, <1>11 DEF Captures
  <2>2. d.inFile /\ d.err
    BY <1>3, <1>11 DEF Captures
  <2>3. d.file = c.buf
    BY <1>3, <1>11 DEF Captures
  <2>4. ArchivedData(d) = c.buf /\ ArchivedData(c) = c.buf
    BY <1>11, <2>2, <2>3 DEF ArchivedData
  <2> QED
    BY <2>1, <2>2, <2>4
<1> QED
  BY <1>5, <1>6, <1>7, <1>8, <1>9, <1>10, <1>11

\* A read error marks the copy and keeps its data.
LEMMA CaptureMarked ==
  ASSUME NEW c \in Captures, NEW broken \in BOOLEAN
  PROVE  /\ NoteReadError(c, broken) \in Captures
         /\ ArchivedData(NoteReadError(c, broken)) = ArchivedData(c)
         /\ NoteReadError(c, broken).size = c.size
         /\ NoteReadError(c, broken).err <=> (c.err \/ broken)
<1>1. /\ c.buf \in Seq(Nat) /\ c.file \in Seq(Nat) /\ c.inFile \in BOOLEAN /\ c.size \in Nat
      /\ c.err \in BOOLEAN
  BY DEF Captures
<1>2. NoteReadError(c, broken) = [buf |-> c.buf, file |-> c.file, inFile |-> c.inFile,
                                  size |-> c.size, err |-> c.err \/ broken]
  BY DEF Captures, NoteReadError
<1> QED
  BY <1>1, <1>2 DEF Captures, ArchivedData

LEMMA BeginsItself ==
  ASSUME NEW s \in Seq(Nat), NEW p
  PROVE  Begins(s, s) /\ Begins(s, Append(s, p)) /\ Begins(<<>>, s)
BY DEF Begins

LEMMA BeginsExtended ==
  ASSUME NEW s \in Seq(Nat), NEW t \in Seq(Nat), Begins(s, t), NEW p \in Nat
  PROVE  Begins(s, Append(t, p))
BY DEF Begins

\* An end that leaves the copy unmarked came without an error.
LEMMA HonestEnd ==
  ASSUME HonestInv, NEW err, NEW done \in Captures, EndCopy(err, done), call' = call,
         Begins(ArchivedData(done), kept'), Begins(kept', got'),
         call.archived /\ ~done.err =>
           ArchivedData(done) = kept' /\ done.size = Len(kept'),
         call.archived /\ ~done.err /\ err = {} =>
           kept' = got' /\ readErr' \in {{}, {"eof"}}
  PROVE  HonestInv'
<1> DEFINE broken == call.archived /\ err # {}
<1>1. call.archived \in BOOLEAN
  BY TransportAssumption DEF HonestInv
<1>2. pc' = "done" /\ capture' = NoteReadError(done, broken) /\ broken \in BOOLEAN
  BY <1>1 DEF EndCopy, Finish
<1>3. /\ capture' \in Captures /\ ArchivedData(capture') = ArchivedData(done)
      /\ capture'.size = done.size /\ (capture'.err <=> (done.err \/ broken))
  <2> HIDE DEF broken
  <2> QED
    BY <1>2, CaptureMarked
<1>4. call.archived /\ ~capture'.err =>
        /\ ArchivedData(capture') = kept' /\ capture'.size = Len(kept')
        /\ kept' = got' /\ readErr' \in {{}, {"eof"}}
  BY <1>3
<1>5. Begins(ArchivedData(capture)', kept') /\ Begins(kept, got)'
  BY <1>3 DEF ArchivedData, Begins
<1> QED
  BY <1>2, <1>3, <1>4, <1>5 DEF HonestInv

\* A read adds to the body only what the destination is yet to accept.
LEMMA HonestRead ==
  ASSUME CopyInv, CopyInv', HonestInv, Read
  PROVE  HonestInv'
<1>1. PICK pieces \in {<<>>} \cup IF Len(got) < MaxPieces THEN {<<Len(got) + 1>>} ELSE {} :
        \E raw \in {{}, {"eof"}} \cup LibraryErrors : ReadReturns(pieces, raw)
  BY DEF Read
<1>2. PICK raw \in {{}, {"eof"}} \cup LibraryErrors : ReadReturns(pieces, raw)
  BY <1>1
<1>3. /\ pc = "reading" /\ UNCHANGED <<call, kept>> /\ kept = got
      /\ readErr' = ReturnedErr(raw) /\ got' = got \o pieces
      /\ got \in Seq(Nat) /\ kept \in Seq(Nat)
  BY <1>2 DEF ReadReturns, CopyInv
<1>4. CASE pieces # <<>>
  <2>1. pc' = "writing" /\ capture' = capture
    BY <1>2, <1>4 DEF ReadReturns
  <2>2. got' = Append(got, got'[Len(got')])
    BY <1>3, <2>1 DEF CopyInv
  <2>3. Begins(kept', got')
    BY <1>3, <2>2, BeginsItself
  <2>4. Begins(ArchivedData(capture), kept)'
    BY <1>3, <2>1 DEF HonestInv, ArchivedData, Begins
  <2> QED
    BY <1>3, <2>1, <2>3, <2>4 DEF HonestInv, ArchivedData
<1>5. CASE pieces = <<>>
  <2>1. EndCopy(ReturnedErr(raw) \ {"eof"}, capture) /\ got' = got
    BY <1>2, <1>3, <1>5 DEF ReadReturns
  <2>2. Begins(ArchivedData(capture), kept') /\ Begins(kept', got')
    BY <1>3, <2>1 DEF HonestInv
  <2>3. ReturnedErr(raw) \ {"eof"} = {} => readErr' \in {{}, {"eof"}}
    BY <1>3
  <2>4. capture \in Captures
    BY DEF HonestInv
  <2>5. call.archived /\ ~capture.err =>
          ArchivedData(capture) = kept' /\ capture.size = Len(kept')
    BY <1>3 DEF HonestInv
  <2> QED
    BY <1>3, <2>1, <2>2, <2>3, <2>4, <2>5, HonestEnd
<1> QED
  BY <1>4, <1>5

\* The archive takes the piece after the destination did, if it takes it.
LEMMA HonestWrite ==
  ASSUME CopyInv, CopyInv', HonestInv, WriteSucceeds
  PROVE  HonestInv'
<1>1. /\ pc = "writing" /\ UNCHANGED <<call, got, readErr>>
      /\ got \in Seq(Nat) /\ kept \in Seq(Nat) /\ got = Append(kept, got[Len(got)])
      /\ kept' = Append(kept, got[Len(got)])
  BY DEF WriteSucceeds, CopyInv
<1>2. kept' = got' /\ got[Len(got)] \in Nat /\ Begins(kept', got')
  <2>1. got[Len(got)] \in Nat
    BY <1>1
  <2> QED
    BY <1>1, <2>1, BeginsItself
<1>3. capture \in Captures /\ Begins(ArchivedData(capture), kept)
  BY DEF HonestInv
<1>4. PICK done \in IF call.archived THEN CaptureWrites(capture, got[Len(got)]) ELSE {capture} :
         CASE readErr # {} -> EndCopy(readErr \ {"eof"}, done) /\ UNCHANGED readSince
           [] readErr = {} /\ PrefixRead -> EndCopy({}, done) /\ UNCHANGED readSince
           [] readErr = {} /\ ~PrefixRead /\ TimedOut ->
                EndCopy({"deadline"}, done) /\ UNCHANGED readSince
           [] OTHER -> StartRead /\ capture' = done /\ UNCHANGED <<preTimer, verdict>>
  BY DEF WriteSucceeds
<1>5. /\ done \in Captures /\ Begins(ArchivedData(done), kept')
      /\ call.archived /\ ~done.err => ArchivedData(done) = kept' /\ done.size = Len(kept')
  <2>1. ArchivedData(capture) \in Seq(Nat)
    BY <1>3 DEF ArchivedData, Captures
  <2>2. CASE ~call.archived
    <3>1. done = capture
      BY <1>4, <2>2
    <3>2. Begins(ArchivedData(capture), kept')
      BY <1>1, <1>2, <1>3, <2>1, BeginsExtended
    <3> QED
      BY <1>3, <2>2, <3>1, <3>2
  <2>3. CASE call.archived
    <3>1. /\ done \in Captures /\ done.size = capture.size + 1
          /\ \/ ArchivedData(done) = ArchivedData(capture) /\ done.err
             \/ /\ ArchivedData(done) = Append(ArchivedData(capture), got[Len(got)])
                /\ ~done.err /\ ~capture.err
      BY <1>2, <1>3, <1>4, <2>3, CaptureTakes
    <3>2. CASE ArchivedData(done) = ArchivedData(capture) /\ done.err
      <4>1. Begins(ArchivedData(capture), kept')
        BY <1>1, <1>2, <1>3, <2>1, BeginsExtended
      <4> QED
        BY <3>1, <3>2, <4>1
    <3>3. CASE /\ ArchivedData(done) = Append(ArchivedData(capture), got[Len(got)])
               /\ ~done.err /\ ~capture.err
      <4>1. ArchivedData(capture) = kept /\ capture.size = Len(kept)
        BY <2>3, <3>3 DEF HonestInv
      <4>2. ArchivedData(done) = kept'
        BY <1>1, <3>3, <4>1
      <4>3. Len(kept') = Len(kept) + 1
        BY <1>1
      <4>4. kept' \in Seq(Nat)
        BY <1>1, <1>2
      <4> QED
        BY <3>1, <4>1, <4>2, <4>3, <4>4, BeginsItself
    <3> QED
      BY <3>1, <3>2, <3>3
  <2> QED
    BY <2>2, <2>3
<1>6. ASSUME NEW err, EndCopy(err, done), err = {} => readErr \in {{}, {"eof"}}
      PROVE  HonestInv'
  BY <1>1, <1>2, <1>5, <1>6, HonestEnd
<1>7. CASE readErr # {}
  <2>1. readErr \ {"eof"} = {} => readErr = {"eof"}
    BY <1>7
  <2> QED
    BY <1>4, <1>6, <1>7, <2>1
<1>8. CASE readErr = {} /\ (PrefixRead \/ TimedOut)
  BY <1>4, <1>6, <1>8
<1>9. CASE readErr = {} /\ ~PrefixRead /\ ~TimedOut
  <2>1. pc' = "reading" /\ capture' = done
    BY <1>4, <1>9 DEF StartRead
  <2>2. Begins(ArchivedData(capture), kept)' /\ Begins(kept, got)'
    BY <1>2, <1>5, <2>1 DEF ArchivedData, Begins
  <2> QED
    BY <1>1, <1>5, <2>1, <2>2 DEF HonestInv, ArchivedData
<1> QED
  BY <1>7, <1>8, <1>9

\* A failed write ends the exchange with an error, which marks the copy.
LEMMA HonestWriteFails ==
  ASSUME HonestInv, WriteFails
  PROVE  HonestInv'
<1>1. UNCHANGED <<call, got, kept, readErr>>
  BY DEF WriteFails
<1>2. PICK err \in {{"spool"}, {"write"}, {"write_deadline"}} : EndCopy(err, capture)
  BY DEF WriteFails
<1>3. err # {}
  BY <1>2
<1>4. /\ capture \in Captures
      /\ Begins(ArchivedData(capture), kept') /\ Begins(kept', got')
      /\ call.archived /\ ~capture.err =>
           ArchivedData(capture) = kept' /\ capture.size = Len(kept')
  BY <1>1 DEF HonestInv
<1> QED
  BY <1>1, <1>2, <1>3, <1>4, HonestEnd

\* Before the body and outside of the copy there is nothing to claim.
LEMMA HonestRest ==
  ASSUME HonestInv,
         \/ Tick \/ ClientLeaves \/ PreTimerFires
         \/ IdleTimerFires \/ CallbackMarks \/ CallbackCloses
         \/ DoFails \/ HeadersArrive \/ HeadFails \/ Done \/ UNCHANGED vars
  PROVE  HonestInv'
<1>1. ASSUME UNCHANGED <<call, pc, got, kept, capture, readErr>>
      PROVE  HonestInv'
  BY <1>1 DEF HonestInv, ArchivedData, Begins
<1>2. CASE \/ Tick \/ ClientLeaves \/ PreTimerFires \/ IdleTimerFires \/ CallbackMarks
           \/ CallbackCloses \/ Done \/ UNCHANGED vars
  <2>1. UNCHANGED <<call, pc, got, kept, capture, readErr>>
    BY <1>2 DEF Tick, ClientLeaves, PreTimerFires, IdleTimerFires, CallbackMarks,
       CallbackCloses, Done, vars, body, timer
  <2> QED
    BY <1>1, <2>1
<1>3. CASE DoFails
  <2>1. pc = "headers" /\ pc' = "done" /\ UNCHANGED <<call, got, kept, capture>>
    BY <1>3 DEF DoFails, Finish, body
  <2> QED
    BY <2>1 DEF HonestInv, ArchivedData, Begins
<1>4. CASE HeadersArrive
  <2>1. pc = "headers" /\ pc' = "reading" /\ UNCHANGED <<call, got, kept, capture>>
    BY <1>4 DEF HeadersArrive, StartRead, body
  <2> QED
    BY <2>1 DEF HonestInv, ArchivedData, Begins
<1>5. CASE HeadFails
  <2>1. /\ pc = "headers" /\ pc' = "done" /\ UNCHANGED <<call, got, kept>>
        /\ capture' = NoteReadError(capture, call.archived)
    BY <1>5 DEF HeadFails, Finish
  <2>2. call.archived \in BOOLEAN /\ capture \in Captures
    BY TransportAssumption DEF HonestInv
  <2>3. /\ capture' \in Captures /\ ArchivedData(capture') = ArchivedData(capture)
        /\ capture'.size = capture.size
        /\ (capture'.err <=> (capture.err \/ call.archived))
    BY <2>1, <2>2, CaptureMarked
  <2>4. Begins(ArchivedData(capture)', kept') /\ Begins(kept, got)'
    BY <2>1, <2>3 DEF HonestInv, ArchivedData, Begins
  <2>5. ~(call'.archived /\ ~capture'.err)
    BY <2>1, <2>3
  <2> QED
    BY <2>1, <2>3, <2>4, <2>5 DEF HonestInv
<1> QED
  BY <1>2, <1>3, <1>4, <1>5

\* What the archive kept of a body is the beginning of it, and without a capture
\* error it is all that was read, of a read that was not interrupted
\* (requestlog.go, bodyCapture and noteResponseReadError).
THEOREM CopiesAreHonest == Spec => []ArchiveIsHonest
<1>1. Init => CopyInv /\ HonestInv
  <2> SUFFICES ASSUME Init
               PROVE  CopyInv /\ HonestInv
    OBVIOUS
  <2>1. /\ got = <<>> /\ kept = <<>> /\ pc = "headers" /\ verdict = "none" /\ call \in Calls
        /\ cause \in {"none", "canceled", "deadline"} /\ capture = NewCapture
    BY DEF Init
  <2>2. capture \in Captures /\ ArchivedData(capture) = <<>> /\ capture.size = 0
    BY <2>1 DEF NewCapture, Captures, ArchivedData
  <2>3. Begins(<<>>, <<>>)
    BY DEF Begins
  <2> QED
    BY <2>1, <2>2, <2>3 DEF CopyInv, CutNeverClean, HonestInv
<1>2. CopyInv /\ [Next]_vars => CopyInv'
  BY CopyRead, CopyWrite, CopyRest DEF Next
<1>3. CopyInv /\ CopyInv' /\ HonestInv /\ [Next]_vars => HonestInv'
  BY HonestRead, HonestWrite, HonestWriteFails, HonestRest, SMTT(30) DEF Next
<1>4. CopyInv /\ HonestInv => ArchiveIsHonest
  <2> SUFFICES ASSUME CopyInv, HonestInv
               PROVE  ArchiveIsHonest
    OBVIOUS
  <2> DEFINE data == ArchivedData(capture)
  <2>1. data \in Seq(Nat) /\ got \in Seq(Nat) /\ kept \in Seq(Nat)
    BY DEF CopyInv, HonestInv, ArchivedData, Captures
  <2>2. Begins(data, got)
    <3>1. Begins(data, kept) /\ Begins(kept, got)
      BY DEF HonestInv
    <3> HIDE DEF data
    <3>2. Len(data) <= Len(got)
      BY <2>1, <3>1 DEF Begins
    <3>3. \A i \in 1 .. Len(data) : i \in 1 .. Len(kept) /\ data[i] = kept[i]
      BY <2>1, <3>1 DEF Begins
    <3>4. \A i \in 1 .. Len(kept) : kept[i] = got[i]
      BY <3>1 DEF Begins
    <3> QED
      BY <3>2, <3>3, <3>4 DEF Begins
  <2>3. Len(data) \in 0 .. Len(got) /\ data = SubSeq(got, 1, Len(data))
    <3> HIDE DEF data
    <3>1. Len(data) \in Nat /\ Len(data) <= Len(got) /\ Len(got) \in Nat
      BY <2>1, <2>2 DEF Begins
    <3>2. /\ SubSeq(got, 1, Len(data)) \in Seq(Nat)
          /\ Len(SubSeq(got, 1, Len(data))) = Len(data)
          /\ \A i \in 1 .. Len(data) : SubSeq(got, 1, Len(data))[i] = got[i]
      BY <2>1, <3>1
    <3>3. \A i \in 1 .. Len(data) : data[i] = SubSeq(got, 1, Len(data))[i]
      BY <2>2, <3>2 DEF Begins
    <3> HIDE DEF Begins
    <3>4. data = SubSeq(got, 1, Len(data))
      BY <2>1, <3>2, <3>3, SeqEqual
    <3> QED
      BY <3>1, <3>4
  <2>4. pc = "done" /\ call.archived /\ got # <<>> /\ ~capture.err =>
          data = got /\ capture.size = Len(got) /\ readErr \in {{}, {"eof"}}
    BY DEF HonestInv
  <2> QED
    BY <2>3, <2>4 DEF ArchiveIsHonest
<1> QED
  BY <1>1, <1>2, <1>3, <1>4, PTL DEF Spec

=============================================================================
