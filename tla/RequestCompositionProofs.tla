----------------------- MODULE RequestCompositionProofs -----------------------
(***************************************************************************)
(* Proofs about the two parts that are composed with the request loop, for *)
(* all models, budgets, deadlines, replies and wires.  The streams of its  *)
(* attempts: what they do is what the loop reckons with, and the client    *)
(* sees the frames of one attempt only.  The archive: every attempt but    *)
(* the last says why the next one was made, and the outcome describes the  *)
(* answer that the client got.                                             *)
(***************************************************************************)
EXTENDS TransactionalRequest, RequestArchive, RequestLoopProofs, SequenceTheorems

-----------------------------------------------------------------------------
(* The loop                                                                *)

\* A step with streams is a step of the loop or none of its business.
LEMMA RequestStep ==
    ASSUME [RequestNext]_<<vars, streamVars>>
    PROVE  [Next]_vars
<1>1. CASE NextAttempt \/ WithoutStream
  BY <1>1 DEF NextAttempt, WithoutStream, Next, Handler, Outcome
<1>2. CASE StreamStarts \/ StreamStep
  BY <1>2 DEF StreamStarts, StreamStep, vars
<1>3. CASE StreamDelivered \/ StreamHeld \/ StreamUnseen
  BY <1>3 DEF StreamDelivered, StreamHeld, StreamUnseen, Next, Outcome
<1>4. CASE KeptDelivered
  BY <1>4 DEF KeptDelivered, Next, Handler
<1>5. CASE Elsewhere
  BY <1>5 DEF Elsewhere, Next, Handler
<1>6. CASE UNCHANGED <<vars, streamVars>>
  BY <1>6
<1> QED
  BY <1>1, <1>2, <1>3, <1>4, <1>5, <1>6 DEF RequestNext

\* What an attempt's stream does is one of the outcomes the loop reckons with,
\* so that the theorems about the loop hold of requests with streams (main.go,
\* handle around captureSSECore).
THEOREM StreamsImplementOutcomes == RequestSpec => Spec
<1>1. RequestInit => Init
  BY DEF RequestInit
<1>2. [RequestNext]_<<vars, streamVars>> => [Next]_vars
  BY RequestStep
<1> QED
  BY <1>1, <1>2, PTL DEF RequestSpec, Spec

-----------------------------------------------------------------------------
(* The client                                                              *)

\* Nothing of this attempt's stream was sent.
Unseen == phase \in {"none", "buffering"} \/ (phase = "ended" /\ ~verdict.wrote)

\* A stream belongs to an attempt in flight or to the answer, and what the
\* client was sent to that stream.
StreamInv ==
    /\ phase \in {"none", "buffering", "live", "ended"}
    /\ pc \notin {"inflight", "done"} => phase = "none" /\ frames = <<>>
    /\ pc = "inflight" /\ Unseen => frames = <<>>
    /\ OneAttemptAnswers

\* The loop away from the streams neither starts nor ends an attempt.
LEMMA ElsewhereMoves ==
    ASSUME Elsewhere
    PROVE  /\ pc = "inflight" <=> pc' = "inflight"
           /\ pc = "inflight" \/ pc = "done" => pc' = pc /\ UNCHANGED <<response, sent>>
<1>1. CASE Tick \/ ClientLeaves \/ AcceptBody \/ RejectBody \/ IssueTooLate
  BY <1>1 DEF Tick, ClientLeaves, AcceptBody, RejectBody, IssueTooLate, Respond, Running
<1>2. CASE LocalRetry \/ FastRetry \/ SwapToFallback \/ GiveUp \/ WaitEnds \/ WaitInterrupted
  BY <1>2 DEF LocalRetry, FastRetry, SwapToFallback, GiveUp, WaitEnds, WaitInterrupted, Wait
<1>3. CASE ClassifyEnd \/ DeliverHeldSafeguard \/ SurfaceFailure \/ Done
  BY <1>3 DEF ClassifyEnd, DeliverHeldSafeguard, SurfaceFailure, Done, vars, Respond
<1> QED
  BY <1>1, <1>2, <1>3 DEF Elsewhere

\* A stream shows the client nothing before it is committed or complete.
LEMMA StreamMoves ==
    ASSUME StreamStep, Unseen => frames = <<>>
    PROVE  phase' \in {"buffering", "live", "ended"} /\ (Unseen' => frames' = <<>>)
<1> USE DEF Unseen
<1>1. ASSUME NEW ev, S!Buffer(ev) \/ S!Reject(ev) \/ S!BreakAt(ev)
      PROVE  /\ phase = "buffering" /\ phase' \in {"buffering", "ended"}
             /\ frames' = frames
  BY <1>1 DEF S!Buffer, S!Reject, S!BreakAt, S!End
<1>2. ASSUME NEW ev, S!Answer(ev) \/ S!Forward(ev)
      PROVE  phase' \in {"live", "ended"} /\ ~Unseen'
  BY <1>2 DEF S!Answer, S!Forward, S!End
<1>3. CASE S!Commit \/ S!AnswerAtEOF
  BY <1>3 DEF S!Commit, S!AnswerAtEOF, S!End
<1>4. CASE S!Break
  <2>1. phase' = "ended" /\ frames' = frames
    BY <1>4 DEF S!Break, S!End
  <2>2. verdict'.wrote = (phase = "live")
    BY <1>4 DEF S!Break, S!End
  <2>3. CASE phase = "live"
    BY <2>1, <2>2, <2>3
  <2>4. CASE phase # "live"
    BY <2>1, <2>4 DEF StreamStep
  <2> QED
    BY <2>3, <2>4
<1> QED
  BY <1>1, <1>2, <1>3, <1>4 DEF StreamStep

LEMMA StreamInvNext ==
    ASSUME StreamInv, [RequestNext]_<<vars, streamVars>>
    PROVE  StreamInv'
<1> USE DEF StreamInv, OneAttemptAnswers, stream, streamVars
<1>1. CASE NextAttempt
  <2>1. /\ pc = "issue" /\ pc' = "inflight" /\ frames' = <<>> /\ phase' = "none"
        /\ earlier' = <<>> \o <<>>
    BY <1>1 DEF NextAttempt, IssueAttempt
  <2>2. <<>> \o <<>> = <<>>
    BY ConcatEmptySeq
  <2> QED
    BY <2>1, <2>2
<1>2. CASE WithoutStream
  <2>1. /\ pc = "inflight" /\ phase = "none" /\ frames = <<>>
        /\ phase' = phase /\ frames' = frames /\ earlier' = earlier
    BY <1>2 DEF WithoutStream, Unseen, TransportFails, HTTPError, NonSSEAnswer, NonSSEFails
  <2> QED
    BY <2>1 DEF Unseen
<1>3. CASE StreamStarts
  BY <1>3 DEF StreamStarts, vars, Unseen
<1>4. CASE StreamStep
  <2>1. pc = "inflight" /\ pc' = pc /\ earlier' = earlier
    BY <1>4 DEF StreamStep, vars
  <2>2. phase' \in {"buffering", "live", "ended"} /\ (Unseen' => frames' = <<>>)
    BY <1>4, <2>1, StreamMoves
  <2> QED
    BY <2>1, <2>2
<1>5. CASE StreamDelivered
  <2>1. /\ pc' = "done" /\ phase = "ended" /\ verdict.wrote /\ sent' = sent
        /\ UNCHANGED <<phase, verdict, frames, earlier>>
        /\ response'.kind = KindOf(verdict.fail)
    BY <1>5 DEF StreamDelivered, StreamAnswers, Respond
  <2>2. PICK kind \in {"ok", "delivered", "drop"} : response' = Answered(kind, Attempt, NoFault)
    BY <1>5 DEF StreamDelivered, StreamAnswers, Respond
  <2>3. response'.kind \in {"ok", "delivered", "drop"} /\ response'.attempt = Attempt
    BY <2>2 DEF Answered
  <2>4. Attempt' = Attempt /\ KindOf(verdict.fail)' = KindOf(verdict.fail)
    BY <2>1 DEF Attempt, KindOf
  <2> QED
    BY <2>1, <2>3, <2>4
<1>6. CASE StreamHeld \/ StreamUnseen
  <2>1. /\ pc = "inflight" /\ pc' = "decide" /\ Unseen /\ phase' = "none"
        /\ UNCHANGED <<frames, earlier>>
    BY <1>6 DEF StreamHeld, StreamUnseen, StreamRefuses, StreamFails, ForgetStream, Unseen
  <2> QED
    BY <2>1
<1>7. CASE KeptDelivered
  <2>1. /\ pc = "surface" /\ pc' = "done" /\ phase' = phase /\ earlier' = earlier
    BY <1>7 DEF KeptDelivered, DeliverHeldRefusal, Respond
  <2>2. response'.kind \in {"held", "drop"}
    BY <1>7 DEF KeptDelivered
  <2> QED
    BY <2>1, <2>2
<1>8. CASE Elsewhere
  <2>1. UNCHANGED <<phase, verdict, frames, earlier>>
    BY <1>8 DEF Elsewhere
  <2>2. (Unseen <=> Unseen') /\ (sent' = sent => Attempt' = Attempt)
        /\ KindOf(verdict.fail)' = KindOf(verdict.fail)
    BY <2>1 DEF Unseen, Attempt, KindOf
  <2> QED
    BY <1>8, <2>1, <2>2, ElsewhereMoves
<1>9. CASE UNCHANGED <<vars, streamVars>>
  BY <1>9 DEF vars, Unseen, Attempt, KindOf
<1> QED
  BY <1>1, <1>2, <1>3, <1>4, <1>5, <1>6, <1>7, <1>8, <1>9 DEF RequestNext

\* The client is never shown parts of two attempts, nor an error after parts of
\* a stream, however the attempts, the commits and the faults of the writer fall
\* (main.go, handle: the loop goes on only after wrote = false).
THEOREM OneAttemptIsSeen == RequestSpec => []OneAttemptAnswers
<1>1. RequestInit => StreamInv
  BY DEF RequestInit, Init, StreamInv, OneAttemptAnswers, Unseen
<1>2. StreamInv /\ [RequestNext]_<<vars, streamVars>> => StreamInv'
  BY StreamInvNext
<1>3. StreamInv => OneAttemptAnswers
  BY DEF StreamInv
<1> QED
  BY <1>1, <1>2, <1>3, PTL DEF RequestSpec

-----------------------------------------------------------------------------
(* The history of a record                                                 *)

Results ==
    {"", "success", "fail", "drop", "transport_error", "http_error", "non_sse_read_error",
     "sse_failure", "local_retry", "legacy_fast_retry", "model_swap"}

AttemptRecords == [who: Models, ref: Nat, retry: Nat, result: Results, stats: Nat]

IsRecorder(r) ==
    /\ r = [attempts |-> r.attempts, refs |-> r.refs, who |-> r.who, stats |-> r.stats,
            retries |-> r.retries, outcome |-> r.outcome]
    /\ r.attempts \in Seq(AttemptRecords)

N(r) == Len(r.attempts)

Body(r, ref) == IF ref = 0 THEN FirstModel ELSE r.attempts[ref].who

\* Every attempt but the last says why the next one was made.
Explained(r) ==
    \A k \in 1 .. N(r) - 1 :
        IF r.attempts[k].who = r.attempts[k + 1].who
        THEN r.attempts[k].result \in Retried
             /\ r.attempts[k + 1].retry = r.attempts[k].retry + 1
        ELSE r.attempts[k].result = "model_swap"
             /\ r.attempts[k + 1].retry = r.attempts[k].retry

\* A reference leads to a record with that body.
Referred(r) ==
    /\ \A m \in DOMAIN r.refs : r.refs[m] \in 0 .. N(r) /\ Body(r, r.refs[m]) = m
    /\ \A k \in 1 .. N(r) :
         r.attempts[k].ref \in 0 .. k /\ Body(r, r.attempts[k].ref) = r.attempts[k].who

RetriedBefore(r) == {k \in 1 .. N(r) - 1 : r.attempts[k].result \in Retried}

\* The last attempt knows how many retries came before it.
Counted(r) == N(r) # 0 => r.attempts[N(r)].retry = Cardinality(RetriedBefore(r))

History(r) == IsRecorder(r) /\ Explained(r) /\ Referred(r) /\ Counted(r)

-----------------------------------------------------------------------------
(* The invariant                                                           *)

LastAttempt == rec.attempts[N(rec)]

\* Where the loop can still go on, the record is that of the last attempt sent.
SentInv ==
    /\ attempts = N(rec) /\ Len(sent) <= N(rec)
    /\ Open \/ pc = "inflight" => Len(sent) = N(rec)
    /\ \A k \in DOMAIN sent : rec.attempts[k].who = sent[k]

\* What the last record says of the model in the body and the retries so far.
LastInv ==
    /\ pc = "read" => N(rec) = 0
    /\ N(rec) = 0 => proxyRetries = 0 /\ pc \in {"read", "issue", "done"}
    /\ pc \in {"inflight", "decide", "waiting", "finish", "surface"} =>
         model = LastAttempt.who /\ proxyRetries = LastAttempt.retry
    /\ pc = "waiting" => LastAttempt.result \in Retried
    /\ pc = "issue" /\ N(rec) # 0 =>
         IF model = LastAttempt.who
         THEN LastAttempt.result \in Retried /\ proxyRetries = LastAttempt.retry + 1
         ELSE LastAttempt.result = "model_swap" /\ proxyRetries = LastAttempt.retry

\* Until the answer the record's identity and statistics are the last attempt's.
IdentityInv ==
    pc # "done" =>
        /\ N(rec) # 0 => rec.who = LastAttempt.who
        /\ rec.stats \in {0, N(rec)}
        /\ pc = "inflight" => rec.stats = 0

ArchiveInv == History(rec) /\ SentInv /\ LastInv /\ IdentityInv /\ OutcomeDescribesAnswer

-----------------------------------------------------------------------------
(* What the recorder's operations do                                       *)

\* The record q differs from r in how its last attempt ended, and in what it
\* says of the answer.
Amends(r, q) ==
    /\ IsRecorder(q) /\ q.refs = r.refs /\ N(q) = N(r)
    /\ \A k \in 1 .. N(r) :
         /\ q.attempts[k].who = r.attempts[k].who /\ q.attempts[k].ref = r.attempts[k].ref
         /\ q.attempts[k].retry = r.attempts[k].retry
    /\ \A k \in 1 .. N(r) - 1 : q.attempts[k] = r.attempts[k]

SameAnswer(r, q) == q.who = r.who /\ q.retries = r.retries /\ q.outcome = r.outcome

LEMMA ResultAmends ==
    ASSUME NEW r, IsRecorder(r), N(r) # 0, NEW result \in Results
    PROVE  /\ Amends(r, Result(r, result)) /\ SameAnswer(r, Result(r, result))
           /\ Result(r, result).stats = r.stats
           /\ Result(r, result).attempts[N(r)].result = result
<1> DEFINE ending  == [r.attempts[N(r)] EXCEPT !.result = result]
           after == [r.attempts EXCEPT ![N(r)] = ending]
<1>1. N(r) \in 1 .. N(r) /\ r.attempts[N(r)] \in AttemptRecords
  BY DEF IsRecorder, N
<1>2. /\ ending \in AttemptRecords /\ ending.result = result /\ ending.who = r.attempts[N(r)].who
      /\ ending.ref = r.attempts[N(r)].ref /\ ending.retry = r.attempts[N(r)].retry
  BY <1>1 DEF AttemptRecords
<1> HIDE DEF ending
<1>3. /\ after \in Seq(AttemptRecords) /\ Len(after) = N(r) /\ after[N(r)] = ending
      /\ \A k \in 1 .. N(r) - 1 : after[k] = r.attempts[k]
  BY <1>1, <1>2 DEF IsRecorder, N
<1>4. Result(r, result) = [r EXCEPT !.attempts = after]
  BY DEF Result, ending, N
<1> HIDE DEF after
<1>5. Result(r, result) = [attempts |-> after, refs |-> r.refs, who |-> r.who, stats |-> r.stats,
                           retries |-> r.retries, outcome |-> r.outcome]
  BY <1>4 DEF IsRecorder
<1>6. /\ Result(r, result).attempts = after /\ Result(r, result).refs = r.refs
      /\ SameAnswer(r, Result(r, result)) /\ Result(r, result).stats = r.stats
  BY <1>5 DEF SameAnswer
<1>7. IsRecorder(Result(r, result))
  BY <1>3, <1>5 DEF IsRecorder
<1>8. \A k \in 1 .. N(r) : k = N(r) \/ k \in 1 .. N(r) - 1
  BY DEF IsRecorder, N
<1>9. Amends(r, Result(r, result))
  BY <1>2, <1>3, <1>6, <1>7, <1>8 DEF Amends, N
<1> QED
  BY <1>2, <1>3, <1>6, <1>9

LEMMA StatsAmends ==
    ASSUME NEW r, IsRecorder(r), N(r) # 0
    PROVE  /\ Amends(r, Stats(r)) /\ SameAnswer(r, Stats(r)) /\ Stats(r).stats = N(r)
<1> DEFINE ending  == [r.attempts[N(r)] EXCEPT !.stats = N(r)]
           after == [r.attempts EXCEPT ![N(r)] = ending]
<1>1. N(r) \in 1 .. N(r) /\ N(r) \in Nat /\ r.attempts[N(r)] \in AttemptRecords
  BY DEF IsRecorder, N
<1>2. /\ ending \in AttemptRecords /\ ending.who = r.attempts[N(r)].who
      /\ ending.ref = r.attempts[N(r)].ref /\ ending.retry = r.attempts[N(r)].retry
  BY <1>1 DEF AttemptRecords
<1> HIDE DEF ending
<1>3. /\ after \in Seq(AttemptRecords) /\ Len(after) = N(r) /\ after[N(r)] = ending
      /\ \A k \in 1 .. N(r) - 1 : after[k] = r.attempts[k]
  BY <1>1, <1>2 DEF IsRecorder, N
<1>4. Stats(r) = [r EXCEPT !.attempts = after, !.stats = N(r)]
  BY DEF Stats, ending, N
<1> HIDE DEF after
<1>5. Stats(r) = [attempts |-> after, refs |-> r.refs, who |-> r.who, stats |-> N(r),
                  retries |-> r.retries, outcome |-> r.outcome]
  BY <1>4 DEF IsRecorder
<1>6. /\ Stats(r).attempts = after /\ Stats(r).refs = r.refs
      /\ SameAnswer(r, Stats(r)) /\ Stats(r).stats = N(r)
  BY <1>5 DEF SameAnswer
<1>7. IsRecorder(Stats(r))
  BY <1>3, <1>5 DEF IsRecorder
<1>8. \A k \in 1 .. N(r) : k = N(r) \/ k \in 1 .. N(r) - 1
  BY DEF IsRecorder, N
<1> QED
  BY <1>2, <1>3, <1>6, <1>7, <1>8 DEF Amends, N

LEMMA NoteAmends ==
    ASSUME NEW r, IsRecorder(r), NEW outcome
    PROVE  /\ Amends(r, Note(r, outcome)) /\ Note(r, outcome).attempts = r.attempts
           /\ Note(r, outcome).who = r.who /\ Note(r, outcome).stats = r.stats
           /\ Note(r, outcome).retries = proxyRetries /\ Note(r, outcome).outcome = outcome
<1> DEFINE q == [r EXCEPT !.retries = proxyRetries]
<1>1. /\ IsRecorder(q) /\ q.attempts = r.attempts /\ q.refs = r.refs
      /\ q.who = r.who /\ q.stats = r.stats /\ q.retries = proxyRetries
  BY DEF IsRecorder
<1>2. Note(r, outcome) = [q EXCEPT !.outcome = outcome]
  BY DEF Note
<1> HIDE DEF q
<1> QED
  BY <1>1, <1>2 DEF IsRecorder, Amends, N

LEMMA OutcomeAmends ==
    ASSUME NEW r, IsRecorder(r), NEW outcome
    PROVE  LET q == [r EXCEPT !.outcome = outcome]
           IN  /\ Amends(r, q) /\ q.attempts = r.attempts
               /\ q.who = r.who /\ q.stats = r.stats /\ q.outcome = outcome
BY DEF IsRecorder, Amends, N

LEMMA DeliveredAmends ==
    ASSUME NEW r, IsRecorder(r), NEW stats
    PROVE  LET q == DeliveredAnswer(r, stats)
           IN  /\ Amends(r, q) /\ q.attempts = r.attempts
               /\ q.who = FirstModel /\ q.stats = stats
<1> DEFINE q == [r EXCEPT !.who = FirstModel]
<1>1. IsRecorder(q) /\ q.attempts = r.attempts /\ q.refs = r.refs /\ q.who = FirstModel
  BY DEF IsRecorder
<1>2. DeliveredAnswer(r, stats) = [q EXCEPT !.stats = stats]
  BY DEF DeliveredAnswer
<1> HIDE DEF q
<1> QED
  BY <1>1, <1>2 DEF IsRecorder, Amends, N

LEMMA AmendsTwice ==
    ASSUME NEW r, NEW q, NEW p, Amends(r, q), Amends(q, p)
    PROVE  Amends(r, p)
BY DEF Amends

\* What was told of the earlier attempts stays as it is.
LEMMA AmendsHistory ==
    ASSUME NEW r, NEW q, History(r), Amends(r, q)
    PROVE  History(q)
<1>1. N(r) \in Nat /\ N(q) = N(r) /\ IsRecorder(q)
  BY DEF History, IsRecorder, N, Amends
<1>2. Explained(q)
  BY <1>1 DEF History, Explained, Amends
<1>3. \A ref \in 0 .. N(r) : Body(q, ref) = Body(r, ref)
  BY <1>1 DEF Body, Amends
<1>4. Referred(q)
  BY <1>1, <1>3 DEF History, Referred, Amends
<1>5. RetriedBefore(q) = RetriedBefore(r)
  BY <1>1 DEF RetriedBefore, Amends
<1>6. Counted(q)
  BY <1>1, <1>5 DEF History, Counted, Amends
<1> QED
  BY <1>1, <1>2, <1>4, <1>6 DEF History

\* A record is begun for the attempt that is due.
LEMMA BeginHistory ==
    ASSUME History(rec), LastInv, pc = "issue", model \in Models
    PROVE  /\ History(Begin(rec)) /\ N(Begin(rec)) = N(rec) + 1
           /\ \A k \in 1 .. N(rec) : Begin(rec).attempts[k] = rec.attempts[k]
           /\ Begin(rec).attempts[N(rec) + 1].who = model
           /\ Begin(rec).attempts[N(rec) + 1].retry = proxyRetries
           /\ Begin(rec).who = model /\ Begin(rec).stats = 0
<1> DEFINE k    == Len(rec.attempts) + 1
           refs == BodyReference(rec.refs, model, k)
           new  == [who |-> model, ref |-> refs[model], retry |-> proxyRetries, result |-> "",
                    stats |-> 0]
           b    == Begin(rec)
<1>1. /\ IsRecorder(rec) /\ N(rec) \in Nat /\ k = N(rec) + 1
      /\ \A i \in 1 .. N(rec) : rec.attempts[i] \in AttemptRecords
  BY DEF History, IsRecorder, N
<1>2. /\ DOMAIN refs = DOMAIN rec.refs \cup {model}
      /\ \A m \in DOMAIN refs : refs[m] = IF m \in DOMAIN rec.refs THEN rec.refs[m] ELSE k
  BY DEF BodyReference
<1>3. \A m \in DOMAIN rec.refs : rec.refs[m] \in 0 .. N(rec) /\ Body(rec, rec.refs[m]) = m
  BY DEF History, Referred
<1> HIDE DEF refs
<1>4. proxyRetries \in Nat
  <2>1. CASE N(rec) = 0
    BY <2>1 DEF LastInv
  <2>2. CASE N(rec) # 0
    <3>1. LastAttempt.retry \in Nat
      BY <1>1, <2>2 DEF LastAttempt, AttemptRecords
    <3> QED
      BY <2>2, <3>1 DEF LastInv
  <2> QED
    BY <2>1, <2>2
<1>5. refs[model] \in 0 .. k
  BY <1>1, <1>2, <1>3
<1>6. new \in AttemptRecords
  <2>1. refs[model] \in Nat /\ "" \in Results
    BY <1>1, <1>5 DEF Results
  <2> QED
    BY <1>4, <2>1 DEF AttemptRecords
<1>7. b = [attempts |-> Append(rec.attempts, new), refs |-> refs, who |-> model, stats |-> 0,
           retries |-> rec.retries, outcome |-> rec.outcome]
  <2>1. b = [rec EXCEPT !.attempts = Append(rec.attempts, new), !.refs = refs,
                       !.who = model, !.stats = 0]
    BY DEF Begin, refs
  <2> HIDE DEF b, new
  <2>2. rec = [attempts |-> rec.attempts, refs |-> rec.refs, who |-> rec.who,
               stats |-> rec.stats, retries |-> rec.retries, outcome |-> rec.outcome]
    BY <1>1 DEF IsRecorder
  <2> QED
    BY <2>1, <2>2
<1> HIDE DEF new
<1>8. /\ b.attempts = Append(rec.attempts, new) /\ b.refs = refs /\ b.who = model /\ b.stats = 0
  BY <1>7
<1>9. /\ IsRecorder(b) /\ N(b) = k /\ b.attempts[k] = new
      /\ \A i \in 1 .. N(rec) : b.attempts[i] = rec.attempts[i]
  BY <1>1, <1>6, <1>7, <1>8 DEF IsRecorder, N
<1>10. new.who = model /\ new.retry = proxyRetries /\ new.ref = refs[model]
  BY DEF new
<1> HIDE DEF b, k
<1>11. Explained(b)
  <2> SUFFICES ASSUME NEW i \in 1 .. N(rec)
               PROVE  IF b.attempts[i].who = b.attempts[i + 1].who
                      THEN b.attempts[i].result \in Retried
                           /\ b.attempts[i + 1].retry = b.attempts[i].retry + 1
                      ELSE b.attempts[i].result = "model_swap"
                           /\ b.attempts[i + 1].retry = b.attempts[i].retry
    BY <1>1, <1>9 DEF Explained
  <2>1. CASE i \in 1 .. N(rec) - 1
    <3>1. b.attempts[i] = rec.attempts[i] /\ b.attempts[i + 1] = rec.attempts[i + 1]
      BY <1>1, <1>9, <2>1
    <3> QED
      BY <2>1, <3>1 DEF History, Explained
  <2>2. CASE i = N(rec)
    <3>1. b.attempts[i] = LastAttempt /\ b.attempts[i + 1] = new
      BY <1>1, <1>9, <2>2 DEF LastAttempt
    <3> QED
      BY <1>1, <1>10, <2>2, <3>1 DEF LastInv
  <2> QED
    BY <1>1, <2>1, <2>2
<1>12. \A ref \in 0 .. N(rec) : Body(b, ref) = Body(rec, ref)
  BY <1>1, <1>9 DEF Body
<1>13. Body(b, k) = model
  BY <1>1, <1>9, <1>10 DEF Body
<1>14. \A m \in DOMAIN b.refs : b.refs[m] \in 0 .. k /\ Body(b, b.refs[m]) = m
  BY <1>1, <1>2, <1>3, <1>8, <1>12, <1>13
<1>15. Referred(b)
  <2>1. \A i \in 1 .. N(rec) :
           b.attempts[i].ref \in 0 .. i /\ Body(b, b.attempts[i].ref) = b.attempts[i].who
    BY <1>1, <1>9, <1>12 DEF History, Referred
  <2>2. b.attempts[k].ref \in 0 .. k /\ Body(b, b.attempts[k].ref) = b.attempts[k].who
    BY <1>2, <1>5, <1>8, <1>9, <1>10, <1>14
  <2>3. \A i \in 1 .. k : i = k \/ i \in 1 .. N(rec)
    BY <1>1
  <2> QED
    BY <1>9, <1>14, <2>1, <2>2, <2>3 DEF Referred
<1>16. Counted(b)
  <2>1. \A i \in 1 .. N(rec) : b.attempts[i].result = rec.attempts[i].result
    BY <1>9
  <2>2. CASE N(rec) = 0
    <3>1. RetriedBefore(b) = {}
      BY <1>1, <1>9, <2>2 DEF RetriedBefore
    <3>2. proxyRetries = 0
      BY <2>2 DEF LastInv
    <3> QED
      BY <1>9, <1>10, <3>1, <3>2, FS_EmptySet DEF Counted
  <2>3. CASE N(rec) # 0 /\ LastAttempt.result \in Retried
    <3>1. RetriedBefore(b) = RetriedBefore(rec) \cup {N(rec)}
      BY <1>1, <1>9, <2>1, <2>3 DEF RetriedBefore, LastAttempt
    <3>2. N(rec) \notin RetriedBefore(rec) /\ IsFiniteSet(RetriedBefore(rec))
      <4>1. RetriedBefore(rec) \subseteq 1 .. N(rec) - 1 /\ N(rec) - 1 \in Nat
        BY <1>1, <2>3 DEF RetriedBefore
      <4>2. IsFiniteSet(1 .. N(rec) - 1)
        BY <1>1, FS_Interval
      <4>3. N(rec) \notin 1 .. N(rec) - 1
        BY <1>1
      <4> QED
        BY <4>1, <4>2, <4>3, FS_Subset
    <3>3. Cardinality(RetriedBefore(b)) = Cardinality(RetriedBefore(rec)) + 1
      BY <3>1, <3>2, FS_AddElement
    <3>4. proxyRetries = LastAttempt.retry + 1
      <4>1. LastAttempt.result # "model_swap"
        BY <2>3 DEF Retried
      <4> QED
        BY <2>3, <4>1 DEF LastInv
    <3> QED
      BY <1>9, <1>10, <2>3, <3>3, <3>4 DEF Counted, History, LastAttempt
  <2>4. CASE N(rec) # 0 /\ LastAttempt.result \notin Retried
    <3>1. RetriedBefore(b) = RetriedBefore(rec)
      BY <1>1, <1>9, <2>1, <2>4 DEF RetriedBefore, LastAttempt
    <3>2. proxyRetries = LastAttempt.retry
      BY <2>4 DEF LastInv
    <3> QED
      BY <1>9, <1>10, <2>4, <3>1, <3>2 DEF Counted, History, LastAttempt
  <2> QED
    BY <2>2, <2>3, <2>4
<1> QED
  BY <1>8, <1>9, <1>10, <1>11, <1>15, <1>16 DEF History, b, k, N

-----------------------------------------------------------------------------
(* The steps                                                               *)

\* Beside the archive the loop goes its own way.
LEMMA LoopStep ==
    ASSUME [ArchiveNext]_archiveVars
    PROVE  [Next]_vars
<1>1. CASE Unrecorded
  BY <1>1 DEF Unrecorded, Next, Handler
<1>2. CASE \/ IssueRecorded \/ TooLateRecorded \/ TransportFailureRecorded \/ HTTPErrorRecorded
           \/ NonSSEFailureRecorded \/ NonSSEAnswerRecorded \/ StreamFailureRecorded
           \/ StreamAnswerRecorded
  BY <1>2 DEF IssueRecorded, TooLateRecorded, TransportFailureRecorded, HTTPErrorRecorded,
     NonSSEFailureRecorded, NonSSEAnswerRecorded, StreamFailureRecorded, StreamAnswerRecorded,
     Next, Handler, Outcome
<1>3. CASE \/ RetryRecorded \/ SwapRecorded \/ HeldRefusalRecorded \/ HeldSafeguardRecorded
           \/ FailureRecorded
  BY <1>3 DEF RetryRecorded, SwapRecorded, HeldRefusalRecorded, HeldSafeguardRecorded,
     FailureRecorded, Next, Handler
<1>4. CASE UNCHANGED archiveVars
  BY <1>4 DEF archiveVars, vars
<1> QED
  BY <1>1, <1>2, <1>3, <1>4 DEF ArchiveNext

\* From its first attempt to its answer a request has a last attempt.
LEMMA LastThere ==
    ASSUME ArchiveInv
    PROVE  /\ IsRecorder(rec) /\ N(rec) \in Nat
           /\ pc \in {"inflight", "decide", "waiting", "finish", "surface"} =>
                N(rec) # 0 /\ N(rec) \in 1 .. N(rec)
BY DEF ArchiveInv, History, IsRecorder, N, LastInv

\* A step that amends the record of an attempt or leaves it alone.
Amending ==
    /\ Amends(rec, rec') /\ UNCHANGED <<sent, attempts>>
    /\ Open' => Open
    /\ pc' = "inflight" => pc = "inflight"

LEMMA AmendingSent ==
    ASSUME LoopInv, ArchiveInv, Amending
    PROVE  History(rec') /\ SentInv'
<1>1. History(rec')
  BY AmendsHistory DEF ArchiveInv, Amending
<1>2. N(rec') = N(rec) /\ Len(sent) <= N(rec) /\ Len(sent) \in Nat /\ N(rec) \in Nat
  BY LastThere DEF Amending, Amends, ArchiveInv, SentInv, LoopInv, TypeInv
<1>3. \A k \in DOMAIN sent : k \in 1 .. N(rec)
  BY <1>2 DEF LoopInv, TypeInv
<1>4. \A k \in DOMAIN sent : rec'.attempts[k].who = sent[k]
  BY <1>3 DEF Amending, Amends, ArchiveInv, SentInv
<1>5. SentInv'
  BY <1>2, <1>4 DEF Amending, ArchiveInv, SentInv
<1> QED
  BY <1>1, <1>5

\* An attempt that fails is amended; the loop decides.
LEMMA FailureStep ==
    ASSUME LoopAssumption, LoopInv, ArchiveInv,
           \/ TransportFailureRecorded \/ HTTPErrorRecorded \/ NonSSEFailureRecorded
           \/ StreamFailureRecorded
    PROVE  ArchiveInv'
<1>1. /\ pc = "inflight" /\ pc' = "decide"
      /\ UNCHANGED <<now, ctx, request, sent, attempts, model, proxyRetries>>
  BY DEF TransportFailureRecorded, HTTPErrorRecorded, NonSSEFailureRecorded,
     StreamFailureRecorded, TransportFails, HTTPError, NonSSEFails, StreamFails, StreamRefuses,
     clock, chain, retry
<1>2. IsRecorder(rec) /\ N(rec) \in Nat /\ N(rec) # 0 /\ N(rec) \in 1 .. N(rec)
  BY <1>1, LastThere
<1>3. Amends(rec, rec') /\ rec'.who = rec.who /\ rec'.stats \in {rec.stats, N(rec)}
  <2>1. CASE TransportFailureRecorded \/ HTTPErrorRecorded \/ NonSSEFailureRecorded
    <3> PICK result \in {"transport_error", "http_error", "non_sse_read_error"} :
               rec' = Result(rec, result)
      BY <2>1 DEF TransportFailureRecorded, HTTPErrorRecorded, NonSSEFailureRecorded
    <3>1. result \in Results
      BY DEF Results
    <3> QED
      BY <1>2, <3>1, ResultAmends DEF SameAnswer
  <2>2. CASE StreamFailureRecorded
    <3> DEFINE q == Stats(rec)
    <3>1. Amends(rec, q) /\ SameAnswer(rec, q) /\ q.stats = N(rec)
      BY <1>2, StatsAmends
    <3> HIDE DEF q
    <3>2. rec' = Result(q, "sse_failure") /\ "sse_failure" \in Results
      BY <2>2 DEF StreamFailureRecorded, Results, q
    <3>3. IsRecorder(q) /\ N(q) # 0
      BY <1>2, <3>1 DEF Amends
    <3>4. Amends(q, rec') /\ SameAnswer(q, rec') /\ rec'.stats = q.stats
      BY <3>2, <3>3, ResultAmends
    <3> QED
      BY <3>1, <3>4, AmendsTwice DEF SameAnswer
  <2> QED
    BY <2>1, <2>2
<1>4. Amending
  BY <1>1, <1>3 DEF Amending, Open, WindowOver
<1>5. /\ N(rec') = N(rec) /\ rec'.attempts[N(rec)].who = LastAttempt.who
      /\ rec'.attempts[N(rec)].retry = LastAttempt.retry
  BY <1>2, <1>3 DEF Amends, LastAttempt
<1>6. LastInv'
  BY <1>1, <1>2, <1>5 DEF LastInv, LastAttempt, ArchiveInv
<1>7. IdentityInv'
  BY <1>1, <1>2, <1>3, <1>5 DEF IdentityInv, LastAttempt, ArchiveInv
<1> QED
  BY <1>1, <1>4, <1>6, <1>7, AmendingSent DEF ArchiveInv, OutcomeDescribesAnswer

\* An attempt that is issued begins its record; one that came too late is a
\* record, but no attempt the upstream sees.
LEMMA BeginStep ==
    ASSUME LoopAssumption, LoopInv, ArchiveInv, IssueRecorded \/ TooLateRecorded
    PROVE  ArchiveInv'
<1> DEFINE b == Begin(rec)
<1>1. /\ pc = "issue" /\ pc' \in {"inflight", "decide"} /\ attempts' = attempts + 1
      /\ UNCHANGED <<now, ctx, request, model, proxyRetries>>
  BY DEF IssueRecorded, TooLateRecorded, IssueAttempt, IssueTooLate, clock, chain, retry
<1>2. /\ History(b) /\ N(b) = N(rec) + 1
      /\ \A k \in 1 .. N(rec) : b.attempts[k] = rec.attempts[k]
      /\ b.attempts[N(rec) + 1].who = model /\ b.attempts[N(rec) + 1].retry = proxyRetries
      /\ b.who = model /\ b.stats = 0
  <2>1. model \in Models
    BY DEF LoopInv, TypeInv, Models
  <2> QED
    BY <1>1, <2>1, BeginHistory DEF ArchiveInv
<1>3. N(rec) \in Nat /\ Len(sent) \in Nat /\ sent \in Seq(Models)
  BY LastThere DEF LoopInv, TypeInv
<1> HIDE DEF b
<1>4. /\ Amends(b, rec') /\ rec'.who = model /\ rec'.stats = 0
  <2>1. CASE IssueRecorded
    <3>1. rec' = b
      BY <2>1 DEF IssueRecorded, b
    <3> QED
      BY <1>2, <3>1 DEF Amends, History
  <2>2. CASE TooLateRecorded
    <3>1. rec' = Result(b, "transport_error") /\ "transport_error" \in Results
      BY <2>2 DEF TooLateRecorded, Results, b
    <3>2. IsRecorder(b) /\ N(b) # 0
      BY <1>2, <1>3 DEF History
    <3> QED
      BY <1>2, <3>1, <3>2, ResultAmends DEF SameAnswer
  <2> QED
    BY <2>1, <2>2
<1>5. History(rec')
  BY <1>2, <1>4, AmendsHistory
<1>6. /\ N(rec') = N(rec) + 1 /\ N(rec') \in Nat \ {0}
      /\ \A k \in 1 .. N(rec) : rec'.attempts[k].who = rec.attempts[k].who
      /\ rec'.attempts[N(rec')].who = model /\ rec'.attempts[N(rec')].retry = proxyRetries
  BY <1>2, <1>3, <1>4 DEF Amends
<1>7. SentInv'
  <2>1. \A k \in DOMAIN sent : k \in 1 .. N(rec) /\ rec'.attempts[k].who = sent[k]
    BY <1>3, <1>6 DEF ArchiveInv, SentInv
  <2>2. attempts' = N(rec')
    BY <1>1, <1>6 DEF ArchiveInv, SentInv
  <2>3. CASE IssueRecorded
    <3>1. Len(sent) = N(rec)
      BY <2>3 DEF IssueRecorded, IssueAttempt, Open, ArchiveInv, SentInv
    <3>2. sent' = Append(sent, model) /\ model \in Models
      BY <2>3 DEF IssueRecorded, IssueAttempt, LoopInv, TypeInv, Models
    <3>3. Len(sent') = N(rec')
      BY <1>3, <1>6, <3>1, <3>2
    <3>4. \A k \in DOMAIN sent' :
            \/ k \in DOMAIN sent /\ sent'[k] = sent[k]
            \/ k = N(rec') /\ sent'[k] = model
      BY <1>3, <1>6, <3>1, <3>2
    <3> QED
      BY <1>6, <2>1, <2>2, <3>3, <3>4 DEF SentInv
  <2>4. CASE TooLateRecorded
    <3>1. ~Open' /\ pc' = "decide" /\ sent' = sent
      BY <1>1, <2>4 DEF TooLateRecorded, IssueTooLate, Open, WindowOver
    <3>2. Len(sent') <= N(rec')
      BY <1>3, <1>6, <3>1 DEF ArchiveInv, SentInv
    <3> QED
      BY <2>1, <2>2, <3>1, <3>2 DEF SentInv
  <2> QED
    BY <2>3, <2>4
<1>8. LastInv'
  BY <1>1, <1>6 DEF LastInv, LastAttempt
<1>9. IdentityInv'
  BY <1>4, <1>6 DEF IdentityInv, LastAttempt
<1> QED
  BY <1>1, <1>5, <1>7, <1>8, <1>9 DEF ArchiveInv, OutcomeDescribesAnswer

\* A retry or a swap of the model is the result of the attempt before.
LEMMA AgainStep ==
    ASSUME LoopAssumption, LoopInv, ArchiveInv, RetryRecorded \/ SwapRecorded
    PROVE  ArchiveInv'
<1>1. pc = "decide" /\ UNCHANGED <<now, ctx, request, sent, attempts, proxyRetries>>
  BY DEF RetryRecorded, SwapRecorded, LocalRetry, FastRetry, SwapToFallback, Wait, clock, retry
<1>2. IsRecorder(rec) /\ N(rec) \in Nat /\ N(rec) # 0 /\ N(rec) \in 1 .. N(rec)
  BY <1>1, LastThere
<1>3. \/ pc' = "waiting" /\ model' = model /\ \E result \in Retried : rec' = Result(rec, result)
      \/ pc' = "issue" /\ model' # model /\ rec' = Result(rec, "model_swap")
  <2>1. CASE RetryRecorded
    BY <2>1 DEF RetryRecorded, LocalRetry, FastRetry, Wait, chain, Retried
  <2>2. CASE SwapRecorded
    <3>1. SwapToFallback /\ pc' = "issue" /\ rec' = Result(rec, "model_swap")
      BY <2>2 DEF SwapRecorded, SwapToFallback
    <3> QED
      BY <3>1, SwapChanges
  <2> QED
    BY <2>1, <2>2
<1>4. PICK result \in Retried \cup {"model_swap"} :
         /\ rec' = Result(rec, result)
         /\ \/ pc' = "waiting" /\ model' = model /\ result \in Retried
            \/ pc' = "issue" /\ model' # model /\ result = "model_swap"
  BY <1>3
<1>5. result \in Results
  BY DEF Retried, Results
<1>6. /\ Amends(rec, rec') /\ SameAnswer(rec, rec') /\ rec'.stats = rec.stats
      /\ rec'.attempts[N(rec)].result = result
  BY <1>2, <1>4, <1>5, ResultAmends
<1>7. Amending
  BY <1>1, <1>4, <1>6 DEF Amending, Open, WindowOver
<1>8. /\ N(rec') = N(rec) /\ rec'.attempts[N(rec)].who = LastAttempt.who
      /\ rec'.attempts[N(rec)].retry = LastAttempt.retry
  BY <1>2, <1>6 DEF Amends, LastAttempt
<1>9. LastInv'
  BY <1>1, <1>2, <1>4, <1>6, <1>8 DEF LastInv, LastAttempt, ArchiveInv
<1>10. IdentityInv'
  BY <1>1, <1>2, <1>4, <1>6, <1>8 DEF IdentityInv, LastAttempt, ArchiveInv, SameAnswer
<1> QED
  BY <1>4, <1>7, <1>9, <1>10, AmendingSent DEF ArchiveInv, OutcomeDescribesAnswer

-----------------------------------------------------------------------------
(* The answer                                                              *)

\* A step that answers and amends the last record at most.
Answering ==
    /\ pc \in {"inflight", "surface"} /\ pc' = "done"
    /\ Amends(rec, rec')
    /\ UNCHANGED <<now, ctx, request, sent, attempts, model, proxyRetries>>

\* It leaves only the outcome to be looked at: the retries are known.
LEMMA AnsweringKeeps ==
    ASSUME LoopInv, ArchiveInv, Answering
    PROVE  /\ History(rec') /\ SentInv' /\ LastInv' /\ IdentityInv'
           /\ N(rec) # 0 /\ N(rec) \in Nat /\ attempts' = N(rec)
           /\ \A k \in 1 .. N(rec) : rec'.attempts[k].who = rec.attempts[k].who
           /\ proxyRetries = Cardinality({k \in 1 .. attempts' - 1 :
                                            rec'.attempts[k].result \in Retried})
<1>1. IsRecorder(rec) /\ N(rec) \in Nat /\ N(rec) # 0 /\ N(rec) \in 1 .. N(rec)
  BY LastThere DEF Answering
<1>2. Amending
  BY DEF Answering, Amending, Open, WindowOver
<1>3. N(rec') = N(rec) /\ attempts' = N(rec)
  BY DEF Answering, Amends, ArchiveInv, SentInv
<1>4. {k \in 1 .. attempts' - 1 : rec'.attempts[k].result \in Retried} = RetriedBefore(rec)
  BY <1>3 DEF RetriedBefore, Answering, Amends
<1>5. proxyRetries = Cardinality(RetriedBefore(rec))
  BY <1>1 DEF Answering, ArchiveInv, LastInv, LastAttempt, History, Counted
<1>6. LastInv' /\ IdentityInv'
  BY <1>1, <1>3 DEF Answering, LastInv, IdentityInv
<1> QED
  BY <1>1, <1>2, <1>3, <1>4, <1>5, <1>6, AmendingSent DEF Answering, Amends

\* The answer of the attempt that is under way.
LEMMA LastAnswerStep ==
    ASSUME LoopAssumption, LoopInv, ArchiveInv, NonSSEAnswerRecorded \/ StreamAnswerRecorded
    PROVE  ArchiveInv'
<1>1. /\ pc = "inflight" /\ pc' = "done"
      /\ UNCHANGED <<now, ctx, request, sent, attempts, model, proxyRetries, heldRefusal>>
  BY DEF NonSSEAnswerRecorded, StreamAnswerRecorded, NonSSEAnswer, StreamAnswers, Respond,
     clock, chain, retry
<1>2. IsRecorder(rec) /\ N(rec) \in Nat /\ N(rec) # 0 /\ N(rec) \in 1 .. N(rec)
  BY <1>1, LastThere
<1>3. response'.kind \in {"ok", "delivered", "drop"} /\ response'.attempt = Len(sent)
  BY DEF NonSSEAnswerRecorded, StreamAnswerRecorded, NonSSEAnswer, StreamAnswers, Respond,
     Answered, Attempt
<1>4. /\ Amends(rec, rec') /\ rec'.who = rec.who /\ rec'.outcome = OutcomeOf[response'.kind]
      /\ rec'.stats \in {rec.stats, N(rec)}
      /\ response'.kind # "drop" \/ rec'.stats # 0 => rec'.retries = proxyRetries
  <2>1. CASE NonSSEAnswerRecorded /\ response'.kind = "ok"
    <3> DEFINE q == Result(rec, "success")
    <3>1. Amends(rec, q) /\ SameAnswer(rec, q) /\ q.stats = rec.stats
      BY <1>2, ResultAmends DEF Results
    <3> HIDE DEF q
    <3>2. rec' = Note(q, "OK")
      BY <2>1 DEF NonSSEAnswerRecorded, q
    <3>3. /\ Amends(q, rec') /\ rec'.who = q.who /\ rec'.stats = q.stats
          /\ rec'.retries = proxyRetries /\ rec'.outcome = "OK"
      BY <3>1, <3>2, NoteAmends DEF Amends
    <3> QED
      BY <2>1, <3>1, <3>3, AmendsTwice DEF SameAnswer, OutcomeOf
  <2>2. CASE NonSSEAnswerRecorded /\ response'.kind = "drop"
    <3> DEFINE q == Result(rec, "drop")
    <3>1. Amends(rec, q) /\ SameAnswer(rec, q) /\ q.stats = rec.stats
      BY <1>2, ResultAmends DEF Results
    <3> HIDE DEF q
    <3>2. rec' = [q EXCEPT !.outcome = "DROP"]
      BY <2>2 DEF NonSSEAnswerRecorded, q
    <3>3. /\ Amends(q, rec') /\ rec'.who = q.who /\ rec'.stats = q.stats
          /\ rec'.outcome = "DROP"
      <4>1. IsRecorder(q)
        BY <3>1 DEF Amends
      <4> QED
        BY <3>2, <4>1, OutcomeAmends
    <3>4. rec'.stats = 0
      BY <1>1, <3>1, <3>3 DEF ArchiveInv, IdentityInv
    <3> QED
      BY <2>2, <3>1, <3>3, <3>4, AmendsTwice DEF SameAnswer, OutcomeOf
  <2>3. CASE StreamAnswerRecorded
    <3> DEFINE s == Stats(rec)
    <3>1. Amends(rec, s) /\ SameAnswer(rec, s) /\ s.stats = N(rec)
      BY <1>2, StatsAmends
    <3> HIDE DEF s
    <3>2. IsRecorder(s) /\ N(s) # 0
      BY <1>2, <3>1 DEF Amends
    <3>3. PICK result \in {"success", "fail", "drop"} :
             rec' = Note(Result(s, result), OutcomeOf[response'.kind])
      BY <1>3, <2>3 DEF StreamAnswerRecorded, OutcomeOf, s
    <3> DEFINE q == Result(s, result)
    <3>4. result \in Results
      BY DEF Results
    <3>5. Amends(s, q) /\ SameAnswer(s, q) /\ q.stats = s.stats
      BY <3>2, <3>4, ResultAmends
    <3>6. rec' = Note(q, OutcomeOf[response'.kind])
      BY <3>3
    <3> HIDE DEF q
    <3>7. IsRecorder(q)
      BY <3>5 DEF Amends
    <3>8. /\ Amends(q, rec') /\ rec'.who = q.who /\ rec'.stats = q.stats
          /\ rec'.retries = proxyRetries /\ rec'.outcome = OutcomeOf[response'.kind]
      BY <3>6, <3>7, NoteAmends
    <3>9. Amends(rec, q)
      BY <3>1, <3>5, AmendsTwice
    <3>10. Amends(rec, rec')
      BY <3>8, <3>9, AmendsTwice
    <3> QED
      BY <3>1, <3>5, <3>8, <3>10 DEF SameAnswer
  <2>4. NonSSEAnswerRecorded => response'.kind \in {"ok", "drop"}
    BY DEF NonSSEAnswerRecorded, NonSSEAnswer, Respond, Answered
  <2> QED
    BY <2>1, <2>2, <2>3, <2>4
<1>5. Answering
  BY <1>1, <1>4 DEF Answering
<1>6. rec.who = LastAttempt.who /\ rec.stats \in {0, N(rec)}
  BY <1>1, <1>2 DEF ArchiveInv, IdentityInv
<1>7. Len(sent) = N(rec) /\ sent[N(rec)] = LastAttempt.who
  BY <1>1, <1>2 DEF ArchiveInv, SentInv, LastAttempt, LoopInv, TypeInv
<1>8. AnsweredBy' = LastAttempt.who
  BY <1>1, <1>3, <1>7 DEF AnsweredBy
<1>9. rec'.stats # 0 => rec'.attempts[rec'.stats].who = LastAttempt.who
  BY <1>2, <1>4, <1>5, <1>6, AnsweringKeeps DEF LastAttempt
<1>10. OutcomeDescribesAnswer'
  BY <1>3, <1>4, <1>5, <1>6, <1>8, <1>9, AnsweringKeeps DEF OutcomeDescribesAnswer
<1> QED
  BY <1>5, <1>10, AnsweringKeeps DEF ArchiveInv

\* The attempt that is held is one of the request's own model.
LEMMA HeldWho ==
    ASSUME LoopInv, ArchiveInv, FallbackActive
    PROVE  /\ Held \in 1 .. N(rec) /\ sent[Held] = FirstModel
           /\ rec.attempts[Held].who = FirstModel
<1>1. Held \in Nat \ {0} /\ Held <= Len(sent) /\ Len(sent) \in Nat
  BY DEF FallbackActive, Held, LoopInv, TypeInv, HeldInv
<1>2. Held \in DOMAIN sent /\ ~(Held > Held)
  BY <1>1 DEF LoopInv, TypeInv
<1>3. sent[Held] = FirstModel
  BY <1>2 DEF LoopInv, HeldIsOriginal
<1>4. N(rec) \in Nat /\ Len(sent) <= N(rec)
  BY LastThere DEF ArchiveInv, SentInv
<1> QED
  BY <1>1, <1>2, <1>3, <1>4 DEF ArchiveInv, SentInv

\* What a failed chain gives back is recorded as the answer.
LEMMA HeldAnswerStep ==
    ASSUME LoopAssumption, LoopInv, ArchiveInv, HeldRefusalRecorded \/ HeldSafeguardRecorded
    PROVE  ArchiveInv'
<1>1. /\ pc = "surface" /\ pc' = "done" /\ OriginalDue
      /\ UNCHANGED <<now, ctx, clientGone, request, sent, attempts, model, proxyRetries,
                     heldRefusal, heldSafeguard>>
  BY DEF HeldRefusalRecorded, HeldSafeguardRecorded, DeliverHeldRefusal, DeliverHeldSafeguard,
     Respond, clock, chain, retry
<1>2. IsRecorder(rec) /\ N(rec) \in Nat
  BY LastThere
<1>3. Held \in 1 .. N(rec) /\ sent[Held] = FirstModel /\ rec.attempts[Held].who = FirstModel
  BY <1>1, HeldWho DEF OriginalDue
<1>4. PICK stats \in {0, Held}, outcome \in {"OK", "DROP", "FAIL"} :
         /\ rec' = Note(DeliveredAnswer(rec, stats), outcome)
         /\ outcome = OutcomeOf[response'.kind] /\ response'.attempt = Held
         /\ \/ response'.kind \in {"held", "drop"} /\ stats = heldRefusal
            \/ response'.kind = "fail" /\ stats = 0 /\ last' = heldSafeguard.fault /\ heldRefusal = 0
  <2>1. CASE HeldRefusalRecorded
    BY <2>1 DEF HeldRefusalRecorded, DeliverHeldRefusal, Respond, Answered, Held, OutcomeOf
  <2>2. CASE HeldSafeguardRecorded
    BY <2>2 DEF HeldSafeguardRecorded, DeliverHeldSafeguard, Respond, Answered, Held, OutcomeOf
  <2> QED
    BY <2>1, <2>2
<1> DEFINE q == DeliveredAnswer(rec, stats)
<1>5. Amends(rec, q) /\ q.who = FirstModel /\ q.stats = stats
  BY <1>2, DeliveredAmends
<1>6. rec' = Note(q, outcome)
  BY <1>4
<1> HIDE DEF q
<1>7. IsRecorder(q)
  BY <1>5 DEF Amends
<1>8. /\ Amends(q, rec') /\ rec'.who = FirstModel /\ rec'.stats = stats
      /\ rec'.retries = proxyRetries /\ rec'.outcome = outcome
  BY <1>5, <1>6, <1>7, NoteAmends
<1>9. Answering
  BY <1>1, <1>5, <1>8, AmendsTwice DEF Answering
<1>10. AnsweredBy' = FirstModel
  <2>1. CASE response'.kind \in {"held", "drop"}
    BY <1>1, <1>3, <1>4, <2>1 DEF AnsweredBy
  <2>2. CASE response'.kind = "fail"
    <3>1. last' = heldSafeguard.fault /\ heldRefusal = 0
      BY <1>4, <2>2
    <3>2. IsSafeguard(heldSafeguard.fault)
      BY <1>1, <3>1 DEF OriginalDue, FallbackActive, LoopInv, HeldInv
    <3>3. FallbackAction(heldSafeguard.fault) = "next"
      BY <3>2 DEF FallbackAction, IsSafeguard
    <3>4. OriginalDue'
      BY <1>1, <3>1, <3>3 DEF OriginalDue, FallbackActive
    <3> QED
      BY <1>1, <1>3, <1>4, <3>4 DEF AnsweredBy
  <2> QED
    BY <1>4, <2>1, <2>2
<1>11. rec'.stats # 0 => rec'.attempts[rec'.stats].who = FirstModel
  BY <1>3, <1>8, <1>9, AnsweringKeeps
<1>12. response'.kind = "held" => rec'.stats = heldRefusal'
  BY <1>1, <1>4, <1>8
<1>13. OutcomeDescribesAnswer'
  BY <1>4, <1>8, <1>9, <1>10, <1>11, <1>12, AnsweringKeeps DEF OutcomeDescribesAnswer
<1> QED
  BY <1>9, <1>13, AnsweringKeeps DEF ArchiveInv

\* An error is that of the last attempt.
LEMMA FailureAnswerStep ==
    ASSUME LoopAssumption, LoopInv, ArchiveInv, FailureRecorded
    PROVE  ArchiveInv'
<1>1. /\ pc = "surface" /\ pc' = "done" /\ ~OriginalDue
      /\ UNCHANGED <<now, ctx, clientGone, request, sent, attempts, model, proxyRetries, last,
                     heldRefusal, heldSafeguard>>
  BY DEF FailureRecorded, SurfaceFailure, Respond, clock, chain, retry
<1>2. IsRecorder(rec) /\ N(rec) \in Nat /\ N(rec) # 0 /\ N(rec) \in 1 .. N(rec)
  BY <1>1, LastThere
<1>3. /\ response'.kind \in {"retry", "fail"}
      /\ rec' = Note(rec, OutcomeOf[response'.kind])
  BY DEF FailureRecorded, SurfaceFailure, Respond, Answered, OutcomeOf
<1>4. /\ Amends(rec, rec') /\ rec'.who = rec.who /\ rec'.stats = rec.stats
      /\ rec'.retries = proxyRetries /\ rec'.outcome = OutcomeOf[response'.kind]
  BY <1>2, <1>3, NoteAmends
<1>5. Answering
  BY <1>1, <1>4 DEF Answering
<1>6. rec.who = LastAttempt.who /\ rec.stats \in {0, N(rec)}
  BY <1>1, <1>2 DEF ArchiveInv, IdentityInv
<1>7. ~OriginalDue'
  BY <1>1 DEF OriginalDue, FallbackActive
<1>8. AnsweredBy' = LastAttempt.who
  BY <1>2, <1>3, <1>5, <1>7, AnsweringKeeps DEF AnsweredBy, LastAttempt
<1>9. rec'.stats # 0 => rec'.attempts[rec'.stats].who = LastAttempt.who
  BY <1>2, <1>4, <1>5, <1>6, AnsweringKeeps DEF LastAttempt
<1>10. OutcomeDescribesAnswer'
  BY <1>3, <1>4, <1>5, <1>6, <1>8, <1>9, AnsweringKeeps DEF OutcomeDescribesAnswer
<1> QED
  BY <1>5, <1>10, AnsweringKeeps DEF ArchiveInv

\* The steps that write nothing to the archive.
LEMMA UnrecordedStep ==
    ASSUME LoopAssumption, LoopInv, ArchiveInv, Unrecorded \/ UNCHANGED archiveVars
    PROVE  ArchiveInv'
<1>1. rec' = rec
  BY DEF Unrecorded, archiveVars
<1>2. Amends(rec, rec')
  BY <1>1, LastThere DEF Amends
<1> USE <1>1 DEF clock, held, chain, retry
<1>3. CASE Tick \/ ClientLeaves
  <2>1. pc # "done" /\ UNCHANGED <<pc, sent, attempts, model, proxyRetries>>
    BY <1>3 DEF Tick, ClientLeaves, Running
  <2>2. Open' => Open
    BY <1>3 DEF Tick, ClientLeaves, Open, WindowOver, LoopInv, TypeInv, LoopAssumption
  <2>3. Amending
    BY <1>2, <2>1, <2>2 DEF Amending
  <2> QED
    BY <2>1, <2>3, AmendingSent
       DEF ArchiveInv, LastInv, LastAttempt, IdentityInv, OutcomeDescribesAnswer
<1>4. CASE AcceptBody
  <2>1. /\ pc = "read" /\ pc' = "issue"
        /\ UNCHANGED <<now, ctx, request, sent, attempts, model, proxyRetries>>
    BY <1>4 DEF AcceptBody
  <2>2. Amending
    BY <1>2, <2>1 DEF Amending, Open, WindowOver
  <2> QED
    BY <2>1, <2>2, AmendingSent
       DEF ArchiveInv, LastInv, LastAttempt, IdentityInv, OutcomeDescribesAnswer
<1>5. CASE RejectBody
  <2>1. /\ pc = "read" /\ pc' = "done" /\ response'.kind = "rejected"
        /\ UNCHANGED <<now, ctx, request, sent, attempts, model, proxyRetries>>
    BY <1>5 DEF RejectBody, Respond, Answered
  <2>2. Amending
    BY <1>2, <2>1 DEF Amending, Open, WindowOver
  <2> QED
    BY <2>1, <2>2, AmendingSent
       DEF ArchiveInv, LastInv, LastAttempt, IdentityInv, OutcomeDescribesAnswer
<1>6. CASE WaitEnds
  <2>1. /\ pc = "waiting" /\ pc' = "issue" /\ proxyRetries' = proxyRetries + 1
        /\ UNCHANGED <<now, ctx, request, sent, attempts, model>>
    BY <1>6 DEF WaitEnds
  <2>2. Amending
    BY <1>2, <2>1 DEF Amending, Open, WindowOver
  <2> QED
    BY <2>1, <2>2, AmendingSent
       DEF ArchiveInv, LastInv, LastAttempt, IdentityInv, OutcomeDescribesAnswer
<1>7. CASE GiveUp \/ WaitInterrupted \/ ClassifyEnd
  <2>1. /\ pc \in {"decide", "waiting", "finish"} /\ pc' \in {"finish", "surface"}
        /\ UNCHANGED <<now, ctx, request, sent, attempts, model, proxyRetries>>
    BY <1>7 DEF GiveUp, WaitInterrupted, ClassifyEnd
  <2>2. Amending
    BY <1>2, <2>1 DEF Amending, Open, WindowOver
  <2> QED
    BY <2>1, <2>2, AmendingSent
       DEF ArchiveInv, LastInv, LastAttempt, IdentityInv, OutcomeDescribesAnswer
<1>8. CASE Done \/ UNCHANGED archiveVars
  <2>1. UNCHANGED vars
    BY <1>8 DEF Done, archiveVars, vars
  <2>2. Amending
    BY <1>2, <2>1 DEF Amending, Open, WindowOver, vars
  <2>3. OutcomeDescribesAnswer'
    BY <2>1 DEF vars, ArchiveInv, OutcomeDescribesAnswer, AnsweredBy, OriginalDue, FallbackActive
  <2> QED
    BY <2>1, <2>2, <2>3, AmendingSent DEF vars, ArchiveInv, LastInv, LastAttempt, IdentityInv
<1> QED
  BY <1>3, <1>4, <1>5, <1>6, <1>7, <1>8 DEF Unrecorded

-----------------------------------------------------------------------------
(* The theorems                                                            *)

LEMMA ArchiveInvariant == ArchiveSpec => []ArchiveInv
<1>1. ArchiveInit => ArchiveInv
  <2> SUFFICES ASSUME ArchiveInit PROVE ArchiveInv
    OBVIOUS
  <2>1. rec = NewRecorder /\ attempts = 0 /\ sent = <<>> /\ pc = "read" /\ proxyRetries = 0
    BY DEF ArchiveInit, Init
  <2>2. rec.attempts = <<>> /\ N(rec) = 0 /\ rec.stats = 0 /\ IsRecorder(rec)
    BY <2>1 DEF NewRecorder, N, IsRecorder
  <2>3. Explained(rec) /\ Counted(rec)
    BY <2>2 DEF Explained, Counted
  <2>4. Referred(rec)
    BY <2>1, <2>2 DEF Referred, Body, NewRecorder
  <2> QED
    BY <2>1, <2>2, <2>3, <2>4 DEF ArchiveInv, History, SentInv, LastInv, IdentityInv,
       OutcomeDescribesAnswer
<1>2. LoopInv /\ ArchiveInv /\ [ArchiveNext]_archiveVars => ArchiveInv'
  BY LoopAssumption, UnrecordedStep, BeginStep, FailureStep, AgainStep, LastAnswerStep,
     HeldAnswerStep, FailureAnswerStep DEF ArchiveNext
<1>3. ArchiveSpec => Spec
  <2>1. ArchiveInit => Init
    BY DEF ArchiveInit
  <2>2. [ArchiveNext]_archiveVars => [Next]_vars
    BY LoopStep
  <2> QED
    BY <2>1, <2>2, PTL DEF ArchiveSpec, Spec
<1> QED
  BY <1>1, <1>2, <1>3, LoopInvariant, PTL DEF ArchiveSpec

\* The archive tells the story of the request: every attempt but the last says
\* why the next one was made, a reference leads to the body it stands for, and
\* the attempts the upstream saw are all there, in order (beginAttempt,
\* bodyReference, noteAttemptRetry, noteModelSwap).
THEOREM ArchiveTellsTheStory == ArchiveSpec => []ArchiveExplainsAttempts
<1>1. ArchiveInv => ArchiveExplainsAttempts
  <2> SUFFICES ASSUME ArchiveInv PROVE ArchiveExplainsAttempts
    OBVIOUS
  <2>1. Explained(rec) /\ Referred(rec) /\ SentInv
    BY DEF ArchiveInv, History
  <2>2. \A k \in 1 .. N(rec) : \A ref \in 0 .. k : ref <= k
    OBVIOUS
  <2> QED
    BY <2>1, <2>2 DEF ArchiveExplainsAttempts, Explained, Referred, Body, SentInv, N
<1> QED
  BY <1>1, ArchiveInvariant, PTL

\* The outcome is that of the answer the client got, with the identity and the
\* statistics of the attempt that gave it: after a failed chain those of the
\* original answer (note, noteDeliveredAnswer).
THEOREM OutcomeIsTheAnswers == ArchiveSpec => []OutcomeDescribesAnswer
<1>1. ArchiveInv => OutcomeDescribesAnswer
  BY DEF ArchiveInv
<1> QED
  BY <1>1, ArchiveInvariant, PTL

=============================================================================
