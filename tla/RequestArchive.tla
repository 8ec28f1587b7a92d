---------------------------- MODULE RequestArchive ----------------------------
(***************************************************************************)
(* The request archive (reqRecorder in requestlog.go) beside the request   *)
(* loop that writes to it: one record per attempt, with the reason for the *)
(* next one, and an outcome that is rewritten as the request goes on.      *)
(*                                                                         *)
(* Who answered is the model of the attempt; stats stands for the stream   *)
(* statistics of the attempt of that number (0: none).  The bodies of      *)
(* responses are the subject of BodyCapture.                               *)
(***************************************************************************)
EXTENDS RequestLoop

VARIABLE rec   \* [attempts, refs, who, stats, retries, outcome]

archiveVars == <<vars, rec>>

\* newReqRecorder: the body of the client's request is known from the start.
NewRecorder ==
    [attempts |-> <<>>, refs |-> [m \in {FirstModel} |-> 0],
     who |-> FirstModel, stats |-> 0, retries |-> 0, outcome |-> "-"]

\* Seeded fault: every body that is not the client's is taken for the last one.
BodyReferenceLast(refs, m, k) ==
    [n \in DOMAIN refs \cup {m} |-> IF n = m /\ m \notin DOMAIN refs
                                    THEN (IF k > 2 THEN k - 1 ELSE k) ELSE refs[n]]

\* bodyReference: a body is written once, at the attempt that first sent it,
\* and referred to by every later one; 0 is the client's own.
BodyReference(refs, m, k) ==
    [n \in DOMAIN refs \cup {m} |-> IF n \in DOMAIN refs THEN refs[n] ELSE k]

\* beginAttempt, with finishCurrentAttempt of the one before it.
Begin(r) ==
    LET k    == Len(r.attempts) + 1
        refs == BodyReference(r.refs, model, k)
    IN  [r EXCEPT !.attempts = Append(@, [who |-> model, ref |-> refs[model],
                                          retry |-> proxyRetries, result |-> "",
                                          stats |-> 0]),
                  !.refs = refs, !.who = model, !.stats = 0]

\* noteAttemptFailure, noteAttemptResult, noteAttemptRetry, noteModelSwap: the
\* last of them to come is the attempt's result.
Result(r, result) == [r EXCEPT !.attempts[Len(r.attempts)].result = result]

\* noteAttemptStats
Stats(r) == [r EXCEPT !.attempts[Len(r.attempts)].stats = Len(r.attempts),
                      !.stats = Len(r.attempts)]

\* noteProxyRetries and note
Note(r, outcome) == [r EXCEPT !.retries = proxyRetries, !.outcome = outcome]

\* Seeded fault: the outcome keeps describing the last candidate.
DeliveredAnswerLast(r, stats) == r

\* noteDeliveredAnswer: the original answer, with its own statistics.
DeliveredAnswer(r, stats) == [r EXCEPT !.who = FirstModel, !.stats = stats]

-----------------------------------------------------------------------------
(* The request loop, with what each step writes to the archive             *)

ArchiveInit == Init /\ rec = NewRecorder

\* Before the recorder exists, and where handle calls none of it.
Unrecorded ==
    /\ Tick \/ ClientLeaves \/ AcceptBody \/ RejectBody \/ GiveUp
       \/ WaitEnds \/ WaitInterrupted \/ ClassifyEnd \/ Done
    /\ UNCHANGED rec

IssueRecorded   == IssueAttempt /\ rec' = Begin(rec)
TooLateRecorded == IssueTooLate /\ rec' = Result(Begin(rec), "transport_error")

TransportFailureRecorded == TransportFails /\ rec' = Result(rec, "transport_error")
HTTPErrorRecorded        == HTTPError /\ rec' = Result(rec, "http_error")
NonSSEFailureRecorded    == NonSSEFails /\ rec' = Result(rec, "non_sse_read_error")

\* A broken delivery is noted without the number of retries.
NonSSEAnswerRecorded ==
    /\ NonSSEAnswer
    /\ rec' = IF response'.kind = "ok" THEN Note(Result(rec, "success"), "OK")
              ELSE [Result(rec, "drop") EXCEPT !.outcome = "DROP"]

StreamFailureRecorded ==
    /\ StreamFails \/ StreamRefuses
    /\ rec' = Result(Stats(rec), "sse_failure")

StreamAnswerRecorded ==
    /\ StreamAnswers
    /\ rec' = CASE response'.kind = "ok" -> Note(Result(Stats(rec), "success"), "OK")
                [] response'.kind = "delivered" -> Note(Result(Stats(rec), "fail"), "FAIL")
                [] OTHER -> Note(Result(Stats(rec), "drop"), "DROP")

RetryRecorded ==
    /\ LocalRetry \/ FastRetry
    /\ rec' = Result(rec, IF waitKind' = "local" THEN "local_retry" ELSE "legacy_fast_retry")

SwapRecorded == SwapToFallback /\ rec' = Result(rec, "model_swap")

HeldRefusalRecorded ==
    /\ DeliverHeldRefusal
    /\ rec' = Note(DeliveredAnswer(rec, heldRefusal),
                   IF response'.kind = "held" THEN "OK" ELSE "DROP")

HeldSafeguardRecorded ==
    /\ DeliverHeldSafeguard
    /\ rec' = Note(DeliveredAnswer(rec, 0), "FAIL")

FailureRecorded ==
    /\ SurfaceFailure
    /\ rec' = Note(rec, IF response'.kind = "retry" THEN "RETRY" ELSE "FAIL")

ArchiveNext ==
    \/ Unrecorded \/ IssueRecorded \/ TooLateRecorded
    \/ TransportFailureRecorded \/ HTTPErrorRecorded \/ NonSSEFailureRecorded
    \/ NonSSEAnswerRecorded \/ StreamFailureRecorded \/ StreamAnswerRecorded
    \/ RetryRecorded \/ SwapRecorded
    \/ HeldRefusalRecorded \/ HeldSafeguardRecorded \/ FailureRecorded

ArchiveSpec == ArchiveInit /\ [][ArchiveNext]_archiveVars

-----------------------------------------------------------------------------
(* Properties                                                              *)

Retried == {"local_retry", "legacy_fast_retry"}

\* The archive tells the story of the request: every attempt but the last says
\* why the next one was made (a swap of the model, or a retry of the same), an
\* attempt's body reference leads to a record that has that very body, and the
\* attempts the upstream saw are all there, in order.
ArchiveExplainsAttempts ==
    LET a    == rec.attempts
        n    == Len(a)
        Body(ref) == IF ref = 0 THEN FirstModel ELSE a[ref].who
    IN  /\ \A k \in 1 .. n - 1 :
             IF a[k].who = a[k + 1].who
             THEN a[k].result \in Retried /\ a[k + 1].retry = a[k].retry + 1
             ELSE a[k].result = "model_swap" /\ a[k + 1].retry = a[k].retry
        /\ \A k \in 1 .. n : a[k].ref <= k /\ Body(a[k].ref) = a[k].who
        /\ n = attempts /\ \A k \in DOMAIN sent : a[k].who = sent[k]

OutcomeOf == [ok |-> "OK", held |-> "OK", delivered |-> "FAIL", fail |-> "FAIL",
             retry |-> "RETRY", drop |-> "DROP"]

\* Who gave the answer: an attempt, or for an error that is not the original
\* answer the last attempt, even one that came too late to be sent.
AnsweredBy ==
    IF response.kind \in {"retry", "fail"} /\ ~OriginalDue
    THEN rec.attempts[attempts].who ELSE sent[response.attempt]

\* The outcome is that of the answer the client got, and its identity and
\* statistics are those of the attempt that gave it: after a failed chain, of
\* the original answer and not of the last candidate (docs/OPERATIONS.md,
\* "outcome identity and stream stats describe that answer").
OutcomeDescribesAnswer ==
    pc = "done" /\ response.kind # "rejected" =>
        /\ rec.outcome = OutcomeOf[response.kind]
        /\ rec.who = AnsweredBy
        /\ rec.stats # 0 => rec.attempts[rec.stats].who = rec.who
        /\ response.kind = "held" => rec.stats = heldRefusal
        /\ response.kind # "drop" \/ rec.stats # 0 =>
             rec.retries = Cardinality({k \in 1 .. attempts - 1 :
                               rec.attempts[k].result \in Retried})

=============================================================================
