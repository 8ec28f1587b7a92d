-------------------------- MODULE RequestLoopProofs --------------------------
(***************************************************************************)
(* Proofs about the request loop, for all models, lists of fallbacks,      *)
(* budgets, deadlines and errors of the upstream: it asks the models in    *)
(* order, keeps the original refusal and answers once with it or with the  *)
(* last model's answer; and it holds no other response.  Then what it may  *)
(* spend: no wait for a retry outlives what it is for, the retries are     *)
(* bounded, and a retry is offered to the client exactly where the loop    *)
(* means it.                                                               *)
(***************************************************************************)
EXTENDS RequestLoopRefinement, WellFoundedInduction, FiniteSetTheorems, TLAPS

Models == {Chain!At(i) : i \in Chain!Places}

PcValues ==
    {"read", "issue", "inflight", "decide", "waiting", "finish", "surface", "done"}

TypeInv ==
    /\ now \in Nat /\ ctx \in {"alive", "canceled", "deadline"}
    /\ request \in Requests /\ request.window \in Nat
    /\ pc \in PcValues
    /\ fallbackIndex \in Chain!Places /\ model = Chain!At(fallbackIndex)
    /\ heldRefusal \in Nat /\ heldSafeguard.attempt \in Nat
    /\ sent \in Seq(Models)

\* There is still time to send an attempt.
Open == ctx = "alive" /\ ~WindowOver

\* The last attempt asked the model of the body, and it has not refused.
Asked == sent # <<>> /\ model = sent[Len(sent)]
AskedAnew == Asked /\ (Held = 0 \/ Held < Len(sent))

ModelDue ==
    \/ sent = <<>> /\ Held = 0 /\ model = FirstModel
    \/ AskedAnew
    \/ sent # <<>> /\ Held # 0 /\ Chain!Follows(sent[Len(sent)], model)

\* Where the loop stands in the chain while it can go on.
PositionInv ==
    /\ pc = "read" => sent = <<>> /\ Held = 0
    /\ pc = "inflight" => AskedAnew
    /\ Open /\ pc = "issue" => ModelDue
    /\ Open /\ pc = "decide" =>
         Asked /\ IF branch = "swap" THEN Held # 0 ELSE AskedAnew
    /\ Open /\ pc = "waiting" => AskedAnew

\* What is held is an attempt the upstream saw, and a refusal of it.
HeldInv ==
    /\ heldRefusal = 0 \/ heldSafeguard.attempt = 0
    /\ Held = 0 => fallbackIndex = 0
    /\ Held <= Len(sent)
    /\ heldSafeguard.attempt # 0 => IsSafeguard(heldSafeguard.fault)

SpoolInv ==
    /\ spools \subseteq {heldRefusal} \ {0}
    /\ pc = "done" => spools = {}

ResponseInv == pc # "done" => response = NoResponse

LoopInv ==
    /\ TypeInv /\ PositionInv /\ HeldInv /\ SpoolInv /\ ResponseInv
    /\ HeldIsOriginal /\ ChainNeverRestarts

-----------------------------------------------------------------------------
(* Helpers                                                                 *)

\* A nonempty set of candidates has a first one.
LEMMA FirstCandidate ==
    ASSUME NEW from \in Nat, Candidates(from) # {}
    PROVE  /\ NextFallback(from) \in Candidates(from)
           /\ \A j \in Candidates(from) : NextFallback(from) <= j
<1> DEFINE Less == OpToRel(<, Nat)
<1>1. Candidates(from) \subseteq Nat
  BY DEF Candidates
<1>2. \A i, j \in Nat : j < i => <<j, i>> \in Less
  BY Zenon DEF OpToRel
<1>3. IsWellFoundedOn(Less, Nat)
  BY NatLessThanWellFounded
<1> HIDE DEF Less
<1>4. \E i \in Candidates(from) : \A j \in Candidates(from) : ~ (<<j, i>> \in Less)
  BY <1>1, <1>3, WFMin, Zenon
<1>5. \E i \in Candidates(from) : \A j \in Candidates(from) : i <= j
  <2> PICK i \in Candidates(from) : \A j \in Candidates(from) : ~ (<<j, i>> \in Less)
    BY <1>4
  <2>1. ASSUME NEW j \in Candidates(from) PROVE i <= j
    <3>1. i \in Nat /\ j \in Nat
      BY <1>1
    <3>2. ~ (j < i)
      BY <1>2, <3>1, Zenon
    <3> QED
      BY <3>1, <3>2
  <2> QED
    BY <2>1
<1> QED
  BY <1>5 DEF NextFallback

\* The next fallback is the model that follows.
LEMMA NextFollows ==
    ASSUME LoopAssumption, NEW from \in Chain!Places, Candidates(from) # {}
    PROVE  /\ NextFallback(from) \in Chain!Places
           /\ NextFallback(from) # 0
           /\ Fallbacks[NextFallback(from)] = Chain!At(NextFallback(from))
           /\ Chain!Follows(Chain!At(from), Chain!At(NextFallback(from)))
<1> DEFINE i == NextFallback(from)
<1>1. from \in Nat /\ \A k \in Chain!Places : k \in Nat
  BY DEF Chain!Places, LoopAssumption
<1>2. i \in Candidates(from) /\ \A j \in Candidates(from) : i <= j
  BY <1>1, FirstCandidate
<1> HIDE DEF i
<1>3. i \in Chain!Places /\ i # 0 /\ from < i
  BY <1>1, <1>2 DEF Candidates, Chain!Places, LoopAssumption
<1>4. \A k \in Chain!Places : k <= from \/ i <= k
  BY <1>1, <1>2 DEF Candidates, Chain!Places, LoopAssumption
<1> QED
  BY <1>3, <1>4 DEF Chain!At, Chain!Follows, i

-----------------------------------------------------------------------------
(* The steps by their effect on the chain                                  *)

ChainVars == <<model, fallbackIndex, heldRefusal, heldSafeguard, spools, sent, response>>

\* Where a step that only moves the loop may take it.
PcMove ==
    \/ pc' = pc /\ branch' = branch
    \/ pc = "read" /\ pc' = "issue"
    \/ pc = "issue" /\ pc' = "decide" /\ ~Open
    \/ pc = "inflight" /\ pc' = "decide" /\ (branch' = "swap" => Held # 0)
    \/ pc = "decide" /\ pc' = "waiting" /\ branch # "swap"
    \/ pc = "waiting" /\ pc' = "issue"
    \/ pc' \in {"finish", "surface"}

\* Time, the client, and the decisions that ask nobody.
Quiet ==
    /\ UNCHANGED ChainVars
    /\ Open' => Open
    /\ PcMove
    /\ pc = "done" => pc' = "done" /\ clientGone' = clientGone
    /\ pc' = "done" => pc = "done"

\* The first refusal is held.
Hold ==
    /\ pc = "inflight" /\ pc' = "decide" /\ branch' = "swap"
    /\ Held = 0 /\ Held' = Len(sent)
    /\ heldRefusal' = 0 \/ heldSafeguard'.attempt = 0
    /\ heldRefusal' \in Nat /\ heldSafeguard'.attempt \in Nat
    /\ heldSafeguard'.attempt # 0 => IsSafeguard(heldSafeguard'.fault)
    /\ spools' \subseteq {heldRefusal'} \ {0}
    /\ UNCHANGED <<model, fallbackIndex, sent, response>>

\* The answers, by the place of the loop that gives them.
Kinds ==
    \/ pc = "read" /\ response' = Answered("rejected", 0, NoFault)
    \/ pc = "inflight" /\ \E kind \in {"ok", "delivered", "drop"} :
         response' = Answered(kind, Len(sent), NoFault)
    \/ pc = "surface" /\ OriginalDue /\ heldRefusal # 0 /\ \E kind \in {"held", "drop"} :
         response' = Answered(kind, Held, NoFault)
    \/ pc = "surface" /\ OriginalDue /\ heldRefusal = 0
         /\ response' = Answered("fail", Held, heldSafeguard.fault)
    \/ pc = "surface" /\ ~OriginalDue /\ response' = Answered("fail", Len(sent), last)
    \/ pc = "surface" /\ ~FallbackActive /\ response' = Answered("retry", Len(sent), last)

AnswerStep ==
    /\ pc' = "done" /\ spools' = spools \ {heldRefusal}
    /\ Kinds
    /\ UNCHANGED <<model, fallbackIndex, heldRefusal, heldSafeguard, sent, clientGone>>

\* Every step is one of these.
LEMMA StepKinds ==
    ASSUME LoopAssumption, LoopInv, [Next]_vars
    PROVE  Quiet \/ IssueAttempt \/ Hold \/ SwapToFallback \/ AnswerStep
<1> USE DEF Quiet, PcMove, ChainVars, Open, WindowOver, clock, held, chain, retry
<1>1. CASE Tick \/ ClientLeaves
  BY <1>1 DEF Tick, ClientLeaves, Running, LoopInv, TypeInv, LoopAssumption
<1>2. CASE AcceptBody
  BY <1>2 DEF AcceptBody
<1>3. CASE RejectBody
  BY <1>3 DEF RejectBody, Respond, AnswerStep, Kinds
<1>4. CASE IssueTooLate \/ TransportFails \/ NonSSEFails
  BY <1>4 DEF IssueTooLate, TransportFails, NonSSEFails
<1>5. CASE LocalRetry \/ FastRetry \/ GiveUp \/ WaitEnds \/ WaitInterrupted \/ ClassifyEnd
  BY <1>5 DEF LocalRetry, FastRetry, GiveUp, WaitEnds, WaitInterrupted, ClassifyEnd,
       LocalRetryDue, FastRetryDue, Wait
<1>6. CASE NonSSEAnswer \/ StreamAnswers
  BY <1>6 DEF NonSSEAnswer, StreamAnswers, Respond, Attempt, AnswerStep, Kinds
<1>7. ASSUME pc = "inflight" PROVE Len(sent) \in Nat \ {0}
  BY <1>7 DEF LoopInv, PositionInv, TypeInv, AskedAnew, Asked
<1>8. CASE HTTPError \/ StreamFails
  <2>1. PICK f : \/ UNCHANGED heldSafeguard /\ branch' \in {"http", "stream"}
                 \/ /\ IsSafeguard(f) /\ branch' = "swap"
                    /\ heldSafeguard' = IF FallbackActive THEN heldSafeguard
                                       ELSE [attempt |-> Attempt, fault |-> f]
    BY <1>8, Zenon DEF HTTPError, StreamFails
  <2>2. /\ pc = "inflight" /\ pc' = "decide"
        /\ UNCHANGED <<clock, request, chain, heldRefusal, spools, sent, response>>
    BY <1>8 DEF HTTPError, StreamFails
  <2>3. CASE UNCHANGED heldSafeguard /\ branch' \in {"http", "stream"}
    BY <2>2, <2>3
  <2>4. CASE FallbackActive /\ UNCHANGED heldSafeguard
    BY <2>2, <2>4 DEF FallbackActive, Held
  <2>5. CASE /\ ~FallbackActive /\ branch' = "swap" /\ IsSafeguard(f)
             /\ heldSafeguard' = [attempt |-> Attempt, fault |-> f]
    <3>1. heldRefusal = 0 /\ heldSafeguard.attempt = 0 /\ heldRefusal' = 0
      BY <2>2, <2>5 DEF FallbackActive
    <3>2. heldSafeguard'.attempt = Len(sent) /\ heldSafeguard'.fault = f
      BY <2>5 DEF Attempt
    <3>3. Held = 0 /\ Held' = Len(sent)
      BY <3>1, <3>2 DEF Held
    <3>4. spools' \subseteq {heldRefusal'} \ {0}
      BY <2>2, <3>1 DEF LoopInv, SpoolInv
    <3> QED
      BY <1>7, <2>2, <2>5, <3>1, <3>2, <3>3, <3>4 DEF Hold
  <2> QED
    BY <2>1, <2>3, <2>4, <2>5
<1>9. CASE StreamRefuses
  <2>1. CASE FallbackActive
    BY <1>9, <2>1 DEF StreamRefuses, FallbackActive, Held
  <2>2. CASE ~FallbackActive
    <3>1. heldRefusal = 0 /\ heldSafeguard.attempt = 0 /\ spools = {}
      BY <2>2 DEF FallbackActive, LoopInv, SpoolInv
    <3>2. /\ heldRefusal' = Len(sent) /\ spools' = {Len(sent)}
          /\ UNCHANGED <<model, fallbackIndex, heldSafeguard, sent, response>>
          /\ pc = "inflight" /\ pc' = "decide" /\ branch' = "swap"
      BY <1>9, <2>2, <3>1 DEF StreamRefuses, Attempt
    <3> QED
      BY <1>7, <3>1, <3>2 DEF Hold, Held
  <2> QED
    BY <2>1, <2>2
<1>10. CASE DeliverHeldRefusal \/ DeliverHeldSafeguard \/ SurfaceFailure
  BY <1>10 DEF DeliverHeldRefusal, DeliverHeldSafeguard, SurfaceFailure, Respond,
       Attempt, AnswerStep, Kinds, Held, FallbackActive
<1>11. CASE Done \/ UNCHANGED vars
  BY <1>11 DEF Done, vars
<1> QED
  BY <1>1, <1>2, <1>3, <1>4, <1>5, <1>6, <1>8, <1>9, <1>10, <1>11
     DEF Next, Outcome, Handler

-----------------------------------------------------------------------------
(* The invariant                                                           *)

LEMMA InitInv ==
    ASSUME LoopAssumption, Init
    PROVE  LoopInv
<1>1. request.window \in Nat
  BY DEF Init, Requests, LoopAssumption
<1>2. 0 \in Chain!Places /\ FirstModel = Chain!At(0)
  BY DEF Chain!Places, Chain!At
<1>3. Held = 0
  BY DEF Init, Held
<1> QED
  BY <1>1, <1>2, <1>3 DEF Init, LoopInv, TypeInv, PcValues, PositionInv, HeldInv, SpoolInv,
     ResponseInv, HeldIsOriginal, ChainNeverRestarts

\* The clock, the context and the program counter.
LEMMA ControlTyped ==
    ASSUME LoopAssumption, LoopInv, [Next]_vars
    PROVE  /\ now' \in Nat /\ ctx' \in {"alive", "canceled", "deadline"}
           /\ request' = request /\ pc' \in PcValues
<1> USE DEF LoopInv, TypeInv, PcValues, clock
<1>1. CASE Tick \/ ClientLeaves \/ AcceptBody \/ RejectBody
  BY <1>1 DEF Tick, ClientLeaves, AcceptBody, RejectBody, Respond
<1>2. CASE TransportFails \/ NonSSEFails \/ NonSSEAnswer \/ StreamAnswers
  BY <1>2 DEF TransportFails, NonSSEFails, NonSSEAnswer, StreamAnswers, Respond
<1>3. CASE HTTPError \/ StreamFails \/ StreamRefuses
  BY <1>3 DEF HTTPError, StreamFails, StreamRefuses
<1>4. CASE IssueAttempt \/ IssueTooLate \/ LocalRetry \/ FastRetry \/ SwapToFallback \/ GiveUp
  BY <1>4 DEF IssueAttempt, IssueTooLate, LocalRetry, FastRetry, SwapToFallback, GiveUp, Wait
<1>5. CASE \/ WaitEnds \/ WaitInterrupted \/ ClassifyEnd \/ DeliverHeldRefusal
           \/ DeliverHeldSafeguard \/ SurfaceFailure
  BY <1>5 DEF WaitEnds, WaitInterrupted, ClassifyEnd, DeliverHeldRefusal,
     DeliverHeldSafeguard, SurfaceFailure, Respond
<1>6. CASE Done \/ UNCHANGED vars
  BY <1>6 DEF Done, vars
<1> QED
  BY <1>1, <1>2, <1>3, <1>4, <1>5, <1>6 DEF Next, Outcome, Handler

\* Sending an attempt: the model is due, and from then on the last one asked.
LEMMA Sends ==
    ASSUME LoopAssumption, LoopInv, IssueAttempt
    PROVE  /\ ModelDue /\ Open
           /\ model \in Models /\ sent' = Append(sent, model) /\ Len(sent') = Len(sent) + 1
           /\ Held' = Held /\ Held \in Nat /\ Held <= Len(sent)
<1>1. ModelDue /\ Open
  BY DEF IssueAttempt, Open, LoopInv, PositionInv
<1>2. model \in Models
  BY DEF LoopInv, TypeInv, Models
<1>3. sent' = Append(sent, model) /\ sent \in Seq(Models)
  BY DEF IssueAttempt, LoopInv, TypeInv
<1>4. Held' = Held /\ Held \in Nat /\ Held <= Len(sent)
  BY DEF IssueAttempt, held, Held, LoopInv, TypeInv, HeldInv
<1> QED
  BY <1>1, <1>2, <1>3, <1>4

\* A swap moves to the next fallback, after the last model asked has failed.
LEMMA Swaps ==
    ASSUME LoopAssumption, LoopInv, SwapToFallback
    PROVE  /\ fallbackIndex' \in Chain!Places /\ fallbackIndex' # 0
           /\ model' = Chain!At(fallbackIndex')
           /\ Chain!Follows(model, model')
           /\ Open /\ Asked /\ Held # 0 /\ pc = "decide"
<1>1. /\ pc = "decide" /\ Open /\ Candidates(fallbackIndex) # {}
      /\ branch = "swap" \/ FallbackActive
  BY DEF SwapToFallback, SwapDue, CanSwap, Open
<1>2. Asked /\ Held # 0
  BY <1>1 DEF LoopInv, PositionInv, HeldInv, Held, FallbackActive, AskedAnew
<1>3. /\ fallbackIndex' = NextFallback(fallbackIndex)
      /\ model' = Fallbacks[NextFallback(fallbackIndex)]
  BY DEF SwapToFallback
<1> QED
  BY <1>1, <1>2, <1>3, NextFollows DEF LoopInv, TypeInv

LEMMA TypeStep ==
    ASSUME LoopAssumption, LoopInv, [Next]_vars
    PROVE  TypeInv'
<1> USE DEF LoopInv, TypeInv
<1>1. CASE Quiet
  BY <1>1, ControlTyped DEF Quiet, ChainVars
<1>2. CASE IssueAttempt
  BY <1>2, ControlTyped, Sends DEF IssueAttempt, chain, held
<1>3. CASE Hold
  BY <1>3, ControlTyped DEF Hold
<1>4. CASE SwapToFallback
  BY <1>4, ControlTyped, Swaps DEF SwapToFallback, held
<1>5. CASE AnswerStep
  BY <1>5, ControlTyped DEF AnswerStep
<1> QED
  BY <1>1, <1>2, <1>3, <1>4, <1>5, StepKinds

LEMMA PositionStep ==
    ASSUME LoopAssumption, LoopInv, [Next]_vars
    PROVE  PositionInv'
<1> USE DEF PositionInv
<1>1. CASE Quiet
  <2>1. (ModelDue <=> ModelDue') /\ (Asked <=> Asked') /\ (AskedAnew <=> AskedAnew') /\ Held' = Held
    BY <1>1 DEF Quiet, ChainVars, ModelDue, AskedAnew, Asked, Held
  <2>2. AskedAnew => ModelDue /\ Asked
    BY DEF ModelDue, AskedAnew
  <2>3. pc = "read" => ModelDue
    BY DEF ModelDue, LoopInv, TypeInv, HeldInv, Chain!At
  <2>4. (Open' => Open) /\ PcMove /\ PositionInv
    BY <1>1 DEF Quiet, LoopInv
  <2>5. (pc = "read" => sent = <<>> /\ Held = 0)'
    BY <1>1, <2>1, <2>4 DEF PcMove, Quiet, ChainVars
  <2>6. (pc = "inflight" => AskedAnew)'
    BY <2>1, <2>4 DEF PcMove
  <2>7. (Open /\ pc = "issue" => ModelDue)'
    BY <2>1, <2>2, <2>3, <2>4 DEF PcMove
  <2>8. (Open /\ pc = "decide" => Asked /\ IF branch = "swap" THEN Held # 0 ELSE AskedAnew)'
    BY <2>1, <2>2, <2>4 DEF PcMove
  <2>9. (Open /\ pc = "waiting" => AskedAnew)'
    BY <2>1, <2>4 DEF PcMove
  <2> QED
    BY <2>5, <2>6, <2>7, <2>8, <2>9
<1>2. CASE IssueAttempt
  <2>1. AskedAnew'
    BY <1>2, Sends DEF IssueAttempt, chain, AskedAnew, Asked
  <2> QED
    BY <1>2, <2>1 DEF IssueAttempt
<1>3. CASE Hold
  <2>1. Asked' /\ Held' # 0
    BY <1>3 DEF Hold, LoopInv, TypeInv, Asked, AskedAnew
  <2> QED
    BY <1>3, <2>1 DEF Hold
<1>4. CASE SwapToFallback
  <2>1. ModelDue'
    BY <1>4, Swaps DEF SwapToFallback, held, ModelDue, Asked, Held
  <2> QED
    BY <1>4, <2>1 DEF SwapToFallback
<1>5. CASE AnswerStep
  BY <1>5 DEF AnswerStep
<1> QED
  BY <1>1, <1>2, <1>3, <1>4, <1>5, StepKinds

LEMMA HeldStep ==
    ASSUME LoopAssumption, LoopInv, [Next]_vars
    PROVE  HeldInv' /\ SpoolInv' /\ ResponseInv'
<1> USE DEF LoopInv, HeldInv, SpoolInv, ResponseInv
<1>1. CASE Quiet
  BY <1>1 DEF Quiet, ChainVars, Held
<1>2. CASE IssueAttempt
  BY <1>2, Sends DEF IssueAttempt, chain, held, TypeInv
<1>3. CASE Hold
  BY <1>3 DEF Hold, TypeInv
<1>4. CASE SwapToFallback
  BY <1>4, Swaps DEF SwapToFallback, held, Held
<1>5. CASE AnswerStep
  BY <1>5 DEF AnswerStep, Held
<1> QED
  BY <1>1, <1>2, <1>3, <1>4, <1>5, StepKinds

-----------------------------------------------------------------------------
(* The original answer                                                     *)

\* Whether a model that is due is the request's own tells whether the chain
\* has started.
LEMMA DueModelIsOriginal ==
    ASSUME LoopAssumption, LoopInv, ModelDue
    PROVE  model # FirstModel <=> Held # 0
<1>1. CASE sent = <<>> /\ Held = 0 /\ model = FirstModel
  BY <1>1
<1>2. CASE AskedAnew
  <2>1. Len(sent) \in DOMAIN sent /\ model = sent[Len(sent)] /\ Held \in Nat
    BY <1>2 DEF AskedAnew, Asked, LoopInv, TypeInv, Held
  <2> QED
    BY <1>2, <2>1 DEF AskedAnew, LoopInv, HeldIsOriginal
<1>3. CASE Held # 0 /\ Chain!Follows(sent[Len(sent)], model)
  BY <1>3 DEF Chain!Follows, Chain!At, Chain!Places, LoopAssumption
<1> QED
  BY <1>1, <1>2, <1>3 DEF ModelDue

LEMMA HeldIsOriginalStep ==
    ASSUME LoopAssumption, LoopInv, [Next]_vars
    PROVE  HeldIsOriginal'
<1> USE DEF HeldIsOriginal
<1>0. (heldRefusal = 0 \/ heldSafeguard.attempt = 0)'
  BY HeldStep DEF HeldInv
<1>1. CASE Held' = Held /\ sent' = sent
  BY <1>0, <1>1 DEF LoopInv
<1>2. CASE IssueAttempt
  <2>1. model # FirstModel <=> Held # 0
    BY <1>2, Sends, DueModelIsOriginal
  <2>2. sent \in Seq(Models)
    BY DEF LoopInv, TypeInv
  <2> SUFFICES ASSUME NEW k \in DOMAIN sent'
               PROVE  sent'[k] # FirstModel <=> Held # 0 /\ k > Held
    BY <1>0, <1>2, Sends, Zenon
  <2>3. CASE k \in DOMAIN sent
    <3>1. sent'[k] = sent[k]
      BY <1>2, <2>2, <2>3, Sends, SMTT(30)
    <3> QED
      BY <2>3, <3>1 DEF LoopInv
  <2>4. CASE k \notin DOMAIN sent
    BY <1>2, <2>1, <2>2, <2>4, Sends
  <2> QED
    BY <2>3, <2>4
<1>3. CASE Hold
  BY <1>0, <1>3 DEF Hold, LoopInv, TypeInv
<1> QED
  BY <1>1, <1>2, <1>3, StepKinds DEF Quiet, ChainVars, Held, SwapToFallback, held, AnswerStep

\* The one answer of a failed chain.
LEMMA ChainNeverRestartsStep ==
    ASSUME LoopAssumption, LoopInv, [Next]_vars
    PROVE  ChainNeverRestarts'
<1> USE DEF ChainNeverRestarts
<1>1. CASE pc' # "done"
  BY <1>1
<1>2. CASE Quiet
  BY <1>2 DEF Quiet, ChainVars, Held, LoopInv
<1>3. CASE AnswerStep
  <2>1. Held' = Held /\ heldSafeguard' = heldSafeguard /\ clientGone' = clientGone
    BY <1>3 DEF AnswerStep, Held
  <2>2. FallbackActive <=> Held # 0
    BY DEF FallbackActive, Held
  <2>3. FallbackAction(RefusalFault) = "next"
    BY DEF FallbackAction, RefusalFault, Fault, IsAccountError
  <2>4. heldSafeguard.attempt # 0 => heldSafeguard.fault # RefusalFault
    <3>1. ~IsSafeguard(RefusalFault)
      BY DEF IsSafeguard, RefusalFault, Fault
    <3> QED
      BY <3>1 DEF LoopInv, HeldInv
  <2>5. pc = "read" => Held = 0
    BY DEF LoopInv, PositionInv
  <2>6. \A kind, attempt, fault :
          /\ Answered(kind, attempt, fault).kind = kind
          /\ Answered(kind, attempt, fault).attempt = attempt
          /\ Answered(kind, attempt, fault).fault = fault
    BY DEF Answered
  <2> SUFFICES ASSUME Held # 0
               PROVE  /\ response'.kind # "retry"
                      /\ response'.kind = "held" => response'.attempt = Held
                      /\ response'.kind = "fail" /\ ~clientGone =>
                           /\ \/ response'.fault = heldSafeguard.fault
                              \/ FallbackAction(response'.fault) = "stop"
                           /\ response'.fault # RefusalFault
    BY <2>1
  <2>7. CASE \E kind \in {"ok", "delivered", "drop"} :
               response' = Answered(kind, Len(sent), NoFault)
    BY <2>6, <2>7
  <2>8. CASE \E kind \in {"held", "drop"} : response' = Answered(kind, Held, NoFault)
    BY <2>6, <2>8
  <2>9. CASE heldRefusal = 0 /\ response' = Answered("fail", Held, heldSafeguard.fault)
    BY <2>4, <2>6, <2>9 DEF Held
  <2>10. CASE ~OriginalDue /\ response' = Answered("fail", Len(sent), last)
    BY <2>2, <2>3, <2>6, <2>10 DEF OriginalDue
  <2> QED
    BY <1>3, <2>2, <2>5, <2>7, <2>8, <2>9, <2>10 DEF AnswerStep, Kinds
<1> QED
  BY <1>1, <1>2, <1>3, StepKinds DEF IssueAttempt, Hold, SwapToFallback

-----------------------------------------------------------------------------
(* The theorems                                                            *)

LEMMA LoopInvariant == Spec => []LoopInv
<1>1. Init => LoopInv
  BY InitInv, LoopAssumption
<1>2. LoopInv /\ [Next]_vars => LoopInv'
  BY LoopAssumption, TypeStep, PositionStep, HeldStep, HeldIsOriginalStep,
     ChainNeverRestartsStep DEF LoopInv
<1> QED
  BY <1>1, <1>2, PTL DEF Spec

\* Another model is asked only after the original one refused, and that refusal
\* stays held (handle: "Candidate refusals never replace it").
THEOREM OriginalIsHeld == Spec => []HeldIsOriginal
<1>1. LoopInv => HeldIsOriginal
  BY DEF LoopInv
<1> QED
  BY <1>1, LoopInvariant, PTL

\* A failed chain gives the original answer back, never the internal sentinel
\* and never an invitation to start again, whatever the upstream, the clock and
\* the client do (handle, deliverHeldRefusal, writeFailure).
THEOREM FailedChainIsFinal == Spec => []ChainNeverRestarts
<1>1. LoopInv => ChainNeverRestarts
  BY DEF LoopInv
<1> QED
  BY <1>1, LoopInvariant, PTL

\* Where AccountErrorEndsChain applies.
Refused ==
    /\ FallbackActive /\ branch = "http" /\ pc \in {"decide", "finish", "surface"}
    /\ last.origStatus \in {401, 402, 403}

\* Nothing that goes on after a failure is due.
LEMMA RefusedIsFinal ==
    ASSUME Refused
    PROVE  ~LocalRetryDue /\ ~FastRetryDue /\ ~SwapDue /\ ~OriginalDue
<1>1. FallbackAction(last) = "stop"
  BY DEF Refused, FallbackAction, IsAccountError
<1> QED
  BY <1>1 DEF Refused, LocalRetryDue, FastRetryDue, SwapDue, OriginalDue

\* An account error of a candidate ends the chain with that error, whether its
\* body was read or broke, whatever else could be retried or was held (handle,
\* classifyUpstreamHTTPError, claudeFallbackAction).
THEOREM AccountErrorsAreFinal == Spec => AccountErrorEndsChain
<1> DEFINE Ends == /\ pc' \in {"decide", "finish", "surface", "done"}
                   /\ pc' = "done" => response'.kind = "fail" /\ response'.fault = last
<1>1. ASSUME Refused, Next PROVE Ends
  <2> USE <1>1 DEF Refused
  <2>1. CASE Tick \/ ClientLeaves \/ AcceptBody \/ RejectBody \/ Done
    BY <2>1 DEF Tick, ClientLeaves, AcceptBody, RejectBody, Done
  <2>2. CASE Outcome
    BY <2>2 DEF Outcome, TransportFails, HTTPError, NonSSEAnswer, NonSSEFails, StreamFails,
         StreamRefuses, StreamAnswers
  <2>3. CASE LocalRetry \/ FastRetry \/ SwapToFallback \/ DeliverHeldRefusal
             \/ DeliverHeldSafeguard
    BY <2>3, RefusedIsFinal
       DEF LocalRetry, FastRetry, SwapToFallback, DeliverHeldRefusal, DeliverHeldSafeguard
  <2>4. CASE IssueAttempt \/ IssueTooLate \/ WaitEnds \/ WaitInterrupted
    BY <2>4 DEF IssueAttempt, IssueTooLate, WaitEnds, WaitInterrupted
  <2>5. CASE GiveUp \/ ClassifyEnd
    BY <2>5 DEF GiveUp, ClassifyEnd
  <2>6. CASE SurfaceFailure
    BY <2>6 DEF SurfaceFailure, Respond, Answered
  <2> QED
    BY <1>1, <2>1, <2>2, <2>3, <2>4, <2>5, <2>6 DEF Next, Handler
<1>2. [Next]_vars => [Refused => Ends]_vars
  BY <1>1
<1> QED
  BY <1>2, PTL DEF Spec, AccountErrorEndsChain, Refused

\* No response is held but the original refusal, and none once handle returned
\* (the deferred discard of heldRefusal).
THEOREM HeldSpoolsAreReleased == Spec => []SpoolsReleased
<1>1. LoopInv => SpoolsReleased
  BY DEF LoopInv, SpoolInv, SpoolsReleased
<1> QED
  BY <1>1, LoopInvariant, PTL

-----------------------------------------------------------------------------
(* The order of the models                                                 *)

\* A model has one place.
LEMMA OnePlace ==
    ASSUME LoopAssumption, NEW i \in Chain!Places, NEW j \in Chain!Places,
           Chain!At(i) = Chain!At(j)
    PROVE  i = j /\ i \in Nat
BY DEF LoopAssumption, Chain!Places, Chain!At

\* A swap changes the model.
LEMMA SwapChanges ==
    ASSUME LoopAssumption, LoopInv, SwapToFallback
    PROVE  model' # model
<1> SUFFICES ASSUME model' = model PROVE FALSE
  OBVIOUS
<1>1. PICK i \in Chain!Places, j \in Chain!Places :
         model = Chain!At(i) /\ model' = Chain!At(j) /\ i < j
  BY Swaps DEF Chain!Follows
<1>2. Chain!At(i) = Chain!At(j)
  BY <1>1
<1>3. i = j /\ i \in Nat
  BY <1>2, OnePlace
<1> QED
  BY <1>1, <1>3

\* A due model is not before the last one that was asked.
LEMMA DueIsLater ==
    ASSUME LoopAssumption, ModelDue, sent # <<>>, NEW j \in Chain!Places, model = Chain!At(j),
           NEW i \in Chain!Places, sent[Len(sent)] = Chain!At(i)
    PROVE  i <= j
<1>1. CASE AskedAnew
  <2>1. Chain!At(i) = Chain!At(j)
    BY <1>1 DEF AskedAnew, Asked
  <2> QED
    BY <2>1, OnePlace
<1>2. CASE Chain!Follows(sent[Len(sent)], model)
  <2> PICK m \in Chain!Places, n \in Chain!Places :
        sent[Len(sent)] = Chain!At(m) /\ model = Chain!At(n) /\ m < n
    BY <1>2 DEF Chain!Follows
  <2>1. m = i /\ n = j /\ m \in Nat /\ n \in Nat
    BY OnePlace
  <2> QED
    BY <2>1
<1> QED
  BY <1>1, <1>2 DEF ModelDue

LEMMA OrderStep ==
    ASSUME LoopAssumption, LoopInv, Chain!AskedInOrder, [Next]_vars
    PROVE  Chain!AskedInOrder'
<1>1. CASE sent' = sent
  BY <1>1 DEF Chain!AskedInOrder
<1>2. CASE IssueAttempt
  <2>1. ModelDue /\ sent' = Append(sent, model) /\ sent \in Seq(Models) /\ model \in Models
    BY <1>2, Sends DEF LoopInv, TypeInv
  <2>2. /\ \A k \in DOMAIN sent : sent'[k] = sent[k]
        /\ \A k \in DOMAIN sent' : k \in DOMAIN sent \/ (k = Len(sent) + 1 /\ sent'[k] = model)
    BY <2>1
  <2> SUFFICES ASSUME NEW k \in DOMAIN sent', NEW l \in DOMAIN sent',
                      NEW i \in Chain!Places, NEW j \in Chain!Places,
                      k < l, sent'[k] = Chain!At(i), sent'[l] = Chain!At(j)
               PROVE  i <= j
    BY DEF Chain!AskedInOrder
  <2>3. k \in DOMAIN sent
    BY <2>1, <2>2
  <2>4. CASE l \in DOMAIN sent
    BY <2>2, <2>3, <2>4 DEF Chain!AskedInOrder
  <2>5. CASE l = Len(sent) + 1 /\ sent'[l] = model
    <3>1. sent # <<>> /\ Len(sent) \in DOMAIN sent /\ sent[k] = Chain!At(i) /\ k <= Len(sent)
      BY <2>1, <2>2, <2>3
    <3>2. PICK m \in Chain!Places : sent[Len(sent)] = Chain!At(m)
      BY <2>1, <3>1 DEF Models
    <3>3. m <= j
      BY <2>1, <2>5, <3>1, <3>2, DueIsLater
    <3>4. i <= m
      <4>1. CASE k = Len(sent)
        <5>1. Chain!At(i) = Chain!At(m)
          BY <3>1, <3>2, <4>1
        <5> QED
          BY <5>1, OnePlace
      <4>2. CASE k # Len(sent)
        BY <2>3, <3>1, <3>2, <4>2 DEF Chain!AskedInOrder
      <4> QED
        BY <4>1, <4>2
    <3>5. i \in Nat /\ j \in Nat /\ m \in Nat
      BY OnePlace
    <3> QED
      BY <3>3, <3>4, <3>5
  <2> QED
    BY <2>2, <2>4, <2>5
<1> QED
  BY <1>1, <1>2, StepKinds DEF Quiet, ChainVars, Hold, SwapToFallback, AnswerStep

\* The models are asked in order and none is returned to (nextFallback, whose
\* index only grows).
THEOREM ModelsInOrder == Spec => []Chain!AskedInOrder
<1>1. Init => Chain!AskedInOrder
  BY DEF Init, Chain!AskedInOrder
<1>2. LoopInv /\ Chain!AskedInOrder /\ [Next]_vars => Chain!AskedInOrder'
  BY OrderStep, LoopAssumption
<1> QED
  BY <1>1, <1>2, LoopInvariant, PTL DEF Spec

-----------------------------------------------------------------------------
(* The refinement                                                          *)

\* Each kind of step is a step of the chain or does not concern it.
LEMMA ChainStep ==
    ASSUME LoopAssumption, LoopInv, [Next]_vars
    PROVE  [Chain!Next]_(Chain!vars)
<1>1. pc # "done" => ClientAnswer = Chain!NoAnswer
  BY DEF LoopInv, ResponseInv, ClientAnswer, NoResponse, Chain!NoAnswer
<1>2. \A kind, attempt, fault :
         response' = Answered(kind, attempt, fault) =>
             ClientAnswer' = [kind |-> kind, attempt |-> attempt]
  BY DEF ClientAnswer, Answered
<1>3. CASE Quiet
  BY <1>3 DEF Quiet, ChainVars, Chain!vars, Held, ClientAnswer
<1>4. CASE IssueAttempt
  <2>1. ClientAnswer = Chain!NoAnswer /\ ClientAnswer' = ClientAnswer
    BY <1>1, <1>4 DEF IssueAttempt, ClientAnswer
  <2>2. Chain!Due(model)
    BY <1>4, Sends DEF ModelDue, AskedAnew, Asked, Chain!Due, Chain!LastAsked
  <2> QED
    BY <1>4, <2>1, <2>2, Sends DEF Models, Chain!Next, Chain!Ask
<1>5. CASE Hold
  <2>1. ClientAnswer' = ClientAnswer /\ pc = "inflight"
    BY <1>5 DEF Hold, ClientAnswer
  <2>2. sent # <<>>
    BY <2>1 DEF LoopInv, PositionInv, AskedAnew, Asked
  <2> QED
    BY <1>1, <1>5, <2>1, <2>2 DEF Hold, Chain!Next, Chain!Refuse
<1>6. CASE SwapToFallback
  BY <1>6 DEF SwapToFallback, held, Held, ClientAnswer, Chain!vars
<1>7. CASE AnswerStep
  <2>1. UNCHANGED <<sent, Held>> /\ (FallbackActive <=> Held # 0)
    BY <1>7 DEF AnswerStep, Held, FallbackActive
  <2>2. CASE pc = "read" /\ response' = Answered("rejected", 0, NoFault)
    <3>1. sent = <<>> /\ Held = 0
      BY <2>2 DEF LoopInv, PositionInv
    <3> QED
      BY <1>1, <1>2, <2>1, <2>2, <3>1 DEF Chain!Next, Chain!Reject, Chain!Answer
  <2>3. CASE pc = "inflight" /\ \E kind \in {"ok", "delivered", "drop"} :
               response' = Answered(kind, Len(sent), NoFault)
    <3>1. sent # <<>> /\ Held # Len(sent)
      BY <2>3 DEF LoopInv, PositionInv, TypeInv, AskedAnew, Asked
    <3> QED
      BY <1>1, <1>2, <2>1, <2>3, <3>1 DEF Chain!Next, Chain!Deliver, Chain!Answer
  <2>4. CASE pc = "surface" /\ heldRefusal # 0 /\ \E kind \in {"held", "drop"} :
               response' = Answered(kind, Held, NoFault)
    BY <1>1, <1>2, <2>1, <2>4 DEF Held, Chain!Next, Chain!GiveBack, Chain!Answer
  <2>5. CASE pc = "surface" /\ OriginalDue
               /\ response' = Answered("fail", Held, heldSafeguard.fault)
    BY <1>1, <1>2, <2>1, <2>5 DEF OriginalDue, Chain!Next, Chain!GiveBack, Chain!Answer
  <2>6. CASE pc = "surface" /\ response' = Answered("fail", Len(sent), last)
    BY <1>1, <1>2, <2>1, <2>6 DEF Chain!Next, Chain!Fail, Chain!Answer
  <2>7. CASE pc = "surface" /\ ~FallbackActive /\ response' = Answered("retry", Len(sent), last)
    BY <1>1, <1>2, <2>1, <2>7 DEF Chain!Next, Chain!Offer, Chain!Answer
  <2> QED
    BY <1>7, <2>2, <2>3, <2>4, <2>5, <2>6, <2>7 DEF AnswerStep, Kinds
<1> QED
  BY <1>3, <1>4, <1>5, <1>6, <1>7, StepKinds

\* The loop implements FallbackChain: with its clock, budgets, retries and
\* deadlines it asks, keeps and answers only as the chain allows (handle).
THEOREM LoopImplementsChain == Spec => ImplementsChain
<1>1. Init => Chain!Init
  BY DEF Init, Held, NoResponse, ClientAnswer, Chain!Init, Chain!NoAnswer
<1>2. LoopInv /\ [Next]_vars => [Chain!Next]_(Chain!vars)
  BY ChainStep, LoopAssumption
<1> QED
  BY <1>1, <1>2, LoopInvariant, PTL DEF Spec, ImplementsChain, Chain!Spec

-----------------------------------------------------------------------------
(* What the classifiers return                                             *)

LEMMA FaultTyped ==
    ASSUME NEW code, NEW status \in Nat, NEW type
    PROVE  IsFault(Fault(code, status, type))
BY DEF Fault, IsFault, NoFault

LEMMA RetryableTyped ==
    ASSUME NEW f, IsFault(f)
    PROVE  IsFault(Retryable(f))
BY DEF IsFault, NoFault, Fault, Retryable

LEMMA FastTyped ==
    ASSUME NEW f, IsFault(f)
    PROVE  IsFault(Fast(f))
BY DEF IsFault, NoFault, Fault, Fast

LEMMA DelayTyped ==
    ASSUME NEW f, IsFault(f), NEW n \in Nat
    PROVE  IsFault(RetryAfter(f, n))
BY DEF IsFault, NoFault, Fault, RetryAfter

LEMMA RetypedTyped ==
    ASSUME NEW f, IsFault(f), NEW t
    PROVE  IsFault([f EXCEPT !.type = t])
BY DEF IsFault, NoFault, Fault

LEMMA OfReplyTyped ==
    ASSUME NEW f, IsFault(f), NEW status \in Nat
    PROVE  IsFault(OfReply(f, status))
BY DEF IsFault, NoFault, Fault, OfReply

LEMMA FinalTyped ==
    ASSUME NEW f, IsFault(f)
    PROVE  IsFault(WithinFallback(f))
BY DEF IsFault, NoFault, Fault, WithinFallback

LEMMA NamedTyped ==
    ASSUME NEW code, NEW status \in Nat, NEW e
    PROVE  IsFault(Named(code, status, e))
<1>1. IsFault(Fault(code, status, TypeOf(e)))
  BY FaultTyped
<1> QED
  BY <1>1 DEF IsFault, NoFault, Fault, Named

\* The failures the proxy makes up itself.
LEMMA OwnFaultsTyped ==
    /\ IsFault(NoFault) /\ IsFault(ClientGone) /\ IsFault(TooLarge) /\ IsFault(RefusalFault)
    /\ IsFault(Redirect) /\ IsFault(DeadlineFault) /\ IsFault(SpoolFault) /\ IsFault(Idle)
    /\ IsFault(TransportFault)
<1>1. /\ IsFault(NoFault) /\ IsFault(ClientGone) /\ IsFault(TooLarge) /\ IsFault(RefusalFault)
      /\ IsFault(Redirect)
  BY DEF IsFault, Fault, NoFault, ClientGone, TooLarge, RefusalFault, Redirect
<1>2. IsFault(DeadlineFault) /\ IsFault(SpoolFault) /\ IsFault(Idle)
  BY FaultTyped, RetryableTyped DEF DeadlineFault, SpoolFault, Idle
<1>3. IsFault(TransportFault)
  <2>1. IsFault(Retryable(Fault("transport_error", 502, "api_error")))
    BY FaultTyped, RetryableTyped
  <2> QED
    BY <2>1, FastTyped DEF TransportFault, Fast
<1> QED
  BY <1>1, <1>2, <1>3

LEMMA HintedTyped ==
    ASSUME NEW reply, IsReply(reply)
    PROVE  IsFault(Hinted(reply))
<1>1. IsFault(Named("upstream_hint", reply.status, reply.error))
  BY NamedTyped DEF IsReply
<1> QED
  BY <1>1, RetryableTyped, DelayTyped DEF Hinted, IsReply

LEMMA ShapedTyped ==
    ASSUME NEW reply, IsReply(reply), NEW verdict
    PROVE  IsFault(ClassifyShaped(reply, verdict))
<1> DEFINE f     == Named("http", reply.status, reply.error)
           again == RetryAfter(Retryable(f), reply.retryAfter)
<1>1. IsFault(f)
  BY NamedTyped DEF IsReply
<1>2. IsFault(again)
  BY <1>1, RetryableTyped, DelayTyped DEF IsReply
<1> HIDE DEF f, again
<1>3. IsFault(Fast(again)) /\ IsFault([again EXCEPT !.type = "rate_limit_error"])
  BY <1>2, FastTyped, RetypedTyped
<1>4. \/ ClassifyShaped(reply, verdict) \in {Redirect, Hinted(reply), f, again, Fast(again)}
      \/ ClassifyShaped(reply, verdict) = [again EXCEPT !.type = "rate_limit_error"]
  BY DEF ClassifyShaped, f, again
<1> QED
  BY <1>1, <1>2, <1>3, <1>4, HintedTyped, OwnFaultsTyped

LEMMA SystemOneTyped ==
    ASSUME NEW reply, IsReply(reply)
    PROVE  IsFault(ClassifySystemOne(reply))
<1> DEFINE f == Named("http", reply.status, reply.error)
<1>1. IsFault(f)
  BY NamedTyped DEF IsReply
<1>2. IsFault(RetryAfter(Retryable(f), reply.retryAfter))
  BY <1>1, RetryableTyped, DelayTyped DEF IsReply
<1> HIDE DEF f
<1>3. ClassifySystemOne(reply)
        \in {Redirect, Hinted(reply), f, RetryAfter(Retryable(f), reply.retryAfter)}
  BY DEF ClassifySystemOne, f
<1> QED
  BY <1>1, <1>2, <1>3, HintedTyped, OwnFaultsTyped

LEMMA HTTPTyped ==
    ASSUME NEW reply, IsReply(reply), NEW route
    PROVE  IsFault(ClassifyHTTP(route, reply))
BY ShapedTyped, SystemOneTyped DEF ClassifyHTTP

LEMMA BrokenTyped ==
    ASSUME NEW reply, IsReply(reply), NEW route, NEW alive, NEW broken, IsFault(broken)
    PROVE  IsFault(ClassifyBroken(route, reply, alive, broken))
<1>1. IsReply([reply EXCEPT !.error = NoError])
  BY DEF IsReply, Reply
<1>2. IsFault(RetryAfter(broken, reply.retryAfter))
  BY DelayTyped DEF IsReply
<1> QED
  BY <1>1, <1>2, HTTPTyped DEF ClassifyBroken

\* An error event is typed whatever it says: each verdict has its own status.
LEMMA InBandTyped ==
    ASSUME NEW e, NEW route
    PROVE  IsFault(ClassifyInBand(route, e))
<1> DEFINE N(code, status) == Named(code, status, e)
<1>1. ASSUME NEW code, NEW status \in Nat
      PROVE  IsFault(N(code, status)) /\ IsFault(Retryable(N(code, status)))
  BY NamedTyped, RetryableTyped
<1>2. IsFault(ClassifySSEError(e))
  <2>1. e.type \in DOMAIN PermanentStatus => PermanentStatus[e.type] \in Nat
    BY DEF PermanentStatus
  <2>2. e.type \in DOMAIN PermanentStatus =>
          IsFault(N("sse_permanent", PermanentStatus[e.type]))
    BY <1>1, <2>1
  <2>3. /\ IsFault(Retryable(N("sse_overloaded", 529)))
        /\ IsFault(Retryable(N("sse_rate_limit", 429)))
        /\ IsFault(Retryable(N("sse_api_error", 502)))
        /\ IsFault(Retryable(N("sse_stream_disconnect", 502)))
        /\ IsFault(N("sse_request_shape", 400)) /\ IsFault(Retryable(N("sse_retryable", 502)))
    BY <1>1
  <2> QED
    BY <2>2, <2>3, Zenon DEF ClassifySSEError
<1>3. IsFault(ClassifyResponsesError(e))
  <2> DEFINE As(status, type) == [Named("responses", status, e) EXCEPT !.type = type]
  <2>1. ASSUME NEW status \in Nat, NEW type
        PROVE  IsFault(As(status, type)) /\ IsFault(Retryable(As(status, type)))
    <3>1. IsFault(As(status, type))
      BY NamedTyped, RetypedTyped
    <3> QED
      BY <3>1, RetryableTyped
  <2>2. ResponsesFaultOf(e) = "rejected" => Rejected[e.type] \in Nat
    <3>1. e.type \in DOMAIN Rejected => Rejected[e.type] \in Nat
      BY DEF Rejected
    <3>2. \A c \in DOMAIN ByCode : ByCode[c] # "rejected"
      BY DEF ByCode
    <3>3. \A t \in DOMAIN ByType : ByType[t] # "rejected"
      BY DEF ByType
    <3> QED
      BY <3>1, <3>2, <3>3 DEF ResponsesFaultOf
  <2>3. ResponsesFaultOf(e) = "rejected" => IsFault(As(Rejected[e.type], e.type))
    BY <2>1, <2>2
  <2>4. /\ IsFault(Retryable(As(504, "timeout_error")))
        /\ IsFault(Retryable(As(429, "rate_limit_error")))
        /\ IsFault(Retryable(As(529, "overloaded_error")))
        /\ IsFault(As(400, "invalid_request_error"))
        /\ IsFault(As(429, IF e.type \in Quota THEN e.type ELSE e.code))
        /\ IsFault(Retryable(As(502, "api_error")))
    BY <2>1
  <2> QED
    BY <2>3, <2>4, Zenon DEF ClassifyResponsesError
<1>4. IsFault(ClassifyGeminiSSEError(e))
  <2>1. IsReply(Reply(GeminiStatus(e.native), e))
    BY DEF Reply, GeminiStatus, IsReply
  <2> QED
    BY <2>1, ShapedTyped DEF ClassifyGeminiSSEError
<1> QED
  BY <1>2, <1>3, <1>4 DEF ClassifyInBand

LEMMA TransportTyped == \A err : IsFault(Classified(err))
BY OwnFaultsTyped DEF Classified

-----------------------------------------------------------------------------
(* The invariant                                                           *)

\* A wait for a retry has ended: the next attempt repeats the last one.
AgainDue == pc = "issue" /\ sent # <<>> /\ model = sent[Len(sent)]

One(b) == IF b THEN 1 ELSE 0

OriginalRepeats == {k \in Repeats : sent[k] = FirstModel}

FaultInv == IsFault(last) /\ IsFault(heldSafeguard.fault)

\* What was spent: a retry is a local one or the one fast retry, and the fast
\* one takes the place of local ones or belongs to the chain.
SpentInv ==
    /\ proxyRetries \in Nat /\ legacyFastUsed \in BOOLEAN
    /\ proxyRetries <= TxLocalRetries + One(legacyFastUsed)
    /\ ~BudgetLeft => proxyRetries = 0
    /\ TxLocalRetries # 0 /\ Held = 0 => ~legacyFastUsed

\* What a wait may be for.
WaitInv ==
    pc = "waiting" =>
        /\ BudgetLeft
        /\ waitKind \in {"local", "fast"}
        /\ waitKind = "local" => Held = 0 /\ proxyRetries < TxLocalRetries
        /\ waitKind = "fast" => ~legacyFastUsed /\ (TxLocalRetries = 0 \/ Held # 0)
        /\ WaitFits

\* The repeats that were sent or are due are paid for.
RepeatInv ==
    /\ Cardinality(Repeats) + One(AgainDue) <= proxyRetries
    /\ Cardinality(OriginalRepeats) <= IF TxLocalRetries = 0 THEN 1 ELSE TxLocalRetries
    /\ Held # 0 =>
         Cardinality(Repeats \ OriginalRepeats) + One(AgainDue) <= One(legacyFastUsed)

BudgetInv == FaultInv /\ SpentInv /\ WaitInv /\ RepeatInv

-----------------------------------------------------------------------------
(* The steps by what they spend                                            *)

\* A step that starts or ends no wait and asks nobody.
Free ==
    /\ UNCHANGED <<proxyRetries, legacyFastUsed, request, sent, model>>
    /\ pc' = "waiting" => pc = "waiting" /\ UNCHANGED <<wake, waitKind>>
    /\ pc' = "issue" => pc = "issue" \/ sent = <<>>
    /\ Held' = Held \/ (Held = 0 /\ pc' = "decide")

LEMMA SpendingKinds ==
    ASSUME LoopAssumption, LoopInv, [Next]_vars
    PROVE  Free \/ LocalRetry \/ FastRetry \/ WaitEnds \/ IssueAttempt \/ SwapToFallback
<1> USE DEF Free, clock, held, chain, retry
<1>1. CASE Tick \/ ClientLeaves
  BY <1>1 DEF Tick, ClientLeaves, Held
<1>2. CASE AcceptBody
  BY <1>2 DEF AcceptBody, Held, LoopInv, PositionInv
<1>3. CASE RejectBody \/ NonSSEAnswer \/ StreamAnswers
  BY <1>3 DEF RejectBody, NonSSEAnswer, StreamAnswers, Respond, Held
<1>4. CASE IssueTooLate \/ TransportFails \/ NonSSEFails
  BY <1>4 DEF IssueTooLate, TransportFails, NonSSEFails, Held
<1>5. CASE GiveUp \/ WaitInterrupted \/ ClassifyEnd
  BY <1>5 DEF GiveUp, WaitInterrupted, ClassifyEnd, Held
<1>6. CASE HTTPError \/ StreamFails \/ StreamRefuses
  <2>1. /\ pc' = "decide"
        /\ UNCHANGED <<proxyRetries, legacyFastUsed, request, sent, model>>
    BY <1>6 DEF HTTPError, StreamFails, StreamRefuses
  <2>2. Held' = Held \/ Held = 0
    BY <1>6, StepKinds DEF HTTPError, StreamFails, StreamRefuses, Quiet, ChainVars, Held, Hold,
       IssueAttempt, SwapToFallback, AnswerStep
  <2> QED
    BY <2>1, <2>2
<1>7. CASE DeliverHeldRefusal \/ DeliverHeldSafeguard \/ SurfaceFailure
  BY <1>7 DEF DeliverHeldRefusal, DeliverHeldSafeguard, SurfaceFailure, Respond, Held
<1>8. CASE Done \/ UNCHANGED vars
  BY <1>8 DEF Done, vars, Held
<1> QED
  BY <1>1, <1>2, <1>3, <1>4, <1>5, <1>6, <1>7, <1>8 DEF Next, Outcome, Handler

-----------------------------------------------------------------------------
(* Failures                                                                *)

LEMMA FaultStep ==
    ASSUME LoopAssumption, FaultInv, [Next]_vars
    PROVE  FaultInv'
<1> USE DEF FaultInv
<1>1. CASE UNCHANGED <<last, heldSafeguard>>
  BY <1>1
<1>2. CASE IssueTooLate \/ TransportFails \/ WaitInterrupted \/ ClassifyEnd
  BY <1>2, TransportTyped
     DEF IssueTooLate, TransportFails, WaitInterrupted, ClassifyEnd, held
<1>3. CASE NonSSEFails
  <2>1. \A f \in {TooLarge, SpoolFault, Classified("deadline"), Classified("fault"), Idle} :
          IsFault(f)
    BY OwnFaultsTyped, TransportTyped
  <2> QED
    BY <1>3, <2>1 DEF NonSSEFails, held
<1>4. CASE HTTPError
  <2>1. \A reply \in Replies : IsReply(reply)
    BY DEF LoopAssumption
  <2>2. \A f \in HTTPVerdicts : IsFault(f)
    <3> DEFINE Read(reply)       == OfReply(ClassifyHTTP(request.route, reply), reply.status)
               Broke(reply, err) ==
                  OfReply(ClassifyBroken(request.route, reply, ctx = "alive", Classified(err)),
                          reply.status)
    <3>1. ASSUME NEW reply \in Replies, NEW err
          PROVE  IsFault(Read(reply)) /\ IsFault(Broke(reply, err))
      <4>1. IsReply(reply) /\ reply.status \in Nat
        BY <2>1 DEF IsReply
      <4> QED
        BY <4>1, HTTPTyped, BrokenTyped, TransportTyped, OfReplyTyped
    <3>2. HTTPVerdicts = {IF FallbackActive THEN WithinFallback(Read(reply)) ELSE Read(reply) :
                            reply \in Replies}
                         \cup {Broke(reply, err) : reply \in Replies, err \in {"deadline", "fault"}}
      BY DEF HTTPVerdicts
    <3> HIDE DEF Read, Broke
    <3>3. ASSUME NEW reply \in Replies PROVE IsFault(WithinFallback(Read(reply)))
      BY <3>1, FinalTyped
    <3> QED
      BY <3>1, <3>2, <3>3
  <2> PICK f \in HTTPVerdicts :
         /\ last' = f
         /\ \/ heldSafeguard' = heldSafeguard
            \/ heldSafeguard' = [attempt |-> Attempt, fault |-> f]
    BY <1>4 DEF HTTPError
  <2> QED
    BY <2>2
<1>5. CASE StreamFails
  <2>1. \A f \in StreamVerdicts : IsFault(f)
    BY InBandTyped, TransportTyped DEF StreamVerdicts, LoopAssumption
  <2> PICK f \in StreamVerdicts :
         /\ last' = f
         /\ \/ heldSafeguard' = heldSafeguard
            \/ heldSafeguard' = [attempt |-> Attempt, fault |-> f]
    BY <1>5 DEF StreamFails
  <2> QED
    BY <2>1
<1>6. CASE StreamRefuses
  BY <1>6, OwnFaultsTyped DEF StreamRefuses
<1>7. CASE DeliverHeldSafeguard
  BY <1>7 DEF DeliverHeldSafeguard
<1>8. CASE Tick \/ ClientLeaves \/ AcceptBody \/ RejectBody \/ NonSSEAnswer \/ StreamAnswers
  BY <1>1, <1>8 DEF Tick, ClientLeaves, AcceptBody, RejectBody, NonSSEAnswer, StreamAnswers, held
<1>9. CASE IssueAttempt \/ LocalRetry \/ FastRetry \/ SwapToFallback \/ GiveUp \/ WaitEnds
  BY <1>1, <1>9 DEF IssueAttempt, LocalRetry, FastRetry, SwapToFallback, GiveUp, WaitEnds, held
<1>10. CASE DeliverHeldRefusal \/ SurfaceFailure \/ Done \/ UNCHANGED vars
  BY <1>1, <1>10 DEF DeliverHeldRefusal, SurfaceFailure, Done, vars
<1> QED
  BY <1>2, <1>3, <1>4, <1>5, <1>6, <1>7, <1>8, <1>9, <1>10 DEF Next, Outcome, Handler

-----------------------------------------------------------------------------
(* Waits                                                                   *)

\* The prover knows powers of two only as the numbers of subsets.
LEMMA PowerIsPositive ==
    ASSUME NEW n \in Nat
    PROVE  2 ^ n \in Nat \ {0}
<1>1. IsFiniteSet(1 .. n) /\ Cardinality(1 .. n) = n
  BY FS_Interval
<1>2. IsFiniteSet(SUBSET (1 .. n)) /\ Cardinality(SUBSET (1 .. n)) = 2 ^ n
  BY <1>1, FS_SUBSET
<1>3. Cardinality(SUBSET (1 .. n)) \in Nat
  BY <1>2, FS_CardinalityType
<1>4. Cardinality(SUBSET (1 .. n)) # 0
  <2>1. {} \in SUBSET (1 .. n)
    OBVIOUS
  <2> QED
    BY <1>2, <2>1, FS_EmptySet
<1> QED
  BY <1>2, <1>3, <1>4

\* Unless the backoff is capped at nothing, a local retry waits.
LEMMA DelayIsPositive ==
    ASSUME LoopAssumption, NEW seconds \in Nat, NEW n \in Nat
    PROVE  /\ LocalRetryDelay(seconds, n) \in Nat
           /\ BackoffCap # 0 => LocalRetryDelay(seconds, n) # 0
<1> DEFINE p == 2 ^ n
<1>1. p \in Nat /\ p > 0
  BY PowerIsPositive
<1> HIDE DEF p
<1>2. Second * p \in Nat /\ Second * p > 0
  BY <1>1 DEF LoopAssumption
<1>3. seconds * Second \in Nat
  BY DEF LoopAssumption
<1>4. LocalRetryDelay(seconds, n) = seconds * Second + Smaller(BackoffCap, Second * p)
  BY DEF LocalRetryDelay, p
<1> QED
  BY <1>2, <1>3, <1>4 DEF Smaller, LoopAssumption

\* A wait that starts where it can be afforded fits.
LEMMA AffordedFits ==
    ASSUME LoopAssumption, LoopInv, NEW kind, NEW wait \in Nat,
           CanWait(wait), Wait(kind, wait), BackoffCap # 0 => wait # 0, request' = request
    PROVE  WaitFits'
<1>1. now \in Nat /\ request.window \in Nat
  BY DEF LoopInv, TypeInv
<1>2. wake' = now + wait
  BY DEF Wait
<1>3. BackoffCap # 0 => now + Second + wait < MaxRequestDur
  BY DEF CanWait
<1>4. request.window # 0 => now + wait < request.window
  BY DEF CanWait
<1>5. BackoffCap # 0 => wake' + Second < MaxRequestDur
  BY <1>1, <1>2, <1>3 DEF LoopAssumption
<1> QED
  BY <1>2, <1>4, <1>5 DEF WaitFits

LEMMA WaitStep ==
    ASSUME LoopAssumption, LoopInv, BudgetInv, [Next]_vars
    PROVE  WaitInv'
<1> USE DEF WaitInv, BudgetInv
<1>1. CASE Free
  BY <1>1 DEF Free, WaitFits, BudgetLeft
<1>2. CASE LocalRetry
  <2> DEFINE delay == LocalRetryDelay(last.retryAfter, proxyRetries)
  <2>1. /\ CanWait(delay) /\ Wait("local", delay) /\ BudgetLeft
        /\ ~FallbackActive /\ proxyRetries < TxLocalRetries
        /\ UNCHANGED <<request, retry, heldRefusal, heldSafeguard>>
    BY <1>2 DEF LocalRetry, LocalRetryDue, held
  <2>2. delay \in Nat /\ (BackoffCap # 0 => delay # 0)
    BY DelayIsPositive DEF FaultInv, SpentInv, IsFault
  <2> HIDE DEF delay
  <2>3. WaitFits'
    BY <2>1, <2>2, AffordedFits
  <2>4. (Held = 0)'
    BY <2>1 DEF FallbackActive, Held
  <2> QED
    BY <2>1, <2>3, <2>4 DEF Wait, BudgetLeft, retry
<1>3. CASE FastRetry
  <2>1. /\ CanWait(FastWait) /\ Wait("fast", FastWait) /\ BudgetLeft /\ ~legacyFastUsed
        /\ FallbackActive \/ TxLocalRetries = 0
        /\ UNCHANGED <<request, retry, heldRefusal, heldSafeguard>>
    BY <1>3 DEF FastRetry, FastRetryDue, held
  <2>2. WaitFits'
    BY <2>1, AffordedFits DEF LoopAssumption
  <2>3. FallbackActive => (Held # 0)'
    BY <2>1 DEF FallbackActive, Held
  <2> QED
    BY <2>1, <2>2, <2>3 DEF Wait, BudgetLeft, retry
<1>4. CASE WaitEnds \/ IssueAttempt \/ SwapToFallback
  BY <1>4 DEF WaitEnds, IssueAttempt, SwapToFallback
<1> QED
  BY <1>1, <1>2, <1>3, <1>4, SpendingKinds

LEMMA SpentStep ==
    ASSUME LoopAssumption, LoopInv, BudgetInv, [Next]_vars
    PROVE  SpentInv'
<1> USE DEF SpentInv, BudgetInv, One
<1>1. CASE Free
  BY <1>1 DEF Free, BudgetLeft
<1>2. CASE LocalRetry \/ FastRetry \/ IssueAttempt \/ SwapToFallback
  BY <1>2 DEF LocalRetry, FastRetry, IssueAttempt, SwapToFallback, retry, held, Held, BudgetLeft
<1>3. CASE WaitEnds
  <2>1. /\ pc = "waiting" /\ proxyRetries' = proxyRetries + 1
        /\ legacyFastUsed' = (legacyFastUsed \/ waitKind = "fast")
        /\ Held' = Held /\ request' = request
    BY <1>3 DEF WaitEnds, held, Held
  <2>2. CASE waitKind = "local"
    BY <2>1, <2>2 DEF WaitInv, LoopAssumption, BudgetLeft
  <2>3. CASE waitKind = "fast"
    <3>1. BudgetLeft /\ ~legacyFastUsed /\ (TxLocalRetries = 0 \/ Held # 0)
      BY <2>1, <2>3 DEF WaitInv
    <3>2. legacyFastUsed' = TRUE
      BY <2>1, <2>3
    <3>3. proxyRetries \in Nat /\ proxyRetries <= TxLocalRetries
      BY <3>1 DEF LoopAssumption
    <3>4. proxyRetries' <= TxLocalRetries + 1 /\ proxyRetries' \in Nat
      BY <2>1, <3>3 DEF LoopAssumption
    <3> QED
      BY <2>1, <3>1, <3>2, <3>4 DEF BudgetLeft
  <2> QED
    BY <2>1, <2>2, <2>3 DEF WaitInv
<1> QED
  BY <1>1, <1>2, <1>3, SpendingKinds

-----------------------------------------------------------------------------
(* Repeats                                                                 *)

LEMMA RepeatsFinite ==
    ASSUME LoopInv
    PROVE  /\ IsFiniteSet(Repeats) /\ Repeats \subseteq 2 .. Len(sent)
           /\ Len(sent) \in Nat /\ Len(sent) + 1 \notin Repeats
           /\ \A S \in SUBSET Repeats :
                /\ IsFiniteSet(S) /\ Cardinality(S) \in Nat
                /\ Cardinality(S) <= Cardinality(Repeats)
<1>1. Len(sent) \in Nat /\ Repeats \subseteq 2 .. Len(sent)
  BY DEF LoopInv, TypeInv, Repeats
<1>2. IsFiniteSet(2 .. Len(sent))
  BY <1>1, FS_Interval
<1>3. IsFiniteSet(Repeats)
  BY <1>1, <1>2, FS_Subset
<1>4. \A S \in SUBSET Repeats :
         IsFiniteSet(S) /\ Cardinality(S) \in Nat /\ Cardinality(S) <= Cardinality(Repeats)
  BY <1>3, FS_Subset, FS_CardinalityType
<1> QED
  BY <1>1, <1>3, <1>4

\* An attempt that is issued adds itself to the repeats if it is one.
LEMMA IssueRepeats ==
    ASSUME LoopAssumption, LoopInv, IssueAttempt
    PROVE  LET new == IF AgainDue THEN {Len(sent) + 1} ELSE {}
               ofOriginal == IF model = FirstModel THEN new ELSE {}
           IN  /\ Repeats' = Repeats \cup new
               /\ OriginalRepeats' = OriginalRepeats \cup ofOriginal
<1>1. sent' = Append(sent, model) /\ sent \in Seq(Models) /\ model \in Models
  BY Sends DEF LoopInv, TypeInv
<1>2. AgainDue <=> sent # <<>> /\ model = sent[Len(sent)]
  BY DEF AgainDue, IssueAttempt
<1>3. /\ Len(sent') = Len(sent) + 1 /\ Len(sent) \in Nat
      /\ \A k \in 1 .. Len(sent) : sent'[k] = sent[k]
      /\ sent'[Len(sent) + 1] = model
  BY <1>1
<1>4. sent # <<>> <=> Len(sent) + 1 \in 2 .. Len(sent')
  BY <1>1, <1>3
<1>5. \A k : k \in Repeats' <=>
                \/ k \in Repeats
                \/ k = Len(sent) + 1 /\ sent # <<>> /\ model = sent[Len(sent)]
  <2>1. \A k \in 2 .. Len(sent) : sent'[k] = sent[k] /\ sent'[k - 1] = sent[k - 1]
    BY <1>3
  <2>2. sent # <<>> => sent'[Len(sent) + 1 - 1] = sent[Len(sent)]
    BY <1>1, <1>3
  <2>3. \A k : k \in 2 .. Len(sent') <=>
                 k \in 2 .. Len(sent) \/ (k = Len(sent) + 1 /\ sent # <<>>)
    BY <1>1, <1>3
  <2> QED
    BY <1>3, <2>1, <2>2, <2>3 DEF Repeats
<1>6. \A k : k \in OriginalRepeats' <=>
                \/ k \in OriginalRepeats
                \/ /\ k = Len(sent) + 1 /\ sent # <<>> /\ model = sent[Len(sent)]
                   /\ model = FirstModel
  <2>1. \A k \in Repeats : k \in 1 .. Len(sent)
    BY <1>3 DEF Repeats
  <2> QED
    BY <1>3, <1>5, <2>1 DEF OriginalRepeats
<1> QED
  BY <1>2, <1>5, <1>6

LEMMA IssueRepeatsStep ==
    ASSUME LoopAssumption, LoopInv, SpentInv, RepeatInv, IssueAttempt
    PROVE  RepeatInv'
<1> DEFINE new == IF AgainDue THEN {Len(sent) + 1} ELSE {}
           others == Repeats \ OriginalRepeats
<1>1. ~AgainDue' /\ UNCHANGED <<proxyRetries, legacyFastUsed, Held>>
  BY DEF AgainDue, IssueAttempt, retry, held, Held
<1>2. model # FirstModel <=> Held # 0
  BY Sends, DueModelIsOriginal
<1>3. Len(sent) + 1 \notin Repeats /\ IsFiniteSet(Repeats)
  BY RepeatsFinite
<1>4. \A S \in SUBSET Repeats :
         /\ IsFiniteSet(S \cup new) /\ Cardinality(S \cup new) \in Nat
         /\ Cardinality(S \cup new) = Cardinality(S) + One(AgainDue)
  <2> SUFFICES ASSUME NEW S \in SUBSET Repeats
               PROVE  /\ IsFiniteSet(S \cup new) /\ Cardinality(S \cup new) \in Nat
                      /\ Cardinality(S \cup new) = Cardinality(S) + One(AgainDue)
    OBVIOUS
  <2>1. IsFiniteSet(S) /\ Cardinality(S) \in Nat /\ Len(sent) + 1 \notin S
    BY RepeatsFinite
  <2>2. CASE AgainDue
    BY <2>1, <2>2, FS_AddElement, FS_CardinalityType DEF One
  <2>3. CASE ~AgainDue
    <3>1. S \cup new = S
      BY <2>3
    <3> QED
      BY <2>1, <2>3, <3>1 DEF One
  <2> QED
    BY <2>2, <2>3
<1>5. /\ Repeats' = Repeats \cup new
      /\ OriginalRepeats' = OriginalRepeats \cup (IF model = FirstModel THEN new ELSE {})
      /\ OriginalRepeats \subseteq Repeats
  BY IssueRepeats DEF OriginalRepeats
<1>6. Cardinality(Repeats') = Cardinality(Repeats) + One(AgainDue)
  BY <1>4, <1>5
<1>7. Cardinality(Repeats') <= proxyRetries
  BY <1>6 DEF RepeatInv
<1>8. CASE Held = 0
  <2>1. OriginalRepeats' \subseteq Repeats' /\ IsFiniteSet(Repeats')
    BY <1>4, <1>5
  <2>2. /\ Cardinality(OriginalRepeats') <= Cardinality(Repeats')
        /\ Cardinality(OriginalRepeats') \in Nat /\ Cardinality(Repeats') \in Nat
    BY <2>1, FS_Subset, FS_CardinalityType
  <2>3. proxyRetries \in Nat
        /\ proxyRetries <= IF TxLocalRetries = 0 THEN 1 ELSE TxLocalRetries
    BY <1>8 DEF SpentInv, One, LoopAssumption
  <2>4. Cardinality(OriginalRepeats') <= IF TxLocalRetries = 0 THEN 1 ELSE TxLocalRetries
    BY <1>7, <2>2, <2>3 DEF LoopAssumption
  <2>5. Held' = 0 /\ One(AgainDue') = 0 /\ proxyRetries' = proxyRetries
    BY <1>1, <1>8 DEF One
  <2>6. Cardinality(Repeats') + One(AgainDue') <= proxyRetries'
    BY <1>7, <2>2, <2>5
  <2> QED
    BY <2>4, <2>5, <2>6 DEF RepeatInv
<1>9. CASE Held # 0
  <2>1. OriginalRepeats' = OriginalRepeats
    BY <1>2, <1>5, <1>9
  <2>2. Repeats' \ OriginalRepeats' = others \cup new
    BY <1>3, <1>5, <2>1
  <2>3. Cardinality(Repeats' \ OriginalRepeats') = Cardinality(others) + One(AgainDue)
        /\ Cardinality(Repeats' \ OriginalRepeats') \in Nat
    BY <1>4, <2>2
  <2>4. Cardinality(others) + One(AgainDue) <= One(legacyFastUsed)
    BY <1>9 DEF RepeatInv
  <2>5. One(AgainDue') = 0 /\ One(legacyFastUsed') = One(legacyFastUsed)
    BY <1>1 DEF One
  <2>6. Cardinality(Repeats' \ OriginalRepeats') + One(AgainDue') <= One(legacyFastUsed')
    BY <2>3, <2>4, <2>5
  <2>7. Cardinality(Repeats') + One(AgainDue') <= proxyRetries'
    <3>1. Cardinality(Repeats') \in Nat
      BY <1>4, <1>5
    <3> QED
      BY <1>1, <1>7, <2>5, <3>1
  <2> QED
    BY <2>1, <2>6, <2>7 DEF RepeatInv
<1> QED
  BY <1>8, <1>9

LEMMA RepeatStep ==
    ASSUME LoopAssumption, LoopInv, BudgetInv, [Next]_vars
    PROVE  RepeatInv'
<1> USE DEF BudgetInv
<1>1. ASSUME sent' = sent
      PROVE  Repeats' = Repeats /\ OriginalRepeats' = OriginalRepeats
  BY <1>1 DEF Repeats, OriginalRepeats
<1>2. /\ Cardinality(Repeats) \in Nat /\ Cardinality(Repeats \ OriginalRepeats) \in Nat
      /\ One(AgainDue) \in Nat
  BY RepeatsFinite DEF One
<1>3. ASSUME UNCHANGED <<sent, proxyRetries, legacyFastUsed>>, ~AgainDue', Held' = Held
      PROVE  RepeatInv'
  <2>1. Repeats' = Repeats /\ OriginalRepeats' = OriginalRepeats
    BY <1>1, <1>3
  <2>2. One(AgainDue') = 0 /\ One(legacyFastUsed) \in Nat
        /\ One(legacyFastUsed') = One(legacyFastUsed) /\ proxyRetries \in Nat
    BY <1>3 DEF One, SpentInv
  <2> QED
    BY <1>2, <1>3, <2>1, <2>2 DEF RepeatInv
<1>4. CASE Free
  <2>1. UNCHANGED <<sent, proxyRetries, legacyFastUsed, model>>
    BY <1>4 DEF Free
  <2>2. AgainDue' => AgainDue
    BY <1>4, <2>1 DEF Free, AgainDue
  <2>3. CASE Held' = Held
    <3>1. CASE AgainDue'
      <4>1. One(AgainDue') = One(AgainDue) /\ One(legacyFastUsed') = One(legacyFastUsed)
        BY <2>1, <2>2, <3>1 DEF One
      <4> QED
        BY <1>1, <2>1, <2>3, <4>1 DEF RepeatInv
    <3> QED
      BY <1>3, <2>1, <2>3, <3>1
  <2>4. CASE Held = 0 /\ pc' = "decide"
    <3>1. ~AgainDue'
      BY <2>4 DEF AgainDue
    <3>2. Repeats \ OriginalRepeats = {}
      <4>1. \A k \in DOMAIN sent : sent[k] = FirstModel
        BY <2>4 DEF LoopInv, HeldIsOriginal
      <4>2. Repeats \subseteq DOMAIN sent
        BY RepeatsFinite DEF LoopInv, TypeInv
      <4> QED
        BY <4>1, <4>2 DEF OriginalRepeats
    <3>3. Cardinality(Repeats' \ OriginalRepeats') = 0
      BY <1>1, <2>1, <3>2, FS_EmptySet
    <3>4. One(AgainDue') = 0 /\ One(legacyFastUsed') \in Nat
      BY <3>1 DEF One
    <3>5. /\ Cardinality(Repeats') + One(AgainDue') <= proxyRetries'
          /\ Cardinality(OriginalRepeats')
               <= IF TxLocalRetries = 0 THEN 1 ELSE TxLocalRetries
      BY <1>1, <1>2, <2>1, <3>4 DEF RepeatInv, SpentInv
    <3> QED
      BY <3>3, <3>4, <3>5 DEF RepeatInv
  <2> QED
    BY <1>4, <2>3, <2>4 DEF Free
<1>5. CASE LocalRetry \/ FastRetry
  BY <1>3, <1>5 DEF LocalRetry, FastRetry, Wait, AgainDue, retry, held, Held
<1>6. CASE SwapToFallback
  <2>1. ~AgainDue'
    <3>3. model' # model
      BY <1>6, SwapChanges
    <3>4. sent' = sent /\ model = sent[Len(sent)]
      BY <1>6, Swaps DEF SwapToFallback, Asked
    <3> QED
      BY <3>3, <3>4 DEF AgainDue
  <2> QED
    BY <1>3, <1>6, <2>1 DEF SwapToFallback, retry, held, Held
<1>7. CASE WaitEnds
  <2>1. /\ pc = "waiting" /\ proxyRetries' = proxyRetries + 1 /\ sent' = sent
        /\ legacyFastUsed' = (legacyFastUsed \/ waitKind = "fast") /\ Held' = Held
    BY <1>7 DEF WaitEnds, held, Held
  <2>2. One(AgainDue) = 0 /\ One(AgainDue') \in {0, 1} /\ proxyRetries \in Nat
    BY <2>1 DEF One, AgainDue, SpentInv
  <2>3. Repeats' = Repeats /\ OriginalRepeats' = OriginalRepeats
    BY <1>1, <2>1
  <2>4. Cardinality(Repeats') + One(AgainDue') <= proxyRetries'
    BY <1>2, <2>1, <2>2, <2>3 DEF RepeatInv
  <2>5. ASSUME Held # 0
        PROVE  Cardinality(Repeats' \ OriginalRepeats') + One(AgainDue') <= One(legacyFastUsed')
    <3>1. waitKind = "fast" /\ ~legacyFastUsed
      BY <2>1, <2>5 DEF WaitInv
    <3>2. legacyFastUsed' = TRUE
      BY <2>1, <3>1
    <3>3. One(legacyFastUsed) = 0 /\ One(legacyFastUsed') = 1
      BY <3>1, <3>2 DEF One
    <3> QED
      BY <1>2, <2>2, <2>3, <2>5, <3>3 DEF RepeatInv
  <2> QED
    BY <2>1, <2>3, <2>4, <2>5 DEF RepeatInv
<1>8. CASE IssueAttempt
  BY <1>8, IssueRepeatsStep
<1> QED
  BY <1>4, <1>5, <1>6, <1>7, <1>8, SpendingKinds

-----------------------------------------------------------------------------
(* The theorems                                                            *)

LEMMA BudgetInvariant == Spec => []BudgetInv
<1>1. LoopAssumption /\ Init => BudgetInv
  <2> SUFFICES ASSUME LoopAssumption, Init PROVE BudgetInv
    OBVIOUS
  <2>1. FaultInv
    BY OwnFaultsTyped DEF Init, FaultInv
  <2>2. SpentInv /\ WaitInv
    <3>1. proxyRetries = 0 /\ legacyFastUsed = FALSE /\ pc = "read"
      BY DEF Init
    <3>2. One(legacyFastUsed) = 0
      BY <3>1 DEF One
    <3>3. SpentInv
      <4>1. proxyRetries <= TxLocalRetries + One(legacyFastUsed) /\ proxyRetries \in Nat
        BY <3>1, <3>2 DEF LoopAssumption
      <4> QED
        BY <3>1, <4>1 DEF SpentInv
    <3> QED
      BY <3>1, <3>3 DEF WaitInv
  <2>3. Repeats = {}
    BY DEF Init, Repeats
  <2>4. OriginalRepeats = {} /\ Repeats \ OriginalRepeats = {} /\ Held = 0
    BY <2>3 DEF OriginalRepeats, Held, Init
  <2>5. One(AgainDue) = 0 /\ Cardinality(Repeats) = 0 /\ Cardinality(OriginalRepeats) = 0
    BY <2>3, <2>4, FS_EmptySet DEF One, AgainDue, Init
  <2>6. RepeatInv
    BY <2>4, <2>5 DEF RepeatInv, Init, LoopAssumption
  <2> QED
    BY <2>1, <2>2, <2>6 DEF BudgetInv
<1>2. LoopInv /\ BudgetInv /\ [Next]_vars => BudgetInv'
  <2> SUFFICES ASSUME LoopInv, BudgetInv, [Next]_vars PROVE BudgetInv'
    OBVIOUS
  <2>1. FaultInv'
    BY FaultStep, LoopAssumption DEF BudgetInv
  <2> QED
    BY <2>1, SpentStep, WaitStep, RepeatStep, LoopAssumption DEF BudgetInv
<1> QED
  BY <1>1, <1>2, LoopAssumption, LoopInvariant, PTL DEF Spec

\* A wait for a retry leaves time for it: it ends before the window does and a
\* second before the request deadline (canWaitForLocalRetry).
THEOREM WaitsFit == Spec => []WaitFits
<1>1. BudgetInv => WaitFits
  BY DEF BudgetInv, WaitInv, WaitFits
<1> QED
  BY <1>1, BudgetInvariant, PTL

\* Attempts are bounded: the original model gets its local retries or the one
\* fast retry, the candidates together at most one, and nobody gets any once
\* the client's own budget is spent (handle).
THEOREM RetriesAreBounded == Spec => []RetriesBounded
<1>1. LoopInv /\ BudgetInv => RetriesBounded
  <2> SUFFICES ASSUME LoopInv, BudgetInv PROVE RetriesBounded
    OBVIOUS
  <2> DEFINE others == Repeats \ OriginalRepeats
  <2>1. /\ IsFiniteSet(Repeats) /\ Cardinality(Repeats) \in Nat
        /\ Cardinality(others) \in Nat /\ Cardinality(others) <= Cardinality(Repeats)
    BY RepeatsFinite DEF OriginalRepeats
  <2>2. /\ One(AgainDue) \in Nat /\ One(legacyFastUsed) \in {0, 1} /\ proxyRetries \in Nat
    BY DEF One, BudgetInv, SpentInv
  <2>3. Cardinality(Repeats) <= proxyRetries
    BY <2>1, <2>2 DEF BudgetInv, RepeatInv
  <2>4. Cardinality(others) <= 1
    <3>1. CASE Held # 0
      BY <2>1, <2>2, <3>1 DEF BudgetInv, RepeatInv
    <3>2. CASE Held = 0
      <4>1. \A k \in DOMAIN sent : sent[k] = FirstModel
        BY <3>2 DEF LoopInv, HeldIsOriginal
      <4>2. Repeats \subseteq DOMAIN sent
        BY RepeatsFinite DEF LoopInv, TypeInv
      <4>3. others = {}
        BY <4>1, <4>2 DEF OriginalRepeats
      <4> QED
        BY <4>3, FS_EmptySet
    <3> QED
      BY <3>1, <3>2
  <2>5. TxLocalRetries = 0 => Cardinality(Repeats) <= 1
    BY <2>1, <2>2, <2>3 DEF BudgetInv, SpentInv
  <2>6. ~BudgetLeft => Repeats = {}
    <3>1. ~BudgetLeft => Cardinality(Repeats) = 0
      BY <2>1, <2>3 DEF BudgetInv, SpentInv
    <3> QED
      BY <2>1, <3>1, FS_EmptySet
  <2> QED
    BY <2>4, <2>5, <2>6 DEF RetriesBounded, OriginalRepeats, BudgetInv, RepeatInv
<1> QED
  BY <1>1, LoopInvariant, BudgetInvariant, PTL

-----------------------------------------------------------------------------
(* What the client is shown                                                *)

\* Of an offered failure a client sees nothing but the plain 503.
LEMMA OfferShown ==
    ASSUME NEW f, IsFault(f), f.transient, NEW route
    PROVE  RetrySurfaceFor(route, f, TRUE) = [status |-> 503, type |-> "api_error"]
BY DEF RetrySurfaceFor, SurfaceFor, Surface

\* Of a final one no client that goes by the status sees one it would retry.
LEMMA FinalShown ==
    ASSUME NEW f, IsFault(f), NEW route \in {"responses", "gemini"}
    PROVE  ~RetriedByStatus(route, RetrySurfaceFor(route, f, FALSE).status)
<1> DEFINE final == [f EXCEPT !.transient = FALSE]
           asked == [final EXCEPT !.status = 400]
<1>1. ~final.transient /\ final.status = f.status /\ f.status \in Nat
  BY DEF IsFault, NoFault, Fault
<1>2. ~asked.transient /\ asked.status = 400
  BY DEF IsFault, NoFault, Fault
<1> HIDE DEF final, asked
<1>3. CASE route = "responses"
  <2>1. RetrySurfaceFor(route, f, FALSE) = SurfaceFor(route, final)
    BY <1>3 DEF RetrySurfaceFor, final
  <2>2. SurfaceFor(route, final).status \in {400, 429}
    BY <1>1, <1>3 DEF SurfaceFor, Surface
  <2> QED
    BY <1>3, <2>1, <2>2 DEF RetriedByStatus
<1>4. CASE route = "gemini"
  <2>1. \/ RetrySurfaceFor(route, f, FALSE) = SurfaceFor(route, asked)
        \/ /\ RetrySurfaceFor(route, f, FALSE) = SurfaceFor(route, final)
           /\ f.status \notin {408, 429} /\ ~(f.status >= 500)
    BY <1>4 DEF RetrySurfaceFor, final, asked
  <2>2. /\ SurfaceFor(route, asked).status = 400
        /\ SurfaceFor(route, final).status = f.status
    BY <1>1, <1>2, <1>4 DEF SurfaceFor, Surface
  <2> DEFINE shown == RetrySurfaceFor(route, f, FALSE).status
  <2>3. shown = 400 \/ (shown = f.status /\ f.status \notin {408, 429} /\ ~(f.status >= 500))
    BY <2>1, <2>2, ZenonT(60)
  <2> HIDE DEF shown
  <2>4. shown \notin {408, 429} /\ ~(shown >= 500)
    BY <2>3
  <2>5. ~RetriedByStatus(route, shown)
    BY <1>4, <2>4 DEF RetriedByStatus
  <2> QED
    BY <2>5 DEF shown
<1> QED
  BY <1>3, <1>4

LEMMA OfferStep ==
    ASSUME LoopAssumption, LoopInv, FaultInv, OfferIsHeeded, [Next]_vars
    PROVE  OfferIsHeeded'
<1>1. request' = request /\ request.route \in {"claude", "messages", "responses", "gemini"}
  BY ControlTyped DEF LoopInv, TypeInv, Requests
<1>2. CASE response' = response
  BY <1>1, <1>2 DEF OfferIsHeeded
<1>3. ASSUME NEW f, IsFault(f), NEW attempt, response' = Answered("fail", attempt, f)
      PROVE  OfferIsHeeded'
  <2>1. response'.kind = "fail" /\ response'.shown = RetrySurfaceFor(request.route, f, FALSE)
    BY <1>3 DEF Answered
  <2> QED
    BY <1>1, <1>3, <2>1, FinalShown, ZenonT(60) DEF OfferIsHeeded
<1>4. ASSUME last.transient, NEW attempt, response' = Answered("retry", attempt, last)
      PROVE  OfferIsHeeded'
  <2>1. response'.kind = "retry" /\ response'.shown = RetrySurfaceFor(request.route, last, TRUE)
    BY <1>4 DEF Answered
  <2>2. response'.shown = [status |-> 503, type |-> "api_error"]
    BY <1>4, <2>1, OfferShown, ZenonT(60) DEF FaultInv
  <2>3. response'.shown.status = 503
    BY <2>2
  <2>4. RetriedByStatus(request.route, 503)
    BY DEF RetriedByStatus
  <2> QED
    BY <1>1, <2>1, <2>2, <2>3, <2>4 DEF OfferIsHeeded
<1>5. CASE SurfaceFailure
  <2>1. \/ last.transient /\ response' = Answered("retry", Attempt, last)
        \/ response' = Answered("fail", Attempt, last)
    BY <1>5 DEF SurfaceFailure, Respond
  <2> QED
    BY <1>3, <1>4, <2>1 DEF FaultInv
<1>6. CASE DeliverHeldSafeguard
  <2>1. response' = Answered("fail", heldSafeguard.attempt, heldSafeguard.fault)
    BY <1>6 DEF DeliverHeldSafeguard, Respond
  <2> QED
    BY <1>3, <2>1 DEF FaultInv
<1>7. CASE RejectBody \/ NonSSEAnswer \/ StreamAnswers \/ DeliverHeldRefusal
  <2>1. \E attempt : \E kind \in {"rejected", "ok", "delivered", "drop", "held"} :
          response' = Answered(kind, attempt, NoFault)
    BY <1>7 DEF RejectBody, NonSSEAnswer, StreamAnswers, DeliverHeldRefusal, Respond
  <2>2. response'.kind \notin {"retry", "fail"}
    BY <2>1 DEF Answered
  <2> QED
    BY <2>2 DEF OfferIsHeeded
<1>8. CASE \/ Tick \/ ClientLeaves \/ AcceptBody \/ TransportFails \/ NonSSEFails
           \/ HTTPError \/ StreamFails \/ StreamRefuses
  BY <1>2, <1>8 DEF Tick, ClientLeaves, AcceptBody, TransportFails, NonSSEFails, HTTPError,
     StreamFails, StreamRefuses
<1>9. CASE \/ IssueAttempt \/ IssueTooLate \/ LocalRetry \/ FastRetry \/ SwapToFallback \/ GiveUp
           \/ WaitEnds \/ WaitInterrupted \/ ClassifyEnd \/ Done \/ UNCHANGED vars
  BY <1>2, <1>9 DEF IssueAttempt, IssueTooLate, LocalRetry, FastRetry, SwapToFallback, GiveUp,
     WaitEnds, WaitInterrupted, ClassifyEnd, Done, vars
<1> QED
  BY <1>5, <1>6, <1>7, <1>8, <1>9 DEF Next, Outcome, Handler

\* The client retries exactly the failures that are offered for it: an offer is
\* the plain 503, and a client that goes by the status sees one it retries only
\* then (surface, surfaceFor, retrySurfaceFor, writeFailure).
THEOREM OffersAreHeeded == Spec => []OfferIsHeeded
<1>1. Init => OfferIsHeeded
  BY DEF Init, NoResponse, OfferIsHeeded
<1>2. LoopInv /\ BudgetInv /\ OfferIsHeeded /\ [Next]_vars => OfferIsHeeded'
  BY OfferStep, LoopAssumption DEF BudgetInv
<1> QED
  BY <1>1, <1>2, LoopInvariant, BudgetInvariant, PTL DEF Spec

-----------------------------------------------------------------------------
(* One error, one verdict                                                  *)

\* When an HTTP error without hints is retried: its status decides, and what its
\* body says counts for a 429 and for the statuses that decide nothing.
RetriedAs(status, verdict) ==
    \/ status \in {408, 409} \/ status >= 500
    \/ status = 429 /\ verdict # "permanent"
    \/ status \notin {408, 409, 429} /\ status < 500 /\ verdict = "transient"

\* A reply without a retry hint.
Unhinted(reply) == HttpRetryHint(reply) = ""

\* The classifier of HTTP errors keeps the status and retries by that rule.
LEMMA ShapedReplyVerdict ==
    ASSUME NEW reply, reply.status \in Nat, reply.status \notin 300 .. 399,
           Unhinted(reply), NEW verdict
    PROVE  /\ ClassifyShaped(reply, verdict).status = reply.status
           /\ RetriedAs(reply.status, verdict) =>
                ClassifyShaped(reply, verdict).transient = TRUE
           /\ ~RetriedAs(reply.status, verdict) =>
                ClassifyShaped(reply, verdict).transient = FALSE
<1> DEFINE status == reply.status
           f      == Named("http", reply.status, reply.error)
           again  == RetryAfter(Retryable(f), reply.retryAfter)
           plain  == [again EXCEPT !.type = "rate_limit_error"]
           shown  == ClassifyShaped(reply, verdict)
<1>1. f.status = status /\ f.transient = FALSE
  BY DEF Named, Fault
<1>2. again.status = status /\ again.transient = TRUE
  BY <1>1 DEF Named, Fault, Retryable, RetryAfter
<1>3. /\ Fast(again).status = status /\ Fast(again).transient = TRUE
      /\ plain.status = status /\ plain.transient = TRUE
  BY <1>2 DEF Fast, Named, Fault, Retryable, RetryAfter
<1>4. status \in {408, 409} => shown = Fast(again)
  BY ZenonT(60) DEF ClassifyShaped, Unhinted
<1>5. status \notin {408, 409} /\ status = 429 =>
        IF verdict = "permanent" THEN shown = f ELSE shown = plain \/ shown = again
  BY ZenonT(60) DEF ClassifyShaped, Unhinted
<1>6. status \notin {408, 409} /\ status # 429 /\ status >= 500 =>
        shown = Fast(again) \/ shown = again
  BY ZenonT(60) DEF ClassifyShaped, Unhinted
<1>7. status \notin {408, 409} /\ status # 429 /\ ~(status >= 500) =>
        IF verdict = "transient" THEN shown = again ELSE shown = f
  BY ZenonT(60) DEF ClassifyShaped, Unhinted
<1>8. status \in Nat
  OBVIOUS
<1> HIDE DEF f, again, plain, shown, status
<1>9. \/ (shown = again \/ shown = Fast(again) \/ shown = plain) /\ RetriedAs(status, verdict)
      \/ shown = f /\ ~RetriedAs(status, verdict)
  BY <1>4, <1>5, <1>6, <1>7, <1>8 DEF RetriedAs
<1>10. \/ shown.status = status /\ shown.transient = TRUE /\ RetriedAs(status, verdict)
       \/ shown.status = status /\ shown.transient = FALSE /\ ~RetriedAs(status, verdict)
  BY <1>1, <1>2, <1>3, <1>9, ZenonT(60)
<1> QED
  BY <1>10, Zenon DEF shown, status

\* So it does with any error in a reply without hints.
LEMMA ShapedVerdict ==
    ASSUME NEW status \in Nat, status \notin 300 .. 399, NEW e, NEW verdict
    PROVE  /\ ClassifyShaped(Reply(status, e), verdict).status = status
           /\ RetriedAs(status, verdict) =>
                ClassifyShaped(Reply(status, e), verdict).transient = TRUE
           /\ ~RetriedAs(status, verdict) =>
                ClassifyShaped(Reply(status, e), verdict).transient = FALSE
<1> DEFINE reply == Reply(status, e)
<1>1. reply.status = status /\ Unhinted(reply)
  BY DEF Reply, HttpRetryHint, Unhinted
<1> HIDE DEF reply
<1>2. reply.status \in Nat /\ reply.status \notin 300 .. 399
  BY <1>1, Zenon
<1>3. /\ ClassifyShaped(reply, verdict).status = reply.status
      /\ RetriedAs(reply.status, verdict) => ClassifyShaped(reply, verdict).transient = TRUE
      /\ ~RetriedAs(reply.status, verdict) => ClassifyShaped(reply, verdict).transient = FALSE
  BY <1>1, <1>2, ShapedReplyVerdict, Zenon
<1> QED
  BY <1>1, <1>3, Zenon DEF reply

\* An event with a verdict of its own agrees with the HTTP error of its status
\* if the rule does.
LEMMA SameVerdict ==
    ASSUME NEW status \in Nat, status \notin 300 .. 399, NEW e, NEW verdict, NEW transient,
           \/ transient = TRUE /\ RetriedAs(status, verdict)
           \/ transient = FALSE /\ ~RetriedAs(status, verdict)
    PROVE  ClassifyShaped(Reply(status, e), verdict).transient = transient
<1>1. /\ RetriedAs(status, verdict) =>
           ClassifyShaped(Reply(status, e), verdict).transient = TRUE
      /\ ~RetriedAs(status, verdict) =>
           ClassifyShaped(Reply(status, e), verdict).transient = FALSE
  BY ShapedVerdict
<1>2. CASE transient = TRUE
  BY <1>1, <1>2
<1>3. CASE transient = FALSE
  BY <1>1, <1>3
<1> QED
  BY <1>2, <1>3

\* What its body calls transient is retried even as a bad request.
LEMMA TransientBadRequest ==
    ASSUME NEW e
    PROVE  ClassifyShaped(Reply(400, e), "transient").transient = TRUE
<1>1. RetriedAs(400, "transient")
  BY DEF RetriedAs
<1>2. 400 \in Nat /\ 400 \notin 300 .. 399
  OBVIOUS
<1> QED
  BY <1>1, <1>2, ShapedVerdict, ZenonT(60)

\* An error whose type is the proxy's own keeps its status and verdict.
LEMMA RetypedVerdict ==
    ASSUME NEW status, NEW type, NEW e
    PROVE  LET f == [Named("responses", status, e) EXCEPT !.type = type]
           IN  /\ f.status = status /\ f.transient = FALSE
               /\ Retryable(f).status = status /\ Retryable(f).transient = TRUE
BY DEF Named, Fault, Retryable

\* Responses: the fault that is named decides both ways.
LEMMA ResponsesReadAlike ==
    ASSUME NEW e, NamedAlike("responses", e)
    PROVE  ReadAlike("responses", e)
<1> DEFINE fault   == ResponsesFaultOf(e)
           verdict == ResponsesErrorVerdict(e)
           event   == ClassifyResponsesError(e)
           As(status, type) == [Named("responses", status, e) EXCEPT !.type = type]
<1>1. fault \in {"timeout", "rate_limit", "overloaded", "quota", "shape", "rejected"}
  <2>1. fault # "unknown"
    BY DEF NamedAlike
  <2>2. \A c \in DOMAIN ByCode : ByCode[c] \in {"timeout", "rate_limit", "overloaded"}
    BY DEF ByCode
  <2>3. \A t \in DOMAIN ByType : ByType[t] \in {"timeout", "rate_limit", "overloaded", "shape"}
    BY DEF ByType
  <2> QED
    BY <2>1, <2>2, <2>3 DEF ResponsesFaultOf
<1>2. fault = "rejected" => Rejected[e.type] \in {401, 403, 404}
  <2>1. Rejected.authentication_error = 401 /\ Rejected.permission_error = 403
        /\ Rejected.not_found_error = 404
        /\ DOMAIN Rejected = {"authentication_error", "permission_error", "not_found_error"}
    BY DEF Rejected
  <2>2. \A c \in DOMAIN ByCode : ByCode[c] # "rejected"
    BY DEF ByCode
  <2>3. \A t \in DOMAIN ByType : ByType[t] # "rejected"
    BY DEF ByType
  <2> QED
    <3>1. fault = "rejected" => e.type \in DOMAIN Rejected
      BY <2>2, <2>3 DEF ResponsesFaultOf
    <3> QED
      BY <2>1, <3>1
<1>3. verdict = IF fault \in {"timeout", "rate_limit", "overloaded"} THEN "transient"
                ELSE IF fault \in {"shape", "quota"} THEN "permanent" ELSE "unknown"
  BY <1>1 DEF ResponsesErrorVerdict
<1>4. event = CASE fault = "timeout"    -> Retryable(As(504, "timeout_error"))
                [] fault = "rate_limit" -> Retryable(As(429, "rate_limit_error"))
                [] fault = "overloaded" -> Retryable(As(529, "overloaded_error"))
                [] fault = "quota"      -> As(429, IF e.type \in Quota THEN e.type ELSE e.code)
                [] fault = "shape"      -> As(400, "invalid_request_error")
                [] fault = "rejected"   -> As(Rejected[e.type], e.type)
                [] OTHER                -> Retryable(As(502, "api_error"))
  BY Zenon DEF ClassifyResponsesError
<1>5. \A status, type :
        /\ As(status, type).status = status /\ As(status, type).transient = FALSE
        /\ Retryable(As(status, type)).status = status
        /\ Retryable(As(status, type)).transient = TRUE
  <2> TAKE status, type
  <2> QED
    BY RetypedVerdict
<1>6. /\ ClassifyInBand("responses", e) = event
      /\ \A status : ClassifyHTTP("responses", Reply(status, e))
                       = ClassifyShaped(Reply(status, e), verdict)
  BY DEF ClassifyInBand, ClassifyHTTP, Reply
<1> HIDE DEF fault, verdict, event, As
<1>7. /\ event.status \in {400, 401, 403, 404, 429, 504, 529}
      /\ \/ event.transient = TRUE /\ verdict = "transient" /\ RetriedAs(event.status, verdict)
         \/ event.transient = FALSE /\ ~RetriedAs(event.status, verdict)
  <2>1. CASE fault \in {"timeout", "rate_limit", "overloaded"}
    <3>1. PICK status \in {429, 504, 529} : \E type : event = Retryable(As(status, type))
      BY <1>4, <2>1
    <3>2. event.status = status /\ event.transient = TRUE
      <4> PICK type : event = Retryable(As(status, type))
        BY <3>1
      <4> QED
        BY <1>5
    <3> QED
      BY <1>3, <2>1, <3>1, <3>2 DEF RetriedAs
  <2>2. CASE fault \in {"quota", "shape"}
    BY <1>3, <1>4, <1>5, <2>2 DEF RetriedAs
  <2>3. CASE fault = "rejected"
    BY <1>2, <1>3, <1>4, <1>5, <2>3 DEF RetriedAs
  <2> QED
    BY <1>1, <2>1, <2>2, <2>3
<1>8. ClassifyShaped(Reply(event.status, e), verdict).transient = event.transient
  <2> DEFINE status == event.status
             transient == event.transient
  <2>1. status \in Nat /\ status \notin 300 .. 399
    BY <1>7
  <2>2. \/ transient = TRUE /\ RetriedAs(status, verdict)
        \/ transient = FALSE /\ ~RetriedAs(status, verdict)
    BY <1>7
  <2> HIDE DEF status, transient
  <2>3. ClassifyShaped(Reply(status, e), verdict).transient = transient
    BY <2>1, <2>2, SameVerdict, ZenonT(60)
  <2> QED
    BY <2>3 DEF status, transient
<1>9. event.transient => ClassifyShaped(Reply(400, e), verdict).transient
  BY <1>7, TransientBadRequest, ZenonT(60)
<1> QED
  BY <1>6, <1>8, <1>9, ZenonT(60) DEF ReadAlike

\* Gemini: an event is read as the HTTP error of its name, and only a name that
\* is retried in any status stands for one that always is.
LEMMA GeminiReadAlike ==
    ASSUME NEW e, NamedAlike("gemini", e)
    PROVE  ReadAlike("gemini", e)
<1> DEFINE verdict == GeminiErrorVerdict(e)
           status  == GeminiStatus(e.native)
<1>1. /\ ClassifyInBand("gemini", e) = ClassifyShaped(Reply(status, e), verdict)
      /\ \A st : ClassifyHTTP("gemini", Reply(st, e)) = ClassifyShaped(Reply(st, e), verdict)
  BY DEF ClassifyInBand, ClassifyGeminiSSEError, ClassifyHTTP, Reply
<1>2. status \in {400, 401, 403, 404, 409, 429, 500, 503, 504}
  BY DEF NamedAlike, GeminiStatus, GeminiTransient, GeminiPermanent
<1>3. RetriedAs(status, verdict) => verdict = "transient"
  <2>1. CASE e.native \in GeminiTransient
    <3>1. verdict = "transient"
      BY <2>1 DEF GeminiErrorVerdict, GeminiTransient, GeminiPermanent
    <3> QED
      BY <3>1
  <2>2. CASE e.native = "RESOURCE_EXHAUSTED"
    <3>1. verdict \in {"transient", "permanent"}
      BY <2>2 DEF GeminiErrorVerdict, GeminiTransient, GeminiPermanent
    <3>2. status = 429
      BY <2>2 DEF GeminiStatus
    <3> QED
      BY <3>1, <3>2 DEF RetriedAs
  <2>3. CASE e.native \in GeminiPermanent
    <3>1. verdict = "permanent"
      BY <2>3 DEF GeminiErrorVerdict, GeminiTransient, GeminiPermanent
    <3>2. status \in {400, 401, 403, 404}
      BY <2>3 DEF NamedAlike, GeminiStatus, GeminiPermanent
    <3> QED
      BY <3>1, <3>2 DEF RetriedAs
  <2> QED
    BY <2>1, <2>2, <2>3 DEF NamedAlike
<1> HIDE DEF verdict, status
<1> DEFINE event == ClassifyShaped(Reply(status, e), verdict)
<1>4. /\ event.status = status
      /\ RetriedAs(status, verdict) => event.transient = TRUE
      /\ ~RetriedAs(status, verdict) => event.transient = FALSE
  <2>1. status \in Nat /\ status \notin 300 .. 399
    BY <1>2
  <2> QED
    BY <2>1, ShapedVerdict, Zenon
<1>5. verdict = "transient" => ClassifyShaped(Reply(400, e), verdict).transient = TRUE
  BY TransientBadRequest, ZenonT(60)
<1>6. event.transient => ClassifyHTTP("gemini", Reply(400, e)).transient
  BY <1>1, <1>3, <1>4, <1>5, ZenonT(60)
<1>7. ClassifyInBand("gemini", e) = event /\ ClassifyHTTP("gemini", Reply(event.status, e)) = event
  BY <1>1, <1>4, Zenon
<1> HIDE DEF event
<1> QED
  BY <1>6, <1>7, Zenon DEF ReadAlike

\* Anthropic: the documented types have the status that their verdict asks for.
LEMMA AnthropicReadAlike ==
    ASSUME NEW route \in {"claude", "messages"}, NEW e, NamedAlike(route, e)
    PROVE  ReadAlike(route, e)
<1> DEFINE verdict == AnthropicErrorVerdict(e)
           event   == ClassifySSEError(e)
<1>1. /\ ClassifyInBand(route, e) = event
      /\ \A st : ClassifyHTTP(route, Reply(st, e)) = ClassifyShaped(Reply(st, e), verdict)
  BY DEF ClassifyInBand, ClassifyHTTP, Reply
<1>2. /\ ~ShapePhrase(e) /\ e.text # "disconnect"
      /\ e.type \in DOMAIN PermanentStatus
            \cup {"overloaded_error", "rate_limit_error", "timeout_error"}
  BY DEF NamedAlike
<1>3. verdict = IF e.type \in {"overloaded_error", "rate_limit_error", "timeout_error"}
                THEN "transient" ELSE "unknown"
  BY <1>2 DEF AnthropicErrorVerdict
<1>4. /\ event.status \in {400, 401, 402, 403, 404, 413, 429, 502, 529}
      /\ \/ event.transient = TRUE /\ verdict = "transient" /\ RetriedAs(event.status, verdict)
         \/ event.transient = FALSE /\ ~RetriedAs(event.status, verdict)
  <2>1. CASE e.type \in {"overloaded_error", "rate_limit_error", "timeout_error"}
    <3> DEFINE F(code, status) == Retryable(Named(code, status, e))
    <3>1. \/ event = F("sse_overloaded", 529) \/ event = F("sse_rate_limit", 429)
          \/ event = F("sse_api_error", 502)
      BY <2>1, ZenonT(60) DEF ClassifySSEError
    <3>2. /\ F("sse_overloaded", 529).status = 529 /\ F("sse_overloaded", 529).transient = TRUE
          /\ F("sse_rate_limit", 429).status = 429 /\ F("sse_rate_limit", 429).transient = TRUE
          /\ F("sse_api_error", 502).status = 502 /\ F("sse_api_error", 502).transient = TRUE
      BY DEF Named, Fault, Retryable
    <3> HIDE DEF event, F
    <3>3. event.status \in {429, 502, 529} /\ event.transient = TRUE
      BY <3>1, <3>2
    <3> QED
      BY <1>3, <2>1, <3>3 DEF RetriedAs
  <2>3. DOMAIN PermanentStatus \cap {"overloaded_error", "rate_limit_error", "api_error",
                                      "timeout_error", ""} = {}
    BY DEF PermanentStatus
  <2>2. CASE e.type \in DOMAIN PermanentStatus
    <3>1. event = Named("sse_permanent", PermanentStatus[e.type], e)
      BY <1>2, <2>2, <2>3, ZenonT(60) DEF ClassifySSEError
    <3>2. /\ PermanentStatus[e.type] \in {400, 401, 402, 403, 404, 413}
          /\ e.type \notin {"overloaded_error", "rate_limit_error", "timeout_error"}
      BY <2>2 DEF PermanentStatus
    <3>3. event.status = PermanentStatus[e.type] /\ event.transient = FALSE
      <4> DEFINE status == PermanentStatus[e.type]
      <4> HIDE DEF status
      <4>1. /\ Named("sse_permanent", status, e).status = status
            /\ Named("sse_permanent", status, e).transient = FALSE
        BY DEF Named, Fault
      <4> QED
        BY <3>1, <4>1 DEF status
    <3> QED
      BY <1>3, <3>2, <3>3 DEF RetriedAs
  <2> QED
    BY <1>2, <2>1, <2>2
<1> HIDE DEF verdict, event
<1>5. ClassifyShaped(Reply(event.status, e), verdict).transient = event.transient
  <2> DEFINE status == event.status
             transient == event.transient
  <2>1. status \in Nat /\ status \notin 300 .. 399
    BY <1>4
  <2>2. \/ transient = TRUE /\ RetriedAs(status, verdict)
        \/ transient = FALSE /\ ~RetriedAs(status, verdict)
    BY <1>4
  <2> HIDE DEF status, transient
  <2>3. ClassifyShaped(Reply(status, e), verdict).transient = transient
    BY <2>1, <2>2, SameVerdict, ZenonT(60)
  <2> QED
    BY <2>3 DEF status, transient
<1>6. event.transient => ClassifyShaped(Reply(400, e), verdict).transient
  BY <1>4, TransientBadRequest, ZenonT(60)
<1> QED
  BY <1>1, <1>5, <1>6, ZenonT(60) DEF ReadAlike

\* One error has one verdict, as an HTTP error and as an event of a stream, on
\* every wire and for every error that names its kind (classifyHTTPError,
\* classifySSEError, responsesFaultOf, classifyGeminiSSEError).
THEOREM ErrorsAreReadAlike == Spec => []ErrorsReadAlike
<1>1. LoopInv => ErrorsReadAlike
  <2> SUFFICES ASSUME LoopInv, NEW e, NamedAlike(request.route, e)
               PROVE  ReadAlike(request.route, e)
    BY DEF ErrorsReadAlike
  <2>1. request.route \in {"claude", "messages", "responses", "gemini"}
    BY DEF LoopInv, TypeInv, Requests
  <2> QED
    BY <2>1, ResponsesReadAlike, GeminiReadAlike, AnthropicReadAlike
<1> QED
  BY <1>1, LoopInvariant, PTL

=============================================================================
