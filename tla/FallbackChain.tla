---------------------------- MODULE FallbackChain ----------------------------
(***************************************************************************)
(* What the request loop promises about the models it asks: the request's  *)
(* own model first, and after its refusal the fallbacks in their order;    *)
(* the refusal is kept as the original answer, and the client is answered  *)
(* once, by the last model asked or with the original.  There is no clock, *)
(* budget, window, transport or spool here.                                *)
(***************************************************************************)
EXTENDS Naturals, Sequences

CONSTANTS
    FirstModel,    \* the model of the request
    Fallbacks      \* claudeRefusalFallbacks, in order

VARIABLES
    asked,       \* the model of every attempt, in order
    original,    \* the attempt whose refusal is kept; 0: none
    answer       \* [kind, attempt]

vars == <<asked, original, answer>>

NoAnswer == [kind |-> "none", attempt |-> 0]

-----------------------------------------------------------------------------
(* The order of the models                                                 *)

\* Place 0 is the request's own model, which is not asked again as a fallback.
At(i) == IF i = 0 THEN FirstModel ELSE Fallbacks[i]

Places == {0} \cup {i \in DOMAIN Fallbacks : Fallbacks[i] # FirstModel}

\* n is the model to ask after m.
Follows(m, n) ==
    \E i, j \in Places :
        /\ m = At(i) /\ n = At(j) /\ i < j
        /\ \A k \in Places : k <= i \/ j <= k

LastAsked == asked[Len(asked)]

-----------------------------------------------------------------------------

Init == asked = <<>> /\ original = 0 /\ answer = NoAnswer

\* The model to ask: the first, the same once more unless it has refused, or
\* in a chain the one that follows.
Due(m) ==
    \/ asked = <<>> /\ original = 0 /\ m = FirstModel
    \/ asked # <<>> /\ m = LastAsked /\ (original = 0 \/ original < Len(asked))
    \/ asked # <<>> /\ original # 0 /\ Follows(LastAsked, m)

Ask ==
    /\ answer = NoAnswer
    /\ \E m \in {At(i) : i \in Places} : Due(m) /\ asked' = Append(asked, m)
    /\ UNCHANGED <<original, answer>>

\* The first refusal starts the chain.
Refuse ==
    /\ answer = NoAnswer /\ original = 0 /\ asked # <<>>
    /\ original' = Len(asked)
    /\ UNCHANGED <<asked, answer>>

Answer(kind, attempt) ==
    /\ answer = NoAnswer
    /\ answer' = [kind |-> kind, attempt |-> attempt]
    /\ UNCHANGED <<asked, original>>

\* The last model's answer: whole, with an error frame of its own, or cut off.
Deliver ==
    /\ asked # <<>> /\ original # Len(asked)
    /\ \E kind \in {"ok", "delivered", "drop"} : Answer(kind, Len(asked))

\* The original answer, which may be cut off, or a safeguard error.
GiveBack ==
    /\ original # 0
    /\ \E kind \in {"held", "drop", "fail"} : Answer(kind, original)

\* A failure; only without a chain may it invite the client to try again.
Fail  == Answer("fail", Len(asked))
Offer == original = 0 /\ Answer("retry", Len(asked))

\* The upload is refused before a model is asked.
Reject == asked = <<>> /\ original = 0 /\ Answer("rejected", 0)

Next == Ask \/ Refuse \/ Deliver \/ GiveBack \/ Fail \/ Offer \/ Reject

Spec == Init /\ [][Next]_vars

-----------------------------------------------------------------------------
(* Properties                                                              *)

\* The models are asked in their order and none is returned to: attempts of
\* one place follow each other, and those of a later place follow them
\* (nextFallback, whose index only grows).
AskedInOrder ==
    \A k, l \in DOMAIN asked : \A i, j \in Places :
        k < l /\ asked[k] = At(i) /\ asked[l] = At(j) => i <= j

=============================================================================
