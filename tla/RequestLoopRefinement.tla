------------------------ MODULE RequestLoopRefinement ------------------------
(***************************************************************************)
(* The request loop with its clock, retries, deadlines, classifiers and    *)
(* held responses implements the promise of FallbackChain: they decide     *)
(* only when its steps happen and which of its answers is given.           *)
(***************************************************************************)
EXTENDS RequestLoop

ClientAnswer == [kind |-> response.kind, attempt |-> response.attempt]

Chain == INSTANCE FallbackChain WITH
            asked <- sent, original <- Held, answer <- ClientAnswer

\* Every behaviour of the loop is one of the promised ones: the models are
\* asked in order and none is returned to, the first refusal is kept, and the
\* client is answered once, with it or by the last model asked.
ImplementsChain == Chain!Spec

=============================================================================
