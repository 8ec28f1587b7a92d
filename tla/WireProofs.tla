------------------------------ MODULE WireProofs ------------------------------
(***************************************************************************)
(* What the theorems of StreamCaptureProofs assume of a wire, for each of  *)
(* the three: only its buffering path may return the sentinel of a         *)
(* complete refusal (SentinelIsBuffered; AnthropicProofs for that wire),   *)
(* and a new wire has no content.  And what a stream of the Gemini wire    *)
(* and one of the Responses wire delivers, for every request and answer.   *)
(***************************************************************************)
EXTENDS WireStreams, FiniteSetTheorems, SequenceTheorems, TLAPS

-----------------------------------------------------------------------------
(* The assumptions of the engine's theorems                                *)

\* The Responses wire never returns the sentinel at all.
THEOREM ResponsesSentinelIsBuffered ==
    /\ \A w, ev : R!ResponsesLive(w, ev).fail # RefusalFallback
    /\ \A w, evs : R!ResponsesReplay(w, evs).fail # RefusalFallback
<1>1. ASSUME NEW w, NEW ev
      PROVE  R!ResponsesLive(w, ev).fail # RefusalFallback
  <2>1. R!FrameFailure(ev) \in
          {R!InBandTransient, R!InBandTerminal}
    BY DEF R!FrameFailure
  <2>2. R!ResponsesLive(w, ev).fail \in
          {R!FrameFailure(ev), R!Delivered(R!FrameFailure(ev)),
           R!InvalidCompleted, R!NoFail}
    BY DEF R!ResponsesLive
  <2> QED
    BY <2>1, <2>2
       DEF R!InBandTransient, R!InBandTerminal,
           R!InvalidCompleted, R!NoFail, R!Delivered,
           R!Transient, R!Terminal, RefusalFallback, Terminal
<1>2. ASSUME NEW w, NEW evs
      PROVE  R!ResponsesReplay(w, evs).fail # RefusalFallback
  BY DEF R!ResponsesReplay, R!NoFail, RefusalFallback, Terminal
<1> QED
  BY <1>1, <1>2

\* Nor does the Gemini wire.
THEOREM GeminiSentinelIsBuffered ==
    /\ \A w, ev : G!GeminiLive(w, ev).fail # RefusalFallback
    /\ \A w, evs : G!GeminiReplay(w, evs).fail # RefusalFallback
<1>1. ASSUME NEW w, NEW ev
      PROVE  G!GeminiLive(w, ev).fail # RefusalFallback
  <2>1. G!AcceptChunk(w, ev).fail \in {G!NoFail, G!MalformedSSE}
    BY DEF G!AcceptChunk
  <2>2. G!Accept(w, ev).fail \in
          {G!NoFail, G!MalformedSSE, G!InBandTransient,
           G!InBandTerminal}
    BY <2>1 DEF G!Accept
  <2>3. G!GeminiLive(w, ev).fail \in
          {G!NoFail, G!Accept(w, ev).fail,
           G!Delivered(G!Accept(w, ev).fail)}
    BY DEF G!GeminiLive
  <2> QED
    BY <2>2, <2>3
       DEF G!NoFail, G!MalformedSSE, G!InBandTransient,
           G!InBandTerminal, G!Delivered, G!Transient,
           G!Terminal, RefusalFallback, Terminal
<1>2. ASSUME NEW w, NEW evs
      PROVE  G!GeminiReplay(w, evs).fail # RefusalFallback
  BY DEF G!GeminiReplay, G!NoFail, RefusalFallback, Terminal
<1> QED
  BY <1>1, <1>2

\* A new wire has nothing to forward, so that no stream starts with a commit
\* owed to the client (forwardable of the three wires).
THEOREM NewWiresHaveNoContent ==
    /\ \A deltas \in BOOLEAN :
         ~A!AnthropicForwardable(A!AnthropicInit(deltas))
    /\ ~R!ResponsesForwardable(R!ResponsesInit)
    /\ ~G!GeminiForwardable(G!GeminiInit)
  BY DEF A!AnthropicForwardable, A!AnthropicInit,
         R!ResponsesForwardable, R!ResponsesInit,
         G!GeminiForwardable, G!GeminiInit

-----------------------------------------------------------------------------
(* The Gemini wire                                                         *)

GeminiStates ==
    [state: [G!Index -> {"absent", "open", "finished"}], finished: Nat,
     blocked: BOOLEAN, failed: BOOLEAN, sawContent: BOOLEAN]

FinishedIn(w) == {i \in G!Index : w.state[i] = "finished"}

\* What a wire that rejected nothing knows of the events it was given.
WireKnown(w, evs) ==
    /\ w \in GeminiStates /\ ~w.failed
    /\ w.finished = Cardinality(FinishedIn(w))
    /\ w.blocked <=> \E k \in DOMAIN evs : evs[k].blocked
    /\ \A c \in G!CandidatesOf(evs) : c.index \in G!Index
    /\ \A i \in G!Index :
         /\ w.state[i] = "absent" <=> \A c \in G!CandidatesOf(evs) : c.index # i
         /\ w.state[i] = "finished" <=> \E c \in G!CandidatesOf(evs) : c.index = i /\ c.finish

\* What it let pass.
Passed(evs) ==
    /\ G!NothingAfterFinish(evs)
    /\ \A k \in DOMAIN evs : evs[k].kind \in {"control", "chunk"}

\* There are as many indices as candidates were asked for.
LEMMA IndexFinite ==
    IsFiniteSet(G!Index) /\ Cardinality(G!Index) = CandidateCount
BY FS_Interval, CandidatesAssumption DEF G!Index

\* The instance's symbol is the one the theorems about finite sets speak of.
LEMMA SameCardinality == \A S : G!Cardinality(S) = Cardinality(S)
BY DEF G!Cardinality, Cardinality

\* A wire counts all candidates as finished only if each of them is.
LEMMA AllFinished ==
    ASSUME NEW w \in GeminiStates, w.finished = Cardinality(FinishedIn(w)),
           w.finished = CandidateCount
    PROVE  \A i \in G!Index : w.state[i] = "finished"
<1>1. FinishedIn(w) \in SUBSET G!Index
  BY DEF FinishedIn
<1>2. FinishedIn(w) = G!Index
  BY <1>1, IndexFinite, FS_Subset
<1> QED
  BY <1>2 DEF FinishedIn

\* One event more adds its own candidates.
LEMMA CandidatesAppended ==
    ASSUME NEW evs \in Seq(G!Events), NEW ev \in G!Events
    PROVE  G!CandidatesOf(Append(evs, ev)) = G!CandidatesOf(evs) \cup ToSet(ev.candidates)
<1>1. DOMAIN evs = 1 .. Len(evs) /\ Len(evs) \in Nat
  BY LenProperties
<1>2. DOMAIN Append(evs, ev) = 1 .. Len(evs) + 1
  BY AppendProperties
<1>3. /\ Append(evs, ev)[Len(evs) + 1] = ev
      /\ \A k \in DOMAIN evs : Append(evs, ev)[k] = evs[k]
  BY AppendProperties
<1>4. ASSUME NEW c
      PROVE  c \in G!CandidatesOf(Append(evs, ev)) <=>
               \E k \in DOMAIN Append(evs, ev) : c \in ToSet(Append(evs, ev)[k].candidates)
  BY DEF G!CandidatesOf, G!ToSet, ToSet
<1>5. ASSUME NEW c
      PROVE  c \in G!CandidatesOf(evs) <=> \E k \in DOMAIN evs : c \in ToSet(evs[k].candidates)
  BY DEF G!CandidatesOf, G!ToSet, ToSet
<1>6. DOMAIN Append(evs, ev) = DOMAIN evs \cup {Len(evs) + 1}
  BY <1>1, <1>2
<1> QED
  BY <1>3, <1>4, <1>5, <1>6

\* A chunk that is accepted has one valid candidate of each index at most.
LEMMA ChunkIsValid ==
    ASSUME NEW w, NEW cs \in Seq(G!Candidates), G!Accepted(w, cs) = DOMAIN cs
    PROVE  /\ \A c \in ToSet(cs) :
                c.index \in G!Index /\ (c.content => w.state[c.index] # "finished")
           /\ {cs[k] : k \in G!Accepted(w, cs)} = ToSet(cs)
<1>1. ASSUME NEW k \in DOMAIN cs
      PROVE  cs[k].index \in G!Index /\ (cs[k].content => w.state[cs[k].index] # "finished")
  <2>1. k \in 1 .. k
    OBVIOUS
  <2>2. ~G!Rejected(w, cs, k)
    BY <1>1, <2>1 DEF G!Accepted
  <2> QED
    BY <2>2 DEF G!Rejected
<1>2. {cs[k] : k \in G!Accepted(w, cs)} = ToSet(cs)
  BY DEF ToSet
<1> QED
  BY <1>1, <1>2 DEF ToSet

\* Its candidates, and no others, are open or finished afterwards, and each
\* that finishes is counted once.
LEMMA CandidatesAccepted ==
    ASSUME NEW w \in GeminiStates, w.finished = Cardinality(FinishedIn(w)),
           NEW cs \in Seq(G!Candidates), G!Accepted(w, cs) = DOMAIN cs,
           NEW next, next = G!AcceptCandidates(w, cs)
    PROVE  /\ next \in GeminiStates /\ next.failed = w.failed /\ next.blocked = w.blocked
           /\ next.finished = Cardinality(FinishedIn(next))
           /\ \A i \in G!Index :
                /\ next.state[i] = "finished" <=>
                     w.state[i] = "finished" \/ \E c \in ToSet(cs) : c.index = i /\ c.finish
                /\ next.state[i] = "absent" <=>
                     w.state[i] = "absent" /\ \A c \in ToSet(cs) : c.index # i
<1> DEFINE taken     == {cs[k] : k \in G!Accepted(w, cs)}
           finishing == {c.index : c \in {d \in taken : d.finish}}
           after(i)  == IF w.state[i] = "finished" \/ i \in finishing THEN "finished"
                        ELSE IF \E c \in taken : c.index = i THEN "open" ELSE w.state[i]
           counted   == {i \in finishing : w.state[i] # "finished"}
           content   == \E c \in taken : c.content
<1>1. taken = ToSet(cs)
  BY ChunkIsValid
<1>2. next = [w EXCEPT !.state = [i \in G!Index |-> after(i)],
                       !.finished = w.finished + G!Cardinality(counted),
                       !.sawContent = w.sawContent \/ content]
  BY Zenon DEF G!AcceptCandidates
<1>3. \A c \in ToSet(cs) : c.index \in G!Index
  BY ChunkIsValid
<1>4. finishing \subseteq G!Index /\ counted \subseteq G!Index
  BY <1>1, <1>3
<1>5. \A i : i \in finishing <=> \E c \in ToSet(cs) : c.index = i /\ c.finish
  BY <1>1
<1>6. \A i \in G!Index : after(i) \in {"absent", "open", "finished"}
  BY DEF GeminiStates
<1>7. Cardinality(counted) \in Nat /\ IsFiniteSet(counted)
  BY <1>4, IndexFinite, FS_Subset, FS_CardinalityType
<1> HIDE DEF taken, finishing, counted, content
<1>8. next.finished = w.finished + Cardinality(counted)
  BY <1>2, SameCardinality DEF GeminiStates
<1>9. next.state = [i \in G!Index |-> after(i)]
  BY <1>2 DEF GeminiStates
<1>10. next.failed = w.failed /\ next.blocked = w.blocked
  BY <1>2 DEF GeminiStates
<1>11. next \in GeminiStates
  <2>1. [i \in G!Index |-> after(i)] \in [G!Index -> {"absent", "open", "finished"}]
    BY <1>6
  <2>2. w.finished + Cardinality(counted) \in Nat
    BY <1>7 DEF GeminiStates
  <2>3. (w.sawContent \/ content) \in BOOLEAN
    OBVIOUS
  <2> HIDE DEF after
  <2> QED
    BY <1>2, <2>1, <2>2, <2>3, SameCardinality DEF GeminiStates
<1>12. ASSUME NEW i \in G!Index
       PROVE  /\ next.state[i] = "finished" <=>
                   w.state[i] = "finished" \/ \E c \in ToSet(cs) : c.index = i /\ c.finish
              /\ next.state[i] = "absent" <=>
                   w.state[i] = "absent" /\ \A c \in ToSet(cs) : c.index # i
  <2>1. next.state[i] = after(i)
    BY <1>9
  <2> QED
    BY <2>1, <1>1, <1>5
<1>13. FinishedIn(next) = FinishedIn(w) \cup counted /\ FinishedIn(w) \cap counted = {}
  BY <1>4, <1>5, <1>12 DEF FinishedIn, counted
<1>14. next.finished = Cardinality(FinishedIn(next))
  <2>1. FinishedIn(w) \subseteq G!Index
    BY DEF FinishedIn
  <2>2. IsFiniteSet(FinishedIn(w)) /\ Cardinality(FinishedIn(w)) \in Nat
    BY <2>1, IndexFinite, FS_Subset, FS_CardinalityType
  <2>3. Cardinality(FinishedIn(w) \cup counted)
          = Cardinality(FinishedIn(w)) + Cardinality(counted) - Cardinality({})
    BY <1>7, <1>13, <2>2, FS_Union
  <2> QED
    BY <1>7, <1>8, <1>13, <2>2, <2>3, FS_EmptySet DEF GeminiStates
<1> QED
  BY <1>10, <1>11, <1>12, <1>14

\* The step of a wire from what it knew to what it knows with one event more.
LEMMA KnownAppended ==
    ASSUME NEW evs \in Seq(G!Events), NEW ev \in G!Events, ev.kind \in {"control", "chunk"},
           NEW w, WireKnown(w, evs), Passed(evs),
           \A c \in ToSet(ev.candidates) :
             c.index \in G!Index /\ (c.content => w.state[c.index] # "finished"),
           NEW next \in GeminiStates, ~next.failed,
           next.finished = Cardinality(FinishedIn(next)),
           next.blocked <=> w.blocked \/ ev.blocked,
           \A i \in G!Index :
             /\ next.state[i] = "finished" <=>
                  w.state[i] = "finished" \/ \E c \in ToSet(ev.candidates) : c.index = i /\ c.finish
             /\ next.state[i] = "absent" <=>
                  w.state[i] = "absent" /\ \A c \in ToSet(ev.candidates) : c.index # i
    PROVE  WireKnown(next, Append(evs, ev)) /\ Passed(Append(evs, ev))
<1> DEFINE more == Append(evs, ev)
<1>1. G!CandidatesOf(more) = G!CandidatesOf(evs) \cup ToSet(ev.candidates)
  BY CandidatesAppended
<1>2. /\ DOMAIN evs = 1 .. Len(evs) /\ DOMAIN more = 1 .. Len(evs) + 1 /\ Len(evs) \in Nat
      /\ more[Len(evs) + 1] = ev /\ \A k \in DOMAIN evs : more[k] = evs[k]
  BY LenProperties, AppendProperties
<1>3. DOMAIN more = DOMAIN evs \cup {Len(evs) + 1}
  BY <1>2
<1> HIDE DEF more
<1>4. next.blocked <=> \E k \in DOMAIN more : more[k].blocked
  BY <1>2, <1>3 DEF WireKnown
<1>5. \A c \in G!CandidatesOf(more) : c.index \in G!Index
  BY <1>1 DEF WireKnown
<1>6. ASSUME NEW i \in G!Index
      PROVE  /\ next.state[i] = "absent" <=> \A c \in G!CandidatesOf(more) : c.index # i
             /\ next.state[i] = "finished" <=>
                  \E c \in G!CandidatesOf(more) : c.index = i /\ c.finish
  BY <1>1 DEF WireKnown
<1>7. WireKnown(next, more)
  BY <1>4, <1>5, <1>6 DEF WireKnown
<1>8. \A k \in DOMAIN more : more[k].kind \in {"control", "chunk"}
  BY <1>2, <1>3 DEF Passed
<1>9. ASSUME NEW i \in DOMAIN more, NEW j \in DOMAIN more, i < j,
             NEW c \in ToSet(more[i].candidates), NEW d \in ToSet(more[j].candidates),
             c.index = d.index, c.finish
      PROVE  ~d.content
  <2>1. i \in DOMAIN evs /\ more[i] = evs[i]
    BY <1>2, <1>9
  <2>2. CASE j \in DOMAIN evs
    <3>1. more[j] = evs[j]
      BY <1>2, <2>2
    <3> QED
      BY <1>9, <2>1, <2>2, <3>1 DEF Passed, G!NothingAfterFinish, G!ToSet, ToSet
  <2>3. CASE j \notin DOMAIN evs
    <3>1. more[j] = ev
      BY <1>2, <1>3, <2>3
    <3>2. c \in G!CandidatesOf(evs)
      BY <2>1 DEF G!CandidatesOf, G!ToSet, ToSet
    <3>3. d.index \in G!Index
      BY <3>1
    <3>4. w.state[d.index] = "finished"
      BY <1>9, <3>2, <3>3 DEF WireKnown
    <3> QED
      BY <3>1, <3>4
  <2> QED
    BY <2>2, <2>3
<1>10. G!NothingAfterFinish(more)
  BY <1>9 DEF G!NothingAfterFinish, G!ToSet, ToSet
<1> QED
  BY <1>7, <1>8, <1>10 DEF Passed, more

\* An event without a fault is known and let pass.
LEMMA AcceptedIsKnown ==
    ASSUME NEW evs \in Seq(G!Events), NEW ev \in G!Events,
           NEW w, WireKnown(w, evs), Passed(evs), G!Accept(w, ev).fail = G!NoFail
    PROVE  /\ WireKnown(G!Accept(w, ev).wire, Append(evs, ev))
           /\ Passed(Append(evs, ev))
<1> DEFINE next == G!Accept(w, ev).wire
           cs   == ev.candidates
<1>1. w \in GeminiStates /\ ~w.failed /\ w.finished = Cardinality(FinishedIn(w))
  BY DEF WireKnown
<1>2. CASE ev.kind = "control"
  <2>1. next = w
    BY <1>2 DEF G!Accept
  <2>2. ev = G!Plain("control")
    BY <1>2 DEF G!Events
  <2>3. ToSet(cs) = {} /\ ev.blocked = FALSE
    BY <2>2 DEF G!Plain, ToSet
  <2> HIDE DEF next
  <2> QED
    BY <1>1, <1>2, <2>1, <2>3, KnownAppended DEF next
<1>3. CASE ev.kind = "chunk"
  <2> DEFINE taken == G!AcceptCandidates(w, cs)
  <2>1. G!Accept(w, ev) = G!AcceptChunk(w, ev)
    BY <1>3, Zenon DEF G!Accept
  <2>2. G!NoFail # G!MalformedSSE
    BY DEF G!NoFail, G!MalformedSSE, G!Transient, G!Terminal
  <2>3. G!Accepted(w, cs) = DOMAIN cs
    BY <2>1, <2>2 DEF G!AcceptChunk
  <2>4. next = [taken EXCEPT !.blocked = taken.blocked \/ ev.blocked]
    BY <2>1, <2>3 DEF G!AcceptChunk
  <2>5. cs \in Seq(G!Candidates) /\ ev.blocked \in BOOLEAN
    BY DEF G!Events
  <2> HIDE DEF taken, next, cs
  <2>6. /\ taken \in GeminiStates /\ taken.failed = w.failed /\ taken.blocked = w.blocked
        /\ taken.finished = Cardinality(FinishedIn(taken))
        /\ \A i \in G!Index :
             /\ taken.state[i] = "finished" <=>
                  w.state[i] = "finished" \/ \E c \in ToSet(cs) : c.index = i /\ c.finish
             /\ taken.state[i] = "absent" <=>
                  w.state[i] = "absent" /\ \A c \in ToSet(cs) : c.index # i
    BY <1>1, <2>3, <2>5, CandidatesAccepted DEF taken
  <2>7. next \in GeminiStates
    BY <2>4, <2>5, <2>6 DEF GeminiStates
  <2>8. /\ next.state = taken.state /\ next.finished = taken.finished
        /\ next.failed = taken.failed /\ next.blocked = (taken.blocked \/ ev.blocked)
    BY <2>4, <2>5, <2>6 DEF GeminiStates
  <2>9. FinishedIn(next) = FinishedIn(taken)
    BY <2>8 DEF FinishedIn
  <2>10. next.blocked <=> w.blocked \/ ev.blocked
    BY <2>6, <2>8
  <2>11. \A c \in ToSet(cs) :
           c.index \in G!Index /\ (c.content => w.state[c.index] # "finished")
    BY <2>3, <2>5, ChunkIsValid
  <2>12. ~next.failed /\ next.finished = Cardinality(FinishedIn(next))
    BY <1>1, <2>6, <2>8, <2>9
  <2>13. \A i \in G!Index :
           /\ next.state[i] = "finished" <=>
                w.state[i] = "finished" \/ \E c \in ToSet(cs) : c.index = i /\ c.finish
           /\ next.state[i] = "absent" <=>
                w.state[i] = "absent" /\ \A c \in ToSet(cs) : c.index # i
    BY <2>6, <2>8
  <2> QED
    BY <1>3, <2>7, <2>10, <2>11, <2>12, <2>13, KnownAppended DEF next, cs
<1>4. CASE ev.kind \notin {"control", "chunk"}
  <2>1. G!Accept(w, ev).fail \in {G!MalformedSSE, G!InBandTransient, G!InBandTerminal}
    BY <1>4 DEF G!Accept, G!Events
  <2> QED
    BY <2>1 DEF G!NoFail, G!MalformedSSE, G!InBandTransient, G!InBandTerminal,
                G!Transient, G!Terminal
<1> QED
  BY <1>2, <1>3, <1>4

\* The wire's verdict of no failure is the engine's.
LEMMA SameNoFail == G!NoFail = NoFail
BY DEF G!NoFail, NoFail

\* An answered stream is complete: the wire's counters say so of its events.
LEMMA CompleteIsComplete ==
    ASSUME NEW evs, NEW w, WireKnown(w, evs), G!GeminiCompleteOnEOF(w)
    PROVE  G!CompleteAnswer(evs)
<1>1. CASE w.blocked
  <2>1. \A i \in G!Index : w.state[i] = "absent"
    BY <1>1 DEF G!GeminiCompleteOnEOF
  <2>2. G!CandidatesOf(evs) = {}
    BY <2>1 DEF WireKnown
  <2> QED
    BY <1>1, <2>2 DEF WireKnown, G!CompleteAnswer
<1>2. CASE ~w.blocked
  <2>1. w.finished = CandidateCount
    BY <1>2 DEF G!GeminiCompleteOnEOF
  <2>2. \A i \in G!Index : w.state[i] = "finished"
    BY <2>1, AllFinished DEF WireKnown
  <2>3. ~\E k \in DOMAIN evs : evs[k].blocked
    BY <1>2 DEF WireKnown
  <2>4. \A i \in G!Index : \E c \in G!CandidatesOf(evs) : c.index = i /\ c.finish
    BY <2>2 DEF WireKnown
  <2> QED
    BY <2>3, <2>4 DEF G!CompleteAnswer
<1> QED
  BY <1>1, <1>2

\* The marks of a fault leave a wire without one as it is.
LEMMA UnmarkedIsKnown ==
    ASSUME NEW evs, NEW w, WireKnown(w, evs), NEW mark, mark = FALSE,
           NEW next, next = [w EXCEPT !.failed = mark]
    PROVE  WireKnown(next, evs)
<1>1. w \in GeminiStates /\ w.failed = FALSE
  BY DEF WireKnown, GeminiStates
<1>2. next \in GeminiStates
  BY <1>1 DEF GeminiStates
<1>3. next.state = w.state /\ next.finished = w.finished /\ next.blocked = w.blocked
  BY <1>1 DEF GeminiStates
<1>4. ~next.failed
  BY <1>1 DEF GeminiStates
<1>5. FinishedIn(next) = FinishedIn(w)
  BY <1>3 DEF FinishedIn
<1> QED
  BY <1>2, <1>3, <1>4, <1>5 DEF WireKnown

\* The kinds of faults there are.
LEMMA AcceptFails ==
    ASSUME NEW w, NEW ev \in G!Events, G!Accept(w, ev).fail # G!NoFail
    PROVE  \/ G!Accept(w, ev).fail.transient
           \/ G!Accept(w, ev).fail = G!InBandTerminal /\ ev = G!ErrorTerminal
<1>1. CASE ev.kind = "error_terminal"
  <2>1. G!Accept(w, ev).fail = G!InBandTerminal
    BY <1>1 DEF G!Accept
  <2>2. ev = G!ErrorTerminal
    BY <1>1 DEF G!Events, G!ErrorTerminal
  <2> QED
    BY <2>1, <2>2
<1>2. CASE ev.kind # "error_terminal"
  <2>1. G!AcceptChunk(w, ev).fail \in {G!NoFail, G!MalformedSSE}
    BY DEF G!AcceptChunk
  <2>2. G!Accept(w, ev).fail \in {G!NoFail, G!MalformedSSE, G!InBandTransient}
    BY <1>2, <2>1 DEF G!Accept
  <2>3. G!MalformedSSE.transient /\ G!InBandTransient.transient
    BY DEF G!MalformedSSE, G!InBandTransient, G!Transient
  <2> QED
    BY <2>2, <2>3
<1> QED
  BY <1>1, <1>2

\* Neither path ends the stream before its end, and on both the wire knows the
\* events it let pass.  A committed stream forwards each of them, and of the
\* others a terminal error at most.
LEMMA GeminiVerdicts ==
    ASSUME NEW evs \in Seq(G!Events), NEW ev \in G!Events,
           NEW w, WireKnown(w, evs), Passed(evs),
           NEW b, b = G!GeminiBuffered(w, ev), NEW v, v = G!GeminiLive(w, ev)
    PROVE  /\ ~b.done /\ ~v.done
           /\ b.fail = G!NoFail =>
                WireKnown(b.wire, Append(evs, ev)) /\ Passed(Append(evs, ev))
           /\ v.fail = G!NoFail =>
                /\ WireKnown(v.wire, Append(evs, ev)) /\ Passed(Append(evs, ev))
                /\ v.out = <<ev>>
           /\ v.fail # G!NoFail =>
                \/ v.out = <<>>
                \/ v.out = <<ev>> /\ ev = G!ErrorTerminal /\ v.fail.delivered
<1> DEFINE a == G!Accept(w, ev)
<1>1. ~b.done /\ b.fail = a.fail
  BY DEF G!GeminiBuffered
<1>2. ~v.done
  BY DEF G!GeminiLive
<1>3. CASE a.fail = G!NoFail
  <2>1. WireKnown(a.wire, Append(evs, ev)) /\ Passed(Append(evs, ev))
    BY <1>3, AcceptedIsKnown
  <2>2. b.wire = [a.wire EXCEPT !.failed = a.wire.failed \/ a.fail # G!NoFail]
    BY DEF G!GeminiBuffered
  <2>3. WireKnown(b.wire, Append(evs, ev))
    <3> DEFINE mark == (a.wire.failed \/ a.fail # G!NoFail)
    <3>1. mark = FALSE
      BY <1>3, <2>1 DEF WireKnown
    <3>2. b.wire = [a.wire EXCEPT !.failed = mark]
      BY <2>2
    <3> HIDE DEF mark, a
    <3> QED
      BY <2>1, <3>1, <3>2, UnmarkedIsKnown
  <2>4. /\ v.wire = [a.wire EXCEPT !.failed = a.wire.failed \/ FALSE]
        /\ v.out = <<ev>> /\ v.fail = G!NoFail
    BY <1>3, Zenon DEF G!GeminiLive
  <2>5. WireKnown(v.wire, Append(evs, ev))
    <3> DEFINE mark == (a.wire.failed \/ FALSE)
    <3>1. mark = FALSE
      BY <2>1 DEF WireKnown
    <3>2. v.wire = [a.wire EXCEPT !.failed = mark]
      BY <2>4
    <3> HIDE DEF mark, a
    <3> QED
      BY <2>1, <3>1, <3>2, UnmarkedIsKnown
  <2> QED
    BY <1>1, <1>2, <1>3, <2>1, <2>3, <2>4, <2>5
<1>4. CASE a.fail # G!NoFail
  <2>1. CASE a.fail.transient
    <3>1. v.out = <<>> /\ v.fail = a.fail
      BY <1>4, <2>1, Zenon DEF G!GeminiLive
    <3> QED
      BY <1>1, <1>2, <1>4, <3>1
  <2>2. CASE a.fail = G!InBandTerminal /\ ev = G!ErrorTerminal
    <3>1. ~a.fail.transient
      BY <2>2 DEF G!InBandTerminal, G!Terminal
    <3>2. v.out = <<ev>> /\ v.fail = G!Delivered(a.fail)
      BY <1>4, <3>1, Zenon DEF G!GeminiLive
    <3>3. G!Delivered(a.fail).delivered /\ G!Delivered(a.fail) # G!NoFail
      BY <2>2 DEF G!Delivered, G!InBandTerminal, G!Terminal, G!NoFail
    <3> QED
      BY <1>1, <1>2, <1>4, <2>2, <3>2, <3>3
  <2> QED
    BY <1>4, <2>1, <2>2, AcceptFails
<1> QED
  BY <1>3, <1>4

\* The tagged wire in state x.
Tagged(x) == [proto |-> "gemini", state |-> x]

\* What a stream of Gemini events asks of its wire, the Gemini wire answers.
LEMMA GeminiOperators ==
    ASSUME GeminiStream, NEW x, NEW ev, NEW evs,
           NEW b, b = G!GeminiBuffered(x, ev), NEW v, v = G!GeminiLive(x, ev)
    PROVE  /\ Buffered(Tagged(x), ev).wire = Tagged(b.wire)
           /\ Buffered(Tagged(x), ev).done = b.done /\ Buffered(Tagged(x), ev).fail = b.fail
           /\ Live(Tagged(x), ev).wire = Tagged(v.wire) /\ Live(Tagged(x), ev).out = v.out
           /\ Live(Tagged(x), ev).done = v.done /\ Live(Tagged(x), ev).fail = v.fail
           /\ ReplayBuffered(Tagged(x), evs)
                = [wire |-> Tagged(x), out |-> evs, fail |-> NoFail]
           /\ ReplayPrefix(Tagged(x), evs)
                = [wire |-> Tagged(x), out |-> evs, fail |-> NoFail]
           /\ CompleteOnEOF(Tagged(x)) => G!GeminiCompleteOnEOF(x)
<1> DEFINE w == Tagged(x)
           y == G!GeminiReplay(x, evs)
<1>1. w.proto = "gemini" /\ w.state = x
  BY DEF Tagged
<1>2. \A z : [w EXCEPT !.state = z] = Tagged(z)
  BY DEF Tagged
<1>3. /\ b = [wire |-> b.wire, done |-> b.done, fail |-> b.fail]
      /\ v = [wire |-> v.wire, out |-> v.out, done |-> v.done, fail |-> v.fail]
      /\ y = [wire |-> x, out |-> evs, fail |-> NoFail]
  BY SameNoFail DEF G!GeminiBuffered, G!GeminiLive, G!GeminiReplay
<1> HIDE DEF w, y
<1>4. Buffered(w, ev) = Of(w, b)
  <2>1. WiresBuffered(w, ev) = Of(w, G!GeminiBuffered(w.state, ev))
    BY <1>1, Zenon DEF WiresBuffered
  <2> QED
    BY <1>1, <2>1 DEF GeminiStream, OnWire
<1>5. Live(w, ev) = Of(w, v)
  <2>1. WiresLive(w, ev) = Of(w, G!GeminiLive(w.state, ev))
    BY <1>1, Zenon DEF WiresLive
  <2> QED
    BY <1>1, <2>1 DEF GeminiStream, OnWire
<1>6. ReplayBuffered(w, evs) = Of(w, y) /\ ReplayPrefix(w, evs) = Of(w, y)
  <2>1. WiresReplay(w, evs) = Of(w, G!GeminiReplay(w.state, evs))
    BY <1>1, Zenon DEF WiresReplay
  <2>2. WiresReplayPrefix(w, evs) = Of(w, G!GeminiReplay(w.state, evs))
    BY <1>1, Zenon DEF WiresReplayPrefix
  <2> QED
    BY <1>1, <2>1, <2>2 DEF GeminiStream, OnWire, y
<1>7. CompleteOnEOF(w) => G!GeminiCompleteOnEOF(x)
  <2>1. WiresCompleteOnEOF(w) = G!GeminiCompleteOnEOF(w.state)
    BY <1>1, Zenon DEF WiresCompleteOnEOF
  <2> QED
    BY <1>1, <2>1 DEF GeminiStream, OnWire
<1>8. /\ Of(w, b).wire = Tagged(b.wire) /\ Of(w, b).done = b.done /\ Of(w, b).fail = b.fail
  BY <1>2, <1>3 DEF Of
<1>9. /\ Of(w, v).wire = Tagged(v.wire) /\ Of(w, v).out = v.out
      /\ Of(w, v).done = v.done /\ Of(w, v).fail = v.fail
  BY <1>2, <1>3 DEF Of
<1>10. Of(w, y) = [wire |-> w, out |-> evs, fail |-> NoFail]
  BY <1>2, <1>3 DEF Of, w
<1> QED
  BY <1>4, <1>5, <1>6, <1>7, <1>8, <1>9, <1>10 DEF w

\* A part of what passed has passed.
LEMMA PassedPrefix ==
    ASSUME NEW evs \in Seq(G!Events), Passed(evs), NEW n \in 0 .. Len(evs)
    PROVE  SubSeq(evs, 1, n) \in Seq(G!Events) /\ Passed(SubSeq(evs, 1, n))
<1> DEFINE part == SubSeq(evs, 1, n)
<1>1. DOMAIN evs = 1 .. Len(evs) /\ Len(evs) \in Nat /\ n \in Nat
  BY LenProperties
<1>2. \A i \in 1 .. n : evs[i] \in G!Events
  BY <1>1
<1>3. /\ part \in Seq(G!Events) /\ Len(part) = n
      /\ \A i \in 1 .. n : part[i] = evs[i]
  BY <1>1, <1>2, SubSeqProperties
<1> HIDE DEF part
<1>4. DOMAIN part \subseteq DOMAIN evs /\ \A i \in DOMAIN part : part[i] = evs[i]
  BY <1>1, <1>3, LenProperties
<1>5. G!NothingAfterFinish(part)
  BY <1>4 DEF Passed, G!NothingAfterFinish
<1>6. Passed(part)
  BY <1>4, <1>5 DEF Passed
<1> QED
  BY <1>3, <1>6 DEF part

\* What a replay that does not fail by itself leaves with the client.
LEMMA ReplayOutcomes ==
    ASSUME NEW w, NEW evs \in Seq(G!Events), Passed(evs),
           NEW r \in Replays([wire |-> w, out |-> evs, fail |-> NoFail])
    PROVE  /\ r.wire = w /\ r.out \in Seq(G!Events) /\ Passed(r.out)
           /\ \/ r.out = evs /\ r.fail = NoFail
              \/ r.fail = ReplayFailed
<1> DEFINE whole   == [wire |-> w, out |-> evs, fail |-> NoFail]
           part(n) == [whole EXCEPT !.out = SubSeq(@, 1, n), !.fail = ReplayFailed]
<1>1. \A n : part(n).wire = w /\ part(n).out = SubSeq(evs, 1, n) /\ part(n).fail = ReplayFailed
  OBVIOUS
<1>2. whole.wire = w /\ whole.out = evs /\ whole.fail = NoFail
  OBVIOUS
<1>3. r = whole \/ \E n \in 0 .. Len(evs) : r = part(n)
  BY DEF Replays
<1> HIDE DEF whole, part
<1>4. CASE r = whole
  BY <1>2, <1>4
<1>5. CASE r # whole
  <2>1. PICK n \in 0 .. Len(evs) : r = part(n)
    BY <1>3, <1>5
  <2> QED
    BY <1>1, <2>1, PassedPrefix
<1> QED
  BY <1>4, <1>5

\* What the client of a Gemini stream may have been sent: events that passed
\* and, as the end of the response, a terminal error that was delivered.
SentIsValid ==
    /\ sent \in Seq(G!Events)
    /\ \/ Passed(sent)
       \/ /\ phase = "ended" /\ verdict.fail.delivered
          /\ \E before \in Seq(G!Events) : Passed(before) /\ sent = Append(before, G!ErrorTerminal)

\* Until it ends, the wire knows all of the stream and the client has nothing
\* of it or, once it is committed, everything.
GeminiInv ==
    /\ phase \in {"buffering", "live", "ended"}
    /\ wire = Tagged(wire.state) /\ seen \in Seq(G!Events)
    /\ phase # "ended" => WireKnown(wire.state, seen) /\ Passed(seen)
    /\ phase = "buffering" => sent = <<>>
    /\ phase = "live" => sent = seen
    /\ SentIsValid
    /\ Answered => sent = seen /\ Passed(seen) /\ G!CompleteAnswer(seen)

\* It holds of a new stream.
LEMMA GeminiInvInit ==
    ASSUME GeminiStream, Init
    PROVE  GeminiInv
<1>1. /\ phase = "buffering" /\ seen = <<>> /\ sent = <<>>
      /\ wire = Tagged(G!GeminiInit)
  BY DEF Init, GeminiStream, GeminiWireOf, Tagged
<1>2. <<>> \in Seq(G!Events) /\ DOMAIN <<>> = {}
  OBVIOUS
<1>3. Passed(<<>>)
  BY <1>2 DEF Passed, G!NothingAfterFinish
<1>4. WireKnown(G!GeminiInit, <<>>)
  <2> DEFINE w == G!GeminiInit
  <2>1. G!CandidatesOf(<<>>) = {}
    BY <1>2 DEF G!CandidatesOf
  <2>2. w \in GeminiStates /\ ~w.failed /\ ~w.blocked /\ w.finished = 0
    BY DEF G!GeminiInit, GeminiStates
  <2>3. \A i \in G!Index : w.state[i] = "absent"
    BY DEF G!GeminiInit
  <2>4. FinishedIn(w) = {}
    BY <2>3 DEF FinishedIn
  <2>5. w.finished = Cardinality(FinishedIn(w))
    BY <2>2, <2>4, FS_EmptySet
  <2> DEFINE none == <<>>
  <2>6. DOMAIN none = {} /\ G!CandidatesOf(none) = {}
    BY <1>2, <2>1
  <2> HIDE DEF w, none
  <2>7. WireKnown(w, none)
    BY <2>2, <2>3, <2>5, <2>6 DEF WireKnown
  <2> QED
    BY <2>7 DEF w, none
<1>5. wire.state = G!GeminiInit
  BY <1>1 DEF Tagged
<1> QED
  BY <1>1, <1>2, <1>3, <1>4, <1>5 DEF GeminiInv, SentIsValid, Answered

\* A stream that ends with a fault and what it had already sent.
LEMMA GeminiInvEnds ==
    ASSUME GeminiInv, phase # "ended", phase' = "ended", sent' = sent,
           NEW x, wire' = Tagged(x), seen' \in Seq(G!Events),
           verdict'.fail # NoFail
    PROVE  GeminiInv'
<1>1. wire' = Tagged(wire'.state)
  BY DEF Tagged
<1>2. SentIsValid'
  BY DEF GeminiInv, SentIsValid
<1>3. ~Answered'
  BY DEF Answered
<1> QED
  BY <1>1, <1>2, <1>3 DEF GeminiInv

\* Every step of the stream keeps it.
LEMMA GeminiInvNext ==
    ASSUME GeminiStream, GeminiInv, [Next]_vars
    PROVE  GeminiInv'
<1> DEFINE x == wire.state
<1>1. ASSUME NEW ev \in Event, phase # "ended", Arrives(ev),
             NEW b, b = Buffered(wire, ev), NEW v, v = Live(wire, ev)
      PROVE  /\ ev \in G!Events
             /\ seen' = Append(seen, ev) /\ seen' \in Seq(G!Events)
             /\ b.wire = Tagged(b.wire.state) /\ v.wire = Tagged(v.wire.state)
             /\ ~b.done /\ ~v.done
             /\ b.fail = NoFail => WireKnown(b.wire.state, seen') /\ Passed(seen')
             /\ v.fail = NoFail =>
                  WireKnown(v.wire.state, seen') /\ Passed(seen') /\ v.out = <<ev>>
             /\ v.fail # NoFail =>
                  \/ v.out = <<>>
                  \/ v.out = <<ev>> /\ ev = G!ErrorTerminal /\ v.fail.delivered
  <2> DEFINE bx == G!GeminiBuffered(x, ev)
             vx == G!GeminiLive(x, ev)
  <2>1. ev \in G!Events
    BY DEF GeminiStream
  <2>2. seen' = Append(seen, ev) /\ seen' \in Seq(G!Events)
    BY <1>1, <2>1, AppendProperties DEF Arrives, GeminiInv
  <2>3. wire = Tagged(x)
    BY DEF GeminiInv
  <2> HIDE DEF bx, vx
  <2>4. /\ b.wire = Tagged(bx.wire) /\ b.done = bx.done /\ b.fail = bx.fail
        /\ v.wire = Tagged(vx.wire) /\ v.out = vx.out
        /\ v.done = vx.done /\ v.fail = vx.fail
    BY <1>1, <2>3, GeminiOperators DEF bx, vx
  <2>5. b.wire.state = bx.wire /\ v.wire.state = vx.wire
    BY <2>4 DEF Tagged
  <2>6. WireKnown(x, seen) /\ Passed(seen) /\ seen \in Seq(G!Events)
    BY <1>1 DEF GeminiInv
  <2>7. /\ ~bx.done /\ ~vx.done
        /\ bx.fail = NoFail => WireKnown(bx.wire, seen') /\ Passed(seen')
        /\ vx.fail = NoFail =>
             WireKnown(vx.wire, seen') /\ Passed(seen') /\ vx.out = <<ev>>
        /\ vx.fail # NoFail =>
             \/ vx.out = <<>>
             \/ vx.out = <<ev>> /\ ev = G!ErrorTerminal /\ vx.fail.delivered
    BY <2>1, <2>2, <2>6, SameNoFail, GeminiVerdicts DEF bx, vx
  <2> HIDE DEF x
  <2> QED
    BY <2>1, <2>2, <2>4, <2>5, <2>7
<1>2. ASSUME NEW ev \in Event, Buffer(ev)
      PROVE  GeminiInv'
  <2>1. /\ phase = "buffering" /\ Arrives(ev) /\ Buffered(wire, ev).fail = NoFail
        /\ wire' = Buffered(wire, ev).wire /\ phase' = phase /\ sent' = sent
    BY <1>2 DEF Buffer
  <2>2. /\ wire' = Tagged(wire'.state) /\ seen' \in Seq(G!Events)
        /\ WireKnown(wire'.state, seen') /\ Passed(seen')
    BY <1>1, <2>1
  <2>3. SentIsValid'
    BY <2>1 DEF GeminiInv, SentIsValid
  <2> QED
    BY <2>1, <2>2, <2>3 DEF GeminiInv, Answered
<1>3. ASSUME NEW ev \in Event, Answer(ev)
      PROVE  FALSE
  BY <1>1, <1>3 DEF Answer
<1>4. ASSUME NEW ev \in Event, Reject(ev) \/ BreakAt(ev)
      PROVE  GeminiInv'
  <2>1. /\ phase = "buffering" /\ Arrives(ev) /\ sent' = sent /\ phase' = "ended"
        /\ wire' = Buffered(wire, ev).wire
    BY <1>4 DEF Reject, BreakAt, End
  <2>3. verdict'.fail # NoFail
    <3>1. CASE Reject(ev)
      BY <3>1 DEF Reject, End
    <3>2. CASE BreakAt(ev)
      BY <3>2 DEF BreakAt, End, ResponseTooLarge, SpoolError, Terminal, Transient, NoFail
    <3> QED
      BY <1>4, <3>1, <3>2
  <2>4. wire' = Tagged(wire'.state) /\ seen' \in Seq(G!Events)
    BY <1>1, <2>1
  <2> QED
    BY <2>1, <2>3, <2>4, GeminiInvEnds
<1>5. ASSUME NEW ev \in Event, Forward(ev)
      PROVE  GeminiInv'
  <2> DEFINE v == Live(wire, ev)
  <2>1. /\ phase = "live" /\ Arrives(ev) /\ wire' = v.wire /\ sent' = sent \o v.out
        /\ sent = seen /\ seen \in Seq(G!Events) /\ Passed(seen)
    BY <1>5 DEF Forward, GeminiInv
  <2>2. /\ ev \in G!Events /\ seen' = Append(seen, ev) /\ seen' \in Seq(G!Events)
        /\ wire' = Tagged(wire'.state) /\ ~v.done
        /\ v.fail = NoFail => WireKnown(wire'.state, seen') /\ Passed(seen') /\ v.out = <<ev>>
        /\ v.fail # NoFail =>
             \/ v.out = <<>>
             \/ v.out = <<ev>> /\ ev = G!ErrorTerminal /\ v.fail.delivered
    BY <1>1, <2>1
  <2>3. /\ v.out = <<ev>> => sent' = seen'
        /\ v.out = <<>> => sent' = sent
    <3> HIDE DEF v
    <3>1. seen \o <<ev>> = Append(seen, ev)
      BY <2>1, <2>2, AppendIsConcat
    <3>2. seen \o <<>> = seen
      BY <2>1, ConcatEmptySeq
    <3> QED
      BY <2>1, <2>2, <3>1, <3>2
  <2>4. CASE v.fail = NoFail
    <3>1. phase' = "live" /\ sent' = seen'
      BY <1>5, <2>1, <2>2, <2>3, <2>4 DEF Forward
    <3> QED
      BY <2>2, <2>4, <3>1 DEF GeminiInv, SentIsValid, Answered
  <2>5. CASE v.fail # NoFail
    <3>1. phase' = "ended" /\ verdict'.fail = v.fail
      BY <1>5, <2>5 DEF Forward, End
    <3>2. CASE v.out = <<>>
      <4>1. sent' = sent
        BY <2>3, <3>2
      <4> QED
        BY <2>1, <2>2, <2>5, <3>1, <4>1, GeminiInvEnds
    <3>3. CASE v.out = <<ev>> /\ ev = G!ErrorTerminal /\ v.fail.delivered
      <4>1. sent' = Append(seen, G!ErrorTerminal) /\ sent' \in Seq(G!Events)
        BY <2>2, <2>3, <3>3
      <4>2. SentIsValid'
        BY <2>1, <3>1, <3>3, <4>1 DEF SentIsValid
      <4>3. ~Answered'
        BY <2>5, <3>1 DEF Answered
      <4> QED
        BY <2>2, <3>1, <4>2, <4>3 DEF GeminiInv
    <3> QED
      BY <2>2, <2>5, <3>2, <3>3
  <2> QED
    BY <2>4, <2>5
<1>6. ASSUME phase = "buffering"
      PROVE  /\ ReplayPrefix(wire, seen) = [wire |-> wire, out |-> seen, fail |-> NoFail]
             /\ ReplayBuffered(wire, seen) = [wire |-> wire, out |-> seen, fail |-> NoFail]
             /\ sent = <<>> /\ seen \in Seq(G!Events) /\ Passed(seen)
  <2>1. wire = Tagged(x) /\ sent = <<>> /\ seen \in Seq(G!Events) /\ Passed(seen)
    BY <1>6 DEF GeminiInv
  <2> HIDE DEF x
  <2> QED
    BY <2>1, GeminiOperators
<1>7. CASE Commit
  <2>1. phase = "buffering" /\ seen' = seen
    BY <1>7 DEF Commit
  <2>2. PICK r \in Replays(ReplayPrefix(wire, seen)) :
          /\ sent' = sent \o r.out /\ wire' = r.wire
          /\ IF r.fail = NoFail THEN phase' = "live" /\ UNCHANGED verdict ELSE End(TRUE, r.fail)
    BY <1>7 DEF Commit
  <2>3. /\ r.wire = wire /\ r.out \in Seq(G!Events) /\ Passed(r.out)
        /\ \/ r.out = seen /\ r.fail = NoFail
           \/ r.fail = ReplayFailed
    BY <1>6, <2>1, <2>2, ReplayOutcomes
  <2>4. sent' = r.out /\ wire' = wire
    BY <1>6, <2>1, <2>2, <2>3, ConcatEmptySeq
  <2>5. SentIsValid'
    BY <2>3, <2>4 DEF SentIsValid
  <2>6. CASE r.fail = NoFail
    <3>1. ReplayFailed # NoFail
      BY DEF ReplayFailed, NoFail, Transient
    <3>2. phase' = "live" /\ sent' = seen'
      BY <2>1, <2>2, <2>3, <2>4, <2>6, <3>1
    <3> QED
      BY <2>1, <2>4, <2>5, <3>2 DEF GeminiInv, Answered
  <2>7. CASE r.fail # NoFail
    <3>1. phase' = "ended" /\ verdict'.fail # NoFail
      BY <2>2, <2>7 DEF End
    <3> QED
      BY <2>1, <2>4, <2>5, <3>1 DEF GeminiInv, Answered
  <2> QED
    BY <2>6, <2>7
<1>8. CASE AnswerAtEOF
  <2>1. phase # "ended" /\ CompleteOnEOF(wire) /\ wire' = wire /\ seen' = seen
    BY <1>8 DEF AnswerAtEOF
  <2>2. wire = Tagged(x) /\ WireKnown(x, seen) /\ Passed(seen) /\ seen \in Seq(G!Events)
    BY <2>1 DEF GeminiInv
  <2>3. G!CompleteAnswer(seen)
    <3> HIDE DEF x
    <3>1. G!GeminiCompleteOnEOF(x)
      BY <2>1, <2>2, GeminiOperators
    <3> QED
      BY <2>2, <3>1, CompleteIsComplete
  <2>4. CASE phase = "live"
    <3>1. phase' = "ended" /\ sent' = sent /\ sent = seen
      BY <1>8, <2>4 DEF AnswerAtEOF, End, GeminiInv
    <3> QED
      BY <2>1, <2>2, <2>3, <3>1 DEF GeminiInv, SentIsValid, x
  <2>5. CASE phase = "buffering"
    <3>1. PICK r \in Replays(ReplayBuffered(wire, seen)) :
            sent' = sent \o r.out /\ End(TRUE, r.fail)
      BY <1>8, <2>5 DEF AnswerAtEOF
    <3>2. /\ r.out \in Seq(G!Events) /\ Passed(r.out)
          /\ \/ r.out = seen /\ r.fail = NoFail
             \/ r.fail = ReplayFailed
      BY <1>6, <2>5, <3>1, ReplayOutcomes
    <3>3. sent' = r.out /\ phase' = "ended" /\ verdict'.fail = r.fail
      BY <1>6, <2>5, <3>1, <3>2, ConcatEmptySeq DEF End
    <3>4. SentIsValid'
      BY <3>2, <3>3 DEF SentIsValid
    <3>5. Answered' => r.out = seen
      BY <3>2, <3>3 DEF Answered, ReplayFailed, NoFail, Transient
    <3> QED
      BY <2>1, <2>2, <2>3, <3>3, <3>4, <3>5 DEF GeminiInv, x
  <2> QED
    BY <2>1, <2>4, <2>5 DEF GeminiInv
<1>9. CASE Break
  <2>1. PICK f \in Faults : End(phase = "live", f)
    BY <1>9 DEF Break
  <2>2. f # NoFail
    BY DEF Faults, UpstreamIdle, ClientGone, Deadline, TruncatedStream, StreamReadError,
           ResponseTooLarge, SpoolError, Transient, Terminal, NoFail
  <2>3. /\ phase # "ended" /\ phase' = "ended" /\ sent' = sent /\ wire' = wire /\ seen' = seen
        /\ verdict'.fail = f
    BY <1>9, <2>1 DEF Break, End
  <2>4. wire' = Tagged(x) /\ seen' \in Seq(G!Events)
    BY <2>3 DEF GeminiInv
  <2> HIDE DEF x
  <2> QED
    BY <2>2, <2>3, <2>4, GeminiInvEnds
<1>10. CASE Ended \/ UNCHANGED vars
  BY <1>10 DEF Ended, vars, GeminiInv, SentIsValid, Answered
<1> QED
  BY <1>2, <1>3, <1>4, <1>5, <1>7, <1>8, <1>9, <1>10 DEF Next

\* An answered Gemini stream is complete, with every event of it delivered, for
\* every number of candidates and every stream (gemini.go, completeOnEOF and the
\* accounting of accept behind it).
THEOREM GeminiAnswersAreComplete == ASSUME GeminiStream PROVE Spec => []AnswerIsComplete
<1>1. Init => GeminiInv
  BY GeminiInvInit
<1>2. GeminiInv /\ [Next]_vars => GeminiInv'
  BY GeminiInvNext
<1>3. GeminiInv => AnswerIsComplete
  BY DEF GeminiInv, AnswerIsComplete, Passed
<1> QED
  BY <1>1, <1>2, <1>3, PTL DEF Spec

\* What a client of a Gemini stream is sent: valid events, and after them at
\* most the one terminal error that ended the stream (gemini.go, live).
LEMMA ValidIsForwarded ==
    ASSUME GeminiInv
    PROVE  OnlyValidForwarded
<1>1. phase = "live" => sent = seen
  BY DEF GeminiInv
<1> DEFINE Valid ==
      /\ G!NothingAfterFinish(sent)
      /\ \A i \in DOMAIN sent :
           /\ sent[i] \notin {G!ErrorTransient, G!NotJSON}
           /\ sent[i] = G!ErrorTerminal =>
                i = Len(sent) /\ phase = "ended" /\ verdict.fail.delivered
<1>2. ASSUME NEW evs, Passed(evs)
      PROVE  \A i \in DOMAIN evs :
               evs[i] \notin {G!ErrorTransient, G!NotJSON, G!ErrorTerminal}
  BY <1>2 DEF Passed, G!ErrorTransient, G!NotJSON, G!ErrorTerminal, G!Plain
<1>3. ASSUME Passed(sent)
      PROVE  Valid
  BY <1>2, <1>3 DEF Passed
<1>4. ASSUME phase = "ended", verdict.fail.delivered,
             NEW before \in Seq(G!Events), Passed(before),
             sent = Append(before, G!ErrorTerminal)
      PROVE  Valid
  <2>1. /\ DOMAIN before = 1 .. Len(before) /\ Len(before) \in Nat
        /\ DOMAIN sent = 1 .. Len(before) + 1 /\ Len(sent) = Len(before) + 1
        /\ sent[Len(before) + 1] = G!ErrorTerminal
        /\ \A i \in 1 .. Len(before) : sent[i] = before[i]
    <3>1. G!ErrorTerminal \in G!Events
      BY DEF G!ErrorTerminal, G!Plain, G!Events
    <3> QED
      BY <1>4, <3>1, LenProperties, AppendProperties
  <2>2. \A i \in DOMAIN sent :
          /\ sent[i] \notin {G!ErrorTransient, G!NotJSON}
          /\ sent[i] = G!ErrorTerminal => i = Len(sent)
    <3>1. G!ErrorTerminal \notin {G!ErrorTransient, G!NotJSON}
      BY DEF G!ErrorTerminal, G!ErrorTransient, G!NotJSON, G!Plain
    <3> QED
      BY <1>2, <1>4, <2>1, <3>1
  <2>3. ToSet(G!ErrorTerminal.candidates) = {}
    BY DEF G!ErrorTerminal, G!Plain, ToSet
  <2>4. ASSUME NEW i \in DOMAIN sent, NEW j \in DOMAIN sent, i < j,
               NEW c \in ToSet(sent[i].candidates), NEW d \in ToSet(sent[j].candidates),
               c.index = d.index /\ c.finish
        PROVE  ~d.content
    <3>1. i \in DOMAIN before /\ j \in DOMAIN before
      BY <2>1, <2>3, <2>4
    <3>2. sent[i] = before[i] /\ sent[j] = before[j]
      BY <2>1, <3>1
    <3> QED
      BY <1>4, <2>4, <3>1, <3>2 DEF Passed, G!NothingAfterFinish, G!ToSet, ToSet
  <2>5. G!NothingAfterFinish(sent)
    BY <2>4 DEF G!NothingAfterFinish, G!ToSet, ToSet
  <2> QED
    BY <1>4, <2>2, <2>5
<1>5. Valid
  <2> HIDE DEF Valid
  <2> QED
    BY <1>3, <1>4 DEF GeminiInv, SentIsValid
<1> QED
  BY <1>1, <1>5 DEF OnlyValidForwarded

\* Nothing invalid is forwarded on a committed Gemini stream, and only its last
\* frame may be an error (gemini.go, live).
THEOREM GeminiForwardsOnlyValid == ASSUME GeminiStream PROVE Spec => []OnlyValidForwarded
<1>1. Init => GeminiInv
  BY GeminiInvInit
<1>2. GeminiInv /\ [Next]_vars => GeminiInv'
  BY GeminiInvNext
<1>3. GeminiInv => OnlyValidForwarded
  BY ValidIsForwarded
<1> QED
  BY <1>1, <1>2, <1>3, PTL DEF Spec

-----------------------------------------------------------------------------
(* The Responses wire: what joining does to the text                       *)

\* The facts about folds and flattened sequences, for the coalescer's step.
PiecesOf(key, ev) == R!Pieces(ev)

RS == INSTANCE SequenceInduction WITH Op <- R!CoalescerAccept, Part <- PiecesOf

\* The instance's operators are the ones its theorems speak of.
LEMMA SameFlatten == \A ss : R!FlattenSeq(ss) = RS!FlattenSeq(ss)
BY Zenon DEF R!FlattenSeq, RS!FlattenSeq

\* The coalescer takes in a stream event by event.
LEMMA CoalesceIsFold ==
    \A ss : R!FoldLeft(R!CoalescerAccept, R!NewCoalescer, ss) = RS!Fold(R!NewCoalescer, ss)
BY Zenon DEF R!FoldLeft, RS!Fold, RS!FoldLeft, RS!MapThenFoldSet, R!MapThenFoldSet,
             R!Max, RS!Max

\* What a member of Events looks like.
LEMMA ResponsesEventShape ==
    ASSUME NEW Route, NEW Token, NEW ev \in R!Events(Route, Token)
    PROVE  /\ ev.text \in Seq(Token)
           /\ ev.kind = "text" => ev.route \in Route /\ ev = R!Text(ev.route, ev.text)
           /\ ev.kind = "completed" <=> ev = R!Completed
           /\ ev.kind = "error_native" <=> ev = R!ErrorNative
           /\ ev.kind = "error_transient" <=> ev = R!ErrorTransient
           /\ ev.kind = "error_terminal" <=> ev = R!ErrorTerminal
           /\ ev.kind = "bad_completed" <=> ev = R!BadCompleted
<1>1. CASE \E r \in Route, t \in Seq(Token) : ev = R!Text(r, t)
  BY <1>1 DEF R!Text, R!Plain, R!Completed, R!BadCompleted, R!ErrorTransient,
     R!ErrorTerminal, R!ErrorNative
<1>2. CASE \E r \in Route, t \in Seq(Token) : ev = R!OpaqueText(r, t)
  BY <1>2 DEF R!OpaqueText, R!Plain, R!Completed, R!BadCompleted, R!ErrorTransient,
     R!ErrorTerminal, R!ErrorNative
<1>3. CASE ev \in {R!Meta, R!Output, R!Completed, R!BadCompleted, R!ErrorTransient,
                   R!ErrorTerminal, R!ErrorNative}
  <2>1. <<>> \in Seq(Token)
    OBVIOUS
  <2>2. ASSUME NEW k, NEW l
        PROVE  R!Plain(k).kind = k /\ R!Plain(k).text = <<>> /\ (R!Plain(k) = R!Plain(l) <=> k = l)
    BY DEF R!Plain
  <2>3. PICK k \in {"meta", "output", "completed", "bad_completed", "error_transient",
                    "error_terminal", "error_native"} : ev = R!Plain(k)
    BY <1>3 DEF R!Meta, R!Output, R!Completed, R!BadCompleted, R!ErrorTransient,
       R!ErrorTerminal, R!ErrorNative
  <2>4. ev.kind = k /\ ev.text = <<>>
    BY <2>2, <2>3
  <2>5. \A l : ev = R!Plain(l) <=> k = l
    BY <2>2, <2>3
  <2> QED
    BY <2>1, <2>4, <2>5 DEF R!Completed, R!BadCompleted, R!ErrorTransient,
       R!ErrorTerminal, R!ErrorNative
<1> QED
  <2>1. \/ ev \in {R!Text(r, t) : r \in Route, t \in Seq(Token)}
        \/ ev \in {R!OpaqueText(r, t) : r \in Route, t \in Seq(Token)}
        \/ ev \in {R!Meta, R!Output, R!Completed, R!BadCompleted, R!ErrorTransient,
                   R!ErrorTerminal, R!ErrorNative}
    BY DEF R!Events
  <2> QED
    BY <1>1, <1>2, <1>3, <2>1

\* A joined delta is an event of the wire again.
LEMMA TextIsEvent ==
    ASSUME NEW Route, NEW Token, NEW r \in Route, NEW t \in Seq(Token)
    PROVE  R!Text(r, t) \in R!Events(Route, Token)
BY DEF R!Events

\* The tokens of an event are events, deltas of one token each.
LEMMA PiecesAreEvents ==
    ASSUME NEW Route, NEW Token, NEW ev \in R!Events(Route, Token)
    PROVE  R!Pieces(ev) \in Seq(R!Events(Route, Token))
<1> DEFINE S == R!Events(Route, Token)
<1>1. CASE ev.kind = "text"
  <2>1. ev.text \in Seq(Token) /\ ev.route \in Route
    BY <1>1, ResponsesEventShape
  <2>2. /\ DOMAIN ev.text = 1 .. Len(ev.text) /\ Len(ev.text) \in Nat
        /\ \A j \in 1 .. Len(ev.text) : ev.text[j] \in Token
    BY <2>1, LenProperties
  <2>3. \A j \in 1 .. Len(ev.text) : R!Text(ev.route, <<ev.text[j]>>) \in S
    <3>1. \A j \in 1 .. Len(ev.text) : <<ev.text[j]>> \in Seq(Token)
      BY <2>2
    <3> HIDE DEF S
    <3> QED
      BY <2>1, <3>1, TextIsEvent DEF S
  <2>4. R!Pieces(ev) = [j \in 1 .. Len(ev.text) |-> R!Text(ev.route, <<ev.text[j]>>)]
    BY <1>1, <2>2 DEF R!Pieces
  <2> HIDE DEF S
  <2> QED
    BY <2>2, <2>3, <2>4 DEF S
<1>2. CASE ev.kind # "text"
  BY <1>2 DEF R!Pieces
<1> QED
  BY <1>1, <1>2

\* (A name for concatenation, which keeps it out of the way of the prover.)
Joins(st, s, t) == st = s \o t

\* Joining two deltas joins their tokens.
LEMMA PiecesOfJoined ==
    ASSUME NEW Route, NEW Token, NEW r \in Route, NEW s \in Seq(Token), NEW t \in Seq(Token),
           NEW st, Joins(st, s, t)
    PROVE  Joins(R!Pieces(R!Text(r, st)), R!Pieces(R!Text(r, s)), R!Pieces(R!Text(r, t)))
<1> DEFINE S == R!Events(Route, Token)
           P(u) == [j \in 1 .. Len(u) |-> R!Text(r, <<u[j]>>)]
<1>1. ASSUME NEW u \in Seq(Token)
      PROVE  /\ R!Pieces(R!Text(r, u)) = P(u) /\ P(u) \in Seq(S) /\ Len(P(u)) = Len(u)
             /\ Len(u) \in Nat
  <2>1. R!Text(r, u).kind = "text" /\ R!Text(r, u).text = u /\ R!Text(r, u).route = r
    BY DEF R!Text
  <2>2. DOMAIN u = 1 .. Len(u) /\ Len(u) \in Nat
    BY LenProperties
  <2>3. R!Pieces(R!Text(r, u)) = P(u)
    BY <2>1, <2>2, Zenon DEF R!Pieces
  <2>4. P(u) \in Seq(S)
    <3>1. R!Text(r, u) \in S
      BY TextIsEvent
    <3> QED
      BY <2>3, <3>1, PiecesAreEvents
  <2> QED
    BY <2>2, <2>3, <2>4
<1>2. /\ s \o t \in Seq(Token) /\ Len(s \o t) = Len(s) + Len(t)
      /\ \A i \in 1 .. Len(s) + Len(t) : (s \o t)[i] = IF i <= Len(s) THEN s[i] ELSE t[i - Len(s)]
  BY ConcatProperties
<1>0. st = s \o t
  BY DEF Joins
<1>3. P(s \o t) = P(s) \o P(t)
  <2>1. P(s) \o P(t) \in Seq(S) /\ Len(P(s) \o P(t)) = Len(s) + Len(t)
    BY <1>1, ConcatProperties
  <2>2. P(s \o t) \in Seq(S) /\ Len(P(s \o t)) = Len(s) + Len(t)
    BY <1>1, <1>2
  <2>3. ASSUME NEW i \in 1 .. Len(s) + Len(t)
        PROVE  P(s \o t)[i] = (P(s) \o P(t))[i]
    <3>1. P(s \o t)[i] = R!Text(r, <<(s \o t)[i]>>)
      BY <1>2
    <3>2. (P(s) \o P(t))[i] = IF i <= Len(s) THEN P(s)[i] ELSE P(t)[i - Len(s)]
      <4>1. P(s) \in Seq(S) /\ P(t) \in Seq(S) /\ Len(P(s)) = Len(s) /\ Len(P(t)) = Len(t)
        BY <1>1
      <4> HIDE DEF P
      <4> QED
        BY <4>1, ConcatProperties
    <3>3. CASE i <= Len(s)
      BY <1>1, <1>2, <3>1, <3>2, <3>3
    <3>4. CASE ~(i <= Len(s))
      <4>1. i - Len(s) \in 1 .. Len(t)
        BY <1>1, <3>4
      <4> QED
        BY <1>2, <3>1, <3>2, <3>4, <4>1
    <3> QED
      BY <3>3, <3>4
  <2> HIDE DEF P, S
  <2> QED
    BY <2>1, <2>2, <2>3, SeqEqual
<1> QED
  BY <1>0, <1>1, <1>2, <1>3, Zenon DEF Joins

\* Tokens, of a longer stream.
Split(frames) == [i \in DOMAIN frames |-> R!Pieces(frames[i])]

\* Tokens flattens the pieces of the frames.
LEMMA SplitIsSeq ==
    ASSUME NEW Route, NEW Token, NEW fs \in Seq(R!Events(Route, Token))
    PROVE  /\ Split(fs) \in Seq(Seq(R!Events(Route, Token))) /\ Len(Split(fs)) = Len(fs)
           /\ \A i \in 1 .. Len(fs) : Split(fs)[i] = R!Pieces(fs[i])
           /\ R!Tokens(fs) = RS!FlattenSeq(Split(fs))
<1> DEFINE S == R!Events(Route, Token)
<1>1. /\ DOMAIN fs = 1 .. Len(fs) /\ Len(fs) \in Nat
      /\ \A i \in 1 .. Len(fs) : fs[i] \in S
  BY LenProperties
<1>2. \A i \in 1 .. Len(fs) : R!Pieces(fs[i]) \in Seq(S)
  BY <1>1, PiecesAreEvents
<1>3. Split(fs) = [i \in 1 .. Len(fs) |-> R!Pieces(fs[i])]
  BY <1>1 DEF Split
<1> HIDE DEF S
<1>4. Split(fs) \in Seq(Seq(S)) /\ Len(Split(fs)) = Len(fs)
  BY <1>1, <1>2, <1>3
<1>5. R!Tokens(fs) = RS!FlattenSeq(Split(fs))
  BY SameFlatten DEF R!Tokens, Split
<1> QED
  BY <1>3, <1>4, <1>5 DEF S

\* A frame more adds its pieces.
LEMMA TokensAppend ==
    ASSUME NEW Route, NEW Token, NEW fs \in Seq(R!Events(Route, Token)),
           NEW ev \in R!Events(Route, Token)
    PROVE  /\ R!Tokens(fs) \in Seq(R!Events(Route, Token))
           /\ R!Tokens(Append(fs, ev)) = R!Tokens(fs) \o R!Pieces(ev)
<1> DEFINE S == R!Events(Route, Token)
<1>1. /\ Append(fs, ev) \in Seq(S) /\ Len(Append(fs, ev)) = Len(fs) + 1
      /\ Append(fs, ev)[Len(fs) + 1] = ev /\ Len(fs) \in Nat
      /\ \A i \in 1 .. Len(fs) : Append(fs, ev)[i] = fs[i]
  BY AppendProperties, LenProperties
<1>2. R!Pieces(ev) \in Seq(S)
  BY PiecesAreEvents
<1>3. /\ Split(fs) \in Seq(Seq(S)) /\ Len(Split(fs)) = Len(fs)
      /\ \A i \in 1 .. Len(fs) : Split(fs)[i] = R!Pieces(fs[i])
      /\ R!Tokens(fs) = RS!FlattenSeq(Split(fs))
  BY SplitIsSeq
<1>4. /\ Split(Append(fs, ev)) \in Seq(Seq(S)) /\ Len(Split(Append(fs, ev))) = Len(fs) + 1
      /\ \A i \in 1 .. Len(fs) + 1 : Split(Append(fs, ev))[i] = R!Pieces(Append(fs, ev)[i])
      /\ R!Tokens(Append(fs, ev)) = RS!FlattenSeq(Split(Append(fs, ev)))
  BY <1>1, SplitIsSeq
<1>5. Split(Append(fs, ev)) = Append(Split(fs), R!Pieces(ev))
  <2>1. /\ Append(Split(fs), R!Pieces(ev)) \in Seq(Seq(S))
        /\ Len(Append(Split(fs), R!Pieces(ev))) = Len(fs) + 1
        /\ Append(Split(fs), R!Pieces(ev))[Len(fs) + 1] = R!Pieces(ev)
        /\ \A i \in 1 .. Len(fs) : Append(Split(fs), R!Pieces(ev))[i] = Split(fs)[i]
    BY <1>2, <1>3, AppendProperties
  <2>2. \A i \in 1 .. Len(fs) + 1 :
          Append(Split(fs), R!Pieces(ev))[i] = Split(Append(fs, ev))[i]
    BY <1>1, <1>3, <1>4, <2>1
  <2> HIDE DEF S
  <2> QED
    BY <1>4, <2>1, <2>2, SeqEqual
<1> HIDE DEF S
<1> QED
  BY <1>2, <1>3, <1>4, <1>5, RS!FlattenAppend DEF S

\* What the client reads is a sequence of events.
LEMMA TokensAreEvents ==
    ASSUME NEW Route, NEW Token, NEW fs \in Seq(R!Events(Route, Token))
    PROVE  R!Tokens(fs) \in Seq(R!Events(Route, Token))
<1> DEFINE S == R!Events(Route, Token)
<1>1. Split(fs) \in Seq(Seq(S)) /\ R!Tokens(fs) = RS!FlattenSeq(Split(fs))
  BY SplitIsSeq
<1>2. <<>> \in Seq(S)
  OBVIOUS
<1> HIDE DEF S
<1> QED
  BY <1>1, <1>2, RS!FlattenAppend DEF S

\* A sequence is a prefix of what continues it.
LEMMA PrefixOfConcat ==
    ASSUME NEW S, NEW s \in Seq(S), NEW t \in Seq(S)
    PROVE  IsPrefix(s, s \o t)
<1> DEFINE u == s \o t
<1>1. /\ u \in Seq(S) /\ Len(u) = Len(s) + Len(t) /\ Len(s) \in Nat /\ Len(t) \in Nat
      /\ \A i \in 1 .. Len(s) : u[i] = s[i] /\ s[i] \in S
  BY ConcatProperties, LenProperties
<1> HIDE DEF u
<1>2. SubSeq(s, 1, Len(s)) = SubSeq(u, 1, Len(s))
  BY <1>1
<1> QED
  BY <1>1, <1>2 DEF IsPrefix, u

\* Nothing is read of nothing.
LEMMA TokensEmpty == R!Tokens(<<>>) = <<>>
<1> DEFINE none == <<>>
<1>1. none \in Seq(R!Events({}, {})) /\ Len(none) = 0
  OBVIOUS
<1> HIDE DEF none
<1>2. Split(none) \in Seq(Seq(R!Events({}, {}))) /\ Len(Split(none)) = 0
      /\ R!Tokens(none) = RS!FlattenSeq(Split(none))
  BY <1>1, SplitIsSeq
<1>3. Split(none) = <<>>
  BY <1>2, EmptySeq
<1> QED
  BY <1>2, <1>3, RS!FlattenEmpty DEF none

\* Two streams in a row are read one after the other.
LEMMA TokensConcat ==
    ASSUME NEW Route, NEW Token, NEW fs \in Seq(R!Events(Route, Token)),
           NEW gs \in Seq(R!Events(Route, Token))
    PROVE  R!Tokens(fs \o gs) = R!Tokens(fs) \o R!Tokens(gs)
<1> DEFINE S == R!Events(Route, Token)
           N == {us \in Seq(S) : R!Tokens(fs \o us) = R!Tokens(fs) \o R!Tokens(us)}
<1>1. <<>> \in N
  BY TokensEmpty, TokensAppend, ConcatEmptySeq, EmptySeq
<1>2. ASSUME NEW us \in Seq(S), NEW e \in S, us \in N
      PROVE  Append(us, e) \in N
  <2>1. R!Tokens(fs \o us) = R!Tokens(fs) \o R!Tokens(us)
    BY <1>2
  <2>0. fs \o us \in Seq(S)
    OBVIOUS
  <2>2. fs \o Append(us, e) = Append(fs \o us, e)
    OBVIOUS
  <2>3. R!Tokens(Append(fs \o us, e)) = R!Tokens(fs \o us) \o R!Pieces(e)
    <3> DEFINE fus == fs \o us
    <3> HIDE DEF N, fus
    <3>1. fus \in Seq(S)
      BY <2>0 DEF fus
    <3>2. R!Tokens(Append(fus, e)) = R!Tokens(fus) \o R!Pieces(e)
      BY <3>1, TokensAppend
    <3> QED
      BY <3>2 DEF fus
  <2>4. /\ R!Tokens(Append(us, e)) = R!Tokens(us) \o R!Pieces(e)
        /\ R!Tokens(us) \in Seq(S) /\ R!Tokens(fs) \in Seq(S) /\ R!Pieces(e) \in Seq(S)
    BY TokensAppend, PiecesAreEvents
  <2>5. (R!Tokens(fs) \o R!Tokens(us)) \o R!Pieces(e)
          = R!Tokens(fs) \o (R!Tokens(us) \o R!Pieces(e))
    <3> HIDE DEF N, S
    <3> QED
      BY <2>4, ConcatAssociative
  <2> HIDE DEF S
  <2> QED
    BY <2>1, <2>2, <2>3, <2>4, <2>5, AppendProperties
<1>3. Seq(S) \subseteq N
  <2> HIDE DEF N, S
  <2> QED
    BY <1>1, <1>2, RS!SequencesByAppend
<1> QED
  BY <1>3

-----------------------------------------------------------------------------
(* The coalescer *)

\* The states of the coalescer: at most one delta is being collected.
Coalescers(S) ==
    {c \in [out: Seq(S), pending: Seq(S)] :
        /\ c.pending = <<>> \/ Len(c.pending) = 1
        /\ c.pending # <<>> => c.pending[1].kind = "text"}

\* A pending delta that takes in another one stays an event, and has the pieces
\* of both.
LEMMA JoinedDelta ==
    ASSUME NEW Route, NEW Token, NEW g \in R!Events(Route, Token),
           NEW ev \in R!Events(Route, Token), g.kind = "text", ev.kind = "text",
           ev.route = g.route, NEW text, Joins(text, g.text, ev.text),
           NEW j, j = [g EXCEPT !.text = text]
    PROVE  /\ j \in R!Events(Route, Token) /\ j.kind = "text"
           /\ Joins(R!Pieces(j), R!Pieces(g), R!Pieces(ev))
<1>1. PICK r \in Route, s \in Seq(Token) : g = R!Text(r, s)
  BY ResponsesEventShape
<1>2. PICK t \in Seq(Token) : ev = R!Text(r, t)
  <2>1. g.route = r
    BY <1>1 DEF R!Text
  <2> QED
    BY <2>1, ResponsesEventShape
<1>3. g.text = s /\ ev.text = t /\ j = R!Text(r, text)
  BY <1>1, <1>2 DEF R!Text
<1>4. text \in Seq(Token)
  BY <1>3, ConcatProperties DEF Joins
<1>5. j \in R!Events(Route, Token) /\ j.kind = "text"
  <2>1. R!Text(r, text) \in R!Events(Route, Token)
    BY <1>4, TextIsEvent
  <2> QED
    BY <1>3, <2>1 DEF R!Text
<1>6. Joins(R!Pieces(R!Text(r, text)), R!Pieces(R!Text(r, s)), R!Pieces(R!Text(r, t)))
  BY <1>3, PiecesOfJoined
<1> QED
  BY <1>1, <1>2, <1>3, <1>5, <1>6, Zenon

\* One stream is the other but for its last frame, a delta.
LastGrows(S, old, new) ==
    \E before \in Seq(S), g, j \in S :
        j.kind = "text" /\ old = Append(before, g) /\ new = Append(before, j)

\* Every event taken in extends the client's text by its own, by a frame of its
\* own or in the last one.
LEMMA CoalescerKeeps ==
    ASSUME NEW Route, NEW Token, NEW c \in Coalescers(R!Events(Route, Token)),
           NEW ev \in R!Events(Route, Token)
    PROVE  /\ R!CoalescerAccept(c, ev) \in Coalescers(R!Events(Route, Token))
           /\ Joins(R!Tokens(R!Flushed(R!CoalescerAccept(c, ev))),
                    R!Tokens(R!Flushed(c)), R!Pieces(ev))
           /\ ev.kind # "text" =>
                R!Flushed(R!CoalescerAccept(c, ev)) = Append(R!Flushed(c), ev)
           /\ \/ R!Flushed(R!CoalescerAccept(c, ev)) = Append(R!Flushed(c), ev)
              \/ LastGrows(R!Events(Route, Token), R!Flushed(c),
                           R!Flushed(R!CoalescerAccept(c, ev)))
<1> DEFINE S == R!Events(Route, Token)
           d == R!CoalescerAccept(c, ev)
<1>0. /\ c = [out |-> c.out, pending |-> c.pending]
      /\ c.out \in Seq(S) /\ c.pending \in Seq(S)
      /\ c.pending = <<>> \/ Len(c.pending) = 1
      /\ c.pending # <<>> => c.pending[1].kind = "text"
      /\ R!Flushed(c) = c.out \o c.pending /\ R!Flushed(c) \in Seq(S)
  BY ConcatProperties DEF Coalescers, R!Flushed
<1>00. R!Flushed(c) \in Seq(S)
  BY <1>0
<1>1. ASSUME NEW o, o \in Seq(S),
             NEW p, p = <<>> \/ (p \in Seq(S) /\ Len(p) = 1 /\ p[1].kind = "text")
      PROVE  /\ [out |-> o, pending |-> p] \in Coalescers(S)
             /\ R!Flushed([out |-> o, pending |-> p]) = o \o p
  BY <1>1, EmptySeq DEF Coalescers, R!Flushed
<1>2. CASE ~R!Joinable(ev)
  <2>1. d = [out |-> Append(R!Flushed(c), ev), pending |-> <<>>]
    BY <1>2 DEF R!CoalescerAccept
  <2>2. Append(R!Flushed(c), ev) \in Seq(S)
    BY <1>0, AppendProperties
  <2>3. d \in Coalescers(S) /\ R!Flushed(d) = Append(R!Flushed(c), ev)
    <3> HIDE DEF d, S
    <3> QED
      BY <1>1, <2>1, <2>2, ConcatEmptySeq
  <2>4. R!Tokens(Append(R!Flushed(c), ev)) = R!Tokens(R!Flushed(c)) \o R!Pieces(ev)
    BY <1>00, TokensAppend
  <2> QED
    BY <2>3, <2>4 DEF Joins
<1>3. ASSUME R!Joinable(ev)
      PROVE  ev.kind = "text" /\ ev.route \in Route /\ ev.text \in Seq(Token)
             /\ ev = R!Text(ev.route, ev.text)
  BY <1>3, ResponsesEventShape DEF R!Joinable
<1>4. CASE R!Joinable(ev) /\ c.pending # <<>> /\ R!Fits(Head(c.pending), ev)
  <2> DEFINE g == c.pending[1]
             j == [g EXCEPT !.text = g.text \o ev.text]
  <2>1. /\ Len(c.pending) = 1 /\ g \in S /\ c.pending = <<g>> /\ Head(c.pending) = g
        /\ g.kind = "text"
    BY <1>0, <1>4
  <2>2. ev.route = g.route
    BY <1>4, <2>1 DEF R!Fits
  <2>6. d = [out |-> c.out, pending |-> <<j>>]
    <3>1. d = [c EXCEPT !.pending = [c.pending EXCEPT ![1] = j]]
      BY <1>4 DEF R!CoalescerAccept
    <3>2. [c.pending EXCEPT ![1] = j] = <<j>>
      <4> HIDE DEF g, j
      <4> QED
        BY <2>1
    <3> HIDE DEF j, g
    <3> QED
      BY <1>0, <3>1, <3>2
  <2>7. j \in S /\ j.kind = "text" /\ Joins(R!Pieces(j), R!Pieces(g), R!Pieces(ev))
    <3> DEFINE text == g.text \o ev.text
    <3>1. ev.kind = "text" /\ g \in S /\ g.kind = "text" /\ ev.route = g.route
      BY <1>3, <1>4, <2>1, <2>2
    <3>2. j = [g EXCEPT !.text = text] /\ Joins(text, g.text, ev.text)
      BY DEF Joins
    <3> HIDE DEF g, j, text
    <3> QED
      BY <3>1, <3>2, JoinedDelta
  <2> HIDE DEF j, g, d, S
  <2>9. /\ d \in Coalescers(S) /\ R!Flushed(d) = Append(c.out, j)
        /\ R!Flushed(c) = Append(c.out, g)
    <3>1. <<j>> \in Seq(S) /\ Len(<<j>>) = 1 /\ <<j>>[1] = j
      BY <2>7
    <3>2. c.out \o <<j>> = Append(c.out, j) /\ c.out \o <<g>> = Append(c.out, g)
      BY <1>0, <2>1, <2>7, AppendIsConcat
    <3> QED
      BY <1>0, <1>1, <2>1, <2>6, <2>7, <3>1, <3>2
  <2>10. /\ R!Tokens(Append(c.out, j)) = R!Tokens(c.out) \o R!Pieces(j)
         /\ R!Tokens(Append(c.out, g)) = R!Tokens(c.out) \o R!Pieces(g)
         /\ R!Tokens(c.out) \in Seq(S)
    <3>1. c.out \in Seq(S) /\ g \in S /\ j \in S
      BY <1>0, <2>1, <2>7
    <3> QED
      BY <3>1, TokensAppend DEF S
  <2>11. R!Pieces(g) \in Seq(S) /\ R!Pieces(ev) \in Seq(S)
    BY <2>1, PiecesAreEvents DEF S
  <2>12. (R!Tokens(c.out) \o R!Pieces(g)) \o R!Pieces(ev)
           = R!Tokens(c.out) \o (R!Pieces(g) \o R!Pieces(ev))
    BY <2>10, <2>11, ConcatAssociative
  <2>13. LastGrows(S, R!Flushed(c), R!Flushed(d))
    BY <1>0, <2>1, <2>7, <2>9 DEF LastGrows
  <2> QED
    BY <1>3, <1>4, <2>13, <2>7, <2>9, <2>10, <2>12 DEF d, S, Joins
<1>5. CASE R!Joinable(ev) /\ ~(c.pending # <<>> /\ R!Fits(Head(c.pending), ev))
  <2>1. d = [out |-> R!Flushed(c), pending |-> <<ev>>]
    BY <1>5 DEF R!CoalescerAccept
  <2>2. ev.kind = "text"
    BY <1>3, <1>5
  <2> HIDE DEF d, S
  <2>3. d \in Coalescers(S) /\ R!Flushed(d) = Append(R!Flushed(c), ev)
    <3>1. <<ev>> \in Seq(S) /\ Len(<<ev>>) = 1 /\ <<ev>>[1] = ev
      BY DEF S
    <3>2. R!Flushed(c) \o <<ev>> = Append(R!Flushed(c), ev)
      BY <1>0, AppendIsConcat DEF S
    <3> QED
      BY <1>0, <1>1, <2>1, <2>2, <3>1, <3>2
  <2>4. R!Tokens(Append(R!Flushed(c), ev)) = R!Tokens(R!Flushed(c)) \o R!Pieces(ev)
    BY <1>00, TokensAppend DEF S
  <2> QED
    BY <2>2, <2>3, <2>4 DEF d, S, Joins
<1> QED
  BY <1>2, <1>4, <1>5

\* Kinds of frames that neither end a stream nor fail it.
Passing  == {"text", "opaque_text", "meta", "output"}
Sendable == Passing \cup {"completed", "bad_completed", "error_terminal", "error_native"}

\* All frames of a stream are of the kinds K.
KindsIn(frames, K) == \A i \in DOMAIN frames : frames[i].kind \in K

\* The kinds of a stream are those of its frames.
LEMMA KindsAppended ==
    ASSUME NEW S, NEW K, NEW fs \in Seq(S), NEW e \in S
    PROVE  KindsIn(Append(fs, e), K) <=> KindsIn(fs, K) /\ e.kind \in K
<1>1. /\ DOMAIN fs = 1 .. Len(fs) /\ Len(fs) \in Nat /\ DOMAIN Append(fs, e) = 1 .. Len(fs) + 1
      /\ Append(fs, e)[Len(fs) + 1] = e
      /\ \A i \in 1 .. Len(fs) : Append(fs, e)[i] = fs[i]
  BY AppendProperties, LenProperties
<1>2. DOMAIN Append(fs, e) = DOMAIN fs \cup {Len(fs) + 1}
  BY <1>1
<1> QED
  BY <1>1, <1>2 DEF KindsIn

\* What the coalescer has taken in so far, whole and in order.
LEMMA CoalescerFolds ==
    ASSUME NEW Route, NEW Token, NEW fs \in Seq(R!Events(Route, Token)),
           NEW c, c = RS!Fold(R!NewCoalescer, fs)
    PROVE  /\ c \in Coalescers(R!Events(Route, Token))
           /\ R!Tokens(R!Flushed(c)) = R!Tokens(fs)
           /\ \A K \in SUBSET Sendable :
                "text" \in K /\ KindsIn(fs, K) => KindsIn(R!Flushed(c), K)
<1> DEFINE S == R!Events(Route, Token)
           f(us) == RS!Fold(R!NewCoalescer, us)
           N == {us \in Seq(S) :
                   /\ f(us) \in Coalescers(S)
                   /\ R!Tokens(R!Flushed(f(us))) = R!Tokens(us)
                   /\ \A K \in SUBSET Sendable :
                        "text" \in K /\ KindsIn(us, K) => KindsIn(R!Flushed(f(us)), K)}
<1>1. <<>> \in N
  <2>1. f(<<>>) = R!NewCoalescer
    BY RS!FoldEmpty
  <2>2. R!Flushed(R!NewCoalescer) = <<>>
    BY DEF R!Flushed, R!NewCoalescer
  <2>3. R!NewCoalescer \in Coalescers(S)
    BY EmptySeq DEF R!NewCoalescer, Coalescers
  <2>4. <<>> \in Seq(S)
    OBVIOUS
  <2>5. \A K : KindsIn(<<>>, K)
    BY DEF KindsIn
  <2> HIDE DEF S, f
  <2> QED
    BY <2>1, <2>2, <2>3, <2>4, <2>5
<1>2. ASSUME NEW us \in Seq(S), NEW e \in S, us \in N
      PROVE  Append(us, e) \in N
  <2> DEFINE x == f(us)
             y == f(Append(us, e))
  <2>1. y = R!CoalescerAccept(x, e)
    BY RS!FoldAppend
  <2>2. /\ x \in Coalescers(S) /\ R!Tokens(R!Flushed(x)) = R!Tokens(us)
        /\ \A K \in SUBSET Sendable : "text" \in K /\ KindsIn(us, K) => KindsIn(R!Flushed(x), K)
    BY <1>2
  <2> HIDE DEF x, y, f
  <2>3. /\ y \in Coalescers(S)
        /\ Joins(R!Tokens(R!Flushed(y)), R!Tokens(R!Flushed(x)), R!Pieces(e))
        /\ \/ R!Flushed(y) = Append(R!Flushed(x), e)
           \/ LastGrows(S, R!Flushed(x), R!Flushed(y))
    <3>1. x \in Coalescers(S)
      BY <2>2
    <3> QED
      BY <2>1, <3>1, CoalescerKeeps
  <2>4. R!Tokens(R!Flushed(y)) = R!Tokens(Append(us, e))
    <3>1. R!Tokens(Append(us, e)) = R!Tokens(us) \o R!Pieces(e)
      BY TokensAppend
    <3> QED
      BY <2>2, <2>3, <3>1 DEF Joins
  <2>5. ASSUME NEW K \in SUBSET Sendable, "text" \in K, KindsIn(Append(us, e), K)
        PROVE  KindsIn(R!Flushed(y), K)
    <3> HIDE DEF S
    <3>0. R!Flushed(x) \in Seq(S)
      BY <2>2, ConcatProperties DEF R!Flushed, Coalescers
    <3>1. KindsIn(us, K) /\ e.kind \in K
      BY <2>5, KindsAppended
    <3>2. KindsIn(R!Flushed(x), K)
      BY <2>2, <2>5, <3>1
    <3>3. CASE R!Flushed(y) = Append(R!Flushed(x), e)
      <4> DEFINE fx == R!Flushed(x)
      <4> HIDE DEF fx
      <4>1. KindsIn(Append(fx, e), K)
        BY <3>0, <3>1, <3>2, KindsAppended DEF fx
      <4> QED
        BY <3>3, <4>1 DEF fx
    <3>4. ASSUME NEW before \in Seq(S), NEW g \in S, NEW j \in S, j.kind = "text",
                 R!Flushed(x) = Append(before, g), R!Flushed(y) = Append(before, j)
          PROVE  KindsIn(R!Flushed(y), K)
      <4>1. KindsIn(Append(before, g), K)
        BY <3>2, <3>4
      <4>2. KindsIn(before, K)
        BY <4>1, KindsAppended
      <4>3. KindsIn(Append(before, j), K)
        BY <2>5, <3>4, <4>2, KindsAppended
      <4> QED
        BY <3>4, <4>3
    <3> QED
      BY <2>3, <3>3, <3>4 DEF LastGrows
  <2>6. Append(us, e) \in Seq(S)
    BY AppendProperties
  <2> QED
    BY <2>3, <2>4, <2>5, <2>6 DEF y
<1>3. Seq(S) \subseteq N
  <2> HIDE DEF N, S
  <2> QED
    BY <1>1, <1>2, RS!SequencesByAppend
<1>4. fs \in N
  BY <1>3
<1> QED
  BY <1>4

\* Joining loses, repeats and reorders nothing, makes up no frame but deltas,
\* and leaves the terminal event at the end.
LEMMA CoalesceKeeps ==
    ASSUME NEW Route, NEW Token, NEW fs \in Seq(R!Events(Route, Token))
    PROVE  /\ R!Coalesce(fs) \in Seq(R!Events(Route, Token))
           /\ R!Tokens(R!Coalesce(fs)) = R!Tokens(fs)
           /\ \A K \in SUBSET Sendable :
                "text" \in K /\ KindsIn(fs, K) => KindsIn(R!Coalesce(fs), K)
           /\ \A e \in R!Events(Route, Token) : e.kind # "text" =>
                R!Coalesce(Append(fs, e)) = Append(R!Coalesce(fs), e)
<1> DEFINE S == R!Events(Route, Token)
           c == RS!Fold(R!NewCoalescer, fs)
<1>1. CASE MaxGroup = 0
  BY <1>1 DEF R!Coalesce
<1>2. CASE MaxGroup # 0
  <2>1. \A us : R!Coalesce(us) = R!Flushed(RS!Fold(R!NewCoalescer, us))
    BY <1>2, CoalesceIsFold DEF R!Coalesce
  <2>2. /\ c \in Coalescers(S) /\ R!Tokens(R!Flushed(c)) = R!Tokens(fs)
        /\ \A K \in SUBSET Sendable : "text" \in K /\ KindsIn(fs, K) => KindsIn(R!Flushed(c), K)
    BY CoalescerFolds
  <2>3. R!Flushed(c) \in Seq(S)
    <3> HIDE DEF c, S
    <3> QED
      BY <2>2, ConcatProperties DEF R!Flushed, Coalescers
  <2>4. ASSUME NEW e \in S, e.kind # "text"
        PROVE  R!Coalesce(Append(fs, e)) = Append(R!Coalesce(fs), e)
    <3>1. RS!Fold(R!NewCoalescer, Append(fs, e)) = R!CoalescerAccept(c, e)
      BY RS!FoldAppend
    <3> HIDE DEF c
    <3>2. R!Flushed(R!CoalescerAccept(c, e)) = Append(R!Flushed(c), e)
      <4>1. c \in Coalescers(S)
        BY <2>2
      <4> QED
        BY <2>4, <4>1, CoalescerKeeps
    <3> QED
      BY <2>1, <3>1, <3>2 DEF c
  <2>5. R!Coalesce(fs) = R!Flushed(c)
    BY <2>1
  <2> HIDE DEF c
  <2> QED
    BY <2>2, <2>3, <2>4, <2>5
<1> QED
  BY <1>1, <1>2

\* The client of a part of a stream has read a part of its text.
LEMMA TokensOfPart ==
    ASSUME NEW Route, NEW Token, NEW fs \in Seq(R!Events(Route, Token)), NEW n \in 0 .. Len(fs)
    PROVE  /\ SubSeq(fs, 1, n) \in Seq(R!Events(Route, Token))
           /\ IsPrefix(R!Tokens(SubSeq(fs, 1, n)), R!Tokens(fs))
           /\ \A K : KindsIn(fs, K) => KindsIn(SubSeq(fs, 1, n), K)
<1> DEFINE S == R!Events(Route, Token)
           p == SubSeq(fs, 1, n)
           q == SubSeq(fs, n + 1, Len(fs))
<1>1. /\ Len(fs) \in Nat /\ DOMAIN fs = 1 .. Len(fs) /\ \A i \in 1 .. Len(fs) : fs[i] \in S
      /\ n \in Int /\ Len(fs) \in Int
  BY LenProperties
<1>2. p \in Seq(S) /\ q \in Seq(S) /\ Len(p) = n /\ \A i \in 1 .. n : p[i] = fs[i]
  <2> HIDE DEF S
  <2>1. p \in Seq(S) /\ Len(p) = n /\ \A i \in 1 .. n : p[i] = fs[i]
    BY <1>1
  <2>2. q \in Seq(S)
    BY <1>1
  <2> QED
    BY <2>1, <2>2
<1>3. p \o q = fs
  <2>1. SubSeq(fs, 1, n) \o SubSeq(fs, n + 1, Len(fs)) = SubSeq(fs, 1, Len(fs))
    <3>1. 1 \in 1 .. Len(fs) + 1 /\ n \in 1 - 1 .. Len(fs) /\ Len(fs) \in n .. Len(fs)
      BY <1>1
    <3> QED
      BY <3>1, ConcatAdjacentSubSeq
  <2> QED
    BY <2>1, SubSeqFull
<1>4. R!Tokens(fs) = R!Tokens(p) \o R!Tokens(q)
  <2>1. R!Tokens(p \o q) = R!Tokens(p) \o R!Tokens(q)
    <3> HIDE DEF p, q
    <3> QED
      BY <1>2, TokensConcat
  <2> QED
    BY <1>3, <2>1
<1>5. R!Tokens(p) \in Seq(S) /\ R!Tokens(q) \in Seq(S)
  <2> HIDE DEF p, q
  <2> QED
    BY <1>2, TokensAppend, TokensAreEvents
<1>6. IsPrefix(R!Tokens(p), R!Tokens(fs))
  <2> HIDE DEF p, q, S
  <2> QED
    BY <1>4, <1>5, PrefixOfConcat
<1>7. \A K : KindsIn(fs, K) => KindsIn(p, K)
  <2>1. DOMAIN p = 1 .. n /\ 1 .. n \subseteq 1 .. Len(fs)
    BY <1>1, <1>2
  <2> QED
    BY <1>1, <1>2, <2>1 DEF KindsIn
<1> QED
  BY <1>2, <1>6, <1>7

ResponsesTagged(x) == [proto |-> "responses", state |-> x]

\* The wire's own copies of the failures, and which of them are told apart.
LEMMA SameRFailures ==
    /\ R!NoFail = NoFail /\ R!InvalidCompleted # NoFail
    /\ R!InBandTransient # NoFail /\ R!InBandTerminal # NoFail
    /\ R!Delivered(R!InBandTransient) # NoFail /\ R!Delivered(R!InBandTerminal) # NoFail
    /\ R!Delivered(R!InBandTransient).delivered /\ R!Delivered(R!InBandTerminal).delivered
    /\ R!InBandTransient.transient /\ ~R!InBandTerminal.transient
BY DEF R!NoFail, NoFail, R!InvalidCompleted, R!InBandTransient, R!InBandTerminal, R!Delivered,
       R!Transient, R!Terminal

\* What the wire makes of an event, by its kind.
LEMMA ResponsesVerdicts ==
    ASSUME NEW Route, NEW Token, NEW ev \in R!Events(Route, Token), NEW x,
           NEW b, b = R!ResponsesBuffered(x, ev), NEW v, v = R!ResponsesLive(x, ev)
    PROVE  /\ b.fail = NoFail /\ ~b.done => ev.kind \in Passing
           /\ b.fail = NoFail /\ b.done => ev \in {R!Completed, R!ErrorNative}
           /\ v.fail = NoFail => v.out = <<ev>>
           /\ v.fail = NoFail /\ ~v.done => ev.kind \in Passing
           /\ v.fail = NoFail /\ v.done => ev = R!Completed
           /\ v.fail # NoFail =>
                \/ v.out = <<>>
                \/ /\ v.out = <<ev>> /\ ev.kind \in Sendable
                   /\ ev \in {R!Completed, R!ErrorNative} => v.fail.delivered
<1>1. ev.kind \in Passing \cup {"completed", "bad_completed", "error_transient",
                                "error_terminal", "error_native"}
  BY DEF R!Events, R!Text, R!OpaqueText, R!Plain, R!Meta, R!Output, R!Completed, R!BadCompleted,
     R!ErrorTransient, R!ErrorTerminal, R!ErrorNative, Passing
<1>2. /\ ev.kind = "completed" <=> ev = R!Completed
      /\ ev.kind = "error_native" <=> ev = R!ErrorNative
  BY ResponsesEventShape
<1> DEFINE f == R!FrameFailure(ev)
<1>3. /\ f = IF ev.kind = "error_transient" THEN R!InBandTransient ELSE R!InBandTerminal
      /\ R!IsErrorFrame(ev) <=> ev.kind \in {"error_transient", "error_terminal", "error_native"}
      /\ R!IsNative(ev) <=> ev.kind = "error_native"
  BY DEF R!FrameFailure, R!IsErrorFrame, R!IsNative
<1>4. CASE R!IsErrorFrame(ev)
  <2>1. /\ R!IsNative(ev) => b.done = TRUE /\ b.fail = R!NoFail
        /\ ~R!IsNative(ev) => b.done = FALSE /\ b.fail = f
    BY <1>3, <1>4 DEF R!ResponsesBuffered
  <2>2. CASE f.transient /\ ~R!IsNative(ev)
    <3>1. v.out = <<>> /\ v.fail = f
      BY <1>3, <1>4, <2>2 DEF R!ResponsesLive, R!FrameFailure
    <3> HIDE DEF f
    <3> QED
      BY <1>2, <1>3, <1>4, <2>1, <2>2, <3>1, SameRFailures
  <2>3. CASE ~(f.transient /\ ~R!IsNative(ev))
    <3>1. v.out = <<ev>> /\ v.fail = R!Delivered(f)
      BY <1>3, <1>4, <2>3 DEF R!ResponsesLive, R!FrameFailure
    <3> HIDE DEF f
    <3>2. v.fail # NoFail /\ v.fail.delivered /\ f # NoFail
      BY <1>3, <3>1, SameRFailures
    <3>3. ev.kind \in Sendable
      BY <1>3, <1>4, <2>3, SameRFailures DEF Sendable
    <3> QED
      BY <1>2, <1>3, <1>4, <2>1, <2>3, <3>1, <3>2, <3>3, SameRFailures
  <2> QED
    BY <2>2, <2>3
<1>5. CASE ev.kind = "bad_completed"
  <2>1. ~R!IsErrorFrame(ev)
    BY <1>3, <1>5
  <2>2. b.fail = R!InvalidCompleted /\ v.out = <<ev>> /\ v.fail = R!InvalidCompleted
    BY <1>5, <2>1 DEF R!ResponsesBuffered, R!ResponsesLive
  <2> QED
    BY <1>2, <1>5, <2>2, SameRFailures DEF Sendable
<1>6. CASE ~R!IsErrorFrame(ev) /\ ev.kind # "bad_completed"
  <2>1. /\ b.fail = R!NoFail /\ b.done = (ev.kind = "completed")
        /\ v.out = <<ev>> /\ v.fail = R!NoFail /\ v.done = (ev.kind = "completed")
    BY <1>6 DEF R!ResponsesBuffered, R!ResponsesLive
  <2> QED
    BY <1>1, <1>2, <1>3, <1>6, <2>1, SameRFailures
<1> QED
  BY <1>4, <1>5, <1>6

\* What a stream of Responses events asks of its wire, the Responses wire answers.
LEMMA ResponsesOperators ==
    ASSUME NEW Route, NEW Token, ResponsesStream(Route, Token), NEW x, NEW ev, NEW evs,
           NEW b, b = R!ResponsesBuffered(x, ev), NEW v, v = R!ResponsesLive(x, ev)
    PROVE  /\ Buffered(ResponsesTagged(x), ev).wire = ResponsesTagged(b.wire)
           /\ Buffered(ResponsesTagged(x), ev).done = b.done
           /\ Buffered(ResponsesTagged(x), ev).fail = b.fail
           /\ Live(ResponsesTagged(x), ev).wire = ResponsesTagged(v.wire)
           /\ Live(ResponsesTagged(x), ev).out = v.out
           /\ Live(ResponsesTagged(x), ev).done = v.done
           /\ Live(ResponsesTagged(x), ev).fail = v.fail
           /\ ReplayBuffered(ResponsesTagged(x), evs)
                = [wire |-> ResponsesTagged(x), out |-> R!Coalesce(evs), fail |-> NoFail]
           /\ ReplayPrefix(ResponsesTagged(x), evs)
                = [wire |-> ResponsesTagged(x), out |-> R!Coalesce(evs), fail |-> NoFail]
           /\ ~CompleteOnEOF(ResponsesTagged(x))
<1> DEFINE w == ResponsesTagged(x)
           y == R!ResponsesReplay(x, evs)
<1>1. w.proto = "responses" /\ w.state = x
  BY DEF ResponsesTagged
<1>2. \A z : [w EXCEPT !.state = z] = ResponsesTagged(z)
  BY DEF ResponsesTagged
<1>3. /\ b = [wire |-> b.wire, done |-> b.done, fail |-> b.fail]
      /\ v = [wire |-> v.wire, out |-> v.out, done |-> v.done, fail |-> v.fail]
      /\ y = [wire |-> x, out |-> R!Coalesce(evs), fail |-> NoFail]
  BY SameRFailures DEF R!ResponsesBuffered, R!ResponsesLive, R!ResponsesReplay
<1> HIDE DEF w, y
<1>4. Buffered(w, ev) = Of(w, b)
  <2>1. WiresBuffered(w, ev) = Of(w, R!ResponsesBuffered(w.state, ev))
    BY <1>1, Zenon DEF WiresBuffered
  <2> QED
    BY <1>1, <2>1 DEF ResponsesStream, OnWire
<1>5. Live(w, ev) = Of(w, v)
  <2>1. WiresLive(w, ev) = Of(w, R!ResponsesLive(w.state, ev))
    BY <1>1, Zenon DEF WiresLive
  <2> QED
    BY <1>1, <2>1 DEF ResponsesStream, OnWire
<1>6. ReplayBuffered(w, evs) = Of(w, y) /\ ReplayPrefix(w, evs) = Of(w, y)
  <2>1. WiresReplay(w, evs) = Of(w, R!ResponsesReplay(w.state, evs))
    BY <1>1, Zenon DEF WiresReplay
  <2>2. WiresReplayPrefix(w, evs) = Of(w, R!ResponsesReplay(w.state, evs))
    BY <1>1, Zenon DEF WiresReplayPrefix
  <2> QED
    BY <1>1, <2>1, <2>2 DEF ResponsesStream, OnWire, y
<1>7. ~CompleteOnEOF(w)
  <2>1. WiresCompleteOnEOF(w) = R!ResponsesCompleteOnEOF(w.state)
    BY <1>1, Zenon DEF WiresCompleteOnEOF
  <2> QED
    BY <1>1, <2>1 DEF ResponsesStream, OnWire, R!ResponsesCompleteOnEOF
<1>8. /\ Of(w, b).wire = ResponsesTagged(b.wire) /\ Of(w, b).done = b.done /\ Of(w, b).fail = b.fail
  BY <1>2, <1>3 DEF Of
<1>9. /\ Of(w, v).wire = ResponsesTagged(v.wire) /\ Of(w, v).out = v.out
      /\ Of(w, v).done = v.done /\ Of(w, v).fail = v.fail
  BY <1>2, <1>3 DEF Of
<1>10. Of(w, y) = [wire |-> w, out |-> R!Coalesce(evs), fail |-> NoFail]
  BY <1>2, <1>3 DEF Of, w
<1> QED
  BY <1>4, <1>5, <1>6, <1>7, <1>8, <1>9, <1>10 DEF w

\* What a replay leaves with the client.
LEMMA ResponsesReplays ==
    ASSUME NEW Route, NEW Token, NEW w, NEW evs \in Seq(R!Events(Route, Token)),
           NEW r \in Replays([wire |-> w, out |-> R!Coalesce(evs), fail |-> NoFail])
    PROVE  /\ r.wire = w /\ r.out \in Seq(R!Events(Route, Token))
           /\ IsPrefix(R!Tokens(r.out), R!Tokens(evs))
           /\ \A K \in SUBSET Sendable : "text" \in K /\ KindsIn(evs, K) => KindsIn(r.out, K)
           /\ \/ r.out = R!Coalesce(evs) /\ r.fail = NoFail
              \/ r.fail = ReplayFailed
<1> DEFINE S       == R!Events(Route, Token)
           joined  == R!Coalesce(evs)
           whole   == [wire |-> w, out |-> joined, fail |-> NoFail]
           part(n) == [whole EXCEPT !.out = SubSeq(@, 1, n), !.fail = ReplayFailed]
<1>1. \A n : part(n).wire = w /\ part(n).out = SubSeq(joined, 1, n) /\ part(n).fail = ReplayFailed
  OBVIOUS
<1>2. whole.wire = w /\ whole.out = joined /\ whole.fail = NoFail
  OBVIOUS
<1>3. r = whole \/ \E n \in 0 .. Len(joined) : r = part(n)
  BY DEF Replays
<1>4. /\ joined \in Seq(S) /\ R!Tokens(joined) = R!Tokens(evs)
      /\ \A K \in SUBSET Sendable : "text" \in K /\ KindsIn(evs, K) => KindsIn(joined, K)
  BY CoalesceKeeps
<1> HIDE DEF whole, part, joined
<1>5. CASE r = whole
  <2>1. IsPrefix(R!Tokens(joined), R!Tokens(joined))
    <3>1. R!Tokens(joined) \in Seq(S)
      BY <1>4, TokensAreEvents
    <3> HIDE DEF S
    <3>2. <<>> \in Seq(S) /\ R!Tokens(joined) \o <<>> = R!Tokens(joined)
      BY <3>1, ConcatEmptySeq
    <3> QED
      BY <3>1, <3>2, PrefixOfConcat
  <2> QED
    BY <1>2, <1>4, <1>5, <2>1 DEF joined
<1>6. CASE r # whole
  <2>1. PICK n \in 0 .. Len(joined) : r = part(n)
    BY <1>3, <1>6
  <2>2. /\ SubSeq(joined, 1, n) \in Seq(S)
        /\ IsPrefix(R!Tokens(SubSeq(joined, 1, n)), R!Tokens(joined))
        /\ \A K : KindsIn(joined, K) => KindsIn(SubSeq(joined, 1, n), K)
    BY <1>4, TokensOfPart
  <2>3. r.wire = w /\ r.out = SubSeq(joined, 1, n) /\ r.fail = ReplayFailed
    BY <1>1, <2>1
  <2> QED
    BY <1>4, <2>2, <2>3
<1> QED
  BY <1>5, <1>6

\* The verdict of a stream that the client may take for a finished turn.
Final(fail) == fail = NoFail \/ fail.delivered \/ fail = ReplayFailed

\* Until it ends, the client has nothing of the stream or, once it is committed,
\* the text and events of all of it; nothing that ends a turn reaches the client
\* before the stream itself ends, with a verdict that is final.
ResponsesInv(Route, Token) ==
    /\ phase \in {"buffering", "live", "ended"}
    /\ wire = ResponsesTagged(wire.state)
    /\ seen \in Seq(R!Events(Route, Token)) /\ sent \in Seq(R!Events(Route, Token))
    /\ phase # "ended" => KindsIn(seen, Passing) /\ KindsIn(sent, Passing)
    /\ phase = "buffering" => sent = <<>>
    /\ phase = "live" => R!Tokens(sent) = R!Tokens(seen)
    /\ IsPrefix(R!Tokens(sent), R!Tokens(seen))
    /\ KindsIn(sent, Sendable)
    /\ Answered => R!Tokens(sent) = R!Tokens(seen) /\ R!EndsTurn(sent)
    /\ phase = "ended" /\ R!EndsTurn(sent) => Final(verdict.fail)

\* The client's text grows with the stream's, frame by frame.
LEMMA TokensGrow ==
    ASSUME NEW Route, NEW Token, NEW fs \in Seq(R!Events(Route, Token)),
           NEW gs \in Seq(R!Events(Route, Token)), NEW ev \in R!Events(Route, Token)
    PROVE  /\ IsPrefix(R!Tokens(<<>>), R!Tokens(gs))
           /\ R!Tokens(fs) = R!Tokens(gs) =>
                /\ IsPrefix(R!Tokens(fs), R!Tokens(gs))
                /\ R!Tokens(Append(fs, ev)) = R!Tokens(Append(gs, ev))
           /\ IsPrefix(R!Tokens(fs), R!Tokens(gs)) =>
                IsPrefix(R!Tokens(fs), R!Tokens(Append(gs, ev)))
<1> DEFINE S == R!Events(Route, Token)
           f == R!Tokens(fs)
           g == R!Tokens(gs)
           p == R!Pieces(ev)
<1>1. /\ f \in Seq(S) /\ g \in Seq(S) /\ p \in Seq(S) /\ <<>> \in Seq(S)
      /\ R!Tokens(Append(fs, ev)) = f \o p /\ R!Tokens(Append(gs, ev)) = g \o p
  BY TokensAppend, PiecesAreEvents
<1> HIDE DEF S, f, g, p
<1>2. <<>> \o g = g /\ g \o <<>> = g
  BY <1>1, ConcatEmptySeq
<1>3. IsPrefix(<<>>, g) /\ IsPrefix(g, g)
  BY <1>1, <1>2, PrefixOfConcat
<1>4. IsPrefix(f, g) => IsPrefix(f, g \o p)
  <2>1. SUFFICES ASSUME IsPrefix(f, g) PROVE IsPrefix(f, g \o p)
    OBVIOUS
  <2>2. /\ Len(f) \in Nat /\ Len(g) \in Nat /\ Len(f) <= Len(g)
        /\ SubSeq(f, 1, Len(f)) = SubSeq(g, 1, Len(f))
    BY <1>1, <2>1, LenProperties DEF IsPrefix
  <2>3. g \o p \in Seq(S) /\ Len(g) <= Len(g \o p) /\ \A i \in 1 .. Len(g) : (g \o p)[i] = g[i]
    BY <1>1, ConcatProperties, LenProperties
  <2>4. SubSeq(g, 1, Len(f)) = SubSeq(g \o p, 1, Len(f))
    <3> DEFINE u == g \o p
    <3>1. u \in Seq(S) /\ Len(u) \in Nat /\ Len(g) <= Len(u)
          /\ \A i \in 1 .. Len(g) : u[i] = g[i]
      BY <2>3, LenProperties
    <3> HIDE DEF u
    <3>2. \A i \in 1 .. Len(f) : i \in 1 .. Len(g)
      BY <2>2
    <3>3. SubSeq(g, 1, Len(f)) = [i \in 1 .. Len(f) |-> g[i]]
          /\ SubSeq(u, 1, Len(f)) = [i \in 1 .. Len(f) |-> u[i]]
      BY <1>1, <2>2, <3>1
    <3> QED
      BY <3>1, <3>2, <3>3 DEF u
  <2>5. Len(f) <= Len(g \o p)
    BY <2>2, <2>3, <1>1, LenProperties
  <2> QED
    BY <2>2, <2>4, <2>5 DEF IsPrefix
<1> QED
  BY <1>1, <1>3, <1>4, TokensEmpty DEF f, g

\* Only a last frame of two kinds ends a turn, and neither kind passes.
LEMMA PassingEndsNoTurn ==
    ASSUME NEW Route, NEW Token, NEW fs \in Seq(R!Events(Route, Token))
    PROVE  /\ KindsIn(fs, Passing) => ~R!EndsTurn(fs) /\ KindsIn(fs, Sendable)
           /\ \A ev \in R!Events(Route, Token) :
                R!EndsTurn(Append(fs, ev)) <=> ev \in {R!Completed, R!ErrorNative}
<1>1. DOMAIN fs = 1 .. Len(fs) /\ Len(fs) \in Nat
  BY LenProperties
<1>2. ASSUME R!EndsTurn(fs)
      PROVE  ~KindsIn(fs, Passing)
  <2>1. fs # <<>> /\ fs[Len(fs)] \in {R!Completed, R!ErrorNative}
    BY <1>2 DEF R!EndsTurn
  <2>2. fs[Len(fs)].kind \in {"completed", "error_native"}
    BY <2>1 DEF R!Completed, R!ErrorNative, R!Plain
  <2>3. Len(fs) \in DOMAIN fs
    <3>1. Len(fs) # 0
      BY <2>1, EmptySeq
    <3> QED
      BY <1>1, <3>1
  <2> QED
    BY <2>2, <2>3 DEF KindsIn, Passing
<1>3. KindsIn(fs, Passing) => KindsIn(fs, Sendable)
  BY DEF KindsIn, Sendable
<1>4. ASSUME NEW ev \in R!Events(Route, Token)
      PROVE  R!EndsTurn(Append(fs, ev)) <=> ev \in {R!Completed, R!ErrorNative}
  <2> DEFINE u == Append(fs, ev)
  <2>1. Len(u) = Len(fs) + 1 /\ u[Len(fs) + 1] = ev /\ u # <<>>
    BY <1>1, AppendProperties
  <2> HIDE DEF u
  <2>2. R!EndsTurn(u) <=> ev \in {R!Completed, R!ErrorNative}
    BY <2>1 DEF R!EndsTurn
  <2> QED
    BY <2>2 DEF u
<1> QED
  BY <1>2, <1>3, <1>4

\* A tagged wire has its state.
LEMMA TagKeeps == \A z : ResponsesTagged(z).state = z
BY DEF ResponsesTagged

\* The sets of kinds that the replay lemma is used for.
LEMMA KindsOfFrames ==
    /\ Passing \in SUBSET Sendable /\ "text" \in Passing
    /\ Sendable \in SUBSET Sendable /\ "text" \in Sendable
BY DEF Passing, Sendable

\* It holds of a new stream.
LEMMA ResponsesInvInit ==
    ASSUME NEW Route, NEW Token, ResponsesStream(Route, Token), Init
    PROVE  ResponsesInv(Route, Token)
<1> DEFINE none == <<>>
<1>1. /\ phase = "buffering" /\ seen = none /\ sent = none /\ wire = ResponsesTagged(R!ResponsesInit)
  BY DEF Init, ResponsesStream, ResponsesWireOf, ResponsesTagged
<1>2. none \in Seq(R!Events(Route, Token)) /\ \A K : KindsIn(none, K)
  BY DEF KindsIn
<1>3. IsPrefix(R!Tokens(none), R!Tokens(none))
  <2>1. R!Meta \in R!Events(Route, Token)
    BY DEF R!Events
  <2> QED
    BY <1>2, <2>1, TokensGrow
<1>4. wire = ResponsesTagged(wire.state)
  BY <1>1 DEF ResponsesTagged
<1> HIDE DEF none
<1> QED
  BY <1>1, <1>2, <1>3, <1>4 DEF ResponsesInv, Answered, none

\* A stream that ends with a fault and what it had already sent.
LEMMA ResponsesInvEnds ==
    ASSUME NEW Route, NEW Token, ResponsesInv(Route, Token), phase # "ended",
           phase' = "ended", sent' = sent, NEW x, wire' = ResponsesTagged(x),
           \/ seen' = seen
           \/ \E ev \in R!Events(Route, Token) : seen' = Append(seen, ev),
           verdict'.fail # NoFail
    PROVE  ResponsesInv(Route, Token)'
<1> DEFINE S == R!Events(Route, Token)
<1>1. wire' = ResponsesTagged(wire'.state)
  BY DEF ResponsesTagged
<1>2. seen \in Seq(S) /\ sent \in Seq(S) /\ KindsIn(sent, Passing)
      /\ IsPrefix(R!Tokens(sent), R!Tokens(seen))
  BY DEF ResponsesInv
<1>3. seen' \in Seq(S) /\ IsPrefix(R!Tokens(sent), R!Tokens(seen'))
  <2>1. CASE seen' = seen
    BY <1>2, <2>1
  <2>2. ASSUME NEW ev \in S, seen' = Append(seen, ev)
        PROVE  seen' \in Seq(S) /\ IsPrefix(R!Tokens(sent), R!Tokens(seen'))
    <3>1. IsPrefix(R!Tokens(sent), R!Tokens(Append(seen, ev)))
      BY <1>2, TokensGrow
    <3> QED
      BY <1>2, <2>2, <3>1, AppendProperties
  <2> QED
    BY <2>1, <2>2
<1>4. ~R!EndsTurn(sent) /\ KindsIn(sent, Sendable)
  BY <1>2, PassingEndsNoTurn
<1>5. ~Answered'
  BY DEF Answered
<1> HIDE DEF S
<1> QED
  BY <1>1, <1>2, <1>3, <1>4, <1>5 DEF ResponsesInv, S

\* Every step of the stream keeps it.
LEMMA ResponsesInvNext ==
    ASSUME NEW Route, NEW Token, ResponsesStream(Route, Token),
           ResponsesInv(Route, Token), [Next]_vars
    PROVE  ResponsesInv(Route, Token)'
<1> DEFINE S == R!Events(Route, Token)
           x == wire.state
<1>0. /\ phase \in {"buffering", "live", "ended"} /\ wire = ResponsesTagged(x)
      /\ seen \in Seq(S) /\ sent \in Seq(S)
      /\ phase # "ended" => KindsIn(seen, Passing) /\ KindsIn(sent, Passing)
      /\ phase = "buffering" => sent = <<>>
      /\ phase = "live" => R!Tokens(sent) = R!Tokens(seen)
  BY DEF ResponsesInv
<1>1. ASSUME NEW ev \in Event
      PROVE  /\ ev \in S
             /\ Buffered(wire, ev).wire = ResponsesTagged(R!ResponsesBuffered(x, ev).wire)
             /\ Live(wire, ev).wire = ResponsesTagged(R!ResponsesLive(x, ev).wire)
             /\ LET b == Buffered(wire, ev)
                    v == Live(wire, ev)
                IN  /\ b.fail = NoFail /\ ~b.done => ev.kind \in Passing
                    /\ b.fail = NoFail /\ b.done => ev \in {R!Completed, R!ErrorNative}
                    /\ v.fail = NoFail => v.out = <<ev>>
                    /\ v.fail = NoFail /\ ~v.done => ev.kind \in Passing
                    /\ v.fail = NoFail /\ v.done => ev = R!Completed
                    /\ v.fail # NoFail =>
                         \/ v.out = <<>>
                         \/ /\ v.out = <<ev>> /\ ev.kind \in Sendable
                            /\ ev \in {R!Completed, R!ErrorNative} => v.fail.delivered
  <2> DEFINE bx == R!ResponsesBuffered(x, ev)
             vx == R!ResponsesLive(x, ev)
  <2>1. ev \in S
    BY DEF ResponsesStream
  <2>2. /\ bx.fail = NoFail /\ ~bx.done => ev.kind \in Passing
        /\ bx.fail = NoFail /\ bx.done => ev \in {R!Completed, R!ErrorNative}
        /\ vx.fail = NoFail => vx.out = <<ev>>
        /\ vx.fail = NoFail /\ ~vx.done => ev.kind \in Passing
        /\ vx.fail = NoFail /\ vx.done => ev = R!Completed
        /\ vx.fail # NoFail =>
             \/ vx.out = <<>>
             \/ /\ vx.out = <<ev>> /\ ev.kind \in Sendable
                /\ ev \in {R!Completed, R!ErrorNative} => vx.fail.delivered
    <3>1. ev \in R!Events(Route, Token)
      BY <2>1
    <3> HIDE DEF x
    <3> QED
      BY <3>1, ResponsesVerdicts
  <2>3. /\ Buffered(wire, ev).wire = ResponsesTagged(bx.wire) /\ Buffered(wire, ev).done = bx.done
        /\ Buffered(wire, ev).fail = bx.fail
        /\ Live(wire, ev).wire = ResponsesTagged(vx.wire) /\ Live(wire, ev).out = vx.out
        /\ Live(wire, ev).done = vx.done /\ Live(wire, ev).fail = vx.fail
    <3>1. wire = ResponsesTagged(x)
      BY <1>0
    <3> HIDE DEF x
    <3> QED
      BY <3>1, ResponsesOperators
  <2> HIDE DEF bx, vx
  <2>4. /\ Buffered(wire, ev).wire = ResponsesTagged(bx.wire)
        /\ Live(wire, ev).wire = ResponsesTagged(vx.wire)
    BY <2>3
  <2> QED
    BY <2>1, <2>2, <2>3, <2>4 DEF bx, vx
<1>2. ASSUME NEW ev \in Event, Buffer(ev)
      PROVE  ResponsesInv(Route, Token)'
  <2>1. /\ phase = "buffering" /\ seen' = Append(seen, ev)
        /\ Buffered(wire, ev).fail = NoFail /\ ~Buffered(wire, ev).done
        /\ wire' = Buffered(wire, ev).wire /\ phase' = phase /\ sent' = sent
    BY <1>2 DEF Buffer, Arrives
  <2>2. wire' = ResponsesTagged(wire'.state)
    <3>1. wire' = ResponsesTagged(R!ResponsesBuffered(x, ev).wire)
      BY <1>1, <2>1
    <3> QED
      BY <3>1, Zenon, TagKeeps
  <2>3. ev \in S /\ ev.kind \in Passing
    BY <1>1, <2>1
  <2>4. seen' \in Seq(S) /\ KindsIn(seen', Passing)
    BY <1>0, <2>1, <2>3, AppendProperties, KindsAppended
  <2>5. IsPrefix(R!Tokens(<<>>), R!Tokens(seen'))
    BY <2>4, <2>3, TokensGrow
  <2>6. KindsIn(sent, Sendable)
    BY <1>0, <2>1, PassingEndsNoTurn
  <2> HIDE DEF S
  <2> QED
    BY <1>0, <2>1, <2>2, <2>4, <2>5, <2>6 DEF ResponsesInv, Answered, S
<1>3. ASSUME NEW ev \in Event, Reject(ev) \/ BreakAt(ev)
      PROVE  ResponsesInv(Route, Token)'
  <2>1. /\ phase = "buffering" /\ seen' = Append(seen, ev) /\ sent' = sent /\ phase' = "ended"
        /\ wire' = Buffered(wire, ev).wire
    BY <1>3 DEF Reject, BreakAt, End, Arrives
  <2>2. verdict'.fail # NoFail
    <3>1. CASE Reject(ev)
      BY <3>1 DEF Reject, End
    <3>2. CASE BreakAt(ev)
      BY <3>2 DEF BreakAt, End, ResponseTooLarge, SpoolError, Terminal, Transient, NoFail
    <3> QED
      BY <1>3, <3>1, <3>2
  <2>3. ev \in R!Events(Route, Token) /\ wire' = ResponsesTagged(R!ResponsesBuffered(x, ev).wire)
    BY <1>1, <2>1
  <2> HIDE DEF x, S
  <2> QED
    BY <2>1, <2>2, <2>3, ResponsesInvEnds
<1>4. CASE Break
  <2>1. PICK f \in Faults : End(phase = "live", f)
    BY <1>4 DEF Break
  <2>2. f # NoFail
    BY DEF Faults, UpstreamIdle, ClientGone, Deadline, TruncatedStream, StreamReadError,
           ResponseTooLarge, SpoolError, Transient, Terminal, NoFail
  <2>3. /\ phase # "ended" /\ phase' = "ended" /\ sent' = sent /\ wire' = wire /\ seen' = seen
        /\ verdict'.fail = f
    BY <1>4, <2>1 DEF Break, End
  <2>4. wire' = ResponsesTagged(x)
    BY <1>0, <2>3
  <2> HIDE DEF x, S
  <2> QED
    BY <2>2, <2>3, <2>4, ResponsesInvEnds
<1>5. ASSUME NEW evs \in Seq(S), NEW r,
             r \in Replays(ReplayPrefix(wire, evs)) \/ r \in Replays(ReplayBuffered(wire, evs)),
             wire = ResponsesTagged(x)
      PROVE  /\ r.wire = wire /\ r.out \in Seq(S)
             /\ IsPrefix(R!Tokens(r.out), R!Tokens(evs))
             /\ KindsIn(evs, Passing) => KindsIn(r.out, Passing)
             /\ KindsIn(evs, Sendable) => KindsIn(r.out, Sendable)
             /\ \/ r.out = R!Coalesce(evs) /\ r.fail = NoFail
                \/ r.fail = ReplayFailed
  <2>1. /\ ReplayPrefix(wire, evs) = [wire |-> wire, out |-> R!Coalesce(evs), fail |-> NoFail]
        /\ ReplayBuffered(wire, evs) = [wire |-> wire, out |-> R!Coalesce(evs), fail |-> NoFail]
    <3> HIDE DEF x, S
    <3> QED
      BY <1>5, ResponsesOperators
  <2>2. r \in Replays([wire |-> wire, out |-> R!Coalesce(evs), fail |-> NoFail])
    BY <1>5, <2>1
  <2>3. evs \in Seq(R!Events(Route, Token))
    OBVIOUS
  <2>4. /\ r.wire = wire /\ r.out \in Seq(R!Events(Route, Token))
        /\ IsPrefix(R!Tokens(r.out), R!Tokens(evs))
        /\ \A K \in SUBSET Sendable : "text" \in K /\ KindsIn(evs, K) => KindsIn(r.out, K)
        /\ \/ r.out = R!Coalesce(evs) /\ r.fail = NoFail
           \/ r.fail = ReplayFailed
    BY <2>2, <2>3, ResponsesReplays
  <2> QED
    BY <2>4, KindsOfFrames
<1>6. ReplayFailed # NoFail
  BY DEF ReplayFailed, NoFail, Transient
<1>7. ASSUME NEW evs \in Seq(S)
      PROVE  R!Tokens(R!Coalesce(evs)) = R!Tokens(evs)
  BY CoalesceKeeps
<1>8. ASSUME NEW ev \in Event, Answer(ev)
      PROVE  ResponsesInv(Route, Token)'
  <2> DEFINE b == Buffered(wire, ev)
  <2>1. /\ phase = "buffering" /\ seen' = Append(seen, ev) /\ wire' = b.wire
        /\ b.fail = NoFail /\ b.done
    BY <1>8 DEF Answer, Arrives
  <2>2. PICK r \in Replays(ReplayBuffered(b.wire, seen')) :
          sent' = sent \o r.out /\ End(TRUE, r.fail)
    BY <1>8, <2>1 DEF Answer
  <2>3. ev \in S /\ ev \in {R!Completed, R!ErrorNative}
    BY <1>1, <2>1
  <2>4. ev.kind \in Sendable /\ ev.kind # "text"
    BY <2>3 DEF R!Completed, R!ErrorNative, R!Plain, Sendable
  <2>5. seen' \in Seq(S) /\ KindsIn(seen', Sendable)
    BY <1>0, <2>1, <2>3, <2>4, AppendProperties, KindsAppended, PassingEndsNoTurn
  <2>6. wire' = ResponsesTagged(wire'.state)
    <3>1. wire' = ResponsesTagged(R!ResponsesBuffered(x, ev).wire)
      BY <1>1, <2>1
    <3> QED
      BY <3>1, Zenon, TagKeeps
  <2>7. /\ r.out \in Seq(S) /\ IsPrefix(R!Tokens(r.out), R!Tokens(seen'))
        /\ KindsIn(r.out, Sendable)
        /\ \/ r.out = R!Coalesce(seen') /\ r.fail = NoFail
           \/ r.fail = ReplayFailed
    <3> DEFINE evs == seen'
               y == b.wire
               z == R!ResponsesBuffered(x, ev).wire
    <3>1. /\ r \in Replays(ReplayBuffered(y, evs)) /\ y = ResponsesTagged(z)
          /\ evs \in Seq(R!Events(Route, Token))
          /\ KindsIn(evs, Sendable)
      BY <1>1, <2>2, <2>5
    <3> HIDE DEF evs, y, z, b, x, S
    <3>2. ReplayBuffered(y, evs) = [wire |-> y, out |-> R!Coalesce(evs), fail |-> NoFail]
      BY <3>1, ResponsesOperators
    <3>3. /\ r.out \in Seq(R!Events(Route, Token))
          /\ IsPrefix(R!Tokens(r.out), R!Tokens(evs))
          /\ \A K \in SUBSET Sendable : "text" \in K /\ KindsIn(evs, K) => KindsIn(r.out, K)
          /\ \/ r.out = R!Coalesce(evs) /\ r.fail = NoFail
             \/ r.fail = ReplayFailed
      <4>1. r \in Replays([wire |-> y, out |-> R!Coalesce(evs), fail |-> NoFail])
        BY <3>1, <3>2
      <4> QED
        BY <3>1, <4>1, ResponsesReplays
    <3> QED
      BY <3>1, <3>3, KindsOfFrames DEF evs, S
  <2>8. sent' = r.out /\ phase' = "ended" /\ verdict'.fail = r.fail
    BY <1>0, <2>1, <2>2, <2>7, ConcatEmptySeq DEF End
  <2>9. r.fail = NoFail => /\ R!Tokens(r.out) = R!Tokens(seen')
                           /\ R!EndsTurn(r.out)
    <3>1. R!Tokens(R!Coalesce(seen')) = R!Tokens(seen')
      BY <2>5, CoalesceKeeps
    <3>2. R!Coalesce(seen') = Append(R!Coalesce(seen), ev) /\ R!Coalesce(seen) \in Seq(S)
      <4>1. seen \in Seq(R!Events(Route, Token)) /\ ev \in R!Events(Route, Token)
        BY <1>0, <2>3
      <4> QED
        BY <2>1, <2>4, <4>1, CoalesceKeeps
    <3>3. R!EndsTurn(Append(R!Coalesce(seen), ev))
      <4> DEFINE joined == R!Coalesce(seen)
      <4>1. joined \in Seq(R!Events(Route, Token)) /\ ev \in R!Events(Route, Token)
        BY <2>3, <3>2
      <4> HIDE DEF joined
      <4>2. R!EndsTurn(Append(joined, ev)) <=> ev \in {R!Completed, R!ErrorNative}
        BY <4>1, PassingEndsNoTurn
      <4> QED
        BY <2>3, <4>2 DEF joined
    <3> QED
      BY <1>6, <2>7, <3>1, <3>2, <3>3
  <2>10. Final(verdict'.fail)
    BY <2>7, <2>8 DEF Final
  <2>11. Answered' => verdict'.fail = NoFail
    BY DEF Answered
  <2> HIDE DEF S, b, x
  <2> QED
    BY <2>5, <2>6, <2>7, <2>8, <2>9, <2>10, <2>11 DEF ResponsesInv, S
<1>9. CASE Commit
  <2>1. phase = "buffering" /\ seen' = seen
    BY <1>9 DEF Commit
  <2>2. PICK r \in Replays(ReplayPrefix(wire, seen)) :
          /\ sent' = sent \o r.out /\ wire' = r.wire
          /\ IF r.fail = NoFail THEN phase' = "live" /\ UNCHANGED verdict ELSE End(TRUE, r.fail)
    BY <1>9 DEF Commit
  <2>3. /\ r.wire = wire /\ r.out \in Seq(S)
        /\ IsPrefix(R!Tokens(r.out), R!Tokens(seen))
        /\ KindsIn(r.out, Passing)
        /\ \/ r.out = R!Coalesce(seen) /\ r.fail = NoFail
           \/ r.fail = ReplayFailed
    BY <1>0, <1>5, <2>1, <2>2
  <2>4. sent' = r.out /\ wire' = wire
    BY <1>0, <2>1, <2>2, <2>3, ConcatEmptySeq
  <2>5. KindsIn(r.out, Sendable)
    BY <2>3, PassingEndsNoTurn
  <2> HIDE DEF S, x
  <2>6. CASE r.fail = NoFail
    <3>1. phase' = "live" /\ R!Tokens(r.out) = R!Tokens(seen)
      BY <1>0, <1>6, <1>7, <2>2, <2>3, <2>6
    <3> QED
      BY <1>0, <2>1, <2>3, <2>4, <2>5, <3>1 DEF ResponsesInv, Answered, S, x
  <2>7. CASE r.fail # NoFail
    <3>1. phase' = "ended" /\ verdict'.fail = ReplayFailed
      BY <2>2, <2>3, <2>7 DEF End
    <3>2. ~Answered' /\ Final(verdict'.fail)
      BY <1>6, <3>1 DEF Answered, Final
    <3> QED
      BY <1>0, <2>1, <2>3, <2>4, <2>5, <3>1, <3>2 DEF ResponsesInv, S, x
  <2> QED
    BY <2>6, <2>7
<1>10. CASE AnswerAtEOF
  <2>1. CompleteOnEOF(wire)
    BY <1>10 DEF AnswerAtEOF
  <2>2. wire = ResponsesTagged(x)
    BY <1>0
  <2> HIDE DEF x
  <2> QED
    BY <2>1, <2>2, ResponsesOperators
<1>11. ASSUME NEW ev \in Event, Forward(ev)
      PROVE  ResponsesInv(Route, Token)'
  <2> DEFINE v == Live(wire, ev)
  <2>1. /\ phase = "live" /\ seen' = Append(seen, ev) /\ wire' = v.wire /\ sent' = sent \o v.out
    BY <1>11 DEF Forward, Arrives
  <2>2. /\ ev \in S /\ wire' = ResponsesTagged(R!ResponsesLive(x, ev).wire)
        /\ v.fail = NoFail => v.out = <<ev>>
        /\ v.fail = NoFail /\ ~v.done => ev.kind \in Passing
        /\ v.fail = NoFail /\ v.done => ev = R!Completed
        /\ v.fail # NoFail =>
             \/ v.out = <<>>
             \/ /\ v.out = <<ev>> /\ ev.kind \in Sendable
                /\ ev \in {R!Completed, R!ErrorNative} => v.fail.delivered
    BY <1>1, <2>1
  <2>3. wire' = ResponsesTagged(wire'.state)
    BY <2>2 DEF ResponsesTagged
  <2>4. v.fail # NoFail \/ v.done => phase' = "ended" /\ verdict' = [wrote |-> TRUE, fail |-> v.fail]
    BY <1>11 DEF Forward, End
  <2>5. v.fail = NoFail /\ ~v.done => phase' = "live"
    BY <1>11, <2>1 DEF Forward
  <2> HIDE DEF v, x
  <2>6. sent \in Seq(S) /\ seen \in Seq(S) /\ R!Tokens(sent) = R!Tokens(seen)
        /\ KindsIn(sent, Passing) /\ KindsIn(seen, Passing)
    BY <1>0, <2>1
  <2>7. CASE v.out = <<>>
    <3>1. v.fail # NoFail
      BY <2>2, <2>7
    <3>2. sent' = sent
      <4> HIDE DEF S
      <4> QED
        BY <2>1, <2>6, <2>7, ConcatEmptySeq
    <3> HIDE DEF S
    <3>3. \E e \in R!Events(Route, Token) : seen' = Append(seen, e)
      BY <2>1, <2>2 DEF S
    <3>4. verdict'.fail # NoFail /\ phase # "ended" /\ phase' = "ended"
      BY <2>1, <2>4, <3>1
    <3> QED
      BY <2>2, <3>2, <3>3, <3>4, ResponsesInvEnds
  <2>8. CASE v.out = <<ev>>
    <3>1. sent' = Append(sent, ev)
      <4> HIDE DEF S
      <4> QED
        BY <2>1, <2>2, <2>6, <2>8, AppendIsConcat
    <3>2. sent' \in Seq(S) /\ seen' \in Seq(S)
      BY <2>1, <2>2, <2>6, <3>1, AppendProperties
    <3>3. R!Tokens(sent') = R!Tokens(seen')
      <4>1. /\ sent \in Seq(R!Events(Route, Token)) /\ seen \in Seq(R!Events(Route, Token))
            /\ ev \in R!Events(Route, Token) /\ R!Tokens(sent) = R!Tokens(seen)
        BY <2>2, <2>6
      <4>2. R!Tokens(Append(sent, ev)) = R!Tokens(Append(seen, ev))
        BY <4>1, TokensGrow
      <4> QED
        BY <2>1, <3>1, <4>2
    <3>4. IsPrefix(R!Tokens(sent'), R!Tokens(seen'))
      <4> DEFINE a == sent'
                 e == seen'
      <4>1. /\ a \in Seq(R!Events(Route, Token)) /\ e \in Seq(R!Events(Route, Token))
            /\ R!Tokens(a) = R!Tokens(e)
        BY <3>2, <3>3
      <4> HIDE DEF a, e
      <4>2. IsPrefix(R!Tokens(a), R!Tokens(e))
        BY <2>2, <4>1, TokensGrow
      <4> QED
        BY <4>2 DEF a, e
    <3>5. R!EndsTurn(sent') <=> ev \in {R!Completed, R!ErrorNative}
      BY <2>2, <2>6, <3>1, PassingEndsNoTurn
    <3>6. KindsIn(sent', Sendable)
      <4>1. ev.kind \in Sendable
        <5>1. R!Completed.kind \in Sendable /\ \A k \in Passing : k \in Sendable
          BY DEF R!Completed, R!Plain, Sendable
        <5> QED
          BY <2>2, <2>8, <5>1
      <4> QED
        BY <2>2, <2>6, <3>1, <4>1, PassingEndsNoTurn, KindsAppended
    <3>7. phase' # "ended" => KindsIn(seen', Passing) /\ KindsIn(sent', Passing)
      <4>1. phase' # "ended" => ev.kind \in Passing
        BY <2>2, <2>4
      <4> QED
        BY <2>1, <2>2, <2>6, <3>1, <4>1, KindsAppended
    <3>8. Answered' => R!EndsTurn(sent')
      <4>1. Answered' => v.fail = NoFail /\ v.done
        BY <2>4, <2>5 DEF Answered
      <4> QED
        BY <2>2, <3>5, <4>1
    <3>9. phase' = "ended" /\ R!EndsTurn(sent') => Final(verdict'.fail)
      <4>1. phase' = "ended" => verdict'.fail = v.fail
        BY <2>4, <2>5
      <4> QED
        BY <2>2, <2>8, <3>5, <4>1 DEF Final
    <3>10. phase' \in {"live", "ended"}
      BY <2>4, <2>5
    <3> HIDE DEF S
    <3> QED
      BY <2>3, <3>2, <3>3, <3>4, <3>6, <3>7, <3>8, <3>9, <3>10 DEF ResponsesInv, S
  <2> QED
    BY <2>2, <2>7, <2>8
<1>12. CASE Ended \/ UNCHANGED vars
  BY <1>12 DEF Ended, vars, ResponsesInv, Answered
<1> QED
  BY <1>2, <1>3, <1>4, <1>8, <1>9, <1>10, <1>11, <1>12 DEF Next

\* Joining adjacent deltas loses, repeats and reorders nothing that a client
\* accumulates, for every route, token and size of a group, wherever the commit
\* fell (responses.go, responsesReplayCoalescer and live).
THEOREM ResponsesTextIsKept ==
    ASSUME NEW Route, NEW Token, ResponsesStream(Route, Token)
    PROVE  Spec => []TextIsKept
<1>1. Init => ResponsesInv(Route, Token)
  BY ResponsesInvInit
<1>2. ResponsesInv(Route, Token) /\ [Next]_vars => ResponsesInv(Route, Token)'
  BY ResponsesInvNext
<1>3. ResponsesInv(Route, Token) => TextIsKept
  BY DEF ResponsesInv, TextIsKept
<1> QED
  BY <1>1, <1>2, <1>3, PTL DEF Spec
=============================================================================
