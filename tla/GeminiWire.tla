------------------------------ MODULE GeminiWire ------------------------------
(***************************************************************************)
(* The Gemini wire (geminiWire in gemini.go).  It has no terminal event:   *)
(* every requested candidate must finish, or the prompt be blocked, and    *)
(* the transport must then end cleanly.                                    *)
(*                                                                         *)
(* An event is [kind, candidates, blocked]; a candidate of a chunk is      *)
(* [index, content, finish]: whether it carries content parts and whether  *)
(* it carries a finish reason.                                             *)
(***************************************************************************)
EXTENDS Integers, Sequences, SequencesExt, FiniteSets, Failures

CONSTANT CandidateCount   \* candidates the request asked for

Candidate(i, content, finish) == [index |-> i, content |-> content, finish |-> finish]

Plain(kind)       == [kind |-> kind, candidates |-> <<>>, blocked |-> FALSE]
Chunk(candidates) == [Plain("chunk") EXCEPT !.candidates = candidates]

Control        == Plain("control")   \* an SSE control frame, no data
Usage          == Plain("chunk")     \* a usage-only chunk
Blocked        == [Plain("chunk") EXCEPT !.blocked = TRUE]
NotJSON        == Plain("malformed") \* not an object, or of the wrong shape
ErrorTransient == Plain("error_transient")
ErrorTerminal  == Plain("error_terminal")

Index == 0 .. CandidateCount - 1

Candidates == [index: Int, content: BOOLEAN, finish: BOOLEAN]

\* Every event there is: only a chunk has candidates or blocks the prompt.
Events ==
    {ev \in [kind: {"control", "chunk", "malformed", "error_transient", "error_terminal"},
             candidates: Seq(Candidates), blocked: BOOLEAN] :
        ev.kind # "chunk" => ev = Plain(ev.kind)}

-----------------------------------------------------------------------------

\* state[i] merges the candidates map (absent, present) with finished.
GeminiInit ==
    [state |-> [i \in Index |-> "absent"], finished |-> 0, blocked |-> FALSE,
     failed |-> FALSE, sawContent |-> FALSE]

\* Seeded fault: a candidate may go on after its finish reason.
RejectedUnlessFinished(w, cs, k) ==
    \/ cs[k].index \notin Index
    \/ \E j \in 1 .. k - 1 : cs[j].index = cs[k].index

\* Candidate k of a chunk is out of range, the second of its index in the
\* chunk, or has content although it finished in an earlier one.
Rejected(w, cs, k) ==
    \/ cs[k].index \notin Index
    \/ \E j \in 1 .. k - 1 : cs[j].index = cs[k].index
    \/ cs[k].content /\ w.state[cs[k].index] = "finished"

\* The first rejected candidate ends the chunk.
Accepted(w, cs) == {k \in DOMAIN cs : \A j \in 1 .. k : ~Rejected(w, cs, j)}

\* What the accepted ones change stays changed.
AcceptCandidates(w, cs) ==
    LET taken     == {cs[k] : k \in Accepted(w, cs)}
        finishing == {c.index : c \in {d \in taken : d.finish}}
        after(i)  == IF w.state[i] = "finished" \/ i \in finishing THEN "finished"
                     ELSE IF \E c \in taken : c.index = i THEN "open" ELSE w.state[i]
    IN  [w EXCEPT !.state = [i \in Index |-> after(i)],
                  !.finished = @ + Cardinality({i \in finishing : w.state[i] # "finished"}),
                  !.sawContent = @ \/ \E c \in taken : c.content]

AcceptChunk(w, ev) ==
    LET next == AcceptCandidates(w, ev.candidates)
    IN  IF Accepted(w, ev.candidates) # DOMAIN ev.candidates
        THEN [wire |-> next, fail |-> MalformedSSE]
        ELSE [wire |-> [next EXCEPT !.blocked = @ \/ ev.blocked], fail |-> NoFail]

Accept(w, ev) ==
    CASE ev.kind = "control" -> [wire |-> w, fail |-> NoFail]
      [] ev.kind = "malformed" -> [wire |-> w, fail |-> MalformedSSE]
      [] ev.kind = "error_transient" -> [wire |-> w, fail |-> InBandTransient]
      [] ev.kind = "error_terminal" -> [wire |-> w, fail |-> InBandTerminal]
      [] OTHER -> AcceptChunk(w, ev)

GeminiBuffered(w, ev) ==
    LET a == Accept(w, ev)
    IN  [wire |-> [a.wire EXCEPT !.failed = @ \/ a.fail # NoFail],
         done |-> FALSE, fail |-> a.fail]

\* Only a terminal error frame is forwarded with its failure.
GeminiLive(w, ev) ==
    LET a == Accept(w, ev)
        verdict(failed, sent, fail) ==
            [wire |-> [a.wire EXCEPT !.failed = @ \/ failed], out |-> sent,
             done |-> FALSE, fail |-> fail]
    IN  IF a.fail = NoFail THEN verdict(FALSE, <<ev>>, NoFail)
        ELSE IF a.fail.transient THEN verdict(TRUE, <<>>, a.fail)
        ELSE verdict(TRUE, <<ev>>, Delivered(a.fail))

\* Seeded fault: a blocked prompt completes whatever the candidates did.
GeminiCompleteOnEOFIfBlocked(w) ==
    ~w.failed /\ (w.blocked \/ w.finished = CandidateCount)

GeminiCompleteOnEOF(w) ==
    IF w.blocked
    THEN ~w.failed /\ \A i \in Index : w.state[i] = "absent"
    ELSE ~w.failed /\ w.finished = CandidateCount

GeminiForwardable(w) == w.sawContent

GeminiReplay(w, evs) == [wire |-> w, out |-> evs, fail |-> NoFail]

-----------------------------------------------------------------------------
(* What a complete Gemini answer is, stated without the wire's counters    *)

CandidatesOf(evs) == UNION {ToSet(evs[i].candidates) : i \in DOMAIN evs}

\* Every requested candidate finished, or the prompt was blocked and there is
\* no candidate at all.
CompleteAnswer(evs) ==
    IF \E i \in DOMAIN evs : evs[i].blocked
    THEN CandidatesOf(evs) = {}
    ELSE \A i \in Index : \E c \in CandidatesOf(evs) : c.index = i /\ c.finish

\* No candidate has content in an event after the one it finished in.
NothingAfterFinish(evs) ==
    \A i, j \in DOMAIN evs : i < j =>
        \A c \in ToSet(evs[i].candidates), d \in ToSet(evs[j].candidates) :
            c.index = d.index /\ c.finish => ~d.content

=============================================================================
