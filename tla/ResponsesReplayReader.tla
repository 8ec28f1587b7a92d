------------------------- MODULE ResponsesReplayReader -------------------------
(***************************************************************************)
(* Replay of a buffered Responses stream (replayResponsesReader in         *)
(* responses.go): the events the parser took from the upstream lie in the  *)
(* spool as bytes, and are framed again, without materializing a large     *)
(* one, so that small text deltas can be joined.  The reads of the spool   *)
(* split it anywhere, as the upstream's did the stream.                    *)
(***************************************************************************)
EXTENDS SseParser

CONSTANT MaxGroup   \* replayDeltaBytes, in tokens

ASSUME ReplayAssumption == MaxGroup \in Nat \ {0}

VARIABLES
    spool,     \* the bytes not yet read
    reader     \* frame, passthrough, lineHasData, pendingCR, frameDone, the
               \* segment of the chunk not yet appended, what was handed on,
               \* and whether it returned

replayVars == <<parserVars, spool, reader>>

NewReader == [frame |-> <<>>, passthrough |-> FALSE, lineHasData |-> FALSE,
              pendingCR |-> FALSE, frameDone |-> FALSE, segment |-> <<>>,
              items |-> <<>>, returned |-> FALSE]

\* A frame is offered to the coalescer (acceptFrame); other bytes are written
\* as they are, after a flush of what the coalescer holds.
Frame(bytes)  == [framed |-> TRUE, bytes |-> bytes]
Opaque(bytes) == [framed |-> FALSE, bytes |-> bytes]

\* appendBytes, for the current segment
AppendSegment(r) ==
    LET taken == [r EXCEPT !.segment = <<>>]
    IN  CASE r.segment = <<>> -> r
          [] r.segment # <<>> /\ r.passthrough ->
                [taken EXCEPT !.items = Append(@, Opaque(r.segment))]
          [] r.segment # <<>> /\ ~r.passthrough
                /\ Len(r.frame) + Len(r.segment) > MaxGroup ->
                [taken EXCEPT !.items = @ \o <<Opaque(r.frame), Opaque(r.segment)>>,
                              !.frame = <<>>, !.passthrough = TRUE]
          [] OTHER -> [taken EXCEPT !.frame = @ \o r.segment]

FinishFrame(r) ==
    [r EXCEPT !.items = IF r.passthrough THEN @ ELSE Append(@, Frame(r.frame)),
              !.frame = <<>>, !.passthrough = FALSE]

\* A byte that is not the second half of a line ending.
OrdinaryByte(r, byte) ==
    LET s == [r EXCEPT !.segment = Append(@, byte)]
    IN  CASE byte = "CR" ->
                [s EXCEPT !.pendingCR = TRUE, !.frameDone = ~r.lineHasData,
                          !.lineHasData = FALSE]
          [] byte = "LF" /\ r.lineHasData -> [s EXCEPT !.lineHasData = FALSE]
          [] byte = "LF" /\ ~r.lineHasData -> FinishFrame(AppendSegment(s))
          [] OTHER -> [s EXCEPT !.lineHasData = TRUE]

\* Seeded fault: a frame that ends in CR LF is finished before its LF.
ReadByteEager(r, byte) ==
    LET s    == [r EXCEPT !.pendingCR = FALSE]
        done == [FinishFrame(AppendSegment(s)) EXCEPT !.frameDone = FALSE]
    IN  IF r.pendingCR /\ r.frameDone THEN OrdinaryByte(done, byte)
        ELSE IF r.pendingCR /\ byte = "LF" THEN [s EXCEPT !.segment = Append(@, byte)]
        ELSE OrdinaryByte(s, byte)

\* After a carriage return a line feed belongs to the same ending, even in the
\* next chunk, and the frame is finished only now.
ReadByte(r, byte) ==
    LET ended == byte = "LF"
        s     == [r EXCEPT !.pendingCR = FALSE,
                           !.segment = IF ended THEN Append(@, byte) ELSE @]
        t     == IF r.frameDone
                 THEN [FinishFrame(AppendSegment(s)) EXCEPT !.frameDone = FALSE] ELSE s
    IN  CASE ~r.pendingCR -> OrdinaryByte(r, byte)
          [] r.pendingCR /\ ended -> t
          [] OTHER -> OrdinaryByte(t, byte)

-----------------------------------------------------------------------------

ReplayInit == ParserInit /\ spool = <<>> /\ reader = [NewReader EXCEPT !.returned = TRUE]

\* The upstream's events go to the spool until the stream is complete, which
\* its wire may say after any of them, and the replay starts.
Complete ==
    /\ ~feeding /\ spool = <<>> /\ reader.returned /\ reader.items = <<>>
    /\ events # <<>>
    /\ spool' = FlattenSeq([k \in DOMAIN events |-> events[k].raw])
    /\ reader' = NewReader
    /\ UNCHANGED parserVars

\* One read and the loop over its bytes.
ReadSpool ==
    /\ ~reader.returned /\ spool # <<>>
    /\ \E n \in 1 .. Min({MaxRead, Len(spool)}) :
         /\ reader' = AppendSegment(FoldLeft(ReadByte, reader, SubSeq(spool, 1, n)))
         /\ spool' = SubSeq(spool, n + 1, Len(spool))
    /\ UNCHANGED parserVars

\* The end of the spool: a last carriage return ends its frame, an unfinished
\* one is written as it is.
SpoolEnds ==
    /\ ~reader.returned /\ spool = <<>>
    /\ LET last == IF reader.pendingCR /\ reader.frameDone THEN FinishFrame(reader)
                   ELSE reader
       IN  reader' = [last EXCEPT !.returned = TRUE,
                         !.items = IF last.frame = <<>> THEN @
                                   ELSE Append(@, Opaque(last.frame))]
    /\ UNCHANGED parserVars
    /\ UNCHANGED spool

ReplayNext ==
    \/ reader = [NewReader EXCEPT !.returned = TRUE] /\ ParserNext /\ UNCHANGED <<spool, reader>>
    \/ Complete \/ ReadSpool \/ SpoolEnds

ReplaySpec == ReplayInit /\ [][ReplayNext]_replayVars

-----------------------------------------------------------------------------
(* Properties                                                              *)

\* simpleResponsesSSEFrame: every line of the frame is a data line, and there
\* is one.
Simple(bytes) ==
    LET ends  == LineEnds(bytes, TRUE)
        start == {1} \cup {e + 1 : e \in ends}
        lines == {i \in start \cap DOMAIN bytes : bytes[i] \notin {"CR", "LF"}}
    IN  (\A i \in lines : bytes[i] = "data") /\ Cardinality(lines) = 1

\* The replay hands on every byte of the response once and in order; exactly
\* the events that fit a group come as frames, each with its own bytes, and
\* larger ones pass through; what may be joined is an event the engine took
\* for one line of data; and no more than a group of bytes is ever collected.
ReplayKeepsFrames ==
    /\ Len(reader.frame) <= MaxGroup
    /\ reader.returned /\ reader.items # <<>> =>
         LET small == SelectSeq(events, LAMBDA e : Len(e.raw) <= MaxGroup)
         IN  /\ FlattenSeq([i \in DOMAIN reader.items |-> reader.items[i].bytes])
                  = FlattenSeq([k \in DOMAIN events |-> events[k].raw])
             /\ SelectSeq(reader.items, LAMBDA item : item.framed)
                  = [k \in DOMAIN small |-> Frame(small[k].raw)]
             /\ \A k \in DOMAIN small : Simple(small[k].raw) => small[k].data = 1

=============================================================================
