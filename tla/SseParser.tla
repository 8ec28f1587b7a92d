------------------------------- MODULE SseParser -------------------------------
(***************************************************************************)
(* The incremental SSE parser of sse.go (sseParser), fed by reads that     *)
(* split the upstream's bytes anywhere.  A token stands for a run of bytes *)
(* that no read splits in a way that matters: a line ending is two tokens  *)
(* at most, and of a line only its first token decides what it is.         *)
(***************************************************************************)
EXTENDS Naturals, SequencesExt

CONSTANTS
    MaxEvent,    \* maxEventBytes, in tokens
    MaxStream,   \* bound: tokens of a stream
    MaxRead      \* bound: tokens of a read

ASSUME ParserAssumption ==
    MaxEvent \in Nat \ {0} /\ MaxStream \in Nat /\ MaxRead \in Nat \ {0}

\* The byte order mark, the two line endings and the starts of a data line, of
\* a comment and of any other line.
Bytes == {"BOM", "CR", "LF", "data", "comment", "field"}

VARIABLES
    parser,    \* curRaw, lineStart, cr, started, cur (as has, data) and err
    events,    \* what it emitted: the raw bytes and the number of data lines
    b,         \* the part of the chunk feedChunk has not looked at
    feeding,   \* feedChunk is running
    fed, eof   \* the whole stream so far, and whether it has ended

parserVars == <<parser, events, b, feeding, fed, eof>>

NewParser == [curRaw |-> <<>>, lineStart |-> 0, cr |-> FALSE, started |-> FALSE,
              has |-> FALSE, data |-> 0, err |-> FALSE]

ParserInit ==
    /\ parser = NewParser /\ events = <<>>
    /\ b = <<>> /\ feeding = FALSE
    /\ fed = <<>> /\ eof = FALSE

\* The reader's next chunk; the last one may come with the end of the stream.
ReadChunk ==
    /\ ~feeding /\ ~eof /\ ~parser.err
    /\ \E n \in 0 .. MaxRead : \E chunk \in [1 .. n -> Bytes] : \E last \in BOOLEAN :
         /\ n > 0 \/ last
         /\ Len(fed) + n <= MaxStream
         /\ b' = chunk /\ fed' = fed \o chunk /\ eof' = last
    /\ feeding' = TRUE
    /\ UNCHANGED <<parser, events>>

Fits(piece) == Len(parser.curRaw) + Len(piece) <= MaxEvent

TooLarge ==
    /\ parser' = [parser EXCEPT !.err = TRUE]
    /\ feeding' = FALSE
    /\ UNCHANGED <<events, b, fed, eof>>

\* finishLine on the raw bytes of the event so far, the last of them the line's
\* ending: a blank line emits the event if a field came before it, and drops
\* comments that belong to none.
FinishLine(raw, ending) ==
    LET all   == SubSeq(raw, parser.lineStart + 1, Len(raw) - ending)
        line  == IF ~parser.started /\ all # <<>> /\ Head(all) = "BOM" THEN Tail(all) ELSE all
        blank == line = <<>>
    IN  /\ parser' =
             CASE blank -> [NewParser EXCEPT !.started = TRUE]
               [] ~blank /\ Head(line) = "comment" ->
                    [parser EXCEPT !.curRaw = raw, !.lineStart = Len(raw),
                                   !.cr = FALSE, !.started = TRUE]
               [] OTHER ->
                    [parser EXCEPT !.curRaw = raw, !.lineStart = Len(raw),
                                   !.cr = FALSE, !.started = TRUE, !.has = TRUE,
                                   !.data = @ + IF Head(line) = "data" THEN 1 ELSE 0]
        /\ events' = IF blank /\ parser.has
                     THEN Append(events, [raw |-> raw, data |-> parser.data]) ELSE events

\* Seeded fault: a line feed that opens a chunk is not taken for the second
\* half of the line ending before it.
LookaheadForgets ==
    /\ feeding /\ parser.cr /\ (b # <<>> \/ eof)
    /\ FinishLine(parser.curRaw, 1)
    /\ UNCHANGED <<b, feeding, fed, eof>>

\* The line that ended in a carriage return takes a following line feed along;
\* it waits for the next chunk to know.
Lookahead ==
    /\ feeding /\ parser.cr /\ (b # <<>> \/ eof)
    /\ IF b # <<>> /\ Head(b) = "LF"
       THEN IF Fits(<<"LF">>)
            THEN /\ FinishLine(Append(parser.curRaw, "LF"), 2)
                 /\ b' = Tail(b)
                 /\ UNCHANGED <<feeding, fed, eof>>
            ELSE TooLarge
       ELSE /\ FinishLine(parser.curRaw, 1)
            /\ UNCHANGED <<b, feeding, fed, eof>>

\* The next piece of the chunk, up to the end of a line.
Piece ==
    LET ends == {i \in DOMAIN b : b[i] \in {"CR", "LF"}}
    IN  SubSeq(b, 1, IF ends = {} THEN Len(b) ELSE Min(ends))

TakePiece ==
    /\ feeding /\ ~parser.cr /\ b # <<>>
    /\ IF ~Fits(Piece) THEN TooLarge
       ELSE LET raw == parser.curRaw \o Piece
            IN  /\ b' = SubSeq(b, Len(Piece) + 1, Len(b))
                /\ IF Last(raw) = "LF" THEN FinishLine(raw, 1)
                   ELSE /\ parser' = [parser EXCEPT !.curRaw = raw,
                                                    !.cr = Last(raw) = "CR"]
                        /\ UNCHANGED events
                /\ UNCHANGED <<feeding, fed, eof>>

\* feedChunk returns.
Fed ==
    /\ feeding /\ b = <<>> /\ ~(parser.cr /\ eof)
    /\ feeding' = FALSE
    /\ UNCHANGED <<parser, events, b, fed, eof>>

ParserNext == ReadChunk \/ Lookahead \/ TakePiece \/ Fed

\* The clean end that captureSSECore asks for.
EndsFramed == ~parser.has /\ parser.lineStart = Len(parser.curRaw)

-----------------------------------------------------------------------------
(* What the stream means, whatever the reads                               *)

\* The ends of the lines of s: a CR that may still be followed by an LF is one
\* only once the stream has ended.
LineEnds(s, ended) ==
    {i \in DOMAIN s :
        \/ s[i] = "LF"
        \/ s[i] = "CR" /\ IF i = Len(s) THEN ended ELSE s[i + 1] # "LF"}

\* The line that ends at e, one of the line ends of s, without its ending and
\* the stream's own mark.
Line(s, ends, e) ==
    LET before == {i \in ends : i < e}
        first  == IF before = {} THEN 1 ELSE Max(before) + 1
        end    == IF s[e] = "LF" /\ e > first /\ s[e - 1] = "CR" THEN e - 2 ELSE e - 1
        start  == IF first = 1 /\ s[1] = "BOM" THEN 2 ELSE first
    IN  SubSeq(s, start, end)

BlankEnds(s, ends) == {e \in ends : Line(s, ends, e) = <<>>}

FieldEnds(s, ends, from, to) ==
    {e \in ends \cap (from .. to) :
        Line(s, ends, e) # <<>> /\ Head(Line(s, ends, e)) # "comment"}

\* The blocks of s that a blank line ends, and what is left at its end.
Blocks(s, ends) ==
    LET blanks == BlankEnds(s, ends)
    IN  {[from |-> 1 + Max({0} \cup {i \in blanks : i < e}), to |-> e] :
            e \in blanks \cup {Len(s) + 1}}

\* Where the first block that is too large begins, if there is one: what is
\* left is measured as far as it goes.
Overlong(s, ends) ==
    {k.from : k \in {k \in Blocks(s, ends) : Min({k.to, Len(s)}) + 1 - k.from > MaxEvent}}

\* The events of the stream: the blocks before an overlong one with a field.
EventsOf(s, ended) ==
    LET ends == LineEnds(s, ended)
        overlong == Overlong(s, ends)
        Fields(k) == FieldEnds(s, ends, k.from, k.to)
        whole == {k \in Blocks(s, ends) :
                    /\ k.to <= Len(s) /\ Fields(k) # {}
                    /\ \A i \in overlong : k.to < i}
        At(k) == [raw |-> SubSeq(s, k.from, k.to),
                  data |-> Cardinality({f \in Fields(k) : Head(Line(s, ends, f)) = "data"})]
    IN  [n \in 1 .. Cardinality(whole) |->
            At(SetToSortSeq(whole, LAMBDA j, k : j.to < k.to)[n])]

-----------------------------------------------------------------------------
(* Properties                                                              *)

\* The parser emits the same events, with the same bytes, gives up at the same
\* event and finds the same clean end however the reads split the stream:
\* inside a line, between the halves of a line ending, after the byte order
\* mark or right before the end.
ChunkingIsInvisible ==
    ~feeding =>
        LET ends == LineEnds(fed, eof)
            tail == CHOOSE k \in Blocks(fed, ends) : k.to = Len(fed) + 1
        IN  /\ events = EventsOf(fed, eof)
            /\ parser.err <=> Overlong(fed, ends) # {}
            /\ eof /\ ~parser.err =>
                 (EndsFramed <=> /\ FieldEnds(fed, ends, tail.from, tail.to) = {}
                                 /\ fed = <<>> \/ Len(fed) \in ends)

=============================================================================
