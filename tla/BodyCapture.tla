----------------------------- MODULE BodyCapture -----------------------------
(***************************************************************************)
(* bodyCapture of requestlog.go, the archive's best-effort copy of a body: *)
(* it moves from memory to a file when it outgrows its limit, and a file   *)
(* may fail at any step.  A body is a sequence of pieces of one unit each. *)
(***************************************************************************)
EXTENDS Naturals, Sequences

CONSTANT MemoryLimit   \* requestArchiveMemoryLimit, in pieces

ASSUME MemoryLimitAssumption == MemoryLimit \in Nat

\* size stands for the hash too: both cover every piece ever written.
NewCapture == [buf |-> <<>>, file |-> <<>>, inFile |-> FALSE, size |-> 0, err |-> FALSE]

\* Seeded fault: the pieces kept in memory are not moved to the file.
CaptureWritesForgetting(c, p) ==
    LET d == [c EXCEPT !.size = @ + 1]
    IN  IF c.err THEN {d}
        ELSE IF c.inFile THEN {[d EXCEPT !.file = Append(@, p)], [d EXCEPT !.err = TRUE]}
        ELSE IF Len(c.buf) < MemoryLimit THEN {[d EXCEPT !.buf = Append(@, p)]}
        ELSE {[d EXCEPT !.inFile = TRUE, !.buf = <<>>, !.file = <<p>>], [d EXCEPT !.err = TRUE]}

\* Write: what may come of one piece.  A failed file write ends the copy; when
\* the move to the file fails the pieces in memory are still the copy.
CaptureWrites(c, p) ==
    LET d     == [c EXCEPT !.size = @ + 1]
        moved == [d EXCEPT !.inFile = TRUE, !.buf = <<>>, !.file = c.buf]
    IN  IF c.err THEN {d}
        ELSE IF c.inFile THEN {[d EXCEPT !.file = Append(@, p)], [d EXCEPT !.err = TRUE]}
        ELSE IF Len(c.buf) < MemoryLimit THEN {[d EXCEPT !.buf = Append(@, p)]}
        ELSE {[moved EXCEPT !.file = Append(@, p)], [moved EXCEPT !.err = TRUE],
              [d EXCEPT !.err = TRUE]}

\* noteResponseReadError; the first error is the one that is kept.
NoteReadError(c, broken) == [c EXCEPT !.err = @ \/ broken]

\* archiveBody: the data that is written to the archive.
ArchivedData(c) == IF c.inFile THEN c.file ELSE c.buf

=============================================================================
