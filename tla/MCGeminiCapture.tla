--------------------------- MODULE MCGeminiCapture ---------------------------
(***************************************************************************)
(* The stream engine on the Gemini wire, where a clean end of the          *)
(* transport is the only end of an answer.                                 *)
(***************************************************************************)
EXTENDS WireCaptures

MCWires == {GeminiWireOf}

\* Candidates that end apart, one of them again, and the other verdicts.
MCEvent ==
    {G!Chunk(<<G!Candidate(0, TRUE, TRUE)>>), G!Chunk(<<G!Candidate(1, TRUE, TRUE)>>),
     G!Blocked, G!ErrorTerminal}

=============================================================================
