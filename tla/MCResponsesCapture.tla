------------------------- MODULE MCResponsesCapture -------------------------
(***************************************************************************)
(* The stream engine on the Responses wire, where a stream commits at its  *)
(* first output event.                                                     *)
(***************************************************************************)
EXTENDS WireCaptures

MCWires == {ResponsesWireOf}

MCEvent ==
    {R!Meta, R!Text("a", <<"x">>), R!Completed, R!BadCompleted,
     R!ErrorTransient, R!ErrorTerminal, R!ErrorNative}

=============================================================================
