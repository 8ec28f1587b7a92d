------------------------- MODULE MCAnthropicCapture -------------------------
(***************************************************************************)
(* The stream engine on the Anthropic wire for a Workflow agent: the       *)
(* commit waits for content, and a complete refusal that is still buffered *)
(* is kept from the client.                                                *)
(***************************************************************************)
EXTENDS WireCaptures

\* captureSSECore sets the wire's streamToolDeltas from progressGated.
MCWires == {AnthropicWireOf(ProgressGated)}

MCEvent ==
    {A!MessageStart, A!TextDelta(0), A!StopReason("refusal"), A!MessageStop}

=============================================================================
