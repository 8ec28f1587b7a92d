----------------------------- MODULE MCTransport -----------------------------
(***************************************************************************)
(* Exchanges of every consumer, with and without an archive, whose window  *)
(* is already over, ends during the exchange, or does not exist.           *)
(***************************************************************************)
EXTENDS Transport

MCCalls ==
    {c \in [consumer: {"buffer", "error", "once"}, archived: BOOLEAN,
            commitBy: {0, 3, Never}] : c.consumer = "once" => c.commitBy = Never}

\* Error bodies that are archived.
ArchivedErrors == {c \in MCCalls : c.consumer = "error" /\ c.archived}

=============================================================================
