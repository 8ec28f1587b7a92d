---------------------------- MODULE AnthropicProofs ----------------------------
(***************************************************************************)
(* What a client of the Anthropic wire is given, for every stream of its   *)
(* events and whichever of the checks is on: a stream that ends in success *)
(* delivers what it was sent (SuccessKeepsContent), the client is never    *)
(* ahead of the upstream (NeverAhead), and a buffered answer can be        *)
(* delivered (BufferIsDeliverable).                                        *)
(*                                                                         *)
(* The normalizer holds the deltas of a tool's input back and writes them  *)
(* anew, so what it is given and what it writes differ frame by frame and  *)
(* agree by two readings: the input of every block, and everything else in *)
(* order.  The first half of the module follows a stream through the       *)
(* normalizer by these readings (Tracks), the second half the wire through *)
(* a stream (AnthropicInv), and the last part what the wire knows of a     *)
(* refusal and of content while it buffers (RefusalInv).                   *)
(***************************************************************************)
EXTENDS WireStreams, SequenceTheorems, TLAPS

-----------------------------------------------------------------------------
(* The checks and the sentinel of a refusal                                *)

\* The verdict of the Anthropic checks is never the sentinel.
LEMMA ToolCheckFails ==
  ASSUME NEW w, NEW ev
  PROVE  A!ToolCheck(w, ev).fail \in
           {A!NoFail, A!MalformedSSE, A!InBandTransient,
            A!InBandTerminal}
<1>1. CASE ev.type = "error"
  BY <1>1 DEF A!ToolCheck, A!ErrorFailure
<1>2. CASE ev.type # "error" /\ ~ValidateJSON
  BY <1>2 DEF A!ToolCheck
<1>3. CASE ev.type # "error" /\ ValidateJSON
  <2>1. A!ToolAccept(w.tool, ev).fail \in {A!NoFail, A!MalformedSSE}
    <3>1. \E bs, t : \/ A!ToolAccept(w.tool, ev) = A!Judged(bs, t, A!NoFail)
                    \/ A!ToolAccept(w.tool, ev) = A!Judged(bs, t, A!MalformedSSE)
      BY Zenon DEF A!ToolAccept
    <3>2. \A bs, t, f : A!Judged(bs, t, f).fail = f
      BY DEF A!Judged
    <3> QED
      BY <3>1, <3>2
  <2> QED
    BY <1>3, <2>1 DEF A!ToolCheck
<1> QED
  BY <1>1, <1>2, <1>3

\* The normalizer fails only with a malformed stream.
LEMMA NormalizerFails ==
  ASSUME NEW n, NEW ev
  PROVE  A!NormalizerAccept(n, ev).fail \in
           {A!NoFail, A!MalformedSSE}
<1> DEFINE r == A!NormalizerAccept(n, ev)
<1>1. \/ \E bs, h, fs : r = A!Normalized(bs, h, fs)
      \/ r = [norm |-> n, out |-> <<>>, fail |-> A!MalformedSSE]
  BY Zenon DEF A!NormalizerAccept, A!JudgeHeld, A!CloseBlock
<1>2. \A bs, h, fs : A!Normalized(bs, h, fs).fail = A!NoFail
  BY DEF A!Normalized
<1> HIDE DEF r
<1>3. r.fail \in {A!NoFail, A!MalformedSSE}
  BY <1>1, <1>2
<1> QED
  BY <1>3 DEF r

\* The failures the wires know are not the sentinel, delivered or not.
LEMMA OthersAreNotTheSentinel ==
  ASSUME NEW f \in {A!NoFail, A!MalformedSSE,
                    A!InBandTransient, A!InBandTerminal,
                    A!ReplayFailed}
  PROVE  f # RefusalFallback /\ A!Delivered(f) # RefusalFallback
  BY DEF A!NoFail, A!MalformedSSE, A!InBandTransient,
         A!InBandTerminal, A!ReplayFailed, A!Delivered,
         A!Transient, A!Terminal, RefusalFallback, Terminal

\* A refusal on a committed Anthropic stream, or in a replay, is not taken for
\* one that can still be replaced (wire.go, live and the replays).
THEOREM AnthropicSentinelIsBuffered ==
    /\ \A w, ev : A!AnthropicLive(w, ev).fail # RefusalFallback
    /\ \A w, evs : A!AnthropicReplay(w, evs).fail # RefusalFallback
    /\ \A w, evs : A!AnthropicReplayPrefix(w, evs).fail # RefusalFallback
<1>1. ASSUME NEW w, NEW ev
      PROVE  A!AnthropicLive(w, ev).fail # RefusalFallback
  <2> DEFINE x    == A!Scrape(w, ev)
             chk  == A!ToolCheck(x, ev)
             norm == A!NormalizerAccept(x.norm, ev)
  <2>1. A!AnthropicLive(w, ev).fail \in
          {chk.fail, A!Delivered(chk.fail), norm.fail, A!NoFail}
    BY DEF A!AnthropicLive
  <2>2. chk.fail # RefusalFallback /\ A!Delivered(chk.fail) # RefusalFallback
    BY ToolCheckFails, OthersAreNotTheSentinel
  <2>3. norm.fail # RefusalFallback /\ A!NoFail # RefusalFallback
    BY NormalizerFails, OthersAreNotTheSentinel
  <2> QED
    BY <2>1, <2>2, <2>3
<1>2. ASSUME NEW w, NEW evs
      PROVE  /\ A!AnthropicReplay(w, evs).fail # RefusalFallback
             /\ A!AnthropicReplayPrefix(w, evs).fail # RefusalFallback
  <2>1. /\ A!AnthropicReplay(w, evs).fail
             \in {A!NoFail, A!ReplayFailed}
        /\ A!AnthropicReplayPrefix(w, evs).fail
             \in {A!NoFail, A!ReplayFailed}
    BY DEF A!AnthropicReplay, A!AnthropicReplayPrefix
  <2> QED
    BY <2>1, OthersAreNotTheSentinel
<1> QED
  BY <1>1, <1>2

\* (A name for concatenation, which keeps it out of the way of the prover.)
Joins(st, s, t) == st = s \o t

\* A sequence is a prefix of what continues it.
LEMMA PrefixOfConcat ==
    ASSUME NEW S, NEW s \in Seq(S), NEW t \in Seq(S)
    PROVE  IsPrefix(s, s \o t)
<1> DEFINE u == s \o t
<1>1. /\ u \in Seq(S) /\ Len(u) = Len(s) + Len(t) /\ Len(s) \in Nat /\ Len(t) \in Nat
      /\ \A i \in 1 .. Len(s) : u[i] = s[i] /\ s[i] \in S
  BY ConcatProperties, LenProperties
<1> HIDE DEF u
<1>2. SubSeq(s, 1, Len(s)) = SubSeq(u, 1, Len(s))
  BY <1>1
<1> QED
  BY <1>1, <1>2 DEF IsPrefix, u

-----------------------------------------------------------------------------
(* The Anthropic wire: what the normalizer does to the content             *)

\* The two readings of a stream: the input of the block <<i>>, and all the
\* rest, <<>>.
ReadingOf(key, frame) ==
    IF key = <<>> THEN A!OtherPart(frame) ELSE A!InputPart(key[1], frame)

\* The facts about folds and readings, for the normalizer's step and these two.
NI == INSTANCE SequenceInduction WITH Op <- A!NormalizeNext, Part <- ReadingOf

\* An event, by its fields.
Fields(type, i, body, input) == [type |-> type, index |-> i, body |-> body, input |-> input]

\* The constructors of the events, as records of their fields.
LEMMA EventFields ==
    /\ \A t, b : A!Event0(t, b) = Fields(t, 0, b, <<>>)
    /\ \A t, i, b : A!Block(t, i, b) = Fields(t, i, b, <<>>)
    /\ \A i, s : A!InputDelta(i, s) = Fields("content_block_delta", i, "input_json_delta", s)
<1>1. \A t, b : A!Event0(t, b) = Fields(t, 0, b, <<>>)
  BY DEF A!Event0, Fields
<1>2. \A t, i, b : A!Block(t, i, b) = Fields(t, i, b, <<>>)
  BY <1>1 DEF A!Block, Fields
<1>3. \A i, s : A!InputDelta(i, s) = Fields("content_block_delta", i, "input_json_delta", s)
  BY <1>2 DEF A!InputDelta, Fields
<1> QED
  BY <1>1, <1>2, <1>3

\* What a member of Events looks like.
AnthropicShape(ev) ==
    /\ ev.index \in Int /\ ev.input \in Seq(A!Fragments)
    /\ A!IsInputDelta(ev) => ev = A!InputDelta(ev.index, ev.input)
    /\ ev.type = "message_stop" <=> ev = A!MessageStop
    /\ ev.type = "message_delta" =>
         ev = A!StopReason(ev.body) /\ ev.body \in {"", "end_turn", "refusal", "limit"}
    /\ ev.type = "" <=> ev = A!Bare
    /\ ev.type = "ping" <=> ev = A!Ping

\* Fields of the kinds there are make an event of that shape.
LEMMA FieldsShape ==
    ASSUME NEW t, NEW i \in Int, NEW b, NEW s \in Seq(A!Fragments),
           NEW ev, ev = Fields(t, i, b, s),
           (t = "content_block_delta" /\ b = "input_json_delta") \/ s = <<>>,
           t \in {"message_stop", "ping", ""} => i = 0 /\ b = "",
           t = "message_delta" => i = 0 /\ b \in {"", "end_turn", "refusal", "limit"}
    PROVE  AnthropicShape(ev)
<1>1. /\ ev.type = t /\ ev.index = i /\ ev.body = b /\ ev.input = s
  BY DEF Fields
<1>2. /\ A!MessageStop = Fields("message_stop", 0, "", <<>>)
      /\ A!Bare = Fields("", 0, "", <<>>) /\ A!Ping = Fields("ping", 0, "", <<>>)
      /\ A!StopReason(b) = Fields("message_delta", 0, b, <<>>)
  BY EventFields DEF A!MessageStop, A!Bare, A!Ping, A!StopReason
<1>3. \A i2, s2 : A!InputDelta(i2, s2) = Fields("content_block_delta", i2, "input_json_delta", s2)
  BY EventFields
<1>4. A!IsInputDelta(ev) => ev = A!InputDelta(ev.index, ev.input)
  BY <1>1, <1>3 DEF A!IsInputDelta
<1>5. \A u, j, c, r : Fields(u, j, c, r).type = u
  BY DEF Fields
<1> HIDE DEF Fields
<1>6. /\ t = "message_stop" <=> ev = A!MessageStop
      /\ t = "" <=> ev = A!Bare
      /\ t = "ping" <=> ev = A!Ping
  <2>1. ASSUME NEW u, u \in {"message_stop", "ping", ""}, NEW x, x = Fields(u, 0, "", <<>>)
        PROVE  t = u <=> ev = x
    <3>1. CASE t = u
      BY <2>1, <3>1
    <3>2. CASE t # u
      <4>1. x.type = u
        BY <1>5, <2>1
      <4> QED
        BY <1>1, <3>2, <4>1
    <3> QED
      BY <3>1, <3>2
  <2> QED
    BY <1>2, <2>1
<1>7. t = "message_delta" =>
         ev = A!StopReason(b) /\ b \in {"", "end_turn", "refusal", "limit"}
  BY <1>1, <1>2
<1> QED
  BY <1>1, <1>4, <1>6, <1>7 DEF AnthropicShape

\* Every event has it.
LEMMA AnthropicEventShape == ASSUME NEW ev \in A!Events PROVE AnthropicShape(ev)
<1>0. <<>> \in Seq(A!Fragments) /\ 0 \in Int
  OBVIOUS
<1>1. CASE ev \in {A!MessageStart, A!MessageStop, A!UsageDelta, A!Ping, A!Bare, A!Shapeless,
                   A!ErrorTransient, A!ErrorTerminal}
  <2>1. \/ \E t \in {"message_start", "message_stop", "message_delta", "ping", "", "shapeless"} :
             ev = A!Event0(t, "")
        \/ \E b \in {"transient", "terminal"} : ev = A!Event0("error", b)
    BY <1>1, Zenon DEF A!MessageStart, A!MessageStop, A!UsageDelta, A!Ping, A!Bare,
       A!Shapeless, A!ErrorTransient, A!ErrorTerminal
  <2>2. CASE \E t \in {"message_start", "message_stop", "message_delta", "ping", "", "shapeless"} :
               ev = A!Event0(t, "")
    <3>1. PICK t : ev = A!Event0(t, "")
      BY <2>2
    <3>2. ev = Fields(t, 0, "", <<>>)
      BY <3>1, EventFields
    <3> QED
      BY <1>0, <3>2, FieldsShape
  <2>3. CASE \E b \in {"transient", "terminal"} : ev = A!Event0("error", b)
    <3>1. PICK b : ev = A!Event0("error", b)
      BY <2>3
    <3>2. ev = Fields("error", 0, b, <<>>)
      BY <3>1, EventFields
    <3> QED
      BY <1>0, <3>2, FieldsShape
  <2> QED
    BY <2>1, <2>2, <2>3
<1>2. CASE \E r \in {"end_turn", "refusal", "limit"} : ev = A!StopReason(r)
  <2>1. PICK r \in {"end_turn", "refusal", "limit"} : ev = Fields("message_delta", 0, r, <<>>)
    BY <1>2, EventFields DEF A!StopReason
  <2> QED
    BY <1>0, <2>1, FieldsShape
<1>3. CASE \E i \in Int : ev \in {A!TextStart(i), A!ToolStart(i), A!BlockStop(i), A!TextDelta(i)}
  <2>1. PICK i \in Int : ev \in {A!TextStart(i), A!ToolStart(i), A!BlockStop(i), A!TextDelta(i)}
    BY <1>3
  <2>2. \E t \in {"content_block_start", "content_block_stop", "content_block_delta"} :
           \E b : ev = A!Block(t, i, b)
    BY <2>1, Zenon DEF A!TextStart, A!ToolStart, A!BlockStop, A!TextDelta
  <2>3. PICK t \in {"content_block_start", "content_block_stop", "content_block_delta"} :
           \E b : ev = A!Block(t, i, b)
    BY <2>2
  <2>5. PICK b : ev = A!Block(t, i, b)
    BY <2>3
  <2>4. ev = Fields(t, i, b, <<>>)
    BY <2>5, EventFields
  <2> QED
    BY <1>0, <2>3, <2>4, FieldsShape
<1>4. CASE \E i \in Int, input \in Seq(A!Fragments) : ev = A!InputDelta(i, input)
  <2>1. PICK i \in Int, input \in Seq(A!Fragments) : ev = A!InputDelta(i, input)
    BY <1>4
  <2>2. ev = Fields("content_block_delta", i, "input_json_delta", input)
    BY <2>1, EventFields
  <2> QED
    BY <2>2, FieldsShape
<1>5. \/ ev \in {A!MessageStart, A!MessageStop, A!UsageDelta, A!Ping, A!Bare, A!Shapeless,
                   A!ErrorTransient, A!ErrorTerminal}
      \/ \E r \in {"end_turn", "refusal", "limit"} : ev = A!StopReason(r)
      \/ \E i \in Int : ev \in {A!TextStart(i), A!ToolStart(i), A!BlockStop(i), A!TextDelta(i)}
      \/ \E i \in Int, input \in Seq(A!Fragments) : ev = A!InputDelta(i, input)
  <2> DEFINE plain  == {A!MessageStart, A!MessageStop, A!UsageDelta, A!Ping, A!Bare,
                         A!Shapeless, A!ErrorTransient, A!ErrorTerminal}
             stops  == {A!StopReason(r) : r \in {"end_turn", "refusal", "limit"}}
             texts  == {A!TextStart(i) : i \in Int}
             tools  == {A!ToolStart(i) : i \in Int}
             ends   == {A!BlockStop(i) : i \in Int}
             deltas == {A!TextDelta(i) : i \in Int}
             inputs == {A!InputDelta(i, input) : i \in Int, input \in Seq(A!Fragments)}
  <2>1. A!Events = plain \cup stops \cup texts \cup tools \cup ends \cup deltas \cup inputs
    BY SMT DEF A!Events
  <2>5. ev \in plain \/ ev \in stops \/ ev \in texts \/ ev \in tools \/ ev \in ends
        \/ ev \in deltas \/ ev \in inputs
    <3> HIDE DEF plain, stops, texts, tools, ends, deltas, inputs
    <3> QED
      BY <2>1
  <2>2. CASE \/ ev \in {A!TextStart(i) : i \in Int} \/ ev \in {A!ToolStart(i) : i \in Int}
             \/ ev \in {A!BlockStop(i) : i \in Int} \/ ev \in {A!TextDelta(i) : i \in Int}
    BY <2>2
  <2>3. CASE ev \in {A!StopReason(r) : r \in {"end_turn", "refusal", "limit"}}
    BY <2>3
  <2>4. CASE ev \in {A!InputDelta(i, input) : i \in Int, input \in Seq(A!Fragments)}
    BY <2>4
  <2> QED
    BY <2>2, <2>3, <2>4, <2>5
<1> QED
  BY <1>1, <1>2, <1>3, <1>4, <1>5

-----------------------------------------------------------------------------
(* The two readings of a stream                                            *)

\* Each reading, by its key.
LEMMA ReadingByKey ==
    /\ \A e : ReadingOf(<<>>, e) = A!OtherPart(e)
    /\ \A i, e : ReadingOf(<<i>>, e) = A!InputPart(i, e)
<1>1. \A i : <<i>> # <<>> /\ <<i>>[1] = i
  OBVIOUS
<1> QED
  BY <1>1, Zenon DEF ReadingOf

\* The instances' operators are the ones their theorems speak of.
LEMMA SameReadings ==
    /\ \A fs : A!Others(fs) = NI!Parts(<<>>, fs)
    /\ \A fs, i : A!InputOf(fs, i) = NI!Parts(<<i>>, fs)
<1>1. \A fs : [k \in DOMAIN fs |-> A!OtherPart(fs[k])]
                = [k \in DOMAIN fs |-> ReadingOf(<<>>, fs[k])]
  BY ReadingByKey, Zenon
<1>2. \A fs, i : [k \in DOMAIN fs |-> A!InputPart(i, fs[k])]
                   = [k \in DOMAIN fs |-> ReadingOf(<<i>>, fs[k])]
  BY ReadingByKey, Zenon
<1>3. \A ss : A!FlattenSeq(ss) = NI!FlattenSeq(ss)
  BY Zenon DEF A!FlattenSeq, NI!FlattenSeq
<1>4. \A fs : A!Others(fs) = NI!Parts(<<>>, fs)
  BY <1>1, <1>3, Zenon DEF A!Others, NI!Parts
<1>5. \A fs, i : A!InputOf(fs, i) = NI!Parts(<<i>>, fs)
  BY <1>2, <1>3, Zenon DEF A!InputOf, NI!Parts
<1> QED
  BY <1>4, <1>5

\* A frame contributes fragments to the one reading, itself to the other.
LEMMA PartsAreReadable ==
    /\ NI!Reads(<<>>, A!Events, A!Events)
    /\ \A i : NI!Reads(<<i>>, A!Events, A!Fragments)
<1>1. \A e \in A!Events : A!OtherPart(e) \in Seq(A!Events)
  BY DEF A!OtherPart
<1>2. ASSUME NEW e \in A!Events, NEW i
      PROVE  A!InputPart(i, e) \in Seq(A!Fragments)
  <2>1. e.input \in Seq(A!Fragments)
    BY AnthropicEventShape DEF AnthropicShape
  <2> QED
    BY <2>1 DEF A!InputPart
<1> QED
  BY <1>1, <1>2, ReadingByKey, Zenon DEF NI!Reads

\* What is read of nothing, of one frame more and of two streams in a row.
LEMMA OthersRead ==
    /\ A!Others(<<>>) = <<>>
    /\ \A fs \in Seq(A!Events) : A!Others(fs) \in Seq(A!Events)
    /\ \A fs \in Seq(A!Events), e \in A!Events :
         /\ A!OtherPart(e) \in Seq(A!Events)
         /\ Joins(A!Others(Append(fs, e)), A!Others(fs), A!OtherPart(e))
    /\ \A fs \in Seq(A!Events), gs \in Seq(A!Events) :
         Joins(A!Others(fs \o gs), A!Others(fs), A!Others(gs))
<1>1. \A fs : A!Others(fs) = NI!Parts(<<>>, fs)
  BY SameReadings
<1>2. NI!Reads(<<>>, A!Events, A!Events)
  BY PartsAreReadable
<1>3. A!Others(<<>>) = <<>>
  BY <1>1, NI!PartsEmpty
<1>4. ASSUME NEW fs \in Seq(A!Events)
      PROVE  A!Others(fs) \in Seq(A!Events)
  <2>1. NI!Parts(<<>>, fs) \in Seq(A!Events)
    BY <1>2, NI!PartsAreSeqs
  <2> QED
    BY <1>1, <2>1
<1>5. ASSUME NEW fs \in Seq(A!Events), NEW e \in A!Events
      PROVE  /\ A!OtherPart(e) \in Seq(A!Events)
             /\ Joins(A!Others(Append(fs, e)), A!Others(fs), A!OtherPart(e))
  <2>1. /\ ReadingOf(<<>>, e) \in Seq(A!Events)
        /\ NI!Parts(<<>>, Append(fs, e)) = NI!Parts(<<>>, fs) \o ReadingOf(<<>>, e)
    BY <1>2, NI!PartsAppend
  <2> QED
    BY <1>1, <2>1, ReadingByKey, Zenon DEF Joins
<1>6. ASSUME NEW fs \in Seq(A!Events), NEW gs \in Seq(A!Events)
      PROVE  Joins(A!Others(fs \o gs), A!Others(fs), A!Others(gs))
  <2>1. NI!Parts(<<>>, fs \o gs) = NI!Parts(<<>>, fs) \o NI!Parts(<<>>, gs)
    BY <1>2, NI!PartsConcat
  <2> QED
    BY <1>1, <2>1, Zenon DEF Joins
<1> QED
  BY <1>3, <1>4, <1>5, <1>6

\* The same of the input of a block.
LEMMA InputRead ==
    \A i :
      /\ A!InputOf(<<>>, i) = <<>>
      /\ \A fs \in Seq(A!Events) : A!InputOf(fs, i) \in Seq(A!Fragments)
      /\ \A fs \in Seq(A!Events), e \in A!Events :
           /\ A!InputPart(i, e) \in Seq(A!Fragments)
           /\ Joins(A!InputOf(Append(fs, e), i), A!InputOf(fs, i), A!InputPart(i, e))
      /\ \A fs \in Seq(A!Events), gs \in Seq(A!Events) :
           Joins(A!InputOf(fs \o gs, i), A!InputOf(fs, i), A!InputOf(gs, i))
<1> SUFFICES ASSUME NEW i
             PROVE  /\ A!InputOf(<<>>, i) = <<>>
                    /\ \A fs \in Seq(A!Events) : A!InputOf(fs, i) \in Seq(A!Fragments)
                    /\ \A fs \in Seq(A!Events), e \in A!Events :
                         /\ A!InputPart(i, e) \in Seq(A!Fragments)
                         /\ Joins(A!InputOf(Append(fs, e), i), A!InputOf(fs, i), A!InputPart(i, e))
                    /\ \A fs \in Seq(A!Events), gs \in Seq(A!Events) :
                         Joins(A!InputOf(fs \o gs, i), A!InputOf(fs, i), A!InputOf(gs, i))
  OBVIOUS
<1>1. \A fs : A!InputOf(fs, i) = NI!Parts(<<i>>, fs)
  BY SameReadings
<1>2. NI!Reads(<<i>>, A!Events, A!Fragments)
  BY PartsAreReadable
<1>3. A!InputOf(<<>>, i) = <<>>
  BY <1>1, NI!PartsEmpty
<1>4. ASSUME NEW fs \in Seq(A!Events)
      PROVE  A!InputOf(fs, i) \in Seq(A!Fragments)
  <2>1. NI!Parts(<<i>>, fs) \in Seq(A!Fragments)
    BY <1>2, NI!PartsAreSeqs
  <2> QED
    BY <1>1, <2>1
<1>5. ASSUME NEW fs \in Seq(A!Events), NEW e \in A!Events
      PROVE  /\ A!InputPart(i, e) \in Seq(A!Fragments)
             /\ Joins(A!InputOf(Append(fs, e), i), A!InputOf(fs, i), A!InputPart(i, e))
  <2>1. A!InputPart(i, e) \in Seq(A!Fragments)
    BY <1>2, ReadingByKey, Zenon DEF NI!Reads
  <2>2. NI!Parts(<<i>>, Append(fs, e)) = NI!Parts(<<i>>, fs) \o A!InputPart(i, e)
    <3>1. NI!Parts(<<i>>, Append(fs, e)) = NI!Parts(<<i>>, fs) \o ReadingOf(<<i>>, e)
      <4> DEFINE key == <<i>>
      <4>1. NI!Reads(key, A!Events, A!Fragments)
        BY <1>2
      <4> HIDE DEF key
      <4>2. NI!Parts(key, Append(fs, e)) = NI!Parts(key, fs) \o ReadingOf(key, e)
        BY <4>1, NI!PartsAppend
      <4> QED
        BY <4>2 DEF key
    <3> QED
      BY <3>1, ReadingByKey, Zenon
  <2>3. /\ A!InputOf(Append(fs, e), i) = NI!Parts(<<i>>, Append(fs, e))
        /\ A!InputOf(fs, i) = NI!Parts(<<i>>, fs)
    BY <1>1, Zenon
  <2> QED
    BY <2>1, <2>2, <2>3, Zenon DEF Joins
<1>6. ASSUME NEW fs \in Seq(A!Events), NEW gs \in Seq(A!Events)
      PROVE  Joins(A!InputOf(fs \o gs, i), A!InputOf(fs, i), A!InputOf(gs, i))
  <2>1. NI!Parts(<<i>>, fs \o gs) = NI!Parts(<<i>>, fs) \o NI!Parts(<<i>>, gs)
    <3> DEFINE key == <<i>>
    <3>1. NI!Reads(key, A!Events, A!Fragments)
      BY <1>2
    <3> HIDE DEF key
    <3>2. NI!Parts(key, fs \o gs) = NI!Parts(key, fs) \o NI!Parts(key, gs)
      BY <3>1, NI!PartsConcat
    <3> QED
      BY <3>2 DEF key
  <2>2. A!InputOf(fs \o gs, i) = NI!Parts(<<i>>, fs \o gs)
    BY <1>1, Zenon
  <2>3. A!InputOf(fs, i) = NI!Parts(<<i>>, fs) /\ A!InputOf(gs, i) = NI!Parts(<<i>>, gs)
    BY <1>1, Zenon
  <2> QED
    BY <2>1, <2>2, <2>3, Zenon DEF Joins
<1> QED
  BY <1>3, <1>4, <1>5, <1>6

\* What is read of one sequence, of which a part waits, and of what passes on.
LEMMA CarryOver ==
    ASSUME NEW S, NEW a \in Seq(S), NEW p \in Seq(S), NEW e \in Seq(S), NEW w \in Seq(S),
           NEW q \in Seq(S), NEW s, NEW pe, NEW se, NEW aw,
           Joins(s, a, p), Joins(pe, p, e), Joins(pe, w, q), Joins(se, s, e), Joins(aw, a, w)
    PROVE  Joins(se, aw, q)
<1>1. se = (a \o p) \o e /\ p \o e = w \o q /\ aw = a \o w
  BY Zenon DEF Joins
<1>2. (a \o p) \o e = a \o (p \o e)
  BY ConcatAssociative, SMTT(30)
<1>3. (a \o w) \o q = a \o (w \o q)
  BY ConcatAssociative, SMTT(30)
<1> QED
  BY <1>1, <1>2, <1>3, Zenon DEF Joins

\* A prefix of a sequence is one of every longer one, and empty parts are no parts.
LEMMA JoinsFacts ==
    ASSUME NEW S, NEW s \in Seq(S), NEW t \in Seq(S)
    PROVE  /\ Joins(s, s, <<>>) /\ Joins(s, <<>>, s)
           /\ \A st : Joins(st, s, t) => st \in Seq(S) /\ IsPrefix(s, st)
           /\ \A st : Joins(st, s, <<>>) \/ Joins(st, <<>>, s) => st = s
<1>1. s \o <<>> = s /\ <<>> \o s = s
  BY ConcatEmptySeq
<1>2. s \o t \in Seq(S) /\ IsPrefix(s, s \o t)
  BY ConcatProperties, PrefixOfConcat
<1> QED
  BY <1>1, <1>2, Zenon DEF Joins

-----------------------------------------------------------------------------
(* The normalizer                                                          *)

\* A tool block: its fragments carry no input unless they were joined.
ToolBlock ==
    {b \in [sawInputDelta: BOOLEAN, input: Seq(A!Fragments), rawDeltas: Seq(A!Events)] :
       /\ A!Others(b.rawDeltas) = <<>>
       /\ \A i : A!InputOf(b.rawDeltas, i) = <<>>
       /\ ~b.sawInputDelta => b.input = <<>>}

\* The blocks the normalizer and the validator keep, by their index.
ToolBlocks == UNION {[D -> ToolBlock] : D \in SUBSET Int}

\* The states of the normalizer.
NormStates == [blocks: ToolBlocks, held: Seq(A!Events)]

\* A block that was not seen yet.
LEMMA NewBlockIsEmpty ==
    /\ A!NewBlock \in ToolBlock /\ A!NewBlock.input = <<>>
    /\ A!NoBlocks \in ToolBlocks /\ DOMAIN A!NoBlocks = {}
    /\ A!NewNormalizer \in NormStates
<1>1. A!NewBlock \in ToolBlock /\ A!NewBlock.input = <<>>
  BY OthersRead, InputRead DEF A!NewBlock, ToolBlock
<1>2. A!NoBlocks \in [{} -> ToolBlock] /\ DOMAIN A!NoBlocks = {}
  BY DEF A!NoBlocks
<1>3. A!NoBlocks \in ToolBlocks
  BY <1>2 DEF ToolBlocks
<1> QED
  BY <1>1, <1>2, <1>3 DEF NormStates, A!NewNormalizer

\* What the operations on the blocks do to each of them.
LEMMA BlocksRead ==
    ASSUME NEW blocks \in ToolBlocks
    PROVE  DOMAIN blocks \subseteq Int /\ \A j : A!Get(blocks, j) \in ToolBlock
<1>1. PICK D \in SUBSET Int : blocks \in [D -> ToolBlock]
  BY DEF ToolBlocks
<1>2. DOMAIN blocks = D /\ \A j \in D : blocks[j] \in ToolBlock
  BY <1>1
<1> QED
  BY <1>2, NewBlockIsEmpty DEF A!Get

\* A block put in its place is read back, and no other block changes.
LEMMA BlockPut ==
    ASSUME NEW blocks \in ToolBlocks, NEW i \in Int, NEW b \in ToolBlock
    PROVE  /\ A!Put(blocks, i, b) \in ToolBlocks
           /\ DOMAIN A!Put(blocks, i, b) = DOMAIN blocks \cup {i}
           /\ \A j : A!Get(A!Put(blocks, i, b), j) = IF j = i THEN b ELSE A!Get(blocks, j)
<1>1. PICK D \in SUBSET Int : blocks \in [D -> ToolBlock]
  BY DEF ToolBlocks
<1>2. DOMAIN blocks = D /\ \A j \in D : blocks[j] \in ToolBlock
  BY <1>1
<1> DEFINE f == [j \in D \cup {i} |-> IF j = i THEN b ELSE blocks[j]]
<1>3. A!Put(blocks, i, b) = f
  BY <1>2 DEF A!Put
<1>4. f \in [D \cup {i} -> ToolBlock] /\ D \cup {i} \in SUBSET Int
  BY <1>2
<1>5. f \in ToolBlocks
  BY <1>4 DEF ToolBlocks
<1> QED
  BY <1>2, <1>3, <1>5 DEF A!Get

\* A block dropped is a new block again, and no other block changes.
LEMMA BlockDropped ==
    ASSUME NEW blocks \in ToolBlocks, NEW i \in Int
    PROVE  /\ A!Drop(blocks, i) \in ToolBlocks
           /\ DOMAIN A!Drop(blocks, i) = DOMAIN blocks \ {i}
           /\ \A j : A!Get(A!Drop(blocks, i), j) = IF j = i THEN A!NewBlock ELSE A!Get(blocks, j)
<1>1. PICK D \in SUBSET Int : blocks \in [D -> ToolBlock]
  BY DEF ToolBlocks
<1>2. DOMAIN blocks = D /\ \A j \in D : blocks[j] \in ToolBlock
  BY <1>1
<1> DEFINE f == [j \in D \ {i} |-> blocks[j]]
<1>3. A!Drop(blocks, i) = f
  BY <1>2 DEF A!Drop
<1>4. f \in [D \ {i} -> ToolBlock] /\ D \ {i} \in SUBSET Int
  BY <1>2
<1>5. f \in ToolBlocks
  BY <1>4 DEF ToolBlocks
<1> QED
  BY <1>2, <1>3, <1>5 DEF A!Get

\* A fragment joins the input of its block and no other.
LEMMA FragmentJoins ==
    ASSUME NEW blocks \in ToolBlocks, NEW ev \in A!Events, A!IsInputDelta(ev)
    PROVE  /\ A!Accumulate(blocks, ev) \in ToolBlocks
           /\ DOMAIN A!Accumulate(blocks, ev) = DOMAIN blocks \cup {ev.index}
           /\ \A j : Joins(A!Get(A!Accumulate(blocks, ev), j).input,
                           A!Get(blocks, j).input, A!InputPart(j, ev))
<1> DEFINE b == A!Get(blocks, ev.index)
           n == [sawInputDelta |-> TRUE, input |-> b.input \o ev.input,
                 rawDeltas |-> IF ev.input # <<>> THEN <<>>
                               ELSE IF b.input = <<>> THEN Append(b.rawDeltas, ev)
                               ELSE b.rawDeltas]
<1>1. ev.index \in Int /\ ev.input \in Seq(A!Fragments)
  BY AnthropicEventShape DEF AnthropicShape
<1>2. b \in ToolBlock
  BY BlocksRead
<1>3. A!Accumulate(blocks, ev) = A!Put(blocks, ev.index, n)
  BY DEF A!Accumulate
<1>4. n.rawDeltas \in Seq(A!Events) /\ A!Others(n.rawDeltas) = <<>>
      /\ \A i : A!InputOf(n.rawDeltas, i) = <<>>
  <2>1. /\ b.rawDeltas \in Seq(A!Events) /\ A!Others(b.rawDeltas) = <<>>
        /\ \A i : A!InputOf(b.rawDeltas, i) = <<>>
    BY <1>2 DEF ToolBlock
  <2>2. CASE ev.input = <<>>
    <3> DEFINE r == Append(b.rawDeltas, ev)
    <3>1. r \in Seq(A!Events)
      BY <2>1
    <3>2. A!OtherPart(ev) = <<>> /\ \A i : A!InputPart(i, ev) = <<>>
      BY <2>2 DEF A!OtherPart, A!InputPart
    <3>3. A!Others(r) = <<>>
      <4>1. Joins(A!Others(r), A!Others(b.rawDeltas), A!OtherPart(ev))
        BY <2>1, OthersRead
      <4>2. Joins(A!Others(r), <<>>, <<>>)
        BY <2>1, <3>2, <4>1
      <4> QED
        BY <4>2 DEF Joins
    <3>4. ASSUME NEW i
          PROVE  A!InputOf(r, i) = <<>>
      <4>1. Joins(A!InputOf(r, i), A!InputOf(b.rawDeltas, i), A!InputPart(i, ev))
        BY <2>1, InputRead
      <4>2. Joins(A!InputOf(r, i), <<>>, <<>>)
        BY <2>1, <3>2, <4>1
      <4> QED
        BY <4>2 DEF Joins
    <3>5. n.rawDeltas \in {r, b.rawDeltas}
      BY <2>2
    <3> HIDE DEF n, r, b
    <3> QED
      BY <2>1, <3>1, <3>3, <3>4, <3>5
  <2>3. CASE ev.input # <<>>
    <3>1. n.rawDeltas = <<>>
      BY <2>3
    <3>2. <<>> \in Seq(A!Events) /\ A!Others(<<>>) = <<>> /\ \A i : A!InputOf(<<>>, i) = <<>>
      BY OthersRead, InputRead
    <3> HIDE DEF n, b
    <3> QED
      BY <3>1, <3>2, Zenon
  <2> QED
    BY <2>2, <2>3
<1>5. n \in ToolBlock /\ Joins(n.input, b.input, ev.input)
  <2>1. b.input \in Seq(A!Fragments)
    BY <1>2 DEF ToolBlock
  <2>2. b.input \o ev.input \in Seq(A!Fragments)
    BY <1>1, <2>1
  <2> QED
    BY <1>4, <2>2 DEF ToolBlock, Joins
<1> HIDE DEF n, b
<1>7. /\ A!Put(blocks, ev.index, n) \in ToolBlocks
      /\ DOMAIN A!Put(blocks, ev.index, n) = DOMAIN blocks \cup {ev.index}
      /\ \A j : A!Get(A!Put(blocks, ev.index, n), j) = IF j = ev.index THEN n ELSE A!Get(blocks, j)
  BY <1>1, <1>5, BlockPut, ZenonT(60)
<1>6. ASSUME NEW j
      PROVE  Joins(A!Get(A!Accumulate(blocks, ev), j).input,
                   A!Get(blocks, j).input, A!InputPart(j, ev))
  <2>1. CASE j = ev.index
    <3>1. A!Get(A!Accumulate(blocks, ev), j) = n /\ A!InputPart(j, ev) = ev.input
      BY <1>3, <1>7, <2>1 DEF A!InputPart
    <3> QED
      BY <1>5, <2>1, <3>1 DEF b
  <2>2. CASE j # ev.index
    <3>1. A!Get(A!Accumulate(blocks, ev), j) = A!Get(blocks, j) /\ A!InputPart(j, ev) = <<>>
      BY <1>3, <1>7, <2>2 DEF A!InputPart
    <3>2. A!Get(blocks, j).input \in Seq(A!Fragments)
      BY BlocksRead DEF ToolBlock
    <3> QED
      BY <3>1, <3>2, JoinsFacts
  <2> QED
    BY <2>1, <2>2
<1> QED
  BY <1>3, <1>6, <1>7

\* What is read of one frame or of two.
LEMMA FewRead ==
    ASSUME NEW x \in A!Events, NEW y \in A!Events
    PROVE  /\ A!Others(<<x>>) = A!OtherPart(x)
           /\ Joins(A!Others(<<x, y>>), A!OtherPart(x), A!OtherPart(y))
           /\ \A i : /\ A!InputOf(<<x>>, i) = A!InputPart(i, x)
                     /\ Joins(A!InputOf(<<x, y>>, i), A!InputPart(i, x), A!InputPart(i, y))
<1>1. /\ <<>> \in Seq(A!Events) /\ <<x>> \in Seq(A!Events)
      /\ <<x>> = Append(<<>>, x) /\ <<x, y>> = Append(<<x>>, y)
  OBVIOUS
<1>2. A!Others(<<x>>) = A!OtherPart(x)
  <2>1. Joins(A!Others(Append(<<>>, x)), <<>>, A!OtherPart(x)) /\ A!OtherPart(x) \in Seq(A!Events)
    BY <1>1, OthersRead
  <2> QED
    BY <1>1, <2>1, JoinsFacts
<1>3. Joins(A!Others(<<x, y>>), A!OtherPart(x), A!OtherPart(y))
  <2>1. Joins(A!Others(Append(<<x>>, y)), A!Others(<<x>>), A!OtherPart(y))
    BY <1>1, OthersRead
  <2> QED
    BY <1>1, <1>2, <2>1
<1>4. ASSUME NEW i
      PROVE  /\ A!InputOf(<<x>>, i) = A!InputPart(i, x)
             /\ Joins(A!InputOf(<<x, y>>, i), A!InputPart(i, x), A!InputPart(i, y))
  <2>1. Joins(A!InputOf(Append(<<>>, x), i), <<>>, A!InputPart(i, x))
        /\ A!InputPart(i, x) \in Seq(A!Fragments)
    BY <1>1, InputRead
  <2>2. A!InputOf(<<x>>, i) = A!InputPart(i, x)
    BY <1>1, <2>1, JoinsFacts
  <2>3. Joins(A!InputOf(Append(<<x>>, y), i), A!InputOf(<<x>>, i), A!InputPart(i, y))
    BY <1>1, InputRead
  <2> QED
    BY <1>1, <2>2, <2>3
<1> QED
  BY <1>2, <1>3, <1>4

\* The joined input of a block is one frame of its input.
LEMMA JoinedInput ==
    ASSUME NEW i \in Int, NEW s \in Seq(A!Fragments)
    PROVE  /\ A!InputDelta(i, s) \in A!Events
           /\ A!OtherPart(A!InputDelta(i, s)) = <<>>
           /\ \A j : A!InputPart(j, A!InputDelta(i, s)) = IF j = i THEN s ELSE <<>>
<1>1. A!InputDelta(i, s) \in A!Events
  BY DEF A!Events
<1>2. /\ A!IsInputDelta(A!InputDelta(i, s))
      /\ A!InputDelta(i, s).index = i /\ A!InputDelta(i, s).input = s
  BY EventFields DEF Fields, A!IsInputDelta
<1> QED
  BY <1>1, <1>2 DEF A!OtherPart, A!InputPart

\* The wire rewrites the input of tools.
Normalizing == ValidateJSON /\ NormalizeToolJSON

\* The events that end a block, and that start a tool's.
IsStop(ev) == ev.type = "content_block_stop"
IsToolStart(ev) == ev.type = "content_block_start" /\ ev.body = "tool_use"

\* What an event that is not part of a tool's input is to a client.
LEMMA PlainParts ==
    ASSUME NEW ev, ~A!IsInputDelta(ev)
    PROVE  A!OtherPart(ev) = <<ev>> /\ \A j : A!InputPart(j, ev) = <<>>
BY DEF A!OtherPart, A!InputPart

\* What the normalizer does with an event it accepts; b is the event's block.
Moves(n, ev, b, r) ==
    \/ /\ n.held # <<>> /\ ev = A!Ping
       /\ r = A!Normalized(n.blocks, Append(n.held, ev), <<>>)
    \/ /\ n.held # <<>> /\ ev = A!StopReason("limit")
       /\ r = A!Normalized(n.blocks, <<>>, Append(n.held, ev))
    \/ /\ n.held = <<>> /\ IsToolStart(ev)
       /\ r = A!Normalized(A!Put(n.blocks, ev.index, A!NewBlock), n.held, <<ev>>)
    \/ /\ n.held = <<>> /\ A!IsInputDelta(ev)
       /\ r = A!Normalized(A!Accumulate(n.blocks, ev), n.held, <<>>)
    \/ /\ n.held = <<>> /\ IsStop(ev) /\ b.input = <<>>
       /\ r = A!Normalized(A!Drop(n.blocks, ev.index), n.held, Append(b.rawDeltas, ev))
    \/ /\ n.held = <<>> /\ IsStop(ev) /\ A!ClosesInvalid(n.blocks, ev.index)
       /\ r = A!Normalized(A!Drop(n.blocks, ev.index),
                           <<A!InputDelta(ev.index, b.input), ev>>, <<>>)
    \/ /\ n.held = <<>> /\ IsStop(ev) /\ ~A!ClosesInvalid(n.blocks, ev.index)
       /\ r = A!Normalized(A!Drop(n.blocks, ev.index), n.held,
                           <<A!InputDelta(ev.index, b.input), ev>>)
    \/ /\ n.held = <<>> /\ ~A!IsInputDelta(ev) /\ ~IsToolStart(ev) /\ ~IsStop(ev)
       /\ r = A!Normalized(n.blocks, n.held, <<ev>>)

\* It does one of these.
LEMMA NormalizerMoves ==
    ASSUME Normalizing, NEW n \in NormStates, NEW ev \in A!Events,
           NEW r, r = A!NormalizerAccept(n, ev), r.fail = A!NoFail,
           NEW b, b = A!Get(n.blocks, ev.index)
    PROVE  Moves(n, ev, b, r)
<1>3. A!MalformedSSE # A!NoFail
  BY DEF A!MalformedSSE, A!NoFail, A!Transient
<1>4. CASE n.held # <<>>
  <2>1. ev.type = "ping" <=> ev = A!Ping
    BY AnthropicEventShape DEF AnthropicShape
  <2>2. A!JudgeTruncated(ev) = "wait" => ev = A!Ping
    BY <2>1 DEF A!JudgeTruncated
  <2>3. A!JudgeTruncated(ev) = "excused" => ev = A!StopReason("limit")
    BY DEF A!JudgeTruncated
  <2>4. r = A!JudgeHeld(n, ev)
    BY <1>4, Zenon DEF Normalizing, A!NormalizerAccept
  <2>5. CASE A!JudgeTruncated(ev) = "wait"
    <3>1. r = A!Normalized(n.blocks, Append(n.held, ev), <<>>)
      BY <2>4, <2>5, Zenon DEF A!JudgeHeld
    <3> QED
      BY <1>4, <2>2, <2>5, <3>1, Zenon DEF Moves
  <2>6. CASE A!JudgeTruncated(ev) = "excused"
    <3>1. r = A!Normalized(n.blocks, <<>>, Append(n.held, ev))
      BY <2>4, <2>6 DEF A!JudgeHeld
    <3> QED
      BY <1>4, <2>3, <2>6, <3>1, Zenon DEF Moves
  <2>7. CASE A!JudgeTruncated(ev) \notin {"wait", "excused"}
    BY <1>3, <2>4, <2>7 DEF A!JudgeHeld
  <2> QED
    BY <2>5, <2>6, <2>7
<1>5. CASE n.held = <<>>
  <2>1. CASE IsToolStart(ev)
    BY <1>5, <2>1, Zenon DEF Normalizing, A!NormalizerAccept, IsToolStart, Moves
  <2>2. CASE A!IsInputDelta(ev)
    <3>1. ~IsToolStart(ev)
      BY <2>2 DEF IsToolStart, A!IsInputDelta
    <3> QED
      BY <1>5, <2>2, <3>1, Zenon DEF Normalizing, A!NormalizerAccept, IsToolStart, Moves
  <2>3. CASE IsStop(ev)
    <3>1. ~IsToolStart(ev) /\ ~A!IsInputDelta(ev)
      BY <2>3 DEF IsToolStart, A!IsInputDelta, IsStop
    <3>2. r = A!CloseBlock(n, ev)
      BY <1>5, <2>3, <3>1, Zenon DEF Normalizing, A!NormalizerAccept, IsToolStart, IsStop
    <3>3. \/ /\ b.input = <<>>
             /\ r = A!Normalized(A!Drop(n.blocks, ev.index), n.held, Append(b.rawDeltas, ev))
          \/ /\ A!ClosesInvalid(n.blocks, ev.index)
             /\ r = A!Normalized(A!Drop(n.blocks, ev.index),
                                 <<A!InputDelta(ev.index, b.input), ev>>, <<>>)
          \/ /\ ~A!ClosesInvalid(n.blocks, ev.index)
             /\ r = A!Normalized(A!Drop(n.blocks, ev.index), n.held,
                                 <<A!InputDelta(ev.index, b.input), ev>>)
      BY <3>2, Zenon DEF A!CloseBlock
    <3> QED
      BY <1>5, <2>3, <3>3, Zenon DEF Moves
  <2>4. CASE ~IsToolStart(ev) /\ ~A!IsInputDelta(ev) /\ ~IsStop(ev)
    <3>1. r = A!Normalized(n.blocks, n.held, <<ev>>)
      BY <1>5, <2>4, Zenon DEF Normalizing, A!NormalizerAccept, IsToolStart, IsStop
    <3> QED
      BY <1>5, <2>4, <3>1, Zenon DEF Moves
  <2> QED
    BY <2>1, <2>2, <2>3, <2>4
<1> QED
  BY <1>4, <1>5

\* The parts of what the normalizer returns.
LEMMA NormalizedFields ==
    ASSUME NEW blocks, NEW held, NEW frames
    PROVE  /\ A!Normalized(blocks, held, frames).norm = [blocks |-> blocks, held |-> held]
           /\ A!Normalized(blocks, held, frames).norm.blocks = blocks
           /\ A!Normalized(blocks, held, frames).norm.held = held
           /\ A!Normalized(blocks, held, frames).out = frames
BY DEF A!Normalized

\* The normalizer's state and its frames stay well-typed.
LEMMA NormalizerTypes ==
    ASSUME Normalizing, NEW n \in NormStates, NEW ev \in A!Events,
           NEW r, r = A!NormalizerAccept(n, ev), r.fail = A!NoFail
    PROVE  r.norm \in NormStates /\ r.out \in Seq(A!Events)
<1> DEFINE b == A!Get(n.blocks, ev.index)
           joined == A!InputDelta(ev.index, b.input)
<1>1. n.blocks \in ToolBlocks /\ n.held \in Seq(A!Events)
  BY DEF NormStates
<1>2. b \in ToolBlock
  BY <1>1, BlocksRead
<1>3. ev.index \in Int
  BY AnthropicEventShape DEF AnthropicShape
<1>4. joined \in A!Events
  <2>1. b.input \in Seq(A!Fragments)
    BY <1>2 DEF ToolBlock
  <2> QED
    BY <1>3, <2>1, JoinedInput
<1>5. b.rawDeltas \in Seq(A!Events)
  BY <1>2 DEF ToolBlock
<1> HIDE DEF b, joined
<1>6. /\ <<>> \in Seq(A!Events) /\ <<ev>> \in Seq(A!Events) /\ <<joined, ev>> \in Seq(A!Events)
      /\ Append(n.held, ev) \in Seq(A!Events) /\ Append(b.rawDeltas, ev) \in Seq(A!Events)
  BY <1>1, <1>4, <1>5
<1>7. A!Drop(n.blocks, ev.index) \in ToolBlocks
  BY <1>1, <1>3, BlockDropped
<1>8. A!Put(n.blocks, ev.index, A!NewBlock) \in ToolBlocks
  BY <1>1, <1>3, NewBlockIsEmpty, BlockPut
<1>9. A!IsInputDelta(ev) => A!Accumulate(n.blocks, ev) \in ToolBlocks
  BY <1>1, FragmentJoins
<1>10. Moves(n, ev, b, r)
  BY NormalizerMoves DEF b
<1>11. \E bs \in ToolBlocks, h \in Seq(A!Events), fs \in Seq(A!Events) :
          r = A!Normalized(bs, h, fs)
  BY <1>1, <1>6, <1>7, <1>8, <1>9, <1>10, Zenon DEF Moves, joined
<1>12. PICK bs \in ToolBlocks, h \in Seq(A!Events), fs \in Seq(A!Events) :
          r = A!Normalized(bs, h, fs)
  BY <1>11, Zenon
<1>13. r.norm = [blocks |-> bs, held |-> h] /\ r.out = fs
  BY <1>12, NormalizedFields
<1> QED
  BY <1>13 DEF NormStates

\* No frame but a tool's input is lost, changed or reordered by a step.
LEMMA NormalizerKeepsOthers ==
    ASSUME Normalizing, NEW n \in NormStates, NEW ev \in A!Events,
           NEW r, r = A!NormalizerAccept(n, ev), r.fail = A!NoFail
    PROVE  \E pe : /\ Joins(pe, A!Others(n.held), A!OtherPart(ev))
                   /\ Joins(pe, A!Others(r.out), A!Others(r.norm.held))
<1> DEFINE b == A!Get(n.blocks, ev.index)
           joined == A!InputDelta(ev.index, b.input)
           Kept(held, frames) ==
             \E pe : /\ Joins(pe, A!Others(n.held), A!OtherPart(ev))
                     /\ Joins(pe, A!Others(frames), A!Others(held))
<1>1. n.blocks \in ToolBlocks /\ n.held \in Seq(A!Events)
  BY DEF NormStates
<1>2. b \in ToolBlock
  BY <1>1, BlocksRead
<1>3. joined \in A!Events /\ A!OtherPart(joined) = <<>>
  <2>1. ev.index \in Int /\ b.input \in Seq(A!Fragments)
    BY <1>2, AnthropicEventShape DEF AnthropicShape, ToolBlock
  <2> QED
    BY <2>1, JoinedInput
<1>4. b.rawDeltas \in Seq(A!Events) /\ A!Others(b.rawDeltas) = <<>>
  BY <1>2 DEF ToolBlock
<1>5. A!Others(<<>>) = <<>> /\ A!OtherPart(ev) \in Seq(A!Events)
  <2>1. <<>> \in Seq(A!Events)
    OBVIOUS
  <2> QED
    BY <2>1, OthersRead
<1> HIDE DEF b, joined
<1>8. Moves(n, ev, b, r)
  BY NormalizerMoves DEF b
<1>9. ASSUME NEW bs, NEW h, NEW fs, r = A!Normalized(bs, h, fs)
      PROVE  r.norm.held = h /\ r.out = fs
  BY <1>9 DEF A!Normalized
<1>6. CASE n.held # <<>>
  <2>1. Joins(A!Others(Append(n.held, ev)), A!Others(n.held), A!OtherPart(ev))
    BY <1>1, OthersRead
  <2>2. A!Others(Append(n.held, ev)) \in Seq(A!Events)
    <3>1. Append(n.held, ev) \in Seq(A!Events)
      BY <1>1
    <3> QED
      BY <3>1, OthersRead
  <2>3. Kept(Append(n.held, ev), <<>>) /\ Kept(<<>>, Append(n.held, ev))
    BY <1>5, <2>1, <2>2, JoinsFacts
  <2> HIDE DEF Kept
  <2>4. Kept(r.norm.held, r.out)
    BY <1>6, <1>8, <1>9, <2>3, Zenon DEF Moves
  <2> QED
    BY <2>4 DEF Kept
<1>7. CASE n.held = <<>>
  <2>1. Joins(A!OtherPart(ev), A!Others(n.held), A!OtherPart(ev))
    BY <1>5, <1>7, JoinsFacts
  <2>2. \A held, frames : Joins(A!OtherPart(ev), A!Others(frames), A!Others(held))
                            => Kept(held, frames)
    BY <2>1
  <2>3. A!Others(<<ev>>) = A!OtherPart(ev)
    BY FewRead
  <2>4. A!Others(<<joined, ev>>) = A!OtherPart(ev)
    <3>1. Joins(A!Others(<<joined, ev>>), <<>>, A!OtherPart(ev))
      BY <1>3, FewRead
    <3> QED
      BY <1>5, <3>1, JoinsFacts
  <2>5. A!Others(Append(b.rawDeltas, ev)) = A!OtherPart(ev)
    <3>1. Joins(A!Others(Append(b.rawDeltas, ev)), <<>>, A!OtherPart(ev))
      BY <1>4, OthersRead
    <3> QED
      BY <1>5, <3>1, JoinsFacts
  <2>6. Kept(<<>>, <<ev>>) /\ Kept(<<>>, <<joined, ev>>) /\ Kept(<<joined, ev>>, <<>>)
        /\ Kept(<<>>, Append(b.rawDeltas, ev))
    <3> HIDE DEF Kept
    <3>1. Joins(A!OtherPart(ev), A!OtherPart(ev), <<>>)
          /\ Joins(A!OtherPart(ev), <<>>, A!OtherPart(ev))
      BY <1>5, JoinsFacts
    <3> QED
      BY <1>5, <2>2, <2>3, <2>4, <2>5, <3>1
  <2>7. A!IsInputDelta(ev) => Kept(<<>>, <<>>)
    <3> HIDE DEF Kept
    <3>1. A!IsInputDelta(ev) => A!OtherPart(ev) = <<>>
      BY DEF A!OtherPart
    <3>2. A!IsInputDelta(ev) => Joins(A!OtherPart(ev), A!Others(<<>>), A!Others(<<>>))
      BY <1>5, <3>1, JoinsFacts
    <3> QED
      BY <2>2, <3>2
  <2> HIDE DEF Kept
  <2>8. Kept(r.norm.held, r.out)
    BY <1>7, <1>8, <1>9, <2>6, <2>7, Zenon DEF Moves, joined
  <2> QED
    BY <2>8 DEF Kept
<1> QED
  BY <1>6, <1>7

\* The input of block j that was taken in and not sent yet.
PendingInput(n, j) == A!InputOf(n.held, j) \o A!Get(n.blocks, j).input

\* What is pending is a sequence of fragments.
LEMMA PendingIsInput ==
    ASSUME NEW n \in NormStates, NEW j
    PROVE  /\ A!InputOf(n.held, j) \in Seq(A!Fragments)
           /\ A!Get(n.blocks, j).input \in Seq(A!Fragments)
           /\ PendingInput(n, j) \in Seq(A!Fragments)
           /\ Joins(PendingInput(n, j), A!InputOf(n.held, j), A!Get(n.blocks, j).input)
<1>1. n.blocks \in ToolBlocks /\ n.held \in Seq(A!Events)
  BY DEF NormStates
<1>2. A!Get(n.blocks, j) \in ToolBlock
  BY <1>1, BlocksRead
<1>3. A!Get(n.blocks, j).input \in Seq(A!Fragments)
  BY <1>2 DEF ToolBlock
<1>4. A!InputOf(n.held, j) \in Seq(A!Fragments)
  BY <1>1, InputRead
<1> QED
  BY <1>3, <1>4, ConcatProperties DEF PendingInput, Joins

\* No input of a block is lost, changed, reordered or taken for another's,
\* unless a block starts before the one with its index has ended.
LEMMA NormalizerKeepsInput ==
    ASSUME Normalizing, NEW n \in NormStates, NEW ev \in A!Events,
           NEW r, r = A!NormalizerAccept(n, ev), r.fail = A!NoFail,
           NEW j, IsToolStart(ev) /\ ev.index = j => A!Get(n.blocks, j).input = <<>>
    PROVE  \E pe : /\ Joins(pe, PendingInput(n, j), A!InputPart(j, ev))
                   /\ Joins(pe, A!InputOf(r.out, j), PendingInput(r.norm, j))
<1> DEFINE b == A!Get(n.blocks, ev.index)
           joined == A!InputDelta(ev.index, b.input)
           g == A!Get(n.blocks, j).input
           e == A!InputPart(j, ev)
           Kept(blocks, held, frames) ==
             \E pe, q : /\ Joins(pe, PendingInput(n, j), e)
                        /\ Joins(q, A!InputOf(held, j), A!Get(blocks, j).input)
                        /\ Joins(pe, A!InputOf(frames, j), q)
<1>1. n.blocks \in ToolBlocks /\ n.held \in Seq(A!Events)
  BY DEF NormStates
<1>2. b \in ToolBlock
  BY <1>1, BlocksRead
<1>3. ev.index \in Int /\ b.input \in Seq(A!Fragments)
  BY <1>2, AnthropicEventShape DEF AnthropicShape, ToolBlock
<1>4. joined \in A!Events /\ A!InputPart(j, joined) = IF j = ev.index THEN b.input ELSE <<>>
  BY <1>3, JoinedInput
<1>5. b.rawDeltas \in Seq(A!Events) /\ A!InputOf(b.rawDeltas, j) = <<>>
  BY <1>2 DEF ToolBlock
<1>6. A!InputOf(<<>>, j) = <<>> /\ e \in Seq(A!Fragments)
  <2>1. <<>> \in Seq(A!Events)
    OBVIOUS
  <2> QED
    BY <2>1, InputRead
<1>7. /\ g \in Seq(A!Fragments) /\ PendingInput(n, j) \in Seq(A!Fragments)
      /\ A!InputOf(n.held, j) \in Seq(A!Fragments)
      /\ Joins(PendingInput(n, j), A!InputOf(n.held, j), g)
  BY PendingIsInput
<1>8. A!IsInputDelta(ev) \/ e = <<>>
  BY PlainParts
<1>9. IsToolStart(ev) \/ IsStop(ev) \/ ev = A!Ping \/ ev = A!StopReason("limit")
        => ~A!IsInputDelta(ev)
  <2>1. A!Ping.type = "ping" /\ A!StopReason("limit").type = "message_delta"
    BY EventFields DEF A!Ping, A!StopReason, Fields
  <2> QED
    BY <2>1 DEF IsToolStart, IsStop, A!IsInputDelta
<1>10. Moves(n, ev, b, r)
  BY NormalizerMoves DEF b
<1>11. ASSUME NEW bs, NEW h, NEW fs, r = A!Normalized(bs, h, fs)
       PROVE  r.norm.blocks = bs /\ r.norm.held = h /\ r.out = fs
  BY <1>11 DEF A!Normalized
<1>12. j = ev.index => b.input = g
  OBVIOUS
<1> HIDE DEF b, joined, g, e
<1>13. CASE n.held # <<>>
  <2>1. e = <<>> => A!InputOf(Append(n.held, ev), j) = A!InputOf(n.held, j)
    <3>1. Joins(A!InputOf(Append(n.held, ev), j), A!InputOf(n.held, j), e)
      BY <1>1, InputRead DEF e
    <3> QED
      BY <1>7, <3>1, JoinsFacts
  <2>2. e = <<>> => Kept(n.blocks, Append(n.held, ev), <<>>)
                    /\ Kept(n.blocks, <<>>, Append(n.held, ev))
    <3>1. /\ Joins(PendingInput(n, j), PendingInput(n, j), <<>>)
          /\ Joins(PendingInput(n, j), <<>>, PendingInput(n, j))
          /\ Joins(g, <<>>, g)
      BY <1>7, JoinsFacts
    <3> QED
      BY <1>6, <1>7, <2>1, <3>1, Zenon DEF g
  <2> HIDE DEF Kept
  <2>3. Kept(r.norm.blocks, r.norm.held, r.out)
    BY <1>8, <1>9, <1>10, <1>11, <1>13, <2>2, ZenonT(60) DEF Moves
  <2> QED
    BY <2>3, Zenon DEF Kept, PendingInput, Joins, e
<1>14. CASE n.held = <<>>
  <2>1. PendingInput(n, j) = g
    <3>1. Joins(PendingInput(n, j), <<>>, g)
      BY <1>6, <1>7, <1>14
    <3> QED
      BY <1>7, <3>1, JoinsFacts
  <2> DEFINE Get(blocks) == A!Get(blocks, j).input
  <2>2. /\ Joins(g, g, <<>>) /\ Joins(g, <<>>, g) /\ Joins(<<>>, <<>>, <<>>)
    <3>1. <<>> \in Seq(A!Fragments)
      OBVIOUS
    <3> QED
      BY <1>7, <3>1, JoinsFacts
  <2>3. e = <<>> => Joins(g, g, e)
    BY <2>2
  <2>4. ASSUME NEW blocks, NEW frames, Get(blocks) = g, A!InputOf(frames, j) = <<>>, e = <<>>
        PROVE  Kept(blocks, <<>>, frames)
    BY <1>6, <2>1, <2>2, <2>3, <2>4, Zenon
  <2>5. A!IsInputDelta(ev) => Kept(A!Accumulate(n.blocks, ev), <<>>, <<>>)
    <3>1. SUFFICES ASSUME A!IsInputDelta(ev)
                   PROVE  Kept(A!Accumulate(n.blocks, ev), <<>>, <<>>)
      OBVIOUS
    <3> DEFINE x == Get(A!Accumulate(n.blocks, ev))
    <3>2. Joins(x, g, e) /\ A!Accumulate(n.blocks, ev) \in ToolBlocks
      BY <1>1, <3>1, FragmentJoins DEF g, e
    <3>3. x \in Seq(A!Fragments)
      BY <3>2, BlocksRead DEF ToolBlock
    <3>4. Joins(x, <<>>, x)
      BY <3>3, JoinsFacts
    <3> QED
      BY <1>6, <2>1, <3>2, <3>4, Zenon
  <2>6. ASSUME e = <<>>
        PROVE  /\ A!InputOf(<<ev>>, j) = <<>>
               /\ A!InputOf(Append(b.rawDeltas, ev), j) = <<>>
               /\ A!InputOf(<<joined, ev>>, j) = A!InputPart(j, joined)
    <3>1. A!InputOf(<<ev>>, j) = <<>>
      BY <2>6, FewRead DEF e
    <3>2. Joins(A!InputOf(Append(b.rawDeltas, ev), j), <<>>, <<>>)
      BY <1>5, <2>6, InputRead DEF e
    <3>3. Joins(A!InputOf(<<joined, ev>>, j), A!InputPart(j, joined), <<>>)
      BY <1>4, <2>6, FewRead DEF e
    <3>4. A!InputPart(j, joined) \in Seq(A!Fragments) /\ <<>> \in Seq(A!Fragments)
      BY <1>3, <1>4
    <3> QED
      BY <3>1, <3>2, <3>3, <3>4, JoinsFacts
  <2>7. /\ Get(A!Drop(n.blocks, ev.index)) = IF j = ev.index THEN <<>> ELSE g
        /\ Get(A!Put(n.blocks, ev.index, A!NewBlock)) = IF j = ev.index THEN <<>> ELSE g
        /\ Get(n.blocks) = g
    <3>1. A!NewBlock \in ToolBlock /\ A!NewBlock.input = <<>>
      BY NewBlockIsEmpty
    <3>2. A!Get(A!Drop(n.blocks, ev.index), j)
            = IF j = ev.index THEN A!NewBlock ELSE A!Get(n.blocks, j)
      BY <1>1, <1>3, BlockDropped
    <3>4. \A k : A!Get(A!Put(n.blocks, ev.index, A!NewBlock), k)
                   = IF k = ev.index THEN A!NewBlock ELSE A!Get(n.blocks, k)
      BY <1>1, <1>3, <3>1, BlockPut, ZenonT(60)
    <3>3. A!Get(A!Put(n.blocks, ev.index, A!NewBlock), j)
            = IF j = ev.index THEN A!NewBlock ELSE A!Get(n.blocks, j)
      BY <3>4, Zenon
    <3> QED
      BY <3>1, <3>2, <3>3, Zenon DEF g
  <2>8. IsToolStart(ev) /\ j = ev.index => g = <<>>
    BY DEF g
  <2>9. ASSUME e = <<>>
        PROVE  /\ Kept(A!Drop(n.blocks, ev.index), <<joined, ev>>, <<>>)
               /\ Kept(A!Drop(n.blocks, ev.index), <<>>, <<joined, ev>>)
    <3> DEFINE x == A!InputPart(j, joined)
               y == Get(A!Drop(n.blocks, ev.index))
    <3>1. /\ j = ev.index => x = g /\ y = <<>>
          /\ j # ev.index => x = <<>> /\ y = g
      BY <1>4, <1>12, <2>7
    <3> HIDE DEF x, y
    <3>2. Joins(g, x, y) /\ Joins(g, <<>>, g) /\ Joins(y, <<>>, y)
      BY <2>2, <3>1
    <3> QED
      BY <1>6, <2>1, <2>3, <2>6, <2>9, <3>2, Zenon DEF x, y
  <2>10. /\ e = <<>> /\ (j = ev.index => g = <<>>) =>
              /\ Kept(A!Drop(n.blocks, ev.index), <<>>, Append(b.rawDeltas, ev))
              /\ Kept(A!Put(n.blocks, ev.index, A!NewBlock), <<>>, <<ev>>)
         /\ e = <<>> => Kept(n.blocks, <<>>, <<ev>>)
    <3> HIDE DEF Kept, Get
    <3> QED
      BY <2>4, <2>6, <2>7
  <2> HIDE DEF Kept
  <2>12. ASSUME NEW bs, NEW h, NEW fs, r = A!Normalized(bs, h, fs), Kept(bs, h, fs)
         PROVE  Kept(r.norm.blocks, r.norm.held, r.out)
    BY <1>11, <2>12, Zenon
  <2>13. ASSUME NEW bs, NEW fs, r = A!Normalized(bs, n.held, fs), Kept(bs, <<>>, fs)
         PROVE  Kept(r.norm.blocks, r.norm.held, r.out)
    BY <1>11, <1>14, <2>13, Zenon
  <2>11. Kept(r.norm.blocks, r.norm.held, r.out)
    BY <1>8, <1>9, <1>10, <1>12, <1>14, <2>5, <2>8, <2>9, <2>10, <2>12, <2>13, Zenon
    DEF Moves, joined
  <2> QED
    BY <2>11, Zenon DEF Kept, PendingInput, Joins, e
<1> QED
  BY <1>13, <1>14

\* What an event more says of the blocks that are open.
LEMMA OpenAppended ==
    ASSUME NEW evs \in Seq(A!Events), NEW ev \in A!Events, NEW i,
           NEW f, f = Append(evs, ev)
    PROVE  /\ \A k \in 1 .. Len(evs) + 1 : OpenBefore(f, i, k) <=> OpenBefore(evs, i, k)
           /\ OpenBefore(evs, i, Len(evs) + 1) /\ ~(ev.index = i /\ IsStop(ev))
                => OpenBefore(f, i, Len(f) + 1)
           /\ ev.index = i /\ ev.type = "content_block_start" => OpenBefore(f, i, Len(f) + 1)
<1>1. /\ Len(evs) \in Nat /\ Len(f) = Len(evs) + 1 /\ f[Len(evs) + 1] = ev
      /\ \A m \in 1 .. Len(evs) : f[m] = evs[m]
  BY LenProperties, AppendProperties
<1> DEFINE n == Len(evs)
<1>2. n \in Nat /\ Len(f) + 1 = n + 2
  BY <1>1
<1> HIDE DEF n
<1>3. ASSUME NEW k \in 1 .. n + 1
      PROVE  OpenBefore(f, i, k) <=> OpenBefore(evs, i, k)
  <2>1. \A m \in 1 .. k - 1 : f[m] = evs[m]
    BY <1>1, <1>2 DEF n
  <2>2. \A j \in 1 .. k - 1 : \A m \in j + 1 .. k - 1 : m \in 1 .. k - 1
    BY <1>2
  <2>3. ASSUME NEW j \in 1 .. k - 1
        PROVE  (\A m \in j + 1 .. k - 1 : f[m].index = i => f[m].type # "content_block_stop")
               <=> (\A m \in j + 1 .. k - 1 :
                      evs[m].index = i => evs[m].type # "content_block_stop")
    BY <2>1, <2>2
  <2> QED
    BY <2>1, <2>3, Zenon DEF OpenBefore
<1>4. ASSUME NEW k, k = n + 1, NEW l, l = n + 2, OpenBefore(evs, i, k),
             ~(ev.index = i /\ IsStop(ev))
      PROVE  OpenBefore(f, i, l)
  <2>1. PICK j \in 1 .. k - 1 :
          /\ evs[j].index = i /\ evs[j].type = "content_block_start"
          /\ \A m \in j + 1 .. k - 1 :
               evs[m].index = i => evs[m].type # "content_block_stop"
    BY <1>4, Zenon DEF OpenBefore
  <2>2. j \in 1 .. n
    BY <1>2, <1>4, <2>1
  <2>3. f[j].index = i /\ f[j].type = "content_block_start"
    BY <1>1, <2>1, <2>2 DEF n
  <2>4. ASSUME NEW m \in j + 1 .. l - 1, f[m].index = i
        PROVE  f[m].type # "content_block_stop"
    <3>1. CASE m = n + 1
      BY <1>1, <1>4, <2>4, <3>1 DEF n, IsStop
    <3>2. CASE m # n + 1
      <4>1. m \in j + 1 .. k - 1 /\ m \in 1 .. n
        BY <1>2, <1>4, <2>2, <3>2
      <4> QED
        BY <1>1, <2>1, <2>4, <4>1 DEF n
    <3> QED
      BY <3>1, <3>2
  <2>5. j \in 1 .. l - 1
    BY <1>2, <1>4, <2>2
  <2> QED
    BY <2>3, <2>4, <2>5, Zenon DEF OpenBefore
<1>5. ASSUME NEW l, l = n + 2, ev.index = i, ev.type = "content_block_start"
      PROVE  OpenBefore(f, i, l)
  <2>1. PICK k : k = n + 1
    OBVIOUS
  <2>2. k \in 1 .. l - 1 /\ k + 1 .. l - 1 = {}
    BY <1>2, <1>5, <2>1
  <2>3. f[k] = ev
    BY <1>1, <2>1 DEF n
  <2> QED
    BY <1>5, <2>2, <2>3, Zenon DEF OpenBefore
<1> QED
  BY <1>2, <1>3, <1>4, <1>5 DEF n

\* What the protocol says of the last event.
LEMMA ProtocolAppended ==
    ASSUME NEW evs \in Seq(A!Events), NEW ev \in A!Events, BlockProtocol(Append(evs, ev))
    PROVE  /\ BlockProtocol(evs)
           /\ ev.type \in {"content_block_delta", "content_block_stop"} =>
                OpenBefore(evs, ev.index, Len(evs) + 1)
           /\ ev.type = "content_block_start" => ~OpenBefore(evs, ev.index, Len(evs) + 1)
<1> DEFINE f == Append(evs, ev)
<1>1. /\ Len(evs) \in Nat /\ Len(f) = Len(evs) + 1 /\ f[Len(evs) + 1] = ev
      /\ \A m \in 1 .. Len(evs) : f[m] = evs[m]
      /\ DOMAIN evs = 1 .. Len(evs) /\ DOMAIN f = 1 .. Len(evs) + 1
  BY LenProperties, AppendProperties
<1> DEFINE n == Len(evs)
<1> HIDE DEF f
<1>2. ASSUME NEW i, NEW k \in 1 .. n + 1
      PROVE  OpenBefore(f, i, k) <=> OpenBefore(evs, i, k)
  BY <1>2, OpenAppended DEF f
<1> HIDE DEF n
<1>3. BlockProtocol(f)
  BY DEF f
<1>4. n \in Nat
  BY <1>1 DEF n
<1>5. BlockProtocol(evs)
  <2>1. \A k \in DOMAIN evs : k \in DOMAIN f /\ k \in 1 .. n + 1 /\ f[k] = evs[k]
    BY <1>1, <1>4 DEF n
  <2> QED
    BY <1>2, <1>3, <2>1 DEF BlockProtocol
<1>6. n + 1 \in DOMAIN f /\ n + 1 \in 1 .. n + 1 /\ f[n + 1] = ev
  BY <1>1, <1>4 DEF n
<1> QED
  BY <1>2, <1>3, <1>5, <1>6 DEF BlockProtocol, n

\* Which blocks the normalizer has in hand after an event.
LEMMA NormalizerBlocks ==
    ASSUME Normalizing, NEW n \in NormStates, NEW ev \in A!Events,
           NEW r, r = A!NormalizerAccept(n, ev), r.fail = A!NoFail,
           NEW i \in DOMAIN r.norm.blocks
    PROVE  \/ i \in DOMAIN n.blocks /\ ~(ev.index = i /\ IsStop(ev))
           \/ i = ev.index /\ (IsToolStart(ev) \/ A!IsInputDelta(ev))
<1> DEFINE b == A!Get(n.blocks, ev.index)
           Kept(blocks) == i \in DOMAIN blocks =>
             \/ i \in DOMAIN n.blocks /\ ~(ev.index = i /\ IsStop(ev))
             \/ i = ev.index /\ (IsToolStart(ev) \/ A!IsInputDelta(ev))
<1>1. n.blocks \in ToolBlocks /\ ev.index \in Int
  BY AnthropicEventShape DEF NormStates, AnthropicShape
<1>2. Moves(n, ev, b, r)
  BY NormalizerMoves
<1>3. ASSUME NEW bs, NEW h, NEW fs, r = A!Normalized(bs, h, fs), Kept(bs)
      PROVE  Kept(r.norm.blocks)
  BY <1>3 DEF A!Normalized
<1>4. IsStop(ev) \/ Kept(n.blocks)
  OBVIOUS
<1>5. Kept(A!Drop(n.blocks, ev.index))
  BY <1>1, BlockDropped
<1>6. IsToolStart(ev) => Kept(A!Put(n.blocks, ev.index, A!NewBlock))
  <2>1. DOMAIN A!Put(n.blocks, ev.index, A!NewBlock) = DOMAIN n.blocks \cup {ev.index}
    BY DEF A!Put
  <2> QED
    BY <2>1 DEF IsToolStart, IsStop
<1>7. A!IsInputDelta(ev) => Kept(A!Accumulate(n.blocks, ev))
  BY <1>1, FragmentJoins, ZenonT(60) DEF A!IsInputDelta, IsStop
<1>8. ev = A!Ping \/ ev = A!StopReason("limit") => ~IsStop(ev)
  <2>1. A!Ping.type = "ping" /\ A!StopReason("limit").type = "message_delta"
    BY EventFields DEF A!Ping, A!StopReason, Fields
  <2> QED
    BY <2>1 DEF IsStop
<1> HIDE DEF Kept, b
<1>9. Kept(r.norm.blocks)
  BY <1>2, <1>3, <1>4, <1>5, <1>6, <1>7, <1>8, Zenon DEF Moves
<1> QED
  BY <1>9 DEF Kept

-----------------------------------------------------------------------------
(* A whole stream through the normalizer                                   *)

\* A prefix of a prefix is one.
LEMMA PrefixTransitive ==
    ASSUME NEW S, NEW f \in Seq(S), NEW g \in Seq(S), NEW h \in Seq(S),
           IsPrefix(f, g), IsPrefix(g, h)
    PROVE  IsPrefix(f, h)
<1>1. /\ Len(f) \in Nat /\ Len(g) \in Nat /\ Len(h) \in Nat
      /\ Len(f) <= Len(g) /\ Len(g) <= Len(h)
      /\ SubSeq(f, 1, Len(f)) = SubSeq(g, 1, Len(f))
      /\ SubSeq(g, 1, Len(g)) = SubSeq(h, 1, Len(g))
  BY LenProperties DEF IsPrefix
<1>2. \A i \in 1 .. Len(g) : g[i] = h[i]
  <2>1. /\ SubSeq(g, 1, Len(g)) = [i \in 1 .. Len(g) |-> g[i]]
        /\ SubSeq(h, 1, Len(g)) = [i \in 1 .. Len(g) |-> h[i]]
    BY <1>1
  <2> QED
    BY <1>1, <2>1
<1>3. SubSeq(g, 1, Len(f)) = SubSeq(h, 1, Len(f))
  <2>1. /\ SubSeq(g, 1, Len(f)) = [i \in 1 .. Len(f) |-> g[i]]
        /\ SubSeq(h, 1, Len(f)) = [i \in 1 .. Len(f) |-> h[i]]
    BY <1>1
  <2>2. \A i \in 1 .. Len(f) : i \in 1 .. Len(g)
    BY <1>1
  <2> QED
    BY <1>2, <2>1, <2>2
<1> QED
  BY <1>1, <1>3 DEF IsPrefix

\* Whatever continues a sequence continues its prefixes.
LEMMA PrefixJoined ==
    ASSUME NEW S, NEW f \in Seq(S), NEW g \in Seq(S), NEW t \in Seq(S),
           IsPrefix(f, g), NEW h, Joins(h, g, t)
    PROVE  h \in Seq(S) /\ IsPrefix(f, h)
<1>1. h \in Seq(S) /\ IsPrefix(g, h)
  BY JoinsFacts
<1> QED
  BY <1>1, PrefixTransitive

\* The empty sequence and the sequence itself are prefixes.
LEMMA PrefixEnds ==
    ASSUME NEW S, NEW s \in Seq(S)
    PROVE  IsPrefix(<<>>, s) /\ IsPrefix(s, s)
<1>1. Joins(s, <<>>, s) /\ Joins(s, s, <<>>) /\ <<>> \in Seq(S)
  BY JoinsFacts
<1> QED
  BY <1>1, JoinsFacts

\* What a new normalizer makes of a stream.
Start == [norm |-> A!NewNormalizer, out |-> <<>>, fail |-> A!NoFail]
\* What it makes of a whole stream.
Acc(evs) == A!Normalize(A!NewNormalizer, evs)

\* It takes in a stream event by event.
LEMMA AccSteps ==
    /\ Acc(<<>>) = Start
    /\ \A evs \in Seq(A!Events), ev \in A!Events :
         Acc(Append(evs, ev)) = A!NormalizeNext(Acc(evs), ev)
<1>1. \A evs : Acc(evs) = NI!Fold(Start, evs)
  BY Zenon DEF Acc, Start, A!Normalize, A!FoldLeft, NI!Fold, NI!FoldLeft, NI!MapThenFoldSet,
     A!MapThenFoldSet, A!Max, NI!Max
<1>2. Acc(<<>>) = Start
  BY <1>1, NI!FoldEmpty
<1>3. ASSUME NEW evs \in Seq(A!Events), NEW ev \in A!Events
      PROVE  Acc(Append(evs, ev)) = A!NormalizeNext(Acc(evs), ev)
  BY <1>1, NI!FoldAppend
<1> QED
  BY <1>2, <1>3

\* What is known of the tool input the normalizer sent and of what it holds.
InputsKnown(a, evs) ==
    /\ \A i : IsPrefix(A!InputOf(a.out, i), A!InputOf(evs, i))
    /\ a.fail = A!NoFail =>
         /\ \A i : Joins(A!InputOf(evs, i), A!InputOf(a.out, i), PendingInput(a.norm, i))
         /\ \A i \in DOMAIN a.norm.blocks : OpenBefore(evs, i, Len(evs) + 1)

\* What is known of all it sent.
KnownAs(a, evs) ==
    /\ a = [norm |-> a.norm, out |-> a.out, fail |-> a.fail]
    /\ a.norm \in NormStates /\ a.out \in Seq(A!Events)
    /\ a.fail = A!NoFail => Joins(A!Others(evs), A!Others(a.out), A!Others(a.norm.held))
    /\ IsPrefix(A!Others(a.out), A!Others(evs))
    /\ BlockProtocol(evs) => InputsKnown(a, evs)

\* A step that fails sends nothing more.
LEMMA FailedIsKnown ==
    ASSUME NEW evs \in Seq(A!Events), NEW ev \in A!Events, NEW a, KnownAs(a, evs),
           NEW c, c.norm \in NormStates, c.out = a.out, c.fail # A!NoFail,
           c = [norm |-> c.norm, out |-> c.out, fail |-> c.fail]
    PROVE  KnownAs(c, Append(evs, ev))
<1> DEFINE f == Append(evs, ev)
<1>1. a.out \in Seq(A!Events) /\ IsPrefix(A!Others(a.out), A!Others(evs))
  BY DEF KnownAs
<1>2. IsPrefix(A!Others(a.out), A!Others(f))
  <2>1. /\ A!Others(a.out) \in Seq(A!Events) /\ A!Others(evs) \in Seq(A!Events)
        /\ A!OtherPart(ev) \in Seq(A!Events)
        /\ Joins(A!Others(f), A!Others(evs), A!OtherPart(ev))
    BY <1>1, OthersRead
  <2> HIDE DEF f
  <2> QED
    BY <1>1, <2>1, PrefixJoined
<1>3. ASSUME BlockProtocol(f), NEW i
      PROVE  IsPrefix(A!InputOf(a.out, i), A!InputOf(f, i))
  <2>1. IsPrefix(A!InputOf(a.out, i), A!InputOf(evs, i))
    BY <1>3, ProtocolAppended DEF KnownAs, InputsKnown
  <2>2. /\ A!InputOf(a.out, i) \in Seq(A!Fragments) /\ A!InputOf(evs, i) \in Seq(A!Fragments)
        /\ A!InputPart(i, ev) \in Seq(A!Fragments)
        /\ Joins(A!InputOf(f, i), A!InputOf(evs, i), A!InputPart(i, ev))
    BY <1>1, InputRead
  <2> HIDE DEF f
  <2> QED
    BY <2>1, <2>2, PrefixJoined
<1> HIDE DEF f
<1> QED
  BY <1>1, <1>2, <1>3 DEF KnownAs, InputsKnown, f

\* A step that does not, sends what is due.
LEMMA AcceptedStepIsKnown ==
    ASSUME Normalizing, NEW evs \in Seq(A!Events), NEW ev \in A!Events,
           NEW a, KnownAs(a, evs), a.fail = A!NoFail,
           NEW r, r = A!NormalizerAccept(a.norm, ev), r.fail = A!NoFail,
           NEW c, c.norm = r.norm, c.out = a.out \o r.out, c.fail = A!NoFail,
           c = [norm |-> c.norm, out |-> c.out, fail |-> c.fail]
    PROVE  KnownAs(c, Append(evs, ev))
<1> DEFINE f == Append(evs, ev)
<1>1. a.norm \in NormStates /\ a.out \in Seq(A!Events)
      /\ Joins(A!Others(evs), A!Others(a.out), A!Others(a.norm.held))
  BY DEF KnownAs
<1>2. r.norm \in NormStates /\ r.out \in Seq(A!Events)
  BY <1>1, NormalizerTypes
<1>3. a.norm.held \in Seq(A!Events) /\ r.norm.held \in Seq(A!Events)
  BY <1>1, <1>2 DEF NormStates
<1>4. c.out \in Seq(A!Events)
  BY <1>1, <1>2, ConcatProperties
<1>5. Joins(A!Others(f), A!Others(c.out), A!Others(r.norm.held))
  <2>1. PICK pe : /\ Joins(pe, A!Others(a.norm.held), A!OtherPart(ev))
                  /\ Joins(pe, A!Others(r.out), A!Others(r.norm.held))
    BY <1>1, NormalizerKeepsOthers
  <2>2. Joins(A!Others(f), A!Others(evs), A!OtherPart(ev)) /\ A!OtherPart(ev) \in Seq(A!Events)
    BY OthersRead
  <2>3. Joins(A!Others(c.out), A!Others(a.out), A!Others(r.out))
    BY <1>1, <1>2, OthersRead
  <2>4. /\ A!Others(a.out) \in Seq(A!Events) /\ A!Others(a.norm.held) \in Seq(A!Events)
        /\ A!Others(r.out) \in Seq(A!Events) /\ A!Others(r.norm.held) \in Seq(A!Events)
    BY <1>1, <1>2, <1>3, OthersRead
  <2> HIDE DEF f
  <2> QED
    BY <1>1, <2>1, <2>2, <2>3, <2>4, CarryOver, SMTT(30)
<1>6. IsPrefix(A!Others(c.out), A!Others(f))
  <2>1. A!Others(c.out) \in Seq(A!Events) /\ A!Others(r.norm.held) \in Seq(A!Events)
    BY <1>3, <1>4, OthersRead
  <2> HIDE DEF f
  <2> QED
    BY <1>5, <2>1, JoinsFacts
<1>7. ASSUME BlockProtocol(f)
      PROVE  InputsKnown(c, f)
  <2>1. /\ InputsKnown(a, evs)
        /\ ev.type \in {"content_block_delta", "content_block_stop"} =>
             OpenBefore(evs, ev.index, Len(evs) + 1)
        /\ ev.type = "content_block_start" => ~OpenBefore(evs, ev.index, Len(evs) + 1)
    BY <1>7, ProtocolAppended DEF KnownAs
  <2>2. \A i \in DOMAIN a.norm.blocks : OpenBefore(evs, i, Len(evs) + 1)
    BY <2>1 DEF InputsKnown
  <2>3. ASSUME NEW i
        PROVE  /\ Joins(A!InputOf(f, i), A!InputOf(c.out, i), PendingInput(r.norm, i))
               /\ IsPrefix(A!InputOf(c.out, i), A!InputOf(f, i))
    <3>1. IsToolStart(ev) /\ ev.index = i => A!Get(a.norm.blocks, i).input = <<>>
      <4>1. IsToolStart(ev) /\ ev.index = i => i \notin DOMAIN a.norm.blocks
        BY <2>1, <2>2 DEF IsToolStart
      <4> QED
        BY <4>1, NewBlockIsEmpty DEF A!Get
    <3>2. PICK pe : /\ Joins(pe, PendingInput(a.norm, i), A!InputPart(i, ev))
                    /\ Joins(pe, A!InputOf(r.out, i), PendingInput(r.norm, i))
      BY <1>1, <3>1, NormalizerKeepsInput
    <3>3. /\ Joins(A!InputOf(f, i), A!InputOf(evs, i), A!InputPart(i, ev))
          /\ A!InputPart(i, ev) \in Seq(A!Fragments)
      BY InputRead
    <3>4. Joins(A!InputOf(c.out, i), A!InputOf(a.out, i), A!InputOf(r.out, i))
      BY <1>1, <1>2, InputRead
    <3>5. /\ A!InputOf(a.out, i) \in Seq(A!Fragments) /\ A!InputOf(r.out, i) \in Seq(A!Fragments)
          /\ A!InputOf(c.out, i) \in Seq(A!Fragments)
          /\ PendingInput(a.norm, i) \in Seq(A!Fragments)
          /\ PendingInput(r.norm, i) \in Seq(A!Fragments)
      BY <1>1, <1>2, <1>4, InputRead, PendingIsInput
    <3>6. Joins(A!InputOf(evs, i), A!InputOf(a.out, i), PendingInput(a.norm, i))
      BY <2>1 DEF InputsKnown
    <3> HIDE DEF f
    <3>7. Joins(A!InputOf(f, i), A!InputOf(c.out, i), PendingInput(r.norm, i))
      BY <3>2, <3>3, <3>4, <3>5, <3>6, CarryOver, SMTT(30)
    <3> QED
      BY <3>5, <3>7, JoinsFacts
  <2>4. ASSUME NEW i \in DOMAIN r.norm.blocks
        PROVE  OpenBefore(f, i, Len(f) + 1)
    <3>1. \/ i \in DOMAIN a.norm.blocks /\ ~(ev.index = i /\ IsStop(ev))
          \/ i = ev.index /\ (IsToolStart(ev) \/ A!IsInputDelta(ev))
      BY <1>1, NormalizerBlocks
    <3>2. A!IsInputDelta(ev) => ev.type = "content_block_delta" /\ ~IsStop(ev)
      BY DEF A!IsInputDelta, IsStop
    <3>3. IsToolStart(ev) => ev.type = "content_block_start"
      BY DEF IsToolStart
    <3>4. /\ OpenBefore(evs, i, Len(evs) + 1) /\ ~(ev.index = i /\ IsStop(ev))
               => OpenBefore(f, i, Len(f) + 1)
          /\ ev.index = i /\ ev.type = "content_block_start" => OpenBefore(f, i, Len(f) + 1)
      BY OpenAppended
    <3> HIDE DEF f
    <3> QED
      BY <2>1, <2>2, <3>1, <3>2, <3>3, <3>4
  <2> HIDE DEF f
  <2> QED
    BY <2>3, <2>4 DEF InputsKnown
<1> HIDE DEF f
<1> QED
  BY <1>2, <1>4, <1>5, <1>6, <1>7 DEF KnownAs, f

\* When it rejects an event, nothing has changed.
LEMMA NormalizerRejects ==
    ASSUME NEW n, NEW ev \in A!Events,
           NEW r, r = A!NormalizerAccept(n, ev), r.fail # A!NoFail
    PROVE  /\ Normalizing /\ n.held # <<>> /\ A!JudgeTruncated(ev) \notin {"wait", "excused"}
           /\ r = [norm |-> n, out |-> <<>>, fail |-> A!MalformedSSE]
<1>1. \A bs, h, fs : r # A!Normalized(bs, h, fs)
  BY DEF A!Normalized
<1>2. \/ Normalizing /\ n.held # <<>> /\ r = A!JudgeHeld(n, ev)
      \/ r = A!CloseBlock(n, ev)
  BY <1>1, Zenon DEF Normalizing, A!NormalizerAccept
<1>3. r # A!CloseBlock(n, ev)
  BY <1>1, Zenon DEF A!CloseBlock
<1>4. /\ A!JudgeTruncated(ev) \notin {"wait", "excused"}
      /\ r = [norm |-> n, out |-> <<>>, fail |-> A!MalformedSSE]
  BY <1>1, <1>2, <1>3, Zenon DEF A!JudgeHeld
<1> QED
  BY <1>2, <1>3, <1>4

\* What is known of a stream is known of every stream.
LEMMA NormalizedIsKnown ==
    ASSUME Normalizing, NEW evs \in Seq(A!Events)
    PROVE  KnownAs(Acc(evs), evs)
<1> DEFINE N == {s \in Seq(A!Events) : KnownAs(Acc(s), s)}
<1>1. <<>> \in N
  <2> DEFINE none == <<>>
  <2>1. none \in Seq(A!Events) /\ Start.out = none /\ Start.norm = A!NewNormalizer
        /\ Start = [norm |-> Start.norm, out |-> Start.out, fail |-> Start.fail]
    BY DEF Start
  <2>2. A!NewNormalizer \in NormStates /\ DOMAIN A!NewNormalizer.blocks = {}
        /\ A!NewNormalizer.held = none
    BY NewBlockIsEmpty DEF A!NewNormalizer
  <2>3. /\ A!Others(none) = <<>> /\ <<>> \in Seq(A!Events) /\ <<>> \in Seq(A!Fragments)
    BY OthersRead
  <2>4. \A i : A!InputOf(none, i) = <<>> /\ A!Get(A!NewNormalizer.blocks, i).input = <<>>
    <3>1. \A i : A!Get(A!NewNormalizer.blocks, i) = A!NewBlock
      BY <2>2 DEF A!Get
    <3> QED
      BY <3>1, InputRead, NewBlockIsEmpty
  <2>5. Joins(<<>>, <<>>, <<>>) /\ IsPrefix(<<>>, <<>>)
    BY <2>3, JoinsFacts, PrefixEnds
  <2>6. \A i : PendingInput(A!NewNormalizer, i) = <<>>
    <3>1. <<>> \o <<>> = <<>>
      OBVIOUS
    <3> HIDE DEF none
    <3> QED
      BY <2>2, <2>4, <3>1, Zenon DEF PendingInput
  <2> HIDE DEF none
  <2>7. InputsKnown(Start, none)
    BY <2>1, <2>2, <2>4, <2>5, <2>6 DEF InputsKnown
  <2>8. KnownAs(Start, none)
    BY <2>1, <2>2, <2>3, <2>5, <2>7 DEF KnownAs
  <2> QED
    BY <2>1, <2>8, AccSteps DEF none
<1>2. ASSUME NEW s \in Seq(A!Events), NEW e \in A!Events, s \in N
      PROVE  Append(s, e) \in N
  <2> DEFINE a == Acc(s)
             c == Acc(Append(s, e))
             r == A!NormalizerAccept(a.norm, e)
  <2>1. KnownAs(a, s) /\ c = A!NormalizeNext(a, e) /\ Append(s, e) \in Seq(A!Events)
    BY <1>2, AccSteps
  <2>2. /\ a = [norm |-> a.norm, out |-> a.out, fail |-> a.fail]
        /\ a.norm \in NormStates /\ a.out \in Seq(A!Events)
    BY <2>1 DEF KnownAs
  <2> HIDE DEF a, c
  <2>3. CASE a.fail # A!NoFail
    <3>1. c = a
      BY <2>1, <2>3 DEF A!NormalizeNext
    <3>2. KnownAs(c, Append(s, e))
      BY <2>1, <2>2, <2>3, <3>1, FailedIsKnown
    <3> QED
      BY <2>1, <3>2 DEF c
  <2>4. CASE a.fail = A!NoFail
    <3>1. c = [norm |-> r.norm, out |-> a.out \o r.out, fail |-> r.fail]
      BY <2>1, <2>4, Zenon DEF A!NormalizeNext
    <3> HIDE DEF r
    <3>2. c.norm = r.norm /\ c.out = a.out \o r.out /\ c.fail = r.fail
          /\ c = [norm |-> c.norm, out |-> c.out, fail |-> c.fail]
      BY <3>1
    <3>3. CASE r.fail = A!NoFail
      <4>1. KnownAs(c, Append(s, e))
        BY <2>1, <2>4, <3>2, <3>3, AcceptedStepIsKnown DEF r
      <4> QED
        BY <2>1, <4>1 DEF c
    <3>4. CASE r.fail # A!NoFail
      <4>1. r = [norm |-> a.norm, out |-> <<>>, fail |-> A!MalformedSSE]
        BY <3>4, NormalizerRejects DEF r
      <4>2. r.norm = a.norm /\ r.out = <<>>
        BY <4>1
      <4>3. c.norm \in NormStates /\ c.out = a.out /\ c.fail # A!NoFail
        BY <2>2, <3>2, <3>4, <4>2, ConcatEmptySeq
      <4>4. KnownAs(c, Append(s, e))
        BY <2>1, <3>2, <4>3, FailedIsKnown
      <4> QED
        BY <2>1, <4>4 DEF c
    <3> QED
      BY <3>3, <3>4
  <2> QED
    BY <2>3, <2>4
<1> HIDE DEF N
<1>3. Seq(A!Events) \subseteq N
  BY <1>1, <1>2, NI!SequencesByAppend
<1> QED
  BY <1>3 DEF N

\* With the normalizer switched off every event goes out as it came.
LEMMA UnnormalizedIsWhole ==
    ASSUME ~Normalizing, NEW evs \in Seq(A!Events)
    PROVE  Acc(evs) = [norm |-> A!NewNormalizer, out |-> evs, fail |-> A!NoFail]
<1> DEFINE Whole(s) == [norm |-> A!NewNormalizer, out |-> s, fail |-> A!NoFail]
           N == {s \in Seq(A!Events) : Acc(s) = Whole(s)}
<1>1. <<>> \in N
  BY AccSteps DEF Start
<1>2. ASSUME NEW s \in Seq(A!Events), NEW e \in A!Events, s \in N
      PROVE  Append(s, e) \in N
  <2> DEFINE n == A!NewNormalizer
             one == <<e>>
             r == A!Normalized(n.blocks, n.held, one)
  <2>1. Acc(s) = Whole(s) /\ Acc(Append(s, e)) = A!NormalizeNext(Acc(s), e)
        /\ Append(s, e) \in Seq(A!Events)
    BY <1>2, AccSteps
  <2>2. Acc(s).norm = n /\ Acc(s).out = s /\ Acc(s).fail = A!NoFail
    BY <2>1
  <2>3. A!NormalizerAccept(n, e) = r
    BY Zenon DEF Normalizing, A!NormalizerAccept
  <2>4. n = [blocks |-> n.blocks, held |-> n.held]
    BY DEF A!NewNormalizer
  <2>5. r.norm = n /\ r.out = one /\ r.fail = A!NoFail
    <3> HIDE DEF n, one
    <3> QED
      BY <2>4 DEF A!Normalized
  <2> HIDE DEF r, n
  <2>6. Acc(Append(s, e)) = [norm |-> n, out |-> s \o one, fail |-> A!NoFail]
    <3> HIDE DEF one
    <3> QED
      BY <2>1, <2>2, <2>3, <2>5, Zenon DEF A!NormalizeNext
  <2>7. s \o one = Append(s, e)
    BY AppendIsConcat
  <2> QED
    BY <2>1, <2>6, <2>7 DEF n
<1> HIDE DEF N
<1>3. Seq(A!Events) \subseteq N
  BY <1>1, <1>2, NI!SequencesByAppend
<1> QED
  BY <1>3 DEF N

-----------------------------------------------------------------------------
(* The tool validator and the normalizer see the same blocks               *)

\* The states of the tool validator.
ToolStates == [blocks: ToolBlocks, truncated: BOOLEAN]

\* The validator has the normalizer's blocks and knows whether one is judged.
Alike(v, n) == v.blocks = n.blocks /\ (v.truncated <=> n.held # <<>>)

\* What the validator does with an event it accepts.
Validates(v, ev, t) ==
    \/ ev.type = "" /\ t = A!Judged(v.blocks, v.truncated, A!NoFail)
    \/ /\ v.truncated /\ ev = A!Ping
       /\ t = A!Judged(v.blocks, TRUE, A!NoFail)
    \/ /\ v.truncated /\ ev = A!StopReason("limit")
       /\ t = A!Judged(v.blocks, FALSE, A!NoFail)
    \/ /\ ~v.truncated /\ IsToolStart(ev)
       /\ t = A!Judged(A!Put(v.blocks, ev.index, A!NewBlock), FALSE, A!NoFail)
    \/ /\ ~v.truncated /\ A!IsInputDelta(ev)
       /\ t = A!Judged(A!Accumulate(v.blocks, ev), FALSE, A!NoFail)
    \/ /\ ~v.truncated /\ IsStop(ev)
       /\ t = A!Judged(A!Drop(v.blocks, ev.index), A!ClosesInvalid(v.blocks, ev.index), A!NoFail)
    \/ /\ ~v.truncated /\ ~A!IsInputDelta(ev) /\ ~IsToolStart(ev) /\ ~IsStop(ev)
       /\ t = A!Judged(v.blocks, FALSE, A!NoFail)

\* The parts of what the validator returns.
LEMMA JudgedFields ==
    ASSUME NEW blocks, NEW truncated, NEW fail
    PROVE  /\ A!Judged(blocks, truncated, fail).tool.blocks = blocks
           /\ A!Judged(blocks, truncated, fail).tool.truncated = truncated
           /\ A!Judged(blocks, truncated, fail).fail = fail
BY DEF A!Judged

\* It does one of these, and lets no message end with an input that is open.
LEMMA ToolValidates ==
    ASSUME NEW v \in ToolStates, NEW ev \in A!Events,
           NEW t, t = A!ToolAccept(v, ev), t.fail = A!NoFail
    PROVE  /\ Validates(v, ev, t)
           /\ ev.type = "message_stop" =>
                ~v.truncated /\ \A i \in DOMAIN v.blocks : ~v.blocks[i].sawInputDelta
<1> DEFINE stillOpen == \E i \in DOMAIN v.blocks : v.blocks[i].sawInputDelta
           next == A!JudgeTruncated(ev)
<1>1. \A bs, h : t # A!Judged(bs, h, A!MalformedSSE)
  <2>1. A!MalformedSSE # A!NoFail
    BY DEF A!MalformedSSE, A!NoFail, A!Transient
  <2> QED
    BY <2>1, JudgedFields
<1>2. /\ ev.type = "ping" <=> ev = A!Ping
      /\ next = "wait" => ev = A!Ping
      /\ next = "excused" => ev = A!StopReason("limit")
      /\ next \in {"wait", "excused", "reject"}
  <2>1. ev.type = "ping" <=> ev = A!Ping
    BY AnthropicEventShape DEF AnthropicShape
  <2> QED
    BY <2>1 DEF A!JudgeTruncated
<1>3. CASE ev.type = ""
  <2>1. t = A!Judged(v.blocks, v.truncated, A!NoFail)
    BY <1>3, Zenon DEF A!ToolAccept
  <2> QED
    BY <1>3, <2>1, Zenon DEF Validates
<1>4. CASE ev.type # ""
  <2>1. /\ ~(ev.type = "message_stop" /\ stillOpen)
        /\ ~(v.truncated /\ next \notin {"wait", "excused"})
    BY <1>1, <1>4, Zenon DEF A!ToolAccept
  <2>2. ev.type # "shapeless"
    BY <1>1, <1>4, Zenon DEF A!ToolAccept
  <2> HIDE DEF stillOpen, next
  <2>3. CASE v.truncated
    <3>1. t = A!Judged(v.blocks, next = "wait", A!NoFail)
      BY <1>4, <2>1, <2>2, <2>3, Zenon DEF A!ToolAccept, next, stillOpen
    <3>2. CASE next = "wait"
      <4>1. t = A!Judged(v.blocks, TRUE, A!NoFail)
        BY <3>1, <3>2 DEF A!Judged
      <4>2. ev.type # "message_stop"
        BY <1>2, <3>2
      <4> QED
        BY <1>2, <2>3, <3>2, <4>1, <4>2, Zenon DEF Validates
    <3>3. CASE next = "excused"
      <4>1. t = A!Judged(v.blocks, FALSE, A!NoFail)
        BY <3>1, <3>3 DEF A!Judged
      <4>2. A!StopReason("limit").type # "message_stop"
        BY EventFields DEF A!StopReason, Fields
      <4>3. ev = A!StopReason("limit") /\ ev.type # "message_stop"
        BY <1>2, <3>3, <4>2
      <4>4. Validates(v, ev, t)
        BY <2>3, <4>1, <4>3, Zenon DEF Validates
      <4> QED
        BY <4>3, <4>4
    <3> QED
      BY <2>1, <2>3, <3>2, <3>3
  <2>4. CASE ~v.truncated
    <3>1. v.truncated = FALSE
      BY <2>4 DEF ToolStates
    <3>2. \/ /\ IsToolStart(ev)
             /\ t = A!Judged(A!Put(v.blocks, ev.index, A!NewBlock), FALSE, A!NoFail)
          \/ /\ A!IsInputDelta(ev)
             /\ t = A!Judged(A!Accumulate(v.blocks, ev), FALSE, A!NoFail)
          \/ /\ IsStop(ev)
             /\ t = A!Judged(A!Drop(v.blocks, ev.index), A!ClosesInvalid(v.blocks, ev.index),
                             A!NoFail)
          \/ /\ ~A!IsInputDelta(ev) /\ ~IsToolStart(ev) /\ ~IsStop(ev)
             /\ t = A!Judged(v.blocks, FALSE, A!NoFail)
      BY <1>4, <2>1, <2>2, <2>4, Zenon DEF A!ToolAccept, next, stillOpen, IsToolStart, IsStop
    <3>3. Validates(v, ev, t)
      BY <2>4, <3>2, Zenon DEF Validates
    <3> QED
      BY <2>1, <2>4, <3>3 DEF stillOpen
  <2> QED
    BY <2>3, <2>4
<1> QED
  BY <1>3, <1>4

\* Its state stays well-typed.
LEMMA ToolTypes ==
    ASSUME NEW v \in ToolStates, NEW ev \in A!Events,
           NEW t, t = A!ToolAccept(v, ev), t.fail = A!NoFail
    PROVE  t.tool \in ToolStates
<1>1. v.blocks \in ToolBlocks /\ v.truncated \in BOOLEAN
  BY DEF ToolStates
<1>2. ev.index \in Int
  BY AnthropicEventShape DEF AnthropicShape
<1>3. /\ A!Drop(v.blocks, ev.index) \in ToolBlocks
      /\ A!Put(v.blocks, ev.index, A!NewBlock) \in ToolBlocks
      /\ A!IsInputDelta(ev) => A!Accumulate(v.blocks, ev) \in ToolBlocks
  BY <1>1, <1>2, BlockDropped, BlockPut, NewBlockIsEmpty, FragmentJoins
<1>4. A!ClosesInvalid(v.blocks, ev.index) \in BOOLEAN
  <2>1. A!Get(v.blocks, ev.index) \in ToolBlock
    BY <1>1, BlocksRead
  <2> QED
    BY <2>1 DEF A!ClosesInvalid, ToolBlock
<1>5. ASSUME NEW bs \in ToolBlocks, NEW h \in BOOLEAN, t = A!Judged(bs, h, A!NoFail)
      PROVE  t.tool \in ToolStates
  BY <1>5 DEF A!Judged, ToolStates
<1>6. Validates(v, ev, t)
  BY ToolValidates
<1>7. TRUE \in BOOLEAN /\ FALSE \in BOOLEAN
  OBVIOUS
<1> QED
  BY <1>1, <1>3, <1>4, <1>5, <1>6, <1>7, Zenon DEF Validates

\* An event that passed the validator passes the normalizer, unless it has no
\* data, and whatever both let pass leaves them alike.
LEMMA ToolAgrees ==
    ASSUME Normalizing, NEW n \in NormStates, NEW v \in ToolStates, Alike(v, n),
           NEW ev \in A!Events,
           NEW t, t = A!ToolAccept(v, ev), t.fail = A!NoFail,
           NEW r, r = A!NormalizerAccept(n, ev)
    PROVE  /\ ev.type # "" => r.fail = A!NoFail
           /\ r.fail = A!NoFail => Alike(t.tool, r.norm)
<1>1. Validates(v, ev, t)
  BY ToolValidates
<1>2. /\ A!Ping.type = "ping" /\ A!StopReason("limit").type = "message_delta"
      /\ A!Ping # A!StopReason("limit")
  BY EventFields DEF A!Ping, A!StopReason, Fields
<1>3. /\ A!JudgeTruncated(A!Ping) = "wait"
      /\ A!JudgeTruncated(A!StopReason("limit")) = "excused"
  BY <1>2 DEF A!JudgeTruncated
<1>4. ASSUME ev.type # ""
      PROVE  r.fail = A!NoFail
  <2>1. SUFFICES ASSUME r.fail # A!NoFail
                 PROVE  FALSE
    OBVIOUS
  <2>2. n.held # <<>> /\ A!JudgeTruncated(ev) \notin {"wait", "excused"}
    BY <2>1, NormalizerRejects
  <2>3. v.truncated
    BY <2>2 DEF Alike
  <2>4. ev = A!Ping \/ ev = A!StopReason("limit")
    BY <1>1, <1>4, <2>3, Zenon DEF Validates
  <2> QED
    BY <1>3, <2>2, <2>4
<1>5. ASSUME r.fail = A!NoFail
      PROVE  Alike(t.tool, r.norm)
  <2> DEFINE b == A!Get(n.blocks, ev.index)
             joined == A!InputDelta(ev.index, b.input)
  <2>1. Moves(n, ev, b, r)
    BY <1>5, NormalizerMoves
  <2>2. v.blocks = n.blocks /\ (v.truncated <=> n.held # <<>>) /\ v.truncated \in BOOLEAN
    BY DEF Alike, ToolStates
  <2>3. <<joined, ev>> # <<>> /\ Append(n.held, ev) # <<>>
    BY DEF NormStates
  <2>4. ASSUME NEW bs, NEW h, NEW fs, NEW tr, (tr <=> h # <<>>),
               r = A!Normalized(bs, h, fs), t = A!Judged(bs, tr, A!NoFail)
        PROVE  Alike(t.tool, r.norm)
    <3>1. r.norm.blocks = bs /\ r.norm.held = h
      BY <2>4 DEF A!Normalized
    <3>2. t.tool.blocks = bs /\ t.tool.truncated = tr
      BY <2>4 DEF A!Judged
    <3> QED
      BY <2>4, <3>1, <3>2, Zenon DEF Alike
  <2>5. b.input = <<>> => ~A!ClosesInvalid(n.blocks, ev.index)
    BY DEF A!ClosesInvalid
  <2>6. ev.type = "" => ev # A!Ping /\ ev # A!StopReason("limit") /\ ~A!IsInputDelta(ev)
                        /\ ~IsToolStart(ev) /\ ~IsStop(ev)
    BY <1>2 DEF A!IsInputDelta, IsToolStart, IsStop
  <2>7. /\ ev = A!Ping \/ ev = A!StopReason("limit")
             => ~A!IsInputDelta(ev) /\ ~IsToolStart(ev) /\ ~IsStop(ev)
        /\ IsStop(ev) => ~A!IsInputDelta(ev) /\ ~IsToolStart(ev)
        /\ IsToolStart(ev) => ~A!IsInputDelta(ev)
    BY <1>2 DEF A!IsInputDelta, IsToolStart, IsStop
  <2> HIDE DEF b, joined
  <2>8. CASE n.held # <<>>
    <3>1. \/ /\ ev = A!Ping
             /\ r = A!Normalized(n.blocks, Append(n.held, ev), <<>>)
          \/ /\ ev = A!StopReason("limit")
             /\ r = A!Normalized(n.blocks, <<>>, Append(n.held, ev))
      BY <2>1, <2>8, Zenon DEF Moves
    <3>2. \/ ev.type = ""
          \/ /\ ev = A!Ping /\ t = A!Judged(v.blocks, TRUE, A!NoFail)
          \/ /\ ev = A!StopReason("limit") /\ t = A!Judged(v.blocks, FALSE, A!NoFail)
      BY <1>1, <2>2, <2>8, Zenon DEF Validates
    <3> QED
      BY <1>2, <2>2, <2>3, <2>4, <2>6, <3>1, <3>2, Zenon
  <2>9. CASE n.held = <<>>
    <3>1. v.truncated = FALSE
      BY <2>2, <2>9
    <3>2. CASE IsToolStart(ev)
      <4>1. r = A!Normalized(A!Put(n.blocks, ev.index, A!NewBlock), n.held, <<ev>>)
        BY <2>1, <2>7, <2>9, <3>2, Zenon DEF Moves
      <4>2. t = A!Judged(A!Put(n.blocks, ev.index, A!NewBlock), FALSE, A!NoFail)
        BY <1>1, <2>2, <2>6, <2>7, <3>1, <3>2, Zenon DEF Validates
      <4> QED
        BY <2>4, <2>9, <4>1, <4>2, Zenon
    <3>3. CASE A!IsInputDelta(ev)
      <4>1. r = A!Normalized(A!Accumulate(n.blocks, ev), n.held, <<>>)
        BY <2>1, <2>7, <2>9, <3>3, Zenon DEF Moves
      <4>2. t = A!Judged(A!Accumulate(n.blocks, ev), FALSE, A!NoFail)
        BY <1>1, <2>2, <2>6, <2>7, <3>1, <3>3, Zenon DEF Validates
      <4> QED
        BY <2>4, <2>9, <4>1, <4>2, Zenon
    <3>4. CASE IsStop(ev)
      <4> DEFINE closes == A!ClosesInvalid(n.blocks, ev.index)
                 others == A!Drop(n.blocks, ev.index)
      <4>1. \/ /\ closes /\ r = A!Normalized(others, <<joined, ev>>, <<>>)
            \/ /\ ~closes /\ \E fs : r = A!Normalized(others, n.held, fs)
        BY <2>1, <2>5, <2>7, <2>9, <3>4, Zenon DEF Moves, joined, b
      <4>2. t = A!Judged(others, closes, A!NoFail)
        BY <1>1, <2>2, <2>6, <2>7, <3>1, <3>4, Zenon DEF Validates
      <4> HIDE DEF closes, others
      <4> QED
        BY <2>3, <2>4, <2>9, <4>1, <4>2, Zenon
    <3>5. CASE ~IsToolStart(ev) /\ ~A!IsInputDelta(ev) /\ ~IsStop(ev)
      <4>1. r = A!Normalized(n.blocks, n.held, <<ev>>)
        BY <2>1, <2>9, <3>5, Zenon DEF Moves
      <4>2. t = A!Judged(n.blocks, FALSE, A!NoFail)
        BY <1>1, <2>2, <3>1, <3>5, Zenon DEF Validates
      <4> QED
        BY <2>4, <2>9, <4>1, <4>2, Zenon
    <3> QED
      BY <3>2, <3>3, <3>4, <3>5
  <2> QED
    BY <2>8, <2>9
<1> QED
  BY <1>4, <1>5

-----------------------------------------------------------------------------
(* The verdicts of the Anthropic wire                                      *)

\* The states of the stream validator.
Validators == [sawStart: BOOLEAN, open: Int, sawStop: BOOLEAN, invalid: BOOLEAN]

\* The states of the wire.
AnthropicStates ==
    [streamToolDeltas: BOOLEAN, val: Validators, tool: ToolStates, norm: NormStates,
     sawProgress: BOOLEAN, stop: {"", "end_turn", "refusal", "limit"}]

\* The validator stays well-typed, and only the end of the message ends it.
LEMMA ValidatorSteps ==
    ASSUME NEW val \in Validators, NEW ev, NEW w, w = A!ValidatorAccept(val, ev)
    PROVE  /\ w \in Validators
           /\ ev.type # "message_stop" => w.sawStop = val.sawStop
           /\ ev.type = "message_stop" /\ ~w.invalid => A!StreamTerminal(w)
<1>1. CASE ev.type = "message_start"
  BY <1>1 DEF A!ValidatorAccept, Validators
<1>2. CASE ev.type = "content_block_start"
  <2>1. w = [val EXCEPT !.open = val.open + 1,
                        !.invalid = val.invalid \/ ~(val.sawStart /\ ~val.sawStop)]
    BY <1>2 DEF A!ValidatorAccept, Validators
  <2>2. val.open + 1 \in Int
    BY DEF Validators
  <2> QED
    BY <1>2, <2>1, <2>2 DEF Validators
<1>3. CASE ev.type = "content_block_stop"
  <2>1. \/ w = [val EXCEPT !.invalid = TRUE]
        \/ w = [val EXCEPT !.open = val.open - 1]
    BY <1>3 DEF A!ValidatorAccept, Validators
  <2>2. val.open - 1 \in Int
    BY DEF Validators
  <2> QED
    BY <1>3, <2>1, <2>2 DEF Validators
<1>4. CASE ev.type \in {"content_block_delta", "message_delta"}
  BY <1>4 DEF A!ValidatorAccept, Validators
<1>5. CASE ev.type = "message_stop"
  BY <1>5 DEF A!ValidatorAccept, Validators, A!StreamTerminal
<1>6. CASE ev.type \notin {"message_start", "content_block_start", "content_block_stop",
                           "content_block_delta", "message_delta", "message_stop"}
  BY <1>6 DEF A!ValidatorAccept, Validators
<1> QED
  BY <1>1, <1>2, <1>3, <1>4, <1>5, <1>6

\* What the wire's tool input is after an event that passed its checks.
Passes(tool, ev, after) ==
    /\ ev.type # "error" /\ after \in ToolStates
    /\ ValidateJSON => A!ToolAccept(tool, ev).tool = after /\ A!ToolAccept(tool, ev).fail = A!NoFail

\* The checks either pass an event or fail without having told the client.
LEMMA Checks ==
    ASSUME NEW x \in AnthropicStates, NEW ev \in A!Events,
           NEW c, c = A!ToolCheck(A!Scrape(x, ev), ev)
    PROVE  /\ c.fail = A!NoFail => Passes(x.tool, ev, c.tool)
           /\ ~c.fail.delivered
           /\ A!Delivered(c.fail).delivered /\ A!Delivered(c.fail) # A!NoFail
<1>1. A!Scrape(x, ev).tool = x.tool
  BY DEF A!Scrape, AnthropicStates
<1> DEFINE y == A!Scrape(x, ev)
<1>2. c.fail \in {A!NoFail, A!MalformedSSE, A!InBandTransient, A!InBandTerminal}
  BY ToolCheckFails
<1>3. ~c.fail.delivered /\ A!Delivered(c.fail).delivered /\ A!Delivered(c.fail) # A!NoFail
  BY <1>2 DEF A!NoFail, A!MalformedSSE, A!InBandTransient, A!InBandTerminal, A!Delivered,
     A!Transient, A!Terminal
<1> HIDE DEF y
<1>4. ASSUME c.fail = A!NoFail
      PROVE  Passes(x.tool, ev, c.tool)
  <2>1. ev.type # "error"
    <3>1. ev.type = "error" => c.fail = A!ErrorFailure(ev)
      BY DEF A!ToolCheck
    <3>2. A!ErrorFailure(ev) # A!NoFail
      BY DEF A!ErrorFailure, A!InBandTransient, A!InBandTerminal, A!Transient, A!Terminal,
         A!NoFail
    <3> QED
      BY <1>4, <3>1, <3>2
  <2>2. CASE ValidateJSON
    <3>1. c = A!ToolAccept(x.tool, ev)
      BY <1>1, <2>1, <2>2, Zenon DEF A!ToolCheck
    <3>2. c.tool \in ToolStates
      BY <1>4, <3>1, ToolTypes DEF AnthropicStates
    <3> QED
      BY <1>4, <2>1, <3>1, <3>2, Zenon DEF Passes
  <2>3. CASE ~ValidateJSON
    <3>1. c = [tool |-> x.tool, fail |-> A!NoFail]
      BY <1>1, <2>1, <2>3, Zenon DEF A!ToolCheck
    <3>2. c.tool = x.tool
      BY <3>1
    <3>3. x.tool \in ToolStates
      BY DEF AnthropicStates
    <3> QED
      BY <2>1, <2>3, <3>2, <3>3, Zenon DEF Passes
  <2> QED
    BY <2>2, <2>3
<1> QED
  BY <1>3, <1>4

\* Reading the stop reason changes nothing else.
LEMMA Scraped ==
    ASSUME NEW x \in AnthropicStates, NEW ev \in A!Events, NEW w, w = A!Scrape(x, ev)
    PROVE  /\ w \in AnthropicStates /\ w.streamToolDeltas = x.streamToolDeltas
           /\ w.val = x.val /\ w.tool = x.tool /\ w.norm = x.norm
           /\ w.sawProgress = x.sawProgress
           /\ w.stop = IF ev.type = "message_delta" /\ ev.body # "" THEN ev.body ELSE x.stop
<1>1. ev.type = "message_delta" => ev.body \in {"", "end_turn", "refusal", "limit"}
  BY AnthropicEventShape DEF AnthropicShape
<1>2. \/ /\ ev.type = "message_delta" /\ ev.body # ""
         /\ w = [x EXCEPT !.stop = ev.body]
      \/ ~(ev.type = "message_delta" /\ ev.body # "") /\ w = x
  BY DEF A!Scrape
<1> QED
  BY <1>1, <1>2 DEF AnthropicStates

\* The normalizer stays well-typed, switched on or off.
LEMMA NormalizerTyped ==
    ASSUME NEW n \in NormStates, NEW ev \in A!Events,
           NEW r, r = A!NormalizerAccept(n, ev), r.fail = A!NoFail
    PROVE  r.norm \in NormStates /\ r.out \in Seq(A!Events)
<1>1. CASE Normalizing
  BY <1>1, NormalizerTypes
<1>2. CASE ~Normalizing
  <2> DEFINE one == <<ev>>
  <2>1. r = A!Normalized(n.blocks, n.held, one)
    BY <1>2, Zenon DEF Normalizing, A!NormalizerAccept
  <2>2. one \in Seq(A!Events)
    OBVIOUS
  <2> HIDE DEF one
  <2> QED
    BY <2>1, <2>2 DEF A!Normalized, NormStates
<1> QED
  BY <1>1, <1>2

\* What the buffering path makes of an event of a message that has not ended.
LEMMA BufferedVerdict ==
    ASSUME NEW x \in AnthropicStates, ~x.val.sawStop, NEW ev \in A!Events,
           NEW b, b = A!AnthropicBuffered(x, ev)
    PROVE  /\ ~b.fail.delivered
           /\ b = [wire |-> b.wire, done |-> b.done, fail |-> b.fail]
           /\ b.fail = A!NoFail =>
                /\ b.wire \in AnthropicStates /\ Passes(x.tool, ev, b.wire.tool)
                /\ b.wire.streamToolDeltas = x.streamToolDeltas /\ b.wire.norm = x.norm
                /\ ~b.done => ~b.wire.val.sawStop
                /\ b.done => ev.type = "message_stop"
<1> DEFINE w   == A!Scrape(x, ev)
           chk == A!ToolCheck(w, ev)
           val == A!ValidatorAccept(w.val, ev)
           progress == w.sawProgress \/ ev.type = "content_block_delta"
           ok  == [w EXCEPT !.tool = chk.tool, !.val = val, !.sawProgress = progress]
           terminal == A!StreamTerminal(val)
<1>1. /\ w \in AnthropicStates /\ w.streamToolDeltas = x.streamToolDeltas
      /\ w.val = x.val /\ w.tool = x.tool /\ w.norm = x.norm
  BY Scraped
<1>2. /\ val \in Validators
      /\ ev.type # "message_stop" => val.sawStop = x.val.sawStop
      /\ ev.type = "message_stop" /\ ~val.invalid => terminal
  <2>1. w.val \in Validators
    BY <1>1 DEF AnthropicStates
  <2> HIDE DEF w
  <2> QED
    BY <1>1, <2>1, ValidatorSteps
<1>3. /\ chk.fail = A!NoFail => Passes(x.tool, ev, chk.tool)
      /\ ~chk.fail.delivered
  BY Checks
<1>4. terminal => val.sawStop
  BY DEF A!StreamTerminal
<1>5. \/ chk.fail # A!NoFail /\ b = [wire |-> w, done |-> FALSE, fail |-> chk.fail]
      \/ b = [wire |-> w, done |-> FALSE, fail |-> A!MalformedSSE]
      \/ b = [wire |-> ok, done |-> FALSE, fail |-> A!RefusalFallback]
      \/ /\ chk.fail = A!NoFail /\ ~val.invalid
         /\ b = [wire |-> ok, done |-> terminal, fail |-> A!NoFail]
  BY DEF A!AnthropicBuffered
<1>6. /\ A!MalformedSSE # A!NoFail /\ A!RefusalFallback # A!NoFail
      /\ ~A!MalformedSSE.delivered /\ ~A!RefusalFallback.delivered /\ ~A!NoFail.delivered
  BY DEF A!MalformedSSE, A!RefusalFallback, A!NoFail, A!Transient, A!Terminal
<1>7. chk.fail = A!NoFail =>
        /\ ok \in AnthropicStates /\ ok.tool = chk.tool /\ ok.val = val
        /\ ok.streamToolDeltas = x.streamToolDeltas /\ ok.norm = x.norm
  <2> SUFFICES ASSUME chk.fail = A!NoFail
               PROVE  /\ ok \in AnthropicStates /\ ok.tool = chk.tool /\ ok.val = val
                      /\ ok.streamToolDeltas = x.streamToolDeltas /\ ok.norm = x.norm
    OBVIOUS
  <2>1. chk.tool \in ToolStates
    BY <1>3 DEF Passes
  <2>2. progress \in BOOLEAN
    OBVIOUS
  <2> HIDE DEF w, chk, val, progress
  <2>3. /\ ok \in AnthropicStates /\ ok.tool = chk.tool /\ ok.val = val
        /\ ok.streamToolDeltas = w.streamToolDeltas /\ ok.norm = w.norm
    BY <1>1, <1>2, <2>1, <2>2 DEF AnthropicStates
  <2> QED
    BY <1>1, <2>3, Zenon
<1> HIDE DEF w, chk, val, progress, ok, terminal
<1>9. CASE b.fail = A!NoFail
  <2>1. /\ chk.fail = A!NoFail /\ ~val.invalid
        /\ b = [wire |-> ok, done |-> terminal, fail |-> A!NoFail]
    BY <1>5, <1>6, <1>9
  <2>2. b.wire = ok /\ b.done = terminal /\ b = [wire |-> b.wire, done |-> b.done, fail |-> b.fail]
    BY <2>1
  <2>3. b.wire.tool = chk.tool /\ b.wire.val = val
    BY <1>7, <2>1, <2>2, Zenon
  <2>4. Passes(x.tool, ev, b.wire.tool)
    BY <1>3, <2>1, <2>3, Zenon
  <2>5. /\ b.wire \in AnthropicStates /\ b.wire.streamToolDeltas = x.streamToolDeltas
        /\ b.wire.norm = x.norm
    BY <1>7, <2>1, <2>2, Zenon
  <2>6. /\ ~b.done => ~b.wire.val.sawStop
        /\ b.done => ev.type = "message_stop"
    <3>1. /\ ~terminal => ~val.sawStop
          /\ terminal => ev.type = "message_stop"
      BY <1>2, <1>4, <2>1
    <3> QED
      BY <2>2, <2>3, <3>1, Zenon
  <2>7. ~b.fail.delivered
    BY <1>6, <1>9
  <2> QED
    BY <2>2, <2>4, <2>5, <2>6, <2>7
<1>10. CASE b.fail # A!NoFail
  <2>1. \/ b = [wire |-> w, done |-> FALSE, fail |-> chk.fail]
        \/ b = [wire |-> w, done |-> FALSE, fail |-> A!MalformedSSE]
        \/ b = [wire |-> ok, done |-> FALSE, fail |-> A!RefusalFallback]
    BY <1>5, <1>10
  <2> QED
    BY <1>3, <1>6, <1>10, <2>1
<1> QED
  BY <1>9, <1>10

\* What the live path makes of one.
LEMMA LiveVerdict ==
    ASSUME NEW x \in AnthropicStates, ~x.val.sawStop, NEW ev \in A!Events,
           NEW v, v = A!AnthropicLive(x, ev)
    PROVE  /\ v = [wire |-> v.wire, out |-> v.out, done |-> v.done, fail |-> v.fail]
           /\ v.fail # A!NoFail =>
                \/ v.out = <<>> /\ ~v.fail.delivered
                \/ v.out = <<ev>> /\ v.fail.delivered /\ ev.type = "error"
           /\ v.fail = A!NoFail =>
                /\ v.wire \in AnthropicStates /\ Passes(x.tool, ev, v.wire.tool)
                /\ v.wire.streamToolDeltas = x.streamToolDeltas
                /\ ~v.done => ~v.wire.val.sawStop
                /\ v.done => ev.type = "message_stop"
                /\ x.streamToolDeltas => v.out = <<ev>>
                /\ ~x.streamToolDeltas =>
                     /\ A!NormalizerAccept(x.norm, ev).fail = A!NoFail
                     /\ v.out = A!NormalizerAccept(x.norm, ev).out
                     /\ v.wire.norm = A!NormalizerAccept(x.norm, ev).norm
<1> DEFINE w    == A!Scrape(x, ev)
           chk  == A!ToolCheck(w, ev)
           val  == A!ValidatorAccept(w.val, ev)
           norm == A!NormalizerAccept(w.norm, ev)
           bad  == [w EXCEPT !.tool = chk.tool]
           raw  == [w EXCEPT !.tool = chk.tool, !.val = val]
           ok   == [w EXCEPT !.tool = chk.tool, !.val = val, !.norm = norm.norm]
           stop == ev.type = "message_stop"
           terminal == A!StreamTerminal(val)
<1>1. /\ w \in AnthropicStates /\ w.streamToolDeltas = x.streamToolDeltas
      /\ w.val = x.val /\ w.tool = x.tool /\ w.norm = x.norm
  BY Scraped
<1>2. val \in Validators /\ (~stop => val.sawStop = x.val.sawStop)
  <2>1. w.val \in Validators
    BY <1>1 DEF AnthropicStates
  <2> HIDE DEF w
  <2> QED
    BY <1>1, <2>1, ValidatorSteps
<1>3. /\ chk.fail = A!NoFail => Passes(x.tool, ev, chk.tool)
      /\ ~chk.fail.delivered /\ A!Delivered(chk.fail).delivered
      /\ A!Delivered(chk.fail) # A!NoFail
  BY Checks
<1>4. terminal => val.sawStop
  BY DEF A!StreamTerminal
<1>5. \/ /\ ev.type = "error"
         /\ v = [wire |-> w, out |-> <<ev>>, done |-> FALSE, fail |-> A!Delivered(chk.fail)]
      \/ chk.fail # A!NoFail /\ v = [wire |-> w, out |-> <<>>, done |-> FALSE, fail |-> chk.fail]
      \/ /\ chk.fail = A!NoFail /\ w.streamToolDeltas
         /\ v = [wire |-> raw, out |-> <<ev>>, done |-> stop, fail |-> A!NoFail]
      \/ /\ norm.fail # A!NoFail
         /\ v = [wire |-> bad, out |-> <<>>, done |-> FALSE, fail |-> norm.fail]
      \/ /\ chk.fail = A!NoFail /\ ~w.streamToolDeltas /\ norm.fail = A!NoFail
         /\ v = [wire |-> ok, out |-> norm.out, done |-> stop \/ terminal, fail |-> A!NoFail]
  BY DEF A!AnthropicLive
<1>6. norm.fail \in {A!NoFail, A!MalformedSSE}
  BY NormalizerFails
<1>7. ~norm.fail.delivered
  BY <1>6 DEF A!MalformedSSE, A!NoFail, A!Transient
<1>13. chk.fail = A!NoFail => chk.tool \in ToolStates
  BY <1>3 DEF Passes
<1>14. chk.fail = A!NoFail =>
         /\ raw \in AnthropicStates /\ raw.tool = chk.tool /\ raw.val = val
         /\ raw.streamToolDeltas = x.streamToolDeltas
  <2> HIDE DEF w, chk, val
  <2> QED
    BY <1>1, <1>2, <1>13 DEF AnthropicStates
<1>8. ASSUME chk.fail = A!NoFail, norm.fail = A!NoFail
      PROVE  /\ ok \in AnthropicStates /\ ok.tool = chk.tool /\ ok.val = val
             /\ ok.streamToolDeltas = x.streamToolDeltas /\ ok.norm = norm.norm
  <2>1. chk.tool \in ToolStates
    BY <1>8, <1>13
  <2>2. norm.norm \in NormStates
    <3>1. w.norm \in NormStates
      BY <1>1 DEF AnthropicStates
    <3> HIDE DEF w
    <3> QED
      BY <1>8, <3>1, NormalizerTyped
  <2> HIDE DEF w, chk, val, norm
  <2>3. /\ ok \in AnthropicStates /\ ok.tool = chk.tool /\ ok.val = val
        /\ ok.streamToolDeltas = w.streamToolDeltas /\ ok.norm = norm.norm
    BY <1>1, <1>2, <2>1, <2>2 DEF AnthropicStates
  <2> QED
    BY <1>1, <2>3, Zenon
<1>10. norm = A!NormalizerAccept(x.norm, ev)
  BY <1>1, Zenon
<1> HIDE DEF w, chk, val, norm, bad, raw, ok, terminal, stop
<1>11. CASE v.fail = A!NoFail
  <2>1. \/ /\ chk.fail = A!NoFail /\ w.streamToolDeltas
           /\ v = [wire |-> raw, out |-> <<ev>>, done |-> stop, fail |-> A!NoFail]
        \/ /\ chk.fail = A!NoFail /\ ~w.streamToolDeltas /\ norm.fail = A!NoFail
           /\ v = [wire |-> ok, out |-> norm.out, done |-> stop \/ terminal, fail |-> A!NoFail]
    BY <1>3, <1>5, <1>11
  <2>2. /\ chk.fail = A!NoFail /\ v.wire \in {raw, ok}
        /\ v = [wire |-> v.wire, out |-> v.out, done |-> v.done, fail |-> v.fail]
        /\ w.streamToolDeltas => v.wire = raw /\ v.out = <<ev>>
        /\ ~w.streamToolDeltas => v.wire = ok /\ v.out = norm.out /\ norm.fail = A!NoFail
    BY <2>1
  <2>7. (stop => v.done) /\ (v.done => stop \/ terminal)
    <3> DEFINE either == stop \/ terminal
    <3>1. v.done = stop \/ v.done = either
      <4> HIDE DEF either
      <4> QED
        BY <2>1 DEF either
    <3> QED
      BY <3>1, Zenon
  <2>3. /\ v.wire \in AnthropicStates /\ v.wire.tool = chk.tool /\ v.wire.val = val
        /\ v.wire.streamToolDeltas = x.streamToolDeltas
        /\ ~w.streamToolDeltas => v.wire.norm = norm.norm
    BY <1>8, <1>14, <2>1, <2>2, Zenon
  <2>4. Passes(x.tool, ev, v.wire.tool)
    BY <1>3, <2>2, <2>3, Zenon
  <2>5. /\ ~v.done => ~v.wire.val.sawStop
        /\ v.done => ev.type = "message_stop"
    <3>1. /\ ~stop => ~val.sawStop
          /\ terminal => stop
      BY <1>2, <1>4
    <3> QED
      BY <2>3, <2>7, <3>1, Zenon DEF stop
  <2>6. /\ x.streamToolDeltas => v.out = <<ev>>
        /\ ~x.streamToolDeltas =>
             /\ A!NormalizerAccept(x.norm, ev).fail = A!NoFail
             /\ v.out = A!NormalizerAccept(x.norm, ev).out
             /\ v.wire.norm = A!NormalizerAccept(x.norm, ev).norm
    BY <1>1, <1>10, <2>2, <2>3, Zenon
  <2> QED
    BY <1>11, <2>2, <2>3, <2>4, <2>5, <2>6, Zenon
<1>12. CASE v.fail # A!NoFail
  <2>1. \/ /\ ev.type = "error"
           /\ v = [wire |-> w, out |-> <<ev>>, done |-> FALSE, fail |-> A!Delivered(chk.fail)]
        \/ v = [wire |-> w, out |-> <<>>, done |-> FALSE, fail |-> chk.fail]
        \/ v = [wire |-> bad, out |-> <<>>, done |-> FALSE, fail |-> norm.fail]
    BY <1>5, <1>12
  <2> QED
    BY <1>3, <1>7, <1>12, <2>1
<1> QED
  BY <1>11, <1>12

-----------------------------------------------------------------------------
(* A stream of Anthropic events                                            *)

\* A new normalizer has nothing pending.
LEMMA NothingPends == \A i : PendingInput(A!NewNormalizer, i) = <<>>
<1> TAKE i
<1>1. DOMAIN A!NewNormalizer.blocks = {} /\ A!NewNormalizer.held = <<>>
  BY NewBlockIsEmpty DEF A!NewNormalizer
<1>2. A!Get(A!NewNormalizer.blocks, i).input = <<>>
  BY <1>1, NewBlockIsEmpty DEF A!Get
<1>3. A!InputOf(A!NewNormalizer.held, i) = <<>>
  BY <1>1, InputRead
<1>4. <<>> \o <<>> = <<>>
  OBVIOUS
<1> QED
  BY <1>2, <1>3, <1>4, Zenon DEF PendingInput

\* What is known of a stream, normalized or not.
LEMMA AccKnown == ASSUME NEW evs \in Seq(A!Events) PROVE KnownAs(Acc(evs), evs)
<1>1. CASE Normalizing
  BY <1>1, NormalizedIsKnown
<1>2. CASE ~Normalizing
  <2> DEFINE a == Acc(evs)
             new == A!NewNormalizer
  <2>1. a = [norm |-> new, out |-> evs, fail |-> A!NoFail]
    BY <1>2, UnnormalizedIsWhole
  <2>2. /\ new \in NormStates /\ DOMAIN new.blocks = {} /\ new.held = <<>>
        /\ A!Others(<<>>) = <<>>
    BY NewBlockIsEmpty, OthersRead DEF A!NewNormalizer
  <2>3. a.norm = new /\ a.out = evs /\ a = [norm |-> a.norm, out |-> a.out, fail |-> a.fail]
    BY <2>1
  <2>4. /\ Joins(A!Others(evs), A!Others(evs), <<>>)
        /\ IsPrefix(A!Others(evs), A!Others(evs))
    <3>1. A!Others(evs) \in Seq(A!Events)
      BY OthersRead
    <3> QED
      BY <3>1, JoinsFacts, PrefixEnds
  <2>5. \A i : /\ Joins(A!InputOf(evs, i), A!InputOf(evs, i), <<>>)
               /\ IsPrefix(A!InputOf(evs, i), A!InputOf(evs, i))
    <3>1. \A i : A!InputOf(evs, i) \in Seq(A!Fragments)
      BY InputRead
    <3> QED
      BY <3>1, JoinsFacts, PrefixEnds
  <2> HIDE DEF a, new
  <2>6. \A i : PendingInput(new, i) = <<>>
    BY NothingPends DEF new
  <2>7. InputsKnown(a, evs)
    BY <2>2, <2>3, <2>5, <2>6 DEF InputsKnown
  <2> QED
    BY <2>2, <2>3, <2>4, <2>7 DEF KnownAs, a
<1> QED
  BY <1>1, <1>2

\* frames is not ahead of the stream evs, and neither is its part before of what
\* is not a tool's input.
NotAhead(before, frames, evs) ==
    /\ IsPrefix(A!Others(before), A!Others(evs))
    /\ BlockProtocol(evs) => \A i : IsPrefix(A!InputOf(frames, i), A!InputOf(evs, i))

\* Nothing, a whole stream and a normalized one are not.
LEMMA FramesNotAhead ==
    ASSUME NEW evs \in Seq(A!Events)
    PROVE  /\ NotAhead(<<>>, <<>>, evs) /\ NotAhead(evs, evs, evs)
           /\ NotAhead(Acc(evs).out, Acc(evs).out, evs)
<1>1. A!Others(evs) \in Seq(A!Events) /\ A!Others(<<>>) = <<>>
  BY OthersRead
<1>2. \A i : A!InputOf(evs, i) \in Seq(A!Fragments) /\ A!InputOf(<<>>, i) = <<>>
  BY InputRead
<1>3. /\ IsPrefix(A!Others(<<>>), A!Others(evs)) /\ IsPrefix(A!Others(evs), A!Others(evs))
  BY <1>1, PrefixEnds
<1>4. \A i : /\ IsPrefix(A!InputOf(<<>>, i), A!InputOf(evs, i))
             /\ IsPrefix(A!InputOf(evs, i), A!InputOf(evs, i))
  BY <1>2, PrefixEnds
<1>5. KnownAs(Acc(evs), evs)
  BY AccKnown
<1>6. NotAhead(<<>>, <<>>, evs) /\ NotAhead(evs, evs, evs)
  BY <1>3, <1>4, Zenon DEF NotAhead
<1>7. NotAhead(Acc(evs).out, Acc(evs).out, evs)
  BY <1>5, Zenon DEF KnownAs, InputsKnown, NotAhead
<1> QED
  BY <1>6, <1>7

\* Nor is a part of what is not.
LEMMA PartNotAhead ==
    ASSUME NEW evs \in Seq(A!Events), NEW fs \in Seq(A!Events), NotAhead(fs, fs, evs),
           NEW n \in 0 .. Len(fs), NEW p, p = SubSeq(fs, 1, n)
    PROVE  p \in Seq(A!Events) /\ NotAhead(p, p, evs)
<1> DEFINE q == SubSeq(fs, n + 1, Len(fs))
<1>1. /\ Len(fs) \in Nat /\ DOMAIN fs = 1 .. Len(fs) /\ \A i \in 1 .. Len(fs) : fs[i] \in A!Events
      /\ n \in Int /\ Len(fs) \in Int
  BY LenProperties
<1>2. p \in Seq(A!Events) /\ q \in Seq(A!Events)
  BY <1>1
<1>3. p \o q = fs
  <2>1. SubSeq(fs, 1, n) \o SubSeq(fs, n + 1, Len(fs)) = SubSeq(fs, 1, Len(fs))
    <3>1. 1 \in 1 .. Len(fs) + 1 /\ n \in 1 - 1 .. Len(fs) /\ Len(fs) \in n .. Len(fs)
      BY <1>1
    <3> QED
      BY <3>1, ConcatAdjacentSubSeq
  <2> QED
    BY <2>1, SubSeqFull
<1> HIDE DEF q
<1>4. IsPrefix(A!Others(p), A!Others(evs))
  <2>1. /\ Joins(A!Others(fs), A!Others(p), A!Others(q))
        /\ A!Others(p) \in Seq(A!Events) /\ A!Others(q) \in Seq(A!Events)
        /\ A!Others(fs) \in Seq(A!Events) /\ A!Others(evs) \in Seq(A!Events)
    BY <1>2, <1>3, OthersRead
  <2>2. IsPrefix(A!Others(p), A!Others(fs))
    BY <2>1, JoinsFacts
  <2>3. IsPrefix(A!Others(fs), A!Others(evs))
    BY DEF NotAhead
  <2> QED
    BY <2>1, <2>2, <2>3, PrefixTransitive
<1>5. ASSUME BlockProtocol(evs), NEW i
      PROVE  IsPrefix(A!InputOf(p, i), A!InputOf(evs, i))
  <2>1. /\ Joins(A!InputOf(fs, i), A!InputOf(p, i), A!InputOf(q, i))
        /\ A!InputOf(p, i) \in Seq(A!Fragments) /\ A!InputOf(q, i) \in Seq(A!Fragments)
        /\ A!InputOf(fs, i) \in Seq(A!Fragments) /\ A!InputOf(evs, i) \in Seq(A!Fragments)
    BY <1>2, <1>3, InputRead
  <2>2. IsPrefix(A!InputOf(p, i), A!InputOf(fs, i))
    BY <2>1, JoinsFacts
  <2>3. IsPrefix(A!InputOf(fs, i), A!InputOf(evs, i))
    BY <1>5 DEF NotAhead
  <2> QED
    BY <2>1, <2>2, <2>3, PrefixTransitive
<1> QED
  BY <1>2, <1>4, <1>5 DEF NotAhead

\* Nor is anything once the stream has gone on.
LEMMA LaterNotAhead ==
    ASSUME NEW evs \in Seq(A!Events), NEW ev \in A!Events,
           NEW before \in Seq(A!Events), NEW frames \in Seq(A!Events),
           NotAhead(before, frames, evs)
    PROVE  NotAhead(before, frames, Append(evs, ev))
<1> DEFINE f == Append(evs, ev)
<1>1. IsPrefix(A!Others(before), A!Others(f))
  <2>1. /\ A!Others(before) \in Seq(A!Events) /\ A!Others(evs) \in Seq(A!Events)
        /\ A!OtherPart(ev) \in Seq(A!Events)
        /\ Joins(A!Others(f), A!Others(evs), A!OtherPart(ev))
    BY OthersRead
  <2>2. IsPrefix(A!Others(before), A!Others(evs))
    BY DEF NotAhead
  <2> HIDE DEF f
  <2> QED
    BY <2>1, <2>2, PrefixJoined
<1>2. ASSUME BlockProtocol(f), NEW i
      PROVE  IsPrefix(A!InputOf(frames, i), A!InputOf(f, i))
  <2>1. IsPrefix(A!InputOf(frames, i), A!InputOf(evs, i))
    BY <1>2, ProtocolAppended DEF NotAhead
  <2>2. /\ A!InputOf(frames, i) \in Seq(A!Fragments) /\ A!InputOf(evs, i) \in Seq(A!Fragments)
        /\ A!InputPart(i, ev) \in Seq(A!Fragments)
        /\ Joins(A!InputOf(f, i), A!InputOf(evs, i), A!InputPart(i, ev))
    BY InputRead
  <2> HIDE DEF f
  <2> QED
    BY <2>1, <2>2, PrefixJoined
<1> HIDE DEF f
<1> QED
  BY <1>1, <1>2 DEF NotAhead, f

\* The validator's tool input goes with what a normalizer would hold, and only an
\* event without data can stop a normalizer.
Tracks(tool, evs) ==
    /\ Normalizing /\ Acc(evs).fail = A!NoFail => Alike(tool, Acc(evs).norm)
    /\ (\A k \in DOMAIN evs : evs[k] # A!Bare) => Acc(evs).fail = A!NoFail

\* The normalizer has nothing left to send.
Settled(n) == n.held = <<>> /\ \A i : A!Get(n.blocks, i).input = <<>>

\* An event that passed keeps it so, and a message that ends leaves nothing.
LEMMA TrackedStep ==
    ASSUME NEW evs \in Seq(A!Events), NEW ev \in A!Events, NEW tool \in ToolStates,
           Tracks(tool, evs), NEW after, Passes(tool, ev, after),
           NEW f, f = Append(evs, ev)
    PROVE  /\ Tracks(after, f)
           /\ ev.type = "message_stop" /\ Normalizing /\ Acc(f).fail = A!NoFail =>
                Settled(Acc(f).norm)
<1>1. CASE ~Normalizing
  <2>1. f \in Seq(A!Events)
    BY AppendProperties
  <2>2. Acc(f) = [norm |-> A!NewNormalizer, out |-> f, fail |-> A!NoFail]
    BY <1>1, <2>1, UnnormalizedIsWhole
  <2>3. Acc(f).fail = A!NoFail
    BY <2>2
  <2> QED
    BY <1>1, <2>3 DEF Tracks
<1>2. CASE Normalizing
  <2> DEFINE a == Acc(evs)
             c == Acc(f)
             r == A!NormalizerAccept(a.norm, ev)
             t == A!ToolAccept(tool, ev)
  <2>1. c = A!NormalizeNext(a, ev)
    BY AccSteps
  <2>2. a.norm \in NormStates
    BY AccKnown DEF KnownAs
  <2>3. t.tool = after /\ t.fail = A!NoFail
    BY <1>2 DEF Passes, Normalizing
  <2>4. /\ \A k \in DOMAIN f : f[k] # A!Bare => TRUE
        /\ (\A k \in DOMAIN f : f[k] # A!Bare) =>
             ev # A!Bare /\ \A k \in DOMAIN evs : evs[k] # A!Bare
    <3>1. /\ Len(evs) \in Nat /\ f[Len(evs) + 1] = ev /\ DOMAIN f = 1 .. Len(evs) + 1
          /\ \A m \in 1 .. Len(evs) : f[m] = evs[m]
          /\ DOMAIN evs = 1 .. Len(evs)
      BY LenProperties, AppendProperties
    <3>2. Len(evs) + 1 \in DOMAIN f /\ \A m \in 1 .. Len(evs) : m \in DOMAIN f
      BY <3>1
    <3> QED
      BY <3>1, <3>2
  <2>5. ev # A!Bare => ev.type # ""
    BY AnthropicEventShape DEF AnthropicShape
  <2> HIDE DEF a, c, r, t
  <2>6. CASE a.fail # A!NoFail
    <3>1. c = a
      BY <2>1, <2>6 DEF A!NormalizeNext
    <3> QED
      BY <2>4, <2>6, <3>1 DEF Tracks, a, c
  <2>7. CASE a.fail = A!NoFail
    <3>1. c = [norm |-> r.norm, out |-> a.out \o r.out, fail |-> r.fail]
      BY <2>1, <2>7, Zenon DEF A!NormalizeNext, r
    <3>2. c.norm = r.norm /\ c.fail = r.fail
      BY <3>1
    <3>3. Alike(tool, a.norm)
      BY <1>2, <2>7 DEF Tracks, a
    <3>4. /\ ev.type # "" => r.fail = A!NoFail
          /\ r.fail = A!NoFail => Alike(after, r.norm)
      <4>1. t = A!ToolAccept(tool, ev) /\ r = A!NormalizerAccept(a.norm, ev)
        BY DEF t, r
      <4>2. /\ ev.type # "" => r.fail = A!NoFail
            /\ r.fail = A!NoFail => Alike(t.tool, r.norm)
        BY <1>2, <2>2, <2>3, <3>3, <4>1, ToolAgrees
      <4> QED
        BY <2>3, <4>2
    <3>5. Tracks(after, f)
      BY <1>2, <2>4, <2>5, <3>2, <3>4, Zenon DEF Tracks, c
    <3>6. ASSUME ev.type = "message_stop", r.fail = A!NoFail
          PROVE  Settled(r.norm)
      <4>1. ~tool.truncated /\ \A i \in DOMAIN tool.blocks : ~tool.blocks[i].sawInputDelta
        BY <2>3, <3>6, ToolValidates DEF t
      <4>2. a.norm.held = <<>> /\ a.norm.blocks = tool.blocks
        BY <3>3, <4>1 DEF Alike
      <4>3. a.norm.blocks \in ToolBlocks
        BY <2>2 DEF NormStates
      <4>4. \A i : A!Get(a.norm.blocks, i).input = <<>>
        <5> TAKE i
        <5>1. A!Get(a.norm.blocks, i) \in ToolBlock
          BY <4>3, BlocksRead
        <5>2. CASE i \in DOMAIN a.norm.blocks
          <6>1. ~A!Get(a.norm.blocks, i).sawInputDelta
            BY <4>1, <4>2, <5>2 DEF A!Get
          <6> QED
            BY <5>1, <6>1 DEF ToolBlock
        <5>3. CASE i \notin DOMAIN a.norm.blocks
          BY <5>3, NewBlockIsEmpty DEF A!Get
        <5> QED
          BY <5>2, <5>3
      <4>5. ~IsToolStart(ev) /\ ~A!IsInputDelta(ev) /\ ~IsStop(ev)
        BY <3>6 DEF IsToolStart, A!IsInputDelta, IsStop
      <4>6. r = A!Normalized(a.norm.blocks, a.norm.held, <<ev>>)
        <5> DEFINE b == A!Get(a.norm.blocks, ev.index)
        <5>1. Moves(a.norm, ev, b, r)
          BY <1>2, <2>2, <3>6, NormalizerMoves DEF r
        <5> HIDE DEF b
        <5> QED
          BY <4>2, <4>5, <5>1, Zenon DEF Moves
      <4>7. r.norm.blocks = a.norm.blocks /\ r.norm.held = a.norm.held
        BY <4>6 DEF A!Normalized
      <4> QED
        BY <4>2, <4>4, <4>7, Zenon DEF Settled
    <3> QED
      BY <3>2, <3>5, <3>6 DEF c
  <2> QED
    BY <2>6, <2>7
<1> QED
  BY <1>1, <1>2

-----------------------------------------------------------------------------
(* The invariant of a stream of Anthropic events                           *)

\* A wire of this protocol, and only of its state.
AnthropicTagged(x) == [proto |-> "anthropic", state |-> x]

\* What a wire's own replay says of its success.
Replayed(fail) == IF fail = A!NoFail THEN NoFail ELSE ReplayFailed

\* The wire's own copies of the failures.
LEMMA SameAFailures ==
    /\ A!NoFail = NoFail /\ A!ReplayFailed = ReplayFailed /\ ReplayFailed # NoFail
    /\ ~ReplayFailed.delivered /\ ~NoFail.delivered
BY DEF A!NoFail, NoFail, A!ReplayFailed, ReplayFailed, A!Transient, Transient

\* A tagged wire has its state.
LEMMA AnthropicTagKeeps == \A z : AnthropicTagged(z).state = z
BY DEF AnthropicTagged

\* The verdicts of the wire's operations have their fields.
LEMMA AnthropicFields ==
    ASSUME NEW x, NEW ev, NEW evs
    PROVE  /\ \E w, d, f : A!AnthropicBuffered(x, ev) = [wire |-> w, done |-> d, fail |-> f]
           /\ \E w, o, d, f :
                A!AnthropicLive(x, ev) = [wire |-> w, out |-> o, done |-> d, fail |-> f]
           /\ A!AnthropicReplay(x, evs) =
                [wire |-> x, out |-> Acc(evs).out, fail |-> Replayed(Acc(evs).fail)]
<1>1. \E w, d, f : A!AnthropicBuffered(x, ev) = [wire |-> w, done |-> d, fail |-> f]
  <2> DEFINE w   == A!Scrape(x, ev)
             chk == A!ToolCheck(w, ev)
             val == A!ValidatorAccept(w.val, ev)
             ok  == [w EXCEPT !.tool = chk.tool, !.val = val,
                              !.sawProgress = @ \/ ev.type = "content_block_delta"]
             b   == A!AnthropicBuffered(x, ev)
  <2>1. \/ b = [wire |-> w, done |-> FALSE, fail |-> chk.fail]
        \/ b = [wire |-> w, done |-> FALSE, fail |-> A!MalformedSSE]
        \/ b = [wire |-> ok, done |-> FALSE, fail |-> A!RefusalFallback]
        \/ b = [wire |-> ok, done |-> A!StreamTerminal(val), fail |-> A!NoFail]
    BY DEF A!AnthropicBuffered
  <2> HIDE DEF w, chk, val, ok, b
  <2>2. \E y, d, f : b = [wire |-> y, done |-> d, fail |-> f]
    BY <2>1, Zenon
  <2> QED
    BY <2>2 DEF b
<1>2. \E w, o, d, f :
        A!AnthropicLive(x, ev) = [wire |-> w, out |-> o, done |-> d, fail |-> f]
  <2> DEFINE w    == A!Scrape(x, ev)
             chk  == A!ToolCheck(w, ev)
             val  == A!ValidatorAccept(w.val, ev)
             norm == A!NormalizerAccept(w.norm, ev)
             bad  == [w EXCEPT !.tool = chk.tool]
             raw  == [w EXCEPT !.tool = chk.tool, !.val = val]
             ok   == [w EXCEPT !.tool = chk.tool, !.val = val, !.norm = norm.norm]
             stop == ev.type = "message_stop"
             one  == <<ev>>
             none == <<>>
             both == stop \/ A!StreamTerminal(val)
             told == A!Delivered(chk.fail)
             v    == A!AnthropicLive(x, ev)
  <2>1. \/ v = [wire |-> w, out |-> one, done |-> FALSE, fail |-> told]
        \/ v = [wire |-> w, out |-> none, done |-> FALSE, fail |-> chk.fail]
        \/ v = [wire |-> raw, out |-> one, done |-> stop, fail |-> A!NoFail]
        \/ v = [wire |-> bad, out |-> none, done |-> FALSE, fail |-> norm.fail]
        \/ v = [wire |-> ok, out |-> norm.out, done |-> both, fail |-> A!NoFail]
    BY DEF A!AnthropicLive
  <2> HIDE DEF w, chk, val, norm, bad, raw, ok, stop, one, none, both, told, v
  <2>2. \E y, o, d, f : v = [wire |-> y, out |-> o, done |-> d, fail |-> f]
    BY <2>1, Zenon
  <2> QED
    BY <2>2 DEF v
<1>3. A!AnthropicReplay(x, evs) =
        [wire |-> x, out |-> Acc(evs).out, fail |-> Replayed(Acc(evs).fail)]
  BY SameAFailures DEF A!AnthropicReplay, Acc, Replayed
<1> QED
  BY <1>1, <1>2, <1>3

\* What the stream asks of a tagged wire, the protocol's module answers.
LEMMA AnthropicOperators ==
    ASSUME AnthropicStream, NEW x, NEW ev, NEW evs,
           NEW b, b = A!AnthropicBuffered(x, ev), NEW v, v = A!AnthropicLive(x, ev),
           NEW p, p = A!AnthropicReplayPrefix(x, evs)
    PROVE  /\ Buffered(AnthropicTagged(x), ev).wire = AnthropicTagged(b.wire)
           /\ Buffered(AnthropicTagged(x), ev).done = b.done
           /\ Buffered(AnthropicTagged(x), ev).fail = b.fail
           /\ Live(AnthropicTagged(x), ev).wire = AnthropicTagged(v.wire)
           /\ Live(AnthropicTagged(x), ev).out = v.out
           /\ Live(AnthropicTagged(x), ev).done = v.done
           /\ Live(AnthropicTagged(x), ev).fail = v.fail
           /\ ReplayBuffered(AnthropicTagged(x), evs)
                = [wire |-> AnthropicTagged(x), out |-> Acc(evs).out,
                   fail |-> Replayed(Acc(evs).fail)]
           /\ ReplayPrefix(AnthropicTagged(x), evs) = Of(AnthropicTagged(x), p)
           /\ ~CompleteOnEOF(AnthropicTagged(x))
<1> DEFINE w == AnthropicTagged(x)
           y == A!AnthropicReplay(x, evs)
<1>1. w.proto = "anthropic" /\ w.state = x
  BY DEF AnthropicTagged
<1>2. \A z : [w EXCEPT !.state = z] = AnthropicTagged(z)
  BY DEF AnthropicTagged
<1>3. /\ \E z, d, f : b = [wire |-> z, done |-> d, fail |-> f]
      /\ \E z, o, d, f : v = [wire |-> z, out |-> o, done |-> d, fail |-> f]
      /\ y = [wire |-> x, out |-> Acc(evs).out, fail |-> Replayed(Acc(evs).fail)]
  BY AnthropicFields
<1> HIDE DEF w, y
<1>4. Buffered(w, ev) = Of(w, b)
  <2>1. WiresBuffered(w, ev) = Of(w, A!AnthropicBuffered(w.state, ev))
    BY <1>1, Zenon DEF WiresBuffered
  <2> QED
    BY <1>1, <2>1 DEF AnthropicStream, OnWire
<1>5. Live(w, ev) = Of(w, v)
  <2>1. WiresLive(w, ev) = Of(w, A!AnthropicLive(w.state, ev))
    BY <1>1, Zenon DEF WiresLive
  <2> QED
    BY <1>1, <2>1 DEF AnthropicStream, OnWire
<1>6. ReplayBuffered(w, evs) = Of(w, y) /\ ReplayPrefix(w, evs) = Of(w, p)
  <2>1. WiresReplay(w, evs) = Of(w, A!AnthropicReplay(w.state, evs))
    BY <1>1, Zenon DEF WiresReplay
  <2>2. WiresReplayPrefix(w, evs) = Of(w, A!AnthropicReplayPrefix(w.state, evs))
    BY <1>1, Zenon DEF WiresReplayPrefix
  <2> QED
    BY <1>1, <2>1, <2>2 DEF AnthropicStream, OnWire, y
<1>7. ~CompleteOnEOF(w)
  <2>1. WiresCompleteOnEOF(w) = A!AnthropicCompleteOnEOF(w.state)
    BY <1>1, Zenon DEF WiresCompleteOnEOF
  <2> QED
    BY <1>1, <2>1 DEF AnthropicStream, OnWire, A!AnthropicCompleteOnEOF
<1>8. /\ Of(w, b).wire = AnthropicTagged(b.wire) /\ Of(w, b).done = b.done /\ Of(w, b).fail = b.fail
  BY <1>2, <1>3 DEF Of
<1>9. /\ Of(w, v).wire = AnthropicTagged(v.wire) /\ Of(w, v).out = v.out
      /\ Of(w, v).done = v.done /\ Of(w, v).fail = v.fail
  BY <1>2, <1>3 DEF Of
<1>10. Of(w, y) = [wire |-> w, out |-> Acc(evs).out, fail |-> Replayed(Acc(evs).fail)]
  BY <1>2, <1>3 DEF Of, w
<1> QED
  BY <1>4, <1>5, <1>6, <1>7, <1>8, <1>9, <1>10 DEF w

\* What a commit leaves with the client and in the wire that goes on.
LEMMA AnthropicPrefixes ==
    ASSUME AnthropicStream, NEW x \in AnthropicStates, NEW evs,
           x.norm = A!NewNormalizer,
           NEW r, r = ReplayPrefix(AnthropicTagged(x), evs)
    PROVE  \/ /\ x.streamToolDeltas
              /\ r = [wire |-> AnthropicTagged(x), out |-> evs, fail |-> NoFail]
           \/ /\ ~x.streamToolDeltas
              /\ r = [wire |-> AnthropicTagged([x EXCEPT !.norm = Acc(evs).norm]),
                      out |-> Acc(evs).out, fail |-> Replayed(Acc(evs).fail)]
<1> DEFINE p == A!AnthropicReplayPrefix(x, evs)
           w == AnthropicTagged(x)
           y == [x EXCEPT !.norm = Acc(evs).norm]
<1>1. r = Of(w, p)
  BY AnthropicOperators
<1>2. \A z : [w EXCEPT !.state = z] = AnthropicTagged(z)
  BY DEF AnthropicTagged
<1>3. w = AnthropicTagged(x)
  OBVIOUS
<1>4. IF x.streamToolDeltas THEN p = [wire |-> x, out |-> evs, fail |-> NoFail]
      ELSE p = [wire |-> y, out |-> Acc(evs).out, fail |-> Replayed(Acc(evs).fail)]
  BY SameAFailures DEF A!AnthropicReplayPrefix, Acc, Replayed
<1>5. x.streamToolDeltas \in BOOLEAN
  BY DEF AnthropicStates
<1> HIDE DEF p, w, y
<1> QED
  BY <1>1, <1>2, <1>3, <1>4, <1>5 DEF Of, y

\* The client has every event, or what the normalizer let out of them, and the
\* wire's normalizer has the rest.
Current(x, frames, evs) ==
    IF x.streamToolDeltas THEN frames = evs
    ELSE Acc(evs).fail = A!NoFail /\ frames = Acc(evs).out /\ x.norm = Acc(evs).norm

\* The client has every event, or what was let out with nothing left behind.
Whole(frames, evs) ==
    \/ frames = evs
    \/ /\ Acc(evs).fail = A!NoFail /\ frames = Acc(evs).out
       /\ Normalizing => Settled(Acc(evs).norm)

\* A wire whose message goes on, and what its validator knows.
Going(x, evs) ==
    x \in AnthropicStates /\ ~x.val.sawStop /\ Tracks(x.tool, evs)

\* Until the commit the client has nothing and the normalizer is new; afterwards
\* sent and held frames are those of the stream so far; and a stream that ends
\* leaves the client behind the upstream, or with all of it.
AnthropicInv ==
    /\ phase \in {"buffering", "live", "ended"}
    /\ seen \in Seq(Event) /\ seen \in Seq(A!Events) /\ sent \in Seq(A!Events)
    /\ phase # "ended" => wire = AnthropicTagged(wire.state) /\ Going(wire.state, seen)
    /\ phase = "buffering" => sent = <<>> /\ wire.state.norm = A!NewNormalizer
    /\ phase = "live" => Current(wire.state, sent, seen)
    /\ phase = "ended" => NotAhead(BeforeError, sent, seen)
    /\ Answered => Whole(sent, seen)

\* It holds of a new stream.
LEMMA AnthropicInvInit == ASSUME AnthropicStream, Init PROVE AnthropicInv
<1> DEFINE none == <<>>
<1>1. PICK deltas \in BOOLEAN : wire = AnthropicTagged(A!AnthropicInit(deltas))
  BY DEF Init, AnthropicStream, AnthropicWireOf, AnthropicTagged
<1> DEFINE x == A!AnthropicInit(deltas)
<1>2. phase = "buffering" /\ seen = none /\ sent = none
  BY DEF Init
<1>3. x.norm = A!NewNormalizer /\ x.tool = A!NewToolValidator /\ x.val = A!NewValidator
  BY DEF A!AnthropicInit
<1>4. /\ A!NewNormalizer \in NormStates /\ A!NewToolValidator \in ToolStates
      /\ A!NewValidator \in Validators /\ ~A!NewValidator.sawStop
      /\ A!NewNormalizer.blocks = A!NewToolValidator.blocks
      /\ A!NewNormalizer.held = <<>> /\ ~A!NewToolValidator.truncated
  BY NewBlockIsEmpty DEF A!NewNormalizer, A!NewToolValidator, A!NewValidator, NormStates,
     ToolStates, Validators
<1>5. x \in AnthropicStates
  BY <1>4 DEF A!AnthropicInit, AnthropicStates
<1>6. Tracks(x.tool, none)
  <2>1. Acc(none) = Start /\ Start.fail = A!NoFail /\ Start.norm = A!NewNormalizer
    BY AccSteps DEF Start
  <2> HIDE DEF x, none
  <2> QED
    BY <1>3, <1>4, <2>1 DEF Tracks, Alike
<1> HIDE DEF x
<1>7. wire = AnthropicTagged(wire.state) /\ wire.state = x
  BY <1>1, AnthropicTagKeeps DEF x
<1>8. Going(wire.state, seen)
  BY <1>2, <1>3, <1>4, <1>5, <1>6, <1>7 DEF Going
<1>9. ~Answered
  BY <1>2 DEF Answered
<1>10. none \in Seq(Event) /\ none \in Seq(A!Events)
  OBVIOUS
<1> HIDE DEF none
<1>11. sent = <<>>
  BY <1>2 DEF none
<1> QED
  BY <1>2, <1>3, <1>7, <1>8, <1>9, <1>10, <1>11 DEF AnthropicInv

\* Before it ends, what the client has is not ahead.
LEMMA SentNotAhead ==
    ASSUME AnthropicInv, phase # "ended"
    PROVE  NotAhead(sent, sent, seen)
<1>1. seen \in Seq(A!Events) /\ phase \in {"buffering", "live"}
  BY DEF AnthropicInv
<1>2. sent \in {<<>>, seen, Acc(seen).out}
  BY <1>1 DEF AnthropicInv, Current
<1> QED
  BY <1>1, <1>2, FramesNotAhead

\* A stream that ends with a fault and what it had already sent.
LEMMA AnthropicInvEnds ==
    ASSUME AnthropicStream, AnthropicInv, phase # "ended", phase' = "ended", sent' = sent,
           seen' = seen \/ \E ev \in Event : seen' = Append(seen, ev),
           verdict'.fail # NoFail, ~verdict'.fail.delivered
    PROVE  AnthropicInv'
<1>1. /\ seen \in Seq(Event) /\ seen \in Seq(A!Events) /\ sent \in Seq(A!Events)
      /\ Event \subseteq A!Events
  BY DEF AnthropicInv, AnthropicStream
<1>2. NotAhead(sent, sent, seen)
  BY SentNotAhead
<1>3. seen' \in Seq(Event) /\ seen' \in Seq(A!Events) /\ NotAhead(sent, sent, seen')
  <2>1. CASE seen' = seen
    BY <1>1, <1>2, <2>1
  <2>2. ASSUME NEW ev \in Event, seen' = Append(seen, ev)
        PROVE  seen' \in Seq(Event) /\ seen' \in Seq(A!Events) /\ NotAhead(sent, sent, seen')
    <3>1. ev \in A!Events
      BY <1>1
    <3>2. NotAhead(sent, sent, Append(seen, ev))
      BY <1>1, <1>2, <3>1, LaterNotAhead
    <3> QED
      BY <1>1, <2>2, <3>1, <3>2, AppendProperties
  <2> QED
    BY <2>1, <2>2
<1>4. ~Answered'
  BY DEF Answered
<1>5. BeforeError' = sent'
  BY DEF BeforeError
<1> QED
  BY <1>1, <1>3, <1>4, <1>5 DEF AnthropicInv

\* What a replay that is not ahead leaves with the client.
LEMMA AnthropicReplays ==
    ASSUME NEW evs \in Seq(A!Events), NEW y, y = [wire |-> y.wire, out |-> y.out, fail |-> y.fail],
           y.out \in Seq(A!Events), NotAhead(y.out, y.out, evs),
           y.fail = NoFail \/ y.fail = ReplayFailed, NEW r \in Replays(y)
    PROVE  /\ r.wire = y.wire /\ r.out \in Seq(A!Events) /\ NotAhead(r.out, r.out, evs)
           /\ ~r.fail.delivered
           /\ r.fail = NoFail => y.fail = NoFail /\ r.out = y.out
           /\ <<>> \o r.out = r.out
<1> DEFINE fs == y.out
           part(n) == [y EXCEPT !.out = SubSeq(@, 1, n), !.fail = ReplayFailed]
<1>1. \A n : part(n).wire = y.wire /\ part(n).out = SubSeq(fs, 1, n) /\ part(n).fail = ReplayFailed
  OBVIOUS
<1>2. r = y \/ \E n \in 0 .. Len(fs) : r = part(n)
  BY DEF Replays
<1>3. fs \in Seq(A!Events) /\ NotAhead(fs, fs, evs)
  OBVIOUS
<1> HIDE DEF part
<1>4. CASE r = y
  BY <1>4, SameAFailures, ConcatEmptySeq
<1>5. CASE r # y
  <2>1. PICK n \in 0 .. Len(fs) : r = part(n)
    BY <1>2, <1>5
  <2> DEFINE p == SubSeq(fs, 1, n)
  <2> HIDE DEF fs
  <2>2. p \in Seq(A!Events) /\ NotAhead(p, p, evs)
    BY <1>3, PartNotAhead
  <2>3. r.wire = y.wire /\ r.out = p /\ r.fail = ReplayFailed
    BY <1>1, <2>1
  <2> HIDE DEF p
  <2> QED
    BY <2>2, <2>3, SameAFailures, ConcatEmptySeq
<1> QED
  BY <1>4, <1>5

\* Without its last element an extended sequence is what it was.
LEMMA FrontOfAppended ==
    ASSUME NEW S, NEW s \in Seq(S), NEW e \in S, NEW t, t = Append(s, e)
    PROVE  SubSeq(t, 1, Len(t) - 1) = s
<1>1. /\ Len(s) \in Nat /\ Len(t) = Len(s) + 1 /\ t \in Seq(S)
      /\ \A i \in 1 .. Len(s) : t[i] = s[i]
  BY LenProperties, AppendProperties
<1>2. SubSeq(t, 1, Len(s)) = [i \in 1 .. Len(s) |-> t[i]]
  BY <1>1
<1>3. s = [i \in 1 .. Len(s) |-> s[i]]
  BY LenProperties
<1>4. Len(t) - 1 = Len(s)
  BY <1>1
<1> QED
  BY <1>1, <1>2, <1>3, <1>4

\* The event the buffer takes in leaves a wire that goes on.
LEMMA AnthropicBuffers ==
    ASSUME AnthropicStream, AnthropicInv, phase = "buffering", NEW ev \in Event,
           NEW b, b = A!AnthropicBuffered(wire.state, ev)
    PROVE  /\ Buffered(wire, ev).wire = AnthropicTagged(b.wire)
           /\ Buffered(wire, ev).done = b.done /\ Buffered(wire, ev).fail = b.fail
           /\ ~b.fail.delivered
           /\ b.fail = NoFail =>
                /\ b.wire \in AnthropicStates /\ b.wire.norm = A!NewNormalizer
                /\ Tracks(b.wire.tool, Append(seen, ev))
                /\ ~b.done => ~b.wire.val.sawStop
                /\ b.done /\ Normalizing /\ Acc(Append(seen, ev)).fail = A!NoFail =>
                     Settled(Acc(Append(seen, ev)).norm)
<1> DEFINE x == wire.state
           f == Append(seen, ev)
<1>1. /\ wire = AnthropicTagged(x) /\ x \in AnthropicStates /\ ~x.val.sawStop
      /\ Tracks(x.tool, seen) /\ x.norm = A!NewNormalizer /\ seen \in Seq(A!Events)
  BY DEF AnthropicInv, Going
<1>2. ev \in A!Events
  BY DEF AnthropicStream
<1>3. x.tool \in ToolStates
  BY <1>1 DEF AnthropicStates
<1>4. b = A!AnthropicBuffered(x, ev)
  OBVIOUS
<1> HIDE DEF x, f
<1>5. /\ Buffered(wire, ev).wire = AnthropicTagged(b.wire)
      /\ Buffered(wire, ev).done = b.done /\ Buffered(wire, ev).fail = b.fail
  BY <1>1, <1>4, AnthropicOperators
<1>6. /\ ~b.fail.delivered
      /\ b.fail = A!NoFail =>
           /\ b.wire \in AnthropicStates /\ Passes(x.tool, ev, b.wire.tool)
           /\ b.wire.norm = x.norm
           /\ ~b.done => ~b.wire.val.sawStop
           /\ b.done => ev.type = "message_stop"
  BY <1>1, <1>2, <1>4, BufferedVerdict
<1>7. ASSUME b.fail = NoFail
      PROVE  /\ Tracks(b.wire.tool, f)
             /\ ev.type = "message_stop" /\ Normalizing /\ Acc(f).fail = A!NoFail =>
                  Settled(Acc(f).norm)
  <2>1. Passes(x.tool, ev, b.wire.tool)
    BY <1>6, <1>7, SameAFailures
  <2>2. f = Append(seen, ev)
    BY DEF f
  <2> QED
    BY <1>1, <1>2, <1>3, <2>1, <2>2, TrackedStep
<1> QED
  BY <1>1, <1>5, <1>6, <1>7, SameAFailures DEF f

\* What the live path passes on keeps the client current, and its wire goes on.
LEMMA AnthropicForwards ==
    ASSUME AnthropicStream, AnthropicInv, phase = "live", NEW ev \in Event,
           NEW v, v = A!AnthropicLive(wire.state, ev), NEW f, f = Append(seen, ev)
    PROVE  /\ Live(wire, ev).wire = AnthropicTagged(v.wire) /\ Live(wire, ev).out = v.out
           /\ Live(wire, ev).done = v.done /\ Live(wire, ev).fail = v.fail
           /\ v.fail # NoFail =>
                \/ v.out = <<>> /\ ~v.fail.delivered
                \/ v.out = <<ev>> /\ v.fail.delivered /\ ev.type = "error"
           /\ v.fail = NoFail =>
                /\ v.wire \in AnthropicStates /\ Tracks(v.wire.tool, f)
                /\ ~v.done => ~v.wire.val.sawStop
                /\ sent \o v.out \in Seq(A!Events)
                /\ Current(v.wire, sent \o v.out, f)
                /\ v.done => Whole(sent \o v.out, f)
<1> DEFINE x == wire.state
           r == A!NormalizerAccept(x.norm, ev)
<1>1. /\ wire = AnthropicTagged(x) /\ x \in AnthropicStates /\ ~x.val.sawStop
      /\ Tracks(x.tool, seen) /\ seen \in Seq(A!Events) /\ sent \in Seq(A!Events)
      /\ Current(x, sent, seen)
  BY DEF AnthropicInv, Going
<1>2. ev \in A!Events
  BY DEF AnthropicStream
<1>3. x.tool \in ToolStates /\ x.norm \in NormStates
  BY <1>1 DEF AnthropicStates
<1>4. v = A!AnthropicLive(x, ev)
  OBVIOUS
<1>5. r = A!NormalizerAccept(x.norm, ev)
  OBVIOUS
<1> HIDE DEF x, r
<1>6. /\ Live(wire, ev).wire = AnthropicTagged(v.wire) /\ Live(wire, ev).out = v.out
      /\ Live(wire, ev).done = v.done /\ Live(wire, ev).fail = v.fail
  BY <1>1, <1>4, AnthropicOperators
<1>7. /\ v.fail # A!NoFail =>
           \/ v.out = <<>> /\ ~v.fail.delivered
           \/ v.out = <<ev>> /\ v.fail.delivered /\ ev.type = "error"
      /\ v.fail = A!NoFail =>
           /\ v.wire \in AnthropicStates /\ Passes(x.tool, ev, v.wire.tool)
           /\ v.wire.streamToolDeltas = x.streamToolDeltas
           /\ ~v.done => ~v.wire.val.sawStop
           /\ v.done => ev.type = "message_stop"
           /\ x.streamToolDeltas => v.out = <<ev>>
           /\ ~x.streamToolDeltas =>
                r.fail = A!NoFail /\ v.out = r.out /\ v.wire.norm = r.norm
  BY <1>1, <1>2, <1>4, <1>5, LiveVerdict
<1>8. ASSUME v.fail = NoFail
      PROVE  /\ v.wire \in AnthropicStates /\ Tracks(v.wire.tool, f)
             /\ ~v.done => ~v.wire.val.sawStop
             /\ sent \o v.out \in Seq(A!Events)
             /\ Current(v.wire, sent \o v.out, f)
             /\ v.done => Whole(sent \o v.out, f)
  <2>1. Passes(x.tool, ev, v.wire.tool) /\ v.fail = A!NoFail
    BY <1>7, <1>8, SameAFailures
  <2>2. /\ Tracks(v.wire.tool, f)
        /\ ev.type = "message_stop" /\ Normalizing /\ Acc(f).fail = A!NoFail =>
             Settled(Acc(f).norm)
    BY <1>1, <1>2, <1>3, <2>1, TrackedStep
  <2>3. CASE x.streamToolDeltas
    <3>1. sent = seen /\ v.out = <<ev>> /\ v.wire.streamToolDeltas
      BY <1>1, <1>7, <2>1, <2>3 DEF Current
    <3>2. seen \o <<ev>> = f /\ f \in Seq(A!Events)
      BY <1>1, <1>2, AppendProperties, AppendIsConcat
    <3>3. sent \o v.out = f
      BY <3>1, <3>2
    <3> QED
      BY <1>7, <2>1, <2>2, <3>1, <3>2, <3>3 DEF Current, Whole
  <2>4. CASE ~x.streamToolDeltas
    <3>1. /\ Acc(seen).fail = A!NoFail /\ sent = Acc(seen).out /\ x.norm = Acc(seen).norm
      BY <1>1, <2>4 DEF Current
    <3>2. r.fail = A!NoFail /\ v.out = r.out /\ v.wire.norm = r.norm /\ ~v.wire.streamToolDeltas
      BY <1>7, <2>1, <2>4
    <3>3. Acc(f) = A!NormalizeNext(Acc(seen), ev)
      BY <1>1, <1>2, AccSteps
    <3>4. Acc(f) = [norm |-> r.norm, out |-> Acc(seen).out \o r.out, fail |-> r.fail]
      <4>1. r = A!NormalizerAccept(Acc(seen).norm, ev)
        BY <1>5, <3>1
      <4> QED
        BY <3>1, <3>3, <4>1, Zenon DEF A!NormalizeNext
    <3>5. Acc(f).norm = v.wire.norm /\ Acc(f).out = sent \o v.out /\ Acc(f).fail = A!NoFail
      <4> DEFINE o == Acc(seen).out \o r.out
                 a == Acc(f)
      <4>1. o = sent \o v.out
        BY <3>1, <3>2
      <4>2. a = [norm |-> r.norm, out |-> o, fail |-> r.fail]
        BY <3>4
      <4> HIDE DEF o, a
      <4>3. a.norm = r.norm /\ a.out = o /\ a.fail = r.fail
        BY <4>2
      <4>4. a.norm = v.wire.norm /\ a.out = sent \o v.out /\ a.fail = A!NoFail
        BY <3>2, <4>1, <4>3
      <4> QED
        BY <4>4 DEF a
    <3>6. Acc(f).out \in Seq(A!Events)
      <4>1. f \in Seq(A!Events)
        BY <1>1, <1>2, AppendProperties
      <4> QED
        BY <4>1, AccKnown DEF KnownAs
    <3>7. Current(v.wire, sent \o v.out, f)
      BY <3>2, <3>5 DEF Current
    <3>8. v.done => Whole(sent \o v.out, f)
      BY <1>7, <2>1, <2>2, <3>5 DEF Whole
    <3>9. sent \o v.out \in Seq(A!Events)
      BY <3>5, <3>6
    <3> QED
      BY <1>7, <2>1, <2>2, <3>7, <3>8, <3>9
  <2>5. x.streamToolDeltas \in BOOLEAN
    BY <1>1 DEF AnthropicStates
  <2> QED
    BY <2>3, <2>4
<1> QED
  BY <1>6, <1>7, <1>8, SameAFailures

\* Every step of the stream keeps it.
LEMMA AnthropicInvNext ==
    ASSUME AnthropicStream, AnthropicInv, [Next]_vars
    PROVE  AnthropicInv'
<1> DEFINE x == wire.state
<1>1. /\ phase \in {"buffering", "live", "ended"} /\ Event \subseteq A!Events
      /\ seen \in Seq(Event) /\ seen \in Seq(A!Events) /\ sent \in Seq(A!Events)
      /\ phase # "ended" => wire = AnthropicTagged(x) /\ Going(x, seen)
      /\ phase = "buffering" => sent = <<>> /\ x.norm = A!NewNormalizer
      /\ phase = "live" => Current(x, sent, seen)
  BY DEF AnthropicInv, AnthropicStream
<1>2. ASSUME NEW ev \in Event
      PROVE  Append(seen, ev) \in Seq(Event) /\ Append(seen, ev) \in Seq(A!Events)
  BY <1>1, <1>2, AppendProperties
<1>3. ASSUME NEW ev \in Event, Buffer(ev)
      PROVE  AnthropicInv'
  <2> DEFINE b == A!AnthropicBuffered(x, ev)
  <2>1. /\ phase = "buffering" /\ seen' = Append(seen, ev)
        /\ Buffered(wire, ev).fail = NoFail /\ ~Buffered(wire, ev).done
        /\ wire' = Buffered(wire, ev).wire /\ phase' = phase /\ sent' = sent
    BY <1>3 DEF Buffer, Arrives
  <2>2. /\ wire' = AnthropicTagged(b.wire) /\ b.wire \in AnthropicStates
        /\ b.wire.norm = A!NewNormalizer /\ Tracks(b.wire.tool, seen') /\ ~b.wire.val.sawStop
    BY <2>1, AnthropicBuffers
  <2> HIDE DEF b
  <2>3. wire'.state = b.wire
    BY <2>2, AnthropicTagKeeps
  <2>4. wire' = AnthropicTagged(wire'.state) /\ Going(wire'.state, seen')
    BY <2>2, <2>3 DEF Going
  <2>5. ~Answered'
    BY <2>1 DEF Answered
  <2> QED
    BY <1>1, <1>2, <2>1, <2>2, <2>3, <2>4, <2>5 DEF AnthropicInv
<1>4. ASSUME NEW ev \in Event, Reject(ev) \/ BreakAt(ev)
      PROVE  AnthropicInv'
  <2> DEFINE b == A!AnthropicBuffered(x, ev)
  <2>1. /\ phase = "buffering" /\ seen' = Append(seen, ev) /\ sent' = sent /\ phase' = "ended"
    BY <1>4 DEF Reject, BreakAt, End, Arrives
  <2>2. Buffered(wire, ev).fail = b.fail /\ ~b.fail.delivered
    BY <2>1, AnthropicBuffers
  <2> HIDE DEF b
  <2>3. verdict'.fail # NoFail /\ ~verdict'.fail.delivered
    <3>1. CASE Reject(ev)
      BY <2>2, <3>1 DEF Reject, End
    <3>2. CASE BreakAt(ev)
      BY <3>2 DEF BreakAt, End, ResponseTooLarge, SpoolError, Terminal, Transient, NoFail
    <3> QED
      BY <1>4, <3>1, <3>2
  <2> QED
    BY <2>1, <2>3, AnthropicInvEnds
<1>5. CASE Break
  <2>1. PICK f \in Faults : End(phase = "live", f)
    BY <1>5 DEF Break
  <2>2. f # NoFail /\ ~f.delivered
    BY DEF Faults, UpstreamIdle, ClientGone, Deadline, TruncatedStream, StreamReadError,
           ResponseTooLarge, SpoolError, Transient, Terminal, NoFail
  <2>3. /\ phase # "ended" /\ phase' = "ended" /\ sent' = sent /\ seen' = seen
        /\ verdict'.fail = f
    BY <1>5, <2>1 DEF Break, End
  <2> QED
    BY <2>2, <2>3, AnthropicInvEnds
<1>6. ASSUME NEW ev \in Event, Answer(ev)
      PROVE  AnthropicInv'
  <2> DEFINE b == A!AnthropicBuffered(x, ev)
             f == Append(seen, ev)
  <2>1. /\ phase = "buffering" /\ seen' = f /\ phase' = "ended"
        /\ Buffered(wire, ev).fail = NoFail /\ Buffered(wire, ev).done
    BY <1>6 DEF Answer, Arrives, End
  <2>2. PICK r \in Replays(ReplayBuffered(Buffered(wire, ev).wire, f)) :
          sent' = sent \o r.out /\ verdict' = [wrote |-> TRUE, fail |-> r.fail]
    BY <1>6 DEF Answer, End
  <2>3. /\ Buffered(wire, ev).wire = AnthropicTagged(b.wire)
        /\ Buffered(wire, ev).done = b.done /\ Buffered(wire, ev).fail = b.fail
        /\ b.fail = NoFail /\ b.done /\ Normalizing /\ Acc(f).fail = A!NoFail =>
             Settled(Acc(f).norm)
    BY <2>1, AnthropicBuffers
  <2>4. f \in Seq(Event) /\ f \in Seq(A!Events)
    BY <1>2
  <2> DEFINE t == AnthropicTagged(b.wire)
  <2> HIDE DEF b, f, x
  <2>5. ReplayBuffered(t, f) = [wire |-> t, out |-> Acc(f).out, fail |-> Replayed(Acc(f).fail)]
    BY AnthropicOperators
  <2>6. Acc(f).out \in Seq(A!Events) /\ NotAhead(Acc(f).out, Acc(f).out, f)
    BY <2>4, AccKnown, FramesNotAhead DEF KnownAs
  <2>7. Replayed(Acc(f).fail) \in {NoFail, ReplayFailed}
        /\ (Replayed(Acc(f).fail) = NoFail => Acc(f).fail = A!NoFail)
    BY SameAFailures DEF Replayed
  <2> HIDE DEF t
  <2>9. /\ r.out \in Seq(A!Events) /\ NotAhead(r.out, r.out, f) /\ ~r.fail.delivered
        /\ r.fail = NoFail => Acc(f).fail = A!NoFail /\ r.out = Acc(f).out
        /\ <<>> \o r.out = r.out
    <3> DEFINE y == ReplayBuffered(t, f)
    <3>1. r \in Replays(y)
      BY <2>2, <2>3 DEF t
    <3>2. y = [wire |-> t, out |-> Acc(f).out, fail |-> Replayed(Acc(f).fail)]
      BY <2>5
    <3> HIDE DEF y
    <3>3. /\ y = [wire |-> y.wire, out |-> y.out, fail |-> y.fail]
          /\ y.out = Acc(f).out /\ y.fail = Replayed(Acc(f).fail)
      BY <3>2
    <3>4. y.out \in Seq(A!Events) /\ NotAhead(y.out, y.out, f)
      BY <2>6, <3>3
    <3>5. y.fail = NoFail \/ y.fail = ReplayFailed
      BY <2>7, <3>3
    <3>6. /\ r.out \in Seq(A!Events) /\ NotAhead(r.out, r.out, f) /\ ~r.fail.delivered
          /\ r.fail = NoFail => y.fail = NoFail /\ r.out = y.out
          /\ <<>> \o r.out = r.out
      BY <2>4, <3>1, <3>3, <3>4, <3>5, AnthropicReplays
    <3> QED
      BY <2>7, <3>3, <3>6
  <2>10. sent' = r.out /\ verdict'.fail = r.fail
    BY <1>1, <2>1, <2>2, <2>9
  <2>11. BeforeError' = sent'
    BY <2>9, <2>10 DEF BeforeError
  <2>12. Answered' => Whole(sent', seen')
    <3>1. Answered' => r.fail = NoFail
      BY <2>10 DEF Answered
    <3> QED
      BY <2>1, <2>3, <2>9, <2>10, <3>1 DEF Whole
  <2> QED
    BY <2>1, <2>4, <2>9, <2>10, <2>11, <2>12 DEF AnthropicInv
<1>7. CASE Commit
  <2> DEFINE p == ReplayPrefix(wire, seen)
  <2>1. phase = "buffering" /\ seen' = seen
    BY <1>7 DEF Commit
  <2>2. PICK r \in Replays(p) :
          /\ sent' = sent \o r.out /\ wire' = r.wire
          /\ IF r.fail = NoFail THEN phase' = "live" /\ UNCHANGED verdict
             ELSE End(TRUE, r.fail)
    BY <1>7 DEF Commit
  <2>3. /\ wire = AnthropicTagged(x) /\ x \in AnthropicStates /\ ~x.val.sawStop
        /\ Tracks(x.tool, seen) /\ x.norm = A!NewNormalizer
    BY <1>1, <2>1 DEF Going
  <2> DEFINE y == [x EXCEPT !.norm = Acc(seen).norm]
             a == Acc(seen)
  <2>4. KnownAs(a, seen)
    BY <1>1, AccKnown
  <2>5. /\ y \in AnthropicStates /\ y.val = x.val /\ y.tool = x.tool
        /\ y.streamToolDeltas = x.streamToolDeltas /\ y.norm = a.norm
    <3>1. a.norm \in NormStates
      BY <2>4 DEF KnownAs
    <3> QED
      BY <2>3, <3>1 DEF AnthropicStates
  <2> HIDE DEF x, y, a, p
  <2>6. \/ x.streamToolDeltas /\ p = [wire |-> AnthropicTagged(x), out |-> seen, fail |-> NoFail]
        \/ /\ ~x.streamToolDeltas
           /\ p = [wire |-> AnthropicTagged(y), out |-> a.out, fail |-> Replayed(a.fail)]
    BY <2>3, AnthropicPrefixes DEF a, p, y
  <2>7. PICK z \in {x, y}, fs \in {seen, a.out}, g \in {NoFail, Replayed(a.fail)} :
          /\ p = [wire |-> AnthropicTagged(z), out |-> fs, fail |-> g]
          /\ IF x.streamToolDeltas THEN fs = seen
             ELSE z = y /\ fs = a.out /\ g = Replayed(a.fail)
    BY <2>6
  <2>8. g \in {NoFail, ReplayFailed} /\ (g = Replayed(a.fail) /\ g = NoFail => a.fail = A!NoFail)
    BY SameAFailures DEF Replayed
  <2>9. fs \in Seq(A!Events) /\ NotAhead(fs, fs, seen)
    BY <1>1, <2>4, FramesNotAhead DEF KnownAs, a
  <2>10. /\ r.wire = AnthropicTagged(z) /\ r.out \in Seq(A!Events)
         /\ NotAhead(r.out, r.out, seen) /\ ~r.fail.delivered
         /\ r.fail = NoFail => g = NoFail /\ r.out = fs
         /\ <<>> \o r.out = r.out
    <3>1. /\ p = [wire |-> p.wire, out |-> p.out, fail |-> p.fail]
          /\ p.wire = AnthropicTagged(z) /\ p.out = fs /\ p.fail = g
      BY <2>7
    <3>2. p.out \in Seq(A!Events) /\ NotAhead(p.out, p.out, seen)
      BY <2>9, <3>1
    <3>3. p.fail = NoFail \/ p.fail = ReplayFailed
      BY <2>8, <3>1
    <3>4. /\ r.wire = p.wire /\ r.out \in Seq(A!Events)
          /\ NotAhead(r.out, r.out, seen) /\ ~r.fail.delivered
          /\ r.fail = NoFail => p.fail = NoFail /\ r.out = p.out
          /\ <<>> \o r.out = r.out
      BY <1>1, <2>2, <3>1, <3>2, <3>3, AnthropicReplays
    <3> QED
      BY <3>1, <3>4
  <2>11. sent' = r.out
    BY <1>1, <2>1, <2>2, <2>10 DEF x
  <2>12. CASE r.fail = NoFail
    <3>1. phase' = "live" /\ r.out = fs /\ g = NoFail /\ wire' = AnthropicTagged(z)
      BY <2>2, <2>10, <2>12
    <3>2. wire'.state = z
      BY <3>1, AnthropicTagKeeps
    <3>3. /\ z \in AnthropicStates /\ ~z.val.sawStop /\ Tracks(z.tool, seen)
          /\ z.streamToolDeltas = x.streamToolDeltas
      BY <2>3, <2>5, <2>7
    <3>4. Current(z, fs, seen)
      <4>1. CASE x.streamToolDeltas
        BY <2>7, <3>3, <4>1 DEF Current
      <4>2. CASE ~x.streamToolDeltas
        BY <2>5, <2>7, <2>8, <3>1, <3>3, <4>2 DEF Current, a
      <4> QED
        BY <4>1, <4>2
    <3>5. wire' = AnthropicTagged(wire'.state) /\ Going(wire'.state, seen')
      BY <2>1, <3>1, <3>2, <3>3 DEF Going
    <3>6. ~Answered'
      BY <3>1 DEF Answered
    <3> QED
      BY <1>1, <2>1, <2>10, <2>11, <3>1, <3>2, <3>4, <3>5, <3>6 DEF AnthropicInv
  <2>13. CASE r.fail # NoFail
    <3>1. phase' = "ended" /\ verdict'.fail = r.fail
      BY <2>2, <2>13 DEF End
    <3>2. ~Answered' /\ BeforeError' = sent'
      BY <2>10, <2>13, <3>1 DEF Answered, BeforeError
    <3> QED
      BY <1>1, <2>1, <2>10, <2>11, <3>1, <3>2 DEF AnthropicInv
  <2> QED
    BY <2>12, <2>13
<1>8. ASSUME NEW ev \in Event, Forward(ev)
      PROVE  AnthropicInv'
  <2> DEFINE v == A!AnthropicLive(x, ev)
             f == Append(seen, ev)
             w == Live(wire, ev)
  <2>1. /\ phase = "live" /\ seen' = f /\ wire' = w.wire /\ sent' = sent \o w.out
        /\ IF w.fail # NoFail \/ w.done THEN End(TRUE, w.fail) ELSE UNCHANGED <<phase, verdict>>
    BY <1>8 DEF Forward, Arrives
  <2>2. /\ w.wire = AnthropicTagged(v.wire) /\ w.out = v.out
        /\ w.done = v.done /\ w.fail = v.fail
        /\ v.fail # NoFail =>
             \/ v.out = <<>> /\ ~v.fail.delivered
             \/ v.out = <<ev>> /\ v.fail.delivered /\ ev.type = "error"
        /\ v.fail = NoFail =>
             /\ v.wire \in AnthropicStates /\ Tracks(v.wire.tool, f)
             /\ ~v.done => ~v.wire.val.sawStop
             /\ sent \o v.out \in Seq(A!Events)
             /\ Current(v.wire, sent \o v.out, f)
             /\ v.done => Whole(sent \o v.out, f)
    BY <2>1, AnthropicForwards
  <2>3. f \in Seq(Event) /\ f \in Seq(A!Events) /\ ev \in A!Events
    BY <1>1, <1>2
  <2>4. NotAhead(sent, sent, f)
    <3>1. NotAhead(sent, sent, seen)
      BY <2>1, SentNotAhead
    <3> QED
      BY <1>1, <2>3, <3>1, LaterNotAhead
  <2> HIDE DEF x, v, f, w
  <2>5. CASE v.fail # NoFail /\ v.out = <<>> /\ ~v.fail.delivered
    <3>1. sent' = sent
      BY <1>1, <2>1, <2>2, <2>5, ConcatEmptySeq
    <3>2. phase' = "ended" /\ verdict'.fail # NoFail /\ ~verdict'.fail.delivered
      BY <2>1, <2>2, <2>5 DEF End
    <3> QED
      BY <2>1, <3>1, <3>2, AnthropicInvEnds DEF f
  <2>6. CASE v.fail # NoFail /\ v.out = <<ev>> /\ v.fail.delivered /\ ev.type = "error"
    <3>1. phase' = "ended" /\ verdict'.fail = v.fail
      BY <2>1, <2>2, <2>6 DEF End
    <3>2. sent' = Append(sent, ev) /\ sent' \in Seq(A!Events)
      BY <1>1, <2>1, <2>2, <2>3, <2>6, AppendIsConcat, AppendProperties
    <3>3. SubSeq(sent', 1, Len(sent') - 1) = sent
      BY <1>1, <2>3, <3>2, FrontOfAppended
    <3>4. BeforeError' = sent
      BY <3>1, <3>3, <2>6 DEF BeforeError
    <3>5. \A i : A!InputOf(sent', i) = A!InputOf(sent, i)
      <4> TAKE i
      <4>1. A!InputPart(i, ev) = <<>>
        BY <2>6 DEF A!InputPart, A!IsInputDelta
      <4>2. Joins(A!InputOf(sent', i), A!InputOf(sent, i), <<>>)
            /\ A!InputOf(sent, i) \in Seq(A!Fragments)
        BY <1>1, <2>3, <3>2, <4>1, InputRead
      <4> QED
        BY <4>2, JoinsFacts
    <3>6. NotAhead(BeforeError', sent', f)
      BY <2>4, <3>4, <3>5 DEF NotAhead
    <3>7. ~Answered'
      BY <2>6, <3>1 DEF Answered
    <3> QED
      BY <2>1, <2>3, <3>1, <3>2, <3>6, <3>7 DEF AnthropicInv
  <2>7. CASE v.fail = NoFail /\ ~v.done
    <3>1. phase' = "live" /\ wire' = AnthropicTagged(v.wire) /\ sent' = sent \o v.out
      BY <2>1, <2>2, <2>7
    <3>2. wire'.state = v.wire
      BY <3>1, AnthropicTagKeeps
    <3>3. wire' = AnthropicTagged(wire'.state) /\ Going(wire'.state, seen')
      BY <2>1, <2>2, <2>7, <3>1, <3>2 DEF Going
    <3>4. ~Answered'
      BY <3>1 DEF Answered
    <3> QED
      BY <2>1, <2>2, <2>3, <2>7, <3>1, <3>2, <3>3, <3>4 DEF AnthropicInv
  <2>8. CASE v.fail = NoFail /\ v.done
    <3> DEFINE out == sent \o v.out
    <3>1. /\ phase' = "ended" /\ sent' = out /\ verdict' = [wrote |-> TRUE, fail |-> NoFail]
      BY <2>1, <2>2, <2>8 DEF End
    <3>2. Whole(out, f) /\ out \in Seq(A!Events)
      BY <2>2, <2>8
    <3> HIDE DEF out
    <3>3. NotAhead(out, out, f)
      <4>1. out \in {f, Acc(f).out}
        BY <3>2 DEF Whole
      <4> QED
        BY <2>3, <4>1, FramesNotAhead
    <3>4. BeforeError' = sent'
      BY <3>1, SameAFailures DEF BeforeError
    <3> QED
      BY <2>1, <2>3, <3>1, <3>2, <3>3, <3>4 DEF AnthropicInv
  <2> QED
    BY <2>2, <2>5, <2>6, <2>7, <2>8
<1>9. CASE AnswerAtEOF
  <2>1. wire = AnthropicTagged(x) /\ CompleteOnEOF(wire)
    BY <1>1, <1>9 DEF AnswerAtEOF
  <2> HIDE DEF x
  <2>2. ~CompleteOnEOF(wire)
    BY <2>1, AnthropicOperators
  <2> QED
    BY <2>1, <2>2
<1>10. CASE UNCHANGED vars
  <2>1. /\ phase' = phase /\ wire' = wire /\ seen' = seen /\ sent' = sent /\ verdict' = verdict
    BY <1>10 DEF vars
  <2>2. Answered' = Answered /\ BeforeError' = BeforeError
    BY <2>1, Zenon DEF Answered, BeforeError
  <2> QED
    BY <2>1, <2>2 DEF AnthropicInv
<1> QED
  BY <1>3, <1>4, <1>5, <1>6, <1>7, <1>8, <1>9, <1>10 DEF Next, Ended

\* It holds throughout.
LEMMA AnthropicInvariant == ASSUME AnthropicStream PROVE Spec => []AnthropicInv
<1>1. Init => AnthropicInv
  BY AnthropicInvInit
<1>2. AnthropicInv /\ [Next]_vars => AnthropicInv'
  BY AnthropicInvNext
<1> QED
  BY <1>1, <1>2, PTL DEF Spec

\* With nothing left behind the client has the upstream's content.
LEMMA WholeKeepsContent ==
    ASSUME NEW evs \in Seq(A!Events), NEW frames \in Seq(A!Events), Whole(frames, evs),
           BlockProtocol(evs)
    PROVE  A!SameContent(frames, evs)
<1>1. CASE frames = evs
  BY <1>1 DEF A!SameContent
<1>2. CASE ~Normalizing
  <2>1. Acc(evs).out = evs
    BY <1>2, UnnormalizedIsWhole
  <2>2. frames = evs
    BY <2>1 DEF Whole
  <2> QED
    BY <1>1, <2>2
<1>3. CASE frames # evs /\ Normalizing
  <2> DEFINE a == Acc(evs)
  <2>1. a.fail = A!NoFail /\ frames = a.out /\ Settled(a.norm)
    BY <1>3 DEF Whole
  <2>2. KnownAs(a, evs)
    BY AccKnown
  <2> HIDE DEF a
  <2>3. a.norm.held = <<>> /\ \A i : A!Get(a.norm.blocks, i).input = <<>>
    BY <2>1 DEF Settled
  <2>4. A!Others(frames) = A!Others(evs)
    <3>1. Joins(A!Others(evs), A!Others(frames), A!Others(a.norm.held))
      BY <2>1, <2>2 DEF KnownAs
    <3>2. A!Others(a.norm.held) = <<>> /\ A!Others(frames) \in Seq(A!Events)
      BY <2>3, OthersRead
    <3>3. Joins(A!Others(evs), A!Others(frames), <<>>)
      BY <3>1, <3>2
    <3> QED
      BY <3>2, <3>3, JoinsFacts
  <2>5. ASSUME NEW i
        PROVE  A!InputOf(frames, i) = A!InputOf(evs, i)
    <3>1. Joins(A!InputOf(evs, i), A!InputOf(frames, i), PendingInput(a.norm, i))
      BY <2>1, <2>2 DEF KnownAs, InputsKnown
    <3>2. PendingInput(a.norm, i) = <<>> \o <<>>
      <4>1. A!InputOf(a.norm.held, i) = <<>>
        BY <2>3, InputRead
      <4> QED
        BY <2>3, <4>1, Zenon DEF PendingInput
    <3>3. <<>> \o <<>> = <<>> /\ A!InputOf(frames, i) \in Seq(A!Fragments)
      <4>1. <<>> \o <<>> = <<>>
        OBVIOUS
      <4> QED
        BY <4>1, InputRead
    <3>4. Joins(A!InputOf(evs, i), A!InputOf(frames, i), <<>>)
      BY <3>1, <3>2, <3>3
    <3> QED
      BY <3>3, <3>4, JoinsFacts
  <2> QED
    BY <2>4, <2>5 DEF A!SameContent
<1> QED
  BY <1>1, <1>2, <1>3

\* A stream answered as a success carries the upstream's content: the fragments
\* that the normalizer joins lose, repeat and reorder nothing, wherever the
\* commit fell, and nothing of it is left behind (sse.go, the normalizer;
\* wire.go, live and the replays).
THEOREM AnthropicSuccessKeepsContent ==
    ASSUME AnthropicStream PROVE Spec => []SuccessKeepsContent
<1>1. AnthropicInv => SuccessKeepsContent
  BY WholeKeepsContent DEF AnthropicInv, SuccessKeepsContent
<1> QED
  BY <1>1, AnthropicInvariant, PTL

\* What was sent is at no moment ahead of the upstream, a terminal error apart
\* that overtakes the frames of a tool call still being judged (sse.go, the
\* normalizer; wire.go, live).
THEOREM AnthropicIsNeverAhead == ASSUME AnthropicStream PROVE Spec => []NeverAhead
<1>1. ASSUME AnthropicInv
      PROVE  NotAhead(BeforeError, sent, seen)
  <2>1. CASE phase = "ended"
    BY <1>1, <2>1 DEF AnthropicInv
  <2>2. CASE phase # "ended"
    <3>1. NotAhead(sent, sent, seen)
      BY <1>1, <2>2, SentNotAhead
    <3>2. BeforeError = sent
      BY <2>2 DEF BeforeError
    <3> QED
      BY <3>1, <3>2
  <2> QED
    BY <2>1, <2>2
<1>2. AnthropicInv => NeverAhead
  BY <1>1 DEF NotAhead, NeverAhead
<1> QED
  BY <1>2, AnthropicInvariant, PTL

\* Whatever the validators let into the buffer, a commit or the answer can
\* deliver, if every frame of the stream has data: the validator holds a block
\* exactly when the normalizer would (sse.go, toolJSONValidator and
\* toolJSONReplayNormalizer).
THEOREM AnthropicBufferIsDeliverable ==
    ASSUME AnthropicStream, A!Bare \notin Event
    PROVE  Spec => []BufferIsDeliverable
<1>1. ASSUME AnthropicInv, phase = "buffering"
      PROVE  ReplayPrefix(wire, seen).fail = NoFail /\ ReplayBuffered(wire, seen).fail = NoFail
  <2> DEFINE x == wire.state
  <2>1. /\ seen \in Seq(Event) /\ wire = AnthropicTagged(x) /\ x \in AnthropicStates
        /\ Tracks(x.tool, seen) /\ x.norm = A!NewNormalizer
    BY <1>1 DEF AnthropicInv, Going
  <2>2. Acc(seen).fail = A!NoFail
    <3>1. \A k \in DOMAIN seen : seen[k] # A!Bare
      BY <2>1, ElementOfSeq
    <3> QED
      BY <2>1, <3>1 DEF Tracks
  <2>3. Replayed(Acc(seen).fail) = NoFail
    BY <2>2 DEF Replayed
  <2> HIDE DEF x
  <2> DEFINE y == ReplayBuffered(wire, seen)
             p == ReplayPrefix(wire, seen)
  <2>4. y = [wire |-> wire, out |-> Acc(seen).out, fail |-> NoFail]
    BY <2>1, <2>3, AnthropicOperators
  <2>5. \E z, o : p = [wire |-> z, out |-> o, fail |-> NoFail]
    BY <2>1, <2>3, AnthropicPrefixes
  <2> HIDE DEF y, p
  <2>6. y.fail = NoFail /\ p.fail = NoFail
    BY <2>4, <2>5
  <2> QED
    BY <2>6 DEF y, p
<1>2. AnthropicInv => BufferIsDeliverable
  BY <1>1 DEF BufferIsDeliverable
<1> QED
  BY <1>2, AnthropicInvariant, PTL

-----------------------------------------------------------------------------
(* Refusals                                                                *)

\* The stream has content, or its terminal event.
DeltaSeen(evs) == \E i \in DOMAIN evs : evs[i].type = "content_block_delta"
NoStop(evs)    == \A i \in DOMAIN evs : evs[i].type # "message_stop"

\* One event more: the last stop reason counts.
LEMMA RefusedAppended ==
    ASSUME NEW fs \in Seq(A!Events), NEW e \in A!Events, NEW g, g = Append(fs, e)
    PROVE  /\ A!Refused(g) <=> \/ e = A!StopReason("refusal")
                               \/ A!Refused(fs) /\ ~(e.type = "message_delta" /\ e.body # "")
           /\ DeltaSeen(g) <=> DeltaSeen(fs) \/ e.type = "content_block_delta"
           /\ NoStop(g) <=> NoStop(fs) /\ e.type # "message_stop"
<1> DEFINE n == Len(fs)
           ref == A!StopReason("refusal")
<1>1. /\ n \in Nat /\ Len(g) = n + 1 /\ g[n + 1] = e /\ \A i \in 1 .. n : g[i] = fs[i]
      /\ DOMAIN g = 1 .. n + 1 /\ DOMAIN fs = 1 .. n /\ g # <<>>
  BY AppendProperties, LenProperties
<1>2. ref.type = "message_delta" /\ ref.body = "refusal"
  BY EventFields DEF A!StopReason, Fields
<1> HIDE DEF n, ref
<1>3. ASSUME e = ref
      PROVE  A!Refused(g)
  <2>1. n + 1 \in DOMAIN g /\ \A j \in DOMAIN g : ~(j > n + 1)
    BY <1>1
  <2> QED
    BY <1>1, <1>3, <2>1 DEF A!Refused, ref
<1>4. ASSUME A!Refused(fs), ~(e.type = "message_delta" /\ e.body # "")
      PROVE  A!Refused(g)
  <2>1. PICK i \in 1 .. n : /\ fs[i] = ref
                            /\ \A j \in 1 .. n : j > i /\ fs[j].type = "message_delta"
                                                   => fs[j].body = ""
    BY <1>1, <1>4 DEF A!Refused, ref
  <2>2. i \in DOMAIN g /\ g[i] = ref
    <3>1. i \in 1 .. n + 1 /\ g[i] = fs[i] /\ fs[i] = ref
      <4>1. i \in 1 .. n /\ fs[i] = ref
        BY <2>1
      <4> QED
        BY <1>1, <4>1
    <3> QED
      BY <1>1, <3>1, Zenon
  <2>3. ASSUME NEW j \in DOMAIN g, j > i, g[j].type = "message_delta"
        PROVE  g[j].body = ""
    <3>1. j \in 1 .. n \/ j = n + 1
      BY <1>1
    <3> QED
      BY <1>1, <1>4, <2>1, <2>3, <3>1
  <2> QED
    BY <2>2, <2>3 DEF A!Refused, ref
<1>5. ASSUME A!Refused(g), e # ref
      PROVE  A!Refused(fs) /\ ~(e.type = "message_delta" /\ e.body # "")
  <2>1. PICK i \in 1 .. n + 1 : /\ g[i] = ref
                                /\ \A j \in 1 .. n + 1 : j > i /\ g[j].type = "message_delta"
                                                           => g[j].body = ""
    BY <1>1, <1>5 DEF A!Refused, ref
  <2>6. i # n + 1
    BY <1>1, <1>5, <2>1, Zenon
  <2>2. i \in 1 .. n /\ n + 1 > i /\ n + 1 \in 1 .. n + 1
    BY <1>1, <2>6
  <2>3. ~(e.type = "message_delta" /\ e.body # "")
    BY <1>1, <2>1, <2>2
  <2>4. \A j \in 1 .. n : j \in 1 .. n + 1 /\ g[j] = fs[j]
    BY <1>1
  <2>5. A!Refused(fs)
    <3>1. fs[i] = ref
      BY <2>1, <2>2, <2>4, Zenon
    <3>2. \A j \in 1 .. n : j > i /\ fs[j].type = "message_delta" => fs[j].body = ""
      BY <2>1, <2>4
    <3> QED
      BY <1>1, <2>2, <3>1, <3>2, Zenon DEF A!Refused, ref
  <2> QED
    BY <2>3, <2>5
<1>6. A!Refused(g) <=> \/ e = ref
                       \/ A!Refused(fs) /\ ~(e.type = "message_delta" /\ e.body # "")
  BY <1>3, <1>4, <1>5
<1>7. \A i : i \in DOMAIN g <=> i \in DOMAIN fs \/ i = n + 1
  BY <1>1
<1>8. DeltaSeen(g) <=> DeltaSeen(fs) \/ e.type = "content_block_delta"
  BY <1>1, <1>7 DEF DeltaSeen
<1>9. NoStop(g) <=> NoStop(fs) /\ e.type # "message_stop"
  BY <1>1, <1>7 DEF NoStop
<1> QED
  BY <1>6, <1>8, <1>9 DEF ref

\* A tool's input has no part in a refusal nor in the end of a stream.
LEMMA OthersTell ==
    ASSUME NEW fs \in Seq(A!Events)
    PROVE  /\ A!Refused(A!Others(fs)) <=> A!Refused(fs)
           /\ NoStop(fs) => NoStop(A!Others(fs))
<1> DEFINE Tells(s) == /\ A!Refused(A!Others(s)) <=> A!Refused(s)
                       /\ NoStop(s) => NoStop(A!Others(s))
           N == {s \in Seq(A!Events) : Tells(s)}
<1>1. <<>> \in N
  <2>1. <<>> \in Seq(A!Events) /\ A!Others(<<>>) = <<>>
    BY OthersRead
  <2> QED
    BY <2>1
<1>2. ASSUME NEW s \in Seq(A!Events), NEW e \in A!Events, s \in N
      PROVE  Append(s, e) \in N
  <2> DEFINE g == Append(s, e)
             o == A!Others(s)
  <2>1. /\ o \in Seq(A!Events) /\ Joins(A!Others(g), o, A!OtherPart(e)) /\ g \in Seq(A!Events)
    BY OthersRead, AppendProperties
  <2>2. Tells(s)
    BY <1>2
  <2>3. g = Append(s, e)
    OBVIOUS
  <2> HIDE DEF g, o
  <2>4. /\ A!Refused(g) <=> \/ e = A!StopReason("refusal")
                            \/ A!Refused(s) /\ ~(e.type = "message_delta" /\ e.body # "")
        /\ NoStop(g) <=> NoStop(s) /\ e.type # "message_stop"
    BY <2>3, RefusedAppended
  <2>5. CASE A!IsInputDelta(e)
    <3>1. A!Others(g) = o
      <4>1. A!OtherPart(e) = <<>>
        BY <2>5 DEF A!OtherPart
      <4> QED
        BY <2>1, <4>1, JoinsFacts
    <3>2. e.type = "content_block_delta" /\ A!StopReason("refusal").type = "message_delta"
      BY <2>5, EventFields DEF A!IsInputDelta, A!StopReason, Fields
    <3>3. Tells(g)
      BY <2>2, <2>4, <3>1, <3>2 DEF o
    <3> QED
      BY <2>1, <3>3 DEF g
  <2>6. CASE ~A!IsInputDelta(e)
    <3>1. A!Others(g) = Append(o, e)
      <4>1. A!OtherPart(e) = <<e>>
        BY <2>6 DEF A!OtherPart
      <4> QED
        BY <2>1, <4>1, AppendIsConcat DEF Joins
    <3> DEFINE h == A!Others(g)
    <3>2. h = Append(o, e)
      BY <3>1
    <3> HIDE DEF h
    <3>3. /\ A!Refused(h) <=> \/ e = A!StopReason("refusal")
                              \/ A!Refused(o) /\ ~(e.type = "message_delta" /\ e.body # "")
          /\ NoStop(h) <=> NoStop(o) /\ e.type # "message_stop"
      BY <2>1, <3>2, RefusedAppended
    <3>4. Tells(g)
      BY <2>2, <2>4, <3>3 DEF o, h
    <3> QED
      BY <2>1, <3>4 DEF g
  <2> QED
    BY <2>5, <2>6
<1>3. Seq(A!Events) \subseteq N
  <2> HIDE DEF N
  <2> QED
    BY <1>1, <1>2, NI!SequencesByAppend
<1> QED
  BY <1>3

\* Frames that are not ahead of a stream and end with its last event are a refusal
\* only if the stream is one.
LEMMA RefusalNeedsStop ==
    ASSUME NEW evs \in Seq(A!Events), NoStop(evs), NEW f, f = Append(evs, A!MessageStop),
           A!MessageStop \in A!Events, NEW fs \in Seq(A!Events),
           IsPrefix(A!Others(fs), A!Others(f)), A!IsRefusal(fs)
    PROVE  A!Refused(evs)
<1> DEFINE ms == A!MessageStop
           b  == A!Others(evs)
           h  == A!Others(fs)
           k  == A!Others(f)
<1>1. ms.type = "message_stop" /\ A!OtherPart(ms) = <<ms>>
  BY EventFields DEF A!MessageStop, A!OtherPart, A!IsInputDelta, Fields
<1>2. PICK front \in Seq(A!Events) : fs = Append(front, ms)
  <2>1. fs # <<>> /\ fs[Len(fs)] = ms
    BY DEF A!IsRefusal
  <2>2. PICK t \in Seq(A!Events), e \in A!Events : fs = Append(t, e)
    BY <2>1, SequenceEmptyOrAppend
  <2>3. e = fs[Len(fs)]
    BY <2>2, AppendProperties, LenProperties
  <2> QED
    BY <2>1, <2>2, <2>3
<1> DEFINE a == A!Others(front)
<1>3. a \in Seq(A!Events) /\ b \in Seq(A!Events) /\ NoStop(b) /\ ms \in A!Events
  BY OthersRead, OthersTell
<1>4. Joins(h, a, <<ms>>) /\ Joins(k, b, <<ms>>)
  BY <1>1, <1>2, OthersRead
<1>5. IsPrefix(h, k) /\ f = Append(evs, ms) /\ f \in Seq(A!Events)
  BY AppendProperties
<1>6. /\ A!Refused(h) <=> A!Refused(fs)
      /\ A!Refused(k) <=> A!Refused(f)
  BY <1>5, OthersTell
<1>7. A!Refused(fs)
  BY DEF A!IsRefusal
<1> HIDE DEF ms, a, b, h, k
<1>8. h = Append(a, ms) /\ k = Append(b, ms)
  BY <1>3, <1>4, AppendIsConcat DEF Joins
<1>9. h = k
  <2>1. /\ Len(a) \in Nat /\ Len(h) = Len(a) + 1 /\ h[Len(a) + 1] = ms
        /\ Len(b) \in Nat /\ Len(k) = Len(b) + 1
        /\ \A i \in 1 .. Len(b) : k[i] = b[i]
        /\ DOMAIN b = 1 .. Len(b)
        /\ h \in Seq(A!Events) /\ k \in Seq(A!Events)
    BY <1>3, <1>8, AppendProperties, LenProperties
  <2>2. /\ Len(h) <= Len(k) /\ \A i \in 1 .. Len(h) : h[i] = k[i]
    <3>1. Len(h) <= Len(k) /\ SubSeq(h, 1, Len(h)) = SubSeq(k, 1, Len(h))
      BY <1>5 DEF IsPrefix
    <3> QED
      BY <2>1, <3>1
  <2>3. ~(Len(a) + 1 \in 1 .. Len(b))
    <3>1. ASSUME Len(a) + 1 \in 1 .. Len(b)
          PROVE  FALSE
      <4>1. b[Len(a) + 1] = ms
        BY <2>1, <2>2, <3>1
      <4> QED
        BY <1>1, <1>3, <2>1, <3>1, <4>1 DEF NoStop
    <3> QED
      BY <3>1
  <2>4. Len(h) = Len(k)
    BY <2>1, <2>2, <2>3
  <2> QED
    BY <2>1, <2>2, <2>4
<1>10. A!Refused(f)
  BY <1>6, <1>7, <1>9
<1> QED
  <2>1. ms # A!StopReason("refusal")
    BY <1>1, EventFields DEF A!StopReason, Fields
  <2> QED
    BY <1>1, <1>3, <1>5, <1>10, <2>1, RefusedAppended

\* What the wire knows of the stream: its last stop reason, and whether it has
\* content; and the message goes on.
Told(x, evs) ==
    /\ x.stop = "refusal" <=> A!Refused(evs)
    /\ x.sawProgress => DeltaSeen(evs)
    /\ NoStop(evs)

\* The buffering path keeps it so, hands over complete refusals only, and lets
\* none through while they are intercepted.
LEMMA ToldBuffered ==
    ASSUME NEW x \in AnthropicStates, ~x.val.sawStop, NEW evs \in Seq(A!Events), Told(x, evs),
           NEW ev \in A!Events, NEW b, b = A!AnthropicBuffered(x, ev),
           NEW f, f = Append(evs, ev)
    PROVE  /\ b.fail = A!NoFail /\ ~b.done => Told(b.wire, f)
           /\ b.fail = A!NoFail /\ b.done =>
                ev = A!MessageStop /\ (InterceptRefusal => ~A!Refused(f))
           /\ b.fail = RefusalFallback => A!IsRefusal(f)
<1> DEFINE w   == A!Scrape(x, ev)
           chk == A!ToolCheck(w, ev)
           val == A!ValidatorAccept(w.val, ev)
           progress == w.sawProgress \/ ev.type = "content_block_delta"
           ok  == [w EXCEPT !.tool = chk.tool, !.val = val, !.sawProgress = progress]
           terminal == A!StreamTerminal(val)
           refused  == InterceptRefusal /\ w.stop = "refusal"
<1>1. /\ w \in AnthropicStates /\ w.val = x.val /\ w.sawProgress = x.sawProgress
      /\ w.stop = IF ev.type = "message_delta" /\ ev.body # "" THEN ev.body ELSE x.stop
  BY Scraped
<1>2. /\ ev.type # "message_stop" => val.sawStop = x.val.sawStop
      /\ ev.type = "message_stop" /\ ~val.invalid => terminal
  <2>1. w.val \in Validators
    BY <1>1 DEF AnthropicStates
  <2> HIDE DEF w
  <2> QED
    BY <1>1, <2>1, ValidatorSteps
<1>3. chk.fail \in {A!NoFail, A!MalformedSSE, A!InBandTransient, A!InBandTerminal}
  BY ToolCheckFails
<1>4. terminal => val.sawStop
  BY DEF A!StreamTerminal
<1>5. \/ chk.fail # A!NoFail /\ b = [wire |-> w, done |-> FALSE, fail |-> chk.fail]
      \/ b = [wire |-> w, done |-> FALSE, fail |-> A!MalformedSSE]
      \/ terminal /\ refused /\ b = [wire |-> ok, done |-> FALSE, fail |-> A!RefusalFallback]
      \/ /\ ~val.invalid /\ ~(terminal /\ refused)
         /\ b = [wire |-> ok, done |-> terminal, fail |-> A!NoFail]
  BY DEF A!AnthropicBuffered
<1>6. ok.stop = w.stop /\ ok.sawProgress = progress
  <2> HIDE DEF w, chk, val, progress
  <2> QED
    BY <1>1 DEF AnthropicStates
<1>7. /\ A!RefusalFallback = RefusalFallback /\ RefusalFallback # A!NoFail
      /\ A!MalformedSSE \notin {A!NoFail, RefusalFallback} /\ chk.fail # RefusalFallback
  <2>1. A!RefusalFallback = RefusalFallback
    BY DEF A!RefusalFallback, RefusalFallback, A!Terminal, Terminal
  <2>2. A!MalformedSSE # A!NoFail
    BY DEF A!MalformedSSE, A!NoFail, A!Transient
  <2> QED
    BY <1>3, <2>1, <2>2, OthersAreNotTheSentinel
<1>8. /\ A!Refused(f) <=> \/ ev = A!StopReason("refusal")
                          \/ A!Refused(evs) /\ ~(ev.type = "message_delta" /\ ev.body # "")
      /\ DeltaSeen(f) <=> DeltaSeen(evs) \/ ev.type = "content_block_delta"
      /\ NoStop(f) <=> NoStop(evs) /\ ev.type # "message_stop"
  <2> HIDE DEF w, chk, val, progress, ok, terminal, refused
  <2> QED
    BY RefusedAppended
<1>0. f[Len(f)] = ev /\ f # <<>>
  BY AppendProperties, LenProperties
<1>9. /\ ev = A!StopReason("refusal") <=> ev.type = "message_delta" /\ ev.body = "refusal"
      /\ ev.type = "message_stop" => ev = A!MessageStop
  <2>1. A!StopReason("refusal").type = "message_delta" /\ A!StopReason("refusal").body = "refusal"
    BY EventFields DEF A!StopReason, Fields
  <2> QED
    BY <2>1, AnthropicEventShape DEF AnthropicShape
<1>10. w.stop = "refusal" <=> A!Refused(f)
  BY <1>1, <1>8, <1>9 DEF Told
<1>11. progress => DeltaSeen(f)
  BY <1>1, <1>8 DEF Told
<1>12. ~x.val.sawStop /\ NoStop(evs)
  BY DEF Told
<1> HIDE DEF w, chk, val, progress, ok, terminal
<1>13. ASSUME b.fail = A!NoFail
       PROVE  /\ b.wire = ok /\ b.done = terminal /\ ~val.invalid
              /\ ~(terminal /\ refused)
  BY <1>5, <1>7, <1>13
<1>14. ASSUME b.fail = A!NoFail, ~b.done
       PROVE  Told(b.wire, f)
  <2>1. ~terminal /\ ev.type # "message_stop" /\ b.wire = ok
    BY <1>2, <1>13, <1>14
  <2> QED
    BY <1>6, <1>8, <1>10, <1>11, <1>12, <2>1 DEF Told
<1>15. ASSUME terminal
       PROVE  ev = A!MessageStop
  BY <1>2, <1>4, <1>9, <1>12, <1>15
<1>16. ASSUME b.fail = A!NoFail, b.done
       PROVE  ev = A!MessageStop /\ (InterceptRefusal => ~A!Refused(f))
  <2>1. terminal /\ ~refused
    BY <1>13, <1>16
  <2> QED
    BY <1>10, <1>15, <2>1 DEF refused
<1>17. ASSUME b.fail = RefusalFallback
       PROVE  A!IsRefusal(f)
  <2>1. terminal /\ refused
    BY <1>5, <1>7, <1>17
  <2> QED
    BY <1>0, <1>10, <1>15, <2>1 DEF A!IsRefusal, refused
<1> QED
  BY <1>14, <1>16, <1>17

\* A buffering wire knows the stream; a stream that ends with the sentinel is a
\* complete refusal of which nothing was sent.
RefusalInv(deltas) ==
    /\ phase = "buffering" => wire.state.streamToolDeltas = deltas /\ Told(wire.state, seen)
    /\ phase = "ended" /\ verdict.fail = RefusalFallback => A!IsRefusal(seen) /\ sent = <<>>

\* It holds of a new stream.
LEMMA RefusalInvInit ==
    ASSUME NEW deltas \in BOOLEAN, WireInits \subseteq {AnthropicWireOf(deltas)}, Init
    PROVE  RefusalInv(deltas)
<1>1. /\ wire.state = A!AnthropicInit(deltas) /\ seen = <<>> /\ phase = "buffering"
  BY AnthropicTagKeeps DEF Init, AnthropicWireOf, AnthropicTagged
<1>2. /\ wire.state.streamToolDeltas = deltas /\ wire.state.stop = ""
      /\ wire.state.sawProgress = FALSE
  <2>1. \A d : /\ A!AnthropicInit(d).streamToolDeltas = d /\ A!AnthropicInit(d).stop = ""
               /\ A!AnthropicInit(d).sawProgress = FALSE
    BY DEF A!AnthropicInit
  <2> QED
    BY <1>1, <2>1
<1>3. DOMAIN seen = {}
  BY <1>1
<1> QED
  BY <1>1, <1>2, <1>3 DEF RefusalInv, Told, NoStop, A!Refused

\* No replay ends with the sentinel.
LEMMA ReplaysFail ==
    ASSUME NEW y, y = [wire |-> y.wire, out |-> y.out, fail |-> y.fail],
           y.fail # RefusalFallback, NEW r \in Replays(y)
    PROVE  r.fail # RefusalFallback
<1>1. r.fail = y.fail \/ r.fail = ReplayFailed \/ r = y
  BY DEF Replays
<1> QED
  BY <1>1 DEF ReplayFailed, RefusalFallback, Transient, Terminal

\* What the buffering path makes of an event of a stream it knows.
LEMMA RefusalBuffers ==
    ASSUME AnthropicStream, NEW deltas, AnthropicInv, RefusalInv(deltas), phase = "buffering",
           NEW ev \in Event, NEW b, b = A!AnthropicBuffered(wire.state, ev),
           NEW f, f = Append(seen, ev)
    PROVE  /\ Buffered(wire, ev).wire = AnthropicTagged(b.wire)
           /\ Buffered(wire, ev).done = b.done /\ Buffered(wire, ev).fail = b.fail
           /\ b.fail = NoFail /\ ~b.done =>
                b.wire.streamToolDeltas = deltas /\ Told(b.wire, f)
           /\ b.fail = NoFail /\ b.done =>
                ev = A!MessageStop /\ (InterceptRefusal => ~A!Refused(f))
           /\ b.fail = RefusalFallback => A!IsRefusal(f)
<1> DEFINE x == wire.state
<1>1. /\ x \in AnthropicStates /\ ~x.val.sawStop /\ seen \in Seq(A!Events)
      /\ x.streamToolDeltas = deltas /\ Told(x, seen) /\ ev \in A!Events
  BY DEF AnthropicInv, Going, RefusalInv, AnthropicStream
<1>2. /\ Buffered(wire, ev).wire = AnthropicTagged(b.wire)
      /\ Buffered(wire, ev).done = b.done /\ Buffered(wire, ev).fail = b.fail
  BY AnthropicBuffers
<1>3. b = A!AnthropicBuffered(x, ev)
  OBVIOUS
<1> HIDE DEF x
<1>4. b.fail = A!NoFail => b.wire.streamToolDeltas = x.streamToolDeltas
  BY <1>1, <1>3, BufferedVerdict
<1>5. /\ b.fail = A!NoFail /\ ~b.done => Told(b.wire, f)
      /\ b.fail = A!NoFail /\ b.done =>
           ev = A!MessageStop /\ (InterceptRefusal => ~A!Refused(f))
      /\ b.fail = RefusalFallback => A!IsRefusal(f)
  BY <1>1, <1>3, ToldBuffered
<1> QED
  BY <1>1, <1>2, <1>4, <1>5, SameAFailures

\* Every step of the stream keeps it.
LEMMA RefusalInvNext ==
    ASSUME AnthropicStream, NEW deltas, AnthropicInv, RefusalInv(deltas), [Next]_vars
    PROVE  RefusalInv(deltas)'
<1> DEFINE x == wire.state
<1>1. /\ phase \in {"buffering", "live", "ended"} /\ seen \in Seq(A!Events)
      /\ phase # "ended" => wire = AnthropicTagged(x) /\ x \in AnthropicStates
      /\ phase = "buffering" => sent = <<>> /\ x.norm = A!NewNormalizer
  BY DEF AnthropicInv, Going
<1>2. ASSUME phase' # "buffering", phase' = "ended" => verdict'.fail # RefusalFallback
      PROVE  RefusalInv(deltas)'
  BY <1>2 DEF RefusalInv
<1>3. ASSUME NEW ev \in Event, Buffer(ev)
      PROVE  RefusalInv(deltas)'
  <2> DEFINE b == A!AnthropicBuffered(x, ev)
             f == Append(seen, ev)
  <2>1. /\ phase = "buffering" /\ seen' = f /\ phase' = phase
        /\ Buffered(wire, ev).fail = NoFail /\ ~Buffered(wire, ev).done
        /\ wire' = Buffered(wire, ev).wire
    BY <1>3 DEF Buffer, Arrives
  <2>2. /\ wire' = AnthropicTagged(b.wire)
        /\ b.wire.streamToolDeltas = deltas /\ Told(b.wire, f)
    BY <2>1, RefusalBuffers, ZenonT(60)
  <2> HIDE DEF b, f
  <2>3. wire'.state = b.wire
    BY <2>2, AnthropicTagKeeps
  <2> QED
    BY <2>1, <2>2, <2>3 DEF RefusalInv
<1>4. ASSUME NEW ev \in Event, Reject(ev)
      PROVE  RefusalInv(deltas)'
  <2> DEFINE b == A!AnthropicBuffered(x, ev)
             f == Append(seen, ev)
  <2>1. /\ phase = "buffering" /\ seen' = f /\ phase' = "ended" /\ sent' = sent
        /\ verdict'.fail = Buffered(wire, ev).fail
    BY <1>4 DEF Reject, Arrives, End
  <2>2. phase = "buffering" /\ b = A!AnthropicBuffered(wire.state, ev) /\ f = Append(seen, ev)
    BY <2>1
  <2> HIDE DEF b, f, x
  <2>3. Buffered(wire, ev).fail = b.fail
    BY <2>2, RefusalBuffers
  <2>4. ASSUME b.fail = RefusalFallback
        PROVE  A!IsRefusal(f)
    BY <2>2, <2>4, RefusalBuffers, Zenon
  <2> QED
    BY <1>1, <2>1, <2>3, <2>4 DEF RefusalInv
<1>5. ASSUME NEW ev \in Event, BreakAt(ev)
      PROVE  RefusalInv(deltas)'
  <2>1. phase' = "ended" /\ verdict'.fail \in {ResponseTooLarge, SpoolError}
    BY <1>5 DEF BreakAt, End
  <2>2. verdict'.fail # RefusalFallback
    BY <2>1 DEF ResponseTooLarge, SpoolError, RefusalFallback, Terminal, Transient
  <2> QED
    BY <1>2, <2>1, <2>2
<1>6. CASE Break
  <2>1. phase' = "ended" /\ verdict'.fail \in Faults
    BY <1>6 DEF Break, End
  <2>2. verdict'.fail # RefusalFallback
    BY <2>1 DEF Faults, UpstreamIdle, ClientGone, Deadline, TruncatedStream, StreamReadError,
       ResponseTooLarge, SpoolError, RefusalFallback, Terminal, Transient
  <2> QED
    BY <1>2, <2>1, <2>2
<1>7. \A g : Replayed(g) # RefusalFallback /\ NoFail # RefusalFallback
  BY DEF Replayed, NoFail, ReplayFailed, RefusalFallback, Terminal, Transient
<1>8. ASSUME NEW ev \in Event, Answer(ev)
      PROVE  RefusalInv(deltas)'
  <2> DEFINE b == A!AnthropicBuffered(x, ev)
             f == Append(seen, ev)
             t == AnthropicTagged(b.wire)
             y == ReplayBuffered(t, f)
  <2>1. phase = "buffering" /\ phase' = "ended"
    BY <1>8 DEF Answer, End
  <2>2. PICK r \in Replays(ReplayBuffered(Buffered(wire, ev).wire, f)) : verdict'.fail = r.fail
    BY <1>8 DEF Answer, End
  <2>3. Buffered(wire, ev).wire = t
    BY <2>1, RefusalBuffers
  <2> HIDE DEF b, f
  <2>4. y = [wire |-> t, out |-> Acc(f).out, fail |-> Replayed(Acc(f).fail)]
    BY AnthropicOperators
  <2>5. r \in Replays(y)
    BY <2>2, <2>3
  <2> HIDE DEF t, y
  <2>6. y = [wire |-> y.wire, out |-> y.out, fail |-> y.fail] /\ y.fail # RefusalFallback
    BY <1>7, <2>4
  <2>7. r.fail # RefusalFallback
    BY <2>5, <2>6, ReplaysFail
  <2> QED
    BY <1>2, <2>1, <2>2, <2>7
<1>9. CASE Commit
  <2> DEFINE p == ReplayPrefix(wire, seen)
             a == Acc(seen)
  <2>1. phase = "buffering"
    BY <1>9 DEF Commit
  <2>2. PICK r \in Replays(p) :
          IF r.fail = NoFail THEN phase' = "live" /\ UNCHANGED verdict ELSE End(TRUE, r.fail)
    BY <1>9 DEF Commit
  <2>3. \E z, o : \E g \in {NoFail, Replayed(a.fail)} : p = [wire |-> z, out |-> o, fail |-> g]
    BY <1>1, <2>1, AnthropicPrefixes, ZenonT(60)
  <2> HIDE DEF p
  <2>4. p = [wire |-> p.wire, out |-> p.out, fail |-> p.fail] /\ p.fail # RefusalFallback
    BY <1>7, <2>3
  <2>5. r.fail # RefusalFallback
    BY <2>4, ReplaysFail
  <2> QED
    BY <1>2, <2>2, <2>5 DEF End
<1>10. ASSUME NEW ev \in Event, Forward(ev)
       PROVE  RefusalInv(deltas)'
  <2>1. /\ phase = "live"
        /\ \/ phase' = phase
           \/ phase' = "ended" /\ verdict'.fail = Live(wire, ev).fail
    BY <1>10 DEF Forward, End
  <2>2. Live(wire, ev).fail = A!AnthropicLive(x, ev).fail
    <3>1. wire = AnthropicTagged(x)
      BY <1>1, <2>1
    <3> HIDE DEF x
    <3> QED
      BY <3>1, AnthropicOperators
  <2> QED
    BY <1>2, <2>1, <2>2, AnthropicSentinelIsBuffered
<1>11. CASE AnswerAtEOF
  <2>1. wire = AnthropicTagged(x) /\ CompleteOnEOF(wire)
    BY <1>1, <1>11 DEF AnswerAtEOF
  <2> HIDE DEF x
  <2>2. ~CompleteOnEOF(wire)
    BY <2>1, AnthropicOperators
  <2> QED
    BY <2>1, <2>2
<1>12. CASE UNCHANGED vars
  BY <1>12 DEF vars, RefusalInv
<1> QED
  BY <1>3, <1>4, <1>5, <1>6, <1>8, <1>9, <1>10, <1>11, <1>12 DEF Next, Ended

\* An answer from the buffer, or a part of one, is no refusal while refusals are
\* intercepted.
LEMMA AnswerIsNoRefusal ==
    ASSUME AnthropicStream, NEW deltas, AnthropicInv, RefusalInv(deltas), phase = "buffering",
           NEW ev \in Event, NEW w, w = Buffered(wire, ev), w.fail = NoFail, w.done,
           InterceptRefusal, NEW r \in Replays(ReplayBuffered(w.wire, Append(seen, ev)))
    PROVE  <<>> \o r.out = r.out /\ ~A!IsRefusal(r.out)
<1> DEFINE b == A!AnthropicBuffered(wire.state, ev)
           f == Append(seen, ev)
           t == AnthropicTagged(b.wire)
           y == ReplayBuffered(t, f)
<1>1. /\ w.wire = t /\ b.fail = NoFail /\ ev = A!MessageStop /\ ~A!Refused(f)
  BY RefusalBuffers
<1>2. /\ seen \in Seq(A!Events) /\ ev \in A!Events /\ f = Append(seen, ev) /\ NoStop(seen)
      /\ f \in Seq(A!Events)
  BY AppendProperties DEF AnthropicInv, AnthropicStream, RefusalInv, Told
<1>3. r \in Replays(y)
  BY <1>1
<1> HIDE DEF b, f
<1>4. y = [wire |-> t, out |-> Acc(f).out, fail |-> Replayed(Acc(f).fail)]
  BY AnthropicOperators
<1>5. Acc(f).out \in Seq(A!Events) /\ NotAhead(Acc(f).out, Acc(f).out, f)
  BY <1>2, AccKnown, FramesNotAhead DEF KnownAs
<1> HIDE DEF t, y
<1>6. /\ y = [wire |-> y.wire, out |-> y.out, fail |-> y.fail]
      /\ y.out \in Seq(A!Events) /\ NotAhead(y.out, y.out, f)
      /\ y.fail = NoFail \/ y.fail = ReplayFailed
  BY <1>4, <1>5 DEF Replayed
<1>7. /\ <<>> \o r.out = r.out
      /\ r.out \in Seq(A!Events) /\ IsPrefix(A!Others(r.out), A!Others(f))
  BY <1>2, <1>3, <1>6, AnthropicReplays DEF NotAhead
<1>8. f = Append(seen, A!MessageStop) /\ A!MessageStop \in A!Events
  BY <1>1, <1>2
<1>9. A!Refused(f) <=> A!Refused(seen)
  <2>1. A!MessageStop.type = "message_stop" /\ A!StopReason("refusal").type = "message_delta"
    BY EventFields DEF A!MessageStop, A!StopReason, Fields
  <2> QED
    BY <1>2, <1>8, <2>1, RefusedAppended
<1> QED
  BY <1>1, <1>2, <1>7, <1>8, <1>9, RefusalNeedsStop

\* A commit that waited for content shows some to a caller who gets raw deltas.
LEMMA PrefixShowsProgress ==
    ASSUME AnthropicStream, AnthropicInv, RefusalInv(TRUE), phase = "buffering",
           Forwardable(wire), NEW r \in Replays(ReplayPrefix(wire, seen)), r.fail = NoFail
    PROVE  r.out = seen /\ DeltaSeen(seen)
<1> DEFINE x == wire.state
           p == ReplayPrefix(wire, seen)
<1>1. /\ wire = AnthropicTagged(x) /\ x \in AnthropicStates /\ x.norm = A!NewNormalizer
      /\ x.streamToolDeltas = TRUE /\ Told(x, seen)
  BY DEF AnthropicInv, Going, RefusalInv
<1> HIDE DEF x
<1>2. x.sawProgress
  <2>1. wire.proto = "anthropic" /\ wire.state = x
    BY <1>1 DEF AnthropicTagged
  <2>2. Forwardable(wire) = WiresForwardable(wire)
    BY <2>1 DEF AnthropicStream, OnWire
  <2>3. WiresForwardable(wire) = A!AnthropicForwardable(x)
    BY <2>1, Zenon DEF WiresForwardable
  <2> QED
    BY <2>2, <2>3 DEF A!AnthropicForwardable
<1>3. p = [wire |-> wire, out |-> seen, fail |-> NoFail]
  BY <1>1, AnthropicPrefixes
<1>4. r \in Replays(p)
  OBVIOUS
<1> HIDE DEF p
<1>5. r = p
  <2>1. r = p \/ \E n : r = [p EXCEPT !.out = SubSeq(p.out, 1, n), !.fail = ReplayFailed]
    BY <1>4 DEF Replays
  <2>2. \A o : [p EXCEPT !.out = o, !.fail = ReplayFailed].fail = ReplayFailed
    BY <1>3
  <2> QED
    BY <2>1, <2>2, SameAFailures
<1> QED
  BY <1>1, <1>2, <1>3, <1>5 DEF Told

\* Content once shown stays, and the live path only adds frames.
LEMMA ProgressStays ==
    ASSUME AnthropicStream, AnthropicInv, phase = "live", NEW ev \in Event,
           Live(wire, ev).fail = NoFail, DeltaSeen(sent)
    PROVE  DeltaSeen(sent \o Live(wire, ev).out)
<1> DEFINE x == wire.state
           v == A!AnthropicLive(x, ev)
<1>1. /\ wire = AnthropicTagged(x) /\ x \in AnthropicStates /\ ~x.val.sawStop
      /\ sent \in Seq(A!Events) /\ ev \in A!Events
  BY DEF AnthropicInv, Going, AnthropicStream
<1> HIDE DEF x
<1>2. v = A!AnthropicLive(x, ev)
  OBVIOUS
<1> HIDE DEF v
<1>3. Live(wire, ev).out = v.out /\ v.fail = A!NoFail
  BY <1>1, <1>2, AnthropicOperators, SameAFailures
<1>4. /\ x.streamToolDeltas => v.out = <<ev>>
      /\ ~x.streamToolDeltas => /\ A!NormalizerAccept(x.norm, ev).fail = A!NoFail
                                /\ v.out = A!NormalizerAccept(x.norm, ev).out
  BY <1>1, <1>2, <1>3, LiveVerdict
<1>5. v.out \in Seq(A!Events)
  <2>1. CASE x.streamToolDeltas
    <3>1. v.out = <<ev>> /\ ev \in A!Events
      BY <1>1, <1>4, <2>1
    <3> QED
      BY <3>1
  <2>2. CASE ~x.streamToolDeltas
    <3>1. x.norm \in NormStates
      BY <1>1 DEF AnthropicStates
    <3> QED
      BY <1>1, <1>4, <2>2, <3>1, NormalizerTyped
  <2> QED
    BY <2>1, <2>2
<1> DEFINE s == sent \o v.out
<1>6. /\ \A i \in DOMAIN sent : i \in DOMAIN s /\ s[i] = sent[i]
  BY <1>1, <1>5, ConcatProperties, LenProperties
<1> HIDE DEF s
<1>7. DeltaSeen(s)
  BY <1>6 DEF DeltaSeen
<1> QED
  BY <1>3, <1>7 DEF s

=============================================================================
