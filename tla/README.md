# Verification of steady-proxy

steady-proxy stands between an AI coding client (Claude Code, Codex, Gemini
CLI) and an upstream API. It reads a streamed answer *transactionally*: while
nothing of it has been sent to the client, a failed stream can be thrown away
and retried, or replaced by another model's answer. This directory holds TLA+
models of that machinery, TLC configurations that check them on small
instances, and TLAPS proofs about the stream engine, the three wires, the
request loop and the upstream transport for all instances.

Contents: [the system](#the-system), [the hard behaviours](#the-hard-behaviours),
[modules and code](#modules-and-code), [runs](#runs), [fairness](#fairness),
[proofs](#proofs), [what the checks found](#what-the-checks-found),
[limits](#limits-what-is-not-modelled), [plan](#plan), [running](#running).

## The system

Go source at the top of `src/`, about 7,500 lines without tests.

| component | code | state it keeps | operations |
|---|---|---|---|
| request handler: retry and fallback loop | `main.go` `handle` (260-661) | deadline and window of the request, retry counters, model in the body, held refusal or safeguard error, last failure | read the body, issue an attempt, classify its outcome, wait and retry, swap to the next fallback model, answer once |
| stream engine | `sse.go` `captureSSECore`, `process`, `replayCaptured` (336-616) | commit flag, grace flag, keepalive and idle timers, the reader goroutine and its one-slot channel | receive a read, hand events to the wire, buffer, commit, forward, tick, give up |
| response spool | `sse.go` (12-106) | memory buffer, spill file, error, cap | write, replay, reader, discard |
| SSE parser | `sse.go` (108-222) | partial line and event, byte-order-mark and CR state | feed, overflow |
| Anthropic wire | `wire.go` (164-275), `sse.go` (224-267, 618-1105) | stream validator, tool-input validator, replay normalizer with held frames, usage and stop reason | `buffered`, `live`, `replayBuffered`, `replayPrefix`, `completeOnEOF`, `forwardable` |
| Responses wire | `responses.go` (42-1000) | whether output was seen; the coalescer's pending group | the same interface |
| Gemini wire | `gemini.go` | candidates and how many finished | the same interface |
| error classification | `classify.go`, `responses.go`, `gemini_errors.go`, `systemone.go` | none | transport, HTTP and in-band errors to a verdict |
| error surfacing | `classify.go` (390-445), `main.go` (690-713) | none | what the client is shown of a failure |
| transport | `transport.go` | pre-stream timer, cause of the cancellation, byte-idle timer | round trip before a deadline, idle-limited body reads |
| single-shot route | `main.go` `proxyOnce` (832-952) | none across requests | plain reverse proxy for routes without a wire |
| request archive | `requestlog.go` | captured bodies (memory, then file), notes | best-effort recording |
| configuration, header filter, access log, version | `main.go`, `version.go` | start-up constants | pure |
| mock upstream, scripts, CI | `testupstream/`, `scripts/`, `test/` | - | tools |

**How they interact.** `handle` runs in the request's goroutine. It calls the
transport, and with a 2xx event stream the engine (`captureSSE`), which starts
one goroutine that reads the body and sends each result over a channel with
one slot. The engine's `select` loop owns the parser, the wire instance, the
spool and the response writer; wires are called through the `wireModel`
interface and never keep a reference to the engine. The engine answers `handle`
with `wrote` (a head went out) and a `*failure`. On `wrote == false` the
response is untouched and the loop may go on; the spool is handed over only
with the internal sentinel of a complete refusal. The request context
(deadline, or the client leaving) is shared by all of them and may end at any
moment. The archive is written to by all of them and read by none.

**What makes each component correct.**

- *Engine*: its contract with `handle`; the spool is the stream; a commit is
  prompt and justified; nothing is left open or running; success means a
  complete answer.
- *Wires*: an answer that was taken for complete is complete; a commit in the
  middle changes no content; errors the client would misread are not shown;
  what was accepted can be replayed.
- *Parser*: its events do not depend on where the reads fall, nor does the
  limit on their size. *Replay reader*: it cuts the spool into the same frames.
- *Loop*: retries are bounded and fit their deadlines; models are asked in
  order; a failed chain returns the original answer once and invites no new
  round; every request ends; nothing stays held.
- *Classification*: an error that names its kind has one verdict, whether it
  comes as an HTTP reply or as an event of a stream.
- *Surfacing*: a client retries what is offered to it and nothing else.
- *Transport*: a timeout of the proxy is never taken for a client that left, an
  idle verdict means silence, no wait is longer than it should be.
- *Bodies* (single-shot, errors, non-SSE answers): a cut body never passes for
  a whole one.
- *Archive*: it never passes a part of a body for the whole; its attempts,
  references and outcome are those of what happened.

## The hard behaviours

`PROJECT.json` lists the hazards with their lines. In groups: the race of
reads, two timers, the context and the end of the capture; the two orders of
"content arrives" and "the window ends"; failure between the head and the
prefix, or in the middle of a replay; a spool that fails after the wire
accepted the event; validator and normalizer, which judge one stream in two
places; interleaved content blocks; an answer whose only end is the end of the
transport; read boundaries inside a line ending; three retry mechanisms that
share counters and two deadlines; the fallback chain, which can be left in many
ways while the original answer is held; one error classified by two tables;
clients that take the invitation to retry from different places; timers that
fire between a read and the use of its result, or while the proxy writes to a
slow client; and an archive that describes "the last attempt" of a request
whose answer may be an earlier one.

## Modules and code

| module | models |
|---|---|
| `Failures` | the `*failure` verdicts of the engine, reduced to code, `transient`, `delivered` |
| `WireModel` | the `wireModel` interface as constant operators, and what a replay that may break leaves downstream |
| `StreamCapture` | the engine: the reader goroutine, its channel, both timers, the context, `process`, commit, spool, every return |
| `TransactionalStream` | the abstract promise of the engine: no goroutine, channel, timer, window or file |
| `StreamCaptureRefinement` | the refinement mapping from the former to the latter |
| `StreamPacing` | the engine's idle timer in time, with the channel and a slow client |
| `SseParser` | `sseParser`: tokens in, events out, read by read |
| `AnthropicWire`, `ResponsesWire`, `GeminiWire` | the three wires, as operators with the signature of `WireModel` |
| `Wires` | `wireFor`: the three behind one interface |
| `WireChoice` | which wire a stream is on: what a theorem about the streams of one wire assumes |
| `ResponsesReplayReader` | `replayResponsesReader`, which frames a spool again |
| `Classification` | the classifiers of the four routes, for HTTP errors and in-band events |
| `FallbackPolicy` | failures as the loop sees them, `claudeFallbackAction`, `classifyUpstreamHTTPError` |
| `Surfacing` | `surface`, `surfaceFor`, `retrySurfaceFor`, and the rule by which clients retry |
| `RequestLoop` | `handle` for transactional routes, with a clock in ticks |
| `FallbackChain` | the abstract promise of the loop about the models it asks: no clock, budget, window or spool |
| `RequestLoopRefinement` | the refinement mapping from the former to the latter |
| `TransactionalRequest` | the loop with the promised stream of each attempt, all writing to one client |
| `RequestArchive` | `reqRecorder` beside the loop that writes to it |
| `Transport` | `roundTripBefore`, `cancelBody`, `byteIdleReader`, and the three copies that read a body to its end |
| `BodyCapture` | `bodyCapture`, the archive's copy of a body |
| `WireCaptures` | the engine with each of the wires, and what its client then gets |
| `MCAnthropicCapture`, `MCResponsesCapture`, `MCGeminiCapture` | its inputs |
| `WireStreams` | the abstract stream with each of the wires, and what each keeps of an answer |
| `MCWires` | its inputs, for longer streams |
| `MCRequestLoop`, `MCRequestArchive`, `MCTransactionalRequest` | the loop with its errors and candidates: alone, with the archive, with streams |
| `MCTransport` | the exchanges of every consumer |
| `SequenceInduction` | induction over sequences, and what folds and flattened sequences are: lemmas for any operator |
| `WireProofs`, `AnthropicProofs` | the proofs about the streams of the wires |
| `StreamCaptureProofs`, `StreamPacingProofs` | those about the engine, alone and with a wire, and its idle timer |
| `RequestLoopProofs`, `RequestCompositionProofs` | those about the request loop, and about the loop with its archive and its streams |
| `TransportProofs` | those about an exchange and the archive's copies |

**StreamCapture.** `pc = "select"` is the top of the `select` in
`captureSSECore`, `pc = "process"` the inside of a receive. Each case of the
`select` is an action (`ReceiveChunk`, the four outcomes of a keepalive tick,
`IdleTick`, `ContextDone`), each way through `process` for one event is another
(`BufferEvent`, `CompleteBuffered`, `HoldRefusal`, `AbortBuffered`,
`BufferFails`, `LiveEvent`), and what follows the range over the events is
`ParserOverflows`, `CompleteAtEOF`, `ReadFails`, `CommitAfterChunk` or
`NextChunk`. A commit is one step with its head, its prefix and its failed
replay, because the code does not go back to the `select` in between. A read
delivers a list of completed events and what the parser still holds. The two
timers are `armed`, `expired` or `off`; time itself is not represented.
Bytes are: the cap counts events, a write may fail once the buffer is past
`MaxBufferMem` (the spill file), and a replay may break anywhere.

**Wires.** An event is a record of what the wire looks at. Tool input is a
sequence of tokens; `ValidObject` says which sequences are a JSON object.
`AnthropicWire` keeps the stream validator (`val`), the tool-input validator
(`tool`) and the normalizer (`norm`), like the code; `ResponsesWire` keeps
`sawContent` and replays through the coalescer; `GeminiWire` keeps the state of
each candidate and the `finished` counter. Its loop over the candidates of one
chunk is stated by its result (`Rejected`, `Accepted`): the first candidate that
is refused decides, and otherwise each index is at most once in the chunk and the
counter grows by those that finish. What a client makes of a stream
(`InputOf`, `Others`, `Tokens`, `CompleteAnswer`) is defined without the code's
bookkeeping, and the properties compare the two.

**SseParser, ResponsesReplayReader.** A token is a line feed, a carriage return,
the byte-order mark, or a line's content by its start: data, a comment, any
other field. Where a read splits the content makes no difference to the code. `ReadChunk` hands the parser one
read, which it takes in pieces as the code does. `EventsOf` is the reference:
what the format says of the whole byte string, defined without a parser. The
replay module feeds the spool written from those events to `ReadByte`, in reads
of its own, and compares the frames.

**Classification.** A reply or an event carries what the classifiers read of
it: status, type, code, Google's own status, the retry headers, and the one
phrase of the message that is searched for. The tables are functions and the
classifiers operators on them; each applies its rules in the code's order. A
failure has two statuses, as in the code: the one to show, and `origStatus`, that
of the reply (`OfReply`), which stays with a failure whose body broke and is
what `FallbackAction` goes by. `AccountErrorEndsChain` is about just that case.

**Transport.** Time is a clock; timers, their callbacks and the proxy's own
steps take no time but come in any order within a tick, so every race of a
timer with a read, a write or a return is explored. `Tick` waits until nothing
is due. An error is the set of errors `errors.Is` finds in it, which is what
`Joined` (the cause that `cancelBody` adds) and `ClassifyTransport` are about.
The consumer is `bufferNonSSE` ("buffer"), `readHTTPErrorBody` ("error", with
and without the archive's tee) or `proxyOnce` ("once").

**StreamPacing.** Just what decides an idle verdict: when bytes arrive, whether
one read waits in the channel, how long a write takes, and the timer, which is
reset on a receive only. Once the timer and the channel are both ready the
`select` may take either.

**RequestLoop.** `pc` names the places of the loop: `issue`, `inflight`,
`decide` (with `branch` for the kind of failure), `waiting`, `finish` and
`surface`. An attempt is one step to its verdict: the engine's contract, proved
and checked on its own, is what makes that step sound. `request` is fixed by
the environment: the route, whether the body can be rewritten, the client's own
retry count, the window. `sent`, the models of the attempts the upstream saw,
is a history variable. The errors an attempt may end with are what
`Classification` makes of the upstream's replies and events.

**FallbackChain.** Three variables: the models asked, which attempt is the
original, and the answer. `Due` says which model may be asked next; there is no
reason to ask or to stop, because those (budgets, deadlines, classifiers) are
what the loop adds. Under the mapping `asked` is `sent`, `original` the attempt
whose refusal or safeguard error is held, `answer` the kind and attempt of the
response.

**TransactionalRequest.** Here an attempt that gets a stream takes its time: a
`TransactionalStream` on the wire of its route runs while the clock, the client
and the window go on, and its verdict decides which of the loop's steps follows
(`StreamDelivered`, `StreamHeld`, `StreamUnseen`). `frames` is what the current
attempt sent, `earlier` what those before it did, `kept` the stream in the held
spool. `ClientSeesOneAnswer` is what the two contracts add up to.

**RequestArchive.** Each action is a step of the loop together with what the
code records at that place, so a record can not be taken apart from its step.
An attempt's record has its model, its body (given or a reference to an earlier
attempt's), its result, and why the next attempt was made; the outcome is
rewritten as the request goes on.

**Seeded faults.** Operators marked "Seeded fault" are plausible bugs of the
definition below them (a dropped guard, an off-by-one, a missing reset). They
are used by no specification. Each property has one: with it in place of the
definition the property must fail, so no property holds by its shape alone.

## Runs

Each run checks deadlock too, except `ResponsesReplayReader`, whose replay ends.
With two workers on a current machine each takes about a minute or less.

| run | question | why the bounds are enough |
|---|---|---|
| `MCResponsesCapture` | Does the engine keep its contract, release its spool, and show the client only complete turns, with early commit and the keepalive timer switched off (an operator's choice)? | three events of seven kinds in two reads of at most two: a commit before, between and after events of one read, the cap (2) reached and exceeded, the file used from the second event |
| `MCGeminiCapture` | Without early commit: does the capture return, does its goroutine exit, does the engine implement `TransactionalStream`? Is every success complete, although the only end is that of the transport? | one event for each verdict of the wire in each of two reads, two candidates that end apart, an unfinished frame, all four read errors; liveness needs no longer streams, because a read that follows the second adds no new combination of the reader, its channel and the loop |
| `MCAnthropicCapture` | Gated (Workflow) clients and intercepted refusals: when does the engine commit, what stays hidden? | a refusal takes three events; the fourth is an error or a second text |
| `MCWires` | Do the wires keep the content, wherever the commit falls: tool input, joined deltas, candidates? | all Anthropic streams of five events over ten kinds (open, two fragments, an empty one, close, follow-up, a terminal error, end, in any order), with raw and with joined input for the client; those with two interleaved blocks up to eight, the shortest complete one in which both are open and both have input; all Responses streams of four over two items with a group limit of 2; all Gemini streams of four over twelve kinds with two candidates that end together, apart, twice or not at all |
| `MCWires_bare` | (fails, see below) | streams of up to eight events |
| `ResponsesReplayReader` | Are the parser's events and the replay's frames independent of the reads? | all streams of seven tokens in reads of one or two: a line ending, a field and an event split at each place; events of 5 tokens at most, joined up to 3 |
| `StreamPacing` | (fails, see below) | two ticks of silence are an idle period, six are enough for a slow write and a read that waits behind it |
| `MCTransport` | Timeouts and disconnects told apart, cut bodies and whole ones, idle and slow, the archive's copy | four pieces of a body: one in memory, one that spills, one past the cap of an error body, one more; an idle period of 2, a window of 0, 3 or none and a lifetime of 8, so each timer can be the first |
| `MCTransport_long` | (fails, see below) | the archived error bodies of the same |
| `MCRequestLoop_local` | Local retries, deadlines, termination; one error, one verdict | deadline 7, window 4 or none, second 2: a retry may fit both, one or neither; a client with and one without budget; `ErrorsReadAlike` ranges over every type, code, status and phrase that the tables name |
| `MCTransactionalRequest` | Does the client see the answer of one attempt, whatever is retried, swapped or held? | three wires with streams of three events: a refusal, an answer of one, two or three events, each kind of error; a local retry, a window and a candidate fit the deadline of 4 and the window of 3 once |
| `MCRequestArchive` | The shared fast retry, the fallback chain, an account error that ends it, held answers, surfacing, and the archive | deadline 6, window 4 or none, ten kinds of replies, two candidates around the request's own model in the list |

`MCWires` checks the wires on `TransactionalStream`, which has far fewer states
than the engine, so that streams can be longer. `EngineImplementsStream` (below)
is why this says something about the engine: every behaviour of the engine is
one of the abstract stream, for every wire.

What the properties mean is stated above each of them in the modules.

## Fairness

*StreamCapture.* Weak fairness of `Process` and `Select` (the goroutine is
runnable), `ReaderSends`, `ReaderStops` (the reader's select), `DeadlinePasses`
(the request context has a deadline), `CallerClosesBody` (`handle` defers or
calls `Body.Close`), and of `ReadNothing` once the body is closed (a closed body
unblocks `Read`). Strong fairness of `ContextDone`: Go's `select` chooses
uniformly among ready cases, so one that is ready again and again is taken; with
weak fairness alone an upstream that trickles forever starves it in the model.
Nothing is assumed of the upstream, the client, or the timers.

*RequestLoop.* Time passes (`Tick`) and the handler runs. An upload or an
attempt is assumed to end only once the context has: the read deadline
(`SetReadDeadline`) and the context of the upstream request see to it.

The other modules state safety only. In `Transport` and `StreamPacing` "nothing
due is put off" is part of `Tick`, and bounded waiting is an invariant
(`WaitsAreBounded`).

## Proofs

TLAPS checks these for every wire, policy, bound, duration and list of
fallbacks; what is assumed of the constants are the `ASSUME`s of their modules,
which TLC evaluates in the runs, and what the third column names.

| theorem | states | assuming |
|---|---|---|
| `TypeCorrect` | `Spec => []TypeOK` of the engine, with the response cap | |
| `ContractHolds` | `ReturnContract` | |
| `SpoolIsFaithful` | `SpoolFaithful` | |
| `SpoolIsReleased` | `SpoolReleased` | `SentinelIsBuffered` |
| `CommitIsPrompt` | `CommitPrompt` | no initial wire is `Forwardable` |
| `EngineImplementsStream` | `Spec => Stream!Spec` under the mapping of `StreamCaptureRefinement` | |
| `AnthropicSentinelIsBuffered`, `ResponsesSentinelIsBuffered`, `GeminiSentinelIsBuffered` | each wire meets `SentinelIsBuffered` | |
| `NewWiresHaveNoContent` | no wire is `Forwardable` at its start | |
| `BufferedIdleIsSilence` | `BufferedIdleMeansNoBytes` of `StreamPacing` | `Idle \in Nat` |
| `TimeoutsAreTold` | `TimeoutIsNotDisconnect` of `Transport` | |
| `IdleIsTold` | `IdleIsSilence` | |
| `WaitsEnd` | `WaitsAreBounded` | |
| `CutsAreTold` | `CutNeverClean` | |
| `CopiesAreHonest` | `ArchiveIsHonest` | |
| `OriginalIsHeld` | `HeldIsOriginal` of `RequestLoop` | |
| `FailedChainIsFinal` | `ChainNeverRestarts` | |
| `AccountErrorsAreFinal` | `AccountErrorEndsChain` | |
| `HeldSpoolsAreReleased` | `SpoolsReleased` | |
| `LoopImplementsChain` | `Spec => Chain!Spec` under the mapping of `RequestLoopRefinement` | |
| `ModelsInOrder` | `AskedInOrder` of `FallbackChain`, seen through the mapping | |
| `WaitsFit` | `WaitFits` of `RequestLoop` | |
| `RetriesAreBounded` | `RetriesBounded` | |
| `OffersAreHeeded` | `OfferIsHeeded` | |
| `ErrorsAreReadAlike` | `ErrorsReadAlike` | errors that name their kind (`NamedAlike`) |
| `ArchiveTellsTheStory` | `ArchiveExplainsAttempts` of `RequestArchive` | |
| `OutcomeIsTheAnswers` | `OutcomeDescribesAnswer` | |
| `StreamsImplementOutcomes` | `RequestSpec => Spec`: the loop with streams is a loop | |
| `OneAttemptIsSeen` | `OneAttemptAnswers` of `TransactionalRequest`, the first part of `ClientSeesOneAnswer` | |
| `GeminiAnswersAreComplete` | `AnswerIsComplete` of `WireStreams` | `GeminiStream` |
| `GeminiForwardsOnlyValid` | `OnlyValidForwarded` | `GeminiStream` |
| `ResponsesTextIsKept` | `TextIsKept` | `ResponsesStream` |
| `AnthropicSuccessKeepsContent` | `SuccessKeepsContent` | `AnthropicStream` |
| `AnthropicIsNeverAhead` | `NeverAhead` | `AnthropicStream` |
| `AnthropicBufferIsDeliverable` | `BufferIsDeliverable` | `AnthropicStream`, no data-less frame |
| `GeminiSuccessReachesClient` | `GeminiSuccessIsComplete` of `WireCaptures` | `GeminiStream` |
| `ResponsesSuccessReachesClient` | `ResponsesSuccessIsComplete` | `ResponsesStream` |
| `ResponsesLiveIsCurrent` | `LiveIsCurrent` | `ResponsesStream` |
| `ResponsesFinishIsFinal` | `FinishedOnlyIfSuccess` | `ResponsesStream` |
| `AnthropicRefusalIsKept` | `RefusalIntercepted` | `AnthropicStream`, `GatedWires` |
| `GatedClientIsShownProgress` | `GatedClientSeesProgress` | `AnthropicStream`, `GatedWires` |

*The engine.* Hardly any of the properties is inductive. `TypeInv` adds to
the control types what a read may carry, that no head is ever `implicit`, and
that before a return a head is `live` exactly if the loop committed;
`ReturnContract` is inductive only together with it. `SpoolInv` says where the
spool is in each phase and that it equals `seen` while open or held. For the cap
and for the sequences of events, `EventsInv` follows the events along their way
(reader, channel, `pending`, wire): they are together no more than what was
read, so an event that is about to be handled is still allowed by the bound.
`CapInv` bounds the buffer. The refinement needs all four, as
`EngineInv == TypeInv /\ SpoolInv /\ EventsInv /\ CapInv`: a commit, for
example, replays the spool, while the abstract stream replays `seen`.

`StepKinds` groups the many actions by their effect (quiet, a turn of the loop,
a fault, a commit, or one of the event actions), so that each later proof has
few cases. The refinement maps a quiet step to a stutter, a fault to `Break`,
a commit to `Commit`, and each way through `process` to its abstract action.

`SentinelIsBuffered` says that only the buffering path of a wire returns the
refusal sentinel; the other assumption, that a new wire has no content.
Without the first, a live stream could return with the sentinel and no spool to
go with it; without the second, a stream would start with a commit owed.
`WireProofs` and `AnthropicProofs` prove both of the three wires, so the
assumptions are met wherever the engine is used.

*Transport.* `DisconnectInv` follows the causes: which of them an attempt may
have been cancelled with (`CausesKnown`), what a single-shot exchange lacks
(`OnceKnown`), and which errors a read may then return (`ErrorsKnown`); the
classifier is applied to those only. `TimesInv` relates the clock to the start
of the read, to the idle timer and to the window (`IdleKnown`, `WindowKnown`):
while a read runs its period is not over, and a callback that has started has a
whole period behind it. `CopyInv` says that what was written is what was read, and that an end is
clean only if the body's was. `HonestInv` adds the archive's copy: what it shows
is a beginning of what the tee wrote, which is a beginning of what was read; as
long as it is not marked its size and its bytes are all of that, so a marked
copy is the only way to lose some. `StreamPacing` has one invariant, `PacingInv`:
while the stream is buffered, bytes on their way to the loop are as old as the
clock, and without any the timer runs since the last ones.

*Request loop.* `LoopInv` has a part for the types, for where the loop stands
(`PositionInv`: while there is time to go on, the model in the body is the one
due, or the one just asked), for what is held (`HeldInv`), for the spools
(`SpoolInv`) and for the single answer (`ResponseInv`). None of the properties
is inductive without `PositionInv` and `HeldInv`. `StepKinds` groups the actions
(quiet, an attempt, a refusal held, a swap, an answer), and the lemma
`FirstCandidate` shows that `NextFallback` picks a least element, from the
well-foundedness of the naturals. That the list names no model twice is what
`loadClaudeRefusalFallbacks` enforces; without it a model would be asked twice.
`ModelsInOrder` says what the refinement promises in terms of the loop.

*Budgets.* `BudgetInv` adds to `LoopInv` what it takes to bound the retries. `FaultInv`: what
the classifiers return is a failure with a natural delay and a status
(`HTTPTyped`, `InBandTyped`, `TransportTyped`), for which `LoopAssumption` asks
that the replies and the engine's failures are records of their kind.
`SpentInv`: the counter is what local retries and the one fast retry can account
for. `WaitInv`: a wait was begun for a retry that is still allowed, and ends
before the deadline and the window do; that a backoff is a positive number rests
on the number of subsets of a finite set, since the library says nothing of
powers. `RepeatInv` relates the history `sent` to the counter: each repeat of a
model that was sent, or is due, is paid for, and after the chain began only by
the fast retry. `OfferIsHeeded` has an argument of its own: an offer is shown
only for a failure whose surface says so, and no later step replaces an answer.

*Classifiers.* That an error has one verdict is a fact about the tables. The
classifier of HTTP errors has a rule (`RetriedAs`): the status decides, and the
body's verdict counts for a 429 and where the status says nothing. For each route
the classifier of events is then shown to choose a status for which that rule
gives its own verdict (`ResponsesReadAlike`, `GeminiReadAlike`,
`AnthropicReadAlike`). The lemmas hold of every error that names its kind
(`NamedAlike`), whatever else it says, and not of those in `ErrorsOf` only.

*The archive.* A record grows by attempts and is otherwise amended: `Amends`
says that only the end of its last attempt and what it says of the answer
differ, and `AmendsHistory` that this keeps `History` (each attempt but the last
says why the next one was made, each reference leads to the right body, the
retries are counted). `ArchiveInv` ties the record to the loop: `SentInv` its
attempts to the ones sent, `LastInv` the last of them to the model in the body and
the retries so far, `IdentityInv` its identity to the last attempt until a held
answer is taken instead. The steps are grouped by what they do to the record
(`BeginStep`, `FailureStep`, `AgainStep`, the three ways to answer, and those
that leave it alone).

*Requests with streams.* `StreamsImplementOutcomes` says that a request whose
attempts are streams is a request of `RequestLoop`, so every theorem about the
loop holds of it. `OneAttemptIsSeen` needs `StreamInv`: outside of an attempt
and of an answer there is no stream, and while the attempt's stream is unseen
the client has no frames. That an attempt another one follows showed nothing is
then `Next` of the loop and `Unseen`. What an answer is made of
(the other parts of `ClientSeesOneAnswer`) depends on the wires and is checked.

*The Gemini wire.* Its promise holds of the abstract stream, hence of the engine,
for all candidate counts and lengths, under `GeminiStream`: the stream's
operators are those of the wire, its events Gemini events, and the wire is a new
one. `WireKnown` says what a wire that rejected nothing knows: the state of each
index is what the candidates of the events so far say of it, and `finished` is
the cardinality of the indices that finished. The counter is the crux: that it
equals the number of candidates asked for only when every index finished
(`AllFinished`) is a fact about cardinalities, and that a chunk adds exactly its
finishing candidates needs that no index is twice in it (`CandidatesAccepted`).
`GeminiInv` carries that along a stream: until it ends all of it is known and was
let pass, the client has nothing before the commit and everything after, and
what was sent is valid (`SentIsValid`).

*Folds.* What the other two wires do to a stream is defined by folds
(`Normalize`, `Coalesce`) and by flattened sequences (`Others`, `InputOf`,
`Tokens`). The library's induction theorems cannot be used for those, because
they take an operator as a parameter. `SequenceInduction` states induction with
a set in its place: a set of sequences that has the empty one and every `Append`
to one of its own is all of `Seq(S)` (`SequencesByAppend`). From it follow the
equations of the operators, which `FoldLeft` and `FlattenSeq` give only through
a `CHOOSE`: `Fold(b, Append(ss, e)) = Op(Fold(b, ss), e)`, and that what is read
(`Parts`) of two sequences in a row is read of the one, then of the other. The
operators are constants of the module; the other modules instantiate it and cite
its lemmas.

*The Responses wire.* `CoalescerKeeps` says what the coalescer promises event by
event: the tokens of what it let out and of the group it holds are the tokens of
what it took in. `ResponsesInv` carries that along a stream, by cases of the
wire's verdicts: the client has nothing before the commit, all the tokens seen
while the stream is live, and a prefix of them once it ended without a success. It also keeps the kinds of the frames sent, which the
properties of the engine need: a transient error is never among them, and a
frame that ends a turn is only the last.

*The Anthropic wire.* The normalizer's output differs from its input frame by
frame, and agrees with it by two readings: the input of each block, and all the
rest. `KnownAs` says of a normalizer after a stream: the rest it let out and the
rest it holds are those of the stream (with nothing assumed of the upstream);
and, if the upstream keeps to `BlockProtocol`, the input it let out, holds and
collects is, block by block, the input of the stream. `NormalizerKeepsInput` is
the hard case, a block that closes with fragments collected, held or empty; that
fragments are pending for an open block only (`InputsKnown`) is what makes the
start of a block harmless. The validator keeps blocks of its own, and
`Tracks` says that they are the normalizer's, and that a truncated block of the
one is a held block of the other, as long as no data-less frame comes between;
it makes the validators' verdict a promise that the replay will not fail
(`AnthropicBufferIsDeliverable`). Its hypothesis `A!Bare \notin Event` is the
one `MCWires_bare` shows to be needed. `AnthropicInv` carries this along the
stream: a live client has what the wire's normalizer let out (`Current`), a
stream that ended well left nothing behind in it (`Whole`, `Settled`), and one
that did not leaves the client with a part of the stream, or with a part and the
terminal error (`NotAhead`, `BeforeError`). The last exception is a finding of
the proof about the model: a terminal error is forwarded at once, ahead of the
frames that wait for a verdict on a tool's input. `NeverAhead` was stated
without it first, and held because the streams of `MCWires` had no such error;
they have now.

*The engine with a wire.* What a client gets of the engine is mostly a matter of
the wire. `StreamCaptureProofs` instantiates `WireProofs` and `AnthropicProofs`
under the mapping of the refinement (`Phase` for `phase`, `out` for `sent`,
`result` for `verdict`) and cites their lemmas there: each step of the engine is
a step of the abstract stream or a stutter (`EngineImplementsStream`), so the
wire's invariant is kept by the engine's steps. What only the engine knows, that
a Gemini stream is answered after a clean end of file with no partial frame, is
`EndedCleanly`.

*Refusals and content.* `RefusalInv` says what an Anthropic wire knows of the
stream while it buffers (`Told`): its `stop` is `"refusal"` just when the last
stop reason of the stream is, `sawProgress` means that a content delta came, and
the terminal event has not. So the sentinel is returned for a complete refusal
only (`ToldBuffered`), and a stream that ends otherwise is none. That the answer
replayed from the buffer is none either needs `AnthropicInv` too: the normalizer
changes only the deltas of tool inputs, and neither a stop reason nor the terminal
event is one (`OthersTell`, `RefusalNeedsStop`; a replay may also fail half-way,
and then what it wrote is not a refusal for want of its end). `Shown` is the part
about the engine's head: a commit for a gated caller waits for `Forwardable`, and
the replayed prefix is then the buffer itself, since such a wire does not hold a
tool's deltas back. That it is told so is `GatedWires`, the line of
`captureSSECore` that sets `streamToolDeltas` from `progressGated`; without it a
gated commit could show nothing but held deltas.

*Only model-checked*:

- `NoGarbledTool`, which speaks of positions in the frames sent (the fragments
  between a block's start and its stop, the first frame after it that is not a
  ping): the readings of the Anthropic proofs forget positions;
- the parser (`ChunkingIsInvisible`) and the replay reader
  (`ReplayKeepsFrames`): their references are defined by the positions of line
  ends in the whole byte string, so a proof would be one about the format;
- the parts of `ClientSeesOneAnswer` that say what the answer is made of;
- all liveness, which is out of the prover's reach, like `ENABLED`.

## What the checks found

`MCWires_bare`: `DoneIsDeliverable` fails. `wire.go:30-31` says of `buffered`
that with `done == true` "the buffered stream is now a complete, deliverable
response". `toolJSONValidator.accept` skips an event without data (`sse.go:671`)
before it looks at a truncated tool input, while
`toolJSONReplayNormalizer.accept` judges any event that follows such a block.
Start, a tool block with an unfinished input, its stop, a frame of only `id:` or
`retry:`, `message_delta` with `max_tokens`, `message_stop`: the validators
accept the stream, and the replay fails after the head went out, so the client
gets an aborted 200 where a retry was possible. With the frame left out of the
inputs (`MCWires`) `BufferIsDeliverable` holds.

`StreamPacing`: `IdleMeansNoBytes` fails. `docs/TROUBLESHOOTING.md:108` says of
`upstream_idle`: "No bytes received from gateway within
`PROXY_UPSTREAM_BYTE_IDLE_MS`." The engine resets the timer when its loop
receives bytes (`sse.go:434`), and it runs on while the loop writes to the
client. After a write longer than the period the `select` finds both the timer
and the bytes that came meanwhile, and may take the timer. `byteIdleReader`
takes care of exactly that on the other routes. `BufferedIdleIsSilence` proves
that it takes a live stream: while the stream is buffered nothing is written.

`MCTransport_long`: `LongBodyIsClassified` fails. `main.go:750` says that an
error body over the cap "is classified from its prefix". Without an archive it
is: the read stops there. With one the body is read to its end (`main.go:785`),
and if that breaks, stalls or outlives the window, the error is classified as a
transport error although its prefix was read: a final error becomes a retryable
one because an archive, called best-effort in `docs/OPERATIONS.md:99`, is on.

Two things are worth knowing although no text contradicts them. The stream
validator counts open blocks without their indices, and the live path rejects no
order at all; re-opening an open tool block drops its earlier fragments. The
properties of content therefore assume `BlockProtocol`, which an upstream is
expected to keep. And an upload that breaks is answered 502 without `surfaceFor`
(`main.go:295`), so `OfferIsHeeded` speaks of failed attempts and not of
rejected uploads.

## Limits: what is not modelled

- *Bytes.* The parser and the replay reader work on tokens, the wires on events,
  the copies on pieces. The buffer/file split of a single write, the JSON
  decoders (with Gemini's exact 32-bit numbers and the strict decoding that
  decides what the Responses coalescer may join) and the usage statistics are
  left out.
- *Time* in `StreamCapture` is "a timer has expired"; `StreamPacing` and
  `Transport` have the clocks. That a large `Retry-After` cannot overflow
  (`main.go:1174`) is a guard on one line, beyond the model's small numbers.
- *The Anthropic wire* has one field for an event's name and the type in its data:
  an upstream that contradicts itself is left out. So is the cap on the tool
  input that its validator and normalizer retain (`sse.go:713`, `976`, `1010`,
  `1045`). While the stream is buffered, the spool meets the same cap no later
  with the same verdict (`BufferFails`); on the live path the engine can have
  that verdict, `ResponseTooLarge`, from an overlong event (`ParserOverflows`),
  with any wire.
- *A read* of `StreamCapture` brings bytes, perhaps with the end of the stream, or
  an error. Go's readers may return bytes with any error, which the loop handles
  like the one after the other.
- *The attempt* of `RequestLoop` is one step. `TransactionalRequest` composes
  the loop with the abstract stream, for Claude models (whose refusals are
  intercepted), Responses and Gemini; the transport is not part of that state
  space, and its verdicts are any that `Transport` can give.
- *Classification* starts from a decoded error: the delay that Google's
  `RetryInfo` or a message names, and the types that are rewritten for Gemini
  clients, are left out. `ErrorsReadAlike` speaks of errors that name their kind
  (`NamedAlike`): the Anthropic HTTP classifier gives way to a phrase of the
  message that the one for events does not look for, and two of Google's names
  stand for statuses that are retried whatever they say.
- *Surfacing* leaves out the envelopes and the headers of a verbatim reply.
- *The archive*: redaction, the JSON writer and the atomic rename of its file.
- *Not modelled*: configuration, header filter, log lines, version (pure, run
  once or formatting only); mock upstream, scripts and live tests (not part of
  the program).

## Plan

Done, in this order: `StreamCapture` with its contract; `TransactionalStream`
and the refinement; the three wires; the proofs about the engine;
`FallbackPolicy`, `Surfacing`, `RequestLoop`; `Classification`; the parser and
the replay reader; `StreamPacing`; `Transport` and `BodyCapture`;
`RequestArchive`; `FallbackChain` and the loop's refinement of it;
`TransactionalRequest`; the proofs about the transport, the pacing and the loop;
those about the budgets, the archive, the archive's copies, the Gemini wire and
the requests with streams; induction over sequences; the content of the Responses
and Anthropic streams, and the engine with a wire; refusals and the content shown
to a Workflow agent; the two classifiers of a route.

Left: *the parser*. That the events do not depend on the reads follows if a parser
fed two reads is one fed both at once, which `SequenceInduction` can carry.

## Running

    tlasany M.tla
    tlc -workers 2 -config X.cfg M
    tlapm StreamCaptureProofs.tla
    tlapm WireProofs.tla
    tlapm StreamPacingProofs.tla
    tlapm TransportProofs.tla
    tlapm RequestLoopProofs.tla
    tlapm RequestCompositionProofs.tla
    tlapm SequenceInduction.tla
    tlapm AnthropicProofs.tla

`PROJECT.json` names the runs with their modules, the source lines of every
definition, the seeded faults, hazards and theorems.
