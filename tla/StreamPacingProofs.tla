-------------------------- MODULE StreamPacingProofs --------------------------
(***************************************************************************)
(* What remains true of the idle verdict of a stream: while nothing is     *)
(* committed the loop takes bytes as they come, so an idle verdict means   *)
(* that none came for the whole period, however long the period is.        *)
(***************************************************************************)
EXTENDS StreamPacing, TLAPS

Types ==
    now \in Nat /\ idleAt \in Nat /\ lastBytes \in Nat /\ longestGap \in Nat

\* While the stream is buffered the loop waits or has returned.  Bytes on their
\* way to it are as old as the clock; without any, the timer runs since the
\* last ones; and the gap that the timer measures is part of the history.
Buffered ==
    /\ loop \in {"select", "returned"}
    /\ longestGap + lastBytes >= now
    /\ loop = "select" =>
         /\ queued \/ ~reading => lastBytes = now
         /\ ~queued /\ reading => idleAt = lastBytes + Idle
         /\ longestGap + idleAt >= now + Idle
    /\ loop = "returned" => longestGap >= Idle

PacingInv == Types /\ (~committed => Buffered)

\* Every step keeps the timer and the history in step.
LEMMA PacingStep ==
  ASSUME Idle \in Nat, PacingInv, [Next]_vars
  PROVE  PacingInv'
<1> USE DEF PacingInv, Types, Buffered
<1>1. CASE Tick
  BY <1>1 DEF Tick, Larger
<1>2. CASE BytesArrive
  <2>1. queued' \/ ~reading'
    BY <1>2 DEF BytesArrive
  <2>2. lastBytes' = now /\ UNCHANGED <<now, loop, committed, idleAt, longestGap>>
    BY <1>2 DEF BytesArrive
  <2> QED
    BY <2>1, <2>2
<1>3. CASE ReaderSends
  BY <1>3 DEF ReaderSends
<1>4. CASE ReceiveBytes
  <2>1. queued /\ ~queued' /\ loop = "select"
    BY <1>4 DEF ReceiveBytes
  <2>2. idleAt' = now + Idle /\ UNCHANGED <<now, reading, committed, lastBytes, longestGap>>
    BY <1>4 DEF ReceiveBytes
  <2>3. ~committed => loop' = "select"
    BY <1>4 DEF ReceiveBytes
  <2> QED
    BY <2>1, <2>2, <2>3
<1>5. CASE Commit
  BY <1>5 DEF Commit
<1>6. CASE WriteEnds
  BY <1>6 DEF WriteEnds
<1>7. CASE IdleTick
  BY <1>7 DEF IdleTick
<1>8. CASE UNCHANGED vars
  BY <1>8 DEF vars
<1> QED
  BY <1>1, <1>2, <1>3, <1>4, <1>5, <1>6, <1>7, <1>8 DEF Next

\* A buffered stream is only given up as idle when the upstream was (sse.go,
\* the idleTimer case, which the handler then retries).
THEOREM BufferedIdleIsSilence ==
  ASSUME Idle \in Nat
  PROVE  Spec => []BufferedIdleMeansNoBytes
<1>1. Init => PacingInv
  <2> SUFFICES ASSUME Init
               PROVE  PacingInv
    OBVIOUS
  <2>1. now = 0 /\ loop = "select" /\ idleAt = Idle /\ lastBytes = 0 /\ longestGap = 0
    BY DEF Init
  <2>2. ~queued
    BY DEF Init
  <2> QED
    BY <2>1, <2>2 DEF PacingInv, Types, Buffered
<1>2. PacingInv /\ [Next]_vars => PacingInv'
  BY PacingStep
<1>3. PacingInv => BufferedIdleMeansNoBytes
  BY DEF PacingInv, Buffered, BufferedIdleMeansNoBytes, IdleMeansNoBytes
<1> QED
  BY <1>1, <1>2, <1>3, PTL DEF Spec

=============================================================================
