----------------------------- MODULE FlushTimer -----------------------------
(***************************************************************************)
(* When coalesceResponseBody (packages/exit/src/response-sealer.ts) lets a  *)
(* partial payload go: the loop of the generator with its clock, leaving    *)
(* to ResponseSealer what the payloads hold and how the stream ends.        *)
(*                                                                         *)
(* waitForRead sets a timer of responseFlushMs for each wait that starts    *)
(* with something queued; a read that settles first clears it.  Provider    *)
(* chunks have at least one byte, as chunks of an HTTP body have.  Timers   *)
(* are on time: the clock does not pass one that is due.                    *)
(*                                                                         *)
(* Some names carry a prefix, so that ExitServerProofs can extend this      *)
(* module together with ExitServer.                                         *)
(***************************************************************************)
EXTENDS Integers

CONSTANTS
  responseFlushMs,
  maxFramePayloadBytes,
  MaxChunkBytes,  \* bound: bytes of one provider chunk
  MaxTime         \* bound: the clock stops at this time

ASSUME FlushAssumption == responseFlushMs \in Nat \ {0}
ASSUME PayloadAssumption == maxFramePayloadBytes \in Nat \ {0}
ASSUME BoundsAssumption == MaxChunkBytes \in Nat \ {0} /\ MaxTime \in Nat

VARIABLES
  clock,
  generator,     \* "waiting" for a read, or "suspended" at a yield
  queued,        \* bytes in the ByteQueue
  arrived,       \* bytes of a read that settled while suspended, 0 if none
  timer,         \* when the wait times out, or NoTimer
  waitingSince,  \* since when somebody waits for the oldest queued byte
  lastChunk      \* when the wait last began or was fed a chunk

timerVars == <<clock, generator, queued, arrived, timer, waitingSince, lastChunk>>

NoTimer == -1

TimerInit ==
  /\ clock = 0
  /\ generator = "waiting"
  /\ queued = 0 /\ arrived = 0
  /\ timer = NoTimer
  /\ waitingSince = 0 /\ lastChunk = 0

Due == timer # NoTimer /\ clock >= timer

Tick ==
  /\ ~Due
  /\ clock < MaxTime
  /\ clock' = clock + 1
  /\ UNCHANGED <<generator, queued, arrived, timer, waitingSince, lastChunk>>

\* yield of what fits into a frame.
Yield(bytes) ==
  /\ generator' = "suspended"
  /\ queued' = IF bytes > maxFramePayloadBytes THEN bytes - maxFramePayloadBytes ELSE 0
  /\ timer' = NoTimer
  /\ UNCHANGED <<waitingSince, lastChunk>>

\* Faulty: an interval that is one millisecond too long.
TimerOff(bytes) == IF bytes > 0 THEN clock + responseFlushMs + 1 ELSE NoTimer

\* The timer of a wait that starts now.
TimerFor(bytes) == IF bytes > 0 THEN clock + responseFlushMs ELSE NoTimer

\* waitForRead, with these bytes queued.
Wait(bytes, since) ==
  /\ generator' = "waiting"
  /\ queued' = bytes
  /\ timer' = TimerFor(bytes)
  /\ waitingSince' = since
  /\ lastChunk' = clock

\* A chunk is pushed: a full payload goes at once, else the wait starts again.
Push(bytes, since) ==
  IF bytes >= maxFramePayloadBytes THEN Yield(bytes) ELSE Wait(bytes, since)

ReadSettles ==
  /\ generator = "waiting"
  /\ \E n \in 1..MaxChunkBytes :
       Push(queued + n, IF queued = 0 THEN clock ELSE waitingSince)
  /\ UNCHANGED <<clock, arrived>>

\* Nobody asks for a payload, but the pending read goes on.
ReadSettlesUnasked ==
  /\ generator = "suspended"
  /\ arrived = 0
  /\ arrived' \in 1..MaxChunkBytes
  /\ UNCHANGED <<clock, generator, queued, timer, waitingSince, lastChunk>>

\* next(): what is due is yielded, a read that has settled is taken, or it waits.
Resume ==
  /\ generator = "suspended"
  /\ \/ /\ queued >= maxFramePayloadBytes
        /\ Yield(queued)
        /\ UNCHANGED arrived
     \/ /\ queued < maxFramePayloadBytes
        /\ arrived > 0
        /\ Push(queued + arrived, clock)
        /\ arrived' = 0
     \/ /\ queued < maxFramePayloadBytes
        /\ arrived = 0
        /\ Wait(queued, clock)
        /\ UNCHANGED arrived
  /\ UNCHANGED clock

\* The timer fires: the partial payload goes, the pending read stays.
Timeout ==
  /\ generator = "waiting" /\ Due
  /\ Yield(queued)
  /\ UNCHANGED <<clock, arrived>>

TimerNext == Tick \/ ReadSettles \/ ReadSettlesUnasked \/ Resume \/ Timeout

TimerSpec == TimerInit /\ [][TimerNext]_timerVars
-----------------------------------------------------------------------------
TimerTypeOK ==
  /\ clock \in 0..MaxTime
  /\ generator \in {"waiting", "suspended"}
  /\ queued \in Nat /\ arrived \in 0..MaxChunkBytes
  /\ timer \in {NoTimer} \cup 0..(MaxTime + responseFlushMs)
  /\ waitingSince \in 0..MaxTime /\ lastChunk \in 0..MaxTime

Asked == generator = "waiting" /\ queued > 0

(***************************************************************************)
(* The timer starts again with every chunk, so a byte can wait longer than  *)
(* one interval; but every chunk that restarts it brings a byte, and a full *)
(* payload goes at once: a reader who waits for a byte waits one interval   *)
(* per queued byte at most, and one interval once the provider is quiet.    *)
(***************************************************************************)
DelayBoundedByPayload ==
  Asked =>
    /\ queued < maxFramePayloadBytes
    /\ clock - waitingSince <= queued * responseFlushMs
    /\ clock - lastChunk <= responseFlushMs

(***************************************************************************)
(* What the comment on coalesceResponseBody says: "A partial payload is     *)
(* emitted after the flush interval so a slow token stream does not stall." *)
(***************************************************************************)
PartialPayloadAfterInterval == Asked => clock - waitingSince <= responseFlushMs
=============================================================================
