--------------------------- MODULE ResponseSealer ---------------------------
(***************************************************************************)
(* sealProviderResponse (packages/exit/src/response-sealer.ts): the Exit    *)
(* turns a provider's body into sealed frames.  Three activities meet here: *)
(* the stream's pull, which seals a frame and enqueues it; the generator    *)
(* coalesceResponseBody, which pull asks for the next payload; and the      *)
(* consumer, who reads frames or cancels at any time.                       *)
(*                                                                         *)
(* The provider's body is the bytes 1, 2, 3, ... in order.  A frame is      *)
(* its sequence number, its bytes and its final flag: sealing keeps them,   *)
(* takes an await and may fail.  The stream has the default high-water      *)
(* mark: pull runs whenever no frame is waiting to be read.                 *)
(***************************************************************************)
EXTENDS Integers, Sequences, FiniteSets

CONSTANTS
  maxFramePayloadBytes,  \* responsePaddingBytes less the length prefix
  maxResponseBytes,      \* the policy's limit on the plaintext
  MaxBodyBytes,          \* bound: bytes a provider's body has at most
  MaxChunkBytes          \* bound: bytes of one provider chunk

ASSUME PayloadAssumption == maxFramePayloadBytes \in Nat \ {0}
ASSUME LimitAssumption == maxResponseBytes \in Nat
ASSUME BoundsAssumption == MaxBodyBytes \in Nat /\ MaxChunkBytes \in Nat

VARIABLES
  provider,     \* the body: "absent", "open", "ended", "failed" or "cancelled"
  sent,         \* how many bytes the provider has sent
  locked,       \* whether the generator's reader holds the body
  readsOpen,    \* reads started on the reader and not yet settled
  arrived,      \* how the pending read settled, and with how many bytes
  generator,    \* where coalesceResponseBody is
  queue,        \* its ByteQueue
  totalBytes,   \* bytes it has read, for the limit
  pull,         \* where the stream's pull is
  payload,      \* what pull is sealing, and whether it is the last
  sequence,     \* sequence number of the next data frame
  sentHead, finished,
  returning,    \* whether cancel has called the generator's return()
  stream,       \* the stream: "readable", "closing", "errored" or "cancelled"
  waiting,      \* frames enqueued and not read
  delivered     \* frames the consumer has read

providerVars == <<provider, sent>>
readerVars == <<locked, readsOpen, arrived>>
generatorVars == <<generator, queue, totalBytes>>
pullVars == <<pull, payload, sequence, sentHead, finished>>
streamVars == <<returning, stream, waiting, delivered>>
vars == <<providerVars, readerVars, generatorVars, pullVars, streamVars>>

Nothing == [how |-> "none", bytes |-> 0]
NoPayload == [bytes |-> <<>>, final |-> FALSE]
Bytes(first, last) == [i \in 1..(last - first + 1) |-> first + i - 1]
Head0 == [sequence |-> 0, bytes |-> <<>>, final |-> FALSE]

Init ==
  /\ provider \in {"absent", "open"}
  /\ sent = 0
  /\ locked = FALSE /\ readsOpen = 0 /\ arrived = Nothing
  /\ generator = "unstarted" /\ queue = <<>> /\ totalBytes = 0
  /\ pull = "idle" /\ payload = NoPayload /\ sequence = 1
  /\ sentHead = FALSE /\ finished = FALSE
  /\ returning = FALSE
  /\ stream = "readable" /\ waiting = <<>> /\ delivered = <<>>
-----------------------------------------------------------------------------
(* The provider answers the read in flight.                                *)

ReadInFlight == readsOpen > 0 /\ arrived = Nothing

ProviderSends ==
  /\ provider = "open" /\ ReadInFlight
  /\ \E n \in 0..MaxChunkBytes :
       /\ sent + n <= MaxBodyBytes
       /\ sent' = sent + n
       /\ arrived' = [how |-> "value", bytes |-> n]
  /\ UNCHANGED <<provider, locked, readsOpen, generatorVars, pullVars, streamVars>>

ProviderStops ==
  /\ provider = "open" /\ ReadInFlight
  /\ \/ provider' = "ended" /\ arrived' = [how |-> "done", bytes |-> 0]
     \/ provider' = "failed" /\ arrived' = [how |-> "error", bytes |-> 0]
  /\ UNCHANGED <<sent, locked, readsOpen, generatorVars, pullVars, streamVars>>
-----------------------------------------------------------------------------
(* The generator, from one suspension to the next.                         *)

Smaller(a, b) == IF a < b THEN a ELSE b
Taken(q) == SubSeq(q, 1, Smaller(maxFramePayloadBytes, Len(q)))

\* Faulty: drops what does not fit into the frame.
LeftNothing(q) == <<>>

Left(q) == SubSeq(q, Smaller(maxFramePayloadBytes, Len(q)) + 1, Len(q))

\* yield, which settles the pull's next() with a payload.
Yield(q, place) ==
  /\ generator' = place
  /\ queue' = Left(q)
  /\ pull' = "sealing"
  /\ payload' = [bytes |-> Taken(q), final |-> FALSE]

\* Back at the top of the loop: a full payload is due, or a read is awaited.
Loop(q) ==
  IF Len(q) >= maxFramePayloadBytes
    THEN Yield(q, "yielded")
    ELSE /\ generator' = "reading"
         /\ queue' = q
         /\ UNCHANGED <<pull, payload>>

\* The generator ran to its end: next() settles with done.
Exhausted ==
  /\ generator' = "finished"
  /\ pull' = "sealing"
  /\ payload' = [bytes |-> <<>>, final |-> TRUE]

\* After the last read, what is left in the queue, then the end.
Drain(q) ==
  IF q # <<>>
    THEN Yield(q, "draining") /\ UNCHANGED locked
    ELSE Exhausted /\ locked' = FALSE /\ UNCHANGED queue

\* next(), from a pull that finds nothing waiting.
ResumeGenerator ==
  \/ /\ generator = "unstarted" /\ provider = "absent"
     /\ Exhausted
     /\ UNCHANGED <<readerVars, queue>>
  \/ /\ generator = "unstarted" /\ provider # "absent"
     /\ locked' = TRUE /\ readsOpen' = 1 /\ arrived' = Nothing
     /\ generator' = "reading"
     /\ pull' = "awaiting"
     /\ UNCHANGED <<queue, payload>>
  \/ /\ generator = "yielded"
     /\ IF Len(queue) >= maxFramePayloadBytes
          THEN Yield(queue, "yielded")
          ELSE /\ generator' = "reading"
               /\ pull' = "awaiting"
               /\ UNCHANGED <<queue, payload>>
     /\ UNCHANGED readerVars
  \/ /\ generator = "draining"
     /\ Drain(queue)
     /\ UNCHANGED <<readsOpen, arrived>>

\* Faulty: starts another read, though the last one is still in flight.
FlushAndRead ==
  /\ generator = "reading" /\ queue # <<>>
  /\ Yield(queue, "yielded")
  /\ readsOpen' = readsOpen + 1
  /\ UNCHANGED <<providerVars, locked, arrived, totalBytes, sequence, sentHead,
                 finished, streamVars>>

\* Faulty: never flushes a payload that is not full.
FlushFullOnly ==
  /\ generator = "reading" /\ Len(queue) >= maxFramePayloadBytes
  /\ Yield(queue, "yielded")
  /\ UNCHANGED <<providerVars, readerVars, totalBytes, sequence, sentHead,
                 finished, streamVars>>

\* The flush timer, which runs while a partial payload waits for a read.
Flush ==
  /\ generator = "reading" /\ queue # <<>>
  /\ Yield(queue, "yielded")
  /\ UNCHANGED <<providerVars, readerVars, totalBytes, sequence, sentHead,
                 finished, streamVars>>

ExceedsLimit(n) == totalBytes + n > maxResponseBytes

\* A chunk: over the limit the source is stopped first, else it is queued.
TakeChunk(n) ==
  /\ totalBytes' = totalBytes + n
  /\ IF ExceedsLimit(n)
       THEN /\ generator' = "rejecting"
            /\ provider' = IF provider = "open" THEN "cancelled" ELSE provider
            /\ arrived' = Nothing /\ readsOpen' = 0
            /\ UNCHANGED <<queue, pull, payload>>
       ELSE /\ Loop(queue \o Bytes(totalBytes + 1, totalBytes + n))
            /\ arrived' = IF provider = "open" THEN Nothing
                          ELSE [how |-> "done", bytes |-> 0]
            /\ UNCHANGED <<provider, readsOpen>>
  /\ UNCHANGED locked

\* Faulty: a provider that fails is taken for one that ends.
EndOnError ==
  /\ generator = "reading"
  /\ arrived.how \in {"done", "error"}
  /\ arrived' = Nothing /\ readsOpen' = 0
  /\ Drain(queue)
  /\ UNCHANGED <<providerVars, totalBytes, sequence, sentHead, finished, streamVars>>

ReadEnds ==
  /\ generator = "reading"
  /\ arrived.how = "done"
  /\ arrived' = Nothing /\ readsOpen' = 0
  /\ Drain(queue)
  /\ UNCHANGED <<providerVars, totalBytes, sequence, sentHead, finished, streamVars>>

ReadArrives ==
  /\ generator = "reading"
  /\ arrived.how = "value"
  /\ TakeChunk(arrived.bytes)
  /\ UNCHANGED <<sent, sequence, sentHead, finished, streamVars>>

ReadFails ==
  /\ generator = "reading"
  /\ arrived.how = "error"
  /\ arrived' = Nothing /\ readsOpen' = 0
  /\ generator' = "rejecting"
  /\ UNCHANGED <<providerVars, locked, queue, totalBytes, pullVars, streamVars>>

\* The finally block after an error: the lock goes, and next() rejects.
RejectNext ==
  /\ generator = "rejecting"
  /\ generator' = "finished" /\ locked' = FALSE
  /\ pull' = "idle"
  /\ stream' = IF stream = "readable" THEN "errored" ELSE stream
  /\ UNCHANGED <<providerVars, readsOpen, arrived, queue, totalBytes, payload, sequence,
                 sentHead, finished, returning, waiting, delivered>>

(***************************************************************************)
(* return(), once the generator is suspended: its finally block cancels a   *)
(* source that has not ended and unlocks it.  A generator that never        *)
(* started has no lock, and cancel stops the untouched body itself.         *)
(***************************************************************************)
Return ==
  /\ returning
  /\ generator \in {"unstarted", "yielded", "draining", "finished"}
  /\ returning' = FALSE
  /\ generator' = "finished" /\ locked' = FALSE
  /\ provider' = IF provider = "open" THEN "cancelled" ELSE provider
  /\ readsOpen' = 0 /\ arrived' = Nothing
  /\ UNCHANGED <<sent, queue, totalBytes, pullVars, stream, waiting, delivered>>
-----------------------------------------------------------------------------
(* pull: the head first, then one payload per call.                        *)

CanPull == pull = "idle" /\ stream = "readable" /\ waiting = <<>>

PullHead ==
  /\ CanPull /\ ~sentHead
  /\ pull' = "sealing head"
  /\ UNCHANGED <<providerVars, readerVars, generatorVars, payload, sequence, sentHead,
                 finished, streamVars>>

\* enqueue throws on a cancelled stream, and the error goes nowhere.
HeadSealed ==
  /\ pull = "sealing head"
  /\ pull' = "idle" /\ sentHead' = TRUE
  /\ waiting' = IF stream = "readable" THEN <<Head0>> ELSE waiting
  /\ UNCHANGED <<providerVars, readerVars, generatorVars, payload, sequence, finished,
                 returning, stream, delivered>>

PullNext ==
  /\ CanPull /\ sentHead
  /\ ResumeGenerator
  /\ UNCHANGED <<providerVars, totalBytes, sequence, sentHead, finished, streamVars>>

Sealed == [sequence |-> sequence, bytes |-> payload.bytes, final |-> payload.final]

DataSealed ==
  /\ pull = "sealing"
  /\ pull' = "idle" /\ payload' = NoPayload
  /\ IF stream = "readable"
       THEN /\ waiting' = <<Sealed>>
            /\ sequence' = sequence + 1
            /\ finished' = payload.final
            /\ stream' = IF payload.final THEN "closing" ELSE stream
       ELSE UNCHANGED <<waiting, sequence, finished, stream>>
  /\ UNCHANGED <<providerVars, readerVars, generatorVars, sentHead, returning, delivered>>

(***************************************************************************)
(* sealFrame, or a log call beside it, throws.  The stream errors, and      *)
(* nobody resumes the generator or touches the body again: a cancel that    *)
(* comes later finds an errored stream, and does not call the source.       *)
(***************************************************************************)
SealFails ==
  /\ pull \in {"sealing head", "sealing"}
  /\ pull' = "failed" /\ payload' = NoPayload
  /\ stream' = IF stream = "readable" THEN "errored" ELSE stream
  /\ UNCHANGED <<providerVars, readerVars, generatorVars, sequence, sentHead, finished,
                 returning, waiting, delivered>>
-----------------------------------------------------------------------------
(* The consumer of the frames.                                             *)

ConsumerReads ==
  /\ waiting # <<>>
  /\ delivered' = delivered \o waiting
  /\ waiting' = <<>>
  /\ UNCHANGED <<providerVars, readerVars, generatorVars, pullVars, returning, stream>>

\* The abort: the reader is cancelled, and a read in flight settles with done.
AbortReader ==
  IF locked /\ provider = "open"
    THEN /\ provider' = "cancelled"
         /\ arrived' = IF ReadInFlight THEN [how |-> "done", bytes |-> 0] ELSE arrived
    ELSE UNCHANGED <<provider, arrived>>

\* Faulty: only calls return(), which waits behind the read in flight.
CancelWithoutAbort ==
  /\ stream = "readable" \/ (stream = "closing" /\ waiting # <<>>)
  /\ stream' = "cancelled" /\ waiting' = <<>>
  /\ returning' = ~finished
  /\ UNCHANGED <<providerVars, readerVars, generatorVars, pullVars, delivered>>

ConsumerCancels ==
  /\ stream = "readable" \/ (stream = "closing" /\ waiting # <<>>)
  /\ stream' = "cancelled" /\ waiting' = <<>>
  /\ returning' = ~finished
  /\ IF finished THEN UNCHANGED <<provider, arrived>> ELSE AbortReader
  /\ UNCHANGED <<sent, locked, readsOpen, generatorVars, pullVars, delivered>>
-----------------------------------------------------------------------------
\* What the runtime does on its own: promises settle, timers fire, pulls run.
Runtime ==
  \/ Flush \/ ReadArrives \/ ReadEnds \/ ReadFails
  \/ RejectNext \/ Return
  \/ PullHead \/ HeadSealed \/ PullNext \/ DataSealed \/ SealFails

Next ==
  \/ ProviderSends \/ ProviderStops
  \/ Runtime
  \/ ConsumerReads \/ ConsumerCancels

Spec == Init /\ [][Next]_vars

(***************************************************************************)
(* Only the runtime is fair.  The provider may never answer, and the        *)
(* consumer may never read: nothing is assumed of either.                   *)
(***************************************************************************)
FairSpec == Spec /\ WF_vars(Runtime)
-----------------------------------------------------------------------------
TypeOK ==
  /\ provider \in {"absent", "open", "ended", "failed", "cancelled"}
  /\ sent \in 0..MaxBodyBytes /\ totalBytes \in 0..MaxBodyBytes
  /\ locked \in BOOLEAN /\ readsOpen \in 0..1
  /\ arrived \in [how : {"none", "value", "done", "error"}, bytes : 0..MaxChunkBytes]
  /\ generator \in {"unstarted", "reading", "yielded", "draining", "rejecting", "finished"}
  /\ queue \in Seq(1..MaxBodyBytes)
  /\ pull \in {"idle", "sealing head", "awaiting", "sealing", "failed"}
  /\ payload \in [bytes : Seq(1..MaxBodyBytes), final : BOOLEAN]
  /\ sequence \in Nat \ {0}
  /\ sentHead \in BOOLEAN /\ finished \in BOOLEAN /\ returning \in BOOLEAN
  /\ stream \in {"readable", "closing", "errored", "cancelled"}

Frames == delivered \o waiting

\* The last of the provider's bytes in a frame, 0 if it has none.
LastByte(frame) == IF frame.bytes = <<>> THEN 0 ELSE frame.bytes[Len(frame.bytes)]

(***************************************************************************)
(* The frames carry the provider's bytes in order, none lost and none       *)
(* twice, under consecutive sequence numbers from the head on, however      *)
(* chunks, flushes, seals and reads interleave: each data frame goes on     *)
(* where the one before it stopped, and the first one after the empty head  *)
(* starts with the first byte.  They fit their padding, no data frame is    *)
(* empty, and together they stay within the limit.                         *)
(***************************************************************************)
FramesInOrder ==
  \A i \in DOMAIN Frames :
    /\ Frames[i].sequence = i - 1
    /\ Frames[i].bytes = <<>> <=> i = 1 \/ Frames[i].final
    /\ Frames[i].bytes # <<>> =>
         LET before == LastByte(Frames[i - 1]) IN
         Frames[i].bytes = Bytes(before + 1, before + Len(Frames[i].bytes))
    /\ Len(Frames[i].bytes) <= maxFramePayloadBytes
    /\ LastByte(Frames[i]) <= maxResponseBytes

(***************************************************************************)
(* A final frame authenticates the end of the response.  It is only sent    *)
(* when the provider ended its body itself and every byte of it is in the   *)
(* frames: a cancelled, failed or oversized body never looks complete.      *)
(***************************************************************************)
FinalFrameIsTruthful ==
  \A i \in DOMAIN Frames :
    Frames[i].final =>
      /\ i = Len(Frames) /\ i > 1
      /\ provider \in {"ended", "absent"}
      /\ LastByte(Frames[i - 1]) = sent

(***************************************************************************)
(* The stream may be cancelled anywhere, or break off over the provider or  *)
(* the limit: the provider's body is let go, even one that hangs.  Only a   *)
(* frame that could not be sealed leaves the body, perhaps locked, to the   *)
(* deadline it is under (ExitServer); but not if the consumer had           *)
(* cancelled before.                                                       *)
(***************************************************************************)
SourceReleased ==
  stream # "readable" /\ pull # "failed" ~> (~locked /\ provider # "open")

(***************************************************************************)
(* A provider that goes quiet does not hold back what it already sent to a  *)
(* consumer that reads.  (Each chunk restarts the flush timer, so nothing   *)
(* is said of one that keeps sending chunks without bytes.)                 *)
(***************************************************************************)
SlowStreamFlushed ==
  WF_vars(ConsumerReads) /\ <>[][~ProviderSends]_vars =>
    (queue # <<>> ~> (queue = <<>> \/ stream # "readable"))
=============================================================================
