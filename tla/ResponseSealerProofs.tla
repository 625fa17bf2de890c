------------------------ MODULE ResponseSealerProofs ------------------------
(***************************************************************************)
(* Proofs about ResponseSealer: every invariant of its run, for every size  *)
(* of payload, every limit and every bound.  At the end, ByteQueue: the     *)
(* chunks in which the sealer keeps what is a sequence of bytes to it.      *)
(*                                                                         *)
(* IndInv is the inductive invariant.  TypeInv is TypeOK in parts, and more *)
(* of the counts.  PlaceInv says where pull and the generator may be at the *)
(* same time.  SourceInv says what the generator's place tells of the       *)
(* provider's body.  FrameInv is about the frames, and BytesInv about the   *)
(* bytes between the last frame and the provider: the pending payload, then *)
(* the queue, go on where the last frame stopped.                           *)
(***************************************************************************)
EXTENDS ResponseSealer, ByteQueue, SequenceTheorems, TLAPS

Frame == [sequence : Nat, bytes : Seq(1..MaxBodyBytes), final : BOOLEAN]

\* TypeOK in parts.
SwitchTypes ==
  /\ provider \in {"absent", "open", "ended", "failed", "cancelled"}
  /\ generator \in {"unstarted", "reading", "yielded", "draining", "rejecting", "finished"}
  /\ pull \in {"idle", "sealing head", "awaiting", "sealing", "failed"}
  /\ stream \in {"readable", "closing", "errored", "cancelled"}
  /\ locked \in BOOLEAN /\ sentHead \in BOOLEAN
  /\ finished \in BOOLEAN /\ returning \in BOOLEAN

CountTypes ==
  /\ sent \in 0..MaxBodyBytes /\ totalBytes \in 0..MaxBodyBytes
  /\ readsOpen \in 0..1
  /\ arrived \in [how : {"none", "value", "done", "error"}, bytes : 0..MaxChunkBytes]
  /\ sequence \in Nat \ {0}
  /\ totalBytes + arrived.bytes <= sent
  /\ arrived.how # "value" => arrived.bytes = 0

ListTypes ==
  /\ queue \in Seq(1..MaxBodyBytes)
  /\ payload \in [bytes : Seq(1..MaxBodyBytes), final : BOOLEAN]
  /\ waiting \in Seq(Frame) /\ delivered \in Seq(Frame)
  /\ Len(waiting) <= 1

TypeInv == SwitchTypes /\ CountTypes /\ ListTypes

\* The bytes of a chunk, as a sequence.
LEMMA BytesFacts ==
  ASSUME NEW a \in Nat, NEW n \in Nat, NEW m \in Nat, a + n <= m
  PROVE  /\ Len(Bytes(a + 1, a + n)) = n
         /\ Bytes(a + 1, a + n) \in Seq(1..m)
         /\ \A i \in 1..n : Bytes(a + 1, a + n)[i] = a + i
<1>1. Bytes(a + 1, a + n) = [i \in 1..n |-> a + i]
  <2>1. (a + n) - (a + 1) + 1 = n
    OBVIOUS
  <2>2. \A i \in 1..n : a + 1 + i - 1 = a + i
    OBVIOUS
  <2>3. QED
    BY <2>1, <2>2 DEF Bytes
<1>2. [i \in 1..n |-> a + i] \in Seq(1..m)
  OBVIOUS
<1>3. QED
  BY <1>1, <1>2

\* Taking a payload splits the queue, and takes something from one that has something.
LEMMA TakenAndLeft ==
  ASSUME NEW S, NEW q \in Seq(S)
  PROVE  /\ Taken(q) \in Seq(S) /\ Left(q) \in Seq(S)
         /\ Len(Taken(q)) \in Nat /\ Len(Left(q)) \in Nat
         /\ Len(Taken(q)) + Len(Left(q)) = Len(q)
         /\ Len(Taken(q)) <= maxFramePayloadBytes
         /\ q # <<>> => Taken(q) # <<>>
         /\ \A i \in 1..Len(Taken(q)) : Taken(q)[i] = q[i]
         /\ \A i \in 1..Len(Left(q)) : Left(q)[i] = q[Len(Taken(q)) + i]
<1> DEFINE n == Smaller(maxFramePayloadBytes, Len(q))
<1>1. /\ n \in 0..Len(q) /\ n <= maxFramePayloadBytes /\ Len(q) \in Nat
      /\ Len(q) > 0 => n > 0
  BY PayloadAssumption DEF Smaller
<1>2. Taken(q) = SubSeq(q, 1, n) /\ Left(q) = SubSeq(q, n + 1, Len(q))
  BY DEF Taken, Left
<1> HIDE DEF n
<1>3. /\ Taken(q) \in Seq(S) /\ Len(Taken(q)) = n
      /\ \A i \in 1..n : Taken(q)[i] = q[i]
  BY <1>1, <1>2
<1>4. /\ Left(q) \in Seq(S) /\ Len(Left(q)) = Len(q) - n
      /\ \A i \in 1..(Len(q) - n) : Left(q)[i] = q[n + i]
  BY <1>1, <1>2
<1>5. q # <<>> => Taken(q) # <<>>
  BY <1>1, <1>3
<1>6. QED
  BY <1>1, <1>3, <1>4, <1>5

\* The payload of the final frame is a payload.
LEMMA LastPayload ==
  [bytes |-> <<>>, final |-> TRUE] \in [bytes : Seq(1..MaxBodyBytes), final : BOOLEAN]
<1>1. <<>> \in Seq(1..MaxBodyBytes)
  OBVIOUS
<1>2. QED
  BY <1>1

\* One frame waits.
LEMMA OneFrame ==
  ASSUME NEW frame \in Frame
  PROVE  <<frame>> \in Seq(Frame) /\ Len(<<frame>>) <= 1
OBVIOUS

\* The generator's suspensions keep the types.
LEMMA YieldTyped ==
  ASSUME NEW q \in Seq(1..MaxBodyBytes), NEW place, Yield(q, place)
  PROVE  /\ generator' = place /\ pull' = "sealing"
         /\ queue' \in Seq(1..MaxBodyBytes)
         /\ payload' \in [bytes : Seq(1..MaxBodyBytes), final : BOOLEAN]
BY TakenAndLeft DEF Yield

\* So does the top of its loop.
LEMMA LoopTyped ==
  ASSUME TypeInv, NEW q \in Seq(1..MaxBodyBytes), Loop(q)
  PROVE  /\ generator' \in {"yielded", "reading"} /\ pull' \in {"sealing", pull}
         /\ queue' \in Seq(1..MaxBodyBytes)
         /\ payload' \in [bytes : Seq(1..MaxBodyBytes), final : BOOLEAN]
BY YieldTyped DEF Loop, TypeInv, ListTypes

\* So does what is left after the last read.
LEMMA DrainTyped ==
  ASSUME TypeInv, Drain(queue)
  PROVE  /\ generator' \in {"draining", "finished"} /\ pull' = "sealing"
         /\ queue' \in Seq(1..MaxBodyBytes)
         /\ payload' \in [bytes : Seq(1..MaxBodyBytes), final : BOOLEAN]
         /\ locked' \in BOOLEAN
<1> USE DEF TypeInv, ListTypes
<1>1. CASE queue # <<>>
  BY <1>1, YieldTyped DEF Drain, SwitchTypes
<1>2. CASE queue = <<>>
  BY <1>2, LastPayload DEF Drain, Exhausted
<1>3. QED
  BY <1>1, <1>2

\* The initial states have their types.
LEMMA InitTyped == Init => TypeInv
<1> SUFFICES ASSUME Init PROVE TypeInv
  OBVIOUS
<1>1. SwitchTypes
  BY DEF Init, SwitchTypes
<1>2. CountTypes
  BY BoundsAssumption DEF Init, CountTypes, Nothing
<1>3. ListTypes
  BY DEF Init, ListTypes, NoPayload
<1>4. QED
  BY <1>1, <1>2, <1>3 DEF TypeInv

\* Every step keeps the types.
LEMMA TypeStep == TypeInv /\ [Next]_vars => TypeInv'
<1> SUFFICES ASSUME TypeInv, [Next]_vars PROVE TypeInv'
  OBVIOUS
<1> USE BoundsAssumption DEF TypeInv, providerVars, readerVars, generatorVars, pullVars,
        streamVars
<1>1. CASE ProviderSends
  <2>1. SwitchTypes'
    BY <1>1 DEF ProviderSends, SwitchTypes
  <2>2. CountTypes'
    BY <1>1 DEF ProviderSends, CountTypes, Nothing
  <2>3. ListTypes'
    BY <1>1 DEF ProviderSends, ListTypes
  <2>4. QED
    BY <2>1, <2>2, <2>3
<1>2. CASE ProviderStops
  <2>1. SwitchTypes'
    BY <1>2 DEF ProviderStops, SwitchTypes
  <2>2. CountTypes'
    BY <1>2 DEF ProviderStops, CountTypes, Nothing
  <2>3. ListTypes'
    BY <1>2 DEF ProviderStops, ListTypes
  <2>4. QED
    BY <2>1, <2>2, <2>3
<1>3. CASE Flush
  <2>1. /\ generator' = "yielded" /\ pull' = "sealing"
        /\ queue' \in Seq(1..MaxBodyBytes)
        /\ payload' \in [bytes : Seq(1..MaxBodyBytes), final : BOOLEAN]
    BY <1>3, YieldTyped DEF Flush, ListTypes
  <2>2. QED
    <3>1. SwitchTypes'
      BY <1>3, <2>1 DEF Flush, SwitchTypes
    <3>2. CountTypes'
      BY <1>3, <2>1 DEF Flush, CountTypes, Nothing
    <3>3. ListTypes'
      BY <1>3, <2>1 DEF Flush, ListTypes
    <3>4. QED
      BY <3>1, <3>2, <3>3
<1>4. CASE ReadArrives
  <2> DEFINE n == arrived.bytes
             new == queue \o Bytes(totalBytes + 1, totalBytes + n)
  <2>1. /\ arrived.how = "value" /\ TakeChunk(n)
        /\ UNCHANGED <<sent, sequence, sentHead, finished, streamVars>>
    BY <1>4 DEF ReadArrives
  <2>2. n \in Nat /\ totalBytes \in Nat /\ totalBytes + n <= sent /\ sent \in 0..MaxBodyBytes
    BY BoundsAssumption DEF CountTypes
  <2>3. new \in Seq(1..MaxBodyBytes)
    <3>1. Bytes(totalBytes + 1, totalBytes + n) \in Seq(1..MaxBodyBytes)
      <4>1. totalBytes + n <= MaxBodyBytes
        BY <2>2, BoundsAssumption
      <4>2. QED
        BY <2>2, <4>1, BytesFacts, BoundsAssumption
    <3>2. QED
      BY <3>1 DEF ListTypes
  <2> HIDE DEF new
  <2>4. CASE ExceedsLimit(n)
    <3>1. SwitchTypes'
      BY <2>1, <2>2, <2>4 DEF TakeChunk, SwitchTypes
    <3>2. CountTypes'
      BY <2>1, <2>2, <2>4 DEF TakeChunk, CountTypes, Nothing
    <3>3. ListTypes'
      BY <2>1, <2>2, <2>4 DEF TakeChunk, ListTypes
    <3>4. QED
      BY <3>1, <3>2, <3>3
  <2>5. CASE ~ExceedsLimit(n)
    <3>1. /\ Loop(new) /\ totalBytes' = totalBytes + n
          /\ arrived' \in {Nothing, [how |-> "done", bytes |-> 0]}
          /\ UNCHANGED <<provider, readsOpen, locked>>
      BY <2>1, <2>5 DEF TakeChunk, new
    <3>2. /\ generator' \in {"yielded", "reading"} /\ pull' \in {"sealing", pull}
          /\ queue' \in Seq(1..MaxBodyBytes)
          /\ payload' \in [bytes : Seq(1..MaxBodyBytes), final : BOOLEAN]
      BY <2>3, <3>1, LoopTyped DEF TypeInv
    <3>3. SwitchTypes'
      BY <2>1, <3>1, <3>2 DEF SwitchTypes
    <3>4. CountTypes'
      BY <2>1, <2>2, <3>1 DEF CountTypes, Nothing
    <3>5. QED
      BY <2>1, <3>2, <3>3, <3>4 DEF ListTypes
  <2>6. QED
    BY <2>4, <2>5
<1>5. CASE ReadEnds
  <2>1. /\ generator' \in {"draining", "finished"} /\ pull' = "sealing"
        /\ queue' \in Seq(1..MaxBodyBytes)
        /\ payload' \in [bytes : Seq(1..MaxBodyBytes), final : BOOLEAN]
        /\ locked' \in BOOLEAN
    BY <1>5, DrainTyped DEF ReadEnds
  <2>2. QED
    <3>1. SwitchTypes'
      BY <1>5, <2>1 DEF ReadEnds, SwitchTypes
    <3>2. CountTypes'
      BY <1>5, <2>1 DEF ReadEnds, CountTypes, Nothing
    <3>3. ListTypes'
      BY <1>5, <2>1 DEF ReadEnds, ListTypes
    <3>4. QED
      BY <3>1, <3>2, <3>3
<1>6. CASE ReadFails
  <2>1. SwitchTypes'
    BY <1>6 DEF ReadFails, SwitchTypes
  <2>2. CountTypes'
    BY <1>6 DEF ReadFails, CountTypes, Nothing
  <2>3. ListTypes'
    BY <1>6 DEF ReadFails, ListTypes
  <2>4. QED
    BY <2>1, <2>2, <2>3
<1>7. CASE RejectNext
  <2>1. SwitchTypes'
    BY <1>7 DEF RejectNext, SwitchTypes
  <2>2. CountTypes'
    BY <1>7 DEF RejectNext, CountTypes, Nothing
  <2>3. ListTypes'
    BY <1>7 DEF RejectNext, ListTypes
  <2>4. QED
    BY <2>1, <2>2, <2>3
<1>8. CASE Return
  <2>1. SwitchTypes'
    BY <1>8 DEF Return, SwitchTypes
  <2>2. CountTypes'
    BY <1>8 DEF Return, CountTypes, Nothing
  <2>3. ListTypes'
    BY <1>8 DEF Return, ListTypes
  <2>4. QED
    BY <2>1, <2>2, <2>3
<1>9. CASE PullHead
  <2>1. SwitchTypes'
    BY <1>9 DEF PullHead, SwitchTypes
  <2>2. CountTypes'
    BY <1>9 DEF PullHead, CountTypes, Nothing
  <2>3. ListTypes'
    BY <1>9 DEF PullHead, ListTypes
  <2>4. QED
    BY <2>1, <2>2, <2>3
<1>10. CASE HeadSealed
  <2>1. Head0 \in Frame
    BY DEF Head0, Frame
  <2>2. waiting' \in Seq(Frame) /\ Len(waiting') <= 1
    <3> DEFINE one == <<Head0>>
    <3>1. one \in Seq(Frame) /\ Len(one) <= 1
      BY <2>1, OneFrame
    <3>2. waiting' = one \/ waiting' = waiting
      BY <1>10 DEF HeadSealed
    <3> HIDE DEF one
    <3>3. waiting \in Seq(Frame) /\ Len(waiting) <= 1
      BY DEF ListTypes
    <3>4. CASE waiting' = one
      BY <3>1, <3>4
    <3>5. CASE waiting' = waiting
      BY <3>3, <3>5
    <3>6. QED
      BY <3>2, <3>4, <3>5
  <2>3. QED
    <3>1. SwitchTypes'
      BY <1>10, <2>2 DEF HeadSealed, SwitchTypes
    <3>2. CountTypes'
      BY <1>10, <2>2 DEF HeadSealed, CountTypes, Nothing
    <3>3. ListTypes'
      BY <1>10, <2>2 DEF HeadSealed, ListTypes
    <3>4. QED
      BY <3>1, <3>2, <3>3
<1>11. CASE PullNext
  <2>1. /\ ResumeGenerator /\ pull = "idle"
        /\ UNCHANGED <<providerVars, totalBytes, sequence, sentHead, finished, streamVars>>
    BY <1>11 DEF PullNext, CanPull
  <2>2. CASE generator = "unstarted"
    <3>1. payload' \in {payload, [bytes |-> <<>>, final |-> TRUE]} /\ queue' = queue
      BY <2>1, <2>2 DEF ResumeGenerator, Exhausted
    <3>2. SwitchTypes'
      BY <2>1, <2>2 DEF ResumeGenerator, Exhausted, SwitchTypes
    <3>3. CountTypes'
      BY <2>1, <2>2 DEF ResumeGenerator, Exhausted, CountTypes, Nothing
    <3>4. ListTypes'
      BY <2>1, <3>1, LastPayload DEF ListTypes
    <3>5. QED
      BY <3>2, <3>3, <3>4
  <2>3. CASE generator = "yielded"
    <3>1. CASE Len(queue) >= maxFramePayloadBytes
      <4>1. /\ generator' = "yielded" /\ pull' = "sealing"
            /\ queue' \in Seq(1..MaxBodyBytes)
            /\ payload' \in [bytes : Seq(1..MaxBodyBytes), final : BOOLEAN]
        BY <2>1, <2>3, <3>1, YieldTyped DEF ResumeGenerator, ListTypes
      <4>2. UNCHANGED readerVars
        BY <2>1, <2>3 DEF ResumeGenerator
      <4>3. QED
        <5>1. SwitchTypes'
          BY <2>1, <4>1, <4>2 DEF SwitchTypes
        <5>2. CountTypes'
          BY <2>1, <4>1, <4>2 DEF CountTypes, Nothing
        <5>3. ListTypes'
          BY <2>1, <4>1, <4>2 DEF ListTypes
        <5>4. QED
          BY <5>1, <5>2, <5>3
    <3>2. CASE ~(Len(queue) >= maxFramePayloadBytes)
      <4>1. SwitchTypes'
        BY <2>1, <2>3, <3>2 DEF ResumeGenerator, SwitchTypes
      <4>2. CountTypes'
        BY <2>1, <2>3, <3>2 DEF ResumeGenerator, CountTypes, Nothing
      <4>3. ListTypes'
        BY <2>1, <2>3, <3>2 DEF ResumeGenerator, ListTypes
      <4>4. QED
        BY <4>1, <4>2, <4>3
    <3>3. QED
      BY <3>1, <3>2
  <2>4. CASE generator = "draining"
    <3>1. Drain(queue) /\ UNCHANGED <<readsOpen, arrived>>
      BY <2>1, <2>4 DEF ResumeGenerator
    <3>2. /\ generator' \in {"draining", "finished"} /\ pull' = "sealing"
          /\ queue' \in Seq(1..MaxBodyBytes)
          /\ payload' \in [bytes : Seq(1..MaxBodyBytes), final : BOOLEAN]
          /\ locked' \in BOOLEAN
      BY <3>1, DrainTyped
    <3>3. QED
      <4>1. SwitchTypes'
        BY <2>1, <3>1, <3>2 DEF SwitchTypes
      <4>2. CountTypes'
        BY <2>1, <3>1, <3>2 DEF CountTypes, Nothing
      <4>3. ListTypes'
        BY <2>1, <3>1, <3>2 DEF ListTypes
      <4>4. QED
        BY <4>1, <4>2, <4>3
  <2>5. QED
    BY <2>1, <2>2, <2>3, <2>4 DEF ResumeGenerator
<1>12. CASE DataSealed
  <2>1. Sealed \in Frame
    BY DEF Sealed, Frame, ListTypes, CountTypes
  <2>2. waiting' \in Seq(Frame) /\ Len(waiting') <= 1
    <3> DEFINE one == <<Sealed>>
    <3>1. one \in Seq(Frame) /\ Len(one) <= 1
      BY <2>1, OneFrame
    <3>2. waiting' = one \/ waiting' = waiting
      BY <1>12 DEF DataSealed
    <3> HIDE DEF one
    <3>3. waiting \in Seq(Frame) /\ Len(waiting) <= 1
      BY DEF ListTypes
    <3>4. CASE waiting' = one
      BY <3>1, <3>4
    <3>5. CASE waiting' = waiting
      BY <3>3, <3>5
    <3>6. QED
      BY <3>2, <3>4, <3>5
  <2>3. NoPayload \in [bytes : Seq(1..MaxBodyBytes), final : BOOLEAN]
    BY DEF NoPayload
  <2>4. SwitchTypes'
    BY <1>12 DEF DataSealed, SwitchTypes, ListTypes
  <2>5. CountTypes'
    BY <1>12 DEF DataSealed, CountTypes
  <2>6. QED
    BY <1>12, <2>2, <2>3, <2>4, <2>5 DEF DataSealed, ListTypes
<1>13. CASE ConsumerReads
  <2>1. SwitchTypes'
    BY <1>13, ZenonT(40) DEF ConsumerReads, SwitchTypes
  <2>2. CountTypes'
    BY <1>13 DEF ConsumerReads, CountTypes, Nothing
  <2>3. ListTypes'
    BY <1>13 DEF ConsumerReads, ListTypes
  <2>4. QED
    BY <2>1, <2>2, <2>3
<1>14. CASE ConsumerCancels
  <2>1. SwitchTypes'
    BY <1>14 DEF ConsumerCancels, AbortReader, ReadInFlight, SwitchTypes
  <2>2. CountTypes'
    BY <1>14 DEF ConsumerCancels, AbortReader, ReadInFlight, CountTypes, Nothing
  <2>3. ListTypes'
    BY <1>14 DEF ConsumerCancels, AbortReader, ReadInFlight, ListTypes
  <2>4. QED
    BY <2>1, <2>2, <2>3
<1>15. CASE UNCHANGED vars
  <2>1. SwitchTypes'
    BY <1>15, ZenonT(40) DEF vars, SwitchTypes
  <2>2. CountTypes'
    BY <1>15 DEF vars, CountTypes, Nothing
  <2>3. ListTypes'
    BY <1>15 DEF vars, ListTypes
  <2>4. QED
    BY <2>1, <2>2, <2>3
<1>16. CASE SealFails
  <2>1. NoPayload \in [bytes : Seq(1..MaxBodyBytes), final : BOOLEAN]
    BY DEF NoPayload
  <2>2. SwitchTypes'
    BY <1>16 DEF SealFails, SwitchTypes
  <2>3. CountTypes'
    BY <1>16 DEF SealFails, CountTypes
  <2>4. ListTypes'
    BY <1>16, <2>1 DEF SealFails, ListTypes
  <2>5. QED
    BY <2>2, <2>3, <2>4
<1>17. QED
  BY <1>1, <1>2, <1>3, <1>4, <1>5, <1>6, <1>7, <1>8, <1>9, <1>10, <1>11, <1>12, <1>13,
     <1>14, <1>15, <1>16 DEF Next, Runtime

-----------------------------------------------------------------------------
\* Where pull and the generator are at the same time.
PlaceInv ==
  /\ pull = "awaiting" <=> generator \in {"reading", "rejecting"}
  /\ generator = "unstarted" => readsOpen = 0
  /\ pull # "sealing" => payload.bytes = <<>> /\ ~payload.final
  /\ payload.final => payload.bytes = <<>>
  /\ pull = "sealing" /\ ~payload.final =>
       payload.bytes # <<>> /\ Len(payload.bytes) <= maxFramePayloadBytes
  /\ stream = "readable" =>
       /\ ~finished /\ ~returning
       /\ ~sentHead => pull \in {"idle", "sealing head"} /\ generator = "unstarted"
       /\ pull = "sealing head" => ~sentHead
       /\ pull # "idle" => waiting = <<>>
       /\ pull = "idle" => generator \in {"unstarted", "yielded", "draining"}
       /\ pull = "sealing" => /\ generator # "unstarted"
                               /\ (payload.final <=> generator = "finished")

\* While the stream is readable, the generator's place tells of the body.
SourceInv ==
  stream = "readable" =>
    /\ totalBytes + arrived.bytes = sent
    /\ generator = "unstarted" =>
         provider \in {"absent", "open"} /\ arrived.how = "none" /\ sent = 0
    /\ generator \in {"reading", "yielded"} =>
         \/ provider = "open" /\ arrived.how \in {"none", "value"}
         \/ provider = "ended" /\ arrived.how = "done"
         \/ provider = "failed" /\ arrived.how = "error"
    /\ generator = "draining" => provider = "ended" /\ arrived.how = "none"
    /\ generator = "finished" => provider \in {"ended", "absent"} /\ arrived.how = "none"

\* What a generator that yields q leaves.
Yielded(q, place) ==
  /\ generator' = place /\ pull' = "sealing" /\ ~payload'.final
  /\ payload'.bytes = Taken(q) /\ Taken(q) # <<>> /\ Len(Taken(q)) <= maxFramePayloadBytes
  /\ queue' = Left(q)

\* What a generator that is exhausted leaves.
Ended ==
  /\ generator' = "finished" /\ pull' = "sealing" /\ payload'.final
  /\ payload'.bytes = <<>> /\ queue' = queue

\* What a generator that awaits a read leaves.
Awaits(q) ==
  /\ generator' = "reading" /\ queue' = q /\ payload' = payload

\* A yield hands over the front of the queue.
LEMMA YieldGives ==
  ASSUME NEW q \in Seq(1..MaxBodyBytes), q # <<>>, NEW place, Yield(q, place)
  PROVE  Yielded(q, place)
BY TakenAndLeft DEF Yield, Yielded

\* The top of the loop yields or awaits.
LEMMA LoopGives ==
  ASSUME NEW q \in Seq(1..MaxBodyBytes), Loop(q)
  PROVE  Yielded(q, "yielded") \/ (Awaits(q) /\ pull' = pull)
<1>1. CASE Len(q) >= maxFramePayloadBytes
  <2>1. q # <<>>
    BY <1>1, PayloadAssumption
  <2>2. QED
    BY <1>1, <2>1, YieldGives DEF Loop
<1>2. CASE ~(Len(q) >= maxFramePayloadBytes)
  BY <1>2 DEF Loop, Awaits
<1>3. QED
  BY <1>1, <1>2

\* After the last read, the generator yields or ends.
LEMMA DrainGives ==
  ASSUME TypeInv, Drain(queue)
  PROVE  Yielded(queue, "draining") \/ (Ended /\ queue = <<>>)
<1>1. CASE queue # <<>>
  BY <1>1, YieldGives DEF Drain, TypeInv, ListTypes
<1>2. CASE queue = <<>>
  BY <1>2 DEF Drain, Exhausted, Ended
<1>3. QED
  BY <1>1, <1>2

\* The three things that a pull that resumes the generator can find.
LEMMA ResumeGives ==
  ASSUME TypeInv, PullNext
  PROVE  /\ pull = "idle" /\ stream = "readable" /\ sentHead /\ waiting = <<>>
         /\ UNCHANGED <<provider, sent, totalBytes, sequence, sentHead, finished, streamVars>>
         /\ \/ /\ generator = "unstarted" /\ provider = "absent"
               /\ Ended /\ UNCHANGED <<readsOpen, arrived>>
            \/ /\ generator = "unstarted" /\ provider # "absent"
               /\ Awaits(queue) /\ pull' = "awaiting" /\ arrived' = Nothing /\ readsOpen' = 1
            \/ /\ generator = "yielded" /\ UNCHANGED <<readsOpen, arrived>>
               /\ Yielded(queue, "yielded") \/ (Awaits(queue) /\ pull' = "awaiting")
            \/ /\ generator = "draining" /\ UNCHANGED <<readsOpen, arrived>>
               /\ Yielded(queue, "draining") \/ (Ended /\ queue = <<>>)
<1>1. /\ pull = "idle" /\ stream = "readable" /\ sentHead /\ waiting = <<>>
      /\ UNCHANGED <<provider, sent, totalBytes, sequence, sentHead, finished, streamVars>>
      /\ ResumeGenerator
  BY DEF PullNext, CanPull, providerVars
<1>2. CASE generator = "unstarted" /\ provider = "absent"
  BY <1>1, <1>2 DEF ResumeGenerator, Exhausted, Ended, readerVars
<1>3. CASE generator = "unstarted" /\ provider # "absent"
  BY <1>1, <1>3 DEF ResumeGenerator, Awaits
<1>4. CASE generator = "yielded"
  <2>1. CASE Len(queue) >= maxFramePayloadBytes
    <3>1. queue # <<>> /\ queue \in Seq(1..MaxBodyBytes)
      BY <2>1, PayloadAssumption DEF TypeInv, ListTypes
    <3>2. Yield(queue, "yielded") /\ UNCHANGED readerVars
      BY <1>1, <1>4, <2>1 DEF ResumeGenerator
    <3>3. QED
      BY <1>1, <1>4, <3>1, <3>2, YieldGives DEF readerVars
  <2>2. CASE ~(Len(queue) >= maxFramePayloadBytes)
    BY <1>1, <1>4, <2>2 DEF ResumeGenerator, Awaits, readerVars
  <2>3. QED
    BY <2>1, <2>2
<1>5. CASE generator = "draining"
  BY <1>1, <1>5, DrainGives DEF ResumeGenerator
<1>6. QED
  BY <1>1, <1>2, <1>3, <1>4, <1>5 DEF ResumeGenerator

\* The flush yields what there is.
LEMMA FlushGives ==
  ASSUME TypeInv, Flush
  PROVE  /\ generator = "reading" /\ Yielded(queue, "yielded")
         /\ UNCHANGED <<provider, sent, readsOpen, arrived, totalBytes, sequence, sentHead,
                        finished, streamVars>>
BY YieldGives DEF Flush, TypeInv, ListTypes, providerVars, readerVars

\* The end of the body.
LEMMA ReadEndsGives ==
  ASSUME TypeInv, ReadEnds
  PROVE  /\ generator = "reading" /\ arrived.how = "done"
         /\ arrived'.how = "none" /\ arrived'.bytes = 0 /\ readsOpen' = 0
         /\ UNCHANGED <<provider, sent, totalBytes, sequence, sentHead, finished, streamVars>>
         /\ Yielded(queue, "draining") \/ (Ended /\ queue = <<>>)
BY DrainGives DEF ReadEnds, Nothing, providerVars

\* A chunk: too much, or queued.
LEMMA ReadArrivesGives ==
  ASSUME TypeInv, ReadArrives
  PROVE  /\ generator = "reading" /\ arrived.how = "value"
         /\ UNCHANGED <<sent, sequence, sentHead, finished, streamVars>>
         /\ totalBytes' = totalBytes + arrived.bytes /\ arrived'.bytes = 0
         /\ provider' \in {provider, "cancelled"}
         /\ provider' = provider \/ provider = "open"
         /\ \/ /\ generator' = "rejecting" /\ totalBytes' > maxResponseBytes
               /\ UNCHANGED <<queue, pull, payload>>
            \/ /\ totalBytes' <= maxResponseBytes
               /\ provider' = provider
               /\ arrived'.how = IF provider = "open" THEN "none" ELSE "done"
               /\ LET q == queue \o Bytes(totalBytes + 1, totalBytes + arrived.bytes)
                  IN  Yielded(q, "yielded") \/ (Awaits(q) /\ pull' = pull)
<1> DEFINE n == arrived.bytes
           q == queue \o Bytes(totalBytes + 1, totalBytes + n)
<1>1. /\ generator = "reading" /\ arrived.how = "value" /\ TakeChunk(n)
      /\ UNCHANGED <<sent, sequence, sentHead, finished, streamVars>>
  BY DEF ReadArrives
<1>2. totalBytes' = totalBytes + n
  BY <1>1 DEF TakeChunk
<1>3. totalBytes \in Nat /\ n \in Nat /\ totalBytes + n <= MaxBodyBytes
  <2>1. totalBytes + n <= sent /\ sent \in 0..MaxBodyBytes /\ totalBytes \in Nat /\ n \in Nat
    BY BoundsAssumption DEF TypeInv, CountTypes
  <2>2. QED
    BY <2>1, BoundsAssumption
<1>4. CASE ExceedsLimit(n)
  BY <1>1, <1>2, <1>3, <1>4, LimitAssumption DEF TakeChunk, ExceedsLimit, Nothing
<1>5. CASE ~ExceedsLimit(n)
  <2>1. q \in Seq(1..MaxBodyBytes)
    <3>1. Bytes(totalBytes + 1, totalBytes + n) \in Seq(1..MaxBodyBytes)
      BY <1>3, BytesFacts, BoundsAssumption
    <3>2. QED
      BY <3>1 DEF TypeInv, ListTypes
  <2>2. /\ Loop(q) /\ provider' = provider
        /\ arrived' = IF provider = "open" THEN Nothing ELSE [how |-> "done", bytes |-> 0]
    BY <1>1, <1>5 DEF TakeChunk
  <2> HIDE DEF q
  <2>3. Yielded(q, "yielded") \/ (Awaits(q) /\ pull' = pull)
    BY <2>1, <2>2, LoopGives
  <2>4. arrived'.bytes = 0 /\ arrived'.how = IF provider = "open" THEN "none" ELSE "done"
    BY <2>2 DEF Nothing
  <2>5. totalBytes' <= maxResponseBytes
    BY <1>2, <1>3, <1>5, LimitAssumption DEF ExceedsLimit
  <2> USE DEF q
  <2>6. QED
    BY <1>1, <1>2, <2>2, <2>3, <2>4, <2>5
<1>6. QED
  BY <1>4, <1>5

LEMMA YieldedPlace ==
  ASSUME PlaceInv, NEW q, NEW place \in {"yielded", "draining"}, Yielded(q, place),
         stream = "readable" => sentHead /\ waiting = <<>>,
         UNCHANGED <<finished, returning, sentHead, stream, waiting>>
  PROVE  PlaceInv'
BY DEF PlaceInv, Yielded

LEMMA EndedPlace ==
  ASSUME PlaceInv, Ended, stream = "readable" => sentHead /\ waiting = <<>>,
         UNCHANGED <<finished, returning, sentHead, stream, waiting>>
  PROVE  PlaceInv'
BY DEF PlaceInv, Ended

LEMMA AwaitsPlace ==
  ASSUME PlaceInv, NEW q, Awaits(q), pull # "sealing", pull' = "awaiting",
         stream = "readable" => sentHead /\ waiting = <<>>,
         UNCHANGED <<finished, returning, sentHead, stream, waiting>>
  PROVE  PlaceInv'
BY DEF PlaceInv, Awaits

LEMMA ReadsOpenStarted == PlaceInv /\ readsOpen # 0 => generator # "unstarted"
BY DEF PlaceInv

\* Every step keeps pull and the generator in step.
LEMMA PlaceStep == TypeInv /\ PlaceInv /\ [Next]_vars => PlaceInv'
<1> SUFFICES ASSUME TypeInv, PlaceInv, [Next]_vars PROVE PlaceInv'
  OBVIOUS
<1> USE DEF providerVars, readerVars, generatorVars, pullVars, streamVars
<1>1. CASE ProviderSends
  BY <1>1 DEF ProviderSends, PlaceInv
<1>2. CASE ProviderStops
  BY <1>2 DEF ProviderStops, PlaceInv
<1>3. CASE Flush
  <2>1. /\ stream = "readable" => sentHead /\ waiting = <<>>
        /\ UNCHANGED <<finished, returning, sentHead, stream, waiting>>
    BY <1>3, FlushGives DEF PlaceInv, streamVars
  <2>2. QED
    BY <1>3, <2>1, FlushGives, YieldedPlace
<1>4. CASE ReadArrives
  <2> DEFINE q == queue \o Bytes(totalBytes + 1, totalBytes + arrived.bytes)
  <2>1. /\ stream = "readable" => sentHead /\ waiting = <<>>
        /\ UNCHANGED <<finished, returning, sentHead, stream, waiting>>
        /\ pull = "awaiting"
    BY <1>4, ReadArrivesGives DEF PlaceInv, streamVars
  <2>2. \/ generator' = "rejecting" /\ UNCHANGED <<pull, payload>>
        \/ Yielded(q, "yielded") \/ (Awaits(q) /\ pull' = pull)
    BY <1>4, ReadArrivesGives
  <2> HIDE DEF q
  <2>3. CASE generator' = "rejecting" /\ UNCHANGED <<pull, payload>>
    BY <2>1, <2>3 DEF PlaceInv
  <2>4. QED
    BY <2>1, <2>2, <2>3, YieldedPlace, AwaitsPlace
<1>5. CASE ReadEnds
  <2>1. /\ stream = "readable" => sentHead /\ waiting = <<>>
        /\ UNCHANGED <<finished, returning, sentHead, stream, waiting>>
    BY <1>5, ReadEndsGives DEF PlaceInv, streamVars
  <2>2. QED
    BY <1>5, <2>1, ReadEndsGives, YieldedPlace, EndedPlace
<1>6. CASE ReadFails
  BY <1>6 DEF ReadFails, PlaceInv
<1>7. CASE RejectNext
  BY <1>7 DEF RejectNext, PlaceInv
<1>8. CASE Return
  BY <1>8 DEF Return, PlaceInv
<1>9. CASE PullHead
  BY <1>9 DEF PlaceInv, PullHead, CanPull
<1>10. CASE HeadSealed
  BY <1>10 DEF HeadSealed, PlaceInv
<1>11. CASE PullNext
  <2>1. /\ stream = "readable" => sentHead /\ waiting = <<>>
        /\ UNCHANGED <<finished, returning, sentHead, stream, waiting>>
    BY <1>11, ResumeGives DEF streamVars
  <2>2. QED
    BY <1>11, <2>1, ResumeGives, YieldedPlace, EndedPlace, AwaitsPlace
<1>12. CASE DataSealed
  <2>1. /\ pull = "sealing" /\ pull' = "idle" /\ payload'.bytes = <<>> /\ ~payload'.final
        /\ UNCHANGED <<generator, readsOpen, sentHead, returning>>
    BY <1>12 DEF DataSealed, NoPayload, generatorVars, readerVars
  <2>2. CASE stream = "readable" /\ ~payload.final
    <3>1. ~finished' /\ stream' = stream
      BY <1>12, <2>2 DEF DataSealed
    <3>2. generator \in {"yielded", "draining"} /\ sentHead /\ ~returning
      BY <2>1, <2>2 DEF PlaceInv, TypeInv, SwitchTypes
    <3>3. QED
      BY <2>1, <3>1, <3>2 DEF PlaceInv
  <2>3. CASE ~(stream = "readable" /\ ~payload.final)
    <3>1. stream' # "readable"
      BY <1>12, <2>3 DEF DataSealed
    <3>2. QED
      BY <2>1, <3>1 DEF PlaceInv
  <2>4. QED
    BY <2>2, <2>3
<1>13. CASE ConsumerReads
  BY <1>13 DEF ConsumerReads, PlaceInv
<1>14. CASE ConsumerCancels
  BY <1>14 DEF ConsumerCancels, AbortReader, ReadInFlight, PlaceInv
<1>15. CASE UNCHANGED vars
  BY <1>15 DEF vars, PlaceInv
<1>16. CASE SealFails
  <2>1. /\ pull # "awaiting" /\ pull' = "failed" /\ stream' # "readable"
        /\ payload'.bytes = <<>> /\ ~payload'.final
        /\ UNCHANGED <<generator, readsOpen>>
    BY <1>16 DEF SealFails, NoPayload
  <2>2. QED
    BY <2>1 DEF PlaceInv
<1>17. QED
  BY <1>1, <1>2, <1>3, <1>4, <1>5, <1>6, <1>7, <1>8, <1>9, <1>10, <1>11, <1>12, <1>13,
     <1>14, <1>15, <1>16 DEF Next, Runtime

\* Every step keeps the generator in step with the provider's body.
LEMMA SourceStep == TypeInv /\ PlaceInv /\ SourceInv /\ [Next]_vars => SourceInv'
<1> SUFFICES ASSUME TypeInv, PlaceInv, SourceInv, [Next]_vars PROVE SourceInv'
  OBVIOUS
<1> USE DEF providerVars, readerVars, generatorVars, pullVars, streamVars
<1>1. CASE ProviderSends
  <2> SUFFICES ASSUME stream' = "readable" PROVE SourceInv'
    BY DEF SourceInv
  <2>1. PICK n \in 0..MaxChunkBytes :
          sent' = sent + n /\ arrived' = [how |-> "value", bytes |-> n]
    BY <1>1 DEF ProviderSends
  <2>2. /\ provider = "open" /\ readsOpen > 0 /\ arrived = Nothing
        /\ UNCHANGED <<provider, generator, totalBytes, stream>>
    BY <1>1 DEF ProviderSends, ReadInFlight
  <2>3. arrived.bytes = 0 /\ arrived'.bytes = n /\ arrived'.how = "value"
    BY <2>1, <2>2 DEF Nothing
  <2>4. sent \in Nat /\ totalBytes \in Nat /\ n \in Nat /\ readsOpen \in Nat
    BY BoundsAssumption DEF TypeInv, CountTypes
  <2>5. totalBytes' + arrived'.bytes = sent'
    BY <2>1, <2>2, <2>3, <2>4 DEF SourceInv
  <2>6. generator \notin {"unstarted", "draining", "finished"}
    <3>1. readsOpen # 0 /\ stream = "readable"
      BY <2>2, <2>4
    <3>2. generator # "unstarted"
      BY <3>1, ReadsOpenStarted
    <3>3. QED
      BY <2>2, <3>1, <3>2 DEF SourceInv
  <2>7. QED
    BY <2>2, <2>3, <2>5, <2>6 DEF SourceInv
<1>2. CASE ProviderStops
  <2> SUFFICES ASSUME stream' = "readable" PROVE SourceInv'
    BY DEF SourceInv
  <2>1. \/ provider' = "ended" /\ arrived'.how = "done"
        \/ provider' = "failed" /\ arrived'.how = "error"
    BY <1>2 DEF ProviderStops
  <2>2. /\ provider = "open" /\ readsOpen > 0 /\ arrived = Nothing /\ arrived'.bytes = 0
        /\ UNCHANGED <<sent, generator, totalBytes, stream>>
    BY <1>2 DEF ProviderStops, ReadInFlight
  <2>3. totalBytes' + arrived'.bytes = sent'
    BY <2>2 DEF SourceInv, Nothing
  <2>4. generator \notin {"unstarted", "draining", "finished"}
    <3>1. readsOpen # 0 /\ stream = "readable"
      BY <2>2
    <3>2. generator # "unstarted"
      BY <3>1, ReadsOpenStarted
    <3>3. QED
      BY <2>2, <3>1, <3>2 DEF SourceInv
  <2>5. QED
    BY <2>1, <2>2, <2>3, <2>4 DEF SourceInv
<1>3. CASE Flush
  BY <1>3, FlushGives DEF Yielded, Ended, Awaits, SourceInv
<1>4. CASE ReadArrives
  <2> DEFINE q == queue \o Bytes(totalBytes + 1, totalBytes + arrived.bytes)
  <2>1. /\ generator = "reading" /\ arrived.how = "value"
        /\ UNCHANGED <<sent, stream>>
        /\ totalBytes' = totalBytes + arrived.bytes /\ arrived'.bytes = 0
        /\ \/ generator' = "rejecting"
           \/ /\ provider' = provider
              /\ arrived'.how = IF provider = "open" THEN "none" ELSE "done"
              /\ Yielded(q, "yielded") \/ Awaits(q)
    BY <1>4, ReadArrivesGives
  <2>2. totalBytes \in Nat /\ arrived.bytes \in Nat
    BY BoundsAssumption DEF TypeInv, CountTypes
  <2>3. generator' \in {"rejecting", "yielded", "reading"}
    BY <2>1 DEF Yielded, Awaits
  <2> HIDE DEF q
  <2>4. CASE stream # "readable"
    BY <2>1, <2>4 DEF SourceInv
  <2>5. CASE stream = "readable"
    <3>1. provider = "open"
      BY <2>1, <2>5 DEF SourceInv
    <3>2. totalBytes' + arrived'.bytes = sent'
      BY <2>1, <2>2, <2>5 DEF SourceInv
    <3>3. QED
      BY <2>1, <2>3, <3>1, <3>2 DEF SourceInv
  <2>6. QED
    BY <2>4, <2>5
<1>5. CASE ReadEnds
  <2>1. /\ generator = "reading" /\ generator' \in {"draining", "finished"}
        /\ arrived.how = "done" /\ arrived'.how = "none" /\ arrived'.bytes = 0
        /\ UNCHANGED <<provider, sent, totalBytes, stream>>
    BY <1>5, ReadEndsGives DEF Yielded, Ended
  <2>2. arrived.bytes = 0
    BY <2>1 DEF TypeInv, CountTypes
  <2>3. QED
    BY <2>1, <2>2 DEF SourceInv
<1>6. CASE ReadFails
  BY <1>6 DEF SourceInv, ReadFails, Nothing, TypeInv, CountTypes
<1>7. CASE RejectNext
  BY <1>7 DEF RejectNext, SourceInv
<1>8. CASE Return
  BY <1>8 DEF SourceInv, Return, PlaceInv
<1>9. CASE PullHead
  BY <1>9 DEF PullHead, SourceInv
<1>10. CASE HeadSealed
  BY <1>10 DEF HeadSealed, SourceInv
<1>11. CASE PullNext
  <2>1. /\ UNCHANGED <<provider, sent, totalBytes, stream>>
        /\ \/ /\ generator = "unstarted" /\ provider = "absent" /\ generator' = "finished"
              /\ UNCHANGED arrived
           \/ /\ generator = "unstarted" /\ provider # "absent" /\ generator' = "reading"
              /\ arrived' = Nothing
           \/ /\ generator = "yielded" /\ generator' \in {"yielded", "reading"}
              /\ UNCHANGED arrived
           \/ /\ generator = "draining" /\ generator' \in {"draining", "finished"}
              /\ UNCHANGED arrived
    BY <1>11, ResumeGives DEF Yielded, Ended, Awaits
  <2>2. QED
    <3>1. Nothing.how = "none" /\ Nothing.bytes = 0
      BY DEF Nothing
    <3>2. generator = "unstarted" /\ stream = "readable" => arrived.bytes = 0
      BY DEF TypeInv, CountTypes, SourceInv
    <3>3. CASE generator = "unstarted" /\ provider = "absent"
      BY <2>1, <3>3 DEF SourceInv, TypeInv, CountTypes
    <3>4. CASE generator = "unstarted" /\ provider # "absent"
      BY <2>1, <3>1, <3>2, <3>4 DEF SourceInv
    <3>5. CASE generator = "yielded"
      BY <2>1, <3>5 DEF SourceInv
    <3>6. CASE generator = "draining"
      BY <2>1, <3>6 DEF SourceInv
    <3>7. QED
      BY <2>1, <3>3, <3>4, <3>5, <3>6
<1>12. CASE DataSealed
  BY <1>12 DEF SourceInv, DataSealed, PlaceInv
<1>13. CASE ConsumerReads
  BY <1>13 DEF ConsumerReads, SourceInv
<1>14. CASE ConsumerCancels
  BY <1>14 DEF ConsumerCancels, AbortReader, ReadInFlight, SourceInv
<1>15. CASE UNCHANGED vars
  BY <1>15 DEF vars, SourceInv
<1>16. CASE SealFails
  <2>1. stream' # "readable"
    BY <1>16 DEF SealFails
  <2>2. QED
    BY <2>1 DEF SourceInv
<1>17. QED
  BY <1>1, <1>2, <1>3, <1>4, <1>5, <1>6, <1>7, <1>8, <1>9, <1>10, <1>11, <1>12, <1>13,
     <1>14, <1>15, <1>16 DEF Next, Runtime

-----------------------------------------------------------------------------
\* The bytes after the c-th, without a gap.
RunsFrom(s, c) == \A i \in 1..Len(s) : s[i] = c + i

\* The last byte that has been put into a frame.
Position == IF Frames = <<>> THEN 0 ELSE LastByte(Frames[Len(Frames)])

\* FramesInOrder and FinalFrameIsTruthful, of any sequence of frames.
GoodFrames(f) ==
  \A i \in 1..Len(f) :
    /\ f[i].sequence = i - 1
    /\ f[i].bytes = <<>> <=> i = 1 \/ f[i].final
    /\ f[i].bytes # <<>> => RunsFrom(f[i].bytes, LastByte(f[i - 1]))
    /\ Len(f[i].bytes) <= maxFramePayloadBytes
    /\ LastByte(f[i]) <= maxResponseBytes
    /\ f[i].final =>
         /\ i = Len(f) /\ i > 1
         /\ provider \in {"ended", "absent"}
         /\ LastByte(f[i - 1]) = sent

\* The frames are good, and a stream that goes on has had no final one.
FrameInv ==
  /\ GoodFrames(Frames)
  /\ stream = "readable" =>
       /\ Len(Frames) = IF sentHead THEN sequence ELSE 0
       /\ ~sentHead => sequence = 1
       /\ \A i \in 1..Len(Frames) : ~Frames[i].final

\* The pending payload and the queue go on where the last frame stopped.
BytesInv ==
  stream = "readable" /\ generator # "rejecting" =>
    /\ totalBytes <= maxResponseBytes
    /\ RunsFrom(payload.bytes, Position)
    /\ RunsFrom(queue, Position + Len(payload.bytes))
    /\ Position + Len(payload.bytes) + Len(queue) = totalBytes
    /\ generator \in {"unstarted", "finished"} => queue = <<>>

\* The frames read, then the frames that wait.
LEMMA FramesTyped ==
  ASSUME TypeInv
  PROVE  /\ Frames \in Seq(Frame) /\ Len(Frames) \in Nat
         /\ Len(Frames) = Len(delivered) + Len(waiting)
         /\ waiting = <<>> => Frames = delivered
BY DEF TypeInv, ListTypes, Frames

\* The last byte of a frame is a position in the body.
LEMMA LastByteTyped ==
  ASSUME NEW frame \in Frame
  PROVE  /\ LastByte(frame) \in Nat
         /\ frame.bytes # <<>> => LastByte(frame) = frame.bytes[Len(frame.bytes)]
         /\ frame.bytes = <<>> => LastByte(frame) = 0
         /\ Len(frame.bytes) \in Nat /\ (frame.bytes # <<>> => Len(frame.bytes) > 0)
<1>1. frame.bytes \in Seq(1..MaxBodyBytes)
  BY DEF Frame
<1>2. Len(frame.bytes) \in Nat /\ (frame.bytes # <<>> => Len(frame.bytes) > 0)
  BY <1>1
<1>3. frame.bytes # <<>> => frame.bytes[Len(frame.bytes)] \in 1..MaxBodyBytes
  <2> SUFFICES ASSUME frame.bytes # <<>>
               PROVE  frame.bytes[Len(frame.bytes)] \in 1..MaxBodyBytes
    OBVIOUS
  <2>1. Len(frame.bytes) \in 1..Len(frame.bytes)
    BY <1>2
  <2>2. QED
    BY <1>1, <2>1, ElementOfSeq
<1>4. QED
  BY <1>2, <1>3 DEF LastByte

\* So is the last byte of all the frames.
LEMMA PositionTyped == TypeInv => Position \in Nat
<1> SUFFICES ASSUME TypeInv PROVE Position \in Nat
  OBVIOUS
<1>1. CASE Frames = <<>>
  BY <1>1 DEF Position
<1>2. CASE Frames # <<>>
  <2>1. Len(Frames) \in 1..Len(Frames) /\ Frames \in Seq(Frame)
    BY <1>2, FramesTyped
  <2>2. Frames[Len(Frames)] \in Frame
    BY <2>1, ElementOfSeq
  <2>3. QED
    BY <1>2, <2>2, LastByteTyped DEF Position
<1>3. QED
  BY <1>1, <1>2

\* Dropping the last frames leaves good ones.
LEMMA PrefixGood ==
  ASSUME NEW d \in Seq(Frame), NEW w \in Seq(Frame), GoodFrames(d \o w)
  PROVE  GoodFrames(d)
<1> DEFINE f == d \o w
<1>1. /\ Len(d) \in Nat /\ Len(d) <= Len(f) /\ Len(f) \in Nat
      /\ \A i \in 1..Len(d) : f[i] = d[i]
  OBVIOUS
<1>2. GoodFrames(f)
  OBVIOUS
<1> HIDE DEF f
<1>3. SUFFICES ASSUME NEW i \in 1..Len(d)
               PROVE  /\ d[i].sequence = i - 1
                      /\ d[i].bytes = <<>> <=> i = 1 \/ d[i].final
                      /\ d[i].bytes # <<>> => RunsFrom(d[i].bytes, LastByte(d[i - 1]))
                      /\ Len(d[i].bytes) <= maxFramePayloadBytes
                      /\ LastByte(d[i]) <= maxResponseBytes
                      /\ d[i].final => /\ i = Len(d) /\ i > 1
                                       /\ provider \in {"ended", "absent"}
                                       /\ LastByte(d[i - 1]) = sent
  BY DEF GoodFrames
<1>4. f[i] = d[i] /\ i \in 1..Len(f)
  BY <1>1
<1>5. i > 1 => f[i - 1] = d[i - 1]
  BY <1>1
<1>6. i = 1 => d[i].bytes = <<>> /\ ~d[i].final
  BY <1>2, <1>4 DEF GoodFrames
<1>7. d[i].final => i = Len(d)
  BY <1>1, <1>2, <1>4 DEF GoodFrames
<1>8. CASE i = 1
  BY <1>2, <1>4, <1>6, <1>8 DEF GoodFrames
<1>9. CASE i > 1
  BY <1>2, <1>4, <1>5, <1>7, <1>9 DEF GoodFrames
<1>10. QED
  BY <1>8, <1>9

\* The frame that goes on where the last one stopped can be added.
LEMMA GoodAppend ==
  ASSUME NEW f \in Seq(Frame), NEW x \in Frame, GoodFrames(f),
         \A i \in 1..Len(f) : ~f[i].final,
         x.sequence = Len(f),
         x.bytes = <<>> <=> Len(f) = 0 \/ x.final,
         x.bytes # <<>> => RunsFrom(x.bytes, LastByte(f[Len(f)])),
         Len(x.bytes) <= maxFramePayloadBytes,
         LastByte(x) <= maxResponseBytes,
         x.final => /\ Len(f) > 0 /\ provider \in {"ended", "absent"}
                    /\ LastByte(f[Len(f)]) = sent
  PROVE  GoodFrames(Append(f, x))
<1> DEFINE g == Append(f, x)
<1>1. /\ Len(f) \in Nat /\ Len(g) = Len(f) + 1
      /\ \A i \in 1..Len(f) : g[i] = f[i]
      /\ g[Len(f) + 1] = x
  OBVIOUS
<1> HIDE DEF g
<1>2. SUFFICES ASSUME NEW i \in 1..Len(g)
               PROVE  /\ g[i].sequence = i - 1
                      /\ g[i].bytes = <<>> <=> i = 1 \/ g[i].final
                      /\ g[i].bytes # <<>> => RunsFrom(g[i].bytes, LastByte(g[i - 1]))
                      /\ Len(g[i].bytes) <= maxFramePayloadBytes
                      /\ LastByte(g[i]) <= maxResponseBytes
                      /\ g[i].final => /\ i = Len(g) /\ i > 1
                                       /\ provider \in {"ended", "absent"}
                                       /\ LastByte(g[i - 1]) = sent
  BY DEF GoodFrames, g
<1>3. CASE i \in 1..Len(f)
  <2>1. g[i] = f[i] /\ (i > 1 => g[i - 1] = f[i - 1]) /\ ~f[i].final
    BY <1>1, <1>3
  <2>2. i = 1 => f[i].bytes = <<>>
    BY <1>3 DEF GoodFrames
  <2>3. f[i].bytes # <<>> => RunsFrom(g[i].bytes, LastByte(g[i - 1]))
    BY <1>3, <2>1, <2>2 DEF GoodFrames
  <2>4. QED
    BY <1>3, <2>1, <2>3 DEF GoodFrames
<1>4. CASE i = Len(f) + 1
  <2>1. g[i] = x /\ i - 1 = Len(f) /\ (Len(f) > 0 => g[i - 1] = f[Len(f)])
    BY <1>1, <1>4
  <2>2. x.bytes # <<>> => Len(f) > 0
    BY <1>1
  <2>3. QED
    BY <1>1, <1>4, <2>1, <2>2
<1>5. QED
  BY <1>1, <1>3, <1>4

\* What the frames say of the provider stays true once it has stopped.
LEMMA FramesKept ==
  ASSUME GoodFrames(Frames'), provider = "open" \/ UNCHANGED <<provider, sent>>
  PROVE  GoodFrames(Frames)'
BY DEF GoodFrames

\* A step that leaves the frames alone.
LEMMA FramesQuiet ==
  ASSUME FrameInv, UNCHANGED <<delivered, waiting, sequence, sentHead>>,
         stream' = "readable" => stream = "readable",
         provider = "open" \/ UNCHANGED <<provider, sent>>
  PROVE  FrameInv' /\ Position' = Position
<1>1. Frames' = Frames
  BY DEF Frames
<1>2. GoodFrames(Frames)'
  BY <1>1, FramesKept DEF FrameInv
<1>3. QED
  BY <1>1, <1>2 DEF FrameInv, Position

\* A generator that yields what goes on after the last frame.
LEMMA YieldKeepsBytes ==
  ASSUME TypeInv, NEW q \in Seq(1..MaxBodyBytes), NEW place \in {"yielded", "draining"},
         Yielded(q, place), Position' = Position, totalBytes' <= maxResponseBytes,
         RunsFrom(q, Position), Position + Len(q) = totalBytes'
  PROVE  BytesInv'
<1>1. Position \in Nat
  BY PositionTyped
<1>2. /\ payload'.bytes = Taken(q) /\ queue' = Left(q) /\ generator' = place
  BY DEF Yielded
<1>3. RunsFrom(Taken(q), Position)
  BY TakenAndLeft DEF RunsFrom
<1>4. RunsFrom(Left(q), Position + Len(Taken(q)))
  <2> SUFFICES ASSUME NEW i \in 1..Len(Left(q))
               PROVE  Left(q)[i] = Position + Len(Taken(q)) + i
    BY DEF RunsFrom
  <2>1. /\ Len(Taken(q)) \in Nat /\ Len(Left(q)) \in Nat
        /\ Len(Taken(q)) + Len(Left(q)) = Len(q)
        /\ Left(q)[i] = q[Len(Taken(q)) + i]
    BY TakenAndLeft
  <2>2. Len(Taken(q)) + i \in 1..Len(q)
    BY <2>1
  <2>3. q[Len(Taken(q)) + i] = Position + (Len(Taken(q)) + i)
    BY <2>2 DEF RunsFrom
  <2>4. QED
    BY <1>1, <2>1, <2>3
<1>5. Position + Len(Taken(q)) + Len(Left(q)) = totalBytes'
  <2>1. Len(Taken(q)) \in Nat /\ Len(Left(q)) \in Nat /\ Len(Taken(q)) + Len(Left(q)) = Len(q)
    BY TakenAndLeft
  <2>2. QED
    BY <1>1, <2>1
<1>6. QED
  BY <1>2, <1>3, <1>4, <1>5 DEF BytesInv

\* A generator that awaits a read with q in its queue.
LEMMA AwaitKeepsBytes ==
  ASSUME NEW q \in Seq(1..MaxBodyBytes), Awaits(q), payload.bytes = <<>>,
         Position \in Nat, Position' = Position, totalBytes' <= maxResponseBytes,
         RunsFrom(q, Position), Position + Len(q) = totalBytes'
  PROVE  BytesInv'
<1>1. payload'.bytes = <<>> /\ queue' = q /\ generator' = "reading"
  BY DEF Awaits
<1>2. Len(payload'.bytes) = 0
  BY <1>1
<1>3. RunsFrom(payload'.bytes, Position)
  BY <1>2 DEF RunsFrom
<1>4. QED
  BY <1>1, <1>2, <1>3 DEF BytesInv

\* A generator that ends with nothing left.
LEMMA EndKeepsBytes ==
  ASSUME Ended, queue = <<>>, Position \in Nat, Position' = Position,
         totalBytes' <= maxResponseBytes, Position = totalBytes'
  PROVE  BytesInv'
<1>1. payload'.bytes = <<>> /\ queue' = <<>>
  BY DEF Ended
<1>2. Len(payload'.bytes) = 0 /\ Len(queue') = 0
  BY <1>1
<1>3. RunsFrom(payload'.bytes, Position) /\ RunsFrom(queue', Position + 0)
  BY <1>2 DEF RunsFrom
<1>4. Position' + Len(payload'.bytes) + Len(queue') = totalBytes'
  <2>1. \A p \in Nat : p + 0 + 0 = p
    OBVIOUS
  <2>2. Position' + 0 + 0 = Position'
    BY <2>1
  <2>3. QED
    BY <1>2, <2>2
<1>5. /\ RunsFrom(payload'.bytes, Position')
      /\ RunsFrom(queue', Position' + Len(payload'.bytes))
  BY <1>2, <1>3
<1>6. QED
  BY <1>1, <1>4, <1>5 DEF BytesInv

\* A step that leaves the bytes alone.
LEMMA BytesQuiet ==
  ASSUME BytesInv, UNCHANGED <<queue, payload, totalBytes, generator>>, Position' = Position,
         stream' = "readable" => stream = "readable"
  PROVE  BytesInv'
BY DEF BytesInv

\* A pending payload that is empty is no bytes.
LEMMA QueueRuns ==
  ASSUME TypeInv, BytesInv, stream = "readable", generator # "rejecting",
         payload.bytes = <<>>
  PROVE  /\ RunsFrom(queue, Position) /\ Position + Len(queue) = totalBytes
         /\ totalBytes <= maxResponseBytes /\ queue \in Seq(1..MaxBodyBytes)
         /\ Position \in Nat
<1>1. Position \in Nat /\ Len(payload.bytes) = 0 /\ Position + 0 = Position
  BY PositionTyped
<1>2. QED
  BY <1>1 DEF BytesInv, TypeInv, ListTypes

\* A chunk goes on where the queue stopped.
LEMMA QueueGrows ==
  ASSUME NEW q \in Seq(1..MaxBodyBytes), NEW p \in Nat, NEW t \in Nat, NEW n \in Nat,
         t + n <= MaxBodyBytes, RunsFrom(q, p), p + Len(q) = t
  PROVE  LET r == q \o Bytes(t + 1, t + n)
         IN  /\ r \in Seq(1..MaxBodyBytes) /\ RunsFrom(r, p) /\ p + Len(r) = t + n
<1> DEFINE b == Bytes(t + 1, t + n)
           r == q \o b
<1>1. /\ b \in Seq(1..MaxBodyBytes) /\ Len(b) = n
      /\ \A i \in 1..n : b[i] = t + i
  BY BytesFacts, BoundsAssumption
<1> HIDE DEF b
<1>2. r \in Seq(1..MaxBodyBytes) /\ Len(r) = Len(q) + n /\ Len(q) \in Nat
  BY <1>1
<1>3. ASSUME NEW i \in 1..Len(r) PROVE r[i] = p + i
  <2>1. CASE i <= Len(q)
    <3>1. i \in 1..Len(q)
      BY <1>2, <2>1
    <3>2. r[i] = q[i]
      BY <1>1, <3>1
    <3>3. QED
      BY <3>1, <3>2 DEF RunsFrom
  <2>2. CASE ~(i <= Len(q))
    <3>1. i - Len(q) \in 1..n
      BY <1>2, <2>2
    <3>2. r[i] = b[i - Len(q)]
      BY <1>1, <1>2, <2>2
    <3>3. r[i] = t + (i - Len(q))
      BY <1>1, <3>1, <3>2
    <3> HIDE DEF r
    <3>4. QED
      BY <1>2, <3>3
  <2>3. QED
    BY <2>1, <2>2
<1> HIDE DEF r
<1>4. RunsFrom(r, p) /\ p + Len(r) = t + n
  <2>1. RunsFrom(r, p)
    BY <1>3 DEF RunsFrom
  <2>2. p + Len(r) = t + n
    BY <1>2
  <2>3. QED
    BY <2>1, <2>2
<1>5. QED
  BY <1>2, <1>4 DEF r, b

\* The head is the first frame.
LEMMA HeadGives ==
  ASSUME TypeInv, PlaceInv, FrameInv, HeadSealed, stream = "readable"
  PROVE  /\ Frames = <<>> /\ Frames' = <<Head0>> /\ sequence = 1
         /\ UNCHANGED <<provider, sent, payload, sequence, queue, totalBytes,
                        generator, stream>>
         /\ sentHead' /\ Position = 0 /\ Position' = 0
<1>1. /\ pull = "sealing head" /\ sentHead' /\ waiting' = <<Head0>>
      /\ UNCHANGED <<provider, sent, payload, sequence, queue, totalBytes, generator, stream,
                     delivered>>
  BY DEF HeadSealed, providerVars, generatorVars
<1>2. ~sentHead /\ sequence = 1 /\ Len(Frames) = 0
  BY <1>1 DEF PlaceInv, FrameInv
<1>3. Frames = <<>> /\ delivered \in Seq(Frame) /\ Len(delivered) \in Nat
  BY <1>2, FramesTyped DEF TypeInv, ListTypes
<1>4. delivered = <<>>
  <2>1. waiting \in Seq(Frame) /\ Len(waiting) \in Nat
    BY DEF TypeInv, ListTypes
  <2>2. Len(delivered) = 0
    BY <1>2, <1>3, <2>1, FramesTyped
  <2>3. QED
    BY <1>3, <2>2
<1>5. Frames' = <<Head0>>
  <2>1. Frames' = <<>> \o <<Head0>>
    BY <1>1, <1>4 DEF Frames
  <2>2. ASSUME NEW S, NEW x \in S PROVE <<>> \o <<x>> = <<x>>
    OBVIOUS
  <2>3. QED
    BY <2>1, <2>2
<1>6. Position' = 0
  <2>1. Frames' # <<>> /\ Frames'[Len(Frames')] = Head0
    BY <1>5
  <2>2. LastByte(Head0) = 0
    BY DEF LastByte, Head0
  <2>3. QED
    BY <2>1, <2>2 DEF Position
<1>7. QED
  BY <1>1, <1>2, <1>3, <1>5, <1>6 DEF Position

\* A sealed payload is one more frame.
LEMMA SealGives ==
  ASSUME TypeInv, PlaceInv, FrameInv, DataSealed, stream = "readable"
  PROVE  /\ Frames \in Seq(Frame) /\ Sealed \in Frame
         /\ Frames' = Append(Frames, Sealed)
         /\ sentHead' /\ Len(Frames) = sequence /\ sequence > 0 /\ sequence' = sequence + 1
         /\ payload' = NoPayload /\ stream' = IF payload.final THEN "closing" ELSE stream
         /\ generator \notin {"rejecting", "unstarted"}
         /\ Position = LastByte(Frames[Len(Frames)]) /\ Position' = LastByte(Sealed)
         /\ UNCHANGED <<provider, sent, queue, totalBytes, generator>>
<1>1. /\ pull = "sealing" /\ payload' = NoPayload /\ waiting' = <<Sealed>>
      /\ sequence' = sequence + 1 /\ stream' = IF payload.final THEN "closing" ELSE stream
      /\ UNCHANGED <<provider, sent, queue, totalBytes, generator, sentHead, delivered>>
  BY DEF DataSealed, providerVars, generatorVars
<1>2. waiting = <<>> /\ sentHead /\ generator \notin {"rejecting", "unstarted"}
  BY <1>1 DEF PlaceInv
<1>3. Frames = delivered /\ Frames \in Seq(Frame)
  BY <1>2, FramesTyped
<1>4. Sealed \in Frame
  BY DEF Sealed, Frame, TypeInv, ListTypes, CountTypes
<1>5. Frames' = Append(Frames, Sealed)
  <2>1. Frames' = delivered \o <<Sealed>>
    BY <1>1 DEF Frames
  <2>2. delivered \o <<Sealed>> = Append(delivered, Sealed)
    BY <1>3, <1>4
  <2>3. QED
    BY <1>3, <2>1, <2>2
<1>6. Len(Frames) = sequence /\ sequence > 0
  BY <1>2 DEF FrameInv, TypeInv, CountTypes
<1>7. Position = LastByte(Frames[Len(Frames)])
  BY <1>3, <1>6 DEF Position
<1>8. Position' = LastByte(Sealed)
  <2>1. Append(Frames, Sealed) # <<>>
    BY <1>3, <1>4
  <2>2. Append(Frames, Sealed)[Len(Append(Frames, Sealed))] = Sealed
    BY <1>3, <1>4
  <2>3. QED
    BY <1>5, <2>1, <2>2 DEF Position
<1>9. QED
  BY <1>1, <1>2, <1>3, <1>4, <1>5, <1>6, <1>7, <1>8

\* What a seal puts after the frames that are there.
LEMMA SealedBytes ==
  ASSUME TypeInv, PlaceInv, SourceInv, FrameInv, BytesInv, DataSealed, stream = "readable"
  PROVE  /\ Sealed.bytes = <<>> <=> payload.final
         /\ Sealed.bytes # <<>> => RunsFrom(Sealed.bytes, Position)
         /\ Len(Sealed.bytes) <= maxFramePayloadBytes
         /\ LastByte(Sealed) <= maxResponseBytes
         /\ ~payload.final => LastByte(Sealed) = Position + Len(payload.bytes)
         /\ payload.final => provider \in {"ended", "absent"} /\ Position = sent
<1>1. Sealed.bytes = payload.bytes /\ Sealed \in Frame /\ Position \in Nat
  BY SealGives, PositionTyped DEF Sealed
<1>2. pull = "sealing" /\ generator \notin {"rejecting", "unstarted"}
  BY SealGives DEF DataSealed
<1>3. /\ totalBytes <= maxResponseBytes
      /\ RunsFrom(payload.bytes, Position)
      /\ Position + Len(payload.bytes) + Len(queue) = totalBytes
      /\ generator = "finished" => queue = <<>>
  BY <1>2 DEF BytesInv
<1>4. /\ Len(payload.bytes) \in Nat /\ Len(queue) \in Nat
      /\ totalBytes \in Nat /\ arrived.bytes \in Nat /\ sent \in Nat
  BY BoundsAssumption DEF TypeInv, ListTypes, CountTypes
<1>5. CASE payload.final
  <2>1. payload.bytes = <<>> /\ generator = "finished"
    BY <1>2, <1>5 DEF PlaceInv
  <2>2. /\ provider \in {"ended", "absent"} /\ arrived.how = "none"
        /\ totalBytes + arrived.bytes = sent
    BY <2>1 DEF SourceInv
  <2>3. arrived.bytes = 0
    BY <2>2 DEF TypeInv, CountTypes
  <2>4. Len(payload.bytes) = 0 /\ Len(queue) = 0
    BY <1>3, <2>1
  <2>5. Position = sent
    BY <1>1, <1>3, <1>4, <2>2, <2>3, <2>4
  <2>6. LastByte(Sealed) = 0
    BY <1>1, <2>1 DEF LastByte
  <2>7. QED
    BY <1>1, <1>5, <2>1, <2>2, <2>4, <2>5, <2>6, PayloadAssumption, LimitAssumption
<1>6. CASE ~payload.final
  <2>1. payload.bytes # <<>> /\ Len(payload.bytes) <= maxFramePayloadBytes
    BY <1>2, <1>6 DEF PlaceInv
  <2>2. Len(payload.bytes) \in 1..Len(payload.bytes)
    BY <1>1, <1>4, <2>1, LastByteTyped
  <2>3. LastByte(Sealed) = Position + Len(payload.bytes)
    <3>1. LastByte(Sealed) = payload.bytes[Len(payload.bytes)]
      BY <1>1, <2>1 DEF LastByte
    <3>2. QED
      BY <1>3, <2>2, <3>1 DEF RunsFrom
  <2>4. Position + Len(payload.bytes) <= maxResponseBytes
    BY <1>1, <1>3, <1>4, LimitAssumption
  <2>5. QED
    BY <1>1, <1>3, <1>6, <2>1, <2>3, <2>4
<1>7. QED
  BY <1>5, <1>6

\* Every step keeps the frames good.
LEMMA FrameStep ==
  TypeInv /\ PlaceInv /\ SourceInv /\ FrameInv /\ BytesInv /\ [Next]_vars => FrameInv'
<1> SUFFICES ASSUME TypeInv, PlaceInv, SourceInv, FrameInv, BytesInv, [Next]_vars
             PROVE  FrameInv'
  OBVIOUS
<1>1. CASE ProviderSends
  BY <1>1, FramesQuiet DEF ProviderSends, pullVars, streamVars
<1>2. CASE ProviderStops
  BY <1>2, FramesQuiet DEF ProviderStops, pullVars, streamVars
<1>3. CASE Flush
  BY <1>3, FramesQuiet DEF Flush, providerVars, streamVars
<1>4. CASE ReadArrives
  BY <1>4, FramesQuiet, ReadArrivesGives DEF streamVars
<1>5. CASE ReadEnds
  BY <1>5, FramesQuiet DEF ReadEnds, providerVars, streamVars
<1>6. CASE ReadFails
  BY <1>6, FramesQuiet DEF ReadFails, providerVars, pullVars, streamVars
<1>7. CASE RejectNext
  BY <1>7, FramesQuiet DEF RejectNext, providerVars
<1>8. CASE Return
  BY <1>8, FramesQuiet DEF Return, pullVars
<1>9. CASE PullHead
  BY <1>9, FramesQuiet DEF PullHead, providerVars, streamVars
<1>10. CASE HeadSealed
  <2>1. CASE stream = "readable"
    <3>1. /\ Frames = <<>> /\ Frames' = <<Head0>> /\ sequence = 1 /\ sentHead'
          /\ UNCHANGED <<provider, sent, sequence>>
      BY <1>10, <2>1, HeadGives
    <3>2. GoodFrames(<<Head0>>)
      <4>1. Len(<<Head0>>) = 1 /\ <<Head0>>[1] = Head0
        OBVIOUS
      <4>2. \A i \in 1..1 : i = 1
        OBVIOUS
      <4>3. Head0.sequence = 1 - 1 /\ Head0.bytes = <<>> /\ ~Head0.final
        BY DEF Head0
      <4>4. LastByte(Head0) = 0 /\ Len(Head0.bytes) = 0
        BY <4>3 DEF LastByte
      <4>5. 0 <= maxFramePayloadBytes /\ 0 <= maxResponseBytes
        BY PayloadAssumption, LimitAssumption
      <4> HIDE DEF Head0
      <4>6. QED
        BY <4>1, <4>2, <4>3, <4>4, <4>5 DEF GoodFrames
    <3>3. GoodFrames(Frames)'
      BY <3>1, <3>2, FramesKept
    <3>4. Len(Frames') = 1 /\ \A i \in 1..Len(Frames') : ~Frames'[i].final
      BY <3>1 DEF Head0
    <3>5. QED
      BY <3>1, <3>3, <3>4 DEF FrameInv
  <2>2. CASE stream # "readable"
    <3>1. UNCHANGED <<delivered, waiting, stream, provider, sent>>
      BY <1>10, <2>2 DEF HeadSealed, providerVars
    <3>2. Frames' = Frames
      BY <3>1 DEF Frames
    <3>3. GoodFrames(Frames)'
      BY <3>1, <3>2, FramesKept DEF FrameInv
    <3>4. QED
      BY <2>2, <3>1, <3>3 DEF FrameInv
  <2>3. QED
    BY <2>1, <2>2
<1>11. CASE PullNext
  BY <1>11, FramesQuiet DEF PullNext, providerVars, streamVars
<1>12. CASE DataSealed
  <2>1. CASE stream = "readable"
    <3>1. /\ Frames \in Seq(Frame) /\ Sealed \in Frame
          /\ Frames' = Append(Frames, Sealed)
          /\ sentHead' /\ Len(Frames) = sequence /\ sequence > 0 /\ sequence' = sequence + 1
          /\ stream' = IF payload.final THEN "closing" ELSE stream
          /\ Position = LastByte(Frames[Len(Frames)])
          /\ UNCHANGED <<provider, sent>>
      BY <1>12, <2>1, SealGives
    <3>2. Sealed.sequence = sequence /\ (Sealed.final <=> payload.final)
      BY DEF Sealed
    <3>3. GoodFrames(Append(Frames, Sealed))
      <4>1. GoodFrames(Frames) /\ \A i \in 1..Len(Frames) : ~Frames[i].final
        BY <2>1 DEF FrameInv
      <4>2. /\ Sealed.bytes = <<>> <=> payload.final
            /\ Sealed.bytes # <<>> => RunsFrom(Sealed.bytes, Position)
            /\ Len(Sealed.bytes) <= maxFramePayloadBytes
            /\ LastByte(Sealed) <= maxResponseBytes
            /\ payload.final => provider \in {"ended", "absent"} /\ Position = sent
        BY <1>12, <2>1, SealedBytes
      <4>3. Sealed.bytes = <<>> <=> Len(Frames) = 0 \/ Sealed.final
        BY <3>1, <3>2, <4>2
      <4>4. Sealed.bytes # <<>> => RunsFrom(Sealed.bytes, LastByte(Frames[Len(Frames)]))
        BY <3>1, <4>2
      <4>5. Sealed.final => /\ Len(Frames) > 0 /\ provider \in {"ended", "absent"}
                            /\ LastByte(Frames[Len(Frames)]) = sent
        BY <3>1, <3>2, <4>2
      <4>6. QED
        BY <3>1, <3>2, <4>1, <4>2, <4>3, <4>4, <4>5, GoodAppend
    <3>4. GoodFrames(Frames)'
      BY <3>1, <3>3, FramesKept
    <3>5. CASE payload.final
      BY <3>1, <3>4, <3>5 DEF FrameInv
    <3>6. CASE ~payload.final
      <4>1. Len(Frames') = sequence'
        BY <3>1
      <4>2. \A i \in 1..Len(Frames') : ~Frames'[i].final
        <5>1. \A i \in 1..Len(Frames) : ~Frames[i].final
          BY <2>1 DEF FrameInv
        <5>2. \A i \in 1..Len(Frames') :
                Frames'[i] = Sealed \/ (i \in 1..Len(Frames) /\ Frames'[i] = Frames[i])
          BY <3>1
        <5>3. QED
          BY <3>2, <3>6, <5>1, <5>2
      <4>3. QED
        BY <3>1, <3>4, <4>1, <4>2 DEF FrameInv
    <3>7. QED
      BY <3>5, <3>6
  <2>2. CASE stream # "readable"
    BY <1>12, <2>2, FramesQuiet DEF DataSealed, providerVars
  <2>3. QED
    BY <2>1, <2>2
<1>13. CASE ConsumerReads
  <2>1. /\ delivered' = delivered \o waiting /\ waiting' = <<>>
        /\ UNCHANGED <<provider, sent, sequence, sentHead, stream>>
    BY <1>13 DEF ConsumerReads, providerVars, pullVars
  <2>2. Frames' = Frames
    BY <2>1 DEF Frames, TypeInv, ListTypes
  <2>3. GoodFrames(Frames)'
    BY <2>1, <2>2, FramesKept DEF FrameInv
  <2>4. QED
    BY <2>1, <2>2, <2>3 DEF FrameInv
<1>14. CASE ConsumerCancels
  <2>1. /\ stream' = "cancelled" /\ waiting' = <<>>
        /\ UNCHANGED <<sent, delivered>>
        /\ provider = "open" \/ provider' = provider
    BY <1>14 DEF ConsumerCancels, AbortReader
  <2>2. Frames' = delivered
    BY <2>1 DEF Frames, TypeInv, ListTypes
  <2>3. GoodFrames(delivered)
    BY PrefixGood DEF FrameInv, Frames, TypeInv, ListTypes
  <2>4. GoodFrames(Frames)'
    BY <2>1, <2>2, <2>3, FramesKept
  <2>5. QED
    BY <2>1, <2>4 DEF FrameInv
<1>15. CASE UNCHANGED vars
  BY <1>15, FramesQuiet DEF vars, providerVars, pullVars, streamVars
<1>16. CASE SealFails
  BY <1>16, FramesQuiet DEF SealFails, providerVars
<1>17. QED
  BY <1>1, <1>2, <1>3, <1>4, <1>5, <1>6, <1>7, <1>8, <1>9, <1>10, <1>11, <1>12, <1>13,
     <1>14, <1>15, <1>16 DEF Next, Runtime

\* Every step keeps the bytes in order.
LEMMA BytesStep ==
  TypeInv /\ PlaceInv /\ SourceInv /\ FrameInv /\ BytesInv /\ [Next]_vars => BytesInv'
<1> SUFFICES ASSUME TypeInv, PlaceInv, SourceInv, FrameInv, BytesInv, [Next]_vars
             PROVE  BytesInv'
  OBVIOUS
<1>1. CASE ProviderSends
  BY <1>1, FramesQuiet, BytesQuiet DEF ProviderSends, generatorVars, pullVars, streamVars
<1>2. CASE ProviderStops
  BY <1>2, FramesQuiet, BytesQuiet DEF ProviderStops, generatorVars, pullVars, streamVars
<1>3. CASE Flush
  <2> SUFFICES ASSUME stream' = "readable" PROVE BytesInv'
    BY DEF BytesInv
  <2>1. /\ generator = "reading" /\ Yielded(queue, "yielded")
        /\ UNCHANGED <<totalBytes, stream>> /\ Position' = Position
    BY <1>3, FlushGives, FramesQuiet DEF streamVars
  <2>2. payload.bytes = <<>>
    BY <1>3, FlushGives DEF PlaceInv
  <2>3. /\ RunsFrom(queue, Position) /\ Position + Len(queue) = totalBytes
        /\ totalBytes <= maxResponseBytes /\ queue \in Seq(1..MaxBodyBytes)
        /\ Position \in Nat
    BY <2>1, <2>2, QueueRuns
  <2>4. QED
    BY <2>1, <2>3, YieldKeepsBytes
<1>4. CASE ReadArrives
  <2> SUFFICES ASSUME stream' = "readable" PROVE BytesInv'
    BY DEF BytesInv
  <2> DEFINE n == arrived.bytes
             q == queue \o Bytes(totalBytes + 1, totalBytes + n)
  <2>1. /\ generator = "reading" /\ UNCHANGED stream /\ Position' = Position
        /\ totalBytes' = totalBytes + n
    BY <1>4, ReadArrivesGives, FramesQuiet DEF streamVars
  <2>2. payload.bytes = <<>>
    BY <2>1 DEF PlaceInv
  <2>3. /\ RunsFrom(queue, Position) /\ Position + Len(queue) = totalBytes
        /\ queue \in Seq(1..MaxBodyBytes) /\ Position \in Nat
    BY <2>1, <2>2, QueueRuns
  <2>4. totalBytes \in Nat /\ n \in Nat /\ totalBytes + n <= MaxBodyBytes
    <3>1. totalBytes + n <= sent /\ sent \in 0..MaxBodyBytes /\ totalBytes \in Nat /\ n \in Nat
      BY BoundsAssumption DEF TypeInv, CountTypes
    <3>2. QED
      BY <3>1, BoundsAssumption
  <2>5. q \in Seq(1..MaxBodyBytes) /\ RunsFrom(q, Position) /\ Position + Len(q) = totalBytes'
    BY <2>1, <2>3, <2>4, QueueGrows
  <2>6. \/ generator' = "rejecting"
        \/ totalBytes' <= maxResponseBytes /\ (Yielded(q, "yielded") \/ Awaits(q))
    BY <1>4, ReadArrivesGives
  <2> HIDE DEF q
  <2>7. CASE generator' = "rejecting"
    BY <2>7 DEF BytesInv
  <2>8. CASE totalBytes' <= maxResponseBytes /\ Yielded(q, "yielded")
    BY <2>1, <2>5, <2>8, YieldKeepsBytes
  <2>9. CASE totalBytes' <= maxResponseBytes /\ Awaits(q)
    BY <2>1, <2>2, <2>3, <2>5, <2>9, AwaitKeepsBytes
  <2>10. QED
    BY <2>6, <2>7, <2>8, <2>9
<1>5. CASE ReadEnds
  <2> SUFFICES ASSUME stream' = "readable" PROVE BytesInv'
    BY DEF BytesInv
  <2>1. /\ generator = "reading"
        /\ Yielded(queue, "draining") \/ (Ended /\ queue = <<>>)
        /\ UNCHANGED <<totalBytes, stream>> /\ Position' = Position
    BY <1>5, ReadEndsGives, FramesQuiet DEF streamVars
  <2>2. payload.bytes = <<>>
    BY <1>5, ReadEndsGives DEF PlaceInv
  <2>3. /\ RunsFrom(queue, Position) /\ Position + Len(queue) = totalBytes
        /\ totalBytes <= maxResponseBytes /\ queue \in Seq(1..MaxBodyBytes)
        /\ Position \in Nat
    BY <2>1, <2>2, QueueRuns
  <2>4. CASE Yielded(queue, "draining")
    BY <2>1, <2>3, <2>4, YieldKeepsBytes
  <2>5. CASE Ended /\ queue = <<>>
    <3>1. Len(queue) = 0 /\ Position = totalBytes
      BY <2>3, <2>5
    <3>2. QED
      BY <2>1, <2>3, <2>5, <3>1, EndKeepsBytes
  <2>6. QED
    BY <2>1, <2>4, <2>5
<1>6. CASE ReadFails
  BY <1>6 DEF ReadFails, BytesInv
<1>7. CASE RejectNext
  <2>1. stream' # "readable"
    BY <1>7 DEF RejectNext
  <2>2. QED
    BY <2>1 DEF BytesInv
<1>8. CASE Return
  BY <1>8 DEF Return, PlaceInv, BytesInv
<1>9. CASE PullHead
  BY <1>9, FramesQuiet, BytesQuiet DEF PullHead, providerVars, generatorVars, streamVars
<1>10. CASE HeadSealed
  <2>1. CASE stream = "readable"
    BY <1>10, <2>1, HeadGives, BytesQuiet
  <2>2. CASE stream # "readable"
    BY <1>10, <2>2 DEF HeadSealed, BytesInv
  <2>3. QED
    BY <2>1, <2>2
<1>11. CASE PullNext
  <2> SUFFICES ASSUME stream' = "readable" PROVE BytesInv'
    BY DEF BytesInv
  <2>1. /\ pull = "idle" /\ stream = "readable" /\ generator # "rejecting"
        /\ UNCHANGED <<totalBytes, stream>> /\ Position' = Position
    BY <1>11, ResumeGives, FramesQuiet DEF streamVars
  <2>2. payload.bytes = <<>>
    BY <2>1 DEF PlaceInv
  <2>3. /\ RunsFrom(queue, Position) /\ Position + Len(queue) = totalBytes
        /\ totalBytes <= maxResponseBytes /\ queue \in Seq(1..MaxBodyBytes)
        /\ Position \in Nat
    BY <2>1, <2>2, QueueRuns
  <2>4. generator = "unstarted" => queue = <<>>
    BY <2>1 DEF BytesInv
  <2>5. \/ Yielded(queue, "yielded") \/ Yielded(queue, "draining")
        \/ Ended /\ queue = <<>>
        \/ Awaits(queue)
    BY <1>11, <2>4, ResumeGives
  <2>6. CASE Yielded(queue, "yielded") \/ Yielded(queue, "draining")
    BY <2>1, <2>3, <2>6, YieldKeepsBytes
  <2>7. CASE Ended /\ queue = <<>>
    <3>1. Len(queue) = 0 /\ Position = totalBytes
      BY <2>3, <2>7
    <3>2. QED
      BY <2>1, <2>3, <2>7, <3>1, EndKeepsBytes
  <2>8. CASE Awaits(queue)
    BY <2>1, <2>2, <2>3, <2>8, AwaitKeepsBytes
  <2>9. QED
    BY <2>5, <2>6, <2>7, <2>8
<1>12. CASE DataSealed
  <2>1. CASE stream = "readable" /\ ~payload.final
    <3>1. /\ payload' = NoPayload /\ Position' = LastByte(Sealed)
          /\ generator # "rejecting" /\ UNCHANGED <<queue, totalBytes, generator>>
      BY <1>12, <2>1, SealGives
    <3>2. Position' = Position + Len(payload.bytes)
      BY <1>12, <2>1, <3>1, SealedBytes
    <3>3. payload'.bytes = <<>> /\ Len(payload'.bytes) = 0
      BY <3>1 DEF NoPayload
    <3>4. RunsFrom(payload'.bytes, Position')
      BY <3>3 DEF RunsFrom
    <3>5. Position' \in Nat /\ Position' + Len(payload'.bytes) = Position'
      <4>1. Position \in Nat /\ Len(payload.bytes) \in Nat
        BY PositionTyped DEF TypeInv, ListTypes
      <4>2. Position' \in Nat
        BY <3>2, <4>1
      <4>3. \A p \in Nat : p + 0 = p
        OBVIOUS
      <4>4. QED
        BY <3>3, <4>2, <4>3
    <3>6. /\ totalBytes <= maxResponseBytes
          /\ RunsFrom(queue, Position + Len(payload.bytes))
          /\ Position + Len(payload.bytes) + Len(queue) = totalBytes
          /\ generator \in {"unstarted", "finished"} => queue = <<>>
      BY <2>1, <3>1 DEF BytesInv
    <3>7. /\ RunsFrom(queue', Position' + Len(payload'.bytes))
          /\ Position' + Len(payload'.bytes) + Len(queue') = totalBytes'
      BY <3>1, <3>2, <3>5, <3>6
    <3>8. QED
      BY <3>1, <3>4, <3>6, <3>7 DEF BytesInv
  <2>2. CASE ~(stream = "readable" /\ ~payload.final)
    BY <1>12, <2>2 DEF DataSealed, BytesInv
  <2>3. QED
    BY <2>1, <2>2
<1>13. CASE ConsumerReads
  <2>1. Frames' = Frames
    BY <1>13 DEF ConsumerReads, Frames, TypeInv, ListTypes
  <2>2. Position' = Position
    BY <2>1 DEF Position
  <2>3. QED
    BY <1>13, <2>2, BytesQuiet DEF ConsumerReads, generatorVars, pullVars
<1>14. CASE ConsumerCancels
  BY <1>14 DEF ConsumerCancels, BytesInv
<1>15. CASE UNCHANGED vars
  BY <1>15, FramesQuiet, BytesQuiet DEF vars, providerVars, generatorVars, pullVars,
     streamVars
<1>16. CASE SealFails
  <2>1. stream' # "readable"
    BY <1>16 DEF SealFails
  <2>2. QED
    BY <2>1 DEF BytesInv
<1>17. QED
  BY <1>1, <1>2, <1>3, <1>4, <1>5, <1>6, <1>7, <1>8, <1>9, <1>10, <1>11, <1>12, <1>13,
     <1>14, <1>15, <1>16 DEF Next, Runtime

-----------------------------------------------------------------------------
\* The inductive invariant.
IndInv == TypeInv /\ PlaceInv /\ SourceInv /\ FrameInv /\ BytesInv

(***************************************************************************)
(* The inductive invariant holds, for every payload size, limit, length of  *)
(* the body and size of its chunks.                                         *)
(***************************************************************************)
THEOREM Inductive == Spec => []IndInv
<1>1. Init => IndInv
  <2> SUFFICES ASSUME Init PROVE IndInv
    OBVIOUS
  <2>1. TypeInv
    BY InitTyped
  <2>2. PlaceInv /\ SourceInv
    BY DEF Init, PlaceInv, SourceInv, NoPayload, Nothing
  <2>3. Frames = <<>> /\ Len(Frames) = 0
    BY DEF Init, Frames
  <2>4. FrameInv
    BY <2>3 DEF Init, FrameInv, GoodFrames
  <2>5. BytesInv
    <3>1. Position = 0 /\ payload.bytes = <<>> /\ queue = <<>> /\ totalBytes = 0
      BY <2>3 DEF Init, Position, NoPayload
    <3>2. Len(payload.bytes) = 0 /\ Len(queue) = 0
      BY <3>1
    <3>3. RunsFrom(payload.bytes, Position) /\ RunsFrom(queue, Position + Len(payload.bytes))
      BY <3>2 DEF RunsFrom
    <3>4. /\ Position + Len(payload.bytes) + Len(queue) = totalBytes
          /\ totalBytes <= maxResponseBytes
      BY <3>1, <3>2, LimitAssumption
    <3>5. QED
      BY <3>1, <3>3, <3>4 DEF BytesInv
  <2>6. QED
    BY <2>1, <2>2, <2>4, <2>5 DEF IndInv
<1>2. IndInv /\ [Next]_vars => IndInv'
  BY TypeStep, PlaceStep, SourceStep, FrameStep, BytesStep DEF IndInv
<1>3. QED
  BY <1>1, <1>2, PTL DEF Spec

(***************************************************************************)
(* No handler of the stream, generator, provider or consumer leaves a       *)
(* variable outside its type: one read at most is open on the reader.       *)
(***************************************************************************)
THEOREM TypeCorrect == Spec => []TypeOK
<1>1. IndInv => TypeOK
  BY DEF IndInv, TypeInv, SwitchTypes, CountTypes, ListTypes, TypeOK
<1>2. QED
  BY <1>1, Inductive, PTL

(***************************************************************************)
(* However chunks, flushes, seals, reads and a cancel interleave,           *)
(* sealProviderResponse puts the provider's bytes into its frames in order, *)
(* none lost and none twice, within the padding and the limit.              *)
(***************************************************************************)
THEOREM FramesKeptInOrder == Spec => []FramesInOrder
<1>1. IndInv => FramesInOrder
  <2> SUFFICES ASSUME IndInv PROVE FramesInOrder
    OBVIOUS
  <2>1. Frames \in Seq(Frame) /\ DOMAIN Frames = 1..Len(Frames) /\ GoodFrames(Frames)
    BY FramesTyped, SMTT(30) DEF IndInv, FrameInv
  <2>2. SUFFICES ASSUME NEW i \in 1..Len(Frames), Frames[i].bytes # <<>>
                 PROVE  LET before == LastByte(Frames[i - 1]) IN
                        Frames[i].bytes = Bytes(before + 1, before + Len(Frames[i].bytes))
    BY <2>1 DEF FramesInOrder, GoodFrames
  <2> DEFINE before == LastByte(Frames[i - 1])
             bytes == Frames[i].bytes
  <2>3. i # 1 /\ RunsFrom(bytes, before)
    BY <2>1, <2>2 DEF GoodFrames
  <2>4. i - 1 \in 1..Len(Frames) /\ Len(Frames) \in Nat
    BY <2>1, <2>2, <2>3
  <2>5. Frames[i] \in Frame /\ Frames[i - 1] \in Frame
    BY <2>1, <2>2, <2>4, ElementOfSeq
  <2>6. before \in Nat
    BY <2>5, LastByteTyped
  <2>7. bytes \in Seq(1..MaxBodyBytes)
    BY <2>5 DEF Frame
  <2> HIDE DEF before, bytes
  <2>8. Len(bytes) \in Nat /\ bytes = [j \in 1..Len(bytes) |-> bytes[j]]
    BY <2>7
  <2>9. Bytes(before + 1, before + Len(bytes)) = [j \in 1..Len(bytes) |-> before + j]
    <3>1. (before + Len(bytes)) - (before + 1) + 1 = Len(bytes)
      BY <2>6, <2>8
    <3>2. \A j \in 1..Len(bytes) : before + 1 + j - 1 = before + j
      BY <2>6, <2>8
    <3>3. QED
      BY <3>1, <3>2 DEF Bytes
  <2>10. [j \in 1..Len(bytes) |-> bytes[j]] = [j \in 1..Len(bytes) |-> before + j]
    BY <2>3 DEF RunsFrom
  <2>11. bytes = Bytes(before + 1, before + Len(bytes))
    BY <2>8, <2>9, <2>10, SMTT(30)
  <2>12. QED
    BY <2>11 DEF before, bytes
<1>2. QED
  BY <1>1, Inductive, PTL

(***************************************************************************)
(* A final frame is only ever sealed for a body that its provider ended,    *)
(* and after all of its bytes: no cancel, failure or limit makes one.       *)
(***************************************************************************)
THEOREM FinalFramesTruthful == Spec => []FinalFrameIsTruthful
<1>1. IndInv => FinalFrameIsTruthful
  <2> SUFFICES ASSUME IndInv PROVE FinalFrameIsTruthful
    OBVIOUS
  <2>1. DOMAIN Frames = 1..Len(Frames) /\ GoodFrames(Frames)
    BY FramesTyped DEF IndInv, FrameInv
  <2>2. QED
    BY <2>1 DEF FinalFrameIsTruthful, GoodFrames
<1>2. QED
  BY <1>1, Inductive, PTL
-----------------------------------------------------------------------------
(* ByteQueue.  The bytes carry the numbers under which they were pushed, so  *)
(* that the invariant is the property: what has been returned is numbered    *)
(* from 1, and the chunks, from firstOffset on, with what comes next.        *)

\* The inductive invariant of the queue.
QueueInv ==
  /\ chunks \in Seq(Seq(Nat)) /\ output \in Seq(Nat) /\ taken \in Seq(Nat)
  /\ {firstOffset, totalLength, missing} \subseteq Nat
  /\ BytesInOrder

\* What Append and Tail do to a sequence.
LEMMA Appended ==
  ASSUME NEW S, NEW s \in Seq(S), NEW e \in S
  PROVE  /\ Append(s, e) \in Seq(S) /\ Len(s) \in Nat /\ Len(Append(s, e)) = Len(s) + 1
         /\ \A k \in 1..Len(s) : Append(s, e)[k] = s[k]
         /\ Append(s, e)[Len(s) + 1] = e /\ Append(s, e) # <<>>
         /\ DOMAIN s = 1..Len(s) /\ DOMAIN Append(s, e) = 1..(Len(s) + 1)
OBVIOUS

LEMMA PushKeeps == ASSUME QueueInv, NEW n \in 0..MaxPushBytes, Push(n) PROVE QueueInv'
<1>1. CASE n = 0
  BY <1>1 DEF Push, QueueInv, BytesInOrder, GoesOnAfter, Returned
<1>2. CASE n # 0
  <2> DEFINE new == [i \in 1..n |-> Pushed + i]
             c == Append(chunks, new)
  <2>1. /\ n \in Nat /\ n > 0 /\ Len(Returned) \in Nat /\ Pushed \in Nat
        /\ Returned' = Returned /\ Pushed = Len(Returned) + totalLength
    BY <1>2, QueueAssumption DEF QueueInv, Push, Pushed, Returned
  <2>2. /\ new \in Seq(Nat) /\ Len(new) = n /\ DOMAIN new = 1..n
        /\ \A i \in 1..n : new[i] = Pushed + i
    <3>1. \A i \in 1..n : Pushed + i \in Nat
      BY <2>1
    <3> QED BY <2>1, <3>1
  <2> HIDE DEF new
  <2>3. /\ c \in Seq(Seq(Nat)) /\ Len(chunks) \in Nat /\ Len(c) = Len(chunks) + 1
        /\ \A k \in 1..Len(chunks) : c[k] = chunks[k]
        /\ c[Len(chunks) + 1] = new /\ DOMAIN c = 1..(Len(chunks) + 1)
        /\ DOMAIN chunks = 1..Len(chunks) /\ c # <<>>
    <3> DEFINE Chunk == Seq(Nat)
    <3>1. chunks \in Seq(Chunk) /\ new \in Chunk
      BY <2>2 DEF QueueInv
    <3> HIDE DEF Chunk
    <3>2. /\ c \in Seq(Chunk) /\ Len(chunks) \in Nat /\ Len(c) = Len(chunks) + 1
          /\ \A k \in 1..Len(chunks) : c[k] = chunks[k]
          /\ c[Len(chunks) + 1] = new /\ DOMAIN c = 1..(Len(chunks) + 1)
          /\ DOMAIN chunks = 1..Len(chunks) /\ c # <<>>
      BY <3>1, Appended
    <3> USE DEF Chunk
    <3> QED BY <3>2
  <2>4. /\ chunks' = c /\ totalLength' = totalLength + n
        /\ UNCHANGED <<firstOffset, output, missing, taken>>
    BY <1>2 DEF Push, new
  <2> HIDE DEF c
  <2>5. new[1] = Pushed + 1 /\ new[n] = Pushed + n /\ LastOf(new) = Pushed + n /\ new # <<>>
    BY <2>1, <2>2 DEF LastOf
  <2>6. CASE chunks = <<>>
    <3>1. firstOffset = 0 /\ totalLength = 0 /\ Len(chunks) = 0
      BY <2>6 DEF QueueInv, BytesInOrder, GoesOnAfter
    <3>2. GoesOnAfter(Len(Returned))'
      <4>1. DOMAIN c = {1} /\ c[1] = new /\ Len(c) = 1 /\ c # <<>>
        BY <2>3, <3>1
      <4>2. totalLength' = n /\ firstOffset' = 0 /\ Pushed = Len(Returned)
        BY <2>1, <2>4, <3>1
      <4>3. \A i \in DOMAIN new : new[i] = new[1] + i - 1
        BY <2>1, <2>2, <2>5
      <4>4. 0 < Len(new) /\ new[0 + 1] = Len(Returned) + 1 /\ LastOf(new) = Len(Returned) + n
        BY <2>1, <2>2, <2>5, <4>2
      <4>5. \A k \in DOMAIN c :
              /\ c[k] # <<>>
              /\ \A i \in DOMAIN c[k] : c[k][i] = c[k][1] + i - 1
              /\ k > 1 => c[k][1] = LastOf(c[k - 1]) + 1
        BY <2>5, <4>1, <4>3
      <4> QED BY <2>1, <2>4, <4>1, <4>2, <4>4, <4>5 DEF GoesOnAfter
    <3> QED BY <2>1, <2>3, <2>4, <3>1, <3>2 DEF QueueInv, BytesInOrder
  <2>7. CASE chunks # <<>>
    <3>1. Len(chunks) > 0 /\ LastOf(chunks[Len(chunks)]) = Pushed
      BY <2>1, <2>3, <2>7 DEF QueueInv, BytesInOrder, GoesOnAfter
    <3>2. ASSUME NEW k \in DOMAIN c
          PROVE  /\ c[k] # <<>>
                 /\ \A i \in DOMAIN c[k] : c[k][i] = c[k][1] + i - 1
                 /\ k > 1 => c[k][1] = LastOf(c[k - 1]) + 1
      <4>1. CASE k \in 1..Len(chunks)
        <5>1. k > 1 => k - 1 \in 1..Len(chunks)
          BY <4>1, <2>3
        <5>2. c[k] = chunks[k] /\ (k > 1 => c[k - 1] = chunks[k - 1]) /\ k \in DOMAIN chunks
          BY <4>1, <5>1, <2>3
        <5>3. /\ chunks[k] # <<>>
              /\ \A i \in DOMAIN chunks[k] : chunks[k][i] = chunks[k][1] + i - 1
              /\ k > 1 => chunks[k][1] = LastOf(chunks[k - 1]) + 1
          BY <5>2 DEF QueueInv, BytesInOrder, GoesOnAfter
        <5> QED BY <5>2, <5>3
      <4>2. CASE k = Len(chunks) + 1
        <5>1. c[k] = new /\ c[k - 1] = chunks[Len(chunks)]
          BY <4>2, <2>3, <3>1
        <5>2. new[1] = LastOf(c[k - 1]) + 1
          BY <5>1, <2>5, <3>1
        <5>3. \A i \in DOMAIN new : new[i] = new[1] + i - 1
          BY <2>1, <2>2, <2>5
        <5> QED BY <5>1, <5>2, <5>3, <2>5
      <4> QED BY <2>3, <4>1, <4>2
    <3>3. GoesOnAfter(Len(Returned))'
      <4>1. c[1] = chunks[1] /\ c[Len(c)] = new
        BY <2>3, <3>1
      <4>2. /\ firstOffset < Len(chunks[1])
            /\ chunks[1][firstOffset + 1] = Len(Returned) + 1
        BY <2>7 DEF QueueInv, BytesInOrder, GoesOnAfter
      <4>3. Len(Returned) + totalLength' = Pushed + n
        BY <2>1, <2>4 DEF QueueInv
      <4> QED
        BY <2>1, <2>3, <2>4, <2>5, <3>2, <4>1, <4>2, <4>3 DEF GoesOnAfter
    <3> QED BY <2>1, <2>3, <2>4, <3>3 DEF QueueInv, BytesInOrder
  <2> QED BY <2>6, <2>7
<1> QED BY <1>1, <1>2

\* The shortcuts of a copy.
LEMMA CopyGives ==
  ASSUME QueueInv, Copy
  PROVE  \E copied \in Nat :
           /\ copied > 0 /\ copied <= missing /\ chunks # <<>>
           /\ firstOffset + copied <= Len(chunks[1])
           /\ output' = output \o SubSeq(chunks[1], firstOffset + 1, firstOffset + copied)
           /\ missing' = missing - copied /\ totalLength' = totalLength - copied
           /\ taken' = taken
           /\ ShiftFirst(firstOffset + copied)
<1> DEFINE available == Len(Head(chunks)) - firstOffset
           copied == Lesser(available, missing)
<1>1. chunks # <<>>
  BY DEF QueueInv, BytesInOrder, GoesOnAfter, Copy
<1>2. Head(chunks) = chunks[1] /\ chunks[1] \in Seq(Nat) /\ Len(chunks[1]) \in Nat
  <2>1. 1 \in 1..Len(chunks) /\ Head(chunks) = chunks[1]
    BY <1>1 DEF QueueInv
  <2>2. chunks[1] \in Seq(Nat)
    BY <2>1, ElementOfSeq DEF QueueInv
  <2> QED BY <2>1, <2>2
<1>3. firstOffset < Len(chunks[1])
  BY <1>1 DEF QueueInv, BytesInOrder, GoesOnAfter
<1>4. firstOffset \in Nat /\ missing \in Nat /\ missing > 0
  BY DEF QueueInv, Copy
<1>5. /\ copied \in Nat /\ copied > 0 /\ copied <= missing
      /\ firstOffset + copied <= Len(chunks[1])
  BY <1>2, <1>3, <1>4 DEF Lesser
<1>6. /\ output' = output \o SubSeq(Head(chunks), firstOffset + 1, firstOffset + copied)
      /\ missing' = missing - copied /\ totalLength' = totalLength - copied
      /\ taken' = taken /\ ShiftFirst(firstOffset + copied)
  BY DEF Copy
<1> QED BY <1>1, <1>2, <1>5, <1>6

\* The parts of the invariant that are about one chunk.
LEMMA ChunkFacts ==
  ASSUME QueueInv, NEW k \in 1..Len(chunks)
  PROVE  /\ chunks[k] \in Seq(Nat) /\ Len(chunks[k]) \in Nat /\ Len(chunks[k]) > 0
         /\ DOMAIN chunks[k] = 1..Len(chunks[k]) /\ chunks[k][1] \in Nat
         /\ \A i \in 1..Len(chunks[k]) : chunks[k][i] = chunks[k][1] + i - 1
         /\ k > 1 => chunks[k][1] = LastOf(chunks[k - 1]) + 1
<1>1. chunks[k] \in Seq(Nat)
  BY ElementOfSeq DEF QueueInv
<1>2. k \in DOMAIN chunks
  <2> DEFINE Chunk == Seq(Nat)
  <2>1. chunks \in Seq(Chunk)
    BY DEF QueueInv
  <2> HIDE DEF Chunk
  <2> QED BY <2>1
<1>3. /\ chunks[k] # <<>>
      /\ \A i \in DOMAIN chunks[k] : chunks[k][i] = chunks[k][1] + i - 1
      /\ k > 1 => chunks[k][1] = LastOf(chunks[k - 1]) + 1
  BY <1>2 DEF QueueInv, BytesInOrder, GoesOnAfter
<1>4. Len(chunks[k]) \in Nat /\ Len(chunks[k]) > 0 /\ DOMAIN chunks[k] = 1..Len(chunks[k])
  BY <1>1, <1>3
<1>5. chunks[k][1] \in Nat
  BY <1>1, <1>4
<1> QED BY <1>1, <1>3, <1>4, <1>5

\* Numbered bytes and a slice of the next of them.
LEMMA NextBytes ==
  ASSUME NEW r \in Seq(Nat), NEW slice \in Seq(Nat), RunsFrom(r, 0),
         RunsFrom(slice, Len(r))
  PROVE  /\ r \o slice \in Seq(Nat) /\ Len(r \o slice) = Len(r) + Len(slice)
         /\ RunsFrom(r \o slice, 0)
<1>1. /\ Len(r) \in Nat /\ Len(slice) \in Nat
      /\ r \o slice \in Seq(Nat) /\ Len(r \o slice) = Len(r) + Len(slice)
      /\ \A i \in 1..(Len(r) + Len(slice)) :
           (r \o slice)[i] = IF i <= Len(r) THEN r[i] ELSE slice[i - Len(r)]
  OBVIOUS
<1>2. ASSUME NEW i \in 1..(Len(r) + Len(slice)) PROVE (r \o slice)[i] = 0 + i
  <2>1. CASE i <= Len(r)
    <3>1. i \in 1..Len(r)
      BY <1>1, <2>1
    <3> QED BY <1>1, <2>1, <3>1 DEF RunsFrom
  <2>2. CASE ~(i <= Len(r))
    <3>1. i - Len(r) \in 1..Len(slice) /\ Len(r) + (i - Len(r)) = 0 + i
      BY <1>1, <2>2
    <3>2. slice[i - Len(r)] = Len(r) + (i - Len(r))
      BY <3>1 DEF RunsFrom
    <3> QED BY <1>1, <2>2, <3>1, <3>2
  <2> QED BY <2>1, <2>2
<1> QED BY <1>1, <1>2 DEF RunsFrom

\* The slice of a chunk with numbered bytes.
LEMMA SliceRuns ==
  ASSUME NEW c \in Seq(Nat), NEW f \in Nat, NEW m \in Nat, f + m <= Len(c), NEW d,
         \A i \in 1..Len(c) : c[i] = d + i - f, d \in Nat
  PROVE  /\ SubSeq(c, f + 1, f + m) \in Seq(Nat)
         /\ Len(SubSeq(c, f + 1, f + m)) = m
         /\ RunsFrom(SubSeq(c, f + 1, f + m), d)
<1>1. /\ SubSeq(c, f + 1, f + m) \in Seq(Nat) /\ Len(SubSeq(c, f + 1, f + m)) = m
      /\ \A i \in 1..m : SubSeq(c, f + 1, f + m)[i] = c[f + i]
  OBVIOUS
<1>2. ASSUME NEW i \in 1..m PROVE c[f + i] = d + i
  <2>1. f + i \in 1..Len(c)
    OBVIOUS
  <2>2. d + (f + i) - f = d + i
    OBVIOUS
  <2> QED BY <2>1, <2>2
<1> QED BY <1>1, <1>2 DEF RunsFrom

\* What has left the queue, and the bytes of the first chunk.
LEMMA ReturnedFacts ==
  ASSUME QueueInv
  PROVE  Returned \in Seq(Nat) /\ Len(Returned) \in Nat /\ RunsFrom(Returned, 0)
<1>1. Returned \in Seq(Nat)
  BY DEF QueueInv, Returned
<1>2. Len(Returned) \in Nat /\ DOMAIN Returned = 1..Len(Returned)
  BY <1>1
<1> QED BY <1>1, <1>2 DEF QueueInv, BytesInOrder, RunsFrom

LEMMA FirstChunk ==
  ASSUME QueueInv, chunks # <<>>
  PROVE  /\ 1 \in 1..Len(chunks) /\ firstOffset \in Nat /\ firstOffset < Len(chunks[1])
         /\ \A i \in 1..Len(chunks[1]) : chunks[1][i] = Len(Returned) + i - firstOffset
<1>1. 1 \in 1..Len(chunks)
  <2> DEFINE Chunk == Seq(Nat)
  <2>1. chunks \in Seq(Chunk)
    BY DEF QueueInv
  <2> HIDE DEF Chunk
  <2> QED BY <2>1
<1>2. /\ firstOffset \in Nat /\ firstOffset < Len(chunks[1])
      /\ chunks[1][firstOffset + 1] = Len(Returned) + 1
  BY DEF QueueInv, BytesInOrder, GoesOnAfter
<1>3. /\ Len(chunks[1]) \in Nat /\ chunks[1][1] \in Nat
      /\ \A i \in 1..Len(chunks[1]) : chunks[1][i] = chunks[1][1] + i - 1
  BY <1>1, ChunkFacts
<1>4. PICK first \in Nat, returned \in Nat : first = chunks[1][1] /\ returned = Len(Returned)
  BY <1>3, ReturnedFacts
<1>5. firstOffset + 1 \in 1..Len(chunks[1])
  BY <1>2, <1>3
<1>6. first + (firstOffset + 1) - 1 = returned + 1
  BY <1>2, <1>3, <1>4, <1>5
<1>7. first = returned + 1 - firstOffset
  BY <1>2, <1>6
<1>8. ASSUME NEW i \in 1..Len(chunks[1])
      PROVE  first + i - 1 = returned + i - firstOffset
  BY <1>2, <1>3, <1>7
<1> QED BY <1>1, <1>2, <1>3, <1>4, <1>8

\* Concatenation is associative.
LEMMA Associates ==
  ASSUME NEW a \in Seq(Nat), NEW b \in Seq(Nat), NEW c \in Seq(Nat)
  PROVE  a \o (b \o c) = (a \o b) \o c
BY SMTT(30)

\* A copy returns the bytes that follow.
LEMMA CopyReturns ==
  ASSUME QueueInv, NEW m \in Nat, chunks # <<>>, firstOffset + m <= Len(chunks[1]),
         output' = output \o SubSeq(chunks[1], firstOffset + 1, firstOffset + m),
         taken' = taken
  PROVE  /\ output' \in Seq(Nat) /\ Returned' \in Seq(Nat)
         /\ Len(Returned') = Len(Returned) + m
         /\ \A i \in DOMAIN Returned' : Returned'[i] = i
<1>1. /\ chunks[1] \in Seq(Nat) /\ firstOffset \in Nat /\ Len(Returned) \in Nat
      /\ \A i \in 1..Len(chunks[1]) : chunks[1][i] = Len(Returned) + i - firstOffset
  BY FirstChunk, ChunkFacts, ReturnedFacts
<1>2. PICK slice \in Seq(Nat) :
         /\ slice = SubSeq(chunks[1], firstOffset + 1, firstOffset + m)
         /\ Len(slice) = m /\ RunsFrom(slice, Len(Returned))
  <2> DEFINE c == chunks[1]
             d == Len(Returned)
  <2>1. /\ c \in Seq(Nat) /\ d \in Nat /\ firstOffset \in Nat /\ firstOffset + m <= Len(c)
        /\ \A i \in 1..Len(c) : c[i] = d + i - firstOffset
    BY <1>1
  <2> HIDE DEF c, d
  <2>2. /\ SubSeq(c, firstOffset + 1, firstOffset + m) \in Seq(Nat)
        /\ Len(SubSeq(c, firstOffset + 1, firstOffset + m)) = m
        /\ RunsFrom(SubSeq(c, firstOffset + 1, firstOffset + m), d)
    BY <2>1, SliceRuns
  <2> QED BY <2>2 DEF c, d
<1>3. output \in Seq(Nat) /\ taken \in Seq(Nat)
  BY DEF QueueInv
<1>4. output' = output \o slice /\ Returned' = taken \o (output \o slice)
  BY <1>2 DEF Returned
<1>5. Returned' = Returned \o slice
  BY <1>2, <1>3, <1>4, Associates DEF Returned
<1>6. /\ Returned \o slice \in Seq(Nat) /\ Len(Returned \o slice) = Len(Returned) + Len(slice)
      /\ RunsFrom(Returned \o slice, 0)
  BY <1>2, ReturnedFacts, NextBytes
<1>7. output \o slice \in Seq(Nat)
  BY <1>2, <1>3
<1>8. DOMAIN Returned' = 1..Len(Returned') /\ RunsFrom(Returned', 0) /\ Returned' \in Seq(Nat)
  BY <1>5, <1>6
<1>9. ASSUME NEW i \in DOMAIN Returned' PROVE Returned'[i] = i
  <2>1. Returned'[i] = 0 + i
    BY <1>8 DEF RunsFrom
  <2>2. i \in Int
    BY <1>8
  <2> QED BY <2>1, <2>2
<1> QED BY <1>2, <1>4, <1>5, <1>6, <1>7, <1>8, <1>9

\* What Tail does to a sequence.
LEMMA Tailed ==
  ASSUME NEW S, NEW s \in Seq(S), s # <<>>
  PROVE  /\ Tail(s) \in Seq(S) /\ Len(s) \in Nat /\ Len(s) > 0
         /\ Len(Tail(s)) = Len(s) - 1
         /\ \A k \in 1..(Len(s) - 1) : Tail(s)[k] = s[k + 1]
         /\ DOMAIN Tail(s) = 1..(Len(s) - 1)
         /\ Tail(s) = <<>> <=> Len(s) = 1
<1>1. /\ Tail(s) \in Seq(S) /\ Len(s) \in Nat /\ Len(s) > 0
      /\ Len(Tail(s)) = Len(s) - 1
      /\ \A k \in 1..(Len(s) - 1) : Tail(s)[k] = s[k + 1]
  OBVIOUS
<1>2. DOMAIN Tail(s) = 1..(Len(s) - 1)
  BY <1>1
<1>3. Tail(s) = <<>> <=> Len(Tail(s)) = 0
  BY <1>1, EmptySeq
<1>4. Len(s) - 1 = 0 <=> Len(s) = 1
  BY <1>1
<1> QED BY <1>1, <1>2, <1>3, <1>4

\* A step of `take`: what is left goes on after the bytes copied.
LEMMA CopyKeeps == ASSUME QueueInv, Copy PROVE QueueInv'
<1>1. PICK m \in Nat :
         /\ m > 0 /\ m <= missing /\ chunks # <<>>
         /\ firstOffset + m <= Len(chunks[1])
         /\ output' = output \o SubSeq(chunks[1], firstOffset + 1, firstOffset + m)
         /\ missing' = missing - m /\ totalLength' = totalLength - m
         /\ taken' = taken
         /\ ShiftFirst(firstOffset + m)
  BY CopyGives
<1>2. /\ output' \in Seq(Nat) /\ Returned' \in Seq(Nat)
      /\ Len(Returned') = Len(Returned) + m
      /\ \A i \in DOMAIN Returned' : Returned'[i] = i
  BY <1>1, CopyReturns
<1>3. PICK returned \in Nat : returned = Len(Returned)
  BY ReturnedFacts
<1>4. /\ chunks[1] \in Seq(Nat) /\ Len(chunks[1]) \in Nat /\ Head(chunks) = chunks[1]
      /\ 1 \in 1..Len(chunks) /\ Len(chunks) \in Nat /\ firstOffset \in Nat
      /\ \A i \in 1..Len(chunks[1]) : chunks[1][i] = returned + i - firstOffset
  BY <1>1, <1>3, FirstChunk, ChunkFacts DEF QueueInv
<1>5. /\ {totalLength, missing} \subseteq Nat /\ missing <= totalLength
      /\ LastOf(chunks[Len(chunks)]) = returned + totalLength
  BY <1>1, <1>3 DEF QueueInv, BytesInOrder, GoesOnAfter
<1>6. /\ {totalLength', missing'} \subseteq Nat /\ missing' <= totalLength'
      /\ taken' \in Seq(Nat) /\ Len(Returned') = returned + m
      /\ totalLength' = totalLength - m
  <2>1. missing - m \in Nat /\ totalLength - m \in Nat /\ missing - m <= totalLength - m
    BY <1>1, <1>5
  <2>2. taken' \in Seq(Nat)
    BY <1>1 DEF QueueInv
  <2>3. Len(Returned') = returned + m
    BY <1>2, <1>3
  <2> QED BY <1>1, <2>1, <2>2, <2>3
<1>7. CASE firstOffset + m = Len(chunks[1])
  <2>1. chunks' = Tail(chunks) /\ firstOffset' = 0
    BY <1>1, <1>4, <1>7 DEF ShiftFirst
  <2>2. LastOf(chunks[1]) = returned + m
    <3>1. Len(chunks[1]) \in 1..Len(chunks[1])
      BY <1>1, <1>4, <1>7
    <3>2. chunks[1][Len(chunks[1])] = returned + Len(chunks[1]) - firstOffset
      BY <1>4, <3>1
    <3>3. returned + Len(chunks[1]) - firstOffset = returned + m
      BY <1>4, <1>7
    <3> QED BY <3>2, <3>3 DEF LastOf
  <2>3. /\ Tail(chunks) \in Seq(Seq(Nat)) /\ Len(chunks) > 0
        /\ Len(Tail(chunks)) = Len(chunks) - 1
        /\ \A k \in 1..(Len(chunks) - 1) : Tail(chunks)[k] = chunks[k + 1]
        /\ DOMAIN Tail(chunks) = 1..(Len(chunks) - 1)
        /\ Tail(chunks) = <<>> <=> Len(chunks) = 1
    <3> DEFINE Chunk == Seq(Nat)
    <3>1. chunks \in Seq(Chunk)
      BY DEF QueueInv
    <3> HIDE DEF Chunk
    <3>2. /\ Tail(chunks) \in Seq(Chunk) /\ Len(chunks) > 0
          /\ Len(Tail(chunks)) = Len(chunks) - 1
          /\ \A k \in 1..(Len(chunks) - 1) : Tail(chunks)[k] = chunks[k + 1]
          /\ DOMAIN Tail(chunks) = 1..(Len(chunks) - 1)
          /\ Tail(chunks) = <<>> <=> Len(chunks) = 1
      BY <1>1, <3>1, Tailed
    <3> USE DEF Chunk
    <3> QED BY <3>2
  <2>4. ASSUME NEW k \in 1..(Len(chunks) - 1)
        PROVE  /\ k + 1 \in 1..Len(chunks)
               /\ Tail(chunks)[k] = chunks[k + 1]
               /\ chunks[k + 1] # <<>>
               /\ \A i \in DOMAIN chunks[k + 1] : chunks[k + 1][i] = chunks[k + 1][1] + i - 1
               /\ chunks[k + 1][1] = LastOf(chunks[k]) + 1
               /\ Len(chunks[k + 1]) > 0
               /\ k > 1 => Tail(chunks)[k - 1] = chunks[k]
    <3>1. k + 1 \in 1..Len(chunks) /\ k + 1 > 1 /\ (k + 1) - 1 = k
      BY <1>4
    <3>2. PICK j \in 1..Len(chunks) : j = k + 1
      BY <3>1
    <3>3. /\ chunks[j] \in Seq(Nat) /\ Len(chunks[j]) > 0
          /\ DOMAIN chunks[j] = 1..Len(chunks[j])
          /\ \A i \in 1..Len(chunks[j]) : chunks[j][i] = chunks[j][1] + i - 1
          /\ j > 1 => chunks[j][1] = LastOf(chunks[j - 1]) + 1
      BY ChunkFacts
    <3>4. j > 1 /\ j - 1 = k
      BY <3>1, <3>2
    <3>5. k > 1 => Tail(chunks)[k - 1] = chunks[k]
      <4>1. k > 1 => k - 1 \in 1..(Len(chunks) - 1) /\ (k - 1) + 1 = k
        BY <1>4
      <4> QED BY <2>3, <4>1
    <3>6. chunks[j] # <<>>
      BY <3>3
    <3>7. Tail(chunks)[k] = chunks[j]
      BY <2>3, <3>2
    <3> HIDE DEF LastOf
    <3> QED BY <3>1, <3>2, <3>3, <3>4, <3>5, <3>6, <3>7
  <2>5. GoesOnAfter(Len(Returned))'
    <3>1. \A k \in DOMAIN chunks' :
            /\ chunks'[k] # <<>>
            /\ \A i \in DOMAIN chunks'[k] : chunks'[k][i] = chunks'[k][1] + i - 1
            /\ k > 1 => chunks'[k][1] = LastOf(chunks'[k - 1]) + 1
      <4> SUFFICES ASSUME NEW k \in 1..(Len(chunks) - 1)
                   PROVE  /\ Tail(chunks)[k] # <<>>
                          /\ \A i \in DOMAIN Tail(chunks)[k] :
                               Tail(chunks)[k][i] = Tail(chunks)[k][1] + i - 1
                          /\ k > 1 => Tail(chunks)[k][1] = LastOf(Tail(chunks)[k - 1]) + 1
        BY <2>1, <2>3
      <4> QED BY <2>4
    <3>2. CASE Len(chunks) = 1
      <4>1. returned + m = returned + totalLength
        BY <1>4, <1>5, <2>2, <3>2
      <4>2. totalLength' = 0
        BY <1>3, <1>5, <1>6, <4>1
      <4> QED BY <2>1, <2>3, <3>1, <3>2, <4>2 DEF GoesOnAfter
    <3>3. CASE Len(chunks) # 1
      <4>1. 1 \in 1..(Len(chunks) - 1) /\ Len(chunks) - 1 \in 1..(Len(chunks) - 1)
        <5>1. PICK n \in Nat : n = Len(chunks)
          BY <1>4
        <5>2. n >= 1 /\ n # 1
          BY <1>4, <3>3, <5>1
        <5>3. 1 \in 1..(n - 1) /\ n - 1 \in 1..(n - 1)
          BY <5>2
        <5> QED BY <5>1, <5>3
      <4>2. chunks'[1] = chunks[2] /\ chunks[2][1] = LastOf(chunks[1]) + 1 /\ Len(chunks[2]) > 0
        BY <2>1, <2>4, <4>1
      <4>3. Len(chunks') = Len(chunks) - 1 /\ chunks'[Len(chunks')] = chunks[Len(chunks)]
        BY <1>4, <2>1, <2>3, <4>1
      <4>4. LastOf(chunks[Len(chunks)]) = (returned + m) + (totalLength - m)
        BY <1>5
      <4>5. chunks' # <<>> /\ firstOffset' < Len(chunks'[1])
        BY <2>1, <2>3, <3>3, <4>2
      <4>6. chunks'[1][firstOffset' + 1] = (returned + m) + 1
        <5>1. firstOffset' + 1 = 1
          BY <2>1
        <5> QED BY <2>2, <4>2, <5>1
      <4> QED BY <1>6, <3>1, <4>3, <4>4, <4>5, <4>6 DEF GoesOnAfter
    <3> QED BY <3>2, <3>3
  <2> QED BY <1>2, <1>6, <2>1, <2>3, <2>5 DEF QueueInv, BytesInOrder
<1>8. CASE firstOffset + m # Len(chunks[1])
  <2>1. chunks' = chunks /\ firstOffset' = firstOffset + m
    BY <1>1, <1>4, <1>8 DEF ShiftFirst
  <2>2. firstOffset + m < Len(chunks[1]) /\ firstOffset + m + 1 \in 1..Len(chunks[1])
    BY <1>1, <1>4, <1>8, SMTT(30)
  <2>3. chunks[1][firstOffset + m + 1] = returned + (firstOffset + m + 1) - firstOffset
    BY <1>4, <2>2
  <2>4. chunks[1][firstOffset + m + 1] = (returned + m) + 1
    BY <1>4, <2>3
  <2>5. LastOf(chunks[Len(chunks)]) = (returned + m) + (totalLength - m)
    BY <1>5
  <2>6. GoesOnAfter(Len(Returned))'
    <3>1. \A k \in DOMAIN chunks :
            /\ chunks[k] # <<>>
            /\ \A i \in DOMAIN chunks[k] : chunks[k][i] = chunks[k][1] + i - 1
            /\ k > 1 => chunks[k][1] = LastOf(chunks[k - 1]) + 1
      BY DEF QueueInv, BytesInOrder, GoesOnAfter
    <3> QED BY <1>1, <1>6, <2>1, <2>2, <2>4, <2>5, <3>1 DEF GoesOnAfter
  <2> QED BY <1>2, <1>4, <1>6, <2>1, <2>6 DEF QueueInv, BytesInOrder
<1> QED BY <1>7, <1>8

\* A new take: what was returned before is the caller's.
LEMMA TakeKeeps == ASSUME QueueInv, NEW n \in 0..MaxPushBytes, Take(n) PROVE QueueInv'
<1>1. /\ Returned' = Returned \o <<>> /\ taken' = Returned /\ output' = <<>>
      /\ UNCHANGED <<chunks, firstOffset, totalLength>>
  BY DEF Take, Returned
<1>2. Returned \in Seq(Nat) /\ Returned \o <<>> = Returned
  BY ReturnedFacts
<1>3. n \in Nat /\ totalLength \in Nat
  BY QueueAssumption DEF QueueInv
<1>4. missing' \in Nat /\ missing' <= totalLength
  BY <1>3 DEF Take, Lesser
<1>5. Returned' = Returned
  BY <1>1, <1>2
<1>6. GoesOnAfter(Len(Returned))' /\ \A i \in DOMAIN Returned' : Returned'[i] = i
  BY <1>1, <1>5 DEF QueueInv, BytesInOrder, GoesOnAfter
<1>7. BytesInOrder'
  BY <1>1, <1>4, <1>6 DEF BytesInOrder
<1>8. firstOffset' \in Nat /\ totalLength' \in Nat /\ output' \in Seq(Nat)
  BY <1>1 DEF QueueInv
<1> QED BY <1>1, <1>2, <1>4, <1>7, <1>8 DEF QueueInv

(***************************************************************************)
(* For chunks of any size and any number of bytes, pushed and taken in any   *)
(* order: byte-queue.ts returns them as they came, none lost, repeated or    *)
(* out of place, and its length is that of what is queued.                  *)
(***************************************************************************)
THEOREM QueueInOrder == QueueSpec => []BytesInOrder
<1>1. QueueInit => QueueInv
  <2> SUFFICES ASSUME QueueInit PROVE QueueInv
    OBVIOUS
  <2>1. Returned = <<>> /\ chunks = <<>> /\ <<>> \in Seq(Nat) /\ <<>> \in Seq(Seq(Nat))
    BY DEF QueueInit, Returned
  <2> QED BY <2>1 DEF QueueInit, QueueInv, BytesInOrder, GoesOnAfter
<1>2. QueueInv /\ [QueueNext]_queueVars => QueueInv'
  <2> SUFFICES ASSUME QueueInv, [QueueNext]_queueVars PROVE QueueInv'
    OBVIOUS
  <2>1. CASE Copy
    BY <2>1, CopyKeeps
  <2>2. ASSUME NEW n \in 0..MaxPushBytes, Push(n) PROVE QueueInv'
    BY <2>2, PushKeeps
  <2>3. ASSUME NEW n \in 0..MaxPushBytes, Take(n) PROVE QueueInv'
    BY <2>3, TakeKeeps
  <2>4. CASE UNCHANGED queueVars
    BY <2>4 DEF QueueInv, BytesInOrder, GoesOnAfter, Returned, queueVars
  <2> QED BY <2>1, <2>2, <2>3, <2>4 DEF QueueNext
<1>3. QueueInv => BytesInOrder
  BY DEF QueueInv
<1> QED BY <1>1, <1>2, <1>3, PTL DEF QueueSpec
=============================================================================
