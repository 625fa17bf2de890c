---------------------------- MODULE SidecarProofs ----------------------------
(***************************************************************************)
(* Proofs about Sidecar: every invariant of its run, for all limits and all *)
(* bounds.                                                                 *)
(*                                                                         *)
(* IndInv is the inductive invariant.  TypeInv is TypeOK in four parts.     *)
(* ExchangeInv ties the handler, the fetch, the generators and the stream   *)
(* to the exchange with the Relay.  FrameInv ties the three counters of     *)
(* response.ts to the frames the Exit sealed.  PayloadInv places every      *)
(* payload that was opened, and CauseInv says what broke a response off.    *)
(***************************************************************************)
EXTENDS Sidecar, SequenceTheorems, TLAPS

\* The handler and the fetch say where the exchange with the Relay is.
CallInv ==
  /\ handler \in {"routing", "reading", "sealing"} => upstream = "none" /\ fetched = "none"
  /\ handler = "forwarding" /\ fetched = "none" => upstream = "requested"
  /\ handler = "rejecting" => upstream \notin {"requested", "open", "closing"}
  /\ upstream = "requested" => fetched = "none"
  /\ upstream \in {"open", "closing"} => fetched \in {"ok", "rejected"}
  /\ handler # "done" => status = 0
  /\ reader # "none" => fetched = "ok" /\ handler \in {"opening", "done"}

\* The generators and the answer say the same of the response.
AnswerInv ==
  /\ reader = "none" => expectedSequence = 0 /\ stream = "none" /\ status # 200
  /\ reader \in {"reading", "suspended", "rejecting"} =>
       IF mode = "streaming" /\ expectedSequence > 0
         THEN /\ status = 200
              /\ stream = "readable" \/ (reader = "rejecting" /\ stream = "cancelled")
         ELSE status = 0 /\ stream = "none"
  /\ reader = "rejecting" => upstream # "open"
  /\ reader = "cancelling" => stream = "cancelled"
  /\ reader = "finished" => upstream # "open" /\ stream # "readable"
  /\ mode = "buffered" => stream = "none"
  /\ mode = "buffered" /\ status = 200 => reader = "finished"
  /\ stream = "cancelled" =>
       /\ reader \in {"rejecting", "cancelling", "finished"}
       /\ status = 200 /\ upstream # "open"
  /\ stream \in {"closed", "errored"} => reader = "finished"
-----------------------------------------------------------------------------
\* The statuses of TypeOK, listed.
Statuses == {0, 200, 400, 401, 404, 409, 413, 415, 429, 500, 502, 503}

\* TypeOK in parts.
PlaceTypes ==
  /\ handler \in {"routing", "reading", "sealing", "forwarding", "rejecting", "opening",
                 "done"}
  /\ fetched \in {"none", "ok", "rejected", "empty", "failed"}
  /\ upstream \in {"none", "requested", "open", "closing", "ended", "failed", "cancelled"}
  /\ deadline \in {"none", "armed", "cancelled", "fired"}
  /\ reader \in {"none", "reading", "suspended", "rejecting", "cancelling", "finished"}
  /\ stream \in {"none", "readable", "closed", "errored", "cancelled"}

FlagTypes ==
  /\ mode \in {"streaming", "buffered"}
  /\ locked \in BOOLEAN /\ sawFinal \in BOOLEAN
  /\ abandoned \in BOOLEAN /\ tampered \in BOOLEAN

CountTypes ==
  /\ dataFrames \in 0..MaxDataFrames /\ frameBytes \in 1..MaxFrameBytes
  /\ expectedSequence \in 0..maxResponseFrames
  /\ totalBytes \in 0..maxResponseBytes
  /\ status \in Statuses

ListTypes == chunks \in Seq(1..MaxDataFrames) /\ delivered \in Seq(1..MaxDataFrames)

TypeInv == PlaceTypes /\ FlagTypes /\ CountTypes /\ ListTypes

\* What publicError answers.
LEMMA StatusFacts ==
  /\ publicError["SidecarRouteNotFound"] = 404
  /\ publicError["SidecarUnsupportedContentType"] = 415
  /\ publicError["SidecarInvalidRequest"] = 400
  /\ publicError["SidecarRequestTooLarge"] = 413
  /\ publicError["RelayTimeout"] = 502
  /\ publicError["RelayTransportFailure"] = 502
  /\ publicError["RelayEmptyResponse"] = 502
  /\ publicError["MalformedEncryptedResponse"] = 502
  /\ publicError.MalformedEncryptedResponse = 502
  /\ {0, 200, DefectStatus} \cup RelayStatuses
       \cup {publicError[e] : e \in DOMAIN publicError} = Statuses
<1>1. DOMAIN publicError =
        {"SidecarRouteNotFound", "SidecarUnsupportedContentType", "SidecarInvalidRequest",
         "SidecarRequestTooLarge", "RelayTimeout", "RelayTransportFailure",
         "RelayEmptyResponse", "MalformedEncryptedResponse"}
  BY DEF publicError
<1>2. /\ publicError["SidecarRouteNotFound"] = 404
      /\ publicError["SidecarUnsupportedContentType"] = 415
      /\ publicError["SidecarInvalidRequest"] = 400
      /\ publicError["SidecarRequestTooLarge"] = 413
      /\ publicError["RelayTimeout"] = 502
      /\ publicError["RelayTransportFailure"] = 502
      /\ publicError["RelayEmptyResponse"] = 502
      /\ publicError["MalformedEncryptedResponse"] = 502
  BY DEF publicError
<1>3. {publicError[e] : e \in DOMAIN publicError} = {400, 404, 413, 415, 502}
  BY <1>1, <1>2
<1>4. {0, 200, DefectStatus} \cup RelayStatuses \cup {400, 404, 413, 415, 502} = Statuses
  BY DEF DefectStatus, RelayStatuses, Statuses
<1>5. QED
  BY <1>2, <1>3, <1>4

\* The parts say no less and no more than TypeOK.
LEMMA TypeOKIsTypeInv == TypeOK <=> TypeInv
BY StatusFacts DEF TypeOK, TypeInv, PlaceTypes, FlagTypes, CountTypes, ListTypes

\* The fields of the n-th frame the Exit sealed.
LEMMA SealedFacts ==
  ASSUME NEW n
  PROVE  /\ Sealed(n).sequence = n
         /\ Sealed(n).bytes = IF n = 0 THEN 1 ELSE IF n = LastSequence THEN 0 ELSE frameBytes
         /\ Sealed(n).final = (n = LastSequence)
BY DEF Sealed

\* The line that is accepted is the next frame of the response.
LEMMA AcceptedLine ==
  ASSUME TypeInv, AcceptLine
  PROVE  /\ reader = "reading" /\ upstream = "open" /\ ~sawFinal
         /\ expectedSequence \in 0..LastSequence
         /\ expectedSequence + 1 <= maxResponseFrames
         /\ totalBytes + Sealed(expectedSequence).bytes <= maxResponseBytes
         /\ expectedSequence' = expectedSequence + 1
         /\ totalBytes' = totalBytes + Sealed(expectedSequence).bytes
         /\ sawFinal' = (expectedSequence = LastSequence)
         /\ IF expectedSequence = 0 THEN TakeHead ELSE TakeData(Sealed(expectedSequence))
         /\ UNCHANGED <<sealedVars, fetched, bodyVars, delivered, goneVars>>
<1>1. PICK line \in Lines :
        /\ Accepts(line)
        /\ expectedSequence' = expectedSequence + 1
        /\ totalBytes' = totalBytes + line.bytes
        /\ sawFinal' = line.final
        /\ IF expectedSequence = 0 THEN TakeHead ELSE TakeData(line)
  BY DEF AcceptLine
<1>2. PICK n \in 0..LastSequence : line = Sealed(n)
  BY DEF Lines
<1>3. n = expectedSequence
  BY <1>1, <1>2, SealedFacts DEF Accepts
<1>4. line = Sealed(expectedSequence) /\ expectedSequence \in 0..LastSequence
  BY <1>2, <1>3
<1>5. line.final = (expectedSequence = LastSequence)
  BY <1>4, SealedFacts
<1>6. QED
  BY <1>1, <1>4, <1>5 DEF AcceptLine, Accepts
-----------------------------------------------------------------------------
\* The initial states have their types.
LEMMA InitTyped == Init => TypeInv
<1> USE LimitsAssumption, BoundsAssumption
<1> SUFFICES ASSUME Init PROVE TypeInv
  OBVIOUS
<1>1. PlaceTypes
  BY DEF Init, PlaceTypes
<1>2. FlagTypes
  BY DEF Init, FlagTypes
<1>3. CountTypes
  BY DEF Init, CountTypes, Statuses
<1>4. ListTypes
  BY DEF Init, ListTypes
<1>5. QED
  BY <1>1, <1>2, <1>3, <1>4 DEF TypeInv

\* Every step keeps the types.
LEMMA TypeStep == TypeInv /\ [Next]_vars => TypeInv'
<1> USE LimitsAssumption, BoundsAssumption
<1> SUFFICES ASSUME TypeInv, [Next]_vars PROVE TypeInv'
  OBVIOUS
<1> USE DEF sealedVars, callVars, bodyVars, frameVars, answerVars, goneVars,
              AnswerWith, CancelledDeadline
<1>1. CASE RefuseRoute
  BY <1>1, StatusFacts DEF RefuseRoute, Fail, DefectStatus, RelayStatuses, TypeInv,
     PlaceTypes, FlagTypes, CountTypes, ListTypes, Statuses
<1>2. CASE StartReading
  BY <1>2 DEF StartReading, TypeInv, PlaceTypes, FlagTypes, CountTypes, ListTypes, Statuses
<1>3. CASE FailRequest
  <2>1. PICK code \in {400, 413, 415, 500} : AnswerWith(code)
    BY <1>3, StatusFacts DEF FailRequest, Fail, DefectStatus
  <2>2. QED
    BY <1>3, <2>1 DEF FailRequest, TypeInv, PlaceTypes, FlagTypes, CountTypes, ListTypes,
       Statuses
<1>4. CASE StartSealing
  BY <1>4 DEF StartSealing, TypeInv, PlaceTypes, FlagTypes, CountTypes, ListTypes, Statuses
<1>5. CASE SealingFails
  BY <1>5, StatusFacts DEF SealingFails, Fail, DefectStatus, RelayStatuses, TypeInv,
     PlaceTypes, FlagTypes, CountTypes, ListTypes, Statuses
<1>6. CASE Forward
  BY <1>6 DEF Forward, TypeInv, PlaceTypes, FlagTypes, CountTypes, ListTypes, Statuses
<1>7. CASE FetchSettles
  BY <1>7 DEF FetchSettles, TypeInv, PlaceTypes, FlagTypes, CountTypes, ListTypes, Statuses
<1>8. CASE FailCall
  BY <1>8, StatusFacts DEF FailCall, Fail, DefectStatus, RelayStatuses, TypeInv, PlaceTypes,
     FlagTypes, CountTypes, ListTypes, Statuses
<1>9. CASE RejectCall
  BY <1>9 DEF RejectCall, TypeInv, PlaceTypes, FlagTypes, CountTypes, ListTypes, Statuses
<1>10. CASE RejectedBodyCancelled
  BY <1>10, StatusFacts DEF RejectedBodyCancelled, Fail, DefectStatus, RelayStatuses,
     TypeInv, PlaceTypes, FlagTypes, CountTypes, ListTypes, Statuses
<1>11. CASE StartOpening
  BY <1>11 DEF StartOpening, TypeInv, PlaceTypes, FlagTypes, CountTypes, ListTypes, Statuses
<1>12. CASE AcceptLine
  <2> DEFINE line == Sealed(expectedSequence)
  <2>1. /\ expectedSequence \in 0..LastSequence
        /\ expectedSequence + 1 <= maxResponseFrames
        /\ totalBytes + line.bytes <= maxResponseBytes
        /\ expectedSequence' = expectedSequence + 1
        /\ totalBytes' = totalBytes + line.bytes
        /\ sawFinal' \in BOOLEAN
        /\ IF expectedSequence = 0 THEN TakeHead ELSE TakeData(line)
        /\ UNCHANGED <<sealedVars, fetched, bodyVars, delivered, goneVars>>
    BY <1>12, AcceptedLine DEF line
  <2>2. line.bytes \in Nat /\ (line.bytes > 0 /\ expectedSequence # 0 =>
                                  expectedSequence # LastSequence)
    BY SealedFacts DEF TypeInv, CountTypes
  <2>3. expectedSequence' \in 0..maxResponseFrames /\ totalBytes' \in 0..maxResponseBytes
    BY <2>1, <2>2 DEF TypeInv, CountTypes
  <2>4. chunks' \in Seq(1..MaxDataFrames)
    <3>1. CASE expectedSequence = 0 \/ ~(line.bytes > 0)
      BY <3>1, <2>1 DEF TakeHead, TakeData, TypeInv, ListTypes
    <3>2. CASE expectedSequence # 0 /\ line.bytes > 0
      <4>1. line.sequence = expectedSequence
        BY SealedFacts
      <4>2. expectedSequence \in 1..MaxDataFrames
        BY <3>2, <2>1, <2>2 DEF LastSequence, TypeInv, CountTypes
      <4>3. chunks' = Append(chunks, expectedSequence)
        BY <4>1, <3>2, <2>1 DEF TakeData
      <4>4. QED
        BY <4>2, <4>3 DEF TypeInv, ListTypes
    <3>3. QED
      BY <3>1, <3>2
  <2> HIDE DEF line
  <2>5. PlaceTypes'
    BY <2>1 DEF TakeHead, TakeData, TypeInv, PlaceTypes
  <2>6. FlagTypes'
    BY <2>1 DEF TypeInv, FlagTypes
  <2>7. status' \in Statuses
    BY <2>1 DEF TakeHead, TakeData, Statuses, TypeInv, CountTypes
  <2>8. CountTypes'
    BY <2>1, <2>3, <2>7 DEF TypeInv, CountTypes
  <2>9. ListTypes'
    BY <2>1, <2>4 DEF TypeInv, ListTypes
  <2>10. QED
    BY <2>5, <2>6, <2>8, <2>9 DEF TypeInv
<1>13. CASE RejectLine
  <2>1. PlaceTypes'
    BY <1>13 DEF TypeInv, RejectLine, CancelBody, PlaceTypes
  <2>2. FlagTypes'
    BY <1>13 DEF TypeInv, RejectLine, FlagTypes
  <2>3. CountTypes'
    BY <1>13 DEF TypeInv, RejectLine, CountTypes, Statuses
  <2>4. ListTypes'
    BY <1>13 DEF TypeInv, RejectLine, ListTypes
  <2>5. QED
    BY <2>1, <2>2, <2>3, <2>4 DEF TypeInv
<1>14. CASE RejectingEnds
  <2>1. PlaceTypes'
    BY <1>14 DEF TypeInv, RejectingEnds, Fail, Throw, PlaceTypes
  <2>2. FlagTypes'
    BY <1>14 DEF TypeInv, RejectingEnds, Fail, Throw, FlagTypes
  <2>3. CountTypes'
    BY <1>14, StatusFacts DEF TypeInv, RejectingEnds, Fail, Throw, CountTypes, Statuses
  <2>4. ListTypes'
    BY <1>14 DEF TypeInv, RejectingEnds, Fail, Throw, ListTypes
  <2>5. QED
    BY <2>1, <2>2, <2>3, <2>4 DEF TypeInv
<1>15. CASE BodyEnds
  <2>1. tampered' \in BOOLEAN
    BY <1>15 DEF BodyEnds, TypeInv, FlagTypes
  <2>2. Complete \/ (Throw /\ UNCHANGED delivered)
    BY <1>15 DEF BodyEnds
  <2>3. /\ upstream' = "ended" /\ deadline' = CancelledDeadline
        /\ UNCHANGED <<sealedVars, fetched, frameVars, abandoned>>
    BY <1>15 DEF BodyEnds
  <2>4. PlaceTypes'
    BY <2>2, <2>3 DEF TypeInv, Fail, Throw, Complete, PlaceTypes
  <2>5. FlagTypes'
    BY <2>1, <2>2, <2>3 DEF TypeInv, Throw, Complete, FlagTypes
  <2>6. CountTypes'
    BY <2>2, <2>3, StatusFacts DEF TypeInv, Fail, Throw, Complete, CountTypes, Statuses
  <2>7. ListTypes'
    <3>1. chunks' \in {chunks, <<>>} /\ delivered' \in {chunks, delivered}
      BY <2>2 DEF Throw, Complete
    <3>2. chunks' \in Seq(1..MaxDataFrames)
      <4>1. <<>> \in Seq(1..MaxDataFrames)
        OBVIOUS
      <4>2. chunks \in Seq(1..MaxDataFrames)
        BY DEF TypeInv, ListTypes
      <4>3. QED
        BY <3>1, <4>1, <4>2
    <3>3. delivered' \in Seq(1..MaxDataFrames)
      BY <3>1 DEF TypeInv, ListTypes
    <3>4. QED
      BY <3>2, <3>3 DEF ListTypes
  <2>8. QED
    BY <2>4, <2>5, <2>6, <2>7 DEF TypeInv
<1>16. CASE BodyBreaks
  BY <1>16 DEF BodyBreaks, TypeInv, PlaceTypes, FlagTypes, CountTypes, ListTypes, Statuses
<1>17. CASE DeadlineFires
  BY <1>17 DEF DeadlineFires, TypeInv, PlaceTypes, FlagTypes, CountTypes, ListTypes, Statuses
<1>18. CASE ReadFails
  <2>1. PlaceTypes'
    BY <1>18 DEF TypeInv, ReadFails, Fail, Throw, PlaceTypes
  <2>2. FlagTypes'
    BY <1>18 DEF TypeInv, ReadFails, Fail, Throw, FlagTypes
  <2>3. CountTypes'
    BY <1>18, StatusFacts DEF TypeInv, ReadFails, Fail, Throw, CountTypes, Statuses
  <2>4. ListTypes'
    BY <1>18 DEF TypeInv, ReadFails, Fail, Throw, ListTypes
  <2>5. QED
    BY <2>1, <2>2, <2>3, <2>4 DEF TypeInv
<1>19. CASE PullNext
  BY <1>19 DEF PullNext, TypeInv, PlaceTypes, FlagTypes, CountTypes, ListTypes, Statuses
<1>20. CASE ConsumerReads
  BY <1>20 DEF ConsumerReads, TypeInv, PlaceTypes, FlagTypes, CountTypes, ListTypes, Statuses
<1>21. CASE ConsumerCancels
  BY <1>21 DEF ConsumerCancels, CancelBody, TypeInv, PlaceTypes, FlagTypes, CountTypes, ListTypes,
     Statuses
<1>22. CASE CancellingEnds
  <2>1. PlaceTypes'
    BY <1>22 DEF TypeInv, CancellingEnds, PlaceTypes
  <2>2. FlagTypes'
    BY <1>22 DEF TypeInv, CancellingEnds, FlagTypes
  <2>3. CountTypes'
    BY <1>22 DEF TypeInv, CancellingEnds, CountTypes, Statuses
  <2>4. ListTypes'
    BY <1>22 DEF TypeInv, CancellingEnds, ListTypes
  <2>5. QED
    BY <2>1, <2>2, <2>3, <2>4 DEF TypeInv
<1>23. CASE Abandon
  BY <1>23 DEF Abandon, TypeInv, PlaceTypes, FlagTypes, CountTypes, ListTypes, Statuses
<1>24. CASE UNCHANGED vars
  BY <1>24 DEF vars, TypeInv, PlaceTypes, FlagTypes, CountTypes, ListTypes, Statuses
<1>25. CASE CancelReachesRelay
  BY <1>25 DEF CancelReachesRelay, TypeInv, PlaceTypes, FlagTypes, CountTypes, ListTypes,
     Statuses
<1>26. QED
  BY <1>1, <1>2, <1>3, <1>4, <1>5, <1>6, <1>7, <1>8, <1>9, <1>10, <1>11, <1>12, <1>13,
     <1>14, <1>15, <1>16, <1>17, <1>18, <1>19, <1>20, <1>21, <1>22, <1>23, <1>24, <1>25
  DEF Next, Runtime

ExchangeInv == CallInv /\ AnswerInv /\ UpstreamUnderDeadline

\* Every step keeps the handler, the deadline, the body and the answer in step.
LEMMA ExchangeStep == TypeInv /\ ExchangeInv /\ [Next]_vars => ExchangeInv'
<1> SUFFICES ASSUME TypeInv, ExchangeInv, [Next]_vars PROVE ExchangeInv'
  OBVIOUS
<1> USE StatusFacts DEF ExchangeInv, CallInv, AnswerInv, UpstreamUnderDeadline, TypeInv,
      PlaceTypes,
      sealedVars, callVars, bodyVars, frameVars, answerVars, goneVars, AnswerWith,
      CancelledDeadline
<1>1. CASE RefuseRoute
  BY <1>1 DEF RefuseRoute, Fail
<1>2. CASE StartReading
  BY <1>2 DEF StartReading
<1>3. CASE FailRequest
  BY <1>3 DEF FailRequest, Fail, DefectStatus
<1>4. CASE StartSealing
  BY <1>4 DEF StartSealing
<1>5. CASE SealingFails
  BY <1>5 DEF SealingFails, DefectStatus
<1>6. CASE Forward
  BY <1>6 DEF Forward
<1>7. CASE FetchSettles
  BY <1>7 DEF FetchSettles
<1>8. CASE FailCall
  BY <1>8 DEF FailCall, Fail
<1>9. CASE RejectCall
  BY <1>9 DEF RejectCall
<1>10. CASE RejectedBodyCancelled
  BY <1>10 DEF RejectedBodyCancelled, RelayStatuses
<1>11. CASE StartOpening
  BY <1>11 DEF StartOpening
<1>12. CASE AcceptLine
  <2>1. /\ reader = "reading" /\ upstream = "open"
        /\ expectedSequence \in Nat /\ expectedSequence' = expectedSequence + 1
        /\ IF expectedSequence = 0 THEN TakeHead ELSE TakeData(Sealed(expectedSequence))
        /\ UNCHANGED <<sealedVars, fetched, bodyVars, delivered, goneVars>>
    BY <1>12, AcceptedLine DEF CountTypes
  <2>2. CASE expectedSequence = 0
    BY <2>1, <2>2 DEF TakeHead
  <2>3. CASE expectedSequence # 0
    BY <2>1, <2>3 DEF TakeData
  <2>4. QED
    BY <2>2, <2>3
<1>13. CASE RejectLine
  BY <1>13 DEF RejectLine, CancelBody
<1>14. CASE RejectingEnds
  BY <1>14 DEF RejectingEnds, Fail, Throw
<1>15. CASE BodyEnds
  BY <1>15 DEF BodyEnds, Fail, Throw, Complete
<1>16. CASE BodyBreaks
  BY <1>16 DEF BodyBreaks
<1>17. CASE DeadlineFires
  BY <1>17 DEF DeadlineFires
<1>18. CASE ReadFails
  BY <1>18 DEF ReadFails, Fail, Throw
<1>19. CASE PullNext
  BY <1>19 DEF PullNext
<1>20. CASE ConsumerReads
  BY <1>20 DEF ConsumerReads
<1>21. CASE ConsumerCancels
  BY <1>21 DEF ConsumerCancels, CancelBody
<1>22. CASE CancellingEnds
  BY <1>22 DEF CancellingEnds
<1>23. CASE Abandon
  BY <1>23 DEF Abandon
<1>24. CASE UNCHANGED vars
  BY <1>24 DEF vars
<1>25. CASE CancelReachesRelay
  BY <1>25 DEF CancelReachesRelay
<1>26. QED
  BY <1>1, <1>2, <1>3, <1>4, <1>5, <1>6, <1>7, <1>8, <1>9, <1>10, <1>11, <1>12, <1>13,
     <1>14, <1>15, <1>16, <1>17, <1>18, <1>19, <1>20, <1>21, <1>22, <1>23, <1>24, <1>25
  DEF Next, Runtime

-----------------------------------------------------------------------------
\* The payloads opened so far: neither the head nor the final frame has one.
Opened == IF expectedSequence = 0 THEN 0
          ELSE IF sawFinal THEN dataFrames ELSE expectedSequence - 1

\* The counters of response.ts follow from the sequence number alone.
FrameInv ==
  /\ expectedSequence <= dataFrames + 2
  /\ sawFinal <=> expectedSequence = dataFrames + 2
  /\ totalBytes = IF expectedSequence = 0 THEN 0 ELSE 1 + Opened * frameBytes

\* No payload that was opened has been dropped.
Whole ==
  \/ reader \in {"none", "reading", "suspended"}
  \/ reader = "rejecting" /\ stream # "cancelled"
  \/ stream = "closed"
  \/ mode = "buffered" /\ status = 200

\* Payloads are where they belong, and all there unless some were dropped.
PayloadInv ==
  /\ \A i \in 1..Len(delivered) : delivered[i] = i
  /\ \A i \in 1..Len(chunks) : chunks[i] = Len(delivered) + i
  /\ Whole => Len(delivered) + Len(chunks) = Opened
  /\ mode = "buffered" /\ reader # "finished" => delivered = <<>>
  /\ stream = "closed" \/ (mode = "buffered" /\ status = 200) => sawFinal

\* A response is broken off for a reason.
CauseInv ==
  /\ fetched = "ok" /\ upstream = "failed" => tampered \/ deadline = "fired"
  /\ Refused => tampered \/ deadline = "fired" \/ ~WithinLimits

\* One more of d frames of f units fits into all of them.
LEMMA FramesInBytes ==
  ASSUME NEW d \in Nat, NEW e \in Nat, NEW f \in Nat, e < d
  PROVE  e * f + f <= d * f
<1>1. PICK k \in Nat : d = e + 1 + k
  <2>1. d - e - 1 \in Nat /\ d = e + 1 + (d - e - 1)
    OBVIOUS
  <2>2. QED
    BY <2>1
<1>2. d * f = e * f + f + k * f
  BY <1>1
<1>3. k * f \in Nat
  OBVIOUS
<1>4. e * f \in Nat
  OBVIOUS
<1>5. QED
  BY <1>2, <1>3, <1>4

\* Only an accepted line moves the counters, and it moves them together.
LEMMA FrameStep == TypeInv /\ FrameInv /\ [Next]_vars => FrameInv'
<1> SUFFICES ASSUME TypeInv, FrameInv, [Next]_vars PROVE FrameInv'
  OBVIOUS
<1>1. CASE AcceptLine
  <2> DEFINE line == Sealed(expectedSequence)
  <2>1. /\ ~sawFinal /\ expectedSequence \in 0..LastSequence
        /\ expectedSequence' = expectedSequence + 1
        /\ totalBytes' = totalBytes + line.bytes
        /\ sawFinal' = (expectedSequence = LastSequence)
        /\ UNCHANGED <<dataFrames, frameBytes>>
    BY <1>1, AcceptedLine DEF sealedVars
  <2>2. line.bytes = IF expectedSequence = 0 THEN 1
                     ELSE IF expectedSequence = LastSequence THEN 0 ELSE frameBytes
    BY SealedFacts
  <2>3. /\ dataFrames \in Nat /\ frameBytes \in Nat /\ expectedSequence \in Nat
        /\ LastSequence = dataFrames + 1 /\ sawFinal \in BOOLEAN
    BY BoundsAssumption DEF TypeInv, CountTypes, FlagTypes, LastSequence
  <2>4. expectedSequence' <= dataFrames' + 2
    BY <2>1, <2>3
  <2>5. sawFinal' <=> expectedSequence' = dataFrames' + 2
    <3>1. expectedSequence = LastSequence <=> expectedSequence' = dataFrames' + 2
      BY <2>1, <2>3
    <3>2. QED
      BY <2>1, <3>1
  <2> HIDE DEF line
  <2>6. CASE expectedSequence = 0
    BY <2>1, <2>2, <2>3, <2>4, <2>5, <2>6 DEF FrameInv, Opened
  <2>7. CASE expectedSequence = LastSequence
    <3>1. Opened = dataFrames /\ Opened' = dataFrames
      <4>1. ~sawFinal /\ sawFinal'
        BY <2>1, <2>7
      <4>2. QED
        BY <2>1, <2>3, <2>7, <4>1 DEF Opened
    <3>2. totalBytes' = totalBytes /\ totalBytes = 1 + Opened * frameBytes
      <4>1. totalBytes = 1 + Opened * frameBytes
        BY <2>3, <2>7 DEF FrameInv
      <4>2. totalBytes \in Nat /\ line.bytes = 0
        BY <2>2, <2>3, <2>7, LimitsAssumption DEF TypeInv, CountTypes
      <4>3. QED
        BY <2>1, <4>1, <4>2
    <3>3. QED
      BY <2>1, <2>3, <2>4, <2>5, <3>1, <3>2 DEF FrameInv
  <2>8. CASE expectedSequence # 0 /\ expectedSequence # LastSequence
    <3>1. Opened = expectedSequence - 1 /\ Opened' = expectedSequence
      BY <2>1, <2>3, <2>8 DEF Opened
    <3>2. totalBytes = 1 + (expectedSequence - 1) * frameBytes /\ line.bytes = frameBytes
      BY <2>2, <2>8, <3>1 DEF FrameInv
    <3>3. totalBytes' = 1 + expectedSequence * frameBytes
      BY <2>1, <2>3, <3>2
    <3>4. QED
      BY <2>1, <2>3, <2>4, <2>5, <3>1, <3>3 DEF FrameInv
  <2>9. QED
    BY <2>6, <2>7, <2>8
<1>2. CASE ~AcceptLine
  <2>1. UNCHANGED <<dataFrames, frameBytes, expectedSequence, sawFinal, totalBytes>>
    BY <1>2 DEF Next, Runtime, vars, sealedVars, frameVars, RefuseRoute, StartReading,
       FailRequest, StartSealing, SealingFails, Forward, FetchSettles, FailCall, RejectCall,
       RejectedBodyCancelled, StartOpening, RejectLine, RejectingEnds, BodyEnds, BodyBreaks,
       DeadlineFires, ReadFails, PullNext, ConsumerReads, ConsumerCancels, CancellingEnds,
       CancelReachesRelay, CancelBody, Abandon
  <2>2. QED
    BY <2>1 DEF FrameInv, Opened
<1>3. QED
  BY <1>1, <1>2

\* A line is refused because it was tampered with or the response is over a limit.
LEMMA CauseStep == TypeInv /\ ExchangeInv /\ FrameInv /\ CauseInv /\ [Next]_vars => CauseInv'
<1> SUFFICES ASSUME TypeInv, ExchangeInv, FrameInv, CauseInv, [Next]_vars PROVE CauseInv'
  OBVIOUS
<1> USE DEF CauseInv, Refused, WithinLimits, ExchangeInv, CallInv, AnswerInv, TypeInv,
      PlaceTypes,
      sealedVars, callVars, bodyVars, frameVars, answerVars, goneVars, AnswerWith,
      CancelledDeadline
<1>1. CASE RefuseRoute
  BY <1>1, StatusFacts DEF RefuseRoute, Fail
<1>2. CASE StartReading
  BY <1>2, StatusFacts DEF StartReading
<1>3. CASE FailRequest
  BY <1>3, StatusFacts DEF FailRequest, Fail, DefectStatus
<1>4. CASE StartSealing
  BY <1>4, StatusFacts DEF StartSealing
<1>5. CASE SealingFails
  BY <1>5, StatusFacts DEF SealingFails, DefectStatus
<1>6. CASE Forward
  BY <1>6, StatusFacts DEF Forward
<1>7. CASE FetchSettles
  BY <1>7, StatusFacts DEF FetchSettles
<1>8. CASE FailCall
  BY <1>8, StatusFacts DEF FailCall, Fail
<1>9. CASE RejectCall
  BY <1>9, StatusFacts DEF RejectCall
<1>10. CASE RejectedBodyCancelled
  BY <1>10, StatusFacts DEF RejectedBodyCancelled, RelayStatuses
<1>11. CASE StartOpening
  BY <1>11, StatusFacts DEF StartOpening
<1>12. CASE AcceptLine
  <2>1. /\ reader = "reading" /\ reader' \in {"reading", "suspended"}
        /\ UNCHANGED <<sealedVars, fetched, bodyVars, goneVars>>
    BY <1>12, AcceptedLine DEF TakeHead, TakeData
  <2>2. QED
    BY <2>1
<1>13. CASE RejectLine
  <2>1. CASE tampered'
    BY <1>13, <2>1 DEF RejectLine, CancelBody
  <2>2. CASE ~sawFinal /\ ~Accepts(Sealed(expectedSequence))
    <3>1. ~WithinLimits
      <4> SUFFICES ASSUME WithinLimits PROVE FALSE
        OBVIOUS
      <4>1. /\ dataFrames \in Nat /\ frameBytes \in Nat /\ expectedSequence \in Nat
            /\ LastSequence = dataFrames + 1 /\ totalBytes \in Nat
        BY BoundsAssumption, LimitsAssumption DEF CountTypes, LastSequence
      <4>2. expectedSequence <= dataFrames + 1
        BY <2>2, <4>1 DEF FrameInv
      <4>3. totalBytes + Sealed(expectedSequence).bytes > maxResponseBytes
        <5>1. expectedSequence + 1 <= maxResponseFrames
          BY <4>1, <4>2, LimitsAssumption
        <5>2. QED
          BY <2>2, <5>1, SealedFacts, <4>1, LimitsAssumption DEF Accepts
      <4>4. 1 + dataFrames * frameBytes <= maxResponseBytes /\ dataFrames * frameBytes \in Nat
        BY <4>1
      <4>5. CASE expectedSequence = 0
        BY <4>1, <4>3, <4>4, <4>5, SealedFacts, LimitsAssumption DEF FrameInv
      <4>6. CASE expectedSequence = LastSequence
        BY <2>2, <4>1, <4>3, <4>4, <4>6, SealedFacts, LimitsAssumption DEF FrameInv, Opened
      <4>7. CASE expectedSequence # 0 /\ expectedSequence # LastSequence
        <5>1. totalBytes = 1 + (expectedSequence - 1) * frameBytes
          BY <2>2, <4>7 DEF FrameInv, Opened
        <5>2. Sealed(expectedSequence).bytes = frameBytes
          BY <4>7, SealedFacts
        <5>3. (expectedSequence - 1) * frameBytes + frameBytes <= dataFrames * frameBytes
          BY <4>1, <4>2, <4>7, FramesInBytes
        <5>4. (expectedSequence - 1) * frameBytes \in Nat
          BY <4>1, <4>7
        <5>5. QED
          BY <4>1, <4>3, <4>4, <5>1, <5>2, <5>3, <5>4, LimitsAssumption
      <4>8. QED
        BY <4>5, <4>6, <4>7
    <3>2. (~WithinLimits)'
      BY <1>13, <3>1 DEF RejectLine
    <3>3. QED
      BY <1>13, <3>2 DEF RejectLine, CancelBody
  <2>3. QED
    BY <1>13, <2>1, <2>2 DEF RejectLine
<1>14. CASE RejectingEnds
  BY <1>14, StatusFacts DEF RejectingEnds, Fail, Throw
<1>15. CASE BodyEnds
  <2>1. CASE ~sawFinal
    BY <1>15, <2>1 DEF BodyEnds
  <2>2. CASE sawFinal
    <3>1. expectedSequence > 0
      BY <2>2, BoundsAssumption DEF FrameInv, CountTypes
    <3>2. /\ Complete /\ upstream' = "ended" /\ deadline' = CancelledDeadline
          /\ UNCHANGED <<sealedVars, fetched, goneVars>> /\ reader = "reading"
      BY <1>15, <2>2 DEF BodyEnds
    <3>3. stream' # "errored" /\ status' # 502
      BY <3>1, <3>2 DEF Complete, FlagTypes
    <3>4. QED
      BY <3>2, <3>3, StatusFacts DEF Complete
  <2>3. QED
    BY <2>1, <2>2
<1>16. CASE BodyBreaks
  BY <1>16, StatusFacts DEF BodyBreaks
<1>17. CASE DeadlineFires
  BY <1>17, StatusFacts DEF DeadlineFires
<1>18. CASE ReadFails
  BY <1>18, StatusFacts DEF ReadFails, Fail, Throw
<1>19. CASE PullNext
  BY <1>19, StatusFacts DEF PullNext
<1>20. CASE ConsumerReads
  BY <1>20, StatusFacts DEF ConsumerReads
<1>21. CASE ConsumerCancels
  BY <1>21, StatusFacts DEF ConsumerCancels, CancelBody
<1>22. CASE CancellingEnds
  BY <1>22, StatusFacts DEF CancellingEnds
<1>23. CASE Abandon
  BY <1>23, StatusFacts DEF Abandon
<1>24. CASE UNCHANGED vars
  BY <1>24 DEF vars
<1>25. CASE CancelReachesRelay
  BY <1>25, StatusFacts DEF CancelReachesRelay
<1>26. QED
  BY <1>1, <1>2, <1>3, <1>4, <1>5, <1>6, <1>7, <1>8, <1>9, <1>10, <1>11, <1>12, <1>13,
     <1>14, <1>15, <1>16, <1>17, <1>18, <1>19, <1>20, <1>21, <1>22, <1>23, <1>24, <1>25
  DEF Next, Runtime

-----------------------------------------------------------------------------
\* Payloads handed over in order stay in order.
LEMMA InOrderConcat ==
  ASSUME NEW S, NEW d \in Seq(S), NEW c \in Seq(S),
         \A i \in 1..Len(d) : d[i] = i, \A i \in 1..Len(c) : c[i] = Len(d) + i
  PROVE  Len(d \o c) = Len(d) + Len(c) /\ \A i \in 1..Len(d \o c) : (d \o c)[i] = i
<1>1. Len(d \o c) = Len(d) + Len(c) /\ Len(d) \in Nat /\ Len(c) \in Nat
  OBVIOUS
<1>2. SUFFICES ASSUME NEW i \in 1..Len(d \o c) PROVE (d \o c)[i] = i
  BY <1>1
<1>3. CASE i <= Len(d)
  <2>1. (d \o c)[i] = d[i]
    BY <1>3, <1>1
  <2>2. QED
    BY <1>1, <1>3, <2>1
<1>4. CASE ~(i <= Len(d))
  <2>1. (d \o c)[i] = c[i - Len(d)] /\ i - Len(d) \in 1..Len(c)
    BY <1>4, <1>1
  <2>2. QED
    BY <1>1, <2>1
<1>5. QED
  BY <1>3, <1>4

\* A step that leaves the payloads alone.
LEMMA PayloadsUntouched ==
  ASSUME PayloadInv, UNCHANGED <<mode, dataFrames, frameVars, stream, chunks, delivered>>,
         Whole' => Whole, reader' # "finished" => reader # "finished",
         mode = "buffered" /\ status' = 200 => status = 200
  PROVE  PayloadInv'
BY DEF PayloadInv, frameVars, Opened

\* A step that drops the payloads not yet handed over.
LEMMA PayloadsDropped ==
  ASSUME PayloadInv, UNCHANGED <<mode, dataFrames, frameVars, delivered>>, chunks' = <<>>,
         ~Whole', mode = "buffered" => reader' = "finished"
  PROVE  PayloadInv'
BY DEF PayloadInv, frameVars, Whole

\* Every step keeps the payloads in place.
LEMMA PayloadStep == TypeInv /\ ExchangeInv /\ FrameInv /\ PayloadInv /\ [Next]_vars => PayloadInv'
<1> SUFFICES ASSUME TypeInv, ExchangeInv, FrameInv, PayloadInv, [Next]_vars PROVE PayloadInv'
  OBVIOUS
<1>1. CASE RefuseRoute
  <2>1. /\ UNCHANGED <<mode, dataFrames, frameVars, stream, chunks, delivered>>
        /\ (Whole' => Whole) /\ (reader' # "finished" => reader # "finished")
        /\ (mode = "buffered" /\ status' = 200 => status = 200)
    BY <1>1, StatusFacts DEF RefuseRoute, Fail, ExchangeInv, AnswerInv, Whole, sealedVars,
       callVars, bodyVars, frameVars, answerVars, goneVars, AnswerWith
  <2>2. QED
    BY <2>1, PayloadsUntouched
<1>2. CASE StartReading
  <2>1. /\ UNCHANGED <<mode, dataFrames, frameVars, stream, chunks, delivered>>
        /\ (Whole' => Whole) /\ (reader' # "finished" => reader # "finished")
        /\ (mode = "buffered" /\ status' = 200 => status = 200)
    BY <1>2, StatusFacts DEF StartReading, ExchangeInv, AnswerInv, Whole, sealedVars,
       callVars, bodyVars, frameVars, answerVars, goneVars, AnswerWith
  <2>2. QED
    BY <2>1, PayloadsUntouched
<1>3. CASE FailRequest
  <2>1. /\ UNCHANGED <<mode, dataFrames, frameVars, stream, chunks, delivered>>
        /\ (Whole' => Whole) /\ (reader' # "finished" => reader # "finished")
        /\ (mode = "buffered" /\ status' = 200 => status = 200)
    BY <1>3, StatusFacts DEF FailRequest, Fail, DefectStatus, ExchangeInv, AnswerInv, Whole,
       sealedVars, callVars, bodyVars, frameVars, answerVars, goneVars, AnswerWith
  <2>2. QED
    BY <2>1, PayloadsUntouched
<1>4. CASE StartSealing
  <2>1. /\ UNCHANGED <<mode, dataFrames, frameVars, stream, chunks, delivered>>
        /\ (Whole' => Whole) /\ (reader' # "finished" => reader # "finished")
        /\ (mode = "buffered" /\ status' = 200 => status = 200)
    BY <1>4, StatusFacts DEF StartSealing, ExchangeInv, AnswerInv, Whole, sealedVars,
       callVars, bodyVars, frameVars, answerVars, goneVars, AnswerWith
  <2>2. QED
    BY <2>1, PayloadsUntouched
<1>5. CASE SealingFails
  <2>1. /\ UNCHANGED <<mode, dataFrames, frameVars, stream, chunks, delivered>>
        /\ (Whole' => Whole) /\ (reader' # "finished" => reader # "finished")
        /\ (mode = "buffered" /\ status' = 200 => status = 200)
    BY <1>5, StatusFacts DEF SealingFails, DefectStatus, ExchangeInv, AnswerInv, Whole,
       sealedVars, callVars, bodyVars, frameVars, answerVars, goneVars, AnswerWith
  <2>2. QED
    BY <2>1, PayloadsUntouched
<1>6. CASE Forward
  <2>1. /\ UNCHANGED <<mode, dataFrames, frameVars, stream, chunks, delivered>>
        /\ (Whole' => Whole) /\ (reader' # "finished" => reader # "finished")
        /\ (mode = "buffered" /\ status' = 200 => status = 200)
    BY <1>6, StatusFacts DEF Forward, ExchangeInv, AnswerInv, Whole, sealedVars, callVars,
       bodyVars, frameVars, answerVars, goneVars, AnswerWith
  <2>2. QED
    BY <2>1, PayloadsUntouched
<1>7. CASE FetchSettles
  <2>1. /\ UNCHANGED <<mode, dataFrames, frameVars, stream, chunks, delivered>>
        /\ (Whole' => Whole) /\ (reader' # "finished" => reader # "finished")
        /\ (mode = "buffered" /\ status' = 200 => status = 200)
    BY <1>7, StatusFacts DEF FetchSettles, ExchangeInv, AnswerInv, Whole, sealedVars,
       callVars, bodyVars, frameVars, answerVars, goneVars, AnswerWith
  <2>2. QED
    BY <2>1, PayloadsUntouched
<1>8. CASE FailCall
  <2>1. /\ UNCHANGED <<mode, dataFrames, frameVars, stream, chunks, delivered>>
        /\ (Whole' => Whole) /\ (reader' # "finished" => reader # "finished")
        /\ (mode = "buffered" /\ status' = 200 => status = 200)
    BY <1>8, StatusFacts DEF FailCall, Fail, ExchangeInv, AnswerInv, Whole, sealedVars,
       callVars, bodyVars, frameVars, answerVars, goneVars, AnswerWith
  <2>2. QED
    BY <2>1, PayloadsUntouched
<1>9. CASE RejectCall
  <2>1. /\ UNCHANGED <<mode, dataFrames, frameVars, stream, chunks, delivered>>
        /\ (Whole' => Whole) /\ (reader' # "finished" => reader # "finished")
        /\ (mode = "buffered" /\ status' = 200 => status = 200)
    BY <1>9, StatusFacts DEF RejectCall, ExchangeInv, AnswerInv, Whole, sealedVars,
       callVars, bodyVars, frameVars, answerVars, goneVars, AnswerWith
  <2>2. QED
    BY <2>1, PayloadsUntouched
<1>10. CASE RejectedBodyCancelled
  <2>1. /\ UNCHANGED <<mode, dataFrames, frameVars, stream, chunks, delivered>>
        /\ (Whole' => Whole) /\ (reader' # "finished" => reader # "finished")
        /\ (mode = "buffered" /\ status' = 200 => status = 200)
    BY <1>10, StatusFacts DEF RejectedBodyCancelled, RelayStatuses, ExchangeInv, AnswerInv,
       Whole, sealedVars, callVars, bodyVars, frameVars, answerVars, goneVars, AnswerWith
  <2>2. QED
    BY <2>1, PayloadsUntouched
<1>11. CASE StartOpening
  <2>1. /\ UNCHANGED <<mode, dataFrames, frameVars, stream, chunks, delivered>>
        /\ (Whole' => Whole) /\ (reader' # "finished" => reader # "finished")
        /\ (mode = "buffered" /\ status' = 200 => status = 200)
    BY <1>11, StatusFacts DEF StartOpening, ExchangeInv, CallInv, AnswerInv, Whole,
       sealedVars, callVars, bodyVars, frameVars, answerVars, goneVars, AnswerWith
  <2>2. QED
    BY <2>1, PayloadsUntouched
<1>12. CASE AcceptLine
  <2>1. /\ reader = "reading" /\ reader' \in {"reading", "suspended"}
        /\ expectedSequence \in 0..LastSequence /\ ~sawFinal
        /\ expectedSequence' = expectedSequence + 1
        /\ sawFinal' = (expectedSequence = LastSequence)
        /\ IF expectedSequence = 0 THEN TakeHead ELSE TakeData(Sealed(expectedSequence))
        /\ UNCHANGED <<mode, dataFrames, delivered>>
    BY <1>12, AcceptedLine DEF TakeHead, TakeData, sealedVars
  <2>2. dataFrames \in Nat /\ LastSequence = dataFrames + 1 /\ expectedSequence \in Nat
        /\ Len(delivered) \in Nat /\ Len(chunks) \in Nat /\ frameBytes > 0
    BY BoundsAssumption DEF TypeInv, CountTypes, ListTypes, LastSequence
  <2>3. Len(delivered) + Len(chunks) = Opened
    BY <2>1 DEF PayloadInv, Whole
  <2>4. stream' # "closed" /\ ~(mode' = "buffered" /\ status' = 200)
    <3>1. stream # "closed" /\ ~(mode = "buffered" /\ status = 200)
      BY <2>1 DEF ExchangeInv, AnswerInv
    <3>2. QED
      BY <2>1, <3>1 DEF TakeHead, TakeData, AnswerWith
  <2>5. CASE expectedSequence = 0
    <3>1. chunks' = chunks /\ ~sawFinal'
      <4>1. expectedSequence # LastSequence
        BY <2>2, <2>5
      <4>2. QED
        BY <2>1, <2>5, <4>1 DEF TakeHead
    <3>2. Opened = 0 /\ Opened' = 0
      BY <2>1, <2>5, <3>1 DEF Opened
    <3>3. QED
      BY <2>1, <2>3, <2>4, <3>1, <3>2 DEF PayloadInv
  <2>6. CASE expectedSequence = LastSequence
    <3>1. sawFinal' /\ expectedSequence # 0
      <4>1. expectedSequence # 0
        BY <2>2, <2>6
      <4>2. QED
        BY <2>1, <2>6, <4>1
    <3>2. chunks' = chunks
      BY <2>1, <2>6, <3>1, SealedFacts DEF TakeData
    <3>3. Opened = dataFrames /\ Opened' = dataFrames
      BY <2>1, <2>2, <2>6, <3>1 DEF Opened
    <3>4. QED
      BY <2>1, <2>3, <2>4, <3>1, <3>2, <3>3 DEF PayloadInv
  <2>7. CASE expectedSequence # 0 /\ expectedSequence # LastSequence
    <3>1. ~sawFinal'
      BY <2>1, <2>7
    <3>2. chunks' = Append(chunks, expectedSequence)
      BY <2>1, <2>2, <2>7, SealedFacts DEF TakeData
    <3>3. Opened = expectedSequence - 1 /\ Opened' = expectedSequence
      BY <2>1, <2>2, <2>7, <3>1 DEF Opened
    <3>4. /\ Len(chunks') = Len(chunks) + 1
          /\ \A i \in 1..Len(chunks) : chunks'[i] = chunks[i]
          /\ chunks'[Len(chunks) + 1] = expectedSequence
      BY <3>2 DEF TypeInv, ListTypes
    <3>5. \A i \in 1..Len(chunks') : chunks'[i] = Len(delivered') + i
      <4> SUFFICES ASSUME NEW i \in 1..Len(chunks') PROVE chunks'[i] = Len(delivered) + i
        BY <2>1
      <4>1. CASE i \in 1..Len(chunks)
        BY <4>1, <3>4 DEF PayloadInv
      <4>2. CASE i = Len(chunks) + 1
        BY <4>2, <2>2, <2>3, <3>3, <3>4
      <4>3. QED
        BY <4>1, <4>2, <3>4, <2>2
    <3>6. Len(delivered') + Len(chunks') = Opened'
      BY <2>1, <2>2, <2>3, <3>3, <3>4
    <3>7. QED
      BY <2>1, <2>4, <3>1, <3>5, <3>6 DEF PayloadInv
  <2>8. QED
    BY <2>5, <2>6, <2>7
<1>13. CASE RejectLine
  <2>1. /\ UNCHANGED <<mode, dataFrames, frameVars, stream, chunks, delivered>>
        /\ (Whole' => Whole) /\ (reader' # "finished" => reader # "finished")
        /\ (mode = "buffered" /\ status' = 200 => status = 200)
    BY <1>13, StatusFacts DEF RejectLine, CancelBody, ExchangeInv, AnswerInv, Whole, sealedVars,
       callVars, bodyVars, frameVars, answerVars, goneVars, AnswerWith
  <2>2. QED
    BY <2>1, PayloadsUntouched
<1>14. CASE RejectingEnds
  <2>1. /\ UNCHANGED <<mode, dataFrames, frameVars, delivered>> /\ chunks' = <<>>
        /\ ~Whole' /\ (mode = "buffered" => reader' = "finished")
    BY <1>14, StatusFacts DEF RejectingEnds, Fail, Throw, ExchangeInv, AnswerInv, Whole,
       sealedVars, AnswerWith
  <2>2. QED
    BY <2>1, PayloadsDropped
<1>15. CASE BodyEnds
  <2>1. /\ UNCHANGED <<mode, dataFrames, frameVars>> /\ reader = "reading"
        /\ IF sawFinal THEN Complete ELSE Throw /\ UNCHANGED delivered
    BY <1>15 DEF BodyEnds, sealedVars
  <2>2. CASE ~sawFinal
    <3>1. /\ UNCHANGED delivered /\ chunks' = <<>>
          /\ ~Whole' /\ (mode = "buffered" => reader' = "finished")
      BY <2>1, <2>2, StatusFacts DEF Throw, Fail, ExchangeInv, AnswerInv, Whole, AnswerWith
    <3>2. QED
      BY <2>1, <3>1, PayloadsDropped
  <2>3. CASE sawFinal /\ mode = "buffered"
    <3>1. delivered' = chunks /\ chunks' = <<>> /\ delivered = <<>> /\ reader' = "finished"
      BY <2>1, <2>3 DEF Complete, PayloadInv
    <3>2. /\ Len(chunks) \in Nat /\ Len(delivered) = 0 /\ Len(chunks') = 0
          /\ Len(delivered') = Len(chunks)
      BY <3>1 DEF TypeInv, ListTypes
    <3>3. Len(chunks) = Opened /\ Opened' = Opened
      BY <2>1, <3>2 DEF PayloadInv, Whole, Opened, frameVars
    <3>4. \A i \in 1..Len(delivered') : delivered'[i] = i
      BY <3>1, <3>2 DEF PayloadInv
    <3>5. sawFinal'
      BY <2>1, <2>3 DEF frameVars
    <3>6. QED
      BY <3>1, <3>2, <3>3, <3>4, <3>5 DEF PayloadInv
  <2>4. CASE sawFinal /\ mode # "buffered"
    <3>1. UNCHANGED <<chunks, delivered>> /\ reader' = "finished" /\ mode' # "buffered" /\ sawFinal'
      BY <2>1, <2>4 DEF Complete, frameVars
    <3>2. Len(delivered) + Len(chunks) = Opened /\ Opened' = Opened
      BY <2>1, <2>4 DEF PayloadInv, Whole, Opened, frameVars
    <3>3. QED
      BY <3>1, <3>2 DEF PayloadInv
  <2>5. QED
    BY <2>2, <2>3, <2>4
<1>16. CASE BodyBreaks
  <2>1. /\ UNCHANGED <<mode, dataFrames, frameVars, stream, chunks, delivered>>
        /\ (Whole' => Whole) /\ (reader' # "finished" => reader # "finished")
        /\ (mode = "buffered" /\ status' = 200 => status = 200)
    BY <1>16, StatusFacts DEF BodyBreaks, ExchangeInv, AnswerInv, Whole, sealedVars,
       callVars, bodyVars, frameVars, answerVars, goneVars, AnswerWith
  <2>2. QED
    BY <2>1, PayloadsUntouched
<1>17. CASE DeadlineFires
  <2>1. /\ UNCHANGED <<mode, dataFrames, frameVars, stream, chunks, delivered>>
        /\ (Whole' => Whole) /\ (reader' # "finished" => reader # "finished")
        /\ (mode = "buffered" /\ status' = 200 => status = 200)
    BY <1>17, StatusFacts DEF DeadlineFires, ExchangeInv, AnswerInv, Whole, sealedVars,
       callVars, bodyVars, frameVars, answerVars, goneVars, AnswerWith
  <2>2. QED
    BY <2>1, PayloadsUntouched
<1>18. CASE ReadFails
  <2>1. /\ UNCHANGED <<mode, dataFrames, frameVars, delivered>> /\ chunks' = <<>>
        /\ ~Whole' /\ (mode = "buffered" => reader' = "finished")
    BY <1>18, StatusFacts DEF ReadFails, Fail, Throw, ExchangeInv, AnswerInv, Whole,
       sealedVars, AnswerWith
  <2>2. QED
    BY <2>1, PayloadsDropped
<1>19. CASE PullNext
  <2>1. /\ UNCHANGED <<mode, dataFrames, frameVars, stream, chunks, delivered>>
        /\ (Whole' => Whole) /\ (reader' # "finished" => reader # "finished")
        /\ (mode = "buffered" /\ status' = 200 => status = 200)
    BY <1>19, StatusFacts DEF PullNext, ExchangeInv, AnswerInv, Whole, sealedVars, callVars,
       bodyVars, frameVars, answerVars, goneVars, AnswerWith
  <2>2. QED
    BY <2>1, PayloadsUntouched
<1>20. CASE ConsumerReads
  <2>1. /\ delivered' = delivered \o chunks /\ chunks' = <<>> /\ mode # "buffered"
        /\ UNCHANGED <<mode, reader, stream, status, frameVars, sealedVars>>
    BY <1>20 DEF ConsumerReads, ExchangeInv, AnswerInv, sealedVars
  <2>2. delivered \in Seq(1..MaxDataFrames) /\ chunks \in Seq(1..MaxDataFrames)
    BY DEF TypeInv, ListTypes
  <2>3. /\ Len(delivered') = Len(delivered) + Len(chunks)
        /\ \A i \in 1..Len(delivered') : delivered'[i] = i
    BY <2>1, <2>2, InOrderConcat DEF PayloadInv
  <2>4. Len(chunks') = 0 /\ Len(delivered) \in Nat /\ Len(chunks) \in Nat
    BY <2>1, <2>2
  <2>5. (Whole' => Whole) /\ Opened' = Opened /\ sawFinal' = sawFinal
    BY <2>1 DEF Whole, Opened, frameVars, sealedVars
  <2>6. QED
    BY <2>1, <2>3, <2>4, <2>5 DEF PayloadInv
<1>21. CASE ConsumerCancels
  <2>1. /\ UNCHANGED <<mode, dataFrames, frameVars, delivered>> /\ chunks' = <<>>
        /\ ~Whole' /\ (mode = "buffered" => reader' = "finished")
    BY <1>21, StatusFacts DEF ConsumerCancels, CancelBody, ExchangeInv, AnswerInv, Whole, sealedVars,
       AnswerWith
  <2>2. QED
    BY <2>1, PayloadsDropped
<1>22. CASE CancellingEnds
  <2>1. /\ UNCHANGED <<mode, dataFrames, frameVars, stream, chunks, delivered>>
        /\ (Whole' => Whole) /\ (reader' # "finished" => reader # "finished")
        /\ (mode = "buffered" /\ status' = 200 => status = 200)
    BY <1>22, StatusFacts DEF CancellingEnds, ExchangeInv, AnswerInv, Whole, sealedVars,
       callVars, bodyVars, frameVars, answerVars, goneVars, AnswerWith
  <2>2. QED
    BY <2>1, PayloadsUntouched
<1>23. CASE Abandon
  <2>1. /\ UNCHANGED <<mode, dataFrames, frameVars, stream, chunks, delivered>>
        /\ (Whole' => Whole) /\ (reader' # "finished" => reader # "finished")
        /\ (mode = "buffered" /\ status' = 200 => status = 200)
    BY <1>23, StatusFacts DEF Abandon, ExchangeInv, AnswerInv, Whole, sealedVars, callVars,
       bodyVars, frameVars, answerVars, goneVars, AnswerWith
  <2>2. QED
    BY <2>1, PayloadsUntouched
<1>24. CASE UNCHANGED vars
  BY <1>24 DEF vars, PayloadInv, Whole, Opened, sealedVars, callVars, bodyVars, frameVars,
     answerVars, goneVars, AnswerWith
<1>25. CASE CancelReachesRelay
  <2>1. /\ UNCHANGED <<mode, dataFrames, frameVars, stream, chunks, delivered>>
        /\ (Whole' => Whole) /\ (reader' # "finished" => reader # "finished")
        /\ (mode = "buffered" /\ status' = 200 => status = 200)
    BY <1>25, StatusFacts DEF CancelReachesRelay, ExchangeInv, AnswerInv, Whole, sealedVars,
       callVars, bodyVars, frameVars, answerVars, goneVars, AnswerWith
  <2>2. QED
    BY <2>1, PayloadsUntouched
<1>26. QED
  BY <1>1, <1>2, <1>3, <1>4, <1>5, <1>6, <1>7, <1>8, <1>9, <1>10, <1>11, <1>12, <1>13,
     <1>14, <1>15, <1>16, <1>17, <1>18, <1>19, <1>20, <1>21, <1>22, <1>23, <1>24, <1>25
  DEF Next, Runtime

-----------------------------------------------------------------------------
\* The inductive invariant.
IndInv == TypeInv /\ ExchangeInv /\ FrameInv /\ PayloadInv /\ CauseInv

(***************************************************************************)
(* The inductive invariant holds, for every length of a response, every     *)
(* size of its frames and every limit.                                      *)
(***************************************************************************)
THEOREM Inductive == Spec => []IndInv
<1>1. Init => IndInv
  <2> SUFFICES ASSUME Init PROVE IndInv
    OBVIOUS
  <2>1. TypeInv
    BY InitTyped
  <2>2. ExchangeInv
    BY DEF Init, ExchangeInv, CallInv, AnswerInv, UpstreamUnderDeadline
  <2>3. FrameInv
    BY BoundsAssumption DEF Init, FrameInv
  <2>4. PayloadInv
    <3>1. Len(delivered) = 0 /\ Len(chunks) = 0
      BY DEF Init
    <3>2. QED
      BY <3>1 DEF Init, PayloadInv, Opened
  <2>5. CauseInv
    BY DEF Init, CauseInv, Refused
  <2>6. QED
    BY <2>1, <2>2, <2>3, <2>4, <2>5 DEF IndInv
<1>2. IndInv /\ [Next]_vars => IndInv'
  BY TypeStep, ExchangeStep, FrameStep, PayloadStep, CauseStep DEF IndInv
<1>3. QED
  BY <1>1, <1>2, PTL DEF Spec

(***************************************************************************)
(* No handler, generator or consumer leaves a variable outside its type:    *)
(* the counters stay within the Sidecar's limits.                           *)
(***************************************************************************)
THEOREM TypeCorrect == Spec => []TypeOK
<1>1. IndInv => TypeOK
  BY TypeOKIsTypeInv DEF IndInv
<1>2. QED
  BY <1>1, Inductive, PTL

\* Payloads in order are the first payloads of the response.
LEMMA InOrder ==
  ASSUME TypeInv, PayloadInv
  PROVE  /\ Len(delivered \o chunks) = Len(delivered) + Len(chunks)
         /\ delivered \o chunks = Payloads(Len(delivered \o chunks))
<1> DEFINE whole == delivered \o chunks
<1>1. delivered \in Seq(1..MaxDataFrames) /\ chunks \in Seq(1..MaxDataFrames)
  BY DEF TypeInv, ListTypes
<1>2. /\ whole \in Seq(1..MaxDataFrames)
      /\ Len(whole) = Len(delivered) + Len(chunks)
      /\ \A i \in 1..Len(whole) : whole[i] = i
  BY <1>1, InOrderConcat DEF PayloadInv
<1> HIDE DEF whole
<1>3. whole = [i \in 1..Len(whole) |-> whole[i]]
  BY <1>2
<1>4. whole = Payloads(Len(whole))
  BY <1>2, <1>3 DEF Payloads
<1>5. QED
  BY <1>2, <1>4 DEF whole

(***************************************************************************)
(* Whatever the Relay loses, repeats or reorders, response.ts hands the     *)
(* application a prefix of what the Exit sealed.                            *)
(***************************************************************************)
THEOREM AnswersInOrder == Spec => []DeliveredInOrder
<1>1. IndInv => DeliveredInOrder
  BY InOrder DEF IndInv, DeliveredInOrder
<1>2. QED
  BY <1>1, Inductive, PTL

(***************************************************************************)
(* A stream that response.ts closes, or a buffered answer it makes a        *)
(* success, has had its authenticated final frame and every payload.        *)
(***************************************************************************)
THEOREM CleanEnds == Spec => []CleanEndIsComplete
<1>1. IndInv => CleanEndIsComplete
  <2> SUFFICES ASSUME IndInv, stream = "closed" \/ (mode = "buffered" /\ status = 200)
               PROVE  sawFinal /\ delivered \o chunks = Payloads(dataFrames)
    BY DEF CleanEndIsComplete
  <2>1. sawFinal /\ Len(delivered) + Len(chunks) = Opened
    BY DEF IndInv, PayloadInv, Whole
  <2>2. Opened = dataFrames
    BY <2>1, BoundsAssumption DEF IndInv, FrameInv, Opened, TypeInv, CountTypes
  <2>3. QED
    BY <2>1, <2>2, InOrder DEF IndInv
<1>2. QED
  BY <1>1, Inductive, PTL

(***************************************************************************)
(* openFrame and the checks around it refuse an untouched response only     *)
(* over a limit or after the deadline, and complete none over a limit.      *)
(***************************************************************************)
THEOREM OnlyLimitsRefuse == Spec => []LimitsAloneRefuse
<1>1. IndInv => LimitsAloneRefuse
  <2> SUFFICES ASSUME IndInv PROVE LimitsAloneRefuse
    OBVIOUS
  <2>1. ASSUME sawFinal PROVE WithinLimits
    <3>1. expectedSequence = dataFrames + 2
      BY <2>1 DEF IndInv, FrameInv
    <3>2. totalBytes = 1 + dataFrames * frameBytes
      BY <2>1, <3>1, BoundsAssumption DEF IndInv, FrameInv, Opened, TypeInv, CountTypes
    <3>3. QED
      BY <3>1, <3>2, LimitsAssumption DEF IndInv, WithinLimits, TypeInv, CountTypes
  <2>2. QED
    BY <2>1 DEF IndInv, CauseInv, LimitsAloneRefuse
<1>2. QED
  BY <1>1, Inductive, PTL

(***************************************************************************)
(* Before the streamed answer closes or breaks off, the body of the Relay's *)
(* answer is over; when the application cancels the answer, the body is at  *)
(* least being cancelled.                                                   *)
(***************************************************************************)
THEOREM StreamEndsStop == Spec => []StreamEndStopsUpstream
<1>1. IndInv => StreamEndStopsUpstream
  BY DEF IndInv, ExchangeInv, AnswerInv, UpstreamUnderDeadline, StreamEndStopsUpstream
<1>2. QED
  BY <1>1, Inductive, PTL

(***************************************************************************)
(* From the fetch of relay.ts through the hand-over to the generators, and  *)
(* after an interruption of the handler, the exchange is under an armed     *)
(* deadline; only a body that is closing, after a refused line or a         *)
(* cancelled stream, has lost it.                                           *)
(***************************************************************************)
THEOREM AlwaysUnderDeadline == Spec => []UpstreamUnderDeadline
<1>1. IndInv => UpstreamUnderDeadline
  BY DEF IndInv, ExchangeInv
<1>2. QED
  BY <1>1, Inductive, PTL
=============================================================================
