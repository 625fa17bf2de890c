------------------------------- MODULE Sidecar -------------------------------
(***************************************************************************)
(* One request in the Sidecar: its handler (packages/client/src/sidecar.ts), *)
(* the call to the Relay under a deadline (packages/client/src/relay.ts) and *)
(* the opening of the encrypted response (packages/client/src/response.ts): *)
(* lines of the Relay's body, frames authenticated in sequence, and a       *)
(* streamed or a buffered answer to the application.  Requests share no     *)
(* state, so one of them is enough.                                        *)
(*                                                                         *)
(* The Exit sealed a head, some data frames and an empty final frame.  What *)
(* arrives is whatever the Relay passes on: each next line may be any of    *)
(* these frames again or out of turn, or a line that is none of them; the   *)
(* body may end or break anywhere.  Opening a frame succeeds for a frame    *)
(* the Exit sealed and for no other line: HPKE is external.                 *)
(*                                                                         *)
(* Plaintext is counted in units: one for the head, and for every data      *)
(* frame of a response the same number.                                    *)
(***************************************************************************)
EXTENDS Integers, Sequences

CONSTANTS
  maxResponseFrames,  \* the Sidecar's limits
  maxResponseBytes,
  MaxDataFrames,      \* bound: data frames in a response, final one excluded
  MaxFrameBytes       \* bound: units of plaintext in a data frame

ASSUME LimitsAssumption ==
  /\ maxResponseFrames \in Nat
  /\ maxResponseBytes \in Nat
ASSUME BoundsAssumption == MaxDataFrames \in Nat /\ MaxFrameBytes \in Nat \ {0}

VARIABLES
  mode,              \* whether the request asked for a stream
  dataFrames,        \* how many data frames the Exit sealed
  frameBytes,        \* units of plaintext in each of them
  handler,           \* where the request's fiber is
  fetched,           \* how the fetch of the call to the Relay settled
  upstream,          \* the exchange with the Relay, and the body of its answer
  deadline,          \* the deadline of that exchange
  locked,            \* whether readNdjsonLines holds the body
  reader,            \* where the chain of generators is
  expectedSequence, sawFinal, totalBytes,
  status,            \* the answer's status, 0 until there is one
  stream,            \* the streamed answer's body
  chunks,            \* payloads enqueued, or buffered, and not yet handed over
  delivered,         \* payloads handed over to the server of the application
  abandoned,         \* whether the application went away before the answer
  tampered           \* whether the Relay passed on anything but the response in full

frameVars == <<expectedSequence, sawFinal, totalBytes>>
bodyVars == <<upstream, deadline, locked>>
answerVars == <<status, stream, chunks, delivered>>
sealedVars == <<mode, dataFrames, frameBytes>>
callVars == <<handler, fetched>>
goneVars == <<abandoned, tampered>>
vars == <<sealedVars, callVars, bodyVars, reader, frameVars, answerVars, goneVars>>

\* The frames the Exit sealed, by sequence number.
LastSequence == dataFrames + 1
Sealed(n) ==
  [sequence |-> n,
   bytes |-> IF n = 0 THEN 1 ELSE IF n = LastSequence THEN 0 ELSE frameBytes,
   final |-> n = LastSequence]
Lines == {Sealed(n) : n \in 0..LastSequence}

Init ==
  /\ mode \in {"streaming", "buffered"}
  /\ dataFrames \in 0..MaxDataFrames
  /\ frameBytes \in 1..MaxFrameBytes
  /\ handler = "routing" /\ fetched = "none"
  /\ upstream = "none" /\ deadline = "none" /\ locked = FALSE
  /\ reader = "none"
  /\ expectedSequence = 0 /\ sawFinal = FALSE /\ totalBytes = 0
  /\ status = 0 /\ stream = "none" /\ chunks = <<>> /\ delivered = <<>>
  /\ abandoned = FALSE /\ tampered = FALSE
-----------------------------------------------------------------------------
(* The answer of the handler, or of the promise it awaits.                 *)

publicError ==
  [SidecarRouteNotFound |-> 404, SidecarUnsupportedContentType |-> 415,
   SidecarInvalidRequest |-> 400, SidecarRequestTooLarge |-> 413,
   RelayTimeout |-> 502, RelayTransportFailure |-> 502, RelayEmptyResponse |-> 502,
   MalformedEncryptedResponse |-> 502]
RelayStatuses == {400, 401, 404, 409, 413, 429, 500, 502, 503}
DefectStatus == 500

AnswerWith(code) == handler' = "done" /\ status' = code
Fail(error) == AnswerWith(publicError[error])

CancelledDeadline == IF deadline = "armed" THEN "cancelled" ELSE deadline
-----------------------------------------------------------------------------
(* The handler, up to the Relay's answer.                                  *)

RefuseRoute ==
  /\ handler = "routing"
  /\ Fail("SidecarRouteNotFound")
  /\ UNCHANGED <<sealedVars, fetched, bodyVars, reader, frameVars, stream, chunks,
                 delivered, goneVars>>

StartReading ==
  /\ handler = "routing"
  /\ handler' = "reading"
  /\ UNCHANGED <<sealedVars, fetched, bodyVars, reader, frameVars, answerVars, goneVars>>

\* A request that is refused, or whose body breaks off (a defect).
FailRequest ==
  /\ handler = "reading"
  /\ \/ \E error \in {"SidecarUnsupportedContentType", "SidecarInvalidRequest",
                    "SidecarRequestTooLarge"} : Fail(error)
     \/ AnswerWith(DefectStatus)
  /\ UNCHANGED <<sealedVars, fetched, bodyVars, reader, frameVars, stream, chunks,
                 delivered, goneVars>>

StartSealing ==
  /\ handler = "reading"
  /\ handler' = "sealing"
  /\ UNCHANGED <<sealedVars, fetched, bodyVars, reader, frameVars, answerVars, goneVars>>

SealingFails ==
  /\ handler = "sealing"
  /\ AnswerWith(DefectStatus)
  /\ UNCHANGED <<sealedVars, fetched, bodyVars, reader, frameVars, stream, chunks,
                 delivered, goneVars>>

\* Faulty: calls the Relay without a deadline.
ForwardWithoutDeadline ==
  /\ handler = "sealing"
  /\ handler' = "forwarding"
  /\ upstream' = "requested"
  /\ UNCHANGED <<sealedVars, fetched, deadline, locked, reader, frameVars, answerVars,
                 goneVars>>

Forward ==
  /\ handler = "sealing"
  /\ handler' = "forwarding"
  /\ upstream' = "requested" /\ deadline' = "armed"
  /\ UNCHANGED <<sealedVars, fetched, locked, reader, frameVars, answerVars, goneVars>>

\* The fetch settles, with an answer whose body is still open or without.
FetchSettles ==
  /\ handler = "forwarding" /\ fetched = "none"
  /\ \/ fetched' \in {"ok", "rejected"} /\ upstream' = "open"
     \/ fetched' = "empty" /\ upstream' = "ended"
     \/ fetched' = "failed" /\ upstream' = "failed"
  /\ UNCHANGED <<sealedVars, handler, deadline, locked, reader, frameVars, answerVars,
                 goneVars>>

\* onError of a fetch that rejected, or an answer without a body.
FailCall ==
  /\ handler = "forwarding"
  /\ \/ fetched = "failed" /\ Fail(IF deadline = "fired" THEN "RelayTimeout"
                                   ELSE "RelayTransportFailure")
     \/ fetched = "empty" /\ Fail("RelayEmptyResponse")
  /\ deadline' = CancelledDeadline
  /\ UNCHANGED <<sealedVars, fetched, upstream, locked, reader, frameVars, stream, chunks,
                 delivered, goneVars>>

\* Not ok: the handler cancels the Relay's body and awaits that.
RejectCall ==
  /\ handler = "forwarding" /\ fetched = "rejected"
  /\ handler' = "rejecting"
  /\ upstream' = IF upstream = "open" THEN "cancelled" ELSE upstream
  /\ UNCHANGED <<sealedVars, fetched, deadline, locked, reader, frameVars, answerVars,
                 goneVars>>

RejectedBodyCancelled ==
  /\ handler = "rejecting"
  /\ \E code \in RelayStatuses : AnswerWith(code)
  /\ deadline' = CancelledDeadline
  /\ UNCHANGED <<sealedVars, fetched, upstream, locked, reader, frameVars, stream, chunks,
                 delivered, goneVars>>

\* Faulty: the deadline ends with the call and not with the body.
DeadlineEndsWithCall ==
  /\ handler = "forwarding" /\ fetched = "ok"
  /\ handler' = "opening"
  /\ reader' = "reading" /\ locked' = TRUE
  /\ deadline' = CancelledDeadline
  /\ UNCHANGED <<sealedVars, fetched, upstream, frameVars, answerVars, goneVars>>

\* The body goes to the generators, its deadline with it.
StartOpening ==
  /\ handler = "forwarding" /\ fetched = "ok"
  /\ handler' = "opening"
  /\ reader' = "reading" /\ locked' = TRUE
  /\ UNCHANGED <<sealedVars, fetched, upstream, deadline, frameVars, answerVars, goneVars>>
-----------------------------------------------------------------------------
(* The generators.                                                         *)

\* Faulty: accepts any frame the Exit sealed, in any order.
AcceptsAnyOrder(line) ==
  /\ ~sawFinal
  /\ expectedSequence + 1 <= maxResponseFrames
  /\ totalBytes + line.bytes <= maxResponseBytes

\* Faulty: forgets the Sidecar's limits.
AcceptsUnlimited(line) ==
  /\ ~sawFinal
  /\ line.sequence = expectedSequence

\* Faulty: refuses a response that reaches a limit without exceeding it.
AcceptsBelowLimits(line) ==
  /\ ~sawFinal
  /\ line.sequence = expectedSequence
  /\ expectedSequence + 1 < maxResponseFrames
  /\ totalBytes + line.bytes <= maxResponseBytes

\* openFrame and the checks around it, for a line the Exit sealed.
Accepts(line) ==
  /\ ~sawFinal
  /\ line.sequence = expectedSequence
  /\ expectedSequence + 1 <= maxResponseFrames
  /\ totalBytes + line.bytes <= maxResponseBytes

\* The head makes the streamed answer.  Its status, whatever the Exit sealed, is 200 here.
TakeHead ==
  /\ IF mode = "streaming"
       THEN AnswerWith(200) /\ stream' = "readable"
       ELSE UNCHANGED <<handler, status, stream>>
  /\ UNCHANGED <<reader, chunks>>

\* A payload is enqueued and the generators wait for pull, or it is buffered.
TakeData(line) ==
  /\ chunks' = IF line.bytes > 0 THEN Append(chunks, line.sequence) ELSE chunks
  /\ reader' = IF line.bytes > 0 /\ mode = "streaming" THEN "suspended" ELSE reader
  /\ UNCHANGED <<handler, status, stream>>

AcceptLine ==
  /\ reader = "reading" /\ upstream = "open"
  /\ \E line \in Lines :
       /\ Accepts(line)
       /\ expectedSequence' = expectedSequence + 1
       /\ totalBytes' = totalBytes + line.bytes
       /\ sawFinal' = line.final
       /\ IF expectedSequence = 0 THEN TakeHead ELSE TakeData(line)
  /\ UNCHANGED <<sealedVars, fetched, bodyVars, delivered, goneVars>>

(***************************************************************************)
(* finish of the wrapper: it cancels the deadline and awaits that; only     *)
(* then does it cancel the body, which until then is closing but open.      *)
(***************************************************************************)
CancelBody ==
  /\ deadline' = CancelledDeadline
  /\ upstream' = IF upstream = "open" THEN "closing" ELSE upstream

CancelReachesRelay ==
  /\ upstream = "closing"
  /\ upstream' = "cancelled"
  /\ UNCHANGED <<sealedVars, callVars, deadline, locked, reader, frameVars, answerVars,
                 goneVars>>

(***************************************************************************)
(* Any other line throws: damaged, too long, out of turn, which the Relay   *)
(* can always send, or the next one of the response, over a limit.  A line  *)
(* over maxResponseLineBytes counts as damaged, also if the limit is set    *)
(* too small for the lines of an Exit.  The finally block cancels the body  *)
(* and awaits that.                                                        *)
(***************************************************************************)
RejectLine ==
  /\ reader = "reading" /\ upstream = "open"
  /\ \/ tampered' = TRUE
     \/ /\ ~sawFinal /\ ~Accepts(Sealed(expectedSequence))
        /\ UNCHANGED tampered
  /\ reader' = "rejecting"
  /\ CancelBody
  /\ UNCHANGED <<sealedVars, callVars, locked, frameVars, answerVars, abandoned>>

\* The generators throw: 502 before there is an answer, else a broken stream.
Throw ==
  /\ reader' = "finished" /\ locked' = FALSE
  /\ IF status = 0 THEN Fail("MalformedEncryptedResponse") ELSE UNCHANGED <<handler, status>>
  /\ stream' = IF stream = "readable" THEN "errored" ELSE stream
  /\ chunks' = <<>>

RejectingEnds ==
  /\ reader = "rejecting" /\ upstream # "closing"
  /\ Throw
  /\ UNCHANGED <<sealedVars, fetched, upstream, deadline, frameVars, delivered, goneVars>>

\* The generators return: the stream closes, or the buffered answer is built.
Complete ==
  /\ reader' = "finished" /\ locked' = FALSE
  /\ IF mode = "buffered"
       THEN AnswerWith(200) /\ delivered' = chunks /\ chunks' = <<>> /\ UNCHANGED stream
       ELSE /\ stream' = IF stream = "readable" THEN "closed" ELSE stream
            /\ UNCHANGED <<handler, status, chunks, delivered>>

\* Faulty: an end of the body is an end of the response.
BodyEndsUnchecked ==
  /\ reader = "reading" /\ upstream = "open"
  /\ upstream' = "ended" /\ deadline' = CancelledDeadline
  /\ IF expectedSequence > 0 THEN Complete ELSE Throw /\ UNCHANGED delivered
  /\ UNCHANGED <<sealedVars, fetched, frameVars, goneVars>>

\* The body ends: before the final frame that is an error.
BodyEnds ==
  /\ reader = "reading" /\ upstream = "open"
  /\ upstream' = "ended" /\ deadline' = CancelledDeadline
  /\ IF sawFinal
       THEN Complete /\ UNCHANGED tampered
       ELSE Throw /\ tampered' = TRUE /\ UNCHANGED delivered
  /\ UNCHANGED <<sealedVars, fetched, frameVars, abandoned>>

\* The connection breaks; the reader sees it when it reads.
BodyBreaks ==
  /\ upstream \in {"open", "closing"}
  /\ upstream' = "failed" /\ tampered' = TRUE
  /\ UNCHANGED <<sealedVars, callVars, deadline, locked, reader, frameVars, answerVars,
                 abandoned>>

\* The deadline aborts the fetch, whoever reads the body or does not.
DeadlineFires ==
  /\ deadline = "armed"
  /\ deadline' = "fired"
  /\ upstream' = IF upstream \in {"requested", "open"} THEN "failed" ELSE upstream
  /\ fetched' = IF upstream = "requested" THEN "failed" ELSE fetched
  /\ UNCHANGED <<sealedVars, handler, locked, reader, frameVars, answerVars, goneVars>>

ReadFails ==
  /\ reader = "reading" /\ upstream = "failed"
  /\ Throw
  /\ deadline' = CancelledDeadline
  /\ UNCHANGED <<sealedVars, fetched, upstream, frameVars, delivered, goneVars>>
-----------------------------------------------------------------------------
(* The application.                                                        *)

\* pull, when nothing is enqueued any more.
PullNext ==
  /\ reader = "suspended" /\ stream = "readable" /\ chunks = <<>>
  /\ reader' = "reading"
  /\ UNCHANGED <<sealedVars, callVars, bodyVars, frameVars, answerVars, goneVars>>

ConsumerReads ==
  /\ ~abandoned
  /\ stream \in {"readable", "closed"} /\ chunks # <<>>
  /\ delivered' = delivered \o chunks
  /\ chunks' = <<>>
  /\ UNCHANGED <<sealedVars, callVars, bodyVars, reader, frameVars, status, stream,
                 goneVars>>

\* Faulty: only calls return(), which waits behind the read in flight.
CancelWithoutAbort ==
  /\ ~abandoned
  /\ stream = "readable"
  /\ stream' = "cancelled" /\ chunks' = <<>>
  /\ reader' = "cancelling"
  /\ UNCHANGED <<sealedVars, callVars, bodyVars, frameVars, status, delivered, goneVars>>

(***************************************************************************)
(* cancel aborts the reader, so that a read in flight settles with done,    *)
(* and unwinds the generators, unless they are throwing already.            *)
(***************************************************************************)
ConsumerCancels ==
  /\ ~abandoned
  /\ stream = "readable"
  /\ stream' = "cancelled" /\ chunks' = <<>>
  /\ CancelBody
  /\ reader' = IF reader = "rejecting" THEN reader ELSE "cancelling"
  /\ UNCHANGED <<sealedVars, callVars, locked, frameVars, status, delivered, goneVars>>

\* The generators unwind; nothing waits for the body, which may still be closing.
CancellingEnds ==
  /\ reader = "cancelling"
  /\ upstream # "open"
  /\ reader' = "finished" /\ locked' = FALSE
  /\ UNCHANGED <<sealedVars, callVars, upstream, deadline, frameVars, answerVars, goneVars>>

(***************************************************************************)
(* The application disconnects before it has an answer: the fiber is        *)
(* interrupted.  A fetch it awaits is aborted and onError cancels the       *)
(* deadline.  The promises for sealing and opening take no signal: opening  *)
(* goes on to its end, or up to a stream that nobody will read.             *)
(***************************************************************************)
Abandon ==
  /\ handler # "done"
  /\ handler' = "done" /\ abandoned' = TRUE
  /\ IF handler = "forwarding"
       THEN /\ deadline' = CancelledDeadline
            /\ upstream' = IF upstream \in {"requested", "open"} THEN "cancelled" ELSE upstream
       ELSE UNCHANGED <<deadline, upstream>>
  /\ UNCHANGED <<sealedVars, fetched, locked, reader, frameVars, answerVars, tampered>>
-----------------------------------------------------------------------------
Runtime ==
  \/ StartSealing \/ SealingFails \/ Forward \/ FailCall \/ RejectCall
  \/ RejectedBodyCancelled \/ StartOpening
  \/ RejectingEnds \/ ReadFails \/ PullNext \/ CancellingEnds \/ CancelReachesRelay

Next ==
  \/ RefuseRoute \/ StartReading \/ FailRequest \/ FetchSettles
  \/ AcceptLine \/ RejectLine \/ BodyEnds \/ BodyBreaks
  \/ Runtime \/ DeadlineFires
  \/ ConsumerReads \/ ConsumerCancels \/ Abandon

Spec == Init /\ [][Next]_vars

(***************************************************************************)
(* Promises settle and timers fire.  Neither the Relay nor the application  *)
(* is assumed to do anything.                                               *)
(***************************************************************************)
FairSpec == Spec /\ WF_vars(Runtime) /\ WF_vars(DeadlineFires)
-----------------------------------------------------------------------------
TypeOK ==
  /\ mode \in {"streaming", "buffered"} /\ dataFrames \in 0..MaxDataFrames
  /\ frameBytes \in 1..MaxFrameBytes
  /\ handler \in {"routing", "reading", "sealing", "forwarding", "rejecting", "opening",
                 "done"}
  /\ fetched \in {"none", "ok", "rejected", "empty", "failed"}
  /\ upstream \in {"none", "requested", "open", "closing", "ended", "failed", "cancelled"}
  /\ deadline \in {"none", "armed", "cancelled", "fired"} /\ locked \in BOOLEAN
  /\ reader \in {"none", "reading", "suspended", "rejecting", "cancelling", "finished"}
  /\ expectedSequence \in 0..maxResponseFrames /\ sawFinal \in BOOLEAN
  /\ totalBytes \in 0..maxResponseBytes
  /\ status \in {0, 200, DefectStatus} \cup RelayStatuses
               \cup {publicError[e] : e \in DOMAIN publicError}
  /\ stream \in {"none", "readable", "closed", "errored", "cancelled"}
  /\ chunks \in Seq(1..MaxDataFrames) /\ delivered \in Seq(1..MaxDataFrames)
  /\ abandoned \in BOOLEAN /\ tampered \in BOOLEAN

Payloads(n) == [i \in 1..n |-> i]

(***************************************************************************)
(* Whatever the Relay loses, repeats, reorders or damages, the application  *)
(* sees a prefix of what the Exit sealed.                                   *)
(***************************************************************************)
DeliveredInOrder == delivered \o chunks = Payloads(Len(delivered \o chunks))

(***************************************************************************)
(* A response that is within the limits, the head counted among its bytes   *)
(* and head and final frame among its frames, and that the Relay passes on  *)
(* as it was sealed, is only ever broken off by the deadline; one over a    *)
(* limit never looks complete.                                             *)
(***************************************************************************)
WithinLimits ==
  /\ dataFrames + 2 <= maxResponseFrames
  /\ 1 + dataFrames * frameBytes <= maxResponseBytes

Refused ==
  \/ reader = "rejecting"
  \/ reader = "finished"
     /\ (stream = "errored" \/ status = publicError.MalformedEncryptedResponse)

LimitsAloneRefuse ==
  /\ Refused => tampered \/ deadline = "fired" \/ ~WithinLimits
  /\ sawFinal => WithinLimits

(***************************************************************************)
(* An answer that looks complete is complete: a stream closes, and a        *)
(* buffered answer is a success, only after the authenticated final frame   *)
(* and with every payload before it.                                       *)
(***************************************************************************)
CleanEndIsComplete ==
  stream = "closed" \/ (mode = "buffered" /\ status = 200) =>
    /\ sawFinal
    /\ delivered \o chunks = Payloads(dataFrames)

(***************************************************************************)
(* A stream that was completed or broken off has stopped the Relay's body   *)
(* before, and one that the application cancelled has at least begun to:    *)
(* it does not wait for the Relay to send the frame that a read in flight   *)
(* awaits.                                                                 *)
(***************************************************************************)
StreamEndStopsUpstream ==
  /\ stream \in {"closed", "errored"} => upstream \notin {"open", "closing"}
  /\ stream = "cancelled" => upstream # "open"

(***************************************************************************)
(* The exchange with the Relay is under a running deadline, through the     *)
(* hand-over from the handler to the generators, and after the application  *)
(* left.  Only a body that is about to be cancelled loses it before it is   *)
(* over, and only after a line that was refused or a stream that was        *)
(* cancelled.                                                              *)
(***************************************************************************)
UpstreamUnderDeadline ==
  /\ upstream \in {"requested", "open"} => deadline = "armed"
  /\ upstream = "closing" => reader = "rejecting" \/ stream = "cancelled"

(***************************************************************************)
(* No request keeps the Relay's connection for ever: not one that the       *)
(* application left, that it does not read, or that the Relay never ends,   *)
(* nor one whose deadline was cancelled; nor does a request that waits for  *)
(* the Relay wait for ever.                                                *)
(***************************************************************************)
UpstreamSettles ==
  /\ upstream \in {"requested", "open", "closing"} ~>
       upstream \notin {"requested", "open", "closing"}
  /\ handler \in {"forwarding", "opening"} ~> handler = "done"
=============================================================================
