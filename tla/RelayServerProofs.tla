--------------------------- MODULE RelayServerProofs ---------------------------
(***************************************************************************)
(* Theorems about RelayServer, for all connections, tenants, request ids,    *)
(* windows and limits; and, from Text on, about BodyReaders, for bodies of   *)
(* any length, in chunks of any size, and for all limits.                   *)
(***************************************************************************)
EXTENDS RelayServer, BodyReaders, FiniteSetTheorems, SequenceTheorems, TLAPS

AcceptedTyped == acceptedAt \in [Tracker!Key -> Int]

\* Until the call to the Exit a request has none of its own traces.
NotYetForwarded(r) ==
  phase[r] \in {"idle", "reading"} =>
    exchange[r] = "none" /\ deadline[r] = "none" /\ fetched[r] = "none"

\* A fetch that brought no answer to pass on has no exchange any more, once
\* the handler has dealt with it.
FailureIsClosed(r) ==
  fetched[r] \in {"empty", "failed"} \/ phase[r] = "rejecting" =>
    exchange[r] # "open"

UnderDeadline(r) ==
  exchange[r] = "open" => deadline[r] = "armed" \/ phase[r] = "cancelling"

CallKept(r) == NotYetForwarded(r) /\ FailureIsClosed(r) /\ UnderDeadline(r)

Typed == TypeOK /\ AcceptedTyped

CallsKept == Typed /\ \A r \in Requests : CallKept(r)

IInv == CallsKept /\ PermitsAccountedFor
-----------------------------------------------------------------------------
(* The limiter.                                                            *)

Holders == {r \in Requests : permit[r] = "held"}

LEMMA HoldersFinite == IsFiniteSet(Holders)
BY RequestsAssumption, FS_Subset DEF Holders

\* A request gets a permit and begins to be served.
LEMMA AcquireKeeps ==
  ASSUME Typed, PermitsAccountedFor, NEW r \in Requests, Acquire(r)
  PROVE  PermitsAccountedFor'
<1>1. Holders' = Holders \cup {r} /\ r \notin Holders
  BY DEF Typed, TypeOK, PermitsAccountedFor, Acquire, Serving, Holders
<1>2. Cardinality(Holders') = Cardinality(Holders) + 1
  BY <1>1, HoldersFinite, FS_AddElement
<1>3. activeRequests' = Cardinality(Holders')
  BY <1>2 DEF PermitsAccountedFor, Acquire, Holders
<1>4. activeRequests' <= maxConcurrentRequests
  BY PermitsAssumption DEF Typed, TypeOK, Acquire
<1>5. \A q \in Requests : permit'[q] = "held" <=> phase'[q] \in Serving
  BY DEF Typed, TypeOK, PermitsAccountedFor, Acquire, Goto, Serving
<1> QED BY <1>3, <1>4, <1>5 DEF PermitsAccountedFor, Holders

\* A request is served no more, and gives its permit back if it had one.
LEMMA ReleaseKeeps ==
  ASSUME Typed, PermitsAccountedFor, NEW r \in Requests, NEW p \in Phases \ Serving,
         Goto(r, p), Release(r)
  PROVE  PermitsAccountedFor' /\ activeRequests' \in Nat
<1>1. \A q \in Requests : permit'[q] = "held" <=> phase'[q] \in Serving
  BY DEF Typed, TypeOK, PermitsAccountedFor, Goto, Release, limiterVars, Serving
<1>2. CASE permit[r] = "held"
  <2>1. Holders' = Holders \ {r} /\ r \in Holders
    BY <1>2 DEF Typed, TypeOK, Release, Holders
  <2>2. Cardinality(Holders') = Cardinality(Holders) - 1
    BY <2>1, HoldersFinite, FS_RemoveElement
  <2>3. Cardinality(Holders') \in Nat
    BY <2>1, HoldersFinite, FS_Subset, FS_CardinalityType
  <2>4. activeRequests' = Cardinality(Holders')
    BY <1>2, <2>2 DEF PermitsAccountedFor, Release, Holders
  <2>5. activeRequests' = activeRequests - 1
    BY <1>2 DEF Release
  <2>6. activeRequests \in Nat /\ activeRequests <= maxConcurrentRequests
    BY DEF Typed, TypeOK, PermitsAccountedFor
  <2>7. activeRequests' <= maxConcurrentRequests
    BY <2>5, <2>6, PermitsAssumption
  <2> QED BY <1>1, <2>3, <2>4, <2>7 DEF PermitsAccountedFor, Holders
<1>3. CASE permit[r] # "held"
  <2>1. UNCHANGED limiterVars
    BY <1>3 DEF Release
  <2>2. Holders' = Holders /\ activeRequests' = activeRequests
    BY <2>1 DEF limiterVars, Holders
  <2> QED BY <1>1, <2>2 DEF Typed, TypeOK, PermitsAccountedFor, Holders
<1> QED BY <1>2, <1>3

\* A request goes on being served, or not being served.
LEMMA OtherwiseKeeps ==
  ASSUME Typed, PermitsAccountedFor, NEW r \in Requests, NEW p \in Phases,
         p \in Serving <=> phase[r] \in Serving,
         Goto(r, p), UNCHANGED limiterVars
  PROVE  PermitsAccountedFor'
BY DEF Typed, TypeOK, PermitsAccountedFor, Goto, limiterVars
-----------------------------------------------------------------------------
(* The tracker.                                                            *)

LEMMA ClaimAccepts ==
  ASSUME AcceptedTyped, NEW r \in Requests, Tracker!Claim(KeyOf[r])
  PROVE  /\ AcceptedTyped'
         /\ answer'.result = "claimed" => ~Tracker!InWindow(KeyOf[r], now')
         /\ acceptedAt' # acceptedAt => answer'.result = "claimed"
         /\ \A key \in Tracker!Key : key # KeyOf[r] => acceptedAt'[key] = acceptedAt[key]
<1>1. PICK t \in Tracker!Times :
        /\ now' = t
        /\ \/ Tracker!Duplicate(KeyOf[r], t)
           \/ Tracker!RefuseForCapacity(KeyOf[r], t)
           \/ Tracker!Accept(KeyOf[r], t)
  BY DEF Tracker!Claim
<1>2. t \in Int /\ KeyOf[r] \in Tracker!Key
  BY KeyAssumption DEF Tracker!Times, Tracker!Key
<1>3. CASE Tracker!Accept(KeyOf[r], t)
  BY <1>1, <1>2, <1>3 DEF Tracker!Accept, AcceptedTyped
<1>4. CASE Tracker!Duplicate(KeyOf[r], t) \/ Tracker!RefuseForCapacity(KeyOf[r], t)
  BY <1>1, <1>4 DEF Tracker!Duplicate, Tracker!RefuseForCapacity, AcceptedTyped
<1> QED BY <1>1, <1>3, <1>4
-----------------------------------------------------------------------------
(* The call to the Exit.                                                   *)

LEMMA InitIInv == Init => IInv
<1> SUFFICES ASSUME Init PROVE IInv
  OBVIOUS
<1>1. CallsKept
  BY DEF Init, CallsKept, Typed, TypeOK, Phases, AcceptedTyped, CallKept,
         NotYetForwarded, FailureIsClosed, UnderDeadline, Tracker!Init, Tracker!Never
<1>2. Holders = {}
  BY DEF Init, Holders
<1>3. Cardinality(Holders) = 0
  BY <1>2, FS_EmptySet
<1>4. PermitsAccountedFor
  BY <1>3, PermitsAssumption DEF Init, PermitsAccountedFor, Serving, Holders
<1> QED BY <1>1, <1>4 DEF IInv

LEMMA ClaimKeeps ==
  ASSUME IInv, NEW r \in Requests, ClaimEnvelope(r)
  PROVE  IInv'
<1>1. AcceptedTyped'
  BY ClaimAccepts DEF IInv, CallsKept, Typed, ClaimEnvelope
<1>2. Typed /\ PermitsAccountedFor
  BY DEF IInv, CallsKept
<1>3. CASE Forward(r)
  <2>1. PermitsAccountedFor'
    BY <1>2, <1>3, OtherwiseKeeps
    DEF ClaimEnvelope, Forward, limiterVars, Phases, Serving
  <2>2. CallsKept'
    BY <1>1, <1>3
    DEF IInv, CallsKept, Typed, TypeOK, Phases, CallKept, NotYetForwarded,
        FailureIsClosed, UnderDeadline, ClaimEnvelope, Forward, Goto, limiterVars
  <2> QED BY <2>1, <2>2 DEF IInv
<1>4. CASE RefuseClaim(r)
  <2>1. PermitsAccountedFor' /\ activeRequests' \in Nat
    BY <1>2, <1>4, ReleaseKeeps DEF RefuseClaim, Finish, Phases, Serving
  <2>2. CallsKept'
    BY <1>1, <1>4, <2>1
    DEF IInv, CallsKept, Typed, TypeOK, Phases, CallKept, NotYetForwarded,
        FailureIsClosed, UnderDeadline, ClaimEnvelope, RefuseClaim, Finish, Goto,
        Release, callVars, limiterVars
  <2> QED BY <2>1, <2>2 DEF IInv
<1> QED BY <1>3, <1>4 DEF ClaimEnvelope

\* The other steps leave the tracker alone.
LEMMA OtherStepsKeep ==
  ASSUME IInv, NEW r \in Requests, Step(r), ~ClaimEnvelope(r)
  PROVE  IInv' /\ UNCHANGED trackerVars
<1>1. Typed /\ PermitsAccountedFor
  BY DEF IInv, CallsKept
<1>2. UNCHANGED trackerVars
  BY DEF Step, Admission, RefuseUnknown, RefuseForConcurrency, Acquire, ReadEnvelope,
         FailEnvelope, FetchSettles, DeadlineFires, AfterFetch, FailCall, RejectCall,
         HandOff, ObserverThrows, RejectedBodyCancelled, ClientDisconnects,
         ExchangeEnds, WrapperFinishes, Pull, ChunkPasses, PullResumes, Stream,
         StreamEnds, StreamCancelled, ObserverThrowsOnChunk, CancelWrapper,
         CancelReachesExit, NextRequest, trackerVars
<1>3. PermitsAccountedFor' /\ activeRequests' \in Nat
  <2> USE <1>1
  <2>1. CASE Acquire(r)
    <3>1. activeRequests \in Nat
      BY DEF Typed, TypeOK
    <3>2. activeRequests' = activeRequests + 1
      BY <2>1 DEF Acquire
    <3> QED BY <2>1, <3>1, <3>2, AcquireKeeps
  <2>2. CASE \/ FailEnvelope(r) \/ FailCall(r) \/ RejectedBodyCancelled(r)
             \/ ObserverThrows(r) \/ ClientDisconnects(r) \/ StreamEnds(r)
             \/ StreamCancelled(r) \/ ObserverThrowsOnChunk(r)
    <3>1. (Goto(r, "done") \/ Goto(r, "cancelling")) /\ Release(r)
      BY <2>2 DEF FailEnvelope, FailCall, RejectedBodyCancelled, ObserverThrows,
                  ClientDisconnects, StreamEnds, StreamCancelled,
                  ObserverThrowsOnChunk, CancelWrapper, Finish
    <3> QED BY <3>1, ReleaseKeeps DEF Phases, Serving
  <2>3. CASE \/ RefuseUnknown(r) \/ RefuseForConcurrency(r) \/ RejectCall(r)
             \/ HandOff(r) \/ CancelReachesExit(r)
    <3>1. UNCHANGED limiterVars
      BY <2>3 DEF RefuseUnknown, RefuseForConcurrency, RejectCall, HandOff,
                  CancelReachesExit, limiterVars
    <3>2. \E p \in Phases : Goto(r, p) /\ (p \in Serving <=> phase[r] \in Serving)
      BY <2>3 DEF RefuseUnknown, RefuseForConcurrency, RejectCall, HandOff,
                  CancelReachesExit, Finish, Phases, Serving
    <3> QED BY <3>1, <3>2, OtherwiseKeeps DEF Typed, TypeOK, limiterVars
  <2>4. CASE \/ FetchSettles(r) \/ DeadlineFires(r) \/ ExchangeEnds(r)
             \/ WrapperFinishes(r) \/ Pull(r) \/ ChunkPasses(r) \/ PullResumes(r)
    <3>1. UNCHANGED <<phase, permit, activeRequests>>
      BY <2>4 DEF FetchSettles, DeadlineFires, ExchangeEnds, WrapperFinishes, Pull,
                  ChunkPasses, PullResumes, limiterVars
    <3>2. Holders' = Holders
      BY <3>1 DEF Holders
    <3> QED BY <3>1, <3>2 DEF Typed, TypeOK, PermitsAccountedFor, Holders
  <2>5. CASE NextRequest(r)
    <3>1. Holders' = Holders
      BY <2>5 DEF Typed, TypeOK, PermitsAccountedFor, NextRequest, Serving, Holders
    <3> QED
      BY <2>5, <3>1 DEF Typed, TypeOK, PermitsAccountedFor, NextRequest, Goto,
                        Serving, Holders
  <2> QED
    BY <2>1, <2>2, <2>3, <2>4, <2>5 DEF Step, Admission, ReadEnvelope, AfterFetch, Stream
<1>4. CallsKept'
  <2> USE <1>2, <1>3
      DEF IInv, CallsKept, Typed, TypeOK, Phases, AcceptedTyped, CallKept,
          NotYetForwarded, FailureIsClosed, UnderDeadline, Goto, Finish, Release,
          SetPulling, Closed, CancelledDeadline, callVars, limiterVars, trackerVars
  <2>1. CASE Admission(r)
    BY <2>1 DEF Admission, RefuseUnknown, RefuseForConcurrency, Acquire
  <2>2. CASE FailEnvelope(r)
    BY <2>2 DEF FailEnvelope
  <2>3. CASE FetchSettles(r)
    BY <2>3 DEF FetchSettles
  <2>4. CASE DeadlineFires(r)
    BY <2>4 DEF DeadlineFires
  <2>5. CASE FailCall(r)
    BY <2>5 DEF FailCall
  <2>6. CASE RejectCall(r)
    BY <2>6 DEF RejectCall
  <2>7. CASE HandOff(r)
    BY <2>7 DEF HandOff
  <2>8. CASE ObserverThrows(r)
    BY <2>8 DEF ObserverThrows
  <2>9. CASE RejectedBodyCancelled(r)
    BY <2>9 DEF RejectedBodyCancelled
  <2>10. CASE ClientDisconnects(r)
    <3>1. CASE phase[r] = "forwarding"
      BY <2>10, <3>1, SMTT(30) DEF ClientDisconnects
    <3>2. CASE phase[r] \in {"reading", "rejecting"}
      BY <2>10, <3>2, SMTT(30) DEF ClientDisconnects
    <3> QED BY <2>10, <3>1, <3>2 DEF ClientDisconnects
  <2>11. CASE ExchangeEnds(r)
    BY <2>11 DEF ExchangeEnds
  <2>12. CASE StreamEnds(r)
    BY <2>12 DEF StreamEnds
  <2>13. CASE StreamCancelled(r) \/ ObserverThrowsOnChunk(r)
    <3>1. CASE StreamCancelled(r)
      BY <3>1 DEF StreamCancelled, CancelWrapper
    <3>2. CASE ObserverThrowsOnChunk(r)
      BY <3>2 DEF ObserverThrowsOnChunk, CancelWrapper
    <3> QED BY <2>13, <3>1, <3>2
  <2>14. CASE CancelReachesExit(r)
    BY <2>14 DEF CancelReachesExit
  <2>15. CASE NextRequest(r)
    BY <2>15 DEF NextRequest
  <2>16. CASE WrapperFinishes(r)
    BY <2>16 DEF WrapperFinishes
  <2>17. CASE Pull(r) \/ ChunkPasses(r) \/ PullResumes(r)
    <3>1. CASE Pull(r)
      BY <3>1 DEF Pull
    <3>2. CASE ChunkPasses(r)
      BY <3>2 DEF ChunkPasses
    <3>3. CASE PullResumes(r)
      BY <3>3 DEF PullResumes
    <3> QED BY <2>17, <3>1, <3>2, <3>3
  <2> QED
    BY <2>1, <2>2, <2>3, <2>4, <2>5, <2>6, <2>7, <2>8, <2>9, <2>10, <2>11, <2>12,
       <2>13, <2>14, <2>15, <2>16, <2>17
    DEF Step, ReadEnvelope, AfterFetch, Stream
<1> QED BY <1>2, <1>3, <1>4 DEF IInv

(***************************************************************************)
(* The inductive invariant: permits are accounted for, and an exchange with  *)
(* the Exit opens under a deadline.  Until the exchange is over the deadline *)
(* is cancelled by a cancellation alone, which goes on to close it.         *)
(***************************************************************************)
THEOREM RelayKept == Spec => []IInv
<1>1. IInv /\ [Next]_vars => IInv'
  <2> SUFFICES ASSUME IInv, [Next]_vars
               PROVE  IInv'
    OBVIOUS
  <2>1. ASSUME NEW r \in Requests, Step(r)
        PROVE  IInv'
    BY <2>1, ClaimKeeps, OtherStepsKeep
  <2>2. CASE UNCHANGED vars
    BY <2>2
    DEF vars, limiterVars, callVars, trackerVars, IInv, CallsKept, Typed, TypeOK,
        AcceptedTyped, CallKept, NotYetForwarded, FailureIsClosed, UnderDeadline,
        PermitsAccountedFor
  <2> QED BY <2>1, <2>2 DEF Next
<1> QED BY <1>1, InitIInv, PTL DEF Spec

\* Every variable keeps its type.
THEOREM TypeCorrect == Spec => []TypeOK
<1>1. IInv => TypeOK
  BY DEF IInv, CallsKept, Typed
<1> QED BY <1>1, RelayKept, PTL

\* The counter is the number of requests being served, within the limit.
THEOREM PermitsAlways == Spec => []PermitsAccountedFor
<1>1. IInv => PermitsAccountedFor
  BY DEF IInv
<1> QED BY <1>1, RelayKept, PTL

\* An open exchange has its deadline running, but for the moment inside a
\* cancellation that is about to close it.
THEOREM UnderDeadlineAlways == Spec => []OpenExchangeHasDeadline
<1>1. IInv => OpenExchangeHasDeadline
  BY DEF IInv, CallsKept, CallKept, UnderDeadline, OpenExchangeHasDeadline
<1> QED BY <1>1, RelayKept, PTL
-----------------------------------------------------------------------------
LEMMA ClaimForwardsOnce ==
  ASSUME IInv, NEW q \in Requests, ClaimEnvelope(q), NEW key \in Tenants \X RequestIds
  PROVE  /\ IsForwarded(key) => ~Tracker!InWindow(key, now')
         /\ acceptedAt'[key] # acceptedAt[key] => IsForwarded(key)
<1>1. ASSUME IsForwarded(key)
      PROVE  key = KeyOf[q] /\ answer'.result = "claimed"
  BY <1>1 DEF IInv, CallsKept, Typed, TypeOK, IsForwarded, ClaimEnvelope, Forward,
              RefuseClaim, callVars
<1>2. ASSUME acceptedAt'[key] # acceptedAt[key]
      PROVE  IsForwarded(key)
  <2>1. key = KeyOf[q] /\ answer'.result = "claimed"
    BY <1>2, ClaimAccepts
    DEF IInv, CallsKept, Typed, ClaimEnvelope, Tracker!Key
  <2>2. exchange[q] = "none" /\ exchange'[q] = "open"
    BY <2>1 DEF IInv, CallsKept, Typed, TypeOK, CallKept, NotYetForwarded,
                ClaimEnvelope, Forward
  <2> QED BY <2>1, <2>2 DEF IsForwarded
<1> QED BY <1>1, <1>2, ClaimAccepts DEF IInv, CallsKept, Typed, ClaimEnvelope

LEMMA OtherStepsForwardNothing ==
  ASSUME IInv, NEW q \in Requests, Step(q), ~ClaimEnvelope(q), NEW r \in Requests,
         exchange[r] = "none"
  PROVE  exchange'[r] # "open"
BY DEF IInv, CallsKept, Typed, TypeOK, Step, Admission, RefuseUnknown,
       RefuseForConcurrency, Acquire, ReadEnvelope, FailEnvelope, FetchSettles,
       DeadlineFires, AfterFetch, FailCall, RejectCall, HandOff, ObserverThrows,
       RejectedBodyCancelled, ClientDisconnects, ExchangeEnds, WrapperFinishes, Pull,
       ChunkPasses, PullResumes, Stream, StreamEnds, StreamCancelled,
       ObserverThrowsOnChunk, CancelWrapper, CancelReachesExit, NextRequest, Closed,
       callVars

(***************************************************************************)
(* No replay within the window reaches the Exit, whichever fibers race, and  *)
(* an acceptance is not spent on a request that is refused.                 *)
(***************************************************************************)
THEOREM OncePerWindow == Spec => ForwardedOncePerWindow
<1> DEFINE Once ==
      \A key \in Tenants \X RequestIds :
        /\ IsForwarded(key) => ~Tracker!InWindow(key, now')
        /\ acceptedAt'[key] # acceptedAt[key] => IsForwarded(key)
<1>1. IInv /\ [Next]_vars => [Once]_vars
  <2> SUFFICES ASSUME IInv, Next
               PROVE  Once
    OBVIOUS
  <2> PICK q \in Requests : Step(q)
    BY DEF Next
  <2>1. CASE ClaimEnvelope(q)
    BY <2>1, ClaimForwardsOnce
  <2>2. CASE ~ClaimEnvelope(q)
    <3>1. acceptedAt' = acceptedAt
      BY <2>2, OtherStepsKeep DEF trackerVars
    <3> QED BY <2>2, <3>1, OtherStepsForwardNothing DEF IsForwarded
  <2> QED BY <2>1, <2>2
<1> QED BY <1>1, RelayKept, PTL DEF Spec, ForwardedOncePerWindow
-----------------------------------------------------------------------------
(* The readers of bodies.                                                  *)

Text == Seq(Bytes)

\* What can be yielded.
Trimmed == {Trim(line) : line \in Text}

LEMMA LeastNumber ==
  ASSUME NEW S \in SUBSET Nat, S # {}
  PROVE  \E n \in S : \A m \in S : n <= m
<1>1. IsWellFoundedOn(OpToRel(<, Nat), Nat)
  BY NatLessThanWellFounded
<1>2. PICK n \in S : \A m \in S : ~(<<m, n>> \in OpToRel(<, Nat))
  BY <1>1, WFMin
<1>3. \A m \in S : n <= m
  <2> SUFFICES ASSUME NEW m \in S, ~(n <= m) PROVE FALSE
    OBVIOUS
  <2>1. m \in Nat /\ n \in Nat /\ m < n
    OBVIOUS
  <2>2. <<m, n>> \in {p \in Nat \X Nat : p[1] < p[2]}
    BY <2>1
  <2> QED BY <1>2, <2>2 DEF OpToRel
<1> QED BY <1>3

\* A newline is a place in the text.
LEMMA NewlineIn ==
  ASSUME NEW text \in Text, NEW i
  PROVE  i \in Newlines(text) <=> i \in 1..Len(text) /\ text[i] = "n"
BY DEF Newlines, Text

\* A line starts in the text, or right behind it.
LEMMA StartIn ==
  ASSUME NEW text \in Text, NEW s \in Starts(text)
  PROVE  s \in 1..(Len(text) + 1) /\ (s > 1 => s - 1 \in Newlines(text))
<1>1. Len(text) \in Nat
  BY DEF Text
<1> QED BY <1>1, NewlineIn DEF Starts

\* A line ends in one place only.
LEMMA LineIs ==
  ASSUME NEW text \in Text, NEW s \in Nat, NEW last \in Nat, EndsAt(text, s, last)
  PROVE  LineFrom(text, s) = SubSeq(text, s, last)
<1>1. Len(text) \in Nat
  BY DEF Text
<1>2. ASSUME NEW end \in 0..Len(text), EndsAt(text, s, end), end # last
      PROVE  FALSE
  <2>1. CASE end < last
    <3>1. end + 1 \in s..last /\ end # Len(text)
      BY <1>1, <1>2, <2>1 DEF EndsAt
    <3> QED BY <1>2, <3>1 DEF EndsAt
  <2>2. CASE last < end
    <3>1. last + 1 \in s..end /\ last # Len(text)
      BY <1>1, <1>2, <2>2 DEF EndsAt
    <3> QED BY <1>2, <3>1 DEF EndsAt
  <2> QED BY <1>1, <1>2, <2>1, <2>2
<1>3. last \in 0..Len(text)
  BY <1>1 DEF EndsAt
<1> DEFINE end == CHOOSE i \in 0..Len(text) : EndsAt(text, s, i)
<1>4. end = last
  <2>1. end \in 0..Len(text) /\ EndsAt(text, s, end)
    BY <1>3
  <2> QED BY <1>2, <2>1
<1> QED BY <1>4 DEF LineFrom

\* Every line ends: before the first newline from its start on, or with the text.
LEMMA LineEnds ==
  ASSUME NEW text \in Text, NEW s \in 1..(Len(text) + 1)
  PROVE  \E last \in 0..Len(text) : EndsAt(text, s, last)
<1> DEFINE Later == {i \in Newlines(text) : i >= s}
<1>1. Len(text) \in Nat
  BY DEF Text
<1>2. CASE Later = {}
  <2>1. EndsAt(text, s, Len(text))
    BY <1>1, <1>2, NewlineIn DEF EndsAt
  <2> QED BY <1>1, <2>1
<1>3. CASE Later # {}
  <2>1. Later \in SUBSET Nat
    BY <1>1, NewlineIn
  <2>2. PICK i \in Later : \A j \in Later : i <= j
    BY <1>3, <2>1, LeastNumber
  <2>3. i \in 1..Len(text) /\ i >= s /\ i \in Newlines(text)
    BY NewlineIn
  <2>4. \A j \in s..(i - 1) : j \notin Newlines(text)
    BY <2>2, <2>3, <1>1
  <2>5. EndsAt(text, s, i - 1)
    BY <2>3, <2>4, <1>1 DEF EndsAt
  <2> QED BY <2>3, <2>5, <1>1
<1> QED BY <1>2, <1>3

\* A line that ended before the last start ends in a newline.
LEMMA ClosedLine ==
  ASSUME NEW text \in Text, NEW p \in Starts(text), NEW s \in Starts(text), s < p
  PROVE  \E last \in Nat : /\ EndsAt(text, s, last)
                           /\ last + 1 \in Newlines(text) /\ last + 1 < p
<1>1. Len(text) \in Nat /\ s \in 1..(Len(text) + 1) /\ p \in 1..(Len(text) + 1)
  BY StartIn DEF Text
<1>2. PICK last \in 0..Len(text) : EndsAt(text, s, last)
  BY <1>1, LineEnds
<1>3. p - 1 \in Newlines(text)
  BY <1>1, StartIn
<1>4. p - 1 \notin s..last
  BY <1>2, <1>3 DEF EndsAt
<1>5. last < p - 1
  BY <1>1, <1>4
<1>6. last + 1 \in Newlines(text)
  BY <1>1, <1>2, <1>5 DEF EndsAt
<1> QED BY <1>1, <1>2, <1>5, <1>6

\* What arrives later leaves the lines before the last start as they were.
LEMMA LinesStay ==
  ASSUME NEW text \in Text, NEW more \in Text, NEW p \in Starts(text)
  PROVE  /\ p \in Starts(text \o more)
         /\ \A s : s < p => (s \in Starts(text \o more) <=> s \in Starts(text))
         /\ \A s \in Starts(text) :
              s < p => LineFrom(text \o more, s) = LineFrom(text, s)
<1>1. PICK all : all = text \o more
  OBVIOUS
<1>2. /\ Len(text) \in Nat /\ Len(more) \in Nat
      /\ all \in Text /\ Len(all) = Len(text) + Len(more)
      /\ \A i \in 1..Len(text) : all[i] = text[i]
  BY <1>1 DEF Text
<1>3. ASSUME NEW i, i \in Newlines(text)
      PROVE  i \in Newlines(all)
  <2>1. i \in 1..Len(text) /\ text[i] = "n"
    BY <1>3, NewlineIn
  <2>2. i \in 1..Len(all) /\ all[i] = "n"
    BY <1>2, <2>1
  <2> QED BY <1>2, <2>2, NewlineIn
<1>4. ASSUME NEW i, i \in Newlines(all), i <= Len(text)
      PROVE  i \in Newlines(text)
  <2>1. i \in 1..Len(all) /\ all[i] = "n"
    BY <1>2, <1>4, NewlineIn
  <2>2. i \in 1..Len(text) /\ text[i] = "n"
    BY <1>2, <1>4, <2>1
  <2> QED BY <2>2, NewlineIn
<1>5. p \in 1..(Len(text) + 1)
  BY StartIn
<1>6. p \in Starts(all)
  BY <1>3 DEF Starts
<1>7. ASSUME NEW s, s < p, s \in Starts(all)
      PROVE  s \in Starts(text)
  <2>1. s \in 1..(Len(all) + 1) /\ (s > 1 => s - 1 \in Newlines(all))
    BY <1>2, <1>7, StartIn
  <2>2. CASE s > 1
    <3>1. s - 1 \in Newlines(text)
      BY <1>2, <1>4, <1>5, <1>7, <2>1, <2>2
    <3> QED BY <2>1, <3>1, <1>2 DEF Starts
  <2>3. CASE ~(s > 1)
    BY <2>1, <2>3, <1>2 DEF Starts
  <2> QED BY <2>2, <2>3
<1>8. ASSUME NEW s \in Starts(text) PROVE s \in Starts(all)
  BY <1>3 DEF Starts
<1>9. ASSUME NEW s \in Starts(text), s < p
      PROVE  LineFrom(all, s) = LineFrom(text, s)
  <2>1. s \in 1..(Len(text) + 1)
    BY StartIn
  <2>2. PICK last \in Nat : /\ EndsAt(text, s, last)
                            /\ last + 1 \in Newlines(text) /\ last + 1 < p
    BY <1>9, ClosedLine
  <2>3. EndsAt(all, s, last)
    BY <1>2, <1>3, <1>4, <1>5, <2>1, <2>2 DEF EndsAt
  <2>4. LineFrom(text, s) = SubSeq(text, s, last) /\ LineFrom(all, s) = SubSeq(all, s, last)
    <3>1. LineFrom(text, s) = SubSeq(text, s, last)
      BY <2>1, <2>2, LineIs
    <3>2. LineFrom(all, s) = SubSeq(all, s, last)
      BY <2>1, <2>2, <2>3, <1>2, LineIs
    <3> QED BY <3>1, <3>2
  <2>5. SubSeq(all, s, last) = SubSeq(text, s, last)
    <3>1. CASE last < s
      BY <3>1, <2>1, <1>2, SubSeqEmpty
    <3>2. CASE s <= last
      <4>1. s \in 1..Len(text) /\ last \in 1..Len(text)
        BY <3>2, <2>1, <2>2, <1>2 DEF EndsAt
      <4> QED BY <4>1, <1>1, SubSeqOfConcat1 DEF Text
    <3> QED BY <3>1, <3>2, <2>1
  <2> QED BY <2>4, <2>5
<1> QED BY <1>1, <1>6, <1>7, <1>8, <1>9

-----------------------------------------------------------------------------
(* The lines that begin before a place, and what was yielded of them.        *)

TextBefore(text, p) ==
  {s \in Starts(text) : s < p /\ Trim(LineFrom(text, s)) # <<>>}

SoundBefore(text, p) == \A s \in Starts(text) : s < p => Sound(LineFrom(text, s))

\* All of these lines, and only these.
AllFrom(yielded, text, starts) ==
  Len(yielded) = Cardinality(starts) /\ YieldedFrom(yielded, text, starts)

LEMMA StartsFinite ==
  ASSUME NEW text \in Text, NEW S \in SUBSET Starts(text)
  PROVE  IsFiniteSet(S) /\ S \in SUBSET Nat /\ Cardinality(S) \in Nat
<1>1. Len(text) \in Nat
  BY DEF Text
<1>2. \A s \in S : s \in 1..(Len(text) + 1)
  BY StartIn
<1>3. IsFiniteSet(1..(Len(text) + 1)) /\ S \in SUBSET (1..(Len(text) + 1))
  BY <1>1, <1>2, FS_Interval
<1>4. IsFiniteSet(S)
  BY <1>3, FS_Subset
<1> QED BY <1>1, <1>2, <1>4, FS_CardinalityType

\* A line goes behind the others.
LEMMA OneMore ==
  ASSUME NEW text, NEW S \in SUBSET Nat, IsFiniteSet(S),
         NEW p \in Nat, \A s \in S : s < p,
         NEW yielded \in Seq(Trimmed), AllFrom(yielded, text, S),
         NEW line \in Trimmed, line = Trim(LineFrom(text, p))
  PROVE  AllFrom(Append(yielded, line), text, S \cup {p})
<1> DEFINE T == S \cup {p}
<1>1. PICK new : new = Append(yielded, line)
  OBVIOUS
<1>2. /\ Len(yielded) \in Nat /\ DOMAIN yielded = 1..Len(yielded)
      /\ Len(new) = Len(yielded) + 1 /\ DOMAIN new = 1..Len(new)
      /\ \A k \in 1..Len(yielded) : new[k] = yielded[k]
      /\ new[Len(yielded) + 1] = line
  BY <1>1
<1>3. p \notin S
  OBVIOUS
<1>4. Cardinality(T) = Cardinality(S) + 1
  BY <1>3, FS_AddElement
<1>5. Len(new) = Cardinality(T)
  BY <1>2, <1>4 DEF AllFrom
<1>6. ASSUME NEW k \in DOMAIN new
      PROVE  \E s \in T : Rank(T, s) = k /\ new[k] = Trim(LineFrom(text, s))
  <2>1. CASE k \in 1..Len(yielded)
    <3>1. PICK s \in S : Rank(S, s) = k /\ yielded[k] = Trim(LineFrom(text, s))
      BY <1>2, <2>1 DEF AllFrom, YieldedFrom
    <3>2. {t \in T : t <= s} = {t \in S : t <= s}
      OBVIOUS
    <3>3. Rank(T, s) = k
      BY <3>1, <3>2 DEF Rank
    <3> QED BY <1>2, <2>1, <3>1, <3>3
  <2>2. CASE k = Len(yielded) + 1
    <3>0. \A t \in T : t <= p
      OBVIOUS
    <3>1. {t \in T : t <= p} = T
      BY <3>0
    <3>2. Rank(T, p) = k
      BY <1>2, <1>5, <2>2, <3>1 DEF Rank
    <3> QED BY <1>2, <2>2, <3>2
  <2>3. k \in 1..Len(yielded) \/ k = Len(yielded) + 1
    BY <1>2
  <2> QED BY <2>1, <2>2, <2>3
<1> QED BY <1>1, <1>5, <1>6 DEF AllFrom, YieldedFrom

\* Lines that begin behind those yielded do not matter.
LEMMA FirstOnes ==
  ASSUME NEW text, NEW T \in SUBSET Nat, NEW S \in SUBSET T,
         \A s \in S, t \in T : t <= s => t \in S,
         NEW yielded, YieldedFrom(yielded, text, S)
  PROVE  YieldedFrom(yielded, text, T)
<1> SUFFICES ASSUME NEW k \in DOMAIN yielded
             PROVE  \E s \in T : Rank(T, s) = k /\ yielded[k] = Trim(LineFrom(text, s))
  BY DEF YieldedFrom
<1>1. PICK s \in S : Rank(S, s) = k /\ yielded[k] = Trim(LineFrom(text, s))
  BY DEF YieldedFrom
<1>2. {t \in T : t <= s} = {t \in S : t <= s}
  OBVIOUS
<1> QED BY <1>1, <1>2 DEF Rank

\* The first line that is not sound ends it.
LEMMA UntilUnsound ==
  ASSUME NEW text \in Text, NEW p \in Starts(text),
         SoundBefore(text, p), ~Sound(LineFrom(text, p))
  PROVE  TextStarts(text) = TextBefore(text, p)
<1>1. \A s \in Starts(text) : s \in Nat
  BY StartsFinite
<1>2. ASSUME NEW s \in TextStarts(text) PROVE s \in TextBefore(text, p)
  BY <1>1, <1>2 DEF TextStarts, TextBefore
<1>3. ASSUME NEW s \in TextBefore(text, p) PROVE s \in TextStarts(text)
  BY <1>1, <1>3 DEF TextStarts, TextBefore, SoundBefore
<1> QED BY <1>2, <1>3

\* While all lines are sound, the starts before any place are the first ones.
LEMMA SoundSoFar ==
  ASSUME NEW text \in Text, NEW p \in Nat, SoundBefore(text, p),
         NEW yielded, YieldedFrom(yielded, text, TextBefore(text, p))
  PROVE  YieldedFrom(yielded, text, TextStarts(text))
<1>1. \A s \in Starts(text) : s \in Nat
  BY StartsFinite
<1>2. TextBefore(text, p) \in SUBSET TextStarts(text) /\ TextStarts(text) \in SUBSET Nat
  BY <1>1 DEF TextStarts, TextBefore, SoundBefore
<1>3. \A s \in TextBefore(text, p), t \in TextStarts(text) :
        t <= s => t \in TextBefore(text, p)
  BY <1>1 DEF TextStarts, TextBefore
<1> QED BY <1>2, <1>3, FirstOnes

\* A text that has been read to its end.
LEMMA AllSound ==
  ASSUME NEW text \in Text, NEW p \in Nat, SoundBefore(text, p),
         \A s \in Starts(text) : s < p
  PROVE  /\ TextStarts(text) = TextBefore(text, p)
         /\ \A s \in Starts(text) : Sound(LineFrom(text, s))
BY DEF TextStarts, TextBefore, SoundBefore

\* No line begins in between.
NextTo(text, p, next) == \A s \in Starts(text) : s < next <=> s < p \/ s = p

\* A sound line is read.
LEMMA NextLine ==
  ASSUME NEW text \in Text, NEW p \in Starts(text), NEW q \in Nat,
         NextTo(text, p, q),
         SoundBefore(text, p), Sound(LineFrom(text, p)),
         NEW yielded \in Seq(Trimmed), AllFrom(yielded, text, TextBefore(text, p)),
         Trim(LineFrom(text, p)) \in Trimmed,
         NEW new, new = IF Trim(LineFrom(text, p)) = <<>> THEN yielded
                        ELSE Append(yielded, Trim(LineFrom(text, p)))
  PROVE  /\ SoundBefore(text, q)
         /\ new \in Seq(Trimmed)
         /\ AllFrom(new, text, TextBefore(text, q))
<1>1. SoundBefore(text, q)
  BY DEF SoundBefore, NextTo
<1>2. CASE Trim(LineFrom(text, p)) = <<>>
  <2>1. TextBefore(text, q) = TextBefore(text, p)
    BY <1>2 DEF TextBefore, NextTo
  <2> QED BY <1>1, <1>2, <2>1
<1>3. CASE Trim(LineFrom(text, p)) # <<>>
  <2>1. TextBefore(text, q) = TextBefore(text, p) \cup {p}
    BY <1>3 DEF TextBefore, NextTo
  <2>2. p \in Nat
    BY StartIn DEF Text
  <2>3. /\ IsFiniteSet(TextBefore(text, p)) /\ TextBefore(text, p) \in SUBSET Nat
        /\ \A s \in TextBefore(text, p) : s < p
    BY StartsFinite DEF TextBefore
  <2>4. AllFrom(Append(yielded, Trim(LineFrom(text, p))), text, TextBefore(text, p) \cup {p})
    BY <2>2, <2>3, OneMore
  <2> QED BY <1>1, <1>3, <2>1, <2>4
<1> QED BY <1>2, <1>3

\* More text does not change what was read.
LEMMA MoreText ==
  ASSUME NEW text \in Text, NEW more \in Text, NEW p \in Starts(text),
         SoundBefore(text, p),
         NEW yielded, AllFrom(yielded, text, TextBefore(text, p))
  PROVE  /\ p \in Starts(text \o more)
         /\ SoundBefore(text \o more, p)
         /\ AllFrom(yielded, text \o more, TextBefore(text \o more, p))
<1>0. PICK all : all = text \o more
  OBVIOUS
<1>1. /\ p \in Starts(all)
      /\ \A s : s < p => (s \in Starts(all) <=> s \in Starts(text))
      /\ \A s \in Starts(text) : s < p => LineFrom(all, s) = LineFrom(text, s)
  BY <1>0, LinesStay
<1>2. SoundBefore(all, p)
  BY <1>1 DEF SoundBefore
<1>3. TextBefore(all, p) = TextBefore(text, p)
  BY <1>1 DEF TextBefore
<1>4. \A s \in TextBefore(text, p) : LineFrom(all, s) = LineFrom(text, s)
  BY <1>1 DEF TextBefore
<1>5. AllFrom(yielded, all, TextBefore(text, p))
  BY <1>4 DEF AllFrom, YieldedFrom
<1> QED BY <1>0, <1>1, <1>2, <1>3, <1>5

Start == Len(received) - Len(pending) + 1

Cap == Longer(maxLineBytes, MaxReadBytes - 1)

ReadersTyped ==
  /\ received \in Text /\ pending \in Text /\ lines \in Seq(Trimmed)
  /\ declared \in Int

\* What is kept begins a line, and the lines before it were yielded.
AtALine ==
  /\ Len(pending) <= Len(received)
  /\ pending = SubSeq(received, Start, Len(received))
  /\ Start \in Starts(received)
  /\ SoundBefore(received, Start)
  /\ AllFrom(lines, received, TextBefore(received, Start))

\* Only the last chunk has newlines left, and what it came on top of is short.
KeptIsBounded ==
  /\ Len(pending) <= Cap + MaxReadBytes
  /\ ~Has(pending, "n") => Len(pending) <= Cap
  /\ \A i \in DOMAIN pending : pending[i] = "n" => Len(pending) - MaxReadBytes < i

ReadersInv ==
  /\ ReadersTyped /\ ChunksDoNotMatter
  /\ reader = "body" /\ outcome = "reading" => pending = received
  /\ reader = "lines" /\ outcome = "reading" => AtALine /\ KeptIsBounded

LEMMA CapIs ==
  /\ Cap \in Nat /\ maxLineBytes <= Cap /\ MaxReadBytes - 1 <= Cap
  /\ {maxBytes, maxLineBytes, MaxReadBytes, MaxBodyBytes} \subseteq Nat
BY ReadersAssumption DEF Cap, Longer

LEMMA ChunkIs ==
  ASSUME NEW chunk \in Chunks
  PROVE  /\ chunk \in Text /\ Len(chunk) \in Nat
         /\ 1 <= Len(chunk) /\ Len(chunk) <= MaxReadBytes
<1>1. PICK n \in 1..MaxReadBytes : chunk \in [1..n -> Bytes]
  BY DEF Chunks
<1>2. n \in Nat /\ 1 <= n /\ n <= MaxReadBytes
  BY CapIs
<1>3. chunk \in Text /\ Len(chunk) = n
  BY <1>1, <1>2 DEF Text
<1> QED BY <1>2, <1>3

\* A part of a text, byte by byte.
IsPart(part, text, a, b) ==
  /\ part \in Text /\ Len(part) = b - a + 1
  /\ \A i, j \in Nat : 1 <= i /\ j = a + i - 1 /\ j <= b => part[i] = text[j]

LEMMA PartByte ==
  ASSUME NEW text \in Text, NEW a \in Nat, NEW b \in Nat,
         1 <= a, a <= b + 1, b <= Len(text)
  PROVE  IsPart(SubSeq(text, a, b), text, a, b)
<1>0. PICK part : part = SubSeq(text, a, b)
  OBVIOUS
<1>1. Len(text) \in Nat /\ \A i \in a..b : text[i] \in Bytes
  BY DEF Text
<1>2. /\ part \in Seq(Bytes)
      /\ Len(part) = IF a <= b THEN b - a + 1 ELSE 0
      /\ \A i \in 1..(b - a + 1) : part[i] = text[a + i - 1]
  BY <1>0, <1>1, SubSeqProperties
<1>3. Len(part) = b - a + 1
  BY <1>2
<1>4. ASSUME NEW i \in Nat, NEW j \in Nat, 1 <= i, j = a + i - 1, j <= b
      PROVE  part[i] = text[j]
  <2>1. i \in 1..(b - a + 1)
    BY <1>4
  <2> QED BY <1>2, <1>4, <2>1
<1> QED BY <1>0, <1>2, <1>3, <1>4 DEF Text, IsPart

\* A part of a part is a part.
Within(a, b, q, m, r, e) ==
  /\ 1 <= a /\ 1 <= q /\ q <= m + 1 /\ m <= b - a + 1
  /\ r = a + q - 1 /\ e = a + m - 1

LEMMA PartOfPart ==
  ASSUME NEW text, NEW a \in Nat, NEW b \in Nat, NEW kept, IsPart(kept, text, a, b),
         NEW q \in Nat, NEW m \in Nat, NEW r \in Nat, NEW e \in Nat,
         Within(a, b, q, m, r, e),
         NEW rest, IsPart(rest, kept, q, m), NEW end, IsPart(end, text, r, e)
  PROVE  rest = end
<1> USE DEF Within
<1>1. /\ rest \in Text /\ Len(rest) = m - q + 1
      /\ end \in Text /\ Len(end) = e - r + 1
  BY DEF IsPart
<1>2. Len(rest) = Len(end)
  BY <1>1
<1>3. ASSUME NEW i \in 1..Len(rest) PROVE rest[i] = end[i]
  <2>1. i \in Nat /\ 1 <= i /\ i <= m - q + 1
    BY <1>1
  <2>2. PICK j, k \in Nat : j = q + i - 1 /\ k = r + i - 1
    BY <2>1
  <2>3. 1 <= j /\ j <= m /\ k <= e /\ k = a + j - 1 /\ k <= b
    BY <2>1, <2>2
  <2>4. rest[i] = kept[j] /\ end[i] = text[k]
    BY <2>1, <2>2, <2>3 DEF IsPart
  <2>5. kept[j] = text[k]
    BY <2>3 DEF IsPart
  <2> QED BY <2>4, <2>5
<1> QED BY <1>1, <1>2, <1>3, SeqEqual DEF Text

\* What has no newline, up to one or to the end of the text, is a line.
IsLine(line, text, p, last) ==
  /\ IsPart(line, text, p, last) /\ line = SubSeq(text, p, last) /\ ~Has(line, "n")
  /\ p <= last + 1 /\ last <= Len(text)
  /\ last = Len(text) \/ last + 1 \in Newlines(text)

LEMMA EndedLine ==
  ASSUME NEW text \in Text, NEW p \in Nat, p \in Starts(text), NEW last \in Nat,
         NEW line, IsLine(line, text, p, last)
  PROVE  LineFrom(text, p) = line /\ NextTo(text, p, last + 2)
<1> USE DEF IsLine
<1>1. ASSUME NEW j \in Nat, p <= j, j <= last PROVE j \notin Newlines(text)
  <2>1. PICK i \in Nat : i = j - p + 1
    BY <1>1
  <2>2. 1 <= i /\ i <= last - p + 1 /\ j = p + i - 1
    BY <1>1, <2>1
  <2>3. line[i] = text[j]
    BY <1>1, <2>2 DEF IsPart
  <2>4. i \in DOMAIN line
    <3>1. line \in Text /\ Len(line) = last - p + 1
      BY DEF IsPart
    <3>2. i \in 1..Len(line)
      BY <2>2, <3>1
    <3> QED BY <3>1, <3>2 DEF Text
  <2>5. line[i] # "n"
    BY <2>4 DEF Has
  <2> QED BY <2>3, <2>5, NewlineIn
<1>2. EndsAt(text, p, last)
  BY <1>1 DEF EndsAt
<1>3. LineFrom(text, p) = line
  BY <1>2, LineIs
<1>4. ASSUME NEW s \in Starts(text), s < last + 2 PROVE s < p \/ s = p
  <2>1. s \in 1..(Len(text) + 1) /\ (s > 1 => s - 1 \in Newlines(text))
    BY StartIn
  <2>2. s \in Nat /\ Len(text) \in Nat /\ 1 <= p
    BY <2>1, StartIn DEF Text
  <2>3. ASSUME p < s PROVE FALSE
    <3>1. PICK j \in Nat : j = s - 1
      BY <2>2, <2>3
    <3>2. p <= j /\ j <= last /\ s > 1
      BY <1>4, <2>2, <2>3, <3>1
    <3> QED BY <1>1, <2>1, <3>1, <3>2
  <2> QED BY <2>2, <2>3
<1>5. \A s \in Starts(text) : s \in Nat
  BY StartIn
<1> QED BY <1>3, <1>4, <1>5 DEF NextTo

\* A newline in what is kept ends the line that begins with it.
Around(n, p, b, before, q, r, m) ==
  /\ 1 <= p /\ p <= b + 1 /\ 1 <= n /\ p + n <= b + 1
  /\ before = n - 1 /\ q = n + 1 /\ r = p + n /\ m = b - p + 1

LineTaken(text, p, b, kept, before, q, r, m) ==
  /\ r \in Starts(text) /\ NextTo(text, p, r)
  /\ LineFrom(text, p) = SubSeq(kept, 1, before)
  /\ SubSeq(kept, q, m) = SubSeq(text, r, b)

LEMMA KeptLine ==
  ASSUME NEW text \in Text, NEW p \in Nat, p \in Starts(text),
         NEW b \in Nat, b = Len(text), NEW kept, IsPart(kept, text, p, b),
         NEW n \in Nat, kept[n] = "n", NEW before \in Nat, NEW q \in Nat,
         NEW r \in Nat, NEW m \in Nat, Around(n, p, b, before, q, r, m),
         ~Has(SubSeq(kept, 1, before), "n")
  PROVE  LineTaken(text, p, b, kept, before, q, r, m)
<1> USE DEF Around
<1>1. PICK last \in Nat : last = p + n - 2
  OBVIOUS
<1>2. kept \in Text /\ Len(kept) = m
  BY DEF IsPart
<1>3. /\ 1 <= before + 1 /\ before <= m /\ before <= b - p + 1 /\ 1 <= q /\ q <= m + 1
      /\ m <= b - p + 1
  OBVIOUS
<1>4. /\ p <= last + 1 /\ last <= b /\ last = p + before - 1 /\ p = p + 1 - 1
      /\ 1 <= r /\ r <= b + 1 /\ r = p + q - 1 /\ b = p + m - 1
  BY <1>1
<1>5. PICK line, rest : line = SubSeq(kept, 1, before) /\ rest = SubSeq(kept, q, m)
  OBVIOUS
<1>6. PICK cut, end : cut = SubSeq(text, p, last) /\ end = SubSeq(text, r, b)
  OBVIOUS
<1>7. IsPart(line, kept, 1, before) /\ IsPart(rest, kept, q, m)
  BY <1>2, <1>3, <1>5, PartByte
<1>8. IsPart(cut, text, p, last) /\ IsPart(end, text, r, b)
  BY <1>4, <1>6, PartByte
<1>9. line = cut
  <2>1. Within(p, b, 1, before, p, last)
    BY <1>3, <1>4 DEF Within
  <2> QED BY <1>7, <1>8, <2>1, PartOfPart
<1>10. rest = end
  <2>1. Within(p, b, q, m, r, b)
    BY <1>3, <1>4 DEF Within
  <2> QED BY <1>7, <1>8, <2>1, PartOfPart
<1>11. last + 1 \in Newlines(text) /\ r = (last + 1) + 1
  <2>1. PICK j \in Nat : j = last + 1
    OBVIOUS
  <2>2. 1 <= j /\ j <= b /\ j = p + n - 1 /\ r = (last + 1) + 1
    BY <1>1, <2>1
  <2>3. text[j] = "n"
    BY <2>2 DEF IsPart
  <2>4. j \in 1..Len(text)
    BY <2>2
  <2> QED BY <2>1, <2>2, <2>3, <2>4, NewlineIn
<1>12. LineFrom(text, p) = cut /\ NextTo(text, p, last + 2)
  <2>1. IsLine(cut, text, p, last)
    BY <1>4, <1>5, <1>6, <1>8, <1>9, <1>11 DEF IsLine
  <2> QED BY <2>1, EndedLine
<1>13. r \in Starts(text)
  BY <1>11 DEF Starts
<1>14. r = last + 2
  BY <1>1
<1> QED BY <1>5, <1>6, <1>9, <1>10, <1>12, <1>13, <1>14 DEF LineTaken

\* Without a newline, what is kept is the last line.
LEMMA KeptLastLine ==
  ASSUME NEW text \in Text, NEW p \in Nat, p \in Starts(text),
         NEW b \in Nat, b = Len(text), 1 <= p, p <= b + 1,
         NEW kept, IsPart(kept, text, p, b), kept = SubSeq(text, p, b), ~Has(kept, "n")
  PROVE  LineFrom(text, p) = kept /\ NextTo(text, p, b + 2)
<1>1. IsLine(kept, text, p, b)
  BY DEF IsLine
<1> QED BY <1>1, EndedLine

\* What arrives goes behind what is kept.
LEMMA KeptGrows ==
  ASSUME NEW text \in Text, NEW more \in Text, NEW p \in Nat,
         1 <= p, p <= Len(text) + 1,
         NEW kept, kept = SubSeq(text, p, Len(text))
  PROVE  kept \o more = SubSeq(text \o more, p, Len(text \o more))
<1>1. PICK b, c : b = Len(text) /\ c = Len(more)
  OBVIOUS
<1>2. b \in Nat /\ c \in Nat /\ 1 <= p /\ p <= b + 1
  BY <1>1 DEF Text
<1>3. IsPart(kept, text, p, b)
  BY <1>1, <1>2, PartByte
<1>4. kept \in Text /\ Len(kept) = b - p + 1
  BY <1>3 DEF IsPart
<1>5. \A i, j \in Nat : 1 <= i /\ j = p + i - 1 /\ j <= b => kept[i] = text[j]
  BY <1>3 DEF IsPart
<1>6. PICK all, new : all = text \o more /\ new = kept \o more
  OBVIOUS
<1>7. PICK d : d = Len(all)
  OBVIOUS
<1>8. PICK end : end = SubSeq(all, p, d)
  OBVIOUS
<1>9. /\ all \in Text /\ d = b + c /\ d \in Nat
      /\ \A i \in 1..Len(text) + Len(more) :
           all[i] = IF i <= Len(text) THEN text[i] ELSE more[i - Len(text)]
  BY <1>1, <1>2, <1>6, <1>7, ConcatProperties DEF Text
<1>10. /\ new \in Text /\ Len(new) = Len(kept) + Len(more)
      /\ \A i \in 1..Len(kept) + Len(more) :
           new[i] = IF i <= Len(kept) THEN kept[i] ELSE more[i - Len(kept)]
  BY <1>4, <1>6, ConcatProperties DEF Text
<1>11. p <= d + 1 /\ d <= Len(all)
  BY <1>2, <1>7, <1>9
<1>12. /\ end \in Text /\ Len(end) = d - p + 1
       /\ \A i, j \in Nat : 1 <= i /\ j = p + i - 1 /\ j <= d => end[i] = all[j]
  <2>1. IsPart(end, all, p, d)
    BY <1>2, <1>8, <1>9, <1>11, PartByte
  <2> QED BY <2>1 DEF IsPart
<1>13. Len(new) = Len(end)
  BY <1>1, <1>2, <1>4, <1>9, <1>10, <1>12
<1>14. ASSUME NEW i \in 1..Len(new) PROVE new[i] = end[i]
  <2>0. PICK j : j = p + i - 1
    OBVIOUS
  <2>1. /\ i \in Nat /\ 1 <= i /\ j \in Nat /\ j <= d /\ 1 <= j
        /\ j \in 1..b + c /\ i \in 1..Len(kept) + c
    BY <1>1, <1>2, <1>4, <1>9, <1>12, <1>13, <2>0
  <2>2. end[i] = all[j]
    BY <1>12, <2>0, <2>1
  <2>3. CASE i <= Len(kept)
    <3>1. j <= b
      BY <1>2, <1>4, <2>0, <2>1, <2>3
    <3>2. new[i] = kept[i]
      BY <1>1, <1>10, <2>1, <2>3
    <3>3. all[j] = text[j]
      BY <1>1, <1>9, <2>1, <3>1
    <3>4. kept[i] = text[j]
      BY <1>5, <2>0, <2>1, <3>1
    <3> QED BY <2>2, <3>2, <3>3, <3>4
  <2>4. CASE ~(i <= Len(kept))
    <3>1. ~(j <= b) /\ i - Len(kept) = j - b
      BY <1>2, <1>4, <2>0, <2>1, <2>4
    <3>2. new[i] = more[i - Len(kept)]
      BY <1>1, <1>10, <2>1, <2>4
    <3>3. all[j] = more[j - b]
      BY <1>1, <1>9, <2>1, <3>1
    <3> QED BY <2>2, <3>1, <3>2, <3>3
  <2> QED BY <2>3, <2>4
<1>15. new = end
  BY <1>10, <1>12, <1>13, <1>14, SeqEqual DEF Text
<1> QED BY <1>6, <1>7, <1>8, <1>15

\* What the reader says of a text whose next line is not sound.
LEMMA Refused ==
  ASSUME NEW text \in Text, NEW p \in Nat, p \in Starts(text),
         SoundBefore(text, p), ~Sound(LineFrom(text, p)),
         NEW yielded, AllFrom(yielded, text, TextBefore(text, p))
  PROVE  /\ YieldedFrom(yielded, text, TextStarts(text))
         /\ Len(yielded) = Cardinality(TextStarts(text))
         /\ \E s \in Starts(text) : ~Sound(LineFrom(text, s))
<1>1. TextStarts(text) = TextBefore(text, p)
  BY UntilUnsound
<1> QED BY <1>1 DEF AllFrom

LEMMA SoundIs ==
  ASSUME NEW line \in Text
  PROVE  Sound(line) <=> ~(Len(line) > maxLineBytes) /\ ~Has(line, "x")
<1>1. Len(line) \in Nat /\ maxLineBytes \in Nat
  BY CapIs DEF Text
<1> QED BY <1>1 DEF Sound

LEMMA ReadingLines ==
  ASSUME ReadersTyped, AtALine
  PROVE  \E p, b \in Nat :
           /\ p = Start /\ b = Len(received)
           /\ 1 <= p /\ p <= b + 1 /\ p \in Starts(received) /\ Len(pending) = b - p + 1
           /\ pending = SubSeq(received, p, b) /\ IsPart(pending, received, p, b)
           /\ SoundBefore(received, p) /\ AllFrom(lines, received, TextBefore(received, p))
<1>1. PICK b, m \in Nat : b = Len(received) /\ m = Len(pending)
  BY DEF ReadersTyped, Text
<1>2. m <= b
  BY <1>1 DEF AtALine
<1>3. PICK p \in Nat : p = b - m + 1
  BY <1>2
<1>4. p = Start
  BY <1>1, <1>3 DEF Start
<1>5. 1 <= p /\ p <= b + 1 /\ m = b - p + 1
  BY <1>2, <1>3
<1>6. /\ pending = SubSeq(received, p, b) /\ p \in Starts(received)
      /\ SoundBefore(received, p) /\ AllFrom(lines, received, TextBefore(received, p))
  BY <1>1, <1>4 DEF AtALine
<1>7. IsPart(pending, received, p, b)
  BY <1>1, <1>5, <1>6, PartByte DEF ReadersTyped
<1> QED BY <1>1, <1>4, <1>5, <1>6, <1>7

LEMMA TakeLineKeeps ==
  ASSUME ReadersInv, TakeLine
  PROVE  ReadersInv'
<1>1. /\ ReadersTyped /\ AtALine /\ KeptIsBounded
      /\ reader = "lines" /\ outcome = "reading"
      /\ reader' = reader /\ declared' = declared /\ received' = received
  BY DEF ReadersInv, TakeLine
<1>2. PICK p, b \in Nat :
        /\ p = Start /\ b = Len(received)
        /\ 1 <= p /\ p <= b + 1 /\ p \in Starts(received) /\ Len(pending) = b - p + 1
        /\ pending = SubSeq(received, p, b) /\ IsPart(pending, received, p, b)
        /\ SoundBefore(received, p) /\ AllFrom(lines, received, TextBefore(received, p))
  BY <1>1, ReadingLines
<1>3. PICK n \in Nat :
        /\ n \in DOMAIN pending
        /\ pending[n] = "n" /\ ~Has(SubSeq(pending, 1, n - 1), "n")
        /\ Decode(SubSeq(pending, 1, n - 1), "reading")
        /\ pending' = SubSeq(pending, n + 1, Len(pending))
  <2>1. DOMAIN pending \subseteq Nat
    BY <1>1 DEF ReadersTyped, Text
  <2> QED BY <2>1 DEF TakeLine
<1>4. PICK m \in Nat : m = b - p + 1 /\ m = Len(pending)
  <2>1. PICK m \in Nat : m = Len(pending)
    BY <1>1 DEF ReadersTyped, Text
  <2> QED BY <1>2, <2>1
<1>5. 1 <= n /\ n <= m
  BY <1>1, <1>3, <1>4 DEF ReadersTyped, Text
<1>6. PICK before, q, r \in Nat : before = n - 1 /\ q = n + 1 /\ r = p + n
  BY <1>5
<1>7. p + n <= b + 1 /\ before <= m /\ r <= b + 1 /\ 1 <= r /\ 1 <= before + 1
  BY <1>2, <1>4, <1>5, <1>6
<1>8. PICK line : line = SubSeq(pending, 1, before)
  OBVIOUS
<1>9. /\ r \in Starts(received) /\ NextTo(received, p, r)
      /\ LineFrom(received, p) = line /\ pending' = SubSeq(received, r, b)
  <2>1. received \in Text /\ ~Has(SubSeq(pending, 1, before), "n") /\ pending[n] = "n"
    BY <1>1, <1>3, <1>6 DEF ReadersTyped
  <2>2. LineTaken(received, p, b, pending, before, q, r, m)
    <3>1. Around(n, p, b, before, q, r, m)
      BY <1>2, <1>4, <1>5, <1>6, <1>7 DEF Around
    <3> QED BY <1>2, <1>5, <2>1, <3>1, KeptLine
  <2>3. pending' = SubSeq(pending, q, m)
    BY <1>3, <1>4, <1>6
  <2> QED BY <1>8, <2>2, <2>3 DEF LineTaken
<1>10. line \in Text
  <2>1. IsPart(line, pending, 1, before)
    BY <1>1, <1>4, <1>7, <1>8, PartByte DEF ReadersTyped
  <2> QED BY <2>1 DEF IsPart
<1>11. pending' \in Text /\ Len(pending') = b - r + 1
  <2>1. IsPart(pending', received, r, b)
    BY <1>1, <1>2, <1>7, <1>9, PartByte DEF ReadersTyped
  <2> QED BY <2>1 DEF IsPart
<1>12. PICK k \in Nat : k = Len(pending') /\ k = m - n /\ k = b - r + 1
  <2>1. PICK k \in Nat : k = Len(pending')
    BY <1>11 DEF Text
  <2>2. k = b - r + 1
    BY <1>11, <2>1
  <2>3. k = m - n
    <3>1. m = b - p + 1 /\ r = p + n
      BY <1>4, <1>6
    <3> QED BY <2>2, <3>1
  <2> QED BY <2>1, <2>2, <2>3
<1>13. k < MaxReadBytes
  <2>1. m - MaxReadBytes < n
    BY <1>1, <1>3, <1>4 DEF KeptIsBounded
  <2> QED BY <1>4, <1>5, <1>12, <2>1, CapIs
<1>14. KeptIsBounded' /\ Len(pending') <= Cap + MaxReadBytes
  <2>1. k <= Cap /\ k <= Cap + MaxReadBytes
    BY <1>12, <1>13, CapIs
  <2>2. ASSUME NEW i \in DOMAIN pending' PROVE k - MaxReadBytes < i
    <3>1. i \in 1..k
      BY <1>11, <1>12 DEF Text
    <3> QED BY <1>13, <3>1, CapIs
  <2> QED BY <1>12, <2>1, <2>2 DEF KeptIsBounded, Cap, Longer
<1>15. Decode(line, "reading")
  BY <1>3, <1>6, <1>8
<1>16. Trim(line) \in Trimmed
  BY <1>10 DEF Trimmed
<1>17. CASE Sound(line)
  <2>1. lines' = Yield(line) /\ outcome' = "reading"
    BY <1>10, <1>15, <1>17, SoundIs DEF Decode
  <2>2. received \in Text /\ lines \in Seq(Trimmed) /\ Trim(LineFrom(received, p)) \in Trimmed
    BY <1>1, <1>9, <1>16 DEF ReadersTyped
  <2>3. lines' = IF Trim(LineFrom(received, p)) = <<>> THEN lines
                 ELSE Append(lines, Trim(LineFrom(received, p)))
    BY <1>9, <2>1 DEF Yield
  <2>4. /\ SoundBefore(received, r) /\ lines' \in Seq(Trimmed)
        /\ AllFrom(lines', received, TextBefore(received, r))
    BY <1>2, <1>9, <1>17, <2>2, <2>3, NextLine
  <2>5. ReadersTyped'
    BY <1>1, <1>11, <2>4 DEF ReadersTyped
  <2>6. Start' = r
    <3>1. Start' = b - k + 1
      BY <1>1, <1>2, <1>12 DEF Start
    <3>2. b - k + 1 = r
      BY <1>12
    <3> QED BY <3>1, <3>2
  <2>7. AtALine'
    <3>1. Len(pending') <= Len(received')
      BY <1>1, <1>2, <1>7, <1>12
    <3> QED BY <1>1, <1>2, <1>9, <2>4, <2>6, <3>1 DEF AtALine
  <2>8. YieldedFrom(lines', received, TextStarts(received))
    BY <2>2, <2>4, SoundSoFar DEF AllFrom
  <2>9. ChunksDoNotMatter'
    BY <1>1, <1>14, <2>1, <2>8 DEF ChunksDoNotMatter, Cap
  <2> QED BY <1>1, <1>14, <2>1, <2>5, <2>7, <2>9 DEF ReadersInv
<1>18. CASE ~Sound(line)
  <2>1. lines' = lines /\ outcome' \in {"tooLarge", "malformed"}
    BY <1>10, <1>15, <1>18, SoundIs DEF Decode
  <2>2. /\ YieldedFrom(lines, received, TextStarts(received))
        /\ Len(lines) = Cardinality(TextStarts(received))
        /\ \E s \in Starts(received) : ~Sound(LineFrom(received, s))
    BY <1>1, <1>2, <1>9, <1>18, Refused DEF ReadersTyped
  <2>3. ReadersTyped'
    BY <1>1, <1>11, <2>1 DEF ReadersTyped
  <2>4. ChunksDoNotMatter'
    BY <1>1, <1>14, <2>1, <2>2 DEF ChunksDoNotMatter, Cap
  <2> QED BY <1>1, <2>1, <2>3, <2>4 DEF ReadersInv
<1> QED BY <1>17, <1>18

LEMMA ReadForLineKeeps ==
  ASSUME ReadersInv, NEW chunk \in Chunks, ReadForLine(chunk)
  PROVE  ReadersInv'
<1>1. /\ ReadersTyped /\ AtALine /\ KeptIsBounded
      /\ reader = "lines" /\ outcome = "reading" /\ ~Has(pending, "n")
      /\ reader' = reader /\ declared' = declared /\ lines' = lines
      /\ received' = received \o chunk /\ pending' = pending \o chunk
      /\ outcome' = IF Len(pending') > maxLineBytes /\ ~Has(pending', "n")
                      THEN "tooLarge" ELSE "reading"
  BY DEF ReadersInv, ReadForLine, Arrive
<1>2. PICK p, b \in Nat :
        /\ p = Start /\ b = Len(received)
        /\ 1 <= p /\ p <= b + 1 /\ p \in Starts(received) /\ Len(pending) = b - p + 1
        /\ pending = SubSeq(received, p, b) /\ IsPart(pending, received, p, b)
        /\ SoundBefore(received, p) /\ AllFrom(lines, received, TextBefore(received, p))
  BY <1>1, ReadingLines
<1>3. PICK c \in Nat : c = Len(chunk) /\ 1 <= c /\ c <= MaxReadBytes
  BY ChunkIs
<1>4. PICK m \in Nat : m = Len(pending)
  BY <1>1 DEF ReadersTyped, Text
<1>5. /\ received' \in Text /\ Len(received') = b + c
      /\ pending' \in Text /\ Len(pending') = m + c
      /\ \A i \in 1..m : pending'[i] = pending[i]
  <2>1. chunk \in Text /\ received \in Text /\ pending \in Text
    BY <1>1, ChunkIs DEF ReadersTyped
  <2>2. received' \in Text /\ Len(received') = b + c
    BY <1>1, <1>2, <1>3, <2>1 DEF Text
  <2>3. /\ pending' \in Text /\ Len(pending') = m + c
        /\ \A i \in 1..m : pending'[i] = pending[i]
    BY <1>1, <1>3, <1>4, <2>1 DEF Text
  <2> QED BY <2>2, <2>3
<1>6. PICK d \in Nat : d = b + c
  OBVIOUS
<1>7. pending' = SubSeq(received', p, d)
  <2>1. received \in Text /\ chunk \in Text
    BY <1>1, ChunkIs DEF ReadersTyped
  <2>2. pending \o chunk = SubSeq(received \o chunk, p, Len(received \o chunk))
    <3>1. 1 <= p /\ p <= Len(received) + 1 /\ pending = SubSeq(received, p, Len(received))
      BY <1>2
    <3> QED BY <2>1, <3>1, KeptGrows
  <2> QED BY <1>1, <1>5, <1>6, <2>2
<1>8. /\ p \in Starts(received') /\ SoundBefore(received', p)
      /\ AllFrom(lines, received', TextBefore(received', p))
  BY <1>1, <1>2, ChunkIs, MoreText DEF ReadersTyped
<1>9. ReadersTyped'
  BY <1>1, <1>5 DEF ReadersTyped
<1>10. m <= Cap
  BY <1>1, <1>4 DEF KeptIsBounded
<1>11. Len(pending') <= Cap + MaxReadBytes
  BY <1>3, <1>5, <1>10, CapIs
<1>12. CASE Len(pending') > maxLineBytes /\ ~Has(pending', "n")
  <2>1. outcome' = "tooLarge"
    BY <1>1, <1>12
  <2>2. d = Len(received') /\ p <= d + 1
    BY <1>2, <1>5, <1>6
  <2>3. IsPart(pending', received', p, d)
    BY <1>2, <1>5, <1>7, <2>2, PartByte
  <2>4. LineFrom(received', p) = pending'
    BY <1>2, <1>5, <1>7, <1>8, <1>12, <2>2, <2>3, KeptLastLine
  <2>5. ~Sound(LineFrom(received', p))
    BY <1>5, <1>12, <2>4, SoundIs
  <2>6. /\ YieldedFrom(lines, received', TextStarts(received'))
        /\ Len(lines) = Cardinality(TextStarts(received'))
        /\ \E s \in Starts(received') : ~Sound(LineFrom(received', s))
    BY <1>5, <1>8, <2>5, Refused
  <2>7. ChunksDoNotMatter'
    BY <1>1, <1>11, <2>1, <2>6 DEF ChunksDoNotMatter, Cap
  <2> QED BY <1>1, <1>9, <2>1, <2>7 DEF ReadersInv
<1>13. CASE ~(Len(pending') > maxLineBytes /\ ~Has(pending', "n"))
  <2>1. outcome' = "reading"
    BY <1>1, <1>13
  <2>2. Start' = p
    <3>1. Start' = (b + c) - (m + c) + 1
      BY <1>5 DEF Start
    <3>2. m = b - p + 1
      BY <1>2, <1>4
    <3> QED BY <3>1, <3>2
  <2>3. AtALine'
    <3>1. Len(pending') <= Len(received')
      BY <1>2, <1>4, <1>5
    <3> QED BY <1>1, <1>5, <1>6, <1>7, <1>8, <2>2, <3>1 DEF AtALine
  <2>4. ~Has(pending', "n") => Len(pending') <= Cap
    BY <1>5, <1>13, CapIs
  <2>5. ASSUME NEW i \in DOMAIN pending', pending'[i] = "n"
        PROVE  Len(pending') - MaxReadBytes < i
    <3>1. i \in 1..(m + c)
      BY <1>5 DEF Text
    <3>2. ~(i <= m)
      <4>1. DOMAIN pending = 1..m
        BY <1>1, <1>4 DEF ReadersTyped, Text
      <4>2. ASSUME i \in 1..m PROVE FALSE
        BY <1>1, <1>5, <2>5, <4>1, <4>2 DEF Has
      <4> QED BY <3>1, <4>2
    <3> QED BY <1>3, <1>5, <3>1, <3>2, CapIs
  <2>6. KeptIsBounded'
    BY <1>11, <2>4, <2>5 DEF KeptIsBounded, Cap, Longer
  <2>7. YieldedFrom(lines, received', TextStarts(received'))
    BY <1>5, <1>8, SoundSoFar DEF AllFrom
  <2>8. ChunksDoNotMatter'
    BY <1>1, <1>11, <2>1, <2>7 DEF ChunksDoNotMatter, Cap
  <2> QED BY <1>1, <1>9, <2>1, <2>3, <2>6, <2>8 DEF ReadersInv
<1> QED BY <1>12, <1>13

LEMMA FinalLineKeeps ==
  ASSUME ReadersInv, FinalLine
  PROVE  ReadersInv'
<1>1. /\ ReadersTyped /\ AtALine /\ KeptIsBounded
      /\ reader = "lines" /\ outcome = "reading" /\ ~Has(pending, "n")
      /\ reader' = reader /\ declared' = declared
      /\ received' = received /\ pending' = pending /\ Decode(pending, "done")
  BY DEF ReadersInv, FinalLine
<1>2. PICK p, b \in Nat :
        /\ p = Start /\ b = Len(received)
        /\ 1 <= p /\ p <= b + 1 /\ p \in Starts(received) /\ Len(pending) = b - p + 1
        /\ pending = SubSeq(received, p, b) /\ IsPart(pending, received, p, b)
        /\ SoundBefore(received, p) /\ AllFrom(lines, received, TextBefore(received, p))
  BY <1>1, ReadingLines
<1>3. received \in Text /\ pending \in Text /\ lines \in Seq(Trimmed)
  BY <1>1 DEF ReadersTyped
<1>4. LineFrom(received, p) = pending /\ NextTo(received, p, b + 2)
  BY <1>1, <1>2, <1>3, KeptLastLine
<1>5. Len(pending) <= Cap + MaxReadBytes
  BY <1>1 DEF KeptIsBounded
<1>6. Trim(pending) \in Trimmed
  BY <1>3 DEF Trimmed
<1>7. CASE Sound(pending)
  <2>1. lines' = Yield(pending) /\ outcome' = "done"
    BY <1>1, <1>3, <1>7, SoundIs DEF Decode
  <2>2. PICK q \in Nat : q = b + 2
    OBVIOUS
  <2>3. lines' = IF Trim(LineFrom(received, p)) = <<>> THEN lines
                 ELSE Append(lines, Trim(LineFrom(received, p)))
    BY <1>4, <2>1 DEF Yield
  <2>4. /\ SoundBefore(received, q) /\ lines' \in Seq(Trimmed)
        /\ AllFrom(lines', received, TextBefore(received, q))
    BY <1>2, <1>3, <1>4, <1>6, <1>7, <2>2, <2>3, NextLine
  <2>5. \A s \in Starts(received) : s < q
    BY <1>2, <1>3, <2>2, StartIn
  <2>6. /\ TextStarts(received) = TextBefore(received, q)
        /\ \A s \in Starts(received) : Sound(LineFrom(received, s))
    BY <1>3, <2>4, <2>5, AllSound
  <2>7. ReadersTyped'
    BY <1>1, <1>3, <2>4 DEF ReadersTyped
  <2>8. ChunksDoNotMatter'
    BY <1>1, <1>5, <2>1, <2>4, <2>6 DEF ChunksDoNotMatter, Cap, AllFrom
  <2> QED BY <1>1, <2>1, <2>7, <2>8 DEF ReadersInv
<1>8. CASE ~Sound(pending)
  <2>1. lines' = lines /\ outcome' \in {"tooLarge", "malformed"}
    BY <1>1, <1>3, <1>8, SoundIs DEF Decode
  <2>2. /\ YieldedFrom(lines, received, TextStarts(received))
        /\ Len(lines) = Cardinality(TextStarts(received))
        /\ \E s \in Starts(received) : ~Sound(LineFrom(received, s))
    BY <1>2, <1>3, <1>4, <1>8, Refused
  <2>3. ReadersTyped'
    BY <1>1, <2>1 DEF ReadersTyped
  <2>4. ChunksDoNotMatter'
    BY <1>1, <1>5, <2>1, <2>2 DEF ChunksDoNotMatter, Cap
  <2> QED BY <1>1, <2>1, <2>3, <2>4 DEF ReadersInv
<1> QED BY <1>7, <1>8

LEMMA BodyBreaksKeeps ==
  ASSUME ReadersInv, BodyBreaks
  PROVE  ReadersInv'
<1>1. /\ ReadersTyped /\ ChunksDoNotMatter /\ outcome = "reading" /\ outcome' = "broken"
      /\ reader' = reader /\ declared' = declared /\ pending' = pending
      /\ lines' = lines /\ received' = received
  BY DEF ReadersInv, BodyBreaks
<1> QED BY <1>1 DEF ReadersInv, ReadersTyped, ChunksDoNotMatter

LEMMA BodyEndsKeeps ==
  ASSUME ReadersInv, BodyEnds
  PROVE  ReadersInv'
<1>1. /\ ReadersTyped /\ ChunksDoNotMatter /\ pending = received
      /\ reader = "body" /\ outcome' = "done"
      /\ reader' = reader /\ declared' = declared /\ pending' = pending
      /\ lines' = lines /\ received' = received
  BY DEF ReadersInv, BodyEnds
<1> QED BY <1>1 DEF ReadersInv, ReadersTyped, ChunksDoNotMatter

LEMMA ReadChunkKeeps ==
  ASSUME ReadersInv, NEW chunk \in Chunks, ReadChunk(chunk)
  PROVE  ReadersInv'
<1>1. /\ ReadersTyped /\ ChunksDoNotMatter /\ pending = received
      /\ reader = "body" /\ outcome = "reading" /\ reader' = reader
      /\ declared' = declared /\ lines' = lines /\ received' = received \o chunk
  BY DEF ReadersInv, ReadChunk, Arrive
<1>2. received \in Text /\ chunk \in Text
  BY <1>1, ChunkIs DEF ReadersTyped
<1>3. received' \in Text /\ Len(received') = Len(received) + Len(chunk)
  BY <1>1, <1>2 DEF Text
<1>4. CASE Len(pending) + Len(chunk) > maxBytes
  <2>1. outcome' = "tooLarge" /\ pending' = pending
    BY <1>4 DEF ReadChunk
  <2>2. Len(received') > maxBytes /\ Len(pending') <= maxBytes
    BY <1>1, <1>3, <1>4, <2>1 DEF ChunksDoNotMatter
  <2>3. ChunksDoNotMatter'
    BY <1>1, <2>1, <2>2 DEF ChunksDoNotMatter
  <2> QED BY <1>1, <1>3, <2>1, <2>3 DEF ReadersInv, ReadersTyped
<1>5. CASE ~(Len(pending) + Len(chunk) > maxBytes)
  <2>1. outcome' = "reading" /\ pending' = received'
    BY <1>1, <1>5 DEF ReadChunk
  <2>2. Len(pending') <= maxBytes
    <3>1. Len(received) \in Nat /\ Len(chunk) \in Nat /\ maxBytes \in Nat
      BY <1>2, CapIs DEF Text
    <3> QED BY <1>1, <1>3, <1>5, <2>1, <3>1
  <2>3. ChunksDoNotMatter'
    BY <1>1, <2>1, <2>2 DEF ChunksDoNotMatter
  <2> QED BY <1>1, <1>3, <2>1, <2>3 DEF ReadersInv, ReadersTyped
<1> QED BY <1>4, <1>5

LEMMA ReadersInitially ==
  ASSUME ReadersInit
  PROVE  ReadersInv
<1>1. /\ reader \in {"body", "lines"} /\ declared \in Int
      /\ pending = <<>> /\ lines = <<>> /\ received = <<>>
      /\ reader = "lines" => declared = -1
      /\ outcome = IF declared > maxBytes THEN "tooLarge" ELSE "reading"
  BY CapIs DEF ReadersInit, NoLength
<1>2. /\ <<>> \in Text /\ <<>> \in Seq(Trimmed) /\ Len(<<>>) = 0 /\ DOMAIN <<>> = {}
  BY DEF Text
<1>3. ReadersTyped
  BY <1>1, <1>2 DEF ReadersTyped
<1>4. outcome = "tooLarge" => declared > maxBytes
  BY <1>1
<1>5. outcome \in {"tooLarge", "reading"} /\ (reader = "lines" => outcome = "reading")
  BY <1>1, CapIs
<1>6. Starts(<<>>) = {1}
  BY <1>2 DEF Starts, Newlines
<1>7. Start = 1
  BY <1>1, <1>2 DEF Start
<1>8. SoundBefore(<<>>, 1) /\ TextBefore(<<>>, 1) = {}
  BY <1>6 DEF SoundBefore, TextBefore
<1>9. AllFrom(<<>>, <<>>, TextBefore(<<>>, 1))
  BY <1>2, <1>8, FS_EmptySet DEF AllFrom, YieldedFrom
<1>10. SubSeq(<<>>, 1, 0) = <<>>
  BY SubSeqEmpty
<1>11. AtALine
  BY <1>1, <1>2, <1>6, <1>7, <1>8, <1>9, <1>10 DEF AtALine
<1>12. 0 <= Cap /\ 0 <= Cap + MaxReadBytes
  BY CapIs
<1>13. KeptIsBounded
  BY <1>1, <1>2, <1>12 DEF KeptIsBounded
<1>14. YieldedFrom(lines, received, TextStarts(received))
  BY <1>1, <1>2 DEF YieldedFrom
<1>15. ChunksDoNotMatter
  <2>1. Len(pending) <= maxBytes /\ Len(pending) <= Cap + MaxReadBytes
    BY <1>1, <1>2, <1>12, CapIs
  <2> QED BY <1>4, <1>5, <1>14, <2>1 DEF ChunksDoNotMatter, Cap
<1> QED BY <1>1, <1>3, <1>11, <1>13, <1>15 DEF ReadersInv

(***************************************************************************)
(* For bodies of any length, in chunks of any size, and for all limits:      *)
(* readLimitedBody keeps the body or refuses it, and readNdjsonLines yields  *)
(* the lines, as the bytes alone determine, wherever a chunk ends.          *)
(***************************************************************************)
THEOREM ReadersSound == ReadersSpec => []ChunksDoNotMatter
<1>1. ReadersInit => ReadersInv
  BY ReadersInitially
<1>2. ReadersInv /\ [ReadersNext]_readerVars => ReadersInv'
  <2> SUFFICES ASSUME ReadersInv, [ReadersNext]_readerVars PROVE ReadersInv'
    OBVIOUS
  <2>1. ASSUME NEW chunk \in Chunks, ReadChunk(chunk) PROVE ReadersInv'
    BY <2>1, ReadChunkKeeps
  <2>2. ASSUME NEW chunk \in Chunks, ReadForLine(chunk) PROVE ReadersInv'
    BY <2>2, ReadForLineKeeps
  <2>3. CASE BodyEnds
    BY <2>3, BodyEndsKeeps
  <2>4. CASE TakeLine
    BY <2>4, TakeLineKeeps
  <2>5. CASE FinalLine
    BY <2>5, FinalLineKeeps
  <2>6. CASE BodyBreaks
    BY <2>6, BodyBreaksKeeps
  <2>7. CASE UNCHANGED readerVars
    BY <2>7 DEF readerVars, ReadersInv, ReadersTyped, ChunksDoNotMatter, AtALine,
                KeptIsBounded, Start
  <2> QED BY <2>1, <2>2, <2>3, <2>4, <2>5, <2>6, <2>7 DEF ReadersNext
<1>3. ReadersInv => ChunksDoNotMatter
  BY DEF ReadersInv
<1> QED BY <1>1, <1>2, <1>3, PTL DEF ReadersSpec
=============================================================================
