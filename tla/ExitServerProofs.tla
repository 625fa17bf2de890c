--------------------------- MODULE ExitServerProofs ---------------------------
(***************************************************************************)
(* Theorems about ExitServer, for all connections, replay keys, windows and  *)
(* limits; from TimerInv on, about FlushTimer, the clock of the bodies that *)
(* the Exit seals; and, from LeastNumber on, about SanitizeRequest, for all *)
(* JSON values.                                                            *)
(***************************************************************************)
EXTENDS ExitServer, FlushTimer, SanitizeRequest, WellFoundedInduction, TLAPS

AcceptedTyped == acceptedAt \in [Replay!Key -> Int]

\* Until the call to the provider a request has none of its own traces.
NotYetCalled(r) ==
  phase[r] \in {"idle", "reading", "opening"} =>
    exchange[r] = "none" /\ deadline[r] = "none" /\ fetched[r] = "none"

\* A fetch that did not bring an answer has no exchange any more.
FailureIsClosed(r) == fetched[r] \in {"empty", "failed"} => exchange[r] # "open"

UnderDeadline(r) ==
  exchange[r] = "open" => deadline[r] = "armed" \/ phase[r] = "closing"

CallKept(r) == NotYetCalled(r) /\ FailureIsClosed(r) /\ UnderDeadline(r)

IInv ==
  /\ TypeOK
  /\ AcceptedTyped
  /\ \A r \in Requests : CallKept(r)
-----------------------------------------------------------------------------
LEMMA KeyTyped ==
  ASSUME NEW r \in Requests
  PROVE  Key(r) \in Replay!Key
BY KeyAssumption DEF Key, Replay!Key

LEMMA InitIInv == Init => IInv
BY DEF Init, IInv, TypeOK, AcceptedTyped, CallKept, NotYetCalled, FailureIsClosed,
       UnderDeadline, Replay!Init, Replay!Never

\* What a claim does to the store: it accepts a key out of its window, or
\* leaves all as it was.
LEMMA ClaimAccepts ==
  ASSUME AcceptedTyped, NEW r \in Requests, Replay!Claim(Key(r))
  PROVE  /\ AcceptedTyped'
         /\ answer'.result = "claimed" => ~Replay!InWindow(Key(r), now')
         /\ acceptedAt' # acceptedAt => answer'.result = "claimed"
         /\ \A key \in Replay!Key : key # Key(r) => acceptedAt'[key] = acceptedAt[key]
<1>1. PICK t \in Replay!Times :
        /\ now' = t
        /\ \/ Replay!Duplicate(Key(r), t)
           \/ Replay!RefuseForCapacity(Key(r), t)
           \/ Replay!Accept(Key(r), t)
  BY DEF Replay!Claim
<1>2. t \in Int
  BY DEF Replay!Times
<1>3. CASE Replay!Accept(Key(r), t)
  BY <1>1, <1>2, <1>3, KeyTyped DEF Replay!Accept, AcceptedTyped
<1>4. CASE Replay!Duplicate(Key(r), t) \/ Replay!RefuseForCapacity(Key(r), t)
  BY <1>1, <1>4
  DEF Replay!Duplicate, Replay!RefuseForCapacity, AcceptedTyped
<1> QED BY <1>1, <1>3, <1>4

LEMMA ClaimKeeps ==
  ASSUME IInv, NEW r \in Requests, ClaimOpened(r)
  PROVE  IInv'
<1>1. AcceptedTyped'
  BY ClaimAccepts DEF IInv, ClaimOpened
<1>2. TypeOK'
  BY DEF IInv, TypeOK, ClaimOpened, CallProvider, Seal, Goto, callVars
<1>3. ASSUME NEW q \in Requests PROVE CallKept(q)'
  BY <1>3 DEF IInv, TypeOK, CallKept, NotYetCalled, FailureIsClosed, UnderDeadline,
              ClaimOpened, CallProvider, Seal, Goto, callVars
<1> QED BY <1>1, <1>2, <1>3 DEF IInv

\* The other steps leave the store alone.
LEMMA OtherStepsKeep ==
  ASSUME IInv, NEW r \in Requests, Step(r), ~ClaimOpened(r)
  PROVE  IInv' /\ UNCHANGED replayVars
<1> USE DEF IInv, TypeOK, AcceptedTyped, CallKept, NotYetCalled, FailureIsClosed,
            UnderDeadline, Goto, Finish, Seal, Closed, CancelledDeadline,
            callVars, replayVars
<1>1. CASE Admission(r)
  BY <1>1 DEF Admission, RefuseUnknown, StartReading
<1>2. CASE ReadEnvelope(r)
  BY <1>2 DEF ReadEnvelope, FailEnvelope, StartOpening
<1>3. CASE FailOpening(r)
  BY <1>3 DEF FailOpening
<1>4. CASE FetchSettles(r)
  BY <1>4 DEF FetchSettles
<1>5. CASE DeadlineFires(r)
  BY <1>5 DEF DeadlineFires
<1>6. CASE ProviderFails(r)
  BY <1>6 DEF ProviderFails
<1>7. CASE ProviderAnswersEmpty(r)
  BY <1>7 DEF ProviderAnswersEmpty
<1>8. CASE ProviderAnswers(r)
  BY <1>8 DEF ProviderAnswers
<1>9. CASE SealAnswer(r)
  BY <1>9 DEF SealAnswer, SealingEnds, SealingFails
<1>10. CASE RelayDisconnects(r)
  BY <1>10 DEF RelayDisconnects
<1>11. CASE ProviderEnds(r) \/ WrapperFinishes(r)
  BY <1>11 DEF ProviderEnds, WrapperFinishes
<1>12. CASE StreamEnds(r) \/ FrameSealingFails(r)
  BY <1>12 DEF StreamEnds, FrameSealingFails
<1>13. CASE BodyTooLong(r) \/ StreamCancelled(r) \/ CancelUnstarted(r)
  <2>1. CASE CancelWrapper(r)
    BY <2>1 DEF CancelWrapper
  <2>2. CASE ~CancelWrapper(r)
    BY <1>13, <2>2 DEF BodyTooLong, StreamCancelled, CancelUnstarted
  <2> QED BY <2>1, <2>2
<1>14. CASE CancelReachesProvider(r)
  BY <1>14 DEF CancelReachesProvider
<1>15. CASE NextRequest(r)
  BY <1>15 DEF NextRequest
<1> QED
  BY <1>1, <1>2, <1>3, <1>4, <1>5, <1>6, <1>7, <1>8, <1>9, <1>10, <1>11, <1>12,
     <1>13, <1>14, <1>15
  DEF Step, OpenEnvelope, AfterFetch, Stream, CancelBody

(***************************************************************************)
(* The inductive invariant: an exchange with the provider opens under a      *)
(* deadline and with no failure behind it.  Until the exchange is over the   *)
(* deadline is cancelled by a cancellation alone, which goes on to close it. *)
(***************************************************************************)
THEOREM CallsKept == Spec => []IInv
<1>1. IInv /\ [Next]_vars => IInv'
  <2> SUFFICES ASSUME IInv, [Next]_vars
               PROVE  IInv'
    OBVIOUS
  <2>1. ASSUME NEW r \in Requests, Step(r)
        PROVE  IInv'
    BY <2>1, ClaimKeeps, OtherStepsKeep
  <2>2. CASE UNCHANGED vars
    BY <2>2
    DEF vars, callVars, replayVars, IInv, TypeOK, AcceptedTyped, CallKept,
        NotYetCalled, FailureIsClosed, UnderDeadline
  <2> QED BY <2>1, <2>2 DEF Next
<1> QED BY <1>1, InitIInv, PTL DEF Spec

\* Whatever ends a request after it called the provider, an exchange still
\* open has its deadline running, or is about to be closed by a cancellation.
THEOREM UnderDeadlineAlways == Spec => []OpenExchangeHasDeadline
<1>1. IInv => OpenExchangeHasDeadline
  BY DEF IInv, CallKept, UnderDeadline, OpenExchangeHasDeadline
<1> QED BY <1>1, CallsKept, PTL
-----------------------------------------------------------------------------
LEMMA ClaimCallsOnce ==
  ASSUME IInv, NEW q \in Requests, ClaimOpened(q)
  PROVE  /\ \A r \in Requests : IsCalled(r) => ~Replay!InWindow(Key(r), now')
         /\ \A r \in Requests :
              acceptedAt'[Key(r)] # acceptedAt[Key(r)] =>
                \E p \in Requests : KeyOf[p] = KeyOf[r] /\ IsOpened(p)
<1>1. ASSUME NEW r \in Requests, IsCalled(r)
      PROVE  ~Replay!InWindow(Key(r), now')
  <2>1. r = q /\ answer'.result = "claimed"
    BY <1>1 DEF IInv, TypeOK, IsCalled, ClaimOpened, CallProvider, callVars
  <2> QED BY <2>1, ClaimAccepts DEF IInv, ClaimOpened
<1>2. ASSUME NEW r \in Requests, acceptedAt'[Key(r)] # acceptedAt[Key(r)]
      PROVE  KeyOf[q] = KeyOf[r]
  BY <1>2, ClaimAccepts, KeyTyped DEF IInv, ClaimOpened, Key
<1>3. IsOpened(q)
  BY DEF IInv, TypeOK, ClaimOpened, IsOpened, CallProvider, Seal, Goto
<1> QED BY <1>1, <1>2, <1>3

LEMMA OtherStepsCallNobody ==
  ASSUME IInv, NEW q \in Requests, Step(q), ~ClaimOpened(q), NEW r \in Requests
  PROVE  ~IsCalled(r)
BY DEF IInv, TypeOK, CallKept, NotYetCalled, IsCalled, Step, Admission,
       RefuseUnknown, StartReading, ReadEnvelope, FailEnvelope, StartOpening,
       OpenEnvelope, FailOpening, FetchSettles, DeadlineFires, AfterFetch,
       ProviderFails, ProviderAnswersEmpty, ProviderAnswers, SealAnswer,
       SealingEnds, SealingFails, RelayDisconnects, ProviderEnds, WrapperFinishes,
       Stream, StreamEnds, FrameSealingFails, BodyTooLong, StreamCancelled,
       CancelBody, CancelWrapper, CancelUnstarted, CancelReachesProvider,
       NextRequest, Goto, Finish, Seal, Closed, callVars

(***************************************************************************)
(* However many copies of an envelope are opened at the same time, the       *)
(* provider is called for it once in its window; and a damaged copy does    *)
(* not use the envelope up.                                                *)
(***************************************************************************)
THEOREM OncePerWindow == Spec => CalledOncePerWindow
<1> DEFINE Once ==
      /\ \A r \in Requests : IsCalled(r) => ~Replay!InWindow(Key(r), now')
      /\ \A r \in Requests :
           acceptedAt'[Key(r)] # acceptedAt[Key(r)] =>
             \E q \in Requests : KeyOf[q] = KeyOf[r] /\ IsOpened(q)
<1>1. IInv /\ [Next]_vars => [Once]_vars
  <2> SUFFICES ASSUME IInv, Next
               PROVE  Once
    OBVIOUS
  <2> PICK q \in Requests : Step(q)
    BY DEF Next
  <2>1. CASE ClaimOpened(q)
    BY <2>1, ClaimCallsOnce
  <2>2. CASE ~ClaimOpened(q)
    <3>1. acceptedAt' = acceptedAt
      BY <2>2, OtherStepsKeep DEF replayVars
    <3> QED BY <2>2, <3>1, OtherStepsCallNobody
  <2> QED BY <2>1, <2>2
<1> QED BY <1>1, CallsKept, PTL DEF Spec, CalledOncePerWindow
-----------------------------------------------------------------------------
\* A read that is awaited with bytes in the queue has a timer, set when the
\* wait last began or was fed; and each chunk that restarted it brought a byte.
TimerInv ==
  /\ TimerTypeOK
  /\ generator = "suspended" => timer = NoTimer
  /\ generator = "waiting" => queued < maxFramePayloadBytes
  /\ Asked =>
       /\ timer = lastChunk + responseFlushMs
       /\ lastChunk <= clock /\ clock <= timer
       /\ lastChunk - waitingSince <= (queued - 1) * responseFlushMs

LEMMA AskedInTime == TimerInv => DelayBoundedByPayload
<1> SUFFICES ASSUME TimerInv, Asked
             PROVE  /\ queued < maxFramePayloadBytes
                    /\ clock - waitingSince <= queued * responseFlushMs
                    /\ clock - lastChunk <= responseFlushMs
  BY DEF DelayBoundedByPayload
<1>1. /\ clock \in Int /\ waitingSince \in Int /\ lastChunk \in Int
      /\ queued \in Nat /\ responseFlushMs \in Nat
  BY FlushAssumption, BoundsAssumption DEF TimerInv, TimerTypeOK
<1>2. clock - lastChunk <= responseFlushMs
  BY <1>1 DEF TimerInv
<1>3. lastChunk - waitingSince <= queued * responseFlushMs - responseFlushMs
  <2>1. (queued - 1) * responseFlushMs = queued * responseFlushMs - responseFlushMs
    BY <1>1
  <2> QED BY <2>1 DEF TimerInv
<1>4. queued * responseFlushMs \in Int
  BY <1>1
<1>5. clock - waitingSince <= queued * responseFlushMs
  BY <1>1, <1>2, <1>3, <1>4
<1> QED BY <1>2, <1>5 DEF TimerInv, Asked

\* A wait that starts or goes on with as many bytes as intervals have passed.
LEMMA WaitKeeps ==
  ASSUME TimerInv, NEW bytes \in Nat, NEW since \in 0..MaxTime, Wait(bytes, since),
         bytes < maxFramePayloadBytes,
         bytes > 0 => clock - since <= (bytes - 1) * responseFlushMs,
         clock' = clock, arrived' \in 0..MaxChunkBytes
  PROVE  TimerInv'
<1>1. /\ clock \in 0..MaxTime /\ clock + responseFlushMs \in 0..(MaxTime + responseFlushMs)
      /\ clock <= clock + responseFlushMs
  BY FlushAssumption, BoundsAssumption DEF TimerInv, TimerTypeOK
<1>2. TimerTypeOK'
  BY <1>1 DEF Wait, TimerFor, TimerInv, TimerTypeOK
<1> QED BY <1>1, <1>2 DEF Wait, TimerFor, TimerInv, Asked

\* A yield leaves bytes, and no timer.
LEMMA YieldKeeps ==
  ASSUME TimerInv, NEW bytes \in Nat, Yield(bytes), clock' = clock,
         arrived' \in 0..MaxChunkBytes
  PROVE  TimerInv'
BY PayloadAssumption DEF Yield, TimerInv, TimerTypeOK, Asked

\* A chunk is pushed.
LEMMA PushKeeps ==
  ASSUME TimerInv, NEW bytes \in Nat, NEW since \in 0..MaxTime, Push(bytes, since),
         clock - since <= (bytes - 1) * responseFlushMs,
         clock' = clock, arrived' \in 0..MaxChunkBytes
  PROVE  TimerInv'
BY WaitKeeps, YieldKeeps, PayloadAssumption DEF Push

\* A chunk after as many intervals as there are bytes in the queue.
LEMMA MoreBytesMoreTime ==
  ASSUME NEW bytes \in Nat, NEW n \in Nat \ {0}
  PROVE  bytes * responseFlushMs <= (bytes + n - 1) * responseFlushMs
<1>1. PICK k \in Nat : n = k + 1
  <2>1. n - 1 \in Nat /\ n = (n - 1) + 1
    OBVIOUS
  <2> QED BY <2>1
<1>2. (bytes + n - 1) * responseFlushMs = bytes * responseFlushMs + k * responseFlushMs
  BY <1>1, FlushAssumption
<1>3. k * responseFlushMs \in Nat /\ bytes * responseFlushMs \in Nat
  BY <1>1, FlushAssumption
<1> QED BY <1>2, <1>3

\* Every step keeps the timer in time.
LEMMA TimerStep == TimerInv /\ [TimerNext]_timerVars => TimerInv'
<1> SUFFICES ASSUME TimerInv, [TimerNext]_timerVars PROVE TimerInv'
  OBVIOUS
<1> USE FlushAssumption, PayloadAssumption, BoundsAssumption
<1>1. CASE Tick
  BY <1>1 DEF Tick, Due, TimerInv, TimerTypeOK, Asked, NoTimer
<1>2. CASE ReadSettles
  <2>1. PICK n \in 1..MaxChunkBytes :
          Push(queued + n, IF queued = 0 THEN clock ELSE waitingSince)
    BY <1>2 DEF ReadSettles
  <2>2. /\ generator = "waiting" /\ queued \in Nat /\ n \in Nat \ {0}
        /\ clock' = clock /\ arrived' \in 0..MaxChunkBytes
        /\ clock \in 0..MaxTime /\ waitingSince \in 0..MaxTime
    BY <1>2, <2>1 DEF ReadSettles, TimerInv, TimerTypeOK
  <2>3. queued * responseFlushMs <= (queued + n - 1) * responseFlushMs
    BY <2>2, MoreBytesMoreTime
  <2>4. queued * responseFlushMs \in Nat /\ (queued + n - 1) * responseFlushMs \in Int
    <3>1. queued + n - 1 \in Int
      BY <2>2
    <3> QED BY <2>2, <3>1
  <2>5. CASE queued = 0
    <3>1. clock - clock <= (queued + n - 1) * responseFlushMs
      BY <2>2, <2>3, <2>4
    <3> QED BY <2>1, <2>2, <2>5, <3>1, PushKeeps
  <2>6. CASE queued # 0
    <3>1. clock - waitingSince <= queued * responseFlushMs
      BY <2>2, <2>6, AskedInTime DEF DelayBoundedByPayload, Asked
    <3>2. clock - waitingSince <= (queued + n - 1) * responseFlushMs
      BY <2>2, <2>3, <2>4, <3>1
    <3> QED BY <2>1, <2>2, <2>6, <3>2, PushKeeps
  <2> QED BY <2>5, <2>6
<1>3. CASE ReadSettlesUnasked
  BY <1>3 DEF ReadSettlesUnasked, TimerInv, TimerTypeOK, Asked
<1>4. CASE Resume
  <2>1. /\ queued \in Nat /\ arrived \in 0..MaxChunkBytes /\ clock \in 0..MaxTime
        /\ clock' = clock
    BY <1>4 DEF Resume, TimerInv, TimerTypeOK
  <2>2. ASSUME NEW bytes \in Nat, bytes > 0
        PROVE  clock - clock <= (bytes - 1) * responseFlushMs
    <3>1. 0 * responseFlushMs <= (0 + bytes - 1) * responseFlushMs
      BY <2>2, MoreBytesMoreTime
    <3> QED BY <2>1, <3>1
  <2>3. CASE queued >= maxFramePayloadBytes
    BY <1>4, <2>1, <2>3, YieldKeeps DEF Resume
  <2>4. CASE queued < maxFramePayloadBytes /\ arrived > 0
    <3>1. Push(queued + arrived, clock) /\ arrived' = 0
      BY <1>4, <2>4, <2>1 DEF Resume
    <3>2. queued + arrived \in Nat /\ queued + arrived > 0
      BY <2>1, <2>4
    <3> QED BY <2>1, <2>2, <3>1, <3>2, PushKeeps
  <2>5. CASE queued < maxFramePayloadBytes /\ arrived = 0
    <3>1. Wait(queued, clock) /\ arrived' = arrived
      BY <1>4, <2>5, <2>1 DEF Resume
    <3> QED BY <2>1, <2>2, <2>5, <3>1, WaitKeeps
  <2> QED BY <2>1, <2>3, <2>4, <2>5
<1>5. CASE Timeout
  BY <1>5, YieldKeeps DEF Timeout, TimerInv, TimerTypeOK
<1>6. CASE UNCHANGED timerVars
  BY <1>6 DEF timerVars, TimerInv, TimerTypeOK, Asked
<1> QED BY <1>1, <1>2, <1>3, <1>4, <1>5, <1>6 DEF TimerNext

(***************************************************************************)
(* The flush timer of coalesceResponseBody: although each chunk restarts    *)
(* it, a reader who waits for a byte waits one interval per queued byte at  *)
(* most, and one interval once the provider is quiet; for every interval,   *)
(* payload and chunk size.                                                  *)
(***************************************************************************)
THEOREM DelayBounded == TimerSpec => []DelayBoundedByPayload
<1>1. TimerInit => TimerInv
  BY BoundsAssumption, PayloadAssumption
  DEF TimerInit, TimerInv, TimerTypeOK, Asked
<1> QED BY <1>1, TimerStep, AskedInTime, PTL DEF TimerSpec
-----------------------------------------------------------------------------
(* SanitizeRequest.  First, what each operator of the sanitizer returns, as  *)
(* a statement about the fields; then the invariant of the places, Made: what *)
(* is forwarded of a value is what the code makes of a value of that kind.   *)
(* It holds at the root of a request that is not refused and goes down from   *)
(* a place to its children, so it holds everywhere, by induction over the    *)
(* depth.  In the other direction, Malformed: a value that is refused is of   *)
(* the wrong type or has a child that is refused.                           *)

\* Induction over the depth: a set of numbers that is not empty has a least one.
LEMMA LeastNumber ==
  ASSUME NEW S \in SUBSET Nat, S # {}
  PROVE  \E n \in S : \A m \in S : n <= m
<1>1. IsWellFoundedOn(OpToRel(<, Nat), Nat)
  BY NatLessThanWellFounded
<1>2. PICK n \in S : \A m \in S : ~(<<m, n>> \in OpToRel(<, Nat))
  BY <1>1, WFMin
<1>3. \A m \in S : n <= m
  <2> SUFFICES ASSUME NEW m \in S, ~(n <= m) PROVE FALSE
    OBVIOUS
  <2>1. m \in Nat /\ n \in Nat /\ m < n
    OBVIOUS
  <2>2. <<m, n>> \in {p \in Nat \X Nat : p[1] < p[2]}
    BY <2>1
  <2> QED BY <1>2, <2>2 DEF OpToRel
<1> QED BY <1>3

\* There is a function that takes the places down step by step.
LEMMA PlacesFollow ==
  /\ PlacesAt[0] = {Root}
  /\ \A depth \in 1..MaxDepth :
       PlacesAt[depth] = UNION {Children(place) : place \in PlacesAt[depth - 1]}
<1> DEFINE Below(S) == UNION {Children(place) : place \in S}
           Steps(n, f) == f = [depth \in 0..n |-> IF depth = 0 THEN {Root} ELSE Below(f[depth - 1])]
           Failing == {n \in Nat : ~\E f : Steps(n, f)}
<1>1. Failing = {}
  <2> SUFFICES ASSUME Failing # {} PROVE FALSE
    OBVIOUS
  <2>1. PICK n \in Failing : \A m \in Failing : n <= m
    <3>1. Failing \in SUBSET Nat
      OBVIOUS
    <3> HIDE DEF Failing
    <3> QED BY <3>1, LeastNumber
  <2>2. n \in Nat /\ ~\E f : Steps(n, f)
    OBVIOUS
  <2>3. CASE n = 0
    <3>1. Steps(0, [depth \in 0..0 |-> {Root}])
      OBVIOUS
    <3> QED BY <2>2, <2>3, <3>1
  <2>4. CASE n # 0
    <3>1. n - 1 \in Nat /\ n - 1 \notin Failing
      <4>1. n - 1 \in Nat /\ ~(n <= n - 1)
        BY <2>2, <2>4
      <4> HIDE DEF Failing
      <4> QED BY <2>1, <4>1
    <3>2. PICK f : Steps(n - 1, f)
      BY <3>1
    <3> DEFINE g == [depth \in 0..n |-> IF depth = n THEN Below(f[n - 1]) ELSE f[depth]]
    <3>3. /\ \A depth \in 0..(n - 1) :
               f[depth] = IF depth = 0 THEN {Root} ELSE Below(f[depth - 1])
      BY <3>2
    <3> HIDE DEF Below
    <3>4. ASSUME NEW depth \in 0..n
          PROVE  g[depth] = IF depth = 0 THEN {Root} ELSE Below(g[depth - 1])
      <4>1. CASE depth = n
        <5>1. g[n] = Below(f[n - 1]) /\ g[n - 1] = f[n - 1]
          BY <2>2, <2>4
        <5> QED BY <4>1, <2>4, <5>1
      <4>2. CASE depth # n /\ depth # 0
        <5>1. depth \in 0..(n - 1) /\ depth - 1 \in 0..n /\ depth - 1 # n
          BY <2>2, <4>2
        <5>2. g[depth] = f[depth] /\ g[depth - 1] = f[depth - 1]
          BY <4>2, <5>1
        <5> QED BY <3>3, <4>2, <5>1, <5>2
      <4>3. CASE depth # n /\ depth = 0
        <5>1. 0 \in 0..(n - 1) /\ g[0] = f[0]
          BY <2>2, <2>4
        <5> QED BY <3>3, <4>3, <5>1
      <4> QED BY <4>1, <4>2, <4>3
    <3>5. Steps(n, g)
      <4> DEFINE h == [depth \in 0..n |-> IF depth = 0 THEN {Root} ELSE Below(g[depth - 1])]
      <4>1. \A depth \in 0..n : g[depth] = h[depth]
        BY <3>4
      <4>2. g = h
        BY <4>1
      <4> QED BY <4>2
    <3> QED BY <2>2, <3>5
  <2> QED BY <2>3, <2>4
<1>2. \E f : Steps(MaxDepth, f)
  BY <1>1, DepthAssumption
<1>3. PlacesAt = CHOOSE f : Steps(MaxDepth, f)
  BY DEF PlacesAt
<1> HIDE DEF Below
<1>4. Steps(MaxDepth, PlacesAt)
  <2> HIDE DEF Steps
  <2> QED BY <1>2, <1>3
<1>5. \A depth \in 0..MaxDepth :
        PlacesAt[depth] = IF depth = 0 THEN {Root} ELSE Below(PlacesAt[depth - 1])
  BY <1>4
<1>6. PlacesAt[0] = {Root} /\ \A depth \in 1..MaxDepth : PlacesAt[depth] = Below(PlacesAt[depth - 1])
  BY <1>5, DepthAssumption
<1> QED BY <1>6 DEF Below
-----------------------------------------------------------------------------
\* A copy has the fields that are listed, as they were.
LEMMA CopyGives ==
  ASSUME NEW v, NEW F
  PROVE  /\ copyFields(v, F) = Rejected <=> v.type # "object"
         /\ v.type = "object" =>
              /\ copyFields(v, F).type = "object"
              /\ Names(copyFields(v, F)) \subseteq Names(v)
              /\ \A n : Field(copyFields(v, F), n) =
                          IF n \in F THEN Field(v, n) ELSE Undefined
<1>1. CASE v.type # "object"
  BY <1>1 DEF copyFields
<1>2. CASE v.type = "object"
  <2> DEFINE f == [n \in F \cap DOMAIN v.fields |-> v.fields[n]]
  <2>1. copyFields(v, F) = [type |-> "object", fields |-> f]
    BY <1>2 DEF copyFields, Object, Restrict
  <2>2. copyFields(v, F).type = "object" /\ copyFields(v, F).fields = f
    BY <2>1
  <2>3. copyFields(v, F) # Rejected
    <3>1. Rejected.type = "rejected"
      BY DEF Rejected
    <3> QED BY <2>2, <3>1
  <2>4. Names(v) = DOMAIN v.fields /\ Names(copyFields(v, F)) = F \cap DOMAIN v.fields
    BY <1>2, <2>2 DEF Names
  <2>5. ASSUME NEW n
        PROVE  Field(copyFields(v, F), n) = IF n \in F THEN Field(v, n) ELSE Undefined
    <3>1. n \in F \cap DOMAIN v.fields => f[n] = v.fields[n]
      OBVIOUS
    <3> HIDE DEF f
    <3> QED BY <2>2, <2>4, <3>1 DEF Field
  <2> QED BY <1>2, <2>2, <2>3, <2>4, <2>5
<1> QED BY <1>1, <1>2

\* One field of an object, replaced by what is made of it if it is there.
Replaced(v, name, new) ==
  IF v = Rejected \/ Field(v, name) = Undefined THEN v
  ELSE IF new = Rejected THEN Rejected
  ELSE Object([v.fields EXCEPT ![name] = new])

LEMMA ReplacedGives ==
  ASSUME NEW v, v = Rejected \/ v.type = "object", NEW name, NEW new
  PROVE  /\ Replaced(v, name, new) = Rejected <=>
              v = Rejected \/ (Field(v, name) # Undefined /\ new = Rejected)
         /\ Replaced(v, name, new) # Rejected =>
              /\ Replaced(v, name, new).type = "object"
              /\ Names(Replaced(v, name, new)) \subseteq Names(v)
              /\ \A n : Field(Replaced(v, name, new), n) =
                          IF n = name /\ Field(v, name) # Undefined THEN new ELSE Field(v, n)
<1>1. CASE v = Rejected \/ Field(v, name) = Undefined
  <2>1. Replaced(v, name, new) = v
    BY <1>1 DEF Replaced
  <2>2. v # Rejected => Field(v, name) = Undefined
    BY <1>1
  <2> QED BY <2>1, <2>2
<1>2. CASE v # Rejected /\ Field(v, name) # Undefined /\ new = Rejected
  BY <1>2 DEF Replaced
<1>3. CASE v # Rejected /\ Field(v, name) # Undefined /\ new # Rejected
  <2> DEFINE f == [v.fields EXCEPT ![name] = new]
             r == [type |-> "object", fields |-> f]
  <2>1. Replaced(v, name, new) = r
    BY <1>3 DEF Replaced, Object
  <2>2. r.type = "object" /\ r.fields = f
    OBVIOUS
  <2>3. r # Rejected
    <3>1. Rejected.type = "rejected"
      BY DEF Rejected
    <3> QED BY <2>2, <3>1
  <2>4. v.type = "object" /\ name \in DOMAIN v.fields
    BY <1>3 DEF Field, Names
  <2>5. /\ DOMAIN f = DOMAIN v.fields
        /\ \A n \in DOMAIN v.fields : f[n] = IF n = name THEN new ELSE v.fields[n]
    OBVIOUS
  <2> HIDE DEF f
  <2>6. Names(v) = DOMAIN v.fields /\ Names(r) = DOMAIN v.fields
    BY <2>2, <2>4, <2>5 DEF Names
  <2>7. ASSUME NEW n PROVE Field(r, n) = IF n = name THEN new ELSE Field(v, n)
    BY <2>2, <2>4, <2>5, <2>6 DEF Field
  <2> HIDE DEF r
  <2> QED BY <1>3, <2>1, <2>2, <2>3, <2>6, <2>7
<1> QED BY <1>1, <1>2, <1>3

\* An array of what is made of the items.
Mapped(v, f) ==
  IF v.type # "array" \/ \E i \in DOMAIN f : f[i] = Rejected THEN Rejected ELSE Array(f)

LEMMA MappedGives ==
  ASSUME NEW v, NEW f, DOMAIN f = DOMAIN v.fields
  PROVE  /\ Mapped(v, f) = Rejected <=>
              v.type # "array" \/ \E i \in Names(v) : f[i] = Rejected
         /\ Mapped(v, f) # Rejected =>
              /\ v.type = "array" /\ Mapped(v, f).type = "array"
              /\ Names(Mapped(v, f)) = Names(v)
              /\ \A i \in Names(v) : Field(Mapped(v, f), i) = f[i]
<1>1. CASE v.type # "array"
  BY <1>1 DEF Mapped
<1>2. CASE v.type = "array"
  <2>1. Names(v) = DOMAIN f
    BY <1>2 DEF Names
  <2>2. Array(f) # Rejected /\ Array(f).type = "array" /\ Array(f).fields = f
    <3>1. Rejected.type = "rejected" /\ Array(f).type = "array" /\ Array(f).fields = f
      BY DEF Rejected, Array
    <3> QED BY <3>1
  <2>3. Names(Array(f)) = DOMAIN f /\ \A i \in DOMAIN f : Field(Array(f), i) = f[i]
    BY <2>2 DEF Names, Field
  <2> QED BY <1>2, <2>1, <2>2, <2>3 DEF Mapped
<1> QED BY <1>1, <1>2

LEMMA FieldThere == \A v, n : Field(v, n) # Undefined => v.fields[n] = Field(v, n)
BY DEF Field

\* A copy of an object with one of its fields replaced.
LEMMA CopyReplacedGives ==
  ASSUME NEW v, NEW F, NEW name \in F, NEW new, NEW r, r = Replaced(copyFields(v, F), name, new)
  PROVE  /\ r = Rejected <=>
              v.type # "object" \/ (Field(v, name) # Undefined /\ new = Rejected)
         /\ r # Rejected =>
              /\ v.type = "object" /\ r.type = "object"
              /\ Names(r) \subseteq Names(v)
              /\ \A n : Field(r, n) =
                          IF n = name /\ Field(v, name) # Undefined THEN new
                          ELSE IF n \in F THEN Field(v, n) ELSE Undefined
         /\ v.type = "object" /\ Field(v, name) # Undefined =>
              copyFields(v, F).fields[name] = Field(v, name)
<1> DEFINE copy == copyFields(v, F)
<1>1. /\ copy = Rejected <=> v.type # "object"
      /\ v.type = "object" =>
           /\ copy.type = "object"
           /\ Names(copy) \subseteq Names(v)
           /\ \A n : Field(copy, n) = IF n \in F THEN Field(v, n) ELSE Undefined
  BY CopyGives
<1> HIDE DEF copy
<1>2. r = Replaced(copy, name, new)
  BY DEF copy
<1>3. /\ r = Rejected <=> copy = Rejected \/ (Field(copy, name) # Undefined /\ new = Rejected)
      /\ r # Rejected =>
           /\ r.type = "object"
           /\ Names(r) \subseteq Names(copy)
           /\ \A n : Field(r, n) =
                       IF n = name /\ Field(copy, name) # Undefined THEN new ELSE Field(copy, n)
  BY <1>1, <1>2, ReplacedGives
<1>4. CASE v.type # "object"
  BY <1>1, <1>3, <1>4
<1>5. CASE v.type = "object"
  <2>1. Field(copy, name) = Field(v, name)
    BY <1>1, <1>5
  <2>2. Field(v, name) # Undefined => copy.fields[name] = Field(v, name)
    BY <2>1, FieldThere
  <2> QED BY <1>1, <1>3, <1>5, <2>1, <2>2 DEF copy
<1> QED BY <1>4, <1>5

LEMMA ToolCallGives ==
  ASSUME NEW v
  PROVE  /\ ToolCall(v) = Rejected <=>
              \/ v.type # "object"
              \/ Field(v, "function") # Undefined /\ FunctionCall(Field(v, "function")) = Rejected
         /\ ToolCall(v) # Rejected =>
              /\ v.type = "object" /\ ToolCall(v).type = "object"
              /\ Names(ToolCall(v)) \subseteq Names(v)
              /\ \A n : Field(ToolCall(v), n) =
                          IF n = "function" /\ Field(v, n) # Undefined
                            THEN FunctionCall(Field(v, n))
                          ELSE IF n \in TOOL_CALL_FIELDS THEN Field(v, n) ELSE Undefined
<1> DEFINE new == FunctionCall(copyFields(v, TOOL_CALL_FIELDS).fields["function"])
<1>1. "function" \in TOOL_CALL_FIELDS
  BY DEF TOOL_CALL_FIELDS
<1>2. ToolCall(v) = Replaced(copyFields(v, TOOL_CALL_FIELDS), "function", new)
  BY DEF ToolCall, WithField, Replaced
<1> HIDE DEF new
<1>3. /\ ToolCall(v) = Rejected <=>
           v.type # "object" \/ (Field(v, "function") # Undefined /\ new = Rejected)
      /\ ToolCall(v) # Rejected =>
           /\ v.type = "object" /\ ToolCall(v).type = "object"
           /\ Names(ToolCall(v)) \subseteq Names(v)
           /\ \A n : Field(ToolCall(v), n) =
                       IF n = "function" /\ Field(v, "function") # Undefined THEN new
                       ELSE IF n \in TOOL_CALL_FIELDS THEN Field(v, n) ELSE Undefined
      /\ v.type = "object" /\ Field(v, "function") # Undefined =>
           copyFields(v, TOOL_CALL_FIELDS).fields["function"] = Field(v, "function")
  BY <1>1, <1>2, CopyReplacedGives
<1>4. v.type = "object" /\ Field(v, "function") # Undefined =>
        new = FunctionCall(Field(v, "function"))
  BY <1>3 DEF new
<1> QED BY <1>3, <1>4

LEMMA ToolGives ==
  ASSUME NEW v
  PROVE  /\ Tool(v) = Rejected <=>
              \/ v.type # "object"
              \/ Field(v, "function") # Undefined /\ ToolFunction(Field(v, "function")) = Rejected
         /\ Tool(v) # Rejected =>
              /\ v.type = "object" /\ Tool(v).type = "object"
              /\ Names(Tool(v)) \subseteq Names(v)
              /\ \A n : Field(Tool(v), n) =
                          IF n = "function" /\ Field(v, n) # Undefined
                            THEN ToolFunction(Field(v, n))
                          ELSE IF n \in TOOL_FIELDS THEN Field(v, n) ELSE Undefined
<1> DEFINE new == ToolFunction(copyFields(v, TOOL_FIELDS).fields["function"])
<1>1. "function" \in TOOL_FIELDS
  BY DEF TOOL_FIELDS
<1>2. Tool(v) = Replaced(copyFields(v, TOOL_FIELDS), "function", new)
  BY DEF Tool, WithField, Replaced
<1> HIDE DEF new
<1>3. /\ Tool(v) = Rejected <=>
           v.type # "object" \/ (Field(v, "function") # Undefined /\ new = Rejected)
      /\ Tool(v) # Rejected =>
           /\ v.type = "object" /\ Tool(v).type = "object"
           /\ Names(Tool(v)) \subseteq Names(v)
           /\ \A n : Field(Tool(v), n) =
                       IF n = "function" /\ Field(v, "function") # Undefined THEN new
                       ELSE IF n \in TOOL_FIELDS THEN Field(v, n) ELSE Undefined
      /\ v.type = "object" /\ Field(v, "function") # Undefined =>
           copyFields(v, TOOL_FIELDS).fields["function"] = Field(v, "function")
  BY <1>1, <1>2, CopyReplacedGives
<1>4. v.type = "object" /\ Field(v, "function") # Undefined =>
        new = ToolFunction(Field(v, "function"))
  BY <1>3 DEF new
<1> QED BY <1>3, <1>4

LEMMA ResponseFormatGives ==
  ASSUME NEW v
  PROVE  /\ ResponseFormat(v) = Rejected <=>
              \/ v.type # "object"
              \/ Field(v, "json_schema") # Undefined /\ JsonSchema(Field(v, "json_schema")) = Rejected
         /\ ResponseFormat(v) # Rejected =>
              /\ v.type = "object" /\ ResponseFormat(v).type = "object"
              /\ Names(ResponseFormat(v)) \subseteq Names(v)
              /\ \A n : Field(ResponseFormat(v), n) =
                          IF n = "json_schema" /\ Field(v, n) # Undefined
                            THEN JsonSchema(Field(v, n))
                          ELSE IF n \in RESPONSE_FORMAT_FIELDS THEN Field(v, n) ELSE Undefined
<1> DEFINE new == JsonSchema(copyFields(v, RESPONSE_FORMAT_FIELDS).fields["json_schema"])
<1>1. "json_schema" \in RESPONSE_FORMAT_FIELDS
  BY DEF RESPONSE_FORMAT_FIELDS
<1>2. ResponseFormat(v) = Replaced(copyFields(v, RESPONSE_FORMAT_FIELDS), "json_schema", new)
  BY DEF ResponseFormat, WithField, Replaced
<1> HIDE DEF new
<1>3. /\ ResponseFormat(v) = Rejected <=>
           v.type # "object" \/ (Field(v, "json_schema") # Undefined /\ new = Rejected)
      /\ ResponseFormat(v) # Rejected =>
           /\ v.type = "object" /\ ResponseFormat(v).type = "object"
           /\ Names(ResponseFormat(v)) \subseteq Names(v)
           /\ \A n : Field(ResponseFormat(v), n) =
                       IF n = "json_schema" /\ Field(v, "json_schema") # Undefined THEN new
                       ELSE IF n \in RESPONSE_FORMAT_FIELDS THEN Field(v, n) ELSE Undefined
      /\ v.type = "object" /\ Field(v, "json_schema") # Undefined =>
           copyFields(v, RESPONSE_FORMAT_FIELDS).fields["json_schema"] = Field(v, "json_schema")
  BY <1>1, <1>2, CopyReplacedGives
<1>4. v.type = "object" /\ Field(v, "json_schema") # Undefined =>
        new = JsonSchema(Field(v, "json_schema"))
  BY <1>3 DEF new
<1> QED BY <1>3, <1>4

\* The arrays.
LEMMA ArraysGive ==
  ASSUME NEW v
  PROVE  /\ ToolCalls(v) = Rejected <=>
              v.type # "array" \/ \E i \in Names(v) : ToolCall(Field(v, i)) = Rejected
         /\ ToolCalls(v) # Rejected =>
              /\ v.type = "array" /\ ToolCalls(v).type = "array"
              /\ Names(ToolCalls(v)) = Names(v)
              /\ \A i \in Names(v) : Field(ToolCalls(v), i) = ToolCall(Field(v, i))
         /\ sanitizeMessages(v) = Rejected <=>
              v.type # "array" \/ \E i \in Names(v) : Message(Field(v, i)) = Rejected
         /\ sanitizeMessages(v) # Rejected =>
              /\ v.type = "array" /\ sanitizeMessages(v).type = "array"
              /\ Names(sanitizeMessages(v)) = Names(v)
              /\ \A i \in Names(v) : Field(sanitizeMessages(v), i) = Message(Field(v, i))
         /\ sanitizeTools(v) = Rejected <=>
              v.type # "array" \/ \E i \in Names(v) : Tool(Field(v, i)) = Rejected
         /\ sanitizeTools(v) # Rejected =>
              /\ v.type = "array" /\ sanitizeTools(v).type = "array"
              /\ Names(sanitizeTools(v)) = Names(v)
              /\ \A i \in Names(v) : Field(sanitizeTools(v), i) = Tool(Field(v, i))
<1> DEFINE calls == [i \in DOMAIN v.fields |-> ToolCall(v.fields[i])]
           messages == [i \in DOMAIN v.fields |-> Message(v.fields[i])]
           tools == [i \in DOMAIN v.fields |-> Tool(v.fields[i])]
<1>1. /\ ToolCalls(v) = Mapped(v, calls) /\ sanitizeMessages(v) = Mapped(v, messages)
      /\ sanitizeTools(v) = Mapped(v, tools)
  BY DEF ToolCalls, sanitizeMessages, sanitizeTools, WithItems, Mapped
<1>2. \A i \in Names(v) : i \in DOMAIN v.fields /\ Field(v, i) = v.fields[i]
  BY DEF Names, Field
<1>3. /\ DOMAIN calls = DOMAIN v.fields /\ DOMAIN messages = DOMAIN v.fields
      /\ DOMAIN tools = DOMAIN v.fields
  OBVIOUS
<1>4. \A i \in Names(v) :
        /\ calls[i] = ToolCall(Field(v, i)) /\ messages[i] = Message(Field(v, i))
        /\ tools[i] = Tool(Field(v, i))
  BY <1>2
<1> HIDE DEF calls, messages, tools
<1>5. /\ ToolCalls(v) = Rejected <=>
           v.type # "array" \/ \E i \in Names(v) : calls[i] = Rejected
      /\ ToolCalls(v) # Rejected =>
           /\ v.type = "array" /\ ToolCalls(v).type = "array"
           /\ Names(ToolCalls(v)) = Names(v)
           /\ \A i \in Names(v) : Field(ToolCalls(v), i) = calls[i]
  BY <1>1, <1>3, MappedGives
<1>6. /\ sanitizeMessages(v) = Rejected <=>
           v.type # "array" \/ \E i \in Names(v) : messages[i] = Rejected
      /\ sanitizeMessages(v) # Rejected =>
           /\ v.type = "array" /\ sanitizeMessages(v).type = "array"
           /\ Names(sanitizeMessages(v)) = Names(v)
           /\ \A i \in Names(v) : Field(sanitizeMessages(v), i) = messages[i]
  BY <1>1, <1>3, MappedGives
<1>7. /\ sanitizeTools(v) = Rejected <=>
           v.type # "array" \/ \E i \in Names(v) : tools[i] = Rejected
      /\ sanitizeTools(v) # Rejected =>
           /\ v.type = "array" /\ sanitizeTools(v).type = "array"
           /\ Names(sanitizeTools(v)) = Names(v)
           /\ \A i \in Names(v) : Field(sanitizeTools(v), i) = tools[i]
  BY <1>1, <1>3, MappedGives
<1> QED BY <1>4, <1>5, <1>6, <1>7

LEMMA MessageGives ==
  ASSUME NEW v
  PROVE  /\ Message(v) = Rejected <=>
              \/ v.type # "object" \/ Field(v, "role").type # "string"
              \/ Field(v, "tool_calls") # Undefined /\ ToolCalls(Field(v, "tool_calls")) = Rejected
              \/ /\ Field(v, "function_call") # Undefined
                 /\ FunctionCall(Field(v, "function_call")) = Rejected
         /\ Message(v) # Rejected =>
              /\ v.type = "object" /\ Message(v).type = "object"
              /\ Names(Message(v)) \subseteq Names(v)
              /\ \A n : Field(Message(v), n) =
                          IF n = "tool_calls" /\ Field(v, n) # Undefined
                            THEN ToolCalls(Field(v, n))
                          ELSE IF n = "function_call" /\ Field(v, n) # Undefined
                            THEN FunctionCall(Field(v, n))
                          ELSE IF n \in MESSAGE_FIELDS THEN Field(v, n) ELSE Undefined
<1> DEFINE copy == copyFields(v, MESSAGE_FIELDS)
           calls == ToolCalls(copy.fields["tool_calls"])
           first == Replaced(copy, "tool_calls", calls)
           call == FunctionCall(first.fields["function_call"])
           both == Replaced(first, "function_call", call)
<1>1. /\ "role" \in MESSAGE_FIELDS /\ "tool_calls" \in MESSAGE_FIELDS
      /\ "function_call" \in MESSAGE_FIELDS
  BY DEF MESSAGE_FIELDS
<1>2. Message(v) = IF Field(copy, "role").type # "string" THEN Rejected ELSE both
  BY DEF Message, WithField, Replaced
<1>3. /\ copy = Rejected <=> v.type # "object"
      /\ v.type = "object" =>
           \A n : Field(copy, n) = IF n \in MESSAGE_FIELDS THEN Field(v, n) ELSE Undefined
  BY CopyGives
<1>4. Field(Rejected, "role") = Undefined /\ Undefined.type = "undefined"
  BY DEF Field, Names, Rejected, Undefined
<1>5. Field(copy, "role").type # "string" <=>
        v.type # "object" \/ Field(v, "role").type # "string"
  BY <1>1, <1>3, <1>4
<1>6. /\ first = Rejected <=>
           v.type # "object" \/ (Field(v, "tool_calls") # Undefined /\ calls = Rejected)
      /\ first # Rejected =>
           /\ v.type = "object" /\ first.type = "object"
           /\ Names(first) \subseteq Names(v)
           /\ \A n : Field(first, n) =
                       IF n = "tool_calls" /\ Field(v, "tool_calls") # Undefined THEN calls
                       ELSE IF n \in MESSAGE_FIELDS THEN Field(v, n) ELSE Undefined
      /\ v.type = "object" /\ Field(v, "tool_calls") # Undefined =>
           copy.fields["tool_calls"] = Field(v, "tool_calls")
  <2>1. first = Replaced(copyFields(v, MESSAGE_FIELDS), "tool_calls", calls)
    OBVIOUS
  <2>2. copy.fields["tool_calls"] = copyFields(v, MESSAGE_FIELDS).fields["tool_calls"]
    OBVIOUS
  <2> HIDE DEF first, calls, copy
  <2> QED BY <1>1, <2>1, <2>2, CopyReplacedGives
<1>7. v.type = "object" /\ Field(v, "tool_calls") # Undefined =>
        calls = ToolCalls(Field(v, "tool_calls"))
  BY <1>6
<1> HIDE DEF first, calls, copy
<1>8. first # Rejected => Field(first, "function_call") = Field(v, "function_call")
  BY <1>1, <1>6
<1>9. first # Rejected /\ Field(v, "function_call") # Undefined =>
        call = FunctionCall(Field(v, "function_call"))
  BY <1>8, FieldThere
<1> HIDE DEF call
<1>10. /\ both = Rejected <=>
            first = Rejected \/ (Field(first, "function_call") # Undefined /\ call = Rejected)
       /\ both # Rejected =>
            /\ both.type = "object"
            /\ Names(both) \subseteq Names(first)
            /\ \A n : Field(both, n) =
                        IF n = "function_call" /\ Field(first, "function_call") # Undefined
                          THEN call ELSE Field(first, n)
  BY <1>6, ReplacedGives
<1> HIDE DEF both
<1>11. both = Rejected <=>
         \/ v.type # "object"
         \/ Field(v, "tool_calls") # Undefined /\ ToolCalls(Field(v, "tool_calls")) = Rejected
         \/ /\ Field(v, "function_call") # Undefined
            /\ FunctionCall(Field(v, "function_call")) = Rejected
  BY <1>6, <1>7, <1>8, <1>9, <1>10
<1>12. both # Rejected =>
         /\ v.type = "object" /\ both.type = "object"
         /\ Names(both) \subseteq Names(v)
         /\ \A n : Field(both, n) =
                     IF n = "tool_calls" /\ Field(v, n) # Undefined
                       THEN ToolCalls(Field(v, n))
                     ELSE IF n = "function_call" /\ Field(v, n) # Undefined
                       THEN FunctionCall(Field(v, n))
                     ELSE IF n \in MESSAGE_FIELDS THEN Field(v, n) ELSE Undefined
  BY <1>6, <1>7, <1>8, <1>9, <1>10
<1> QED BY <1>2, <1>5, <1>11, <1>12

\* What is made of one field, if it is there, of an object that was copied from v.
LEMMA NextGives ==
  ASSUME NEW v, NEW o, NEW name, Field(o, name) = Field(v, name) \/ o = Rejected,
         o = Rejected \/ o.type = "object", NEW new, NEW r, r = Replaced(o, name, new)
  PROVE  /\ r = Rejected <=> o = Rejected \/ (Field(v, name) # Undefined /\ new = Rejected)
         /\ r # Rejected =>
              /\ r.type = "object"
              /\ Names(r) \subseteq Names(o)
              /\ \A n : Field(r, n) =
                          IF n = name /\ Field(v, name) # Undefined THEN new ELSE Field(o, n)
         /\ o # Rejected /\ Field(v, name) # Undefined => o.fields[name] = Field(v, name)
<1>1. /\ r = Rejected <=> o = Rejected \/ (Field(o, name) # Undefined /\ new = Rejected)
      /\ r # Rejected =>
           /\ r.type = "object"
           /\ Names(r) \subseteq Names(o)
           /\ \A n : Field(r, n) =
                       IF n = name /\ Field(o, name) # Undefined THEN new ELSE Field(o, n)
  BY ReplacedGives
<1>2. CASE o = Rejected
  BY <1>1, <1>2
<1>3. CASE o # Rejected
  <2>1. Field(o, name) = Field(v, name)
    BY <1>3
  <2>2. Field(v, name) # Undefined => o.fields[name] = Field(v, name)
    BY <2>1, FieldThere
  <2> QED BY <1>1, <1>3, <2>1, <2>2
<1> QED BY <1>2, <1>3

LEMMA RequestGives ==
  ASSUME NEW v, HasRequired(v)
  PROVE  /\ sanitizeChatRequest(v) = Rejected <=>
              \/ Field(v, "messages") # Undefined /\ sanitizeMessages(Field(v, "messages")) = Rejected
              \/ Field(v, "tools") # Undefined /\ sanitizeTools(Field(v, "tools")) = Rejected
              \/ /\ Field(v, "response_format") # Undefined
                 /\ ResponseFormat(Field(v, "response_format")) = Rejected
              \/ /\ Field(v, "stream_options") # Undefined
                 /\ StreamOptions(Field(v, "stream_options")) = Rejected
         /\ sanitizeChatRequest(v) # Rejected =>
              /\ sanitizeChatRequest(v).type = "object"
              /\ Names(sanitizeChatRequest(v)) \subseteq Names(v)
              /\ \A n : Field(sanitizeChatRequest(v), n) =
                   IF n = "messages" /\ Field(v, n) # Undefined THEN sanitizeMessages(Field(v, n))
                   ELSE IF n = "tools" /\ Field(v, n) # Undefined THEN sanitizeTools(Field(v, n))
                   ELSE IF n = "response_format" /\ Field(v, n) # Undefined
                     THEN ResponseFormat(Field(v, n))
                   ELSE IF n = "stream_options" /\ Field(v, n) # Undefined
                     THEN StreamOptions(Field(v, n))
                   ELSE IF n \in ALLOWED_FIELDS THEN Field(v, n) ELSE Undefined
<1> DEFINE o0 == copyFields(v, ALLOWED_FIELDS)
           n1 == sanitizeMessages(o0.fields["messages"])
           o1 == Replaced(o0, "messages", n1)
           n2 == sanitizeTools(o1.fields["tools"])
           o2 == Replaced(o1, "tools", n2)
           n3 == ResponseFormat(o2.fields["response_format"])
           o3 == Replaced(o2, "response_format", n3)
           n4 == StreamOptions(o3.fields["stream_options"])
           o4 == Replaced(o3, "stream_options", n4)
<1>1. /\ "messages" \in ALLOWED_FIELDS /\ "tools" \in ALLOWED_FIELDS
      /\ "response_format" \in ALLOWED_FIELDS /\ "stream_options" \in ALLOWED_FIELDS
  BY SMTT(30) DEF ALLOWED_FIELDS
<1>2. sanitizeChatRequest(v) = o4
  BY DEF sanitizeChatRequest, WithField, Replaced
<1>3. /\ o0 # Rejected /\ o0.type = "object" /\ Names(o0) \subseteq Names(v)
      /\ \A n : Field(o0, n) = IF n \in ALLOWED_FIELDS THEN Field(v, n) ELSE Undefined
  BY CopyGives DEF HasRequired
<1>4. o1 = Replaced(o0, "messages", n1) /\ n1 = sanitizeMessages(o0.fields["messages"])
  OBVIOUS
<1>5. o2 = Replaced(o1, "tools", n2) /\ n2 = sanitizeTools(o1.fields["tools"])
  OBVIOUS
<1>6. o3 = Replaced(o2, "response_format", n3) /\ n3 = ResponseFormat(o2.fields["response_format"])
  OBVIOUS
<1>7. o4 = Replaced(o3, "stream_options", n4) /\ n4 = StreamOptions(o3.fields["stream_options"])
  OBVIOUS
<1> HIDE DEF o0, n1, o1, n2, o2, n3, o3, n4, o4
<1>8. /\ o1 = Rejected <=>
           o0 = Rejected \/ (Field(v, "messages") # Undefined /\ n1 = Rejected)
      /\ o1 # Rejected =>
           /\ o1.type = "object"
           /\ Names(o1) \subseteq Names(o0)
           /\ \A n : Field(o1, n) =
                       IF n = "messages" /\ Field(v, "messages") # Undefined THEN n1
                       ELSE Field(o0, n)
      /\ o0 # Rejected /\ Field(v, "messages") # Undefined =>
           o0.fields["messages"] = Field(v, "messages")
  <2>1. Field(o0, "messages") = Field(v, "messages") \/ o0 = Rejected
    BY <1>1, <1>3
  <2> QED BY <1>3, <1>4, <2>1, NextGives
<1>9. /\ o2 = Rejected <=>
           o1 = Rejected \/ (Field(v, "tools") # Undefined /\ n2 = Rejected)
      /\ o2 # Rejected =>
           /\ o2.type = "object"
           /\ Names(o2) \subseteq Names(o1)
           /\ \A n : Field(o2, n) =
                       IF n = "tools" /\ Field(v, "tools") # Undefined THEN n2
                       ELSE Field(o1, n)
      /\ o1 # Rejected /\ Field(v, "tools") # Undefined =>
           o1.fields["tools"] = Field(v, "tools")
  <2>1. Field(o1, "tools") = Field(v, "tools") \/ o1 = Rejected
    BY <1>1, <1>3, <1>8
  <2> QED BY <1>5, <1>8, <2>1, NextGives
<1>10. /\ o3 = Rejected <=>
            o2 = Rejected \/ (Field(v, "response_format") # Undefined /\ n3 = Rejected)
       /\ o3 # Rejected =>
            /\ o3.type = "object"
            /\ Names(o3) \subseteq Names(o2)
            /\ \A n : Field(o3, n) =
                        IF n = "response_format" /\ Field(v, "response_format") # Undefined THEN n3
                        ELSE Field(o2, n)
       /\ o2 # Rejected /\ Field(v, "response_format") # Undefined =>
            o2.fields["response_format"] = Field(v, "response_format")
  <2>1. Field(o2, "response_format") = Field(v, "response_format") \/ o2 = Rejected
    BY <1>1, <1>3, <1>8, <1>9
  <2> QED BY <1>6, <1>9, <2>1, NextGives
<1>11. /\ o4 = Rejected <=>
            o3 = Rejected \/ (Field(v, "stream_options") # Undefined /\ n4 = Rejected)
       /\ o4 # Rejected =>
            /\ o4.type = "object"
            /\ Names(o4) \subseteq Names(o3)
            /\ \A n : Field(o4, n) =
                        IF n = "stream_options" /\ Field(v, "stream_options") # Undefined THEN n4
                        ELSE Field(o3, n)
       /\ o3 # Rejected /\ Field(v, "stream_options") # Undefined =>
            o3.fields["stream_options"] = Field(v, "stream_options")
  <2>1. Field(o3, "stream_options") = Field(v, "stream_options") \/ o3 = Rejected
    BY <1>1, <1>3, <1>8, <1>9, <1>10, SMTT(30)
  <2> QED BY <1>7, <1>10, <2>1, NextGives
<1>12. o4 = Rejected <=>
         \/ Field(v, "messages") # Undefined /\ sanitizeMessages(Field(v, "messages")) = Rejected
         \/ Field(v, "tools") # Undefined /\ sanitizeTools(Field(v, "tools")) = Rejected
         \/ /\ Field(v, "response_format") # Undefined
            /\ ResponseFormat(Field(v, "response_format")) = Rejected
         \/ /\ Field(v, "stream_options") # Undefined
            /\ StreamOptions(Field(v, "stream_options")) = Rejected
  BY <1>3, <1>4, <1>5, <1>6, <1>7, <1>8, <1>9, <1>10, <1>11, ZenonT(40)
<1>13. ASSUME o4 # Rejected
       PROVE  /\ Field(v, "messages") # Undefined => n1 = sanitizeMessages(Field(v, "messages"))
              /\ Field(v, "tools") # Undefined => n2 = sanitizeTools(Field(v, "tools"))
              /\ Field(v, "response_format") # Undefined =>
                   n3 = ResponseFormat(Field(v, "response_format"))
              /\ Field(v, "stream_options") # Undefined =>
                   n4 = StreamOptions(Field(v, "stream_options"))
              /\ o4.type = "object"
              /\ Names(o4) \subseteq Names(v)
              /\ \A n : Field(o4, n) =
                   IF n = "stream_options" /\ Field(v, n) # Undefined THEN n4
                   ELSE IF n = "response_format" /\ Field(v, n) # Undefined THEN n3
                   ELSE IF n = "tools" /\ Field(v, n) # Undefined THEN n2
                   ELSE IF n = "messages" /\ Field(v, n) # Undefined THEN n1
                   ELSE IF n \in ALLOWED_FIELDS THEN Field(v, n) ELSE Undefined
  <2>1. o1 # Rejected /\ o2 # Rejected /\ o3 # Rejected
    BY <1>8, <1>9, <1>10, <1>11, <1>13
  <2>2. /\ Field(v, "messages") # Undefined => n1 = sanitizeMessages(Field(v, "messages"))
        /\ Field(v, "tools") # Undefined => n2 = sanitizeTools(Field(v, "tools"))
        /\ Field(v, "response_format") # Undefined =>
             n3 = ResponseFormat(Field(v, "response_format"))
        /\ Field(v, "stream_options") # Undefined =>
             n4 = StreamOptions(Field(v, "stream_options"))
    BY <1>3, <1>4, <1>5, <1>6, <1>7, <1>8, <1>9, <1>10, <1>11, <2>1
  <2>3. o4.type = "object" /\ Names(o4) \subseteq Names(v)
    BY <1>3, <1>8, <1>9, <1>10, <1>11, <1>13, <2>1
  <2>4. ASSUME NEW n
        PROVE  Field(o4, n) =
                 IF n = "stream_options" /\ Field(v, n) # Undefined THEN n4
                 ELSE IF n = "response_format" /\ Field(v, n) # Undefined THEN n3
                 ELSE IF n = "tools" /\ Field(v, n) # Undefined THEN n2
                 ELSE IF n = "messages" /\ Field(v, n) # Undefined THEN n1
                 ELSE IF n \in ALLOWED_FIELDS THEN Field(v, n) ELSE Undefined
    <3>1. Field(o4, n) =
            IF n = "stream_options" /\ Field(v, n) # Undefined THEN n4 ELSE Field(o3, n)
      BY <1>11, <1>13
    <3>2. Field(o3, n) =
            IF n = "response_format" /\ Field(v, n) # Undefined THEN n3 ELSE Field(o2, n)
      BY <1>10, <2>1
    <3>3. Field(o2, n) = IF n = "tools" /\ Field(v, n) # Undefined THEN n2 ELSE Field(o1, n)
      BY <1>9, <2>1
    <3>4. Field(o1, n) = IF n = "messages" /\ Field(v, n) # Undefined THEN n1 ELSE Field(o0, n)
      BY <1>8, <2>1
    <3> QED BY <1>3, <3>1, <3>2, <3>3, <3>4
  <2> QED BY <2>2, <2>3, <2>4
<1>14. ASSUME o4 # Rejected, NEW n
       PROVE  Field(o4, n) =
                IF n = "messages" /\ Field(v, n) # Undefined THEN sanitizeMessages(Field(v, n))
                ELSE IF n = "tools" /\ Field(v, n) # Undefined THEN sanitizeTools(Field(v, n))
                ELSE IF n = "response_format" /\ Field(v, n) # Undefined
                  THEN ResponseFormat(Field(v, n))
                ELSE IF n = "stream_options" /\ Field(v, n) # Undefined
                  THEN StreamOptions(Field(v, n))
                ELSE IF n \in ALLOWED_FIELDS THEN Field(v, n) ELSE Undefined
  BY <1>13, <1>14
<1> QED BY <1>2, <1>12, <1>13, <1>14
-----------------------------------------------------------------------------
\* The kinds, place by place.
LEMMA ListedKinds ==
  /\ DOMAIN Listed =
       {"request", "message", "tool", "tool_function", "tool_call", "function_call",
        "response_format", "json_schema", "stream_options"}
  /\ DOMAIN ItemKind = {"messages", "tools", "tool_calls"}
  /\ DOMAIN FieldKind = {"request", "message", "tool", "tool_call", "response_format"}
BY DEF Listed, ItemKind, FieldKind

LEMMA OpenKinds ==
  ASSUME NEW n
  PROVE  ChildKind("open", n) = "open" /\ ChildKind("dropped", n) = "dropped"
BY ListedKinds DEF ChildKind

LEMMA ItemKinds ==
  ASSUME NEW n
  PROVE  /\ ChildKind("messages", n) = "message" /\ ChildKind("tools", n) = "tool"
         /\ ChildKind("tool_calls", n) = "tool_call"
<1>1. /\ ItemKind["messages"] = "message" /\ ItemKind["tools"] = "tool"
      /\ ItemKind["tool_calls"] = "tool_call"
  BY DEF ItemKind
<1> QED BY <1>1, ListedKinds DEF ChildKind

\* A kind whose objects have no field that is looked into.
LEMMA PlainKinds ==
  ASSUME NEW n
  PROVE  /\ ChildKind("function_call", n) =
              IF n \in FUNCTION_CALL_FIELDS THEN "open" ELSE "dropped"
         /\ ChildKind("tool_function", n) =
              IF n \in FUNCTION_FIELDS THEN "open" ELSE "dropped"
         /\ ChildKind("json_schema", n) =
              IF n \in JSON_SCHEMA_FIELDS THEN "open" ELSE "dropped"
         /\ ChildKind("stream_options", n) =
              IF n \in STREAM_OPTION_FIELDS THEN "open" ELSE "dropped"
<1>1. /\ Listed["function_call"] = FUNCTION_CALL_FIELDS
      /\ Listed["tool_function"] = FUNCTION_FIELDS
      /\ Listed["json_schema"] = JSON_SCHEMA_FIELDS
      /\ Listed["stream_options"] = STREAM_OPTION_FIELDS
  BY DEF Listed
<1> QED BY <1>1, ListedKinds DEF ChildKind

LEMMA ParentKinds ==
  ASSUME NEW n
  PROVE  /\ ChildKind("tool_call", n) =
              IF n \notin TOOL_CALL_FIELDS THEN "dropped"
              ELSE IF n = "function" THEN "function_call" ELSE "open"
         /\ ChildKind("tool", n) =
              IF n \notin TOOL_FIELDS THEN "dropped"
              ELSE IF n = "function" THEN "tool_function" ELSE "open"
         /\ ChildKind("response_format", n) =
              IF n \notin RESPONSE_FORMAT_FIELDS THEN "dropped"
              ELSE IF n = "json_schema" THEN "json_schema" ELSE "open"
         /\ ChildKind("message", n) =
              IF n \notin MESSAGE_FIELDS THEN "dropped"
              ELSE IF n = "tool_calls" THEN "tool_calls"
              ELSE IF n = "function_call" THEN "function_call" ELSE "open"
         /\ ChildKind("request", n) =
              IF n \notin ALLOWED_FIELDS THEN "dropped"
              ELSE IF n = "messages" THEN "messages"
              ELSE IF n = "tools" THEN "tools"
              ELSE IF n = "response_format" THEN "response_format"
              ELSE IF n = "stream_options" THEN "stream_options" ELSE "open"
<1>1. /\ Listed["tool_call"] = TOOL_CALL_FIELDS /\ Listed["tool"] = TOOL_FIELDS
      /\ Listed["response_format"] = RESPONSE_FORMAT_FIELDS
      /\ Listed["message"] = MESSAGE_FIELDS /\ Listed["request"] = ALLOWED_FIELDS
  BY DEF Listed
<1>2. /\ DOMAIN FieldKind["tool_call"] = {"function"}
      /\ FieldKind["tool_call"]["function"] = "function_call"
      /\ {"function"} \subseteq TOOL_CALL_FIELDS
  BY DEF FieldKind, TOOL_CALL_FIELDS
<1>3. /\ DOMAIN FieldKind["tool"] = {"function"}
      /\ FieldKind["tool"]["function"] = "tool_function"
      /\ {"function"} \subseteq TOOL_FIELDS
  BY DEF FieldKind, TOOL_FIELDS
<1>4. /\ DOMAIN FieldKind["response_format"] = {"json_schema"}
      /\ FieldKind["response_format"]["json_schema"] = "json_schema"
      /\ {"json_schema"} \subseteq RESPONSE_FORMAT_FIELDS
  BY DEF FieldKind, RESPONSE_FORMAT_FIELDS
<1>5. /\ DOMAIN FieldKind["message"] = {"tool_calls", "function_call"}
      /\ FieldKind["message"]["tool_calls"] = "tool_calls"
      /\ FieldKind["message"]["function_call"] = "function_call"
      /\ {"tool_calls", "function_call"} \subseteq MESSAGE_FIELDS
  BY DEF FieldKind, MESSAGE_FIELDS
<1>6. /\ DOMAIN FieldKind["request"] = {"messages", "tools", "response_format", "stream_options"}
      /\ FieldKind["request"]["messages"] = "messages"
      /\ FieldKind["request"]["tools"] = "tools"
      /\ FieldKind["request"]["response_format"] = "response_format"
      /\ FieldKind["request"]["stream_options"] = "stream_options"
      /\ {"messages", "tools", "response_format", "stream_options"} \subseteq ALLOWED_FIELDS
  BY DEF FieldKind, ALLOWED_FIELDS
<1>7. ChildKind("tool_call", n) =
        IF n \notin TOOL_CALL_FIELDS THEN "dropped"
        ELSE IF n = "function" THEN "function_call" ELSE "open"
  BY <1>1, <1>2, ListedKinds DEF ChildKind
<1>8. ChildKind("tool", n) =
        IF n \notin TOOL_FIELDS THEN "dropped"
        ELSE IF n = "function" THEN "tool_function" ELSE "open"
  BY <1>1, <1>3, ListedKinds DEF ChildKind
<1>9. ChildKind("response_format", n) =
        IF n \notin RESPONSE_FORMAT_FIELDS THEN "dropped"
        ELSE IF n = "json_schema" THEN "json_schema" ELSE "open"
  BY <1>1, <1>4, ListedKinds DEF ChildKind
<1>10. ChildKind("message", n) =
         IF n \notin MESSAGE_FIELDS THEN "dropped"
         ELSE IF n = "tool_calls" THEN "tool_calls"
         ELSE IF n = "function_call" THEN "function_call" ELSE "open"
  BY <1>1, <1>5, ListedKinds DEF ChildKind
<1>11. ChildKind("request", n) =
         IF n \notin ALLOWED_FIELDS THEN "dropped"
         ELSE IF n = "messages" THEN "messages"
         ELSE IF n = "tools" THEN "tools"
         ELSE IF n = "response_format" THEN "response_format"
         ELSE IF n = "stream_options" THEN "stream_options" ELSE "open"
  BY <1>1, <1>6, ListedKinds DEF ChildKind
<1> QED BY <1>7, <1>8, <1>9, <1>10, <1>11
-----------------------------------------------------------------------------
\* What the code makes of the value at a place that is looked into.
Cleaned(kind, v, f) ==
  \/ kind = "messages" /\ f = sanitizeMessages(v)
  \/ kind = "message" /\ f = Message(v)
  \/ kind = "tools" /\ f = sanitizeTools(v)
  \/ kind = "tool" /\ f = Tool(v)
  \/ kind = "tool_function" /\ f = ToolFunction(v)
  \/ kind = "tool_calls" /\ f = ToolCalls(v)
  \/ kind = "tool_call" /\ f = ToolCall(v)
  \/ kind = "function_call" /\ f = FunctionCall(v)
  \/ kind = "response_format" /\ f = ResponseFormat(v)
  \/ kind = "json_schema" /\ f = JsonSchema(v)
  \/ kind = "stream_options" /\ f = StreamOptions(v)

LookedInto ==
  {"messages", "message", "tools", "tool", "tool_function", "tool_calls", "tool_call",
   "function_call", "response_format", "json_schema", "stream_options"}

\* The invariant of the places: f is what the code makes of v.
Made(kind, v, f) ==
  \/ kind = "dropped" /\ f = Undefined
  \/ kind = "open" /\ f = v
  \/ kind = "request" /\ HasRequired(v) /\ f = sanitizeChatRequest(v) /\ f # Rejected
  \/ kind \in LookedInto /\ v = Undefined /\ f = Undefined
  \/ kind \in LookedInto /\ Cleaned(kind, v, f) /\ f # Rejected

LEMMA UndefinedFacts ==
  /\ Names(Undefined) = {} /\ \A n : Field(Undefined, n) = Undefined
  /\ Undefined.type = "undefined"
<1>1. Undefined.type = "undefined"
  BY DEF Undefined
<1>2. Names(Undefined) = {}
  BY <1>1 DEF Names
<1> QED BY <1>1, <1>2 DEF Field

\* An object of one of the kinds without fields that are looked into.
LEMMA PlainChild ==
  ASSUME NEW v, NEW F, NEW f, f = copyFields(v, F), f # Rejected, NEW n, NEW kind,
         kind = IF n \in F THEN "open" ELSE "dropped"
  PROVE  Made(kind, Field(v, n), Field(f, n)) /\ Names(f) \subseteq Names(v)
<1>1. /\ v.type = "object" /\ Names(f) \subseteq Names(v)
      /\ Field(f, n) = IF n \in F THEN Field(v, n) ELSE Undefined
  BY CopyGives
<1> QED BY <1>1 DEF Made

LEMMA ItemChild ==
  ASSUME NEW kind \in {"messages", "tools", "tool_calls"}, NEW v, NEW f,
         Cleaned(kind, v, f), f # Rejected, NEW n \in Names(v) \cup Names(f)
  PROVE  Made(ChildKind(kind, n), Field(v, n), Field(f, n)) /\ n \in Names(v)
<1>1. CASE kind = "messages"
  <2>1. f = sanitizeMessages(v)
    BY <1>1 DEF Cleaned
  <2>2. n \in Names(v) /\ Field(f, n) = Message(Field(v, n)) /\ Message(Field(v, n)) # Rejected
    BY <2>1, ArraysGive
  <2> QED BY <1>1, <2>2, ItemKinds DEF Made, Cleaned, LookedInto
<1>2. CASE kind = "tools"
  <2>1. f = sanitizeTools(v)
    BY <1>2 DEF Cleaned
  <2>2. n \in Names(v) /\ Field(f, n) = Tool(Field(v, n)) /\ Tool(Field(v, n)) # Rejected
    BY <2>1, ArraysGive
  <2> QED BY <1>2, <2>2, ItemKinds DEF Made, Cleaned, LookedInto
<1>3. CASE kind = "tool_calls"
  <2>1. f = ToolCalls(v)
    BY <1>3 DEF Cleaned
  <2>2. n \in Names(v) /\ Field(f, n) = ToolCall(Field(v, n)) /\ ToolCall(Field(v, n)) # Rejected
    BY <2>1, ArraysGive
  <2> QED BY <1>3, <2>2, ItemKinds DEF Made, Cleaned, LookedInto
<1> QED BY <1>1, <1>2, <1>3

LEMMA ObjectChild ==
  ASSUME NEW kind \in {"message", "tool", "tool_call", "response_format"}, NEW v, NEW f,
         Cleaned(kind, v, f), f # Rejected, NEW n
  PROVE  Made(ChildKind(kind, n), Field(v, n), Field(f, n)) /\ Names(f) \subseteq Names(v)
<1>1. CASE kind = "tool_call"
  <2>1. f = ToolCall(v)
    BY <1>1 DEF Cleaned
  <2>2. /\ Names(f) \subseteq Names(v)
        /\ Field(v, "function") # Undefined => FunctionCall(Field(v, "function")) # Rejected
        /\ Field(f, n) =
             IF n = "function" /\ Field(v, n) # Undefined THEN FunctionCall(Field(v, n))
             ELSE IF n \in TOOL_CALL_FIELDS THEN Field(v, n) ELSE Undefined
    BY <2>1, ToolCallGives
  <2>3. "function" \in TOOL_CALL_FIELDS
    BY DEF TOOL_CALL_FIELDS
  <2> QED BY <1>1, <2>2, <2>3, ParentKinds DEF Made, Cleaned, LookedInto
<1>2. CASE kind = "tool"
  <2>1. f = Tool(v)
    BY <1>2 DEF Cleaned
  <2>2. /\ Names(f) \subseteq Names(v)
        /\ Field(v, "function") # Undefined => ToolFunction(Field(v, "function")) # Rejected
        /\ Field(f, n) =
             IF n = "function" /\ Field(v, n) # Undefined THEN ToolFunction(Field(v, n))
             ELSE IF n \in TOOL_FIELDS THEN Field(v, n) ELSE Undefined
    BY <2>1, ToolGives
  <2>3. "function" \in TOOL_FIELDS
    BY DEF TOOL_FIELDS
  <2> QED BY <1>2, <2>2, <2>3, ParentKinds DEF Made, Cleaned, LookedInto
<1>3. CASE kind = "response_format"
  <2>1. f = ResponseFormat(v)
    BY <1>3 DEF Cleaned
  <2>2. /\ Names(f) \subseteq Names(v)
        /\ Field(v, "json_schema") # Undefined => JsonSchema(Field(v, "json_schema")) # Rejected
        /\ Field(f, n) =
             IF n = "json_schema" /\ Field(v, n) # Undefined THEN JsonSchema(Field(v, n))
             ELSE IF n \in RESPONSE_FORMAT_FIELDS THEN Field(v, n) ELSE Undefined
    BY <2>1, ResponseFormatGives
  <2>3. "json_schema" \in RESPONSE_FORMAT_FIELDS
    BY DEF RESPONSE_FORMAT_FIELDS
  <2> QED BY <1>3, <2>2, <2>3, ParentKinds DEF Made, Cleaned, LookedInto
<1>4. CASE kind = "message"
  <2>1. f = Message(v)
    BY <1>4 DEF Cleaned
  <2>2. /\ Names(f) \subseteq Names(v)
        /\ Field(v, "tool_calls") # Undefined => ToolCalls(Field(v, "tool_calls")) # Rejected
        /\ Field(v, "function_call") # Undefined =>
             FunctionCall(Field(v, "function_call")) # Rejected
        /\ Field(f, n) =
             IF n = "tool_calls" /\ Field(v, n) # Undefined THEN ToolCalls(Field(v, n))
             ELSE IF n = "function_call" /\ Field(v, n) # Undefined
               THEN FunctionCall(Field(v, n))
             ELSE IF n \in MESSAGE_FIELDS THEN Field(v, n) ELSE Undefined
    BY <2>1, MessageGives
  <2>3. {"tool_calls", "function_call"} \subseteq MESSAGE_FIELDS
    BY DEF MESSAGE_FIELDS
  <2> QED BY <1>4, <2>2, <2>3, ParentKinds DEF Made, Cleaned, LookedInto
<1> QED BY <1>1, <1>2, <1>3, <1>4

LEMMA RequestChild ==
  ASSUME NEW v, HasRequired(v), NEW f, f = sanitizeChatRequest(v), f # Rejected, NEW n
  PROVE  Made(ChildKind("request", n), Field(v, n), Field(f, n)) /\ Names(f) \subseteq Names(v)
<1>1. /\ Names(f) \subseteq Names(v)
      /\ Field(v, "messages") # Undefined => sanitizeMessages(Field(v, "messages")) # Rejected
      /\ Field(v, "tools") # Undefined => sanitizeTools(Field(v, "tools")) # Rejected
      /\ Field(v, "response_format") # Undefined =>
           ResponseFormat(Field(v, "response_format")) # Rejected
      /\ Field(v, "stream_options") # Undefined =>
           StreamOptions(Field(v, "stream_options")) # Rejected
      /\ Field(f, n) =
           IF n = "messages" /\ Field(v, n) # Undefined THEN sanitizeMessages(Field(v, n))
           ELSE IF n = "tools" /\ Field(v, n) # Undefined THEN sanitizeTools(Field(v, n))
           ELSE IF n = "response_format" /\ Field(v, n) # Undefined
             THEN ResponseFormat(Field(v, n))
           ELSE IF n = "stream_options" /\ Field(v, n) # Undefined
             THEN StreamOptions(Field(v, n))
           ELSE IF n \in ALLOWED_FIELDS THEN Field(v, n) ELSE Undefined
  BY RequestGives
<1>2. {"messages", "tools", "response_format", "stream_options"} \subseteq ALLOWED_FIELDS
  BY DEF ALLOWED_FIELDS
<1>3. ChildKind("request", n) =
        IF n \notin ALLOWED_FIELDS THEN "dropped"
        ELSE IF n = "messages" THEN "messages"
        ELSE IF n = "tools" THEN "tools"
        ELSE IF n = "response_format" THEN "response_format"
        ELSE IF n = "stream_options" THEN "stream_options" ELSE "open"
  BY ParentKinds
<1>4. CASE n \notin ALLOWED_FIELDS
  BY <1>1, <1>2, <1>3, <1>4 DEF Made
<1>5. CASE n \in ALLOWED_FIELDS /\ n \notin {"messages", "tools", "response_format", "stream_options"}
  BY <1>1, <1>3, <1>5 DEF Made
<1>6. CASE n = "messages"
  BY <1>1, <1>2, <1>3, <1>6 DEF Made, Cleaned, LookedInto
<1>7. CASE n = "tools"
  BY <1>1, <1>2, <1>3, <1>7 DEF Made, Cleaned, LookedInto
<1>8. CASE n = "response_format"
  BY <1>1, <1>2, <1>3, <1>8 DEF Made, Cleaned, LookedInto
<1>9. CASE n = "stream_options"
  BY <1>1, <1>2, <1>3, <1>9 DEF Made, Cleaned, LookedInto
<1> QED BY <1>4, <1>5, <1>6, <1>7, <1>8, <1>9

LEMMA ChildMade ==
  ASSUME NEW kind, NEW v, NEW f, Made(kind, v, f), NEW n \in Names(v) \cup Names(f)
  PROVE  Made(ChildKind(kind, n), Field(v, n), Field(f, n)) /\ n \in Names(v)
<1>1. CASE kind = "dropped" /\ f = Undefined
  BY <1>1, OpenKinds, UndefinedFacts DEF Made
<1>2. CASE kind = "open" /\ f = v
  BY <1>2, OpenKinds DEF Made
<1>3. CASE kind = "request" /\ HasRequired(v) /\ f = sanitizeChatRequest(v) /\ f # Rejected
  BY <1>3, RequestChild
<1>4. CASE v = Undefined /\ f = Undefined
  BY <1>4, UndefinedFacts
<1>5. CASE kind \in LookedInto /\ Cleaned(kind, v, f) /\ f # Rejected
  <2>1. CASE kind \in {"messages", "tools", "tool_calls"}
    BY <1>5, <2>1, ItemChild
  <2>2. CASE kind \in {"message", "tool", "tool_call", "response_format"}
    BY <1>5, <2>2, ObjectChild
  <2>3. CASE kind = "function_call"
    <3>1. f = copyFields(v, FUNCTION_CALL_FIELDS)
      BY <1>5, <2>3 DEF Cleaned, FunctionCall
    <3> QED BY <1>5, <2>3, <3>1, PlainKinds, PlainChild
  <2>4. CASE kind = "tool_function"
    <3>1. f = copyFields(v, FUNCTION_FIELDS)
      BY <1>5, <2>4 DEF Cleaned, ToolFunction
    <3> QED BY <1>5, <2>4, <3>1, PlainKinds, PlainChild
  <2>5. CASE kind = "json_schema"
    <3>1. f = copyFields(v, JSON_SCHEMA_FIELDS)
      BY <1>5, <2>5 DEF Cleaned, JsonSchema
    <3> QED BY <1>5, <2>5, <3>1, PlainKinds, PlainChild
  <2>6. CASE kind = "stream_options"
    <3>1. f = copyFields(v, STREAM_OPTION_FIELDS)
      BY <1>5, <2>6 DEF Cleaned, StreamOptions
    <3> QED BY <1>5, <2>6, <3>1, PlainKinds, PlainChild
  <2> QED BY <1>5, <2>1, <2>2, <2>3, <2>4, <2>5, <2>6 DEF LookedInto
<1> QED BY <1>1, <1>2, <1>3, <1>4, <1>5 DEF Made

\* A place is as it is described if the code made what is forwarded of it.
LEMMA MadeShows ==
  ASSUME NEW place, Made(place.kind, place.value, place.forwarded),
         place.value # Undefined
  PROVE  WellFormed(place) /\ Forwarded(place)
<1> DEFINE k == place.kind
           v == place.value
           f == place.forwarded
<1>1. CASE k \in {"dropped", "open"}
  BY <1>1, ListedKinds DEF Made, LookedInto, WellFormed, Forwarded
<1>2. CASE k = "request"
  <2>1. HasRequired(v) /\ f = sanitizeChatRequest(v) /\ f # Rejected
    BY <1>2 DEF Made, LookedInto
  <2>2. v.type = "object" /\ f.type = "object"
    BY <2>1, RequestGives DEF HasRequired
  <2> QED BY <1>2, <2>2, ListedKinds DEF WellFormed, Forwarded
<1>3. CASE k \in LookedInto
  <2>1. Cleaned(k, v, f) /\ f # Rejected
    BY <1>3 DEF Made, LookedInto
  <2>2. CASE k \in {"messages", "tools", "tool_calls"}
    <3>1. v.type = "array" /\ f.type = "array"
      BY <2>1, <2>2, ArraysGive DEF Cleaned
    <3> QED BY <2>2, <3>1, ListedKinds DEF WellFormed, Forwarded
  <2>3. CASE k = "message"
    <3>1. v.type = "object" /\ f.type = "object" /\ Field(v, "role").type = "string"
      BY <2>1, <2>3, MessageGives DEF Cleaned
    <3> QED BY <2>3, <3>1, ListedKinds DEF WellFormed, Forwarded
  <2>4. CASE k \in {"tool", "tool_call", "response_format"}
    <3>1. v.type = "object" /\ f.type = "object"
      BY <2>1, <2>4, ToolGives, ToolCallGives, ResponseFormatGives DEF Cleaned
    <3> QED BY <2>4, <3>1, ListedKinds DEF WellFormed, Forwarded
  <2>5. CASE k \in {"function_call", "tool_function", "json_schema", "stream_options"}
    <3>1. PICK F : f = copyFields(v, F)
      BY <2>1, <2>5 DEF Cleaned, FunctionCall, ToolFunction, JsonSchema, StreamOptions
    <3>2. v.type = "object" /\ f.type = "object"
      BY <2>1, <3>1, CopyGives
    <3> QED BY <2>5, <3>2, ListedKinds DEF WellFormed, Forwarded
  <2> QED BY <1>3, <2>2, <2>3, <2>4, <2>5 DEF LookedInto
<1> QED BY <1>1, <1>2, <1>3 DEF Made

LEMMA PlaceFacts ==
  /\ Root.kind = "request" /\ Root.value = request
  /\ Root.forwarded = sanitizeChatRequest(request)
  /\ \A place, n :
       /\ Child(place, n).kind = ChildKind(place.kind, n)
       /\ Child(place, n).value = Field(place.value, n)
       /\ Child(place, n).forwarded = Field(place.forwarded, n)
BY DEF Root, Child

\* All places, by induction over their depth.
LEMMA GoodPlaces ==
  ASSUME Parsed, sanitizeChatRequest(request) # Rejected
  PROVE  \A place \in Places :
           Made(place.kind, place.value, place.forwarded) /\ place.value # Undefined
<1> DEFINE Good(place) == /\ Made(place.kind, place.value, place.forwarded)
                          /\ place.value # Undefined
           Failing == {depth \in 0..MaxDepth : ~\A place \in PlacesAt[depth] : Good(place)}
<1>1. HasRequired(request) /\ request # Undefined
  <2>1. HasRequired(request)
    BY DEF sanitizeChatRequest
  <2> QED BY <2>1, UndefinedFacts DEF HasRequired
<1>2. Good(Root)
  BY <1>1, PlaceFacts DEF Made
<1>3. ASSUME NEW depth \in 0..MaxDepth, NEW place \in PlacesAt[depth], Good(place),
             NEW child \in Children(place)
      PROVE  Good(child)
  <2>1. PICK n \in Names(place.value) \cup Names(place.forwarded) : child = Child(place, n)
    BY DEF Children
  <2>2. /\ Made(ChildKind(place.kind, n), Field(place.value, n), Field(place.forwarded, n))
        /\ n \in Names(place.value)
    BY <1>3, ChildMade
  <2>3. place \in Places
    BY DEF Places
  <2>4. Field(place.value, n) # Undefined
    BY <2>2, <2>3 DEF Parsed
  <2> QED BY <2>1, <2>2, <2>4, PlaceFacts
<1> HIDE DEF Good
<1>4. Failing = {}
  <2> SUFFICES ASSUME Failing # {} PROVE FALSE
    OBVIOUS
  <2>1. PICK depth \in Failing : \A d \in Failing : depth <= d
    <3>1. Failing \in SUBSET Nat
      BY DepthAssumption
    <3> HIDE DEF Failing
    <3> QED BY <3>1, LeastNumber
  <2>2. depth \in 0..MaxDepth /\ ~\A place \in PlacesAt[depth] : Good(place)
    OBVIOUS
  <2>3. CASE depth = 0
    BY <1>2, <2>2, <2>3, PlacesFollow
  <2>4. CASE depth # 0
    <3>1. depth \in 1..MaxDepth /\ depth - 1 \in 0..MaxDepth /\ ~(depth <= depth - 1)
      BY <2>2, <2>4, DepthAssumption
    <3>2. depth - 1 \notin Failing
      <4> HIDE DEF Failing
      <4> QED BY <2>1, <3>1
    <3>3. \A place \in PlacesAt[depth - 1] : Good(place)
      BY <3>1, <3>2
    <3>4. PlacesAt[depth] = UNION {Children(place) : place \in PlacesAt[depth - 1]}
      BY <3>1, PlacesFollow
    <3> QED BY <1>3, <2>2, <3>1, <3>3, <3>4
  <2> QED BY <2>3, <2>4
<1>5. \A depth \in 0..MaxDepth : \A place \in PlacesAt[depth] : Good(place)
  BY <1>4
<1> QED BY <1>5 DEF Places, Good
-----------------------------------------------------------------------------
\* For what is refused there is a place to blame.
Malformed == \E place \in Places : ~WellFormed(place)

\* A place with the kind and the value, so many steps or more above the bound.
Above(kind, v, steps) ==
  \E depth \in 0..(MaxDepth - steps) :
    \E place \in PlacesAt[depth] : place.kind = kind /\ place.value = v

LEMMA AboveChild ==
  ASSUME NEW kind, NEW v, NEW steps \in 1..5, Above(kind, v, steps), NEW n \in Names(v)
  PROVE  Above(ChildKind(kind, n), Field(v, n), steps - 1)
<1>0. PICK depth \in 0..(MaxDepth - steps) :
        \E place \in PlacesAt[depth] : place.kind = kind /\ place.value = v
  BY DEF Above
<1>1. PICK place \in PlacesAt[depth] : place.kind = kind /\ place.value = v
  BY <1>0
<1>2. /\ depth + 1 \in 1..MaxDepth /\ depth + 1 \in 0..(MaxDepth - (steps - 1))
      /\ (depth + 1) - 1 = depth
  BY DepthAssumption
<1>3. Child(place, n) \in Children(place)
  BY <1>1 DEF Children
<1>4. PlacesAt[depth + 1] = UNION {Children(p) : p \in PlacesAt[depth]}
  BY <1>2, PlacesFollow
<1>5. Child(place, n) \in PlacesAt[depth + 1]
  BY <1>3, <1>4
<1>6. Child(place, n).kind = ChildKind(kind, n) /\ Child(place, n).value = Field(v, n)
  BY <1>1, PlaceFacts
<1> QED BY <1>2, <1>5, <1>6 DEF Above

LEMMA FieldNamed == \A v, n : Field(v, n) # Undefined => n \in Names(v)
BY DEF Field

\* A value of the wrong type is to blame itself.
LEMMA Blamed ==
  ASSUME NEW kind, NEW v, NEW steps \in 0..5, Above(kind, v, steps),
         \/ kind \in DOMAIN ItemKind /\ v.type # "array"
         \/ kind \in DOMAIN Listed /\ v.type # "object"
         \/ kind = "message" /\ Field(v, "role").type # "string"
  PROVE  Malformed
<1>0. PICK depth \in 0..(MaxDepth - steps) :
        \E place \in PlacesAt[depth] : place.kind = kind /\ place.value = v
  BY DEF Above
<1>1. PICK place \in PlacesAt[depth] : place.kind = kind /\ place.value = v
  BY <1>0
<1>2. place \in Places
  <2>1. depth \in 0..MaxDepth
    BY DepthAssumption
  <2> QED BY <2>1 DEF Places
<1>3. ~WellFormed(place)
  BY <1>1 DEF WellFormed
<1> QED BY <1>2, <1>3 DEF Malformed

LEMMA PlainBlamed ==
  ASSUME NEW v, NEW steps \in 0..5,
         \/ Above("function_call", v, steps) /\ FunctionCall(v) = Rejected
         \/ Above("tool_function", v, steps) /\ ToolFunction(v) = Rejected
         \/ Above("json_schema", v, steps) /\ JsonSchema(v) = Rejected
         \/ Above("stream_options", v, steps) /\ StreamOptions(v) = Rejected
  PROVE  Malformed
<1>1. v.type # "object"
  BY CopyGives DEF FunctionCall, ToolFunction, JsonSchema, StreamOptions
<1> QED BY <1>1, Blamed, ListedKinds

LEMMA ToolCallBlamed ==
  ASSUME NEW v, NEW steps \in 1..5, Above("tool_call", v, steps), ToolCall(v) = Rejected
  PROVE  Malformed
<1>1. CASE v.type # "object"
  BY <1>1, Blamed, ListedKinds
<1>2. CASE Field(v, "function") # Undefined /\ FunctionCall(Field(v, "function")) = Rejected
  <2>1. ChildKind("tool_call", "function") = "function_call"
    <3>1. "function" \in TOOL_CALL_FIELDS
      BY DEF TOOL_CALL_FIELDS
    <3> QED BY <3>1, ParentKinds
  <2>2. Above("function_call", Field(v, "function"), steps - 1)
    BY <1>2, <2>1, AboveChild, FieldNamed
  <2>3. steps - 1 \in 0..5
    OBVIOUS
  <2> QED BY <1>2, <2>2, <2>3, PlainBlamed
<1> QED BY <1>1, <1>2, ToolCallGives

LEMMA ToolBlamed ==
  ASSUME NEW v, NEW steps \in 1..5, Above("tool", v, steps), Tool(v) = Rejected
  PROVE  Malformed
<1>1. CASE v.type # "object"
  BY <1>1, Blamed, ListedKinds
<1>2. CASE Field(v, "function") # Undefined /\ ToolFunction(Field(v, "function")) = Rejected
  <2>1. ChildKind("tool", "function") = "tool_function"
    <3>1. "function" \in TOOL_FIELDS
      BY DEF TOOL_FIELDS
    <3> QED BY <3>1, ParentKinds
  <2>2. Above("tool_function", Field(v, "function"), steps - 1)
    BY <1>2, <2>1, AboveChild, FieldNamed
  <2>3. steps - 1 \in 0..5
    OBVIOUS
  <2> QED BY <1>2, <2>2, <2>3, PlainBlamed
<1> QED BY <1>1, <1>2, ToolGives

LEMMA ResponseFormatBlamed ==
  ASSUME NEW v, NEW steps \in 1..5, Above("response_format", v, steps),
         ResponseFormat(v) = Rejected
  PROVE  Malformed
<1>1. CASE v.type # "object"
  BY <1>1, Blamed, ListedKinds
<1>2. CASE Field(v, "json_schema") # Undefined /\ JsonSchema(Field(v, "json_schema")) = Rejected
  <2>1. ChildKind("response_format", "json_schema") = "json_schema"
    <3>1. "json_schema" \in RESPONSE_FORMAT_FIELDS
      BY DEF RESPONSE_FORMAT_FIELDS
    <3> QED BY <3>1, ParentKinds
  <2>2. Above("json_schema", Field(v, "json_schema"), steps - 1)
    BY <1>2, <2>1, AboveChild, FieldNamed
  <2>3. steps - 1 \in 0..5
    OBVIOUS
  <2> QED BY <1>2, <2>2, <2>3, PlainBlamed
<1> QED BY <1>1, <1>2, ResponseFormatGives

LEMMA ToolCallsBlamed ==
  ASSUME NEW v, NEW steps \in 2..5, Above("tool_calls", v, steps), ToolCalls(v) = Rejected
  PROVE  Malformed
<1>1. CASE v.type # "array"
  BY <1>1, Blamed, ListedKinds
<1>2. ASSUME NEW i \in Names(v), ToolCall(Field(v, i)) = Rejected
      PROVE  Malformed
  <2>1. Above("tool_call", Field(v, i), steps - 1)
    BY AboveChild, ItemKinds
  <2>2. steps - 1 \in 1..5
    OBVIOUS
  <2> QED BY <1>2, <2>1, <2>2, ToolCallBlamed
<1> QED BY <1>1, <1>2, ArraysGive

LEMMA ToolsBlamed ==
  ASSUME NEW v, NEW steps \in 2..5, Above("tools", v, steps), sanitizeTools(v) = Rejected
  PROVE  Malformed
<1>1. CASE v.type # "array"
  BY <1>1, Blamed, ListedKinds
<1>2. ASSUME NEW i \in Names(v), Tool(Field(v, i)) = Rejected
      PROVE  Malformed
  <2>1. Above("tool", Field(v, i), steps - 1)
    BY AboveChild, ItemKinds
  <2>2. steps - 1 \in 1..5
    OBVIOUS
  <2> QED BY <1>2, <2>1, <2>2, ToolBlamed
<1> QED BY <1>1, <1>2, ArraysGive

LEMMA MessageBlamed ==
  ASSUME NEW v, NEW steps \in 3..5, Above("message", v, steps), Message(v) = Rejected
  PROVE  Malformed
<1>1. {"tool_calls", "function_call"} \subseteq MESSAGE_FIELDS /\ steps - 1 \in 2..5
  BY DEF MESSAGE_FIELDS
<1>2. CASE v.type # "object" \/ Field(v, "role").type # "string"
  BY <1>2, Blamed, ListedKinds
<1>3. CASE Field(v, "tool_calls") # Undefined /\ ToolCalls(Field(v, "tool_calls")) = Rejected
  <2>1. ChildKind("message", "tool_calls") = "tool_calls"
    BY <1>1, ParentKinds
  <2>2. Above("tool_calls", Field(v, "tool_calls"), steps - 1)
    BY <1>3, <2>1, AboveChild, FieldNamed
  <2> QED BY <1>1, <1>3, <2>2, ToolCallsBlamed
<1>4. CASE /\ Field(v, "function_call") # Undefined
           /\ FunctionCall(Field(v, "function_call")) = Rejected
  <2>1. ChildKind("message", "function_call") = "function_call"
    BY <1>1, ParentKinds
  <2>2. Above("function_call", Field(v, "function_call"), steps - 1)
    BY <1>4, <2>1, AboveChild, FieldNamed
  <2>3. steps - 1 \in 0..5
    OBVIOUS
  <2> QED BY <1>4, <2>2, <2>3, PlainBlamed
<1> QED BY <1>2, <1>3, <1>4, MessageGives

LEMMA MessagesBlamed ==
  ASSUME NEW v, Above("messages", v, 4), sanitizeMessages(v) = Rejected
  PROVE  Malformed
<1>1. CASE v.type # "array"
  BY <1>1, Blamed, ListedKinds
<1>2. ASSUME NEW i \in Names(v), Message(Field(v, i)) = Rejected
      PROVE  Malformed
  <2>1. Above("message", Field(v, i), 3)
    BY AboveChild, ItemKinds
  <2> QED BY <1>2, <2>1, MessageBlamed
<1> QED BY <1>1, <1>2, ArraysGive

LEMMA RequestBlamed ==
  ASSUME HasRequired(request), sanitizeChatRequest(request) = Rejected
  PROVE  Malformed
<1>1. /\ {"messages", "tools", "response_format", "stream_options"} \subseteq ALLOWED_FIELDS
  BY DEF ALLOWED_FIELDS
<1>2. Above("request", request, 5)
  <2>1. 0 \in 0..(MaxDepth - 5) /\ Root \in PlacesAt[0]
    BY DepthAssumption, PlacesFollow
  <2> QED BY <2>1, PlaceFacts DEF Above
<1>3. ASSUME NEW n, Field(request, n) # Undefined, n \in ALLOWED_FIELDS
      PROVE  Above(ChildKind("request", n), Field(request, n), 4)
  BY <1>2, <1>3, AboveChild, FieldNamed
<1>4. CASE /\ Field(request, "messages") # Undefined
           /\ sanitizeMessages(Field(request, "messages")) = Rejected
  <2>1. ChildKind("request", "messages") = "messages"
    BY <1>1, ParentKinds
  <2> QED BY <1>1, <1>3, <1>4, <2>1, MessagesBlamed
<1>5. CASE /\ Field(request, "tools") # Undefined
           /\ sanitizeTools(Field(request, "tools")) = Rejected
  <2>1. ChildKind("request", "tools") = "tools"
    BY <1>1, ParentKinds
  <2> QED BY <1>1, <1>3, <1>5, <2>1, ToolsBlamed
<1>6. CASE /\ Field(request, "response_format") # Undefined
           /\ ResponseFormat(Field(request, "response_format")) = Rejected
  <2>1. ChildKind("request", "response_format") = "response_format"
    BY <1>1, ParentKinds
  <2> QED BY <1>1, <1>3, <1>6, <2>1, ResponseFormatBlamed
<1>7. CASE /\ Field(request, "stream_options") # Undefined
           /\ StreamOptions(Field(request, "stream_options")) = Rejected
  <2>1. ChildKind("request", "stream_options") = "stream_options"
    BY <1>1, ParentKinds
  <2> QED BY <1>1, <1>3, <1>7, <2>1, PlainBlamed
<1> QED BY <1>4, <1>5, <1>6, <1>7, RequestGives

(***************************************************************************)
(* For every JSON value, of any breadth, looked at as deep as one likes:     *)
(* sanitizeChatRequest forwards the listed fields of every object and        *)
(* nothing else, what is open as it is, and it refuses exactly the requests  *)
(* that lack what is required or are malformed at some place.               *)
(***************************************************************************)
THEOREM RequestSanitized == Parsed => SanitizedAsListed
<1> SUFFICES ASSUME Parsed PROVE SanitizedAsListed
  OBVIOUS
<1>1. ASSUME sanitizeChatRequest(request) # Rejected
      PROVE  /\ HasRequired(request)
             /\ \A place \in Places : WellFormed(place) /\ Forwarded(place)
  <2>1. HasRequired(request)
    BY <1>1 DEF sanitizeChatRequest
  <2> QED BY <1>1, <2>1, GoodPlaces, MadeShows
<1>2. ASSUME sanitizeChatRequest(request) = Rejected, HasRequired(request)
      PROVE  \E place \in Places : ~WellFormed(place)
  BY <1>2, RequestBlamed DEF Malformed
<1> QED BY <1>1, <1>2 DEF SanitizedAsListed
=============================================================================
