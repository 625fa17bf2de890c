---------------------------- MODULE GatewayProofs ----------------------------
(***************************************************************************)
(* Theorems about Gateway, for all attempts, tenants, envelopes, windows and *)
(* deadlines.                                                              *)
(***************************************************************************)
EXTENDS Gateway, TLAPS

\* All that the first theorem is about; most actions leave it alone.
passedVars ==
  <<time, tenantOf, relayEpoch, exitEpoch, relayAccepted, exitAccepted,
    forwardedAt, calledAt, forwardedIn, calledIn>>

RelayKey(a) == <<tenantOf[a], EnvelopeOf[a]>>
ExitKey(a) == <<"exit", EnvelopeOf[a]>>

PassedTyped ==
  /\ time \in Nat /\ relayEpoch \in Nat /\ exitEpoch \in Nat
  /\ tenantOf \in [Attempts -> Tenants]
  /\ relayAccepted \in [Tenants \X Envelopes -> Int]
  /\ exitAccepted \in [{"exit"} \X Envelopes -> Int]
  /\ forwardedAt \in [Attempts -> Int] /\ forwardedIn \in [Attempts -> Int]
  /\ calledAt \in [Attempts -> Int] /\ calledIn \in [Attempts -> Int]

\* What a server passed on since its last restart, its store still has.
ForwardedKept(a) ==
  forwardedAt[a] # Never =>
    /\ 0 <= forwardedAt[a] /\ forwardedAt[a] <= time
    /\ forwardedIn[a] <= relayEpoch
    /\ forwardedIn[a] = relayEpoch => forwardedAt[a] <= relayAccepted[RelayKey(a)]

CalledKept(a) ==
  calledAt[a] # Never =>
    /\ 0 <= calledAt[a] /\ calledAt[a] <= time
    /\ calledIn[a] <= exitEpoch
    /\ calledIn[a] = exitEpoch => calledAt[a] <= exitAccepted[ExitKey(a)]
    /\ forwardedAt[a] # Never

ForwardedApart(a, b) ==
  /\ a # b /\ RelayKey(a) = RelayKey(b)
  /\ forwardedAt[a] # Never /\ forwardedAt[b] # Never
  => \/ forwardedIn[a] # forwardedIn[b]
     \/ Apart(forwardedAt[a], forwardedAt[b], requestTtlMs)

CalledApart(a, b) ==
  /\ a # b /\ ExitKey(a) = ExitKey(b)
  /\ calledAt[a] # Never /\ calledAt[b] # Never
  => \/ calledIn[a] # calledIn[b]
     \/ Apart(calledAt[a], calledAt[b], replayTtlMs)

PassedApart ==
  /\ PassedTyped
  /\ \A a \in Attempts : ForwardedKept(a) /\ CalledKept(a)
  /\ \A a, b \in Attempts : ForwardedApart(a, b) /\ CalledApart(a, b)
-----------------------------------------------------------------------------
LEMMA KeysOfAttempts ==
  ASSUME PassedTyped, NEW a \in Attempts
  PROVE  RelayKey(a) \in Tenants \X Envelopes /\ ExitKey(a) \in {"exit"} \X Envelopes
BY AttemptsAssumption DEF PassedTyped, RelayKey, ExitKey

\* A store has room in its window for the key, and accepts it now.
RelayAccepts(a) ==
  /\ \/ relayAccepted[RelayKey(a)] = Never
     \/ time >= relayAccepted[RelayKey(a)] + requestTtlMs
  /\ relayAccepted' = [relayAccepted EXCEPT ![RelayKey(a)] = time]

ExitAccepts(a) ==
  /\ \/ exitAccepted[ExitKey(a)] = Never
     \/ time >= exitAccepted[ExitKey(a)] + replayTtlMs
  /\ exitAccepted' = [exitAccepted EXCEPT ![ExitKey(a)] = time]

\* The Relay forwards only what its tracker accepts.
LEMMA RelayPassesAccepted ==
  ASSUME PassedApart, NEW a \in Attempts, RelayClaims(a)
  PROVE  /\ UNCHANGED <<time, tenantOf, relayEpoch, exitEpoch, exitAccepted,
                        calledAt, calledIn>>
         /\ \/ UNCHANGED <<relayAccepted, forwardedAt, forwardedIn>>
            \/ /\ RelayAccepts(a)
               /\ forwardedAt' = [forwardedAt EXCEPT ![a] = time]
               /\ forwardedIn' = [forwardedIn EXCEPT ![a] = relayEpoch]
<1>1. PICK t \in Tracker!Times :
        /\ relayNow' = t
        /\ \/ Tracker!Duplicate(RelayKey(a), t)
           \/ Tracker!RefuseForCapacity(RelayKey(a), t)
           \/ Tracker!Accept(RelayKey(a), t)
  BY DEF RelayClaims, Tracker!Claim, RelayKey
<1>2. t = time
  BY <1>1 DEF RelayClaims
<1>3. CASE relayAnswer'.result = "claimed"
  <2>1. Tracker!Accept(RelayKey(a), t)
    BY <1>1, <1>3 DEF Tracker!Duplicate, Tracker!RefuseForCapacity
  <2> QED
    BY <2>1, <1>2, <1>3, KeysOfAttempts, NumbersAssumption
    DEF PassedApart, PassedTyped, RelayClaims, RelayAccepts, Tracker!Accept,
        Tracker!InWindow, Tracker!Never, Never, epochVars, attemptVars, cacheVars
<1>4. CASE relayAnswer'.result # "claimed"
  <2>1. ~Tracker!Accept(RelayKey(a), t)
    BY <1>4 DEF Tracker!Accept
  <2> QED
    BY <2>1, <1>1, <1>4
    DEF RelayClaims, Tracker!Duplicate, Tracker!RefuseForCapacity, epochVars,
        attemptVars, cacheVars
<1> QED BY <1>3, <1>4

\* The Exit calls the provider only for what its cache accepts.
LEMMA ExitPassesAccepted ==
  ASSUME PassedApart, NEW a \in Attempts, ExitClaims(a)
  PROVE  /\ UNCHANGED <<time, tenantOf, relayEpoch, exitEpoch, relayAccepted,
                        forwardedAt, forwardedIn>>
         /\ forwardedAt[a] # Never
         /\ \/ UNCHANGED <<exitAccepted, calledAt, calledIn>>
            \/ ExitAccepts(a) /\ UNCHANGED <<calledAt, calledIn>>
            \/ /\ ExitAccepts(a)
               /\ calledAt' = [calledAt EXCEPT ![a] = time]
               /\ calledIn' = [calledIn EXCEPT ![a] = exitEpoch]
<1>1. PICK t \in Cache!Times :
        /\ exitNow' = t
        /\ \/ Cache!Duplicate(ExitKey(a), t)
           \/ Cache!RefuseForCapacity(ExitKey(a), t)
           \/ Cache!Accept(ExitKey(a), t)
  BY DEF ExitClaims, Cache!Claim, ExitKey
<1>2. t = time
  BY <1>1 DEF ExitClaims
<1>3. Cache!Accept(ExitKey(a), t) => ExitAccepts(a)
  BY <1>2, KeysOfAttempts, NumbersAssumption
  DEF PassedApart, PassedTyped, ExitAccepts, Cache!Accept, Cache!InWindow,
      Cache!Never, Never
<1>4. ExitAccepts(a) \/ exitAccepted' = exitAccepted
  BY <1>1, <1>3 DEF Cache!Duplicate, Cache!RefuseForCapacity
<1>5. exitAnswer'.result = "claimed" => ExitAccepts(a)
  BY <1>1, <1>3 DEF Cache!Duplicate, Cache!RefuseForCapacity
<1>6. /\ UNCHANGED <<time, tenantOf, relayEpoch, exitEpoch, relayAccepted,
                     forwardedAt, forwardedIn>>
      /\ forwardedAt[a] # Never
      /\ \/ UNCHANGED <<calledAt, calledIn>>
         \/ /\ exitAnswer'.result = "claimed"
            /\ calledAt' = [calledAt EXCEPT ![a] = time]
            /\ calledIn' = [calledIn EXCEPT ![a] = exitEpoch]
  BY DEF ExitClaims, CallProvider, RefuseCall, attemptVars, epochVars, trackerVars
<1> QED BY <1>4, <1>5, <1>6
-----------------------------------------------------------------------------
(* The first invariant is kept: by the two claims, by a restart, which       *)
(* begins a new epoch, and by time, which does not run backwards.           *)

LEMMA PassedInitially == Init => PassedApart
<1> SUFFICES ASSUME Init PROVE PassedApart
  OBVIOUS
<1>1. PassedTyped
  BY DEF Init, PassedTyped, Tracker!Init, Cache!Init, Tracker!Key, Cache!Key,
         Tracker!Never, Cache!Never, Never
<1>2. \A a \in Attempts : forwardedAt[a] = Never /\ calledAt[a] = Never
  BY DEF Init
<1> QED
  BY <1>1, <1>2
  DEF PassedApart, ForwardedKept, CalledKept, ForwardedApart, CalledApart

LEMMA RelayClaimKeeps ==
  ASSUME PassedApart, NEW c \in Attempts, RelayClaims(c)
  PROVE  PassedApart'
<1>1. CASE UNCHANGED <<relayAccepted, forwardedAt, forwardedIn>>
  BY <1>1, RelayPassesAccepted, ZenonT(40)
  DEF PassedApart, PassedTyped, ForwardedKept, CalledKept, ForwardedApart,
      CalledApart, RelayKey, ExitKey
<1>2. CASE /\ RelayAccepts(c)
           /\ forwardedAt' = [forwardedAt EXCEPT ![c] = time]
           /\ forwardedIn' = [forwardedIn EXCEPT ![c] = relayEpoch]
  <2>1. UNCHANGED <<time, tenantOf, relayEpoch, exitEpoch, exitAccepted,
                    calledAt, calledIn>>
    BY RelayPassesAccepted
  <2>2. PassedTyped'
    BY <1>2, <2>1, KeysOfAttempts DEF PassedApart, PassedTyped, RelayAccepts
  <2>3. \A a \in Attempts : RelayKey(a)' = RelayKey(a) /\ ExitKey(a)' = ExitKey(a)
    BY <2>1 DEF RelayKey, ExitKey
  <2>4. ASSUME NEW a \in Attempts PROVE ForwardedKept(a)' /\ CalledKept(a)'
    BY <1>2, <2>1, <2>3, KeysOfAttempts
    DEF PassedApart, PassedTyped, ForwardedKept, CalledKept, RelayAccepts, Never
  <2>5. ASSUME NEW a \in Attempts, NEW b \in Attempts
        PROVE  ForwardedApart(a, b)' /\ CalledApart(a, b)'
    <3>1. CalledApart(a, b)'
      BY <2>1, <2>3 DEF PassedApart, CalledApart
    <3>2. ASSUME NEW d \in Attempts, d # c, RelayKey(d) = RelayKey(c),
                 forwardedAt[d] # Never, forwardedIn[d] = relayEpoch
          PROVE  time >= forwardedAt[d] + requestTtlMs
      BY <1>2, <3>2, KeysOfAttempts, NumbersAssumption
      DEF PassedApart, PassedTyped, ForwardedKept, RelayAccepts, Never
    <3>3. ForwardedApart(a, b)'
      BY <1>2, <2>1, <2>3, <3>2
      DEF PassedApart, PassedTyped, ForwardedApart, Apart
    <3> QED BY <3>1, <3>3
  <2> QED BY <2>2, <2>4, <2>5 DEF PassedApart
<1> QED BY <1>1, <1>2, RelayPassesAccepted

LEMMA ExitClaimKeeps ==
  ASSUME PassedApart, NEW c \in Attempts, ExitClaims(c)
  PROVE  PassedApart'
<1>1. CASE UNCHANGED <<exitAccepted, calledAt, calledIn>>
  BY <1>1, ExitPassesAccepted, ZenonT(40)
  DEF PassedApart, PassedTyped, ForwardedKept, CalledKept, ForwardedApart,
      CalledApart, RelayKey, ExitKey
<1>2. CASE /\ ExitAccepts(c)
           /\ \/ UNCHANGED <<calledAt, calledIn>>
              \/ /\ calledAt' = [calledAt EXCEPT ![c] = time]
                 /\ calledIn' = [calledIn EXCEPT ![c] = exitEpoch]
  <2>1. /\ UNCHANGED <<time, tenantOf, relayEpoch, exitEpoch, relayAccepted,
                       forwardedAt, forwardedIn>>
        /\ forwardedAt[c] # Never
    BY ExitPassesAccepted
  <2>2. PassedTyped'
    BY <1>2, <2>1, KeysOfAttempts DEF PassedApart, PassedTyped, ExitAccepts
  <2>3. \A a \in Attempts : RelayKey(a)' = RelayKey(a) /\ ExitKey(a)' = ExitKey(a)
    BY <2>1 DEF RelayKey, ExitKey
  <2>4. ASSUME NEW a \in Attempts PROVE ForwardedKept(a)' /\ CalledKept(a)'
    BY <1>2, <2>1, <2>3, KeysOfAttempts
    DEF PassedApart, PassedTyped, ForwardedKept, CalledKept, ExitAccepts, Never
  <2>5. ASSUME NEW a \in Attempts, NEW b \in Attempts
        PROVE  ForwardedApart(a, b)' /\ CalledApart(a, b)'
    <3>1. ForwardedApart(a, b)'
      BY <2>1, <2>3 DEF PassedApart, ForwardedApart
    <3>2. ASSUME NEW d \in Attempts, d # c, ExitKey(d) = ExitKey(c),
                 calledAt[d] # Never, calledIn[d] = exitEpoch
          PROVE  time >= calledAt[d] + replayTtlMs
      BY <1>2, <3>2, KeysOfAttempts, NumbersAssumption
      DEF PassedApart, PassedTyped, CalledKept, ExitAccepts, Never
    <3>3. CalledApart(a, b)'
      BY <1>2, <2>1, <2>3, <3>2
      DEF PassedApart, PassedTyped, CalledApart, Apart
    <3> QED BY <3>1, <3>3
  <2> QED BY <2>2, <2>4, <2>5 DEF PassedApart
<1> QED BY <1>1, <1>2, ExitPassesAccepted

LEMMA RestartsKeep ==
  ASSUME PassedApart, RestartRelay \/ RestartExit
  PROVE  PassedApart'
<1>1. CASE RestartRelay
  <2>1. /\ UNCHANGED <<time, tenantOf, forwardedAt, calledAt, forwardedIn, calledIn,
                       exitEpoch, exitAccepted>>
        /\ relayEpoch' = relayEpoch + 1
        /\ relayAccepted' = [key \in Tenants \X Envelopes |-> Never]
    BY <1>1 DEF RestartRelay, armedVars, cacheVars, historyVars
  <2>2. PassedTyped'
    BY <2>1 DEF PassedApart, PassedTyped, Never
  <2>3. \A a \in Attempts : RelayKey(a)' = RelayKey(a) /\ ExitKey(a)' = ExitKey(a)
    BY <2>1 DEF RelayKey, ExitKey
  <2>4. ASSUME NEW a \in Attempts PROVE ForwardedKept(a)' /\ CalledKept(a)'
    BY <2>1, <2>3 DEF PassedApart, PassedTyped, ForwardedKept, CalledKept
  <2>5. ASSUME NEW a \in Attempts, NEW b \in Attempts
        PROVE  ForwardedApart(a, b)' /\ CalledApart(a, b)'
    BY <2>1, <2>3 DEF PassedApart, ForwardedApart, CalledApart
  <2> QED BY <2>2, <2>4, <2>5 DEF PassedApart
<1>2. CASE RestartExit
  <2>1. /\ UNCHANGED <<time, tenantOf, forwardedAt, calledAt, forwardedIn, calledIn,
                       relayEpoch, relayAccepted>>
        /\ exitEpoch' = exitEpoch + 1
        /\ exitAccepted' = [key \in {"exit"} \X Envelopes |-> Never]
    BY <1>2 DEF RestartExit, armedVars, trackerVars, historyVars
  <2>2. PassedTyped'
    BY <2>1 DEF PassedApart, PassedTyped, Never
  <2>3. \A a \in Attempts : RelayKey(a)' = RelayKey(a) /\ ExitKey(a)' = ExitKey(a)
    BY <2>1 DEF RelayKey, ExitKey
  <2>4. ASSUME NEW a \in Attempts PROVE ForwardedKept(a)' /\ CalledKept(a)'
    BY <2>1, <2>3 DEF PassedApart, PassedTyped, ForwardedKept, CalledKept
  <2>5. ASSUME NEW a \in Attempts, NEW b \in Attempts
        PROVE  ForwardedApart(a, b)' /\ CalledApart(a, b)'
    BY <2>1, <2>3 DEF PassedApart, ForwardedApart, CalledApart
  <2> QED BY <2>2, <2>4, <2>5 DEF PassedApart
<1> QED BY <1>1, <1>2

LEMMA OtherStepsKeep ==
  ASSUME PassedApart, Tick \/ UNCHANGED passedVars
  PROVE  PassedApart'
<1>1. /\ UNCHANGED <<tenantOf, relayEpoch, exitEpoch, relayAccepted, exitAccepted,
                     forwardedAt, calledAt, forwardedIn, calledIn>>
      /\ time' = time \/ time' = time + 1
  BY DEF Tick, passedVars, armedVars, storeVars, epochVars, trackerVars, cacheVars,
         historyVars
<1>2. PassedTyped' /\ time <= time'
  BY <1>1 DEF PassedApart, PassedTyped
<1>3. \A a \in Attempts : RelayKey(a)' = RelayKey(a) /\ ExitKey(a)' = ExitKey(a)
  BY <1>1 DEF RelayKey, ExitKey
<1>4. ASSUME NEW a \in Attempts PROVE ForwardedKept(a)' /\ CalledKept(a)'
  BY <1>1, <1>2, <1>3 DEF PassedApart, PassedTyped, ForwardedKept, CalledKept
<1>5. ASSUME NEW a \in Attempts, NEW b \in Attempts
      PROVE  ForwardedApart(a, b)' /\ CalledApart(a, b)'
  BY <1>1, <1>3 DEF PassedApart, ForwardedApart, CalledApart
<1> QED BY <1>2, <1>4, <1>5 DEF PassedApart

LEMMA OtherSteps ==
  ASSUME NEW a \in Attempts, Step(a), ~RelayClaims(a), ~ExitClaims(a)
  PROVE  UNCHANGED passedVars
BY DEF Step, Send, ProviderEnds, RelayEnds, SenderEnds, RelayTimesOut,
       SenderTimesOut, SenderLeaves, CancelReachesRelay, CancelReachesExit,
       SenderIsDone, passedVars, armedVars, attemptVars, storeVars, epochVars,
       trackerVars, cacheVars, historyVars

LEMMA PassedAlways == Spec => []PassedApart
<1>1. PassedApart /\ [Next]_vars => PassedApart'
  <2> SUFFICES ASSUME PassedApart, [Next]_vars
               PROVE  PassedApart'
    OBVIOUS
  <2>1. CASE RestartRelay \/ RestartExit
    BY <2>1, RestartsKeep
  <2>2. CASE Tick
    BY <2>2, OtherStepsKeep
  <2>3. CASE \E a \in Attempts : Step(a)
    <3> PICK a \in Attempts : Step(a)
      BY <2>3
    <3>1. CASE RelayClaims(a)
      BY <3>1, RelayClaimKeeps
    <3>2. CASE ExitClaims(a)
      BY <3>2, ExitClaimKeeps
    <3>3. CASE ~RelayClaims(a) /\ ~ExitClaims(a)
      BY <3>3, OtherSteps, OtherStepsKeep
    <3> QED BY <3>1, <3>2, <3>3
  <2>4. CASE UNCHANGED vars
    <3>1. UNCHANGED passedVars
      BY <2>4 DEF vars, passedVars, armedVars, attemptVars, storeVars, epochVars,
                  trackerVars, cacheVars, historyVars
    <3> QED BY <3>1, OtherStepsKeep
  <2> QED BY <2>1, <2>2, <2>3, <2>4 DEF Next
<1> QED BY <1>1, PassedInitially, PTL DEF Spec

(***************************************************************************)
(* The provider is called again for an envelope only if the Exit's window is *)
(* over or it was restarted, and for the same tenant only if the same holds  *)
(* of the Relay, however many restarts there are of either.                 *)
(***************************************************************************)
THEOREM OncePerWindowAndEpoch == Spec => []CalledAgainOnlyWhenForgotten
<1>1. PassedApart => CalledAgainOnlyWhenForgotten
  <2> SUFFICES ASSUME PassedApart, NEW a \in Attempts, NEW b \in Attempts,
                      a # b, EnvelopeOf[a] = EnvelopeOf[b],
                      calledAt[a] # Never, calledAt[b] # Never
               PROVE  /\ \/ calledIn[a] # calledIn[b]
                         \/ Apart(calledAt[a], calledAt[b], replayTtlMs)
                      /\ tenantOf[a] = tenantOf[b] =>
                           \/ forwardedIn[a] # forwardedIn[b]
                           \/ Apart(forwardedAt[a], forwardedAt[b], requestTtlMs)
    BY DEF CalledAgainOnlyWhenForgotten
  <2>1. forwardedAt[a] # Never /\ forwardedAt[b] # Never
    BY DEF PassedApart, CalledKept
  <2>2. CalledApart(a, b) /\ ForwardedApart(a, b)
    BY DEF PassedApart
  <2> QED BY <2>1, <2>2 DEF CalledApart, ForwardedApart, RelayKey, ExitKey
<1> QED BY <1>1, PassedAlways, PTL
-----------------------------------------------------------------------------
(* The second theorem: as long as nothing disturbs a request, the time since *)
(* it was sent is its delay, and what the provider has had of its own       *)
(* deadline.                                                               *)

PlacesTyped ==
  /\ time \in Nat
  /\ sender \in [Attempts -> {"idle", "waiting", "answered", "left", "timedOut"}]
  /\ relay \in [Attempts -> {"none", "waiting", "over", "timedOut"}]
  /\ exit \in [Attempts -> {"none", "calling", "over"}]
  /\ sentAt \in [Attempts -> Int] /\ forwardedAt \in [Attempts -> Int]
  /\ calledAt \in [Attempts -> Int]
  /\ delay \in [Attempts -> 0..MaxDelay] /\ disturbed \in [Attempts -> BOOLEAN]

\* An attempt comes to the Relay after it was sent, and then to the Exit.
InPlace(a) ==
  /\ relay[a] = "none" => forwardedAt[a] = Never
  /\ forwardedAt[a] = Never => exit[a] = "none"
  /\ sender[a] = "idle" => relay[a] = "none"

InTime(a) ==
  /\ sender[a] \in {"idle", "waiting", "answered"}
  /\ relay[a] # "timedOut"
  /\ relay[a] = "waiting" => sender[a] = "waiting" /\ sentAt[a] <= forwardedAt[a]
  /\ sender[a] = "answered" => relay[a] = "over"
  /\ sender[a] = "waiting" =>
       /\ sentAt[a] <= time
       /\ exit[a] = "none" => time <= sentAt[a] + delay[a]
       /\ exit[a] # "none" => time <= sentAt[a] + delay[a] + providerTimeoutMs
       /\ AtProvider(a) => /\ calledAt[a] <= sentAt[a] + delay[a]
                           /\ time <= calledAt[a] + providerTimeoutMs

AllInTime ==
  /\ PlacesTyped
  /\ \A a \in Attempts : InPlace(a) /\ (~disturbed[a] => InTime(a))
-----------------------------------------------------------------------------
LEMMA InTimeInitially == Init => AllInTime
BY NumbersAssumption
DEF Init, AllInTime, PlacesTyped, InPlace, InTime, AtProvider, Never

\* What an attempt's own step does to it, and that it leaves the others alone.
LEMMA StepKeepsTyped ==
  ASSUME AllInTime, NEW a \in Attempts, Step(a)
  PROVE  /\ PlacesTyped' /\ time' = time
         /\ \A b \in Attempts \ {a} :
              UNCHANGED <<sender[b], relay[b], exit[b], sentAt[b], forwardedAt[b],
                          calledAt[b], delay[b], disturbed[b]>>
<1> USE NumbersAssumption DEF AllInTime, PlacesTyped
<1>1. CASE Send(a)
  BY <1>1 DEF Send, attemptVars, storeVars
<1>2. CASE RelayClaims(a)
  BY <1>2 DEF RelayClaims, attemptVars
<1>3. CASE ExitClaims(a)
  BY <1>3 DEF ExitClaims, CallProvider, RefuseCall, attemptVars
<1>4. CASE ProviderEnds(a) \/ RelayEnds(a)
  BY <1>4 DEF ProviderEnds, RelayEnds, armedVars, attemptVars
<1>5. CASE SenderEnds(a) \/ SenderTimesOut(a) \/ SenderLeaves(a)
  <2>1. /\ UNCHANGED <<time, relay, exit, forwardedAt, calledAt>>
        /\ \E place \in {"answered", "left", "timedOut"} : SenderIsDone(a, place)
        /\ disturbed' = disturbed \/ disturbed' = [disturbed EXCEPT ![a] = TRUE]
    BY <1>5 DEF SenderEnds, SenderTimesOut, SenderLeaves
  <2>2. delay' \in [Attempts -> 0..MaxDelay] /\ sentAt' \in [Attempts -> Int]
    BY <2>1 DEF SenderIsDone, Never
  <2>3. PICK place \in {"answered", "left", "timedOut"} :
          sender' = [sender EXCEPT ![a] = place]
    BY <2>1 DEF SenderIsDone
  <2>4. PlacesTyped' /\ time' = time
    BY <2>1, <2>2, <2>3
  <2> QED BY <2>1, <2>3, <2>4 DEF SenderIsDone
<1>6. CASE RelayTimesOut(a)
  BY <1>6 DEF RelayTimesOut, armedVars, attemptVars
<1>7. CASE CancelReachesRelay(a) \/ CancelReachesExit(a)
  BY <1>7 DEF CancelReachesRelay, CancelReachesExit, armedVars, attemptVars
<1> QED BY <1>1, <1>2, <1>3, <1>4, <1>5, <1>6, <1>7 DEF Step

\* No deadline but the provider's passes while a request is undisturbed.
LEMMA NoOuterDeadline ==
  ASSUME AllInTime, NEW a \in Attempts, ~disturbed[a]
  PROVE  ~RelayDue(a) /\ ~SenderDue(a)
<1>1. InTime(a) /\ delay[a] \in Nat /\ delay[a] <= MaxDelay
  BY NumbersAssumption DEF AllInTime, PlacesTyped
<1>2. sender[a] = "waiting" => time <= sentAt[a] + MaxDelay + providerTimeoutMs
  BY <1>1, NumbersAssumption DEF InTime, AllInTime, PlacesTyped
<1> QED
  BY <1>1, <1>2, NumbersAssumption, DeadlinesAssumption
  DEF InTime, RelayDue, SenderDue, AllInTime, PlacesTyped

LEMMA StepKeepsInTime ==
  ASSUME AllInTime, NEW a \in Attempts, Step(a)
  PROVE  InPlace(a)' /\ (~disturbed'[a] => InTime(a)')
<1> USE NumbersAssumption DEF AllInTime, PlacesTyped, InPlace, InTime, AtProvider
<1>1. CASE Send(a)
  BY <1>1 DEF Send, attemptVars, storeVars
<1>2. CASE RelayClaims(a)
  BY <1>2 DEF RelayClaims, attemptVars, Never
<1>3. CASE ExitClaims(a)
  BY <1>3 DEF ExitClaims, CallProvider, RefuseCall, attemptVars, Never
<1>4. CASE ProviderEnds(a)
  BY <1>4 DEF ProviderEnds, armedVars, attemptVars
<1>5. CASE RelayEnds(a)
  BY <1>5 DEF RelayEnds, armedVars, attemptVars
<1>6. CASE SenderEnds(a)
  BY <1>6 DEF SenderEnds, SenderIsDone
<1>7. CASE RelayTimesOut(a)
  BY <1>7, NoOuterDeadline DEF RelayTimesOut, RelayDue, armedVars, attemptVars
<1>8. CASE SenderTimesOut(a)
  BY <1>8, NoOuterDeadline DEF SenderTimesOut, SenderDue, SenderIsDone
<1>9. CASE SenderLeaves(a)
  BY <1>9 DEF SenderLeaves, SenderIsDone
<1>10. CASE CancelReachesRelay(a)
  BY <1>10 DEF CancelReachesRelay, armedVars, attemptVars
<1>11. CASE CancelReachesExit(a)
  BY <1>11 DEF CancelReachesExit, armedVars, attemptVars
<1> QED
  BY <1>1, <1>2, <1>3, <1>4, <1>5, <1>6, <1>7, <1>8, <1>9, <1>10, <1>11 DEF Step

LEMMA RestartsKeepInTime ==
  ASSUME AllInTime, RestartRelay \/ RestartExit
  PROVE  AllInTime'
<1> USE NumbersAssumption DEF AllInTime, PlacesTyped
<1>1. CASE RestartRelay
  <2>1. PlacesTyped'
    BY <1>1 DEF RestartRelay, Disturb, armedVars
  <2>2. ASSUME NEW a \in Attempts PROVE InPlace(a)' /\ (~disturbed'[a] => InTime(a)')
    BY <1>1, <2>2
    DEF RestartRelay, Disturb, armedVars, historyVars, InPlace, InTime, AtProvider
  <2> QED BY <2>1, <2>2
<1>2. CASE RestartExit
  <2>1. PlacesTyped'
    BY <1>2 DEF RestartExit, Disturb, armedVars
  <2>2. ASSUME NEW a \in Attempts PROVE InPlace(a)' /\ (~disturbed'[a] => InTime(a)')
    BY <1>2, <2>2
    DEF RestartExit, Disturb, armedVars, historyVars, InPlace, InTime, AtProvider
  <2> QED BY <2>1, <2>2
<1> QED BY <1>1, <1>2

\* Time waits for the provider's deadline and for the bound of the delay.
LEMMA TickKeepsInTime ==
  ASSUME AllInTime, Tick
  PROVE  AllInTime'
<1> USE NumbersAssumption DEF AllInTime, PlacesTyped
<1>1. /\ UNCHANGED <<sender, relay, exit, sentAt, forwardedAt, calledAt, disturbed>>
      /\ time' = time + 1
      /\ delay' = [a \in Attempts |-> IF InTransit(a) THEN delay[a] + 1 ELSE delay[a]]
      /\ \A a \in Attempts :
           ~ProviderDue(a) /\ (InTransit(a) => delay[a] < MaxDelay)
  BY DEF Tick, placeVars, armedVars
<1>2. delay' \in [Attempts -> 0..MaxDelay]
  BY <1>1
<1>3. ASSUME NEW a \in Attempts PROVE InPlace(a)' /\ (~disturbed'[a] => InTime(a)')
  <2>1. InPlace(a)'
    BY <1>1 DEF InPlace
  <2>2. ASSUME ~disturbed[a] PROVE InTime(a)'
    <3>1. InTime(a) /\ delay[a] \in Nat
      BY <2>2
    <3>2. CASE sender[a] # "waiting"
      BY <1>1, <3>1, <3>2 DEF InTime
    <3>3. CASE sender[a] = "waiting" /\ AtProvider(a)
      <4>1. delay'[a] = delay[a] /\ time + 1 <= calledAt[a] + providerTimeoutMs
        BY <1>1, <3>3 DEF InTransit, ProviderDue, AtProvider
      <4> QED BY <1>1, <3>1, <3>3, <4>1 DEF InTime, AtProvider
    <3>4. CASE sender[a] = "waiting" /\ ~AtProvider(a)
      <4>1. delay'[a] = delay[a] + 1
        BY <1>1, <2>2, <3>4 DEF InTransit
      <4> QED BY <1>1, <3>1, <3>4, <4>1 DEF InTime, AtProvider
    <3> QED BY <3>2, <3>3, <3>4
  <2> QED BY <1>1, <2>1, <2>2
<1> QED BY <1>1, <1>2, <1>3

LEMMA InTimeAlways == Spec => []AllInTime
<1>1. AllInTime /\ [Next]_vars => AllInTime'
  <2> SUFFICES ASSUME AllInTime, [Next]_vars
               PROVE  AllInTime'
    OBVIOUS
  <2>1. CASE RestartRelay \/ RestartExit
    BY <2>1, RestartsKeepInTime
  <2>2. CASE Tick
    BY <2>2, TickKeepsInTime
  <2>3. CASE \E a \in Attempts : Step(a)
    <3> PICK a \in Attempts : Step(a)
      BY <2>3
    <3>1. /\ PlacesTyped' /\ time' = time
          /\ \A b \in Attempts \ {a} :
               UNCHANGED <<sender[b], relay[b], exit[b], sentAt[b], forwardedAt[b],
                           calledAt[b], delay[b], disturbed[b]>>
      BY StepKeepsTyped
    <3>2. \A b \in Attempts \ {a} : InPlace(b)' /\ (~disturbed'[b] => InTime(b)')
      BY <3>1 DEF AllInTime, InPlace, InTime, AtProvider
    <3> QED BY <3>1, <3>2, StepKeepsInTime DEF AllInTime
  <2>4. CASE UNCHANGED vars
    BY <2>4
    DEF AllInTime, PlacesTyped, InPlace, InTime, AtProvider, vars, placeVars,
        armedVars, attemptVars
  <2> QED BY <2>1, <2>2, <2>3, <2>4 DEF Next
<1> QED BY <1>1, InTimeInitially, PTL DEF Spec

(***************************************************************************)
(* The provider's deadline passes first: neither of the outer two passes     *)
(* while a request is undisturbed, for all deadlines that differ by more     *)
(* than the time a request spends outside the provider.                     *)
(***************************************************************************)
THEOREM InnermostFirst == Spec => []InnermostDeadlineFirst
<1>1. AllInTime => InnermostDeadlineFirst
  BY DEF AllInTime, PlacesTyped, InTime, InnermostDeadlineFirst
<1> QED BY <1>1, InTimeAlways, PTL
=============================================================================
