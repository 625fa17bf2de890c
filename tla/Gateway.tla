------------------------------- MODULE Gateway -------------------------------
(***************************************************************************)
(* Sidecar, Relay, Exit and provider together, in time.  RelayServer and    *)
(* ExitServer have every await of one server; here a request has a place in *)
(* each of the three processes, and what matters is what passes between     *)
(* them: the two replay stores, each forgotten when its process restarts,   *)
(* the three deadlines, one inside the other, and requests that go on in    *)
(* one process after they are over in another.                             *)
(*                                                                         *)
(* An attempt is one HTTP request that brings an envelope to the Relay, by  *)
(* the Sidecar that sealed it or by whoever sends a copy of it.             *)
(***************************************************************************)
EXTENDS Integers, FiniteSets

CONSTANTS
  Attempts, Tenants, Envelopes,
  EnvelopeOf,            \* the envelope each attempt brings
  relayTimeoutMs,        \* the deadline of the Sidecar's call to the Relay
  exitTimeoutMs,         \* of the Relay's call to the Exit
  providerTimeoutMs,     \* of the Exit's call to the provider
  requestTtlMs,          \* the window of the Relay's tracker
  replayTtlMs,           \* the window of the Exit's cache
  MaxDelay,              \* bound: time a request spends outside the provider
  MaxTime, MaxRestarts   \* bounds: of the clock, and of each server's restarts

ASSUME AttemptsAssumption ==
  /\ IsFiniteSet(Attempts)
  /\ EnvelopeOf \in [Attempts -> Envelopes]

ASSUME NumbersAssumption ==
  {relayTimeoutMs, exitTimeoutMs, providerTimeoutMs, requestTtlMs, replayTtlMs,
   MaxDelay, MaxTime, MaxRestarts} \subseteq Nat

\* As by default: 60 s for the provider, 65 s for the other two.
ASSUME DeadlinesAssumption ==
  /\ providerTimeoutMs + MaxDelay < exitTimeoutMs
  /\ providerTimeoutMs + MaxDelay < relayTimeoutMs

VARIABLES
  time,
  tenantOf,          \* the tenant whose credential each attempt brings
  sender,            \* where each attempt is at its sender, usually a Sidecar,
  relay, exit,       \* at the Relay, and at the Exit
  sentAt, forwardedAt, calledAt,  \* when the deadline of each call was armed
  delay,             \* time it spent between the processes or inside them
  disturbed,         \* whether a restart, or its sender leaving, cut it short
  relayEpoch, exitEpoch,          \* restarts so far
  relayNow, relayAccepted, relayAnswer,  \* the Relay's tracker
  exitNow, exitAccepted, exitAnswer,     \* the Exit's cache
  forwardedIn, calledIn  \* history: the epochs in which an attempt was passed on

attemptVars == <<tenantOf, delay, disturbed>>
placeVars == <<sender, relay, exit>>
armedVars == <<sentAt, forwardedAt, calledAt>>
epochVars == <<relayEpoch, exitEpoch>>
trackerVars == <<relayNow, relayAccepted, relayAnswer>>
cacheVars == <<exitNow, exitAccepted, exitAnswer>>
historyVars == <<forwardedIn, calledIn>>
storeVars == <<epochVars, trackerVars, cacheVars, historyVars>>
vars == <<time, placeVars, armedVars, attemptVars, storeVars>>

\* Both stores have room: RelayServer and ExitServer have them at their limits.
Tracker ==
  INSTANCE ReplayWindow WITH
    Owners <- Tenants, Ids <- Envelopes, TTL <- requestTtlMs, MaxClock <- MaxTime,
    MaxEntries <- Cardinality(Attempts) + 1, MaxPerOwner <- Cardinality(Attempts) + 1,
    now <- relayNow, acceptedAt <- relayAccepted, answer <- relayAnswer

Cache ==
  INSTANCE ReplayWindow WITH
    Owners <- {"exit"}, Ids <- Envelopes, TTL <- replayTtlMs, MaxClock <- MaxTime,
    MaxEntries <- Cardinality(Attempts) + 1, MaxPerOwner <- Cardinality(Attempts) + 1,
    now <- exitNow, acceptedAt <- exitAccepted, answer <- exitAnswer

Never == -1

Init ==
  /\ time = 0
  /\ tenantOf \in [Attempts -> Tenants]
  /\ sender = [a \in Attempts |-> "idle"]
  /\ relay = [a \in Attempts |-> "none"]
  /\ exit = [a \in Attempts |-> "none"]
  /\ sentAt = [a \in Attempts |-> Never]
  /\ forwardedAt = [a \in Attempts |-> Never]
  /\ calledAt = [a \in Attempts |-> Never]
  /\ delay = [a \in Attempts |-> 0]
  /\ disturbed = [a \in Attempts |-> FALSE]
  /\ relayEpoch = 0 /\ exitEpoch = 0
  /\ Tracker!Init /\ Cache!Init
  /\ forwardedIn = [a \in Attempts |-> Never]
  /\ calledIn = [a \in Attempts |-> Never]
-----------------------------------------------------------------------------
(* An attempt on its way to the provider.                                  *)

Send(a) ==
  /\ sender[a] = "idle"
  /\ sender' = [sender EXCEPT ![a] = "waiting"]
  /\ sentAt' = [sentAt EXCEPT ![a] = time]
  /\ UNCHANGED <<time, relay, exit, forwardedAt, calledAt, attemptVars,
                 storeVars>>

\* The Relay claims the tenant's request id, and forwards or answers 409.
RelayClaims(a) ==
  /\ sender[a] # "idle" /\ relay[a] = "none"
  /\ Tracker!Claim(<<tenantOf[a], EnvelopeOf[a]>>)
  /\ relayNow' = time
  /\ IF relayAnswer'.result = "claimed"
       THEN /\ relay' = [relay EXCEPT ![a] = "waiting"]
            /\ forwardedAt' = [forwardedAt EXCEPT ![a] = time]
            /\ forwardedIn' = [forwardedIn EXCEPT ![a] = relayEpoch]
       ELSE /\ relay' = [relay EXCEPT ![a] = "over"]
            /\ UNCHANGED <<forwardedAt, forwardedIn>>
  /\ UNCHANGED <<time, sender, exit, sentAt, calledAt, attemptVars, epochVars,
                 cacheVars, calledIn>>

CallProvider(a) ==
  /\ exit' = [exit EXCEPT ![a] = "calling"]
  /\ calledAt' = [calledAt EXCEPT ![a] = time]
  /\ calledIn' = [calledIn EXCEPT ![a] = exitEpoch]

RefuseCall(a) ==
  /\ exit' = [exit EXCEPT ![a] = "over"]
  /\ UNCHANGED <<calledAt, calledIn>>

\* Faulty: calls the provider for whatever the Relay forwards.
ExitClaimsUnchecked(a) ==
  /\ forwardedAt[a] # Never /\ exit[a] = "none"
  /\ Cache!Claim(<<"exit", EnvelopeOf[a]>>)
  /\ exitNow' = time
  /\ CallProvider(a)
  /\ UNCHANGED <<time, sender, relay, sentAt, forwardedAt, attemptVars,
                 epochVars, trackerVars, forwardedIn>>

(***************************************************************************)
(* The Exit claims the envelope, although the Relay or the sender may have  *)
(* given it up since, and calls the provider, or seals a refusal: of a      *)
(* duplicate, or of a payload it rejects after the claim.                   *)
(***************************************************************************)
ExitClaims(a) ==
  /\ forwardedAt[a] # Never /\ exit[a] = "none"
  /\ Cache!Claim(<<"exit", EnvelopeOf[a]>>)
  /\ exitNow' = time
  /\ \/ exitAnswer'.result = "claimed" /\ CallProvider(a)
     \/ RefuseCall(a)
  /\ UNCHANGED <<time, sender, relay, sentAt, forwardedAt, attemptVars,
                 epochVars, trackerVars, forwardedIn>>
-----------------------------------------------------------------------------
(* The answer on its way back.  A call is over when the last byte of its    *)
(* answer is read; that to the Exit also when its connection breaks.       *)

\* The provider's answer ends or breaks, by itself or by the Exit's deadline.
ProviderEnds(a) ==
  /\ exit[a] = "calling"
  /\ exit' = [exit EXCEPT ![a] = "over"]
  /\ UNCHANGED <<time, sender, relay, armedVars, attemptVars, storeVars>>

RelayEnds(a) ==
  /\ relay[a] = "waiting"
  /\ relay' = [relay EXCEPT ![a] = "over"]
  /\ UNCHANGED <<time, sender, exit, armedVars, attemptVars, storeVars>>

\* Its deadline is cancelled, and its delay counts no more.
SenderIsDone(a, place) ==
  /\ sender' = [sender EXCEPT ![a] = place]
  /\ sentAt' = [sentAt EXCEPT ![a] = Never]
  /\ delay' = [delay EXCEPT ![a] = 0]

SenderEnds(a) ==
  /\ sender[a] = "waiting" /\ relay[a] \in {"over", "timedOut"}
  /\ SenderIsDone(a, "answered")
  /\ UNCHANGED <<time, tenantOf, relay, exit, forwardedAt, calledAt,
                 disturbed, storeVars>>
-----------------------------------------------------------------------------
(* Deadlines, senders that leave, and cancellations that follow them.       *)

\* Faulty: gives the provider as long as the Relay gives the Exit.
ProviderDueWithExit(a) == exit[a] = "calling" /\ time >= calledAt[a] + exitTimeoutMs

ProviderDue(a) == exit[a] = "calling" /\ time >= calledAt[a] + providerTimeoutMs

RelayDue(a) == relay[a] = "waiting" /\ time >= forwardedAt[a] + exitTimeoutMs

SenderDue(a) == sender[a] = "waiting" /\ time >= sentAt[a] + relayTimeoutMs

RelayTimesOut(a) ==
  /\ RelayDue(a)
  /\ relay' = [relay EXCEPT ![a] = "timedOut"]
  /\ UNCHANGED <<time, sender, exit, armedVars, attemptVars, storeVars>>

SenderTimesOut(a) ==
  /\ SenderDue(a)
  /\ SenderIsDone(a, "timedOut")
  /\ UNCHANGED <<time, tenantOf, relay, exit, forwardedAt, calledAt,
                 disturbed, storeVars>>

\* The sender gives up, or loses its connection.
SenderLeaves(a) ==
  /\ sender[a] = "waiting"
  /\ SenderIsDone(a, "left")
  /\ disturbed' = [disturbed EXCEPT ![a] = TRUE]
  /\ UNCHANGED <<time, tenantOf, relay, exit, forwardedAt, calledAt, storeVars>>

\* The Relay notices that its client is gone, the Exit that the Relay is.
CancelReachesRelay(a) ==
  /\ sender[a] \in {"left", "timedOut"} /\ relay[a] = "waiting"
  /\ relay' = [relay EXCEPT ![a] = "over"]
  /\ UNCHANGED <<time, sender, exit, armedVars, attemptVars, storeVars>>

CancelReachesExit(a) ==
  /\ relay[a] \in {"over", "timedOut"} /\ exit[a] = "calling"
  /\ exit' = [exit EXCEPT ![a] = "over"]
  /\ UNCHANGED <<time, sender, relay, armedVars, attemptVars, storeVars>>
-----------------------------------------------------------------------------
(* A server restarts: its store is empty, its requests and calls are gone.  *)

Disturb(S) == disturbed' = [a \in Attempts |-> disturbed[a] \/ a \in S]

RestartRelay ==
  /\ relayEpoch < MaxRestarts
  /\ relayEpoch' = relayEpoch + 1
  /\ relayNow' = Never
  /\ relayAccepted' = [key \in Tenants \X Envelopes |-> Never]
  /\ relayAnswer' = Tracker!NoAnswer
  /\ relay' = [a \in Attempts |-> IF relay[a] = "waiting" THEN "over" ELSE relay[a]]
  /\ Disturb({a \in Attempts : relay[a] = "waiting"})
  /\ UNCHANGED <<time, sender, exit, armedVars, tenantOf, delay, exitEpoch,
                 cacheVars, historyVars>>

RestartExit ==
  /\ exitEpoch < MaxRestarts
  /\ exitEpoch' = exitEpoch + 1
  /\ exitNow' = Never
  /\ exitAccepted' = [key \in {"exit"} \X Envelopes |-> Never]
  /\ exitAnswer' = Cache!NoAnswer
  /\ exit' = [a \in Attempts |-> IF exit[a] = "calling" THEN "over" ELSE exit[a]]
  /\ Disturb({a \in Attempts : exit[a] = "calling"})
  /\ UNCHANGED <<time, sender, relay, armedVars, tenantOf, delay, relayEpoch,
                 trackerVars, historyVars>>

(***************************************************************************)
(* Time passes.  A timer that is due fires first.  An undisturbed request   *)
(* spends at most MaxDelay outside the provider, in transit or in the       *)
(* processes; a disturbed one may hang anywhere.                           *)
(***************************************************************************)
AtProvider(a) == relay[a] = "waiting" /\ exit[a] = "calling"

InTransit(a) == sender[a] = "waiting" /\ ~AtProvider(a) /\ ~disturbed[a]

Tick ==
  /\ time < MaxTime
  /\ \A a \in Attempts :
       /\ ~ProviderDue(a) /\ ~RelayDue(a) /\ ~SenderDue(a)
       /\ InTransit(a) => delay[a] < MaxDelay
  /\ time' = time + 1
  /\ delay' = [a \in Attempts |-> IF InTransit(a) THEN delay[a] + 1 ELSE delay[a]]
  /\ UNCHANGED <<placeVars, armedVars, tenantOf, disturbed, storeVars>>

Step(a) ==
  \/ Send(a) \/ RelayClaims(a) \/ ExitClaims(a)
  \/ ProviderEnds(a) \/ RelayEnds(a) \/ SenderEnds(a)
  \/ RelayTimesOut(a) \/ SenderTimesOut(a) \/ SenderLeaves(a)
  \/ CancelReachesRelay(a) \/ CancelReachesExit(a)

Next == RestartRelay \/ RestartExit \/ Tick \/ \E a \in Attempts : Step(a)

Spec == Init /\ [][Next]_vars
-----------------------------------------------------------------------------
TypeOK ==
  /\ time \in 0..MaxTime /\ tenantOf \in [Attempts -> Tenants]
  /\ sender \in [Attempts -> {"idle", "waiting", "answered", "left", "timedOut"}]
  /\ relay \in [Attempts -> {"none", "waiting", "over", "timedOut"}]
  /\ exit \in [Attempts -> {"none", "calling", "over"}]
  /\ {sentAt, forwardedAt, calledAt} \subseteq [Attempts -> 0..MaxTime \cup {Never}]
  /\ delay \in [Attempts -> 0..MaxDelay] /\ disturbed \in [Attempts -> BOOLEAN]
  /\ relayEpoch \in 0..MaxRestarts /\ exitEpoch \in 0..MaxRestarts
  /\ {forwardedIn, calledIn} \subseteq [Attempts -> 0..MaxRestarts \cup {Never}]

Apart(s, t, ttl) == s >= t + ttl \/ t >= s + ttl

(***************************************************************************)
(* The provider is called again for an envelope only after the Exit's       *)
(* window, or if the Exit was restarted in between; and for the same tenant *)
(* only if the Relay, too, was restarted or its window is over.  A restart  *)
(* of one of them alone lets no tenant repeat a call, whatever was still on *)
(* its way when it happened.                                               *)
(***************************************************************************)
CalledAgainOnlyWhenForgotten ==
  \A a, b \in Attempts :
    a # b /\ EnvelopeOf[a] = EnvelopeOf[b]
          /\ calledAt[a] # Never /\ calledAt[b] # Never =>
      /\ calledIn[a] # calledIn[b] \/ Apart(calledAt[a], calledAt[b], replayTtlMs)
      /\ tenantOf[a] = tenantOf[b] =>
           \/ forwardedIn[a] # forwardedIn[b]
           \/ Apart(forwardedAt[a], forwardedAt[b], requestTtlMs)

(***************************************************************************)
(* Of the three deadlines the innermost passes first: unless a restart or   *)
(* the sender itself cut a request short, neither the Relay nor the Sidecar *)
(* gives it up before the Exit has, so that the failure an application sees *)
(* is the one the Exit sealed.                                             *)
(***************************************************************************)
InnermostDeadlineFirst ==
  \A a \in Attempts :
    sender[a] = "timedOut" \/ relay[a] = "timedOut" => disturbed[a]
=============================================================================
