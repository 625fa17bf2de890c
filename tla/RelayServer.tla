----------------------------- MODULE RelayServer -----------------------------
(***************************************************************************)
(* The Relay's request handler (packages/relay/src/relay.ts) with the      *)
(* services it runs on: the ConcurrencyLimiter, the tracker (through the   *)
(* promise RequestTracker keeps), the ExitClient with its deadline, and    *)
(* the proxied response body.                                              *)
(*                                                                         *)
(* Each request is a fiber.  It runs without interleaving up to an await,  *)
(* so an action is the code from one await to the next.  A client that     *)
(* goes away interrupts the fiber at the await it is in.  The status and    *)
(* the text an error is answered with are left out.                        *)
(***************************************************************************)
EXTENDS Integers, FiniteSets

CONSTANTS
  Requests,               \* connections, each with one request at a time
  Tenants, RequestIds,
  KeyOf,                  \* the tenant and request id each of them presents
  maxConcurrentRequests,
  ttlMs, maxEntries, maxEntriesPerTenant,
  MaxClock                \* bound: observed times are 0..MaxClock

ASSUME RequestsAssumption == IsFiniteSet(Requests)
ASSUME KeyAssumption == KeyOf \in [Requests -> Tenants \X RequestIds]
ASSUME PermitsAssumption == maxConcurrentRequests \in Nat \ {0}

VARIABLES
  phase,           \* where each request's fiber is
  permit,          \* the permit the limiter gave it
  activeRequests,  \* the limiter's counter
  deadline,        \* the deadline of its call to the Exit
  fetched,         \* how the fetch of its call to the Exit settled
  exchange,        \* the HTTP exchange of that call
  pulling,         \* the pull of the proxied body awaits its read
  now, acceptedAt, answer  \* the request tracker, see ReplayWindow

trackerVars == <<now, acceptedAt, answer>>
limiterVars == <<permit, activeRequests>>
callVars == <<deadline, fetched, exchange>>
vars == <<phase, limiterVars, callVars, pulling, trackerVars>>

Tracker ==
  INSTANCE ReplayWindow WITH
    Owners <- Tenants, Ids <- RequestIds, TTL <- ttlMs, MaxEntries <- maxEntries,
    MaxPerOwner <- maxEntriesPerTenant

Init ==
  /\ phase = [r \in Requests |-> "idle"]
  /\ permit = [r \in Requests |-> "none"]
  /\ activeRequests = 0
  /\ deadline = [r \in Requests |-> "none"]
  /\ fetched = [r \in Requests |-> "none"]
  /\ exchange = [r \in Requests |-> "none"]
  /\ pulling = [r \in Requests |-> FALSE]
  /\ Tracker!Init
-----------------------------------------------------------------------------
(* Steps shared by the actions.                                            *)

Goto(r, p) == phase' = [phase EXCEPT ![r] = p]

\* The request's fiber, and the body it returned, have nothing left to do.
Finish(r) == Goto(r, "done")

\* release() of a permit: the second call and later ones do nothing.
Release(r) ==
  IF permit[r] = "held"
    THEN /\ permit' = [permit EXCEPT ![r] = "released"]
         /\ activeRequests' = activeRequests - 1
    ELSE UNCHANGED limiterVars

\* deadline.cancel interrupts the timer; a timer that has fired stays fired.
CancelledDeadline(r) ==
  IF deadline[r] = "armed" THEN [deadline EXCEPT ![r] = "cancelled"] ELSE deadline

Closed(r) == [exchange EXCEPT ![r] = "closed"]

SetPulling(r, b) == pulling' = [pulling EXCEPT ![r] = b]
-----------------------------------------------------------------------------
(* Admission: route, authentication, permit.                               *)

\* Another route, or a credential no tenant has.
RefuseUnknown(r) ==
  /\ phase[r] = "idle"
  /\ Finish(r)
  /\ UNCHANGED <<limiterVars, callVars, pulling, trackerVars>>

RefuseForConcurrency(r) ==
  /\ phase[r] = "idle"
  /\ activeRequests >= maxConcurrentRequests
  /\ Finish(r)
  /\ UNCHANGED <<limiterVars, callVars, pulling, trackerVars>>

\* Faulty: hands a permit out without counting it.
AcquireUncounted(r) ==
  /\ phase[r] = "idle"
  /\ activeRequests < maxConcurrentRequests
  /\ permit' = [permit EXCEPT ![r] = "held"]
  /\ Goto(r, "reading")
  /\ UNCHANGED <<activeRequests, callVars, pulling, trackerVars>>

Acquire(r) ==
  /\ phase[r] = "idle"
  /\ activeRequests < maxConcurrentRequests
  /\ activeRequests' = activeRequests + 1
  /\ permit' = [permit EXCEPT ![r] = "held"]
  /\ Goto(r, "reading")
  /\ UNCHANGED <<callVars, pulling, trackerVars>>
-----------------------------------------------------------------------------
(* The envelope, the claim, and the call to the Exit.                      *)

\* Too large, not an envelope, or a body that breaks off (a defect).
FailEnvelope(r) ==
  /\ phase[r] = "reading"
  /\ Finish(r)
  /\ Release(r)
  /\ UNCHANGED <<callVars, pulling, trackerVars>>

\* Faulty: calls the Exit without a deadline.
ForwardWithoutDeadline(r) ==
  /\ Goto(r, "forwarding")
  /\ exchange' = [exchange EXCEPT ![r] = "open"]
  /\ UNCHANGED <<limiterVars, deadline, fetched, pulling>>

Forward(r) ==
  /\ Goto(r, "forwarding")
  /\ deadline' = [deadline EXCEPT ![r] = "armed"]
  /\ exchange' = [exchange EXCEPT ![r] = "open"]
  /\ UNCHANGED <<limiterVars, fetched, pulling>>

RefuseClaim(r) ==
  /\ Finish(r)
  /\ Release(r)
  /\ UNCHANGED <<callVars, pulling>>

\* Faulty: does not look at what the claim returned.
ClaimEnvelopeUnchecked(r) ==
  /\ phase[r] = "reading"
  /\ Tracker!Claim(KeyOf[r])
  /\ IF answer'.result # "capacity" THEN Forward(r) ELSE RefuseClaim(r)

ClaimEnvelope(r) ==
  /\ phase[r] = "reading"
  /\ Tracker!Claim(KeyOf[r])
  /\ IF answer'.result = "claimed" THEN Forward(r) ELSE RefuseClaim(r)

\* The fetch settles: with an answer (its body still open), or not at all.
FetchSettles(r) ==
  /\ phase[r] = "forwarding"
  /\ fetched[r] = "none"
  /\ \E outcome \in {"ok", "rejected", "empty", "failed"} :
       /\ fetched' = [fetched EXCEPT ![r] = outcome]
       /\ exchange' = IF outcome \in {"ok", "rejected"} THEN exchange ELSE Closed(r)
  /\ UNCHANGED <<phase, limiterVars, deadline, pulling, trackerVars>>

(***************************************************************************)
(* The timer fiber aborts the controller.  A fetch in flight rejects; an    *)
(* answer that came first keeps its status, and its body breaks off.        *)
(***************************************************************************)
DeadlineFires(r) ==
  /\ deadline[r] = "armed"
  /\ deadline' = [deadline EXCEPT ![r] = "fired"]
  /\ exchange' = Closed(r)
  /\ fetched' = IF phase[r] = "forwarding" /\ fetched[r] = "none"
                  THEN [fetched EXCEPT ![r] = "failed"]
                  ELSE fetched
  /\ UNCHANGED <<phase, limiterVars, pulling, trackerVars>>

\* onError of a fetch that rejected, or an answer without a body: 502.
FailCall(r) ==
  /\ phase[r] = "forwarding"
  /\ fetched[r] \in {"failed", "empty"}
  /\ deadline' = CancelledDeadline(r)
  /\ Finish(r)
  /\ Release(r)
  /\ UNCHANGED <<fetched, exchange, pulling, trackerVars>>

\* Not ok: the handler cancels the Exit's body and awaits that.
RejectCall(r) ==
  /\ phase[r] = "forwarding"
  /\ fetched[r] = "rejected"
  /\ Goto(r, "rejecting")
  /\ exchange' = Closed(r)
  /\ UNCHANGED <<limiterVars, deadline, fetched, pulling, trackerVars>>

RejectedBodyCancelled(r) ==
  /\ phase[r] = "rejecting"
  /\ deadline' = CancelledDeadline(r)
  /\ Finish(r)
  /\ Release(r)
  /\ UNCHANGED <<fetched, exchange, pulling, trackerVars>>

\* The Response is built: its body owns the permit from here on, and reads ahead.
HandOff(r) ==
  /\ phase[r] = "forwarding"
  /\ fetched[r] = "ok"
  /\ Goto(r, "streaming")
  /\ SetPulling(r, TRUE)
  /\ UNCHANGED <<limiterVars, callVars, trackerVars>>

\* Faulty: cancels the deadline of a body it leaves unread.
ObserverThrowsAfterCancel(r) ==
  /\ phase[r] = "forwarding"
  /\ fetched[r] = "ok"
  /\ Finish(r)
  /\ Release(r)
  /\ deadline' = CancelledDeadline(r)
  /\ UNCHANGED <<fetched, exchange, pulling, trackerVars>>

\* The observer throws before the hand-off: a defect, and nobody reads the body.
ObserverThrows(r) ==
  /\ phase[r] = "forwarding"
  /\ fetched[r] = "ok"
  /\ Finish(r)
  /\ Release(r)
  /\ UNCHANGED <<callVars, pulling, trackerVars>>

\* Faulty: an interrupted fiber keeps its permit.
DisconnectsWithPermit(r) ==
  /\ phase[r] \in {"reading", "forwarding", "rejecting"}
  /\ Finish(r)
  /\ IF phase[r] = "forwarding"
       THEN deadline' = CancelledDeadline(r) /\ exchange' = Closed(r)
       ELSE UNCHANGED <<deadline, exchange>>
  /\ UNCHANGED <<limiterVars, fetched, pulling, trackerVars>>

(***************************************************************************)
(* The client goes away before the hand-off: the fiber is interrupted.      *)
(* While it awaits the fetch, the fetch is aborted and onError cancels the  *)
(* deadline; while it awaits the cancellation of a rejected body, the line  *)
(* that cancels the deadline is never reached.                              *)
(***************************************************************************)
ClientDisconnects(r) ==
  /\ phase[r] \in {"reading", "forwarding", "rejecting"}
  /\ Finish(r)
  /\ Release(r)
  /\ IF phase[r] = "forwarding"
       THEN deadline' = CancelledDeadline(r) /\ exchange' = Closed(r)
       ELSE UNCHANGED <<deadline, exchange>>
  /\ UNCHANGED <<fetched, pulling, trackerVars>>
-----------------------------------------------------------------------------
(* The proxied body.                                                       *)
(* The Exit's body is wrapped by keepDeadlineUntilStreamEnds ("the         *)
(* wrapper"), which reads one chunk ahead of its reader, and the wrapper   *)
(* by proxyResponseBody ("the proxy"), whose `finished` is set where the   *)
(* phase leaves "streaming".                                               *)

\* The Exit's body ends, or its connection breaks.
ExchangeEnds(r) ==
  /\ fetched[r] = "ok"
  /\ exchange[r] = "open"
  /\ exchange' = Closed(r)
  /\ UNCHANGED <<phase, limiterVars, deadline, fetched, pulling, trackerVars>>

\* A read of the wrapper's finds the end, or the failure.
WrapperFinishes(r) ==
  /\ fetched[r] = "ok"
  /\ phase[r] \in {"streaming", "done"}
  /\ exchange[r] = "closed"
  /\ deadline[r] = "armed"
  /\ deadline' = CancelledDeadline(r)
  /\ UNCHANGED <<phase, limiterVars, fetched, exchange, pulling, trackerVars>>

\* The client took a chunk: the proxy reads another one.
Pull(r) ==
  /\ phase[r] = "streaming"
  /\ ~pulling[r]
  /\ SetPulling(r, TRUE)
  /\ UNCHANGED <<phase, limiterVars, callVars, trackerVars>>

ChunkPasses(r) ==
  /\ phase[r] = "streaming"
  /\ pulling[r]
  /\ SetPulling(r, FALSE)
  /\ UNCHANGED <<phase, limiterVars, callVars, trackerVars>>

\* The last read of the proxy: the wrapper has ended or failed.
StreamEnds(r) ==
  /\ phase[r] = "streaming"
  /\ pulling[r]
  /\ exchange[r] = "closed"
  /\ deadline[r] # "armed"
  /\ Finish(r)
  /\ Release(r)
  /\ SetPulling(r, FALSE)
  /\ UNCHANGED <<callVars, trackerVars>>

(***************************************************************************)
(* finish(reason, true) of the proxy releases the permit and cancels the    *)
(* wrapper, whose own finish cancels the deadline and awaits that before it *)
(* cancels the Exit's body.                                                *)
(***************************************************************************)
CancelWrapper(r) ==
  /\ Goto(r, "cancelling")
  /\ Release(r)
  /\ deadline' = CancelledDeadline(r)
  /\ UNCHANGED <<fetched, exchange, trackerVars>>

\* The client cancels, maybe while the proxy awaits a read.
StreamCancelled(r) ==
  /\ phase[r] = "streaming"
  /\ CancelWrapper(r)
  /\ UNCHANGED pulling

\* The observer, or the log, throws on a chunk that was read.
ObserverThrowsOnChunk(r) ==
  /\ phase[r] = "streaming"
  /\ pulling[r]
  /\ CancelWrapper(r)
  /\ SetPulling(r, FALSE)

CancelReachesExit(r) ==
  /\ phase[r] = "cancelling"
  /\ Finish(r)
  /\ exchange' = Closed(r)
  /\ UNCHANGED <<limiterVars, deadline, fetched, pulling, trackerVars>>

\* A read the cancellation settled, or one it overtook: finished, nothing to do.
PullResumes(r) ==
  /\ phase[r] # "streaming"
  /\ pulling[r]
  /\ SetPulling(r, FALSE)
  /\ UNCHANGED <<phase, limiterVars, callVars, trackerVars>>
-----------------------------------------------------------------------------
\* The connection sends another request once nothing of the last one is left.
NextRequest(r) ==
  /\ phase[r] = "done"
  /\ deadline[r] # "armed"
  /\ exchange[r] # "open"
  /\ ~pulling[r]
  /\ Goto(r, "idle")
  /\ permit' = [permit EXCEPT ![r] = "none"]
  /\ deadline' = [deadline EXCEPT ![r] = "none"]
  /\ fetched' = [fetched EXCEPT ![r] = "none"]
  /\ exchange' = [exchange EXCEPT ![r] = "none"]
  /\ UNCHANGED <<activeRequests, pulling, trackerVars>>

Admission(r) == RefuseUnknown(r) \/ RefuseForConcurrency(r) \/ Acquire(r)

ReadEnvelope(r) == FailEnvelope(r) \/ ClaimEnvelope(r)

AfterFetch(r) == FailCall(r) \/ RejectCall(r) \/ HandOff(r) \/ ObserverThrows(r)

Stream(r) == StreamEnds(r) \/ StreamCancelled(r)

Step(r) ==
  \/ Admission(r)
  \/ ReadEnvelope(r)
  \/ FetchSettles(r)
  \/ DeadlineFires(r)
  \/ AfterFetch(r)
  \/ RejectedBodyCancelled(r)
  \/ ClientDisconnects(r)
  \/ ExchangeEnds(r)
  \/ WrapperFinishes(r)
  \/ Pull(r) \/ ChunkPasses(r) \/ PullResumes(r)
  \/ Stream(r)
  \/ ObserverThrowsOnChunk(r)
  \/ CancelReachesExit(r)
  \/ NextRequest(r)

Next == \E r \in Requests : Step(r)

Spec == Init /\ [][Next]_vars

(***************************************************************************)
(* The runtime resumes a fiber whose await has settled and fires a timer    *)
(* that is due.  The server reads a request body to its end or, after       *)
(* idleTimeout, gives the connection up; it does the same with a response   *)
(* body once no more of it can come.  Nothing is assumed of the Exit: a     *)
(* fetch need never settle, a body need never end or break.                 *)
(***************************************************************************)
Fairness ==
  \A r \in Requests :
    /\ WF_vars(ReadEnvelope(r) \/ (phase[r] = "reading" /\ ClientDisconnects(r)))
    /\ WF_vars(DeadlineFires(r))
    /\ WF_vars(AfterFetch(r))
    /\ WF_vars(RejectedBodyCancelled(r))
    /\ WF_vars(exchange[r] = "closed" /\ Stream(r))
    /\ WF_vars(CancelReachesExit(r))

FairSpec == Spec /\ Fairness
-----------------------------------------------------------------------------
Phases == {"idle", "reading", "forwarding", "rejecting", "streaming", "cancelling", "done"}
Serving == {"reading", "forwarding", "rejecting", "streaming"}

TypeOK ==
  /\ phase \in [Requests -> Phases]
  /\ permit \in [Requests -> {"none", "held", "released"}]
  /\ activeRequests \in Nat
  /\ deadline \in [Requests -> {"none", "armed", "cancelled", "fired"}]
  /\ fetched \in [Requests -> {"none", "ok", "rejected", "empty", "failed"}]
  /\ exchange \in [Requests -> {"none", "open", "closed"}]
  /\ pulling \in [Requests -> BOOLEAN]

(***************************************************************************)
(* However a request ends (refused, failed, interrupted, handed off,        *)
(* completed, cancelled), its permit is given back once: the counter is     *)
(* the number of requests being served, and never passes the limit.  A leak *)
(* would shrink the Relay until it answers 429 to everyone; a double        *)
(* release would lift the limit.                                            *)
(***************************************************************************)
PermitsAccountedFor ==
  /\ \A r \in Requests : permit[r] = "held" <=> phase[r] \in Serving
  /\ activeRequests = Cardinality({r \in Requests : permit[r] = "held"})
  /\ activeRequests <= maxConcurrentRequests

(***************************************************************************)
(* An open exchange with the Exit ends whatever the Exit does: its deadline *)
(* is running, also when neither a fiber nor a response body owns it any    *)
(* more (the handler failed between the call and the hand-off).  The one    *)
(* moment without a deadline is inside a cancellation, which has cancelled  *)
(* it and, when that has settled, closes the exchange.                      *)
(***************************************************************************)
OpenExchangeHasDeadline ==
  \A r \in Requests :
    exchange[r] = "open" => deadline[r] = "armed" \/ phase[r] = "cancelling"

(***************************************************************************)
(* The Exit is called exactly when the tracker accepts the envelope: no     *)
(* replay within the window reaches the Exit, whichever fibers race, and an *)
(* acceptance is not spent on a request that is refused.                    *)
(***************************************************************************)
IsForwarded(key) ==
  \E r \in Requests :
    /\ KeyOf[r] = key
    /\ exchange[r] = "none"
    /\ exchange'[r] = "open"

ForwardedOncePerWindow ==
  [][\A key \in Tenants \X RequestIds :
       /\ IsForwarded(key) => ~Tracker!InWindow(key, now')
       /\ acceptedAt'[key] # acceptedAt[key] => IsForwarded(key)]_vars

(***************************************************************************)
(* Whatever the client and the Exit do or fail to do, every permit comes    *)
(* back, and no exchange and no timer outlives its request for ever.        *)
(***************************************************************************)
RequestsSettle ==
  \A r \in Requests :
    /\ permit[r] = "held" ~> permit[r] # "held"
    /\ exchange[r] = "open" ~> exchange[r] # "open"
    /\ deadline[r] = "armed" ~> deadline[r] # "armed"
=============================================================================
