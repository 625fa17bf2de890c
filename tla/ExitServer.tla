----------------------------- MODULE ExitServer -----------------------------
(***************************************************************************)
(* The Exit's request handler (packages/exit/src/exit.ts) with the          *)
(* services it runs on: replay protection (through the promise ReplayCache  *)
(* keeps), the provider with its deadline                                   *)
(* (packages/exit/src/openai-compatible-provider.ts), and the sealed        *)
(* response body.                                                          *)
(*                                                                         *)
(* Each request is a fiber, an action is the code from one await to the     *)
(* next.  Opening an envelope is asynchronous, so two copies of it may be   *)
(* opened at the same time.  The HPKE library is external: any copy that    *)
(* arrives may have been damaged, and then it does not open, although it    *)
(* presents the same replay key.  Of an answer the module keeps whether it  *)
(* is sealed, not its status or its text.                                   *)
(***************************************************************************)
EXTENDS Integers, FiniteSets

CONSTANTS
  Requests,      \* connections from the Relay, each with one request at a time
  ReplayKeys,    \* Exit key ids with encapsulated keys
  KeyOf,         \* the replay key of the envelope each of them presents
  replayTtlMs, replayMaxEntries,
  MaxClock       \* bound: observed times are 0..MaxClock

ASSUME KeyAssumption == KeyOf \in [Requests -> ReplayKeys]

VARIABLES
  phase,           \* where each request's fiber is
  deadline,        \* the deadline of the call to the provider
  fetched,         \* how the fetch of that call settled
  exchange,        \* its HTTP exchange
  now, acceptedAt, answer  \* replay protection, see ReplayWindow

replayVars == <<now, acceptedAt, answer>>
callVars == <<deadline, fetched, exchange>>
vars == <<phase, callVars, replayVars>>

\* The Exit's cache counts all keys for one owner.
Replay ==
  INSTANCE ReplayWindow WITH
    Owners <- {"exit"}, Ids <- ReplayKeys, TTL <- replayTtlMs,
    MaxEntries <- replayMaxEntries, MaxPerOwner <- replayMaxEntries

Key(r) == <<"exit", KeyOf[r]>>

Init ==
  /\ phase = [r \in Requests |-> "idle"]
  /\ deadline = [r \in Requests |-> "none"]
  /\ fetched = [r \in Requests |-> "none"]
  /\ exchange = [r \in Requests |-> "none"]
  /\ Replay!Init
-----------------------------------------------------------------------------
(* Steps shared by the actions.                                            *)

Goto(r, p) == phase' = [phase EXCEPT ![r] = p]

\* An answer the Relay can read, or nothing left of the fiber and its body.
Finish(r) == Goto(r, "done")

\* An answer that is sealed for the Sidecar before it is sent.
Seal(r) == Goto(r, "sealing")

\* deadline.cancel interrupts the timer; a timer that has fired stays fired.
CancelledDeadline(r) ==
  IF deadline[r] = "armed" THEN [deadline EXCEPT ![r] = "cancelled"] ELSE deadline

Closed(r) == [exchange EXCEPT ![r] = "closed"]
-----------------------------------------------------------------------------
(* Route, authentication, envelope.                                        *)

RefuseUnknown(r) ==
  /\ phase[r] = "idle"
  /\ Finish(r)
  /\ UNCHANGED <<callVars, replayVars>>

StartReading(r) ==
  /\ phase[r] = "idle"
  /\ Goto(r, "reading")
  /\ UNCHANGED <<callVars, replayVars>>

\* Too large, no envelope, an unknown Exit key, or a body that breaks off.
FailEnvelope(r) ==
  /\ phase[r] = "reading"
  /\ Finish(r)
  /\ UNCHANGED <<callVars, replayVars>>

StartOpening(r) ==
  /\ phase[r] = "reading"
  /\ Goto(r, "opening")
  /\ UNCHANGED <<callVars, replayVars>>

\* Faulty: claims the replay key of an envelope before it is authenticated.
ClaimsBeforeOpening(r) ==
  /\ phase[r] = "opening"
  /\ Replay!Claim(Key(r))
  /\ Finish(r)
  /\ UNCHANGED callVars

\* The envelope does not open: there is no key to seal this answer for.
FailOpening(r) ==
  /\ phase[r] = "opening"
  /\ Finish(r)
  /\ UNCHANGED <<callVars, replayVars>>
-----------------------------------------------------------------------------
(* The claim and the call to the provider.                                 *)

\* Faulty: calls the provider without a deadline.
CallWithoutDeadline(r) ==
  /\ Goto(r, "calling")
  /\ exchange' = [exchange EXCEPT ![r] = "open"]
  /\ UNCHANGED <<deadline, fetched>>

CallProvider(r) ==
  /\ Goto(r, "calling")
  /\ deadline' = [deadline EXCEPT ![r] = "armed"]
  /\ exchange' = [exchange EXCEPT ![r] = "open"]
  /\ UNCHANGED fetched

(***************************************************************************)
(* The envelope has opened.  The claim comes before the payload is looked   *)
(* at: an envelope with a payload the Exit rejects is used up as well.      *)
(***************************************************************************)
ClaimOpened(r) ==
  /\ phase[r] = "opening"
  /\ Replay!Claim(Key(r))
  /\ \/ answer'.result = "claimed" /\ CallProvider(r)
     \/ Seal(r) /\ UNCHANGED callVars

\* The fetch settles: with an answer (its body still open), or not at all.
FetchSettles(r) ==
  /\ phase[r] = "calling"
  /\ fetched[r] = "none"
  /\ \E outcome \in {"answered", "empty", "failed"} :
       /\ fetched' = [fetched EXCEPT ![r] = outcome]
       /\ exchange' = IF outcome = "answered" THEN exchange ELSE Closed(r)
  /\ UNCHANGED <<phase, deadline, replayVars>>

\* The timer aborts a fetch in flight, or breaks off the body of an answer.
DeadlineFires(r) ==
  /\ deadline[r] = "armed"
  /\ deadline' = [deadline EXCEPT ![r] = "fired"]
  /\ exchange' = Closed(r)
  /\ fetched' = IF phase[r] = "calling" /\ fetched[r] = "none"
                  THEN [fetched EXCEPT ![r] = "failed"]
                  ELSE fetched
  /\ UNCHANGED <<phase, replayVars>>

\* onError cancels the deadline; the failure is an answer for the Sidecar.
ProviderFails(r) ==
  /\ phase[r] = "calling"
  /\ fetched[r] = "failed"
  /\ deadline' = CancelledDeadline(r)
  /\ Seal(r)
  /\ UNCHANGED <<fetched, exchange, replayVars>>

\* An answer without a body is over; its deadline goes.
ProviderAnswersEmpty(r) ==
  /\ phase[r] = "calling"
  /\ fetched[r] = "empty"
  /\ deadline' = CancelledDeadline(r)
  /\ Seal(r)
  /\ UNCHANGED <<fetched, exchange, replayVars>>

\* Faulty: the deadline ends with the call and not with the body.
DeadlineEndsWithCall(r) ==
  /\ phase[r] = "calling"
  /\ fetched[r] = "answered"
  /\ deadline' = CancelledDeadline(r)
  /\ Seal(r)
  /\ UNCHANGED <<fetched, exchange, replayVars>>

\* Whatever the provider answered is sealed; the deadline stays with its body.
ProviderAnswers(r) ==
  /\ phase[r] = "calling"
  /\ fetched[r] = "answered"
  /\ Seal(r)
  /\ UNCHANGED <<callVars, replayVars>>
-----------------------------------------------------------------------------
(* Sealing, and the sealed body.                                           *)

SealingEnds(r) ==
  /\ phase[r] = "sealing"
  /\ Goto(r, "streaming")
  /\ UNCHANGED <<callVars, replayVars>>

\* The promise rejects: a defect, and nobody reads the provider's body.
SealingFails(r) ==
  /\ phase[r] = "sealing"
  /\ Finish(r)
  /\ UNCHANGED <<callVars, replayVars>>

(***************************************************************************)
(* The Relay goes away before it has an answer: the fiber is interrupted.   *)
(* A fetch it awaits is aborted and onError cancels the deadline; opening   *)
(* and sealing are promises that take no signal.                           *)
(***************************************************************************)
RelayDisconnects(r) ==
  /\ phase[r] \in {"reading", "opening", "calling", "sealing"}
  /\ Finish(r)
  /\ IF phase[r] = "calling"
       THEN deadline' = CancelledDeadline(r) /\ exchange' = Closed(r)
       ELSE UNCHANGED <<deadline, exchange>>
  /\ UNCHANGED <<fetched, replayVars>>

\* The provider's body ends, or its connection breaks.
ProviderEnds(r) ==
  /\ fetched[r] = "answered"
  /\ exchange[r] = "open"
  /\ exchange' = Closed(r)
  /\ UNCHANGED <<phase, deadline, fetched, replayVars>>

(***************************************************************************)
(* The provider's body is wrapped by keepDeadlineUntilStreamEnds, and the   *)
(* sealer reads the wrapper.  The wrapper reads one chunk ahead of it: here *)
(* it finds the end, or the failure.                                       *)
(***************************************************************************)
WrapperFinishes(r) ==
  /\ fetched[r] = "answered"
  /\ phase[r] \in {"sealing", "streaming", "cancelling", "done"}
  /\ exchange[r] = "closed"
  /\ deadline[r] = "armed"
  /\ deadline' = CancelledDeadline(r)
  /\ UNCHANGED <<phase, fetched, exchange, replayVars>>

\* The sealed body ends: with nothing to wrap, or when the wrapper has finished.
StreamEnds(r) ==
  /\ phase[r] = "streaming"
  /\ exchange[r] # "open"
  /\ deadline[r] # "armed"
  /\ Finish(r)
  /\ UNCHANGED <<callVars, replayVars>>

\* A frame cannot be sealed: the stream errors, and nobody reads on.
FrameSealingFails(r) ==
  /\ phase[r] = "streaming"
  /\ Finish(r)
  /\ UNCHANGED <<callVars, replayVars>>

\* The wrapper cancels the deadline and awaits that before it cancels the body.
CancelWrapper(r) ==
  /\ Goto(r, "closing")
  /\ deadline' = CancelledDeadline(r)
  /\ UNCHANGED <<fetched, exchange, replayVars>>

\* More than the limit: the source is stopped first, then the stream errors.
BodyTooLong(r) ==
  /\ phase[r] = "streaming"
  /\ fetched[r] = "answered"
  /\ CancelWrapper(r)

(***************************************************************************)
(* The Relay cancels.  The abort reaches the wrapper at once if the          *)
(* generator has started; otherwise its return() is awaited first.          *)
(***************************************************************************)
StreamCancelled(r) ==
  /\ phase[r] = "streaming"
  /\ \/ CancelWrapper(r)
     \/ Goto(r, "cancelling") /\ UNCHANGED <<callVars, replayVars>>

CancelUnstarted(r) ==
  /\ phase[r] = "cancelling"
  /\ CancelWrapper(r)

\* A refusal, or an answer without a body, has no exchange to close.
CancelReachesProvider(r) ==
  /\ phase[r] = "closing"
  /\ Finish(r)
  /\ exchange' = IF exchange[r] = "open" THEN Closed(r) ELSE exchange
  /\ UNCHANGED <<deadline, fetched, replayVars>>

\* The connection sends another request once nothing of the last one is left.
NextRequest(r) ==
  /\ phase[r] = "done"
  /\ deadline[r] # "armed"
  /\ exchange[r] # "open"
  /\ Goto(r, "idle")
  /\ deadline' = [deadline EXCEPT ![r] = "none"]
  /\ fetched' = [fetched EXCEPT ![r] = "none"]
  /\ exchange' = [exchange EXCEPT ![r] = "none"]
  /\ UNCHANGED replayVars
-----------------------------------------------------------------------------
Admission(r) == RefuseUnknown(r) \/ StartReading(r)

ReadEnvelope(r) == FailEnvelope(r) \/ StartOpening(r)

OpenEnvelope(r) == FailOpening(r) \/ ClaimOpened(r)

AfterFetch(r) == ProviderFails(r) \/ ProviderAnswersEmpty(r) \/ ProviderAnswers(r)

SealAnswer(r) == SealingEnds(r) \/ SealingFails(r)

Stream(r) ==
  StreamEnds(r) \/ FrameSealingFails(r) \/ BodyTooLong(r) \/ StreamCancelled(r)

CancelBody(r) == CancelUnstarted(r) \/ CancelReachesProvider(r)

Step(r) ==
  \/ Admission(r)
  \/ ReadEnvelope(r)
  \/ OpenEnvelope(r)
  \/ FetchSettles(r)
  \/ DeadlineFires(r)
  \/ AfterFetch(r)
  \/ SealAnswer(r)
  \/ RelayDisconnects(r)
  \/ ProviderEnds(r)
  \/ WrapperFinishes(r)
  \/ Stream(r)
  \/ CancelBody(r)
  \/ NextRequest(r)

Next == \E r \in Requests : Step(r)

Spec == Init /\ [][Next]_vars

(***************************************************************************)
(* Promises settle, the runtime resumes their fibers and fires timers that  *)
(* are due.  Nothing is assumed of the provider (a fetch need never settle, *)
(* a body need never end) or of the Relay (it need not read a body).        *)
(***************************************************************************)
Fairness ==
  \A r \in Requests :
    /\ WF_vars(OpenEnvelope(r))
    /\ WF_vars(DeadlineFires(r))
    /\ WF_vars(AfterFetch(r))
    /\ WF_vars(SealAnswer(r))
    /\ WF_vars(CancelBody(r))

FairSpec == Spec /\ Fairness
-----------------------------------------------------------------------------
TypeOK ==
  /\ phase \in [Requests -> {"idle", "reading", "opening", "calling", "sealing",
                             "streaming", "cancelling", "closing", "done"}]
  /\ deadline \in [Requests -> {"none", "armed", "cancelled", "fired"}]
  /\ fetched \in [Requests -> {"none", "answered", "empty", "failed"}]
  /\ exchange \in [Requests -> {"none", "open", "closed"}]

(***************************************************************************)
(* Whatever ends a request between the call to the provider and the last    *)
(* byte of its answer (a disconnect while the answer is being sealed, a     *)
(* sealing that fails, at once or in the middle of the body), an exchange   *)
(* still open has a deadline running that will end it.  The one moment      *)
(* without a deadline is inside a cancellation, which has cancelled it and, *)
(* when that has settled, closes the exchange.                             *)
(***************************************************************************)
OpenExchangeHasDeadline ==
  \A r \in Requests :
    exchange[r] = "open" => deadline[r] = "armed" \/ phase[r] = "closing"

(***************************************************************************)
(* The provider is called at most once in the window of an envelope,        *)
(* however many copies are being opened at the same time; and only a copy   *)
(* that opened uses an envelope up: a damaged one that overtakes the real   *)
(* one cannot make the Exit refuse it.                                     *)
(***************************************************************************)
IsCalled(r) == exchange[r] = "none" /\ exchange'[r] = "open"

IsOpened(r) == phase[r] = "opening" /\ phase'[r] \in {"calling", "sealing"}

CalledOncePerWindow ==
  [][/\ \A r \in Requests : IsCalled(r) => ~Replay!InWindow(Key(r), now')
     /\ \A r \in Requests :
          acceptedAt'[Key(r)] # acceptedAt[Key(r)] =>
            \E q \in Requests : KeyOf[q] = KeyOf[r] /\ IsOpened(q)]_vars

(***************************************************************************)
(* Whatever the provider does, a request that has been read is answered,    *)
(* and no exchange with the provider outlives its request for ever.        *)
(***************************************************************************)
RequestsSettle ==
  \A r \in Requests :
    /\ phase[r] = "opening" ~> phase[r] \in {"streaming", "done"}
    /\ exchange[r] = "open" ~> exchange[r] # "open"
=============================================================================
