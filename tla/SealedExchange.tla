--------------------------- MODULE SealedExchange ---------------------------
(***************************************************************************)
(* What the sealing protocol (packages/protocol) promises to the Exit and   *)
(* the Sidecar that use it.  Sidecars seal requests, the Exit opens what    *)
(* reaches it and answers in sealed frames, and one Sidecar opens what      *)
(* reaches that.  Between them any part of a message may be exchanged for   *)
(* the same part of another one, and messages come in any order and again.  *)
(*                                                                         *)
(* HPKE is external and ideal.  A ciphertext is a record of what went into  *)
(* it: recipient key, info, encapsulated key and message count of its       *)
(* context, authenticated data and plaintext.  It opens if all but the      *)
(* plaintext are the same at the opener.  Key ids may share a private key,  *)
(* and here they do.  A request's id also names its encapsulated key, its   *)
(* response key and its payload; an answer's number names its encapsulated  *)
(* key.  Parties that seal messages of their own are not part of this.     *)
(***************************************************************************)
EXTENDS Integers, Sequences, FiniteSets

CONSTANTS
  Requests,      \* ids of the requests that Sidecars have sealed
  mine,          \* the one whose Sidecar opens frames here
  KeyIds,        \* ids of the Exit's private key
  exitKeyId,     \* the one that the Sidecars are configured with
  MaxAnswers,    \* bound: answers the Exit gives
  MaxFrames,     \* bound: frames in an answer
  MaxRestarts    \* bound: how often the Exit forgets its replay keys

ASSUME RequestsAssumption == mine \in Requests
ASSUME KeysAssumption == exitKeyId \in KeyIds
ASSUME BoundsAssumption == MaxAnswers \in Nat /\ MaxFrames \in Nat /\ MaxRestarts \in Nat

VARIABLES
  claimed,           \* the Exit's replay keys
  restarts,          \* how often it has forgotten them
  answers,           \* the Exit's answers and the frames sealed for each
  opener,            \* encapsulated key of the Sidecar's opener, 0 for none
  opened,            \* the frames it has opened
  rejected           \* whether it has rejected one, which ends it

exitVars == <<claimed, restarts, answers>>
sidecarVars == <<opener, opened, rejected>>
vars == <<exitVars, sidecarVars>>

NoKey == 0
Kinds == {"head", "data"}

Init ==
  /\ claimed = {} /\ restarts = 0 /\ answers = <<>>
  /\ opener = NoKey /\ opened = <<>> /\ rejected = FALSE
-----------------------------------------------------------------------------
(* Requests.                                                               *)

\* Faulty: leaves the key id out.
requestAadWithoutKeyId(requestId, keyId, responsePublicKey) ==
  <<requestId, responsePublicKey>>

\* Faulty: leaves the response key out.
requestAadWithoutResponseKey(requestId, keyId, responsePublicKey) ==
  <<requestId, keyId>>

requestAad(requestId, keyId, responsePublicKey) == <<requestId, keyId, responsePublicKey>>

sealRequest(r) ==
  [requestId |-> r, keyId |-> exitKeyId, encapsulatedKey |-> r, responsePublicKey |-> r,
   ciphertext |-> [enc |-> r, aad |-> requestAad(r, exitKeyId, r), payload |-> r]]

\* Envelopes that may reach the Exit.
Envelopes ==
  [requestId : Requests, keyId : KeyIds, encapsulatedKey : Requests,
   responsePublicKey : Requests, ciphertext : {sealRequest(r).ciphertext : r \in Requests}]

openRequest(e) ==
  /\ e.ciphertext.enc = e.encapsulatedKey
  /\ e.ciphertext.aad = requestAad(e.requestId, e.keyId, e.responsePublicKey)

ReplayKey(e) == <<e.keyId, e.encapsulatedKey>>

\* The Exit opens an envelope, claims it and will answer it.
AcceptRequest ==
  /\ Len(answers) < MaxAnswers
  /\ \E e \in Envelopes :
       /\ openRequest(e)
       /\ ReplayKey(e) \notin claimed
       /\ claimed' = claimed \cup {ReplayKey(e)}
       /\ answers' = Append(answers,
            [requestId |-> e.requestId, responsePublicKey |-> e.responsePublicKey,
             payload |-> e.ciphertext.payload, acceptedAfter |-> restarts, frames |-> <<>>])
  /\ UNCHANGED <<restarts, sidecarVars>>

\* The Exit restarts, or the window of its claims is over.
Restart ==
  /\ restarts < MaxRestarts
  /\ restarts' = restarts + 1
  /\ claimed' = {}
  /\ UNCHANGED <<answers, sidecarVars>>
-----------------------------------------------------------------------------
(* Frames.                                                                 *)

\* Faulty: leaves the final marker out.
frameAadWithoutFinal(requestId, sequence, kind, final) == <<requestId, sequence, kind>>

frameAad(requestId, sequence, kind, final) == <<requestId, sequence, kind, final>>

\* The next frame of answer i, with its place in the context of that answer.
sealFrame(i, sequence, kind, final) ==
  LET a == answers[i] IN
  [requestId |-> a.requestId, sequence |-> sequence, kind |-> kind, final |-> final,
   encapsulatedKey |-> IF sequence = 0 THEN i ELSE NoKey,
   ciphertext |->
     [context |-> [recipient |-> a.responsePublicKey, info |-> a.requestId, enc |-> i],
      count |-> Len(a.frames), aad |-> frameAad(a.requestId, sequence, kind, final)]]

\* sealProviderResponse: a head, data frames, the last of them final.
SealFrame ==
  /\ \E i \in DOMAIN answers, final \in BOOLEAN :
       LET sequence == Len(answers[i].frames) IN
       /\ sequence < MaxFrames
       /\ sequence = 0 => ~final
       /\ \A n \in 1..sequence : ~answers[i].frames[n].final
       /\ answers' = [answers EXCEPT ![i].frames = Append(@,
            sealFrame(i, sequence, IF sequence = 0 THEN "head" ELSE "data", final))]
  /\ UNCHANGED <<claimed, restarts, sidecarVars>>

SealedFrames ==
  UNION {{answers[i].frames[n] : n \in DOMAIN answers[i].frames} : i \in DOMAIN answers}

\* Frames that may reach the Sidecar.
Frames ==
  [requestId : Requests, sequence : 0..MaxFrames - 1, kind : Kinds, final : BOOLEAN,
   encapsulatedKey : {NoKey} \cup DOMAIN answers,
   ciphertext : {f.ciphertext : f \in SealedFrames}]

\* Faulty: does not look at the keys of later frames.
parseSealedFrameLoosely(f) ==
  /\ f.sequence = 0 => f.encapsulatedKey # NoKey
  /\ (f.sequence = 0) = (f.kind = "head")

parseSealedFrame(f) ==
  /\ (f.sequence = 0) = (f.encapsulatedKey # NoKey)
  /\ (f.sequence = 0) = (f.kind = "head")

\* Faulty: a new opener for every frame.
OpenerForEachFrame(f) == f.encapsulatedKey

\* createResponseOpener, from the first frame.
OpenerFor(f) == IF opener = NoKey THEN f.encapsulatedKey ELSE opener

\* openFrame; the context's count is the number of frames it has opened.
openFrame(f) ==
  /\ parseSealedFrame(f)
  /\ OpenerFor(f) # NoKey
  /\ f.requestId = mine
  /\ f.sequence = Len(opened)
  /\ f.ciphertext =
       [context |-> [recipient |-> mine, info |-> mine, enc |-> OpenerFor(f)],
        count |-> Len(opened), aad |-> frameAad(f.requestId, f.sequence, f.kind, f.final)]

Opening == ~rejected /\ \A n \in DOMAIN opened : ~opened[n].final

ReceiveFrame ==
  /\ Opening
  /\ \E f \in Frames :
       /\ openFrame(f)
       /\ opened' = Append(opened, f)
       /\ opener' = OpenerFor(f)
  /\ UNCHANGED <<exitVars, rejected>>

\* A frame that does not open, or comes after the final one.
RejectFrame ==
  /\ ~rejected
  /\ \E f \in Frames : ~openFrame(f) \/ ~Opening
  /\ rejected' = TRUE
  /\ UNCHANGED <<exitVars, opener, opened>>
-----------------------------------------------------------------------------
Next == AcceptRequest \/ Restart \/ SealFrame \/ ReceiveFrame \/ RejectFrame

Spec == Init /\ [][Next]_vars
-----------------------------------------------------------------------------
(***************************************************************************)
(* Whatever parts of requests are exchanged on the way, the answer to a     *)
(* payload is sealed for the Sidecar that sealed the payload, under the id  *)
(* that this Sidecar expects: nobody opens the answer to another's request. *)
(***************************************************************************)
AnswersForTheirSender ==
  \A i \in DOMAIN answers :
    /\ answers[i].responsePublicKey = answers[i].payload
    /\ answers[i].requestId = answers[i].payload

(***************************************************************************)
(* The replay key is in the clear, yet no change of it gets a request       *)
(* answered twice while the Exit remembers, although its key ids share a    *)
(* private key.                                                            *)
(***************************************************************************)
AnsweredOncePerClaim ==
  \A i, j \in DOMAIN answers :
    answers[i].payload = answers[j].payload
      /\ answers[i].acceptedAfter = answers[j].acceptedAfter => i = j

(***************************************************************************)
(* What the Sidecar has opened is the beginning of one answer, as it was    *)
(* sealed, even when its request was answered twice.                       *)
(***************************************************************************)
OpenedFromOneAnswer ==
  opened # <<>> =>
    \E i \in DOMAIN answers :
      /\ answers[i].payload = mine
      /\ Len(opened) <= Len(answers[i].frames)
      /\ opened = SubSeq(answers[i].frames, 1, Len(opened))

(***************************************************************************)
(* The documented promise that changing a bound value or a ciphertext makes *)
(* a frame fail (docs/security.md), and one that Sidecar.tla relies on:     *)
(* only frames as they were sealed open.                                   *)
(***************************************************************************)
OnlySealedFramesOpen ==
  Opening => \A f \in Frames : openFrame(f) => f \in SealedFrames

(***************************************************************************)
(* The other half of that: a frame sealed next, unchanged, does open.       *)
(***************************************************************************)
NextFrameOpens ==
  Opening => \A i \in DOMAIN answers :
    /\ opener = i \/ (opener = NoKey /\ answers[i].payload = mine)
    /\ Len(opened) < Len(answers[i].frames)
    => openFrame(answers[i].frames[Len(opened) + 1])
=============================================================================
