------------------------ MODULE SealedExchangeProofs ------------------------
(***************************************************************************)
(* Theorems about SealedExchange, for all requests, key ids and bounds; and, *)
(* from Intact on, about LocalStack, which hands the Exit and the Sidecar   *)
(* the two halves of the key pair that the exchange is sealed for.          *)
(***************************************************************************)
EXTENDS SealedExchange, LocalStack, TLAPS

Ciphertext ==
  [context : [recipient : Requests, info : Requests, enc : Nat],
   count : Nat, aad : Requests \X Nat \X Kinds \X BOOLEAN]
Frame ==
  [requestId : Requests, sequence : Nat, kind : Kinds, final : BOOLEAN,
   encapsulatedKey : Nat, ciphertext : Ciphertext]
Answer ==
  [requestId : Requests, responsePublicKey : Requests, payload : Requests,
   acceptedAfter : Nat, frames : Seq(Frame)]

\* The Exit's part: what it claimed is what it answered since it forgot.
ExitKept ==
  /\ restarts \in Nat
  /\ answers \in Seq(Answer)
  /\ AnswersForTheirSender
  /\ \A i \in DOMAIN answers :
       /\ answers[i].acceptedAfter <= restarts
       /\ answers[i].acceptedAfter = restarts
            => <<exitKeyId, answers[i].payload>> \in claimed
  /\ AnsweredOncePerClaim
-----------------------------------------------------------------------------
(***************************************************************************)
(* Of all the envelopes that parts of sealed requests make, the Exit opens  *)
(* only sealed requests.                                                   *)
(***************************************************************************)
LEMMA OnlySealedRequestsOpen ==
  ASSUME NEW e \in Envelopes, openRequest(e)
  PROVE  \E r \in Requests : e = sealRequest(r)
<1>1. PICK r \in Requests : e.ciphertext = sealRequest(r).ciphertext
  BY DEF Envelopes
<1>2. e.ciphertext = [enc |-> r, aad |-> <<r, exitKeyId, r>>, payload |-> r]
  BY <1>1 DEF sealRequest, requestAad
<1>3. e.encapsulatedKey = r /\ e.requestId = r /\ e.keyId = exitKeyId
        /\ e.responsePublicKey = r
  BY <1>2 DEF openRequest, requestAad
<1>4. e = [requestId |-> e.requestId, keyId |-> e.keyId,
           encapsulatedKey |-> e.encapsulatedKey,
           responsePublicKey |-> e.responsePublicKey, ciphertext |-> e.ciphertext]
  BY DEF Envelopes
<1>5. e = sealRequest(r)
  BY <1>1, <1>3, <1>4 DEF sealRequest
<1> QED BY <1>5

\* What AcceptRequest does: it adds an answer to a sealed request.
LEMMA AcceptAddsAnswer ==
  ASSUME ExitKept, AcceptRequest
  PROVE  \E r \in Requests :
           LET new == [requestId |-> r, responsePublicKey |-> r, payload |-> r,
                       acceptedAfter |-> restarts, frames |-> <<>>] IN
           /\ new \in Answer
           /\ <<exitKeyId, r>> \notin claimed
           /\ claimed' = claimed \cup {<<exitKeyId, r>>}
           /\ answers' = Append(answers, new)
<1>1. PICK e \in Envelopes :
        /\ openRequest(e)
        /\ ReplayKey(e) \notin claimed
        /\ claimed' = claimed \cup {ReplayKey(e)}
        /\ answers' = Append(answers,
             [requestId |-> e.requestId, responsePublicKey |-> e.responsePublicKey,
              payload |-> e.ciphertext.payload, acceptedAfter |-> restarts, frames |-> <<>>])
  BY DEF AcceptRequest
<1>2. PICK r \in Requests : e = sealRequest(r)
  BY <1>1, OnlySealedRequestsOpen
<1> DEFINE new == [requestId |-> r, responsePublicKey |-> r, payload |-> r,
                   acceptedAfter |-> restarts, frames |-> <<>>]
<1>3. ReplayKey(e) = <<exitKeyId, r>> /\ answers' = Append(answers, new)
  BY <1>1, <1>2 DEF sealRequest, ReplayKey
<1>4. new \in Answer
  BY DEF ExitKept, Answer
<1> QED BY <1>1, <1>3, <1>4

\* A claim answers one more request, one that no answer since then has.
LEMMA AcceptKeepsExit == ExitKept /\ AcceptRequest => ExitKept'
<1> SUFFICES ASSUME ExitKept, AcceptRequest PROVE ExitKept'
  OBVIOUS
<1>1. PICK r \in Requests :
        LET new == [requestId |-> r, responsePublicKey |-> r, payload |-> r,
                    acceptedAfter |-> restarts, frames |-> <<>>] IN
        /\ new \in Answer
        /\ <<exitKeyId, r>> \notin claimed
        /\ claimed' = claimed \cup {<<exitKeyId, r>>}
        /\ answers' = Append(answers, new)
  BY AcceptAddsAnswer
<1> DEFINE new == [requestId |-> r, responsePublicKey |-> r, payload |-> r,
                   acceptedAfter |-> restarts, frames |-> <<>>]
<1>2. /\ restarts \in Nat /\ restarts' = restarts /\ answers \in Seq(Answer)
      /\ new \in Answer /\ answers' = Append(answers, new)
  BY <1>1 DEF ExitKept, AcceptRequest
<1>3. /\ answers' \in Seq(Answer)
      /\ DOMAIN answers' = 1..Len(answers) + 1
      /\ \A i \in DOMAIN answers : answers'[i] = answers[i]
      /\ answers'[Len(answers) + 1] = new
      /\ DOMAIN answers = 1..Len(answers) /\ Len(answers) \in Nat
  <2> HIDE DEF new
  <2> QED BY <1>2
<1>4. \A i \in DOMAIN answers :
        answers[i].acceptedAfter = restarts => answers[i].payload # r
  BY <1>1 DEF ExitKept
<1>5. AnswersForTheirSender'
  BY <1>3 DEF ExitKept, AnswersForTheirSender
<1>6. (\A i \in DOMAIN answers :
         /\ answers[i].acceptedAfter <= restarts
         /\ answers[i].acceptedAfter = restarts
              => <<exitKeyId, answers[i].payload>> \in claimed)'
  BY <1>1, <1>2, <1>3 DEF ExitKept
<1>7. AnsweredOncePerClaim'
  <2> SUFFICES ASSUME NEW i \in DOMAIN answers', NEW j \in DOMAIN answers',
                      answers'[i].payload = answers'[j].payload,
                      answers'[i].acceptedAfter = answers'[j].acceptedAfter
               PROVE  i = j
    BY DEF AnsweredOncePerClaim
  <2>1. CASE i \in DOMAIN answers /\ j \in DOMAIN answers
    BY <2>1, <1>3 DEF ExitKept, AnsweredOncePerClaim
  <2>2. CASE i \in DOMAIN answers /\ j = Len(answers) + 1
    BY <2>2, <1>3, <1>4
  <2>3. CASE i = Len(answers) + 1 /\ j \in DOMAIN answers
    BY <2>3, <1>3, <1>4
  <2>4. CASE i = Len(answers) + 1 /\ j = Len(answers) + 1
    BY <2>4
  <2> QED BY <1>3, <2>1, <2>2, <2>3, <2>4
<1> QED BY <1>2, <1>3, <1>5, <1>6, <1>7 DEF ExitKept

\* A restart forgets the claims, and no answer counts as given since then.
LEMMA RestartKeepsExit == ExitKept /\ Restart => ExitKept'
<1> SUFFICES ASSUME ExitKept, Restart PROVE ExitKept'
  OBVIOUS
<1>1. /\ restarts \in Nat /\ restarts' = restarts + 1 /\ answers' = answers
      /\ answers \in Seq(Answer)
  BY DEF Restart, ExitKept
<1>2. ASSUME NEW i \in DOMAIN answers PROVE answers[i].acceptedAfter \in Nat
  <2>1. answers[i] \in Answer
    BY <1>1
  <2> QED BY <2>1 DEF Answer
<1>3. \A i \in DOMAIN answers : answers[i].acceptedAfter <= restarts
  BY DEF ExitKept
<1>4. AnswersForTheirSender' /\ AnsweredOncePerClaim'
  BY <1>1 DEF ExitKept, AnswersForTheirSender, AnsweredOncePerClaim
<1> QED BY <1>1, <1>2, <1>3, <1>4 DEF ExitKept
-----------------------------------------------------------------------------
\* The frames of an answer are what was sealed for it, one after another.
SealedInPlace(i, n) ==
  LET f == answers[i].frames[n] IN
  /\ f.requestId = answers[i].requestId /\ f.sequence = n - 1
  /\ f.encapsulatedKey = IF n = 1 THEN i ELSE NoKey
  /\ (f.sequence = 0) = (f.kind = "head")
  /\ f.ciphertext =
       [context |-> [recipient |-> answers[i].responsePublicKey,
                     info |-> answers[i].requestId, enc |-> i],
        count |-> n - 1, aad |-> <<f.requestId, f.sequence, f.kind, f.final>>]

FramesKept ==
  \A i \in DOMAIN answers : \A n \in DOMAIN answers[i].frames : SealedInPlace(i, n)

\* What SealFrame does: it adds a frame to one answer and leaves the rest.
LEMMA SealAddsFrame ==
  ASSUME ExitKept, SealFrame
  PROVE  \E i \in DOMAIN answers : \E frameKind \in Kinds, final \in BOOLEAN :
           LET sequence == Len(answers[i].frames)
               new == sealFrame(i, sequence, frameKind, final) IN
           /\ sequence \in Nat /\ i \in Nat \ {0}
           /\ (sequence = 0) = (frameKind = "head")
           /\ new \in Frame
           /\ answers' = [answers EXCEPT ![i].frames = Append(@, new)]
           /\ answers' \in Seq(Answer)
           /\ DOMAIN answers' = DOMAIN answers
           /\ \A j \in DOMAIN answers : j # i => answers'[j] = answers[j]
           /\ \A field \in {"requestId", "responsePublicKey", "payload", "acceptedAfter"} :
                answers'[i][field] = answers[i][field]
           /\ answers'[i].frames = Append(answers[i].frames, new)
<1>1. PICK i \in DOMAIN answers, final \in BOOLEAN :
        LET sequence == Len(answers[i].frames) IN
        answers' = [answers EXCEPT ![i].frames = Append(@,
          sealFrame(i, sequence, IF sequence = 0 THEN "head" ELSE "data", final))]
  BY DEF SealFrame
<1> DEFINE sequence == Len(answers[i].frames)
           frameKind == IF sequence = 0 THEN "head" ELSE "data"
           new == sealFrame(i, sequence, frameKind, final)
<1>2. answers \in Seq(Answer)
  BY DEF ExitKept
<1>3. answers[i] \in Answer /\ i \in Nat \ {0}
  BY <1>2
<1>4. sequence \in Nat /\ frameKind \in Kinds /\ (sequence = 0) = (frameKind = "head")
  BY <1>3 DEF Answer, Kinds
<1>5. new \in Frame
  BY <1>3, <1>4 DEF sealFrame, frameAad, Frame, Ciphertext, Answer, NoKey
<1>6. answers' = [answers EXCEPT ![i].frames = Append(@, new)]
  BY <1>1
<1> DEFINE answer == [answers[i] EXCEPT !.frames = Append(answers[i].frames, new)]
<1>7. answer \in Answer
  <2> HIDE DEF new
  <2> QED BY <1>3, <1>5 DEF Answer
<1>8. /\ answers' \in Seq(Answer)
      /\ DOMAIN answers' = DOMAIN answers
      /\ \A j \in DOMAIN answers : j # i => answers'[j] = answers[j]
      /\ answers'[i] = answer
  <2> HIDE DEF new
  <2> QED BY <1>2, <1>6, <1>7
<1>9. /\ \A field \in {"requestId", "responsePublicKey", "payload", "acceptedAfter"} :
           answer[field] = answers[i][field]
      /\ answer.frames = Append(answers[i].frames, new)
  <2> HIDE DEF new
  <2> QED BY <1>3 DEF Answer
<1> HIDE DEF frameKind
<1> QED BY <1>3, <1>4, <1>5, <1>6, <1>8, <1>9

\* A frame more changes nothing that the Exit's part speaks of.
LEMMA SealKeepsExit == ExitKept /\ SealFrame => ExitKept'
<1> SUFFICES ASSUME ExitKept, SealFrame PROVE ExitKept'
  OBVIOUS
<1>1. /\ answers' \in Seq(Answer) /\ DOMAIN answers' = DOMAIN answers
      /\ \A j \in DOMAIN answers :
           /\ answers'[j].requestId = answers[j].requestId
           /\ answers'[j].responsePublicKey = answers[j].responsePublicKey
           /\ answers'[j].payload = answers[j].payload
           /\ answers'[j].acceptedAfter = answers[j].acceptedAfter
  BY SealAddsFrame
<1>2. claimed' = claimed /\ restarts' = restarts
  BY DEF SealFrame
<1> QED BY <1>1, <1>2 DEF ExitKept, AnswersForTheirSender, AnsweredOncePerClaim

\* A new answer has no frames, and the others keep theirs.
LEMMA AcceptKeepsFrames == ExitKept /\ FramesKept /\ AcceptRequest => FramesKept'
<1> SUFFICES ASSUME ExitKept, FramesKept, AcceptRequest PROVE FramesKept'
  OBVIOUS
<1>1. PICK r \in Requests :
        LET new == [requestId |-> r, responsePublicKey |-> r, payload |-> r,
                    acceptedAfter |-> restarts, frames |-> <<>>] IN
        new \in Answer /\ answers' = Append(answers, new)
  BY AcceptAddsAnswer
<1> DEFINE new == [requestId |-> r, responsePublicKey |-> r, payload |-> r,
                   acceptedAfter |-> restarts, frames |-> <<>>]
<1>2. /\ answers \in Seq(Answer) /\ new \in Answer
      /\ answers' = Append(answers, new) /\ new.frames = <<>>
  BY <1>1 DEF ExitKept
<1> HIDE DEF new
<1>3. /\ DOMAIN answers' = DOMAIN answers \cup {Len(answers) + 1}
      /\ \A i \in DOMAIN answers : answers'[i] = answers[i]
      /\ answers'[Len(answers) + 1] = new
  BY <1>2
<1>4. DOMAIN answers'[Len(answers) + 1].frames = {}
  BY <1>2, <1>3
<1> QED BY <1>3, <1>4 DEF FramesKept, SealedInPlace

\* The added frame is sealed for the next place in its answer.
LEMMA SealKeepsFrames == ExitKept /\ FramesKept /\ SealFrame => FramesKept'
<1> SUFFICES ASSUME ExitKept, FramesKept, SealFrame PROVE FramesKept'
  OBVIOUS
<1>1. PICK i \in DOMAIN answers, frameKind \in Kinds, final \in BOOLEAN :
        LET sequence == Len(answers[i].frames)
            new == sealFrame(i, sequence, frameKind, final) IN
        /\ sequence \in Nat /\ i \in Nat \ {0}
        /\ (sequence = 0) = (frameKind = "head")
        /\ new \in Frame
        /\ answers' \in Seq(Answer)
        /\ DOMAIN answers' = DOMAIN answers
        /\ \A j \in DOMAIN answers : j # i => answers'[j] = answers[j]
        /\ \A field \in {"requestId", "responsePublicKey", "payload", "acceptedAfter"} :
             answers'[i][field] = answers[i][field]
        /\ answers'[i].frames = Append(answers[i].frames, new)
  BY SealAddsFrame
<1> DEFINE last == Len(answers[i].frames) + 1
           new == sealFrame(i, last - 1, frameKind, final)
<1>2. answers[i].frames \in Seq(Frame)
  <2>1. answers[i] \in Answer
    BY DEF ExitKept
  <2> QED BY <2>1 DEF Answer
<1>3. /\ last \in Nat \ {0} /\ new \in Frame
      /\ answers'[i].frames = Append(answers[i].frames, new)
  BY <1>1
<1>4. /\ new.requestId = answers[i].requestId /\ new.sequence = last - 1
      /\ new.encapsulatedKey = IF last = 1 THEN i ELSE NoKey
      /\ (new.sequence = 0) = (new.kind = "head")
      /\ new.ciphertext =
           [context |-> [recipient |-> answers[i].responsePublicKey,
                         info |-> answers[i].requestId, enc |-> i],
            count |-> last - 1,
            aad |-> <<new.requestId, new.sequence, new.kind, new.final>>]
  BY <1>1, <1>3 DEF sealFrame, frameAad
<1>5. /\ DOMAIN answers'[i].frames = DOMAIN answers[i].frames \cup {last}
      /\ \A n \in DOMAIN answers[i].frames : answers'[i].frames[n] = answers[i].frames[n]
      /\ answers'[i].frames[last] = new
  <2> HIDE DEF new
  <2> QED BY <1>2, <1>3
<1>6. ASSUME NEW j \in DOMAIN answers', NEW n \in DOMAIN answers'[j].frames
      PROVE  SealedInPlace(j, n)'
  <2>1. CASE j # i
    BY <2>1, <1>1 DEF FramesKept, SealedInPlace
  <2>2. CASE j = i /\ n # last
    BY <2>2, <1>1, <1>5 DEF FramesKept, SealedInPlace
  <2>3. CASE j = i /\ n = last
    <3> HIDE DEF new
    <3> QED BY <2>3, <1>1, <1>4, <1>5 DEF SealedInPlace
  <2> QED BY <2>1, <2>2, <2>3
<1> QED BY <1>6 DEF FramesKept
-----------------------------------------------------------------------------
\* What the Sidecar opened is the beginning of the answer its opener is for.
OpenedKept ==
  /\ opened \in Seq(Frame)
  /\ opener = NoKey <=> opened = <<>>
  /\ opened # <<>> =>
       /\ opener \in DOMAIN answers
       /\ answers[opener].payload = mine
       /\ Len(opened) <= Len(answers[opener].frames)
       /\ \A n \in 1..Len(opened) : opened[n] = answers[opener].frames[n]

(***************************************************************************)
(* A frame opens only as the next of one answer: the context says which     *)
(* answer, its count says which frame, and the authenticated data and the   *)
(* parser say that the frame's fields are those it was sealed with.         *)
(***************************************************************************)
LEMMA OnlyNextFrameOpens ==
  ASSUME ExitKept, FramesKept, OpenedKept, NEW f \in Frames, openFrame(f)
  PROVE  /\ OpenerFor(f) \in DOMAIN answers
         /\ answers[OpenerFor(f)].payload = mine
         /\ Len(opened) + 1 \in DOMAIN answers[OpenerFor(f)].frames
         /\ f = answers[OpenerFor(f)].frames[Len(opened) + 1]
<1>0. PICK i \in DOMAIN answers :
        \E n \in DOMAIN answers[i].frames : f.ciphertext = answers[i].frames[n].ciphertext
  BY DEF Frames, SealedFrames
<1>1. PICK n \in DOMAIN answers[i].frames : f.ciphertext = answers[i].frames[n].ciphertext
  BY <1>0
<1> DEFINE g == answers[i].frames[n]
<1>2. answers[i] \in Answer /\ answers[i].frames \in Seq(Frame) /\ i \in Nat \ {0}
  <2>1. answers[i] \in Answer /\ i \in Nat \ {0}
    BY DEF ExitKept
  <2> QED BY <2>1 DEF Answer
<1>3. g \in Frame /\ n \in Nat \ {0} /\ SealedInPlace(i, n)
  BY <1>2 DEF FramesKept
<1>4. /\ i = OpenerFor(f) /\ answers[i].requestId = mine /\ n - 1 = Len(opened)
      /\ <<g.requestId, g.sequence, g.kind, g.final>>
           = <<f.requestId, f.sequence, f.kind, f.final>>
  BY <1>1, <1>3 DEF SealedInPlace, openFrame, frameAad
<1>5. answers[i].payload = mine
  BY <1>4 DEF ExitKept, AnswersForTheirSender
<1>6. n = Len(opened) + 1
  BY <1>3, <1>4 DEF OpenedKept
<1>7. f.encapsulatedKey = g.encapsulatedKey
  <2>1. g.encapsulatedKey = IF n = 1 THEN i ELSE NoKey
    BY <1>3 DEF SealedInPlace
  <2>2. f.sequence = n - 1 /\ (f.sequence = 0) = (f.encapsulatedKey # NoKey)
    BY <1>4 DEF openFrame, parseSealedFrame
  <2>3. n = 1 => opener = NoKey
    BY <1>6 DEF OpenedKept
  <2> QED BY <1>3, <1>4, <2>1, <2>2, <2>3 DEF OpenerFor
<1>8. f = g
  <2>1. f = [requestId |-> f.requestId, sequence |-> f.sequence, kind |-> f.kind,
             final |-> f.final, encapsulatedKey |-> f.encapsulatedKey,
             ciphertext |-> f.ciphertext]
    BY DEF Frames
  <2>2. g = [requestId |-> g.requestId, sequence |-> g.sequence, kind |-> g.kind,
             final |-> g.final, encapsulatedKey |-> g.encapsulatedKey,
             ciphertext |-> g.ciphertext]
    BY <1>3 DEF Frame
  <2>3. f.ciphertext = g.ciphertext
    BY <1>1
  <2> HIDE DEF g
  <2> QED BY <1>4, <1>7, <2>1, <2>2, <2>3
<1> QED BY <1>4, <1>5, <1>6, <1>8

\* A frame more, or an answer more, leaves the opened frames where they are.
LEMMA ExitKeepsOpened ==
  ExitKept /\ OpenedKept /\ (AcceptRequest \/ SealFrame) => OpenedKept'
<1> SUFFICES ASSUME ExitKept, OpenedKept, AcceptRequest \/ SealFrame PROVE OpenedKept'
  OBVIOUS
<1>1. opener' = opener /\ opened' = opened
  BY DEF AcceptRequest, SealFrame, sidecarVars
<1>2. ASSUME NEW i \in DOMAIN answers
      PROVE  /\ i \in DOMAIN answers' /\ answers'[i].payload = answers[i].payload
             /\ Len(answers[i].frames) \in Nat
             /\ Len(answers[i].frames) <= Len(answers'[i].frames)
             /\ \A n \in 1..Len(answers[i].frames) :
                  answers'[i].frames[n] = answers[i].frames[n]
  <2>1. answers \in Seq(Answer) /\ answers[i].frames \in Seq(Frame)
    <3>1. answers \in Seq(Answer) /\ answers[i] \in Answer
      BY DEF ExitKept
    <3> QED BY <3>1 DEF Answer
  <2>2. CASE AcceptRequest
    <3>1. PICK new : new \in Answer /\ answers' = Append(answers, new)
      BY <2>2, AcceptAddsAnswer
    <3>2. i \in DOMAIN answers' /\ answers'[i] = answers[i]
      BY <2>1, <3>1
    <3> QED BY <2>1, <3>2
  <2>3. CASE SealFrame
    <3>1. PICK j \in DOMAIN answers, new \in Frame :
            /\ DOMAIN answers' = DOMAIN answers
            /\ i # j => answers'[i] = answers[i]
            /\ answers'[j].payload = answers[j].payload
            /\ answers'[j].frames = Append(answers[j].frames, new)
      BY <2>3, SealAddsFrame
    <3>2. CASE i # j
      BY <2>1, <3>1, <3>2
    <3>3. CASE i = j
      <4> DEFINE frames == answers[i].frames
      <4>1. frames \in Seq(Frame) /\ answers'[i].frames = Append(frames, new)
        BY <2>1, <3>1, <3>3
      <4>2. /\ Len(frames) \in Nat /\ Len(Append(frames, new)) = Len(frames) + 1
            /\ \A n \in 1..Len(frames) : Append(frames, new)[n] = frames[n]
        <5> HIDE DEF frames
        <5> QED BY <4>1
      <4>3. i \in DOMAIN answers' /\ answers'[i].payload = answers[i].payload
        BY <3>1, <3>3
      <4> QED BY <4>1, <4>2, <4>3
    <3> QED BY <3>2, <3>3
  <2> QED BY <2>2, <2>3
<1> QED BY <1>1, <1>2 DEF OpenedKept

\* The frame received is the next of the answer, or the first of one.
LEMMA ReceiveKeepsOpened ==
  ExitKept /\ FramesKept /\ OpenedKept /\ ReceiveFrame => OpenedKept'
<1> SUFFICES ASSUME ExitKept, FramesKept, OpenedKept, ReceiveFrame PROVE OpenedKept'
  OBVIOUS
<1>1. PICK f \in Frames :
        openFrame(f) /\ opened' = Append(opened, f) /\ opener' = OpenerFor(f)
  BY DEF ReceiveFrame
<1> DEFINE i == OpenerFor(f)
<1>2. /\ i \in DOMAIN answers /\ answers[i].payload = mine
      /\ Len(opened) + 1 \in DOMAIN answers[i].frames
      /\ f = answers[i].frames[Len(opened) + 1]
  BY <1>1, OnlyNextFrameOpens
<1>3. answers[i].frames \in Seq(Frame) /\ i # NoKey
  <2>1. answers[i] \in Answer /\ i \in Nat \ {0}
    BY <1>2 DEF ExitKept
  <2> QED BY <2>1 DEF Answer, NoKey
<1>4. opened # <<>> => i = opener
  BY DEF OpenedKept, OpenerFor
<1>5. answers' = answers
  BY DEF ReceiveFrame, exitVars
<1>6. opened \in Seq(Frame) /\ f \in Frame
  BY <1>2, <1>3 DEF OpenedKept
<1>7. /\ opened' \in Seq(Frame) /\ opened' # <<>> /\ Len(opened') = Len(opened) + 1
      /\ \A n \in 1..Len(opened) : opened'[n] = opened[n]
      /\ opened'[Len(opened) + 1] = f
  BY <1>1, <1>6
<1>8. \A n \in 1..Len(opened) : opened[n] = answers[i].frames[n]
  BY <1>4, <1>6 DEF OpenedKept
<1>9. opener' = i
  BY <1>1
<1> HIDE DEF i
<1> QED BY <1>2, <1>3, <1>5, <1>6, <1>7, <1>8, <1>9 DEF OpenedKept
-----------------------------------------------------------------------------
(* The inductive invariant.                                                *)

IInv == ExitKept /\ FramesKept /\ OpenedKept

LEMMA InitKeepsIInv == Init => IInv
BY DEF Init, IInv, ExitKept, FramesKept, OpenedKept, AnswersForTheirSender,
       AnsweredOncePerClaim, NoKey

LEMMA NextKeepsIInv == IInv /\ [Next]_vars => IInv'
<1> SUFFICES ASSUME IInv, [Next]_vars PROVE IInv'
  OBVIOUS
<1> USE DEF IInv
<1>1. CASE AcceptRequest
  BY <1>1, AcceptKeepsExit, AcceptKeepsFrames, ExitKeepsOpened
<1>2. CASE Restart
  <2>1. answers' = answers /\ opener' = opener /\ opened' = opened
    BY <1>2 DEF Restart, sidecarVars
  <2> QED BY <1>2, <2>1, RestartKeepsExit DEF FramesKept, SealedInPlace, OpenedKept
<1>3. CASE SealFrame
  BY <1>3, SealKeepsExit, SealKeepsFrames, ExitKeepsOpened
<1>4. CASE ReceiveFrame
  <2>1. UNCHANGED exitVars
    BY <1>4 DEF ReceiveFrame
  <2>2. ExitKept' /\ FramesKept'
    BY <2>1 DEF exitVars, ExitKept, FramesKept, SealedInPlace, AnswersForTheirSender,
                AnsweredOncePerClaim
  <2> QED BY <1>4, <2>2, ReceiveKeepsOpened
<1>5. CASE RejectFrame \/ UNCHANGED vars
  <2>1. UNCHANGED <<exitVars, opener, opened>>
    BY <1>5 DEF RejectFrame, vars, sidecarVars
  <2> QED BY <2>1 DEF exitVars, ExitKept, FramesKept, SealedInPlace, OpenedKept,
                      AnswersForTheirSender, AnsweredOncePerClaim
<1> QED BY <1>1, <1>2, <1>3, <1>4, <1>5 DEF Next
-----------------------------------------------------------------------------
(***************************************************************************)
(* The exchange as a whole keeps its inductive invariant.                   *)
(***************************************************************************)
THEOREM ExchangeKept == Spec => []IInv
BY InitKeepsIInv, NextKeepsIInv, PTL DEF Spec

(***************************************************************************)
(* Every answer is for the Sidecar that sealed the request.                 *)
(***************************************************************************)
THEOREM ForTheirSender == Spec => []AnswersForTheirSender
<1>1. IInv => AnswersForTheirSender
  BY DEF IInv, ExitKept
<1> QED BY <1>1, ExchangeKept, PTL

(***************************************************************************)
(* No request is answered twice between two restarts of the Exit.           *)
(***************************************************************************)
THEOREM OncePerClaim == Spec => []AnsweredOncePerClaim
<1>1. IInv => AnsweredOncePerClaim
  BY DEF IInv, ExitKept
<1> QED BY <1>1, ExchangeKept, PTL

(***************************************************************************)
(* What a Sidecar opens is the beginning of one answer to its request.      *)
(***************************************************************************)
THEOREM OneAnswer == Spec => []OpenedFromOneAnswer
<1>1. IInv => OpenedFromOneAnswer
  <2> SUFFICES ASSUME IInv, opened # <<>>
               PROVE  opened = SubSeq(answers[opener].frames, 1, Len(opened))
    BY DEF IInv, OpenedKept, OpenedFromOneAnswer
  <2> DEFINE frames == answers[opener].frames
             m == Len(opened)
  <2>1. frames \in Seq(Frame)
    <3>1. answers[opener] \in Answer
      BY DEF IInv, ExitKept, OpenedKept
    <3> QED BY <3>1 DEF Answer
  <2>2. /\ opened \in Seq(Frame) /\ m \in Nat /\ m <= Len(frames)
        /\ \A n \in 1..m : opened[n] = frames[n]
    BY DEF IInv, OpenedKept
  <2>3. /\ SubSeq(frames, 1, m) \in Seq(Frame) /\ Len(SubSeq(frames, 1, m)) = m
        /\ \A n \in 1..m : SubSeq(frames, 1, m)[n] = frames[n]
    <3> HIDE DEF frames, m
    <3> QED BY <2>1, <2>2
  <2>4. opened = [n \in 1..m |-> opened[n]]
    BY <2>2
  <2>5. SubSeq(frames, 1, m) = [n \in 1..m |-> SubSeq(frames, 1, m)[n]]
    <3> HIDE DEF frames, m
    <3> QED BY <2>3
  <2>6. opened = SubSeq(frames, 1, m)
    <3> HIDE DEF frames, m
    <3> QED BY <2>2, <2>3, <2>4, <2>5
  <2> QED BY <2>6
<1> QED BY <1>1, ExchangeKept, PTL

(***************************************************************************)
(* No frame opens but one that was sealed, with every field as it was.      *)
(***************************************************************************)
THEOREM OnlySealed == Spec => []OnlySealedFramesOpen
<1>1. IInv => OnlySealedFramesOpen
  <2> SUFFICES ASSUME IInv, NEW f \in Frames, openFrame(f) PROVE f \in SealedFrames
    BY DEF OnlySealedFramesOpen
  <2> QED BY OnlyNextFrameOpens DEF IInv, SealedFrames
<1> QED BY <1>1, ExchangeKept, PTL

(***************************************************************************)
(* The next frame of the answer being opened opens, if it comes unchanged.  *)
(***************************************************************************)
THEOREM NextOpens == Spec => []NextFrameOpens
<1>1. IInv => NextFrameOpens
  <2> SUFFICES ASSUME IInv, NEW i \in DOMAIN answers,
                      opener = i \/ (opener = NoKey /\ answers[i].payload = mine),
                      Len(opened) < Len(answers[i].frames)
               PROVE  openFrame(answers[i].frames[Len(opened) + 1])
    BY DEF NextFrameOpens
  <2> DEFINE n == Len(opened) + 1
             f == answers[i].frames[n]
  <2>1. answers[i].frames \in Seq(Frame) /\ i \in Nat \ {0}
    <3>1. answers[i] \in Answer /\ i \in Nat \ {0}
      BY DEF IInv, ExitKept
    <3> QED BY <3>1 DEF Answer
  <2>2. n \in Nat \ {0} /\ n \in DOMAIN answers[i].frames
    BY <2>1 DEF IInv, OpenedKept
  <2>3. SealedInPlace(i, n)
    BY <2>2 DEF IInv, FramesKept
  <2>4. answers[i].payload = mine /\ (opener = NoKey <=> n = 1)
    BY <2>1 DEF IInv, OpenedKept, NoKey
  <2>5. answers[i].requestId = mine /\ answers[i].responsePublicKey = mine
    BY <2>4 DEF IInv, ExitKept, AnswersForTheirSender
  <2>6. OpenerFor(f) = i /\ i # NoKey
    BY <2>1, <2>3, <2>4 DEF SealedInPlace, OpenerFor, NoKey
  <2>7. /\ f.requestId = mine /\ f.sequence = Len(opened)
        /\ (f.sequence = 0) = (f.encapsulatedKey # NoKey)
        /\ (f.sequence = 0) = (f.kind = "head")
        /\ f.ciphertext =
             [context |-> [recipient |-> mine, info |-> mine, enc |-> i],
              count |-> Len(opened), aad |-> <<f.requestId, f.sequence, f.kind, f.final>>]
    BY <2>2, <2>3, <2>5, <2>6 DEF SealedInPlace
  <2> QED BY <2>6, <2>7 DEF openFrame, parseSealedFrame, frameAad
<1> QED BY <1>1, ExchangeKept, PTL
-----------------------------------------------------------------------------
\* Neither of the two accidents that leave halves of two pairs has happened.
Intact == ~forcedCut /\ ~overlapped

\* Where a process may be, and that only a stack that was launched has services.
PlaceKept(p) ==
  /\ kind[p] = "force" =>
       place[p] \in {"openPrivate", "writePrivate", "openPublic", "writePublic", "done",
                     "crashed"}
  /\ \A s \in Services : service[p][s] # "off" =>
       place[p] \in {"supervise", "done", "crashed"}

\* What the process that writes the keys finds: nobody else changes the files.
WriterKept(p) ==
  /\ WritingIn(place, p) /\ place[p] \in {"openPrivate", "writePrivate", "openPublic"} =>
       kind[p] = "force" \/ file["public"] = Absent
  /\ place[p] \in {"openPublic", "writePublic"} => file["private"] = p
  /\ place[p] = "writePublic" => file["public"] = Empty

\* What a stack that reads the keys finds, from the one file to the other.
ReaderKept(p) ==
  /\ place[p] \in {"readPrivate", "readPublic"} => file["public"] # Absent
  /\ place[p] = "readPublic" => held[p]["private"] = file["private"]

\* What a stack that has read the keys holds.
HeldKept(p) ==
  /\ place[p] = "launch" \/ (\E s \in Services : service[p][s] # "off") =>
       held[p]["public"] \in {Empty, held[p]["private"]}
  /\ service[p]["sidecar"] = "running" => held[p]["public"] # Empty

\* A replacement by force is half-way.
Forcing(p) == kind[p] = "force" /\ place[p] \in {"writePrivate", "openPublic"}

\* The files are of one pair, as far as they are written.
FilesKept ==
  (\A p \in Processes : ~Forcing(p)) =>
    file["public"] \in {Absent, Empty, file["private"]}

\* The inductive invariant.
LocalInv ==
  /\ LocalTypeOK
  /\ \A p \in Processes : PlaceKept(p)
  /\ Intact =>
       /\ ~CollideIn(place)
       /\ \A p \in Processes : WriterKept(p) /\ ReaderKept(p) /\ HeldKept(p)
       /\ FilesKept

\* The mark of two processes at the key files is never missed, and never erased.
LEMMA MarkedWhenColliding ==
  ASSUME NEW p \in Processes, NEW next, Goto(p, next), ~overlapped', UNCHANGED kind
  PROVE  ~overlapped /\ ~CollideIn(place)'
BY DEF Goto, CollideIn, WritingIn

\* A step that moves p, and no file, service or key but one that p has read.
LEMMA MoveKeeps ==
  ASSUME LocalInv, NEW p \in Processes, NEW next,
         place' = [place EXCEPT ![p] = next],
         UNCHANGED <<kind, file, service>>,
         \A q \in Processes \ {p} : held'[q] = held[q],
         LocalTypeOK', PlaceKept(p)',
         Intact' => /\ Intact /\ ~CollideIn(place)'
                    /\ WriterKept(p)' /\ ReaderKept(p)' /\ HeldKept(p)'
                    /\ ~Forcing(p)
  PROVE  LocalInv'
<1>1. ASSUME NEW q \in Processes PROVE PlaceKept(q)'
  BY DEF LocalInv, LocalTypeOK, PlaceKept
<1>2. ASSUME Intact', NEW q \in Processes
      PROVE  WriterKept(q)' /\ ReaderKept(q)' /\ HeldKept(q)'
  <2>1. CASE q = p
    BY <1>2, <2>1
  <2>2. CASE q # p
    <3>1. place'[q] = place[q] /\ held'[q] = held[q]
      BY <2>2 DEF LocalInv, LocalTypeOK
    <3>2. WriterKept(q) /\ ReaderKept(q) /\ HeldKept(q)
      BY <1>2 DEF LocalInv
    <3> QED BY <3>1, <3>2 DEF WriterKept, ReaderKept, HeldKept, WritingIn
  <2> QED BY <2>1, <2>2
<1>3. ASSUME Intact' PROVE FilesKept'
  <2>1. FilesKept /\ ~Forcing(p)
    BY <1>3 DEF LocalInv
  <2>2. \A q \in Processes : ~Forcing(q)' => ~Forcing(q)
    BY <2>1 DEF LocalInv, LocalTypeOK, Forcing
  <2> QED BY <2>1, <2>2 DEF FilesKept
<1> QED BY <1>1, <1>2, <1>3 DEF LocalInv

\* A service starts, ends or is killed.
LEMMA ServiceKeeps ==
  ASSUME LocalInv, NEW p \in Processes, NEW s \in Services,
         NEW new \in {"running", "stopped", "failed", "killed"},
         SetService(p, s, new), service[p][s] # "off",
         new = "running" => CanServe(p, s)
  PROVE  LocalInv'
<1>1. /\ UNCHANGED <<kind, file, place, held, forcedCut, overlapped>>
      /\ service' = [service EXCEPT ![p][s] = new] /\ UNCHANGED result
  BY DEF SetService, keyVars, historyVars
<1>2. LocalTypeOK'
  BY <1>1 DEF LocalInv, LocalTypeOK
<1>3. \A q \in Processes, t \in Services :
        /\ service'[q][t] # "off" => service[q][t] # "off"
        /\ service'[q][t] = "running" =>
             service[q][t] = "running" \/ (q = p /\ t = s /\ new = "running")
  BY <1>1 DEF LocalInv, LocalTypeOK
<1>4. ASSUME NEW q \in Processes PROVE PlaceKept(q)'
  BY <1>1, <1>3 DEF LocalInv, PlaceKept
<1>5. ASSUME Intact', NEW q \in Processes
      PROVE  WriterKept(q)' /\ ReaderKept(q)' /\ HeldKept(q)'
  <2>1. WriterKept(q) /\ ReaderKept(q) /\ HeldKept(q)
    BY <1>1, <1>5 DEF LocalInv, Intact
  <2>2. HeldKept(q)'
    BY <1>1, <1>3, <2>1, ProcessesAssumption DEF HeldKept, CanServe
  <2> QED BY <1>1, <2>1, <2>2 DEF WriterKept, ReaderKept, WritingIn
<1>6. Intact' => Intact /\ ~CollideIn(place)' /\ FilesKept'
  BY <1>1 DEF LocalInv, Intact, CollideIn, WritingIn, FilesKept, Forcing
<1> QED BY <1>2, <1>4, <1>5, <1>6 DEF LocalInv

\* Whoever writes is alone with the files.
LEMMA WriteKeeps ==
  ASSUME LocalInv, NEW p \in Processes, WriteKeys(p)
  PROVE  LocalInv'
<1> DEFINE after == IF kind[p] = "stack" THEN "readPrivate" ELSE "done"
<1>1. \/ SetFile(p, "openPrivate", "private", Empty, "writePrivate")
      \/ SetFile(p, "writePrivate", "private", p, "openPublic")
      \/ SetFile(p, "openPublic", "public", Empty, "writePublic")
      \/ SetFile(p, "writePublic", "public", p, after)
  BY DEF WriteKeys
<1>2. /\ UNCHANGED <<kind, held, service, result, forcedCut>>
      /\ place[p] \in {"openPrivate", "writePrivate", "openPublic", "writePublic"}
      /\ \E next \in {"writePrivate", "openPublic", "writePublic", "readPrivate", "done"} :
           Goto(p, next)
  BY <1>1 DEF SetFile, stackVars
<1>3. /\ place \in [Processes -> Places]
      /\ file \in [Files -> {Absent, Empty, Old} \cup Processes]
  BY DEF LocalInv, LocalTypeOK
<1>4. LocalTypeOK'
  BY <1>1, <1>2 DEF LocalInv, LocalTypeOK, Places, SetFile, Goto, Files
<1>5. ASSUME NEW q \in Processes PROVE PlaceKept(q)'
  <2>1. PlaceKept(q) /\ PlaceKept(p)
    BY DEF LocalInv
  <2> QED BY <1>1, <1>2, <1>3, <2>1 DEF PlaceKept, SetFile, Goto
<1>6. ASSUME Intact'
      PROVE  /\ ~CollideIn(place)'
             /\ \A q \in Processes : WriterKept(q)' /\ ReaderKept(q)' /\ HeldKept(q)'
             /\ FilesKept'
  <2>1. Intact /\ ~CollideIn(place)' /\ ~CollideIn(place)
    BY <1>2, <1>6, MarkedWhenColliding DEF Intact, LocalInv
  <2>2. /\ \A q \in Processes : WriterKept(q) /\ ReaderKept(q) /\ HeldKept(q) /\ PlaceKept(q)
        /\ FilesKept
    BY <2>1 DEF LocalInv
  <2>3. ASSUME NEW q \in Processes, q # p
        PROVE  place'[q] = place[q] /\ ~WritingIn(place, q) /\ place[q] # "writePublic"
    <3>1. place'[q] = place[q]
      BY <1>2, <1>3, <2>3 DEF Goto
    <3>2. WritingIn(place, p) \/ WritingIn(place, p)'
      BY <1>1, <1>3 DEF WritingIn, SetFile, Goto
    <3>3. WritingIn(place, q) <=> WritingIn(place, q)'
      BY <3>1, <1>2 DEF WritingIn
    <3> QED BY <2>1, <2>3, <3>1, <3>2, <3>3 DEF CollideIn, WritingIn
  <2>4. ASSUME NEW q \in Processes, q # p, place[q] = "readPublic"
        PROVE  kind[p] # "force"
    <3>1. WritingIn(place, p) \/ WritingIn(place, p)'
      BY <1>1, <1>3, <2>3, <2>4 DEF WritingIn, SetFile, Goto
    <3>2. place'[q] = "readPublic"
      BY <2>3, <2>4
    <3> QED BY <1>2, <2>1, <2>4, <3>1, <3>2 DEF CollideIn
  <2>5. ASSUME NEW q \in Processes
        PROVE  HeldKept(q)'
    BY <1>1, <1>2, <1>3, <2>2 DEF HeldKept, SetFile, Goto
  <2>6. CASE SetFile(p, "openPrivate", "private", Empty, "writePrivate")
    <3>1. /\ place[p] = "openPrivate" /\ place' = [place EXCEPT ![p] = "writePrivate"]
          /\ file' = [file EXCEPT !["private"] = Empty]
      BY <2>6 DEF SetFile, Goto
    <3>2. file'["public"] = file["public"] /\ file'["private"] = Empty
      BY <1>3, <3>1 DEF Files
    <3>3. kind[p] = "force" \/ file["public"] = Absent
      BY <2>2, <3>1 DEF WriterKept, WritingIn
    <3>4. ASSUME NEW q \in Processes PROVE WriterKept(q)' /\ ReaderKept(q)'
      BY <1>2, <1>3, <2>2, <2>3, <2>4, <3>1, <3>2, <3>3 DEF WriterKept, ReaderKept, WritingIn
    <3>5. FilesKept'
      BY <1>2, <1>3, <3>1, <3>2, <3>3 DEF FilesKept, Forcing
    <3> QED BY <2>1, <2>5, <3>4, <3>5
  <2>7. CASE SetFile(p, "writePrivate", "private", p, "openPublic")
    <3>1. /\ place[p] = "writePrivate" /\ place' = [place EXCEPT ![p] = "openPublic"]
          /\ file' = [file EXCEPT !["private"] = p]
      BY <2>7 DEF SetFile, Goto
    <3>2. file'["public"] = file["public"] /\ file'["private"] = p
      BY <1>3, <3>1 DEF Files
    <3>3. kind[p] = "force" \/ file["public"] = Absent
      BY <2>2, <3>1 DEF WriterKept, WritingIn
    <3>4. ASSUME NEW q \in Processes PROVE WriterKept(q)' /\ ReaderKept(q)'
      BY <1>2, <1>3, <2>2, <2>3, <2>4, <3>1, <3>2, <3>3 DEF WriterKept, ReaderKept, WritingIn
    <3>5. FilesKept'
      BY <1>2, <1>3, <3>1, <3>2, <3>3 DEF FilesKept, Forcing
    <3> QED BY <2>1, <2>5, <3>4, <3>5
  <2>8. CASE SetFile(p, "openPublic", "public", Empty, "writePublic")
    <3>1. /\ place[p] = "openPublic" /\ place' = [place EXCEPT ![p] = "writePublic"]
          /\ file' = [file EXCEPT !["public"] = Empty]
      BY <2>8 DEF SetFile, Goto
    <3>2. file'["public"] = Empty /\ file'["private"] = file["private"]
      BY <1>3, <3>1 DEF Files
    <3>3. file["private"] = p /\ Empty # Absent
      BY <2>2, <3>1 DEF WriterKept, Empty, Absent
    <3>4. ASSUME NEW q \in Processes PROVE WriterKept(q)' /\ ReaderKept(q)'
      BY <1>2, <1>3, <2>2, <2>3, <3>1, <3>2, <3>3 DEF WriterKept, ReaderKept, WritingIn
    <3>5. FilesKept'
      BY <3>2 DEF FilesKept
    <3> QED BY <2>1, <2>5, <3>4, <3>5
  <2>9. CASE SetFile(p, "writePublic", "public", p, after)
    <3>1. /\ place[p] = "writePublic" /\ place' = [place EXCEPT ![p] = after]
          /\ file' = [file EXCEPT !["public"] = p]
      BY <2>9 DEF SetFile, Goto
    <3>2. file'["public"] = p /\ file'["private"] = file["private"]
      BY <1>3, <3>1 DEF Files
    <3>3. file["private"] = p /\ p # Absent
      BY <2>2, <3>1, NamesAssumption DEF WriterKept, Absent
    <3>4. ASSUME NEW q \in Processes PROVE WriterKept(q)' /\ ReaderKept(q)'
      BY <1>2, <1>3, <2>2, <2>3, <3>1, <3>2, <3>3 DEF WriterKept, ReaderKept, WritingIn
    <3>5. FilesKept'
      BY <3>2, <3>3 DEF FilesKept
    <3> QED BY <2>1, <2>5, <3>4, <3>5
  <2> QED BY <1>1, <2>6, <2>7, <2>8, <2>9
<1> QED BY <1>4, <1>5, <1>6 DEF LocalInv

\* The checks before the keys are written or read.
LEMMA ChecksKeep ==
  ASSUME LocalInv, NEW p \in Processes,
         CheckPrivate(p) \/ CheckPublic(p) \/ FindPrivate(p) \/ FindPublic(p)
  PROVE  LocalInv'
<1>1. PICK next \in {"failed", "checkPublic", "openPrivate", "findNoPublic", "findPublic",
                     "readPrivate", "checkPrivate"} :
        /\ Goto(p, next)
        /\ next = "openPrivate" => file["public"] = Absent
        /\ next = "readPrivate" => file["public"] # Absent
        /\ place[p] \in {"checkPrivate", "checkPublic", "findPrivate", "findPublic",
                         "findNoPublic"}
        /\ UNCHANGED <<keyVars, stackVars, forcedCut>>
  BY DEF CheckPrivate, CheckPublic, FindPrivate, FindPublic
<1>2. /\ place' = [place EXCEPT ![p] = next] /\ place'[p] = next
      /\ UNCHANGED <<kind, file, held, service, result, forcedCut>>
  BY <1>1 DEF Goto, keyVars, stackVars, LocalInv, LocalTypeOK
<1>3. LocalTypeOK'
  BY <1>1, <1>2 DEF LocalInv, LocalTypeOK, Places, Goto
<1>4. PlaceKept(p)'
  BY <1>1, <1>2 DEF LocalInv, PlaceKept
<1>5. ASSUME Intact'
      PROVE  /\ Intact /\ ~CollideIn(place)'
             /\ WriterKept(p)' /\ ReaderKept(p)' /\ HeldKept(p)'
             /\ ~Forcing(p)
  <2>1. Intact /\ ~CollideIn(place)'
    <3>1. Goto(p, next) /\ ~overlapped' /\ UNCHANGED kind /\ ~forcedCut
      BY <1>1, <1>2, <1>5 DEF Intact
    <3>2. ~overlapped /\ ~CollideIn(place)'
      BY <3>1, MarkedWhenColliding
    <3> QED BY <3>1, <3>2 DEF Intact
  <2>2. PlaceKept(p) /\ HeldKept(p)
    BY <2>1 DEF LocalInv
  <2>3. WriterKept(p)' /\ ReaderKept(p)' /\ ~Forcing(p)
    BY <1>1, <1>2 DEF WriterKept, ReaderKept, WritingIn, Forcing
  <2>4. HeldKept(p)'
    BY <1>1, <1>2, <2>2 DEF HeldKept
  <2> QED BY <2>1, <2>3, <2>4
<1> QED BY <1>2, <1>3, <1>4, <1>5, MoveKeeps

\* The second key is of the pair of the first, or not yet written.
LEMMA ReadsKeep ==
  ASSUME LocalInv, NEW p \in Processes, ReadKeys(p)
  PROVE  LocalInv'
<1>1. /\ UNCHANGED <<kind, file, service, result, forcedCut>>
      /\ \/ /\ place[p] = "readPrivate" /\ Goto(p, "readPublic")
            /\ held' = [held EXCEPT ![p]["private"] = file["private"]]
         \/ /\ place[p] = "readPublic" /\ Goto(p, "launch")
            /\ held' = [held EXCEPT ![p]["public"] = file["public"]]
  BY DEF ReadKeys, ReadKey, stackVars
<1>2. /\ \A q \in Processes \ {p} : held'[q] = held[q]
      /\ held'[p]["private"] =
           IF place[p] = "readPrivate" THEN file["private"] ELSE held[p]["private"]
      /\ place[p] = "readPublic" => held'[p]["public"] = file["public"]
  BY <1>1 DEF LocalInv, LocalTypeOK, Files
<1>3. LocalTypeOK'
  <2>1. held' \in [Processes -> [Files -> {Absent, Empty, Old} \cup Processes]]
    <3> DEFINE Keys == {Absent, Empty, Old} \cup Processes
    <3>1. file \in [Files -> Keys] /\ held \in [Processes -> [Files -> Keys]]
      BY DEF LocalInv, LocalTypeOK
    <3>2. "private" \in Files /\ "public" \in Files
      BY DEF Files
    <3>3. \A f \in Files : file[f] \in Keys
      BY <3>1
    <3> HIDE DEF Keys
    <3>4. \A f \in Files, key \in Keys :
            [held EXCEPT ![p][f] = key] \in [Processes -> [Files -> Keys]]
      BY <3>1
    <3>5. held' \in [Processes -> [Files -> Keys]]
      BY <1>1, <3>2, <3>3, <3>4
    <3> QED BY <3>5 DEF Keys
  <2>2. place' \in [Processes -> Places]
    BY <1>1 DEF LocalInv, LocalTypeOK, Goto, Places
  <2>3. overlapped' \in BOOLEAN
    BY <1>1 DEF Goto, LocalInv, LocalTypeOK
  <2> QED BY <1>1, <2>1, <2>2, <2>3 DEF LocalInv, LocalTypeOK
<1>4. PlaceKept(p)' /\ \A s \in Services : service[p][s] = "off"
  BY <1>1 DEF LocalInv, LocalTypeOK, PlaceKept, Goto
<1>5. ASSUME Intact'
      PROVE  /\ Intact /\ ~CollideIn(place)'
             /\ WriterKept(p)' /\ ReaderKept(p)' /\ HeldKept(p)'
             /\ ~Forcing(p)
  <2>1. Intact /\ ~CollideIn(place)'
    BY <1>1, <1>5, MarkedWhenColliding DEF Intact
  <2>2. ReaderKept(p) /\ FilesKept /\ ~CollideIn(place)
    BY <2>1 DEF LocalInv
  <2>3. place'[p] = IF place[p] = "readPrivate" THEN "readPublic" ELSE "launch"
    BY <1>1 DEF Goto, LocalInv, LocalTypeOK
  <2>4. WriterKept(p)' /\ ~Forcing(p)
    BY <1>1, <2>3 DEF WriterKept, WritingIn, Forcing
  <2>5. ReaderKept(p)'
    BY <1>1, <1>2, <2>2, <2>3 DEF ReaderKept
  <2>6. HeldKept(p)'
    <3>1. CASE place[p] = "readPrivate"
      BY <1>1, <1>4, <2>3, <3>1, ProcessesAssumption DEF HeldKept
    <3>2. CASE place[p] = "readPublic"
      <4>1. \A q \in Processes : ~Forcing(q)
        BY <2>2, <3>2 DEF CollideIn, WritingIn, Forcing
      <4>2. file["public"] \in {Empty, held[p]["private"]}
        BY <2>2, <3>2, <4>1 DEF FilesKept, ReaderKept
      <4> QED BY <1>1, <1>2, <1>4, <3>2, <4>2, ProcessesAssumption DEF HeldKept
    <3> QED BY <1>1, <3>1, <3>2
  <2> QED BY <2>1, <2>4, <2>5, <2>6
<1>6. \E next : place' = [place EXCEPT ![p] = next]
  BY <1>1 DEF Goto
<1> QED BY <1>1, <1>2, <1>3, <1>4, <1>5, <1>6, MoveKeeps

\* A stack starts its services with the keys it has read.
LEMMA LaunchKeeps ==
  ASSUME LocalInv, NEW p \in Processes, Launch(p)
  PROVE  LocalInv'
<1>1. /\ place[p] = "launch" /\ Goto(p, "supervise")
      /\ service' = [service EXCEPT ![p] = [s \in Services |-> "starting"]]
      /\ UNCHANGED <<kind, file, held, result, forcedCut>>
  BY DEF Launch, keyVars
<1>2. /\ place' = [place EXCEPT ![p] = "supervise"] /\ place'[p] = "supervise"
      /\ \A q \in Processes \ {p} : place'[q] = place[q] /\ service'[q] = service[q]
      /\ \A s \in Services : service'[p][s] = "starting"
  BY <1>1 DEF Goto, LocalInv, LocalTypeOK
<1>3. LocalTypeOK'
  BY <1>1 DEF LocalInv, LocalTypeOK, Places, Goto
<1>4. ASSUME NEW q \in Processes PROVE PlaceKept(q)'
  BY <1>1, <1>2 DEF LocalInv, PlaceKept
<1>5. ASSUME Intact'
      PROVE  /\ ~CollideIn(place)'
             /\ \A q \in Processes : WriterKept(q)' /\ ReaderKept(q)' /\ HeldKept(q)'
             /\ FilesKept'
  <2>1. Intact /\ ~CollideIn(place)'
    BY <1>1, <1>5, MarkedWhenColliding DEF Intact
  <2>2. /\ \A q \in Processes : WriterKept(q) /\ ReaderKept(q) /\ HeldKept(q)
        /\ FilesKept
    BY <2>1 DEF LocalInv
  <2>3. ASSUME NEW q \in Processes PROVE WriterKept(q)' /\ ReaderKept(q)'
    BY <1>1, <1>2, <2>2 DEF WriterKept, ReaderKept, WritingIn
  <2>4. ASSUME NEW q \in Processes PROVE HeldKept(q)'
    BY <1>1, <1>2, <2>2, ProcessesAssumption DEF HeldKept
  <2>5. FilesKept'
    BY <1>1, <1>2, <2>2 DEF FilesKept, Forcing
  <2> QED BY <2>1, <2>3, <2>4, <2>5
<1> QED BY <1>3, <1>4, <1>5 DEF LocalInv

\* The end of a process, by itself or not.
LEMMA EndKeeps ==
  ASSUME LocalInv, NEW p \in Processes, Return(p) \/ Crash(p)
  PROVE  LocalInv'
<1>1. PICK next \in {"done", "crashed"} :
        /\ Goto(p, next) /\ UNCHANGED <<kind, file, held, service>>
        /\ forcedCut' \in BOOLEAN
        /\ ~forcedCut' => /\ ~forcedCut
                          /\ ~(next = "crashed" /\ kind[p] = "force" /\ WritingIn(place, p))
        /\ next = "done" => place[p] = "supervise"
        /\ result' = result \/ \E r \in {"0", "1"} : result' = [result EXCEPT ![p] = r]
  <2>1. CASE Return(p)
    BY <2>1 DEF Return, keyVars, LocalInv, LocalTypeOK
  <2>2. CASE Crash(p)
    BY <2>2 DEF Crash, keyVars, stackVars, LocalInv, LocalTypeOK
  <2> QED BY <2>1, <2>2
<1>2. place' = [place EXCEPT ![p] = next] /\ place'[p] = next
  BY <1>1 DEF Goto, LocalInv, LocalTypeOK
<1>3. LocalTypeOK'
  BY <1>1, <1>2 DEF LocalInv, LocalTypeOK, Places, Goto
<1>4. PlaceKept(p)'
  BY <1>1, <1>2 DEF LocalInv, PlaceKept
<1>5. ASSUME Intact'
      PROVE  /\ Intact /\ ~CollideIn(place)'
             /\ WriterKept(p)' /\ ReaderKept(p)' /\ HeldKept(p)'
             /\ ~Forcing(p)
  <2>1. /\ Intact /\ ~CollideIn(place)'
        /\ ~(kind[p] = "force" /\ next = "crashed" /\ WritingIn(place, p))
    BY <1>1, <1>5, MarkedWhenColliding DEF Intact
  <2>2. HeldKept(p)
    BY <2>1 DEF LocalInv
  <2>3. WriterKept(p)' /\ ReaderKept(p)' /\ ~Forcing(p)
    BY <1>1, <1>2, <2>1 DEF WriterKept, ReaderKept, WritingIn, Forcing
  <2>4. HeldKept(p)'
    BY <1>1, <1>2, <2>2 DEF HeldKept
  <2> QED BY <2>1, <2>3, <2>4
<1> QED BY <1>1, <1>2, <1>3, <1>4, <1>5, MoveKeeps

\* Every step of every process keeps the files and the stacks in order.
LEMMA LocalStep == LocalInv /\ [LocalNext]_localVars => LocalInv'
<1> SUFFICES ASSUME LocalInv, [LocalNext]_localVars PROVE LocalInv'
  OBVIOUS
<1>1. CASE LocalNext
  <2> PICK p \in Processes : Step(p)
    BY <1>1 DEF LocalNext
  <2>1. CASE CheckPrivate(p) \/ CheckPublic(p) \/ FindPrivate(p) \/ FindPublic(p)
    BY <2>1, ChecksKeep
  <2>2. CASE WriteKeys(p)
    BY <2>2, WriteKeeps
  <2>3. CASE ReadKeys(p)
    BY <2>3, ReadsKeep
  <2>4. CASE Launch(p)
    BY <2>4, LaunchKeeps
  <2>5. CASE Return(p) \/ Crash(p)
    BY <2>5, EndKeeps
  <2>6. CASE \E s \in Services : KillOther(p, s) \/ Start(p, s) \/ Ends(p, s)
    <3>1. PICK s \in Services : KillOther(p, s) \/ Start(p, s) \/ Ends(p, s)
      BY <2>6
    <3>2. PICK new \in {"running", "stopped", "failed", "killed"} :
            /\ SetService(p, s, new) /\ service[p][s] # "off"
            /\ new = "running" => CanServe(p, s)
      BY <3>1 DEF KillOther, Start, Ends
    <3> QED BY <3>2, ServiceKeeps
  <2> QED BY <2>1, <2>2, <2>3, <2>4, <2>5, <2>6 DEF Step, Supervise
<1>2. CASE UNCHANGED localVars
  BY <1>2
  DEF localVars, keyVars, stackVars, historyVars, LocalInv, LocalTypeOK, PlaceKept, Intact,
      CollideIn, WritingIn, WriterKept, ReaderKept, HeldKept, FilesKept, Forcing
<1> QED BY <1>1, <1>2

(***************************************************************************)
(* However many stacks and key generations share a directory, and wherever  *)
(* they are killed, the Exit and the Sidecar that a stack serves with hold  *)
(* two halves of one pair, unless the keys were being replaced by force or  *)
(* generated twice at the time.                                             *)
(***************************************************************************)
THEOREM PairsServed == LocalSpec => []ServesOnePair
<1>1. LocalInit => LocalInv
  <2> SUFFICES ASSUME LocalInit PROVE LocalInv
    OBVIOUS
  <2>1. kind \in [Processes -> {"stack", "keygen", "force", "none"}]
    BY ProcessesAssumption DEF LocalInit
  <2>2. LocalTypeOK
    BY <2>1 DEF LocalInit, LocalTypeOK, Places
  <2>3. \A p \in Processes :
          /\ place[p] \in {"findPrivate", "checkPrivate", "openPrivate", "done"}
          /\ place[p] = "openPrivate" <=> kind[p] = "force"
          /\ kind[p] = "force" => place[p] = "openPrivate"
          /\ \A s \in Services : service[p][s] = "off"
    BY <2>1 DEF LocalInit
  <2>4. ~CollideIn(place)
    BY <2>3 DEF CollideIn, WritingIn
  <2>5. FilesKept
    BY DEF LocalInit, FilesKept, Files
  <2>6. \A p \in Processes : PlaceKept(p) /\ WriterKept(p) /\ ReaderKept(p) /\ HeldKept(p)
    BY <2>3, ProcessesAssumption DEF PlaceKept, WriterKept, ReaderKept, HeldKept, WritingIn
  <2> QED BY <2>2, <2>4, <2>5, <2>6 DEF LocalInv
<1>2. LocalInv => ServesOnePair
  BY ProcessesAssumption DEF LocalInv, Intact, HeldKept, ServesOnePair
<1> QED BY <1>1, <1>2, LocalStep, PTL DEF LocalSpec
=============================================================================
