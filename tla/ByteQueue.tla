------------------------------ MODULE ByteQueue ------------------------------
(***************************************************************************)
(* byte-queue.ts: the bytes the sealer has read and not yet framed.  They    *)
(* stay in the chunks they came in; of the first one, firstOffset bytes are  *)
(* gone.  One copy of the loop in `take` is a step; nothing is pushed until   *)
(* the loop is through.                                                     *)
(*                                                                         *)
(* Some names carry a prefix, so that ResponseSealerProofs can extend this   *)
(* module together with ResponseSealer.                                     *)
(***************************************************************************)
EXTENDS Integers, Sequences

CONSTANTS MaxPushBytes, MaxQueued  \* bounds: of a chunk, and of all chunks

ASSUME QueueAssumption == MaxPushBytes \in Nat /\ MaxQueued \in Nat

VARIABLES
  chunks, firstOffset, totalLength,
  output, missing,  \* of `take`: what it has copied, and the bytes to go
  taken             \* history: every byte returned so far

queueVars == <<chunks, firstOffset, totalLength, output, missing, taken>>

Lesser(m, n) == IF m < n THEN m ELSE n

\* Every byte that has left the chunks, in the order in which it did.
Returned == taken \o output

Pushed == Len(Returned) + totalLength

QueueInit ==
  /\ chunks = <<>> /\ firstOffset = 0 /\ totalLength = 0
  /\ output = <<>> /\ missing = 0 /\ taken = <<>>

\* The bytes are numbered; an empty chunk is dropped.
Push(n) ==
  /\ missing = 0 /\ Pushed + n <= MaxQueued
  /\ chunks' = IF n = 0 THEN chunks
               ELSE Append(chunks, [i \in 1..n |-> Pushed + i])
  /\ totalLength' = totalLength + n
  /\ UNCHANGED <<firstOffset, output, missing, taken>>

\* The bytes returned last are the caller's, and a new output is filled.
Take(maxBytes) ==
  /\ missing = 0
  /\ missing' = Lesser(maxBytes, totalLength)
  /\ taken' = Returned /\ output' = <<>>
  /\ UNCHANGED <<chunks, firstOffset, totalLength>>

\* Faulty: the next chunk begins at the offset of the one before.
ShiftWithoutReset(used) ==
  /\ chunks' = IF used = Len(Head(chunks)) THEN Tail(chunks) ELSE chunks
  /\ firstOffset' = used

ShiftFirst(used) ==
  IF used = Len(Head(chunks))
    THEN chunks' = Tail(chunks) /\ firstOffset' = 0
    ELSE firstOffset' = used /\ UNCHANGED chunks

Copy ==
  /\ missing > 0
  /\ LET available == Len(Head(chunks)) - firstOffset
         copied == Lesser(available, missing)
     IN /\ output' =
             output \o SubSeq(Head(chunks), firstOffset + 1, firstOffset + copied)
        /\ missing' = missing - copied
        /\ totalLength' = totalLength - copied
        /\ ShiftFirst(firstOffset + copied)
  /\ UNCHANGED taken

QueueNext == Copy \/ \E n \in 0..MaxPushBytes : Push(n) \/ Take(n)

QueueSpec == QueueInit /\ [][QueueNext]_queueVars
-----------------------------------------------------------------------------
\* Of the bytes in `chunks`, the one that a chunk ends with.
LastOf(chunk) == chunk[Len(chunk)]

\* The queue goes on after byte n, chunk by chunk, up to the byte pushed last.
GoesOnAfter(n) ==
  /\ \A k \in DOMAIN chunks :
       /\ chunks[k] # <<>>
       /\ \A i \in DOMAIN chunks[k] : chunks[k][i] = chunks[k][1] + i - 1
       /\ k > 1 => chunks[k][1] = LastOf(chunks[k - 1]) + 1
  /\ IF chunks = <<>> THEN firstOffset = 0 /\ totalLength = 0
     ELSE /\ firstOffset < Len(chunks[1]) /\ chunks[1][firstOffset + 1] = n + 1
          /\ LastOf(chunks[Len(chunks)]) = n + totalLength

(***************************************************************************)
(* A take returns the bytes as they were pushed, none lost or repeated,      *)
(* however takes and chunks cut across one another; the length is that of    *)
(* what is queued, and `take` never finds a queue that is inconsistent.      *)
(***************************************************************************)
BytesInOrder ==
  /\ \A i \in DOMAIN Returned : Returned[i] = i
  /\ GoesOnAfter(Len(Returned))
  /\ missing <= totalLength
=============================================================================
