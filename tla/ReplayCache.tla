----------------------------- MODULE ReplayCache -----------------------------
(***************************************************************************)
(* MemoryReplayCache, the Exit's replay store                              *)
(* (packages/exit/src/replay-cache.ts), under the service that calls it    *)
(* (packages/exit/src/replay-protection.ts).                               *)
(*                                                                         *)
(* The service reads the clock in one Effect and calls the cache with that *)
(* reading in the next one: between the two the runtime may run another    *)
(* fiber, so readings reach the cache out of order.  Each fiber here is a  *)
(* request being handled; it reads, then claims.                           *)
(***************************************************************************)
EXTENDS Integers, Sequences, FiniteSets

CONSTANTS
  Keys,        \* replay keys: an Exit key id and an encapsulated key
  Fibers,      \* requests in the handler at the same time
  ttlMs,       \* constructor parameters of the cache
  maxEntries,
  MaxClock     \* bound: wall-clock readings are 0..MaxClock

ASSUME TtlAssumption == ttlMs \in Nat \ {0}
ASSUME LimitAssumption == maxEntries \in Nat \ {0}
ASSUME ClockAssumption == MaxClock \in Nat

VARIABLES
  clock,             \* what Clock.currentTimeMillis reads
  claiming,          \* per fiber: the key and the reading it is about to claim with
  expiresAt,         \* the Map from keys to expiries, in insertion order
  lastObservedTime,
  answer,            \* the last claim and its outcome
  acceptedAt         \* history, read by no action: when each key was accepted

vars == <<clock, claiming, expiresAt, lastObservedTime, answer, acceptedAt>>

Times == 0..MaxClock
NegativeInfinity == -1  \* below every reading of the clock
Never == -1
NotClaiming == [key |-> <<>>, observedTime |-> NegativeInfinity]
NoAnswer == [key |-> <<>>, result |-> "none"]

Entry == [key : Keys, expiry : Nat]
Results == {"claimed", "duplicate", "capacity"}

\* Faulty: trusts the reading, which may be older than another's.
ClockAsRead(a, b) == a

Later(a, b) == IF a > b THEN a ELSE b

\* prune deletes the first n entries and breaks at the next, which is live.
PruneStopsAfter(n, now) ==
  /\ n \in 0..Len(expiresAt)
  /\ \A i \in 1..n : expiresAt[i].expiry <= now
  /\ n < Len(expiresAt) => expiresAt[n + 1].expiry > now

Kept(n) == SubSeq(expiresAt, n + 1, Len(expiresAt))

PositionsOf(key, kept) == {i \in DOMAIN kept : kept[i].key = key}

\* Map.set keeps the position of a key the Map already has.
MapSet(kept, entry) ==
  IF PositionsOf(entry.key, kept) = {}
    THEN Append(kept, entry)
    ELSE [i \in DOMAIN kept |-> IF kept[i].key = entry.key THEN entry ELSE kept[i]]

Init ==
  /\ clock \in Times
  /\ claiming = [f \in Fibers |-> NotClaiming]
  /\ expiresAt = <<>>
  /\ lastObservedTime = NegativeInfinity
  /\ answer = NoAnswer
  /\ acceptedAt = [key \in Keys |-> Never]

\* Time passes, or the host's clock is set back.
ClockMoves ==
  /\ clock' \in Times \ {clock}
  /\ UNCHANGED <<claiming, expiresAt, lastObservedTime, answer, acceptedAt>>

ReadClock(f, key) ==
  /\ claiming[f] = NotClaiming
  /\ claiming' = [claiming EXCEPT ![f] = [key |-> key, observedTime |-> clock]]
  /\ UNCHANGED <<clock, expiresAt, lastObservedTime, answer, acceptedAt>>

IsLive(key, kept, now) ==
  \E i \in PositionsOf(key, kept) : kept[i].expiry > now

RejectDuplicate(key, kept, now) ==
  /\ IsLive(key, kept, now)
  /\ expiresAt' = kept
  /\ answer' = [key |-> key, result |-> "duplicate"]
  /\ UNCHANGED acceptedAt

\* Faulty: looks at the limit before it looks for the key.
ThrowForCapacityFirst(key, kept, now) ==
  /\ Len(kept) >= maxEntries
  /\ expiresAt' = kept
  /\ answer' = [key |-> key, result |-> "capacity"]
  /\ UNCHANGED acceptedAt

\* ReplayCacheCapacityError, which the service turns into a 503.
ThrowForCapacity(key, kept, now) ==
  /\ ~IsLive(key, kept, now)
  /\ Len(kept) >= maxEntries
  /\ expiresAt' = kept
  /\ answer' = [key |-> key, result |-> "capacity"]
  /\ UNCHANGED acceptedAt

\* Faulty: takes the TTL off the time instead of adding it.
InsertExpired(key, kept, now) ==
  /\ ~IsLive(key, kept, now)
  /\ Len(kept) < maxEntries
  /\ expiresAt' = MapSet(kept, [key |-> key, expiry |-> now - ttlMs])
  /\ answer' = [key |-> key, result |-> "claimed"]
  /\ acceptedAt' = [acceptedAt EXCEPT ![key] = now]

Insert(key, kept, now) ==
  /\ ~IsLive(key, kept, now)
  /\ Len(kept) < maxEntries
  /\ expiresAt' = MapSet(kept, [key |-> key, expiry |-> now + ttlMs])
  /\ answer' = [key |-> key, result |-> "claimed"]
  /\ acceptedAt' = [acceptedAt EXCEPT ![key] = now]

Claim(f) ==
  LET key == claiming[f].key
      now == Later(claiming[f].observedTime, lastObservedTime)
  IN
  /\ claiming[f] # NotClaiming
  /\ claiming' = [claiming EXCEPT ![f] = NotClaiming]
  /\ lastObservedTime' = now
  /\ \E n \in 0..Len(expiresAt) :
       /\ PruneStopsAfter(n, now)
       /\ \/ RejectDuplicate(key, Kept(n), now)
          \/ ThrowForCapacity(key, Kept(n), now)
          \/ Insert(key, Kept(n), now)
  /\ UNCHANGED clock

Next ==
  \/ ClockMoves
  \/ \E f \in Fibers : Claim(f) \/ \E key \in Keys : ReadClock(f, key)

Spec == Init /\ [][Next]_vars
-----------------------------------------------------------------------------
TypeOK ==
  /\ clock \in Times
  /\ claiming \in [Fibers -> [key : Keys, observedTime : Times] \cup {NotClaiming}]
  /\ expiresAt \in Seq(Entry)
  /\ lastObservedTime \in Times \cup {NegativeInfinity}
  /\ answer \in [key : Keys, result : Results] \cup {NoAnswer}
  /\ acceptedAt \in [Keys -> Times \cup {Never}]

(***************************************************************************)
(* The Map's insertion order stays the order of expiration although late    *)
(* fibers claim with older readings, so prune may break at the first live   *)
(* entry; each key is held once, within the limit, and never after it       *)
(* expired.                                                                *)
(***************************************************************************)
OnlyLiveKeysInOrder ==
  /\ \A i, j \in DOMAIN expiresAt :
       i < j => /\ expiresAt[i].expiry <= expiresAt[j].expiry
                /\ expiresAt[i].key # expiresAt[j].key
  /\ \A i \in DOMAIN expiresAt : expiresAt[i].expiry > lastObservedTime
  /\ Len(expiresAt) <= maxEntries

\* The cache keeps the promise of a replay window with one owner, the Exit.
AsOwned(key) == <<"exit", key>>

Window ==
  INSTANCE ReplayWindow WITH
    Owners <- {"exit"}, Ids <- Keys, TTL <- ttlMs, MaxEntries <- maxEntries,
    MaxPerOwner <- maxEntries, now <- lastObservedTime,
    acceptedAt <- [owned \in {"exit"} \X Keys |-> acceptedAt[owned[2]]],
    answer <- IF answer = NoAnswer THEN answer
              ELSE [answer EXCEPT !.key = AsOwned(answer.key)]

KeepsReplayWindow == Window!Spec
=============================================================================
