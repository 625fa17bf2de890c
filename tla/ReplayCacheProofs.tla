-------------------------- MODULE ReplayCacheProofs --------------------------
(***************************************************************************)
(* What MemoryReplayCache guarantees for every set of keys and of fibers,   *)
(* every TTL, limit and horizon of the clock, although fibers claim with    *)
(* readings older than those of others.  The argument is that of            *)
(* RequestTrackerProofs.                                                   *)
(***************************************************************************)
EXTENDS ReplayCache, SequenceTheorems, FunctionTheorems, FiniteSetTheorems, TLAPS

(***************************************************************************)
(* A Map as every claim leaves it at time now: in the order of expiry, each *)
(* key once, every entry live and none further than a TTL ahead.            *)
(***************************************************************************)
WellKept(s, now) ==
  /\ s \in Seq(Entry)
  /\ \A i, j \in DOMAIN s : i < j => s[i].expiry <= s[j].expiry
  /\ \A i, j \in DOMAIN s : s[i].key = s[j].key => i = j
  /\ \A i \in DOMAIN s : now < s[i].expiry /\ s[i].expiry <= now + ttlMs

IInv ==
  /\ TypeOK
  /\ WellKept(expiresAt, lastObservedTime)
  /\ Len(expiresAt) <= maxEntries
-----------------------------------------------------------------------------
(* What is left of the Map after prune.                                    *)

\* Pruning the first n expiresAt shifts the others down by n.
LEMMA KeptIsSuffix ==
  ASSUME expiresAt \in Seq(Entry), NEW n \in 0..Len(expiresAt)
  PROVE  /\ Kept(n) \in Seq(Entry)
         /\ Len(Kept(n)) = Len(expiresAt) - n
         /\ DOMAIN Kept(n) = 1..(Len(expiresAt) - n)
         /\ \A i \in 1..(Len(expiresAt) - n) : Kept(n)[i] = expiresAt[n + i]
<1>1. Len(expiresAt) \in Nat /\ n \in Nat
  BY LenProperties
<1>2. \A i \in n + 1..Len(expiresAt) : expiresAt[i] \in Entry
  BY <1>1, ElementOfSeq
<1>3. /\ Kept(n) \in Seq(Entry)
      /\ Len(Kept(n)) = IF n + 1 <= Len(expiresAt) THEN Len(expiresAt) - (n + 1) + 1 ELSE 0
      /\ \A i \in 1..Len(expiresAt) - (n + 1) + 1 : Kept(n)[i] = expiresAt[n + 1 + i - 1]
  BY <1>1, <1>2, SubSeqProperties DEF Kept
<1>4. Len(Kept(n)) = Len(expiresAt) - n
  BY <1>1, <1>3
<1>5. \A i \in 1..(Len(expiresAt) - n) : Kept(n)[i] = expiresAt[n + i]
  <2>. TAKE i \in 1..(Len(expiresAt) - n)
  <2>1. Kept(n)[i] = expiresAt[n + 1 + i - 1]
    BY <1>1, <1>3
  <2>2. n + 1 + i - 1 = n + i
    BY <1>1
  <2>. QED  BY <2>1, <2>2
<1>6. DOMAIN Kept(n) = 1..(Len(expiresAt) - n)
  BY <1>3, <1>4, LenProperties
<1>. QED  BY <1>3, <1>4, <1>5, <1>6

\* In a well-kept Map, prune's break leaves no expired entry behind.
LEMMA KeptIsLive ==
  ASSUME IInv, NEW now \in Nat, NEW n \in 0..Len(expiresAt), PruneStopsAfter(n, now)
  PROVE  \A i \in DOMAIN Kept(n) : now < Kept(n)[i].expiry
<1>1. expiresAt \in Seq(Entry) /\ Len(expiresAt) \in Nat /\ DOMAIN expiresAt = 1..Len(expiresAt)
  BY LenProperties DEF IInv, TypeOK
<1>. SUFFICES ASSUME NEW i \in 1..(Len(expiresAt) - n)
              PROVE  now < expiresAt[n + i].expiry
  BY <1>1, KeptIsSuffix
<1>2. n + 1 \in 1..Len(expiresAt) /\ n + i \in 1..Len(expiresAt)
  BY <1>1
<1>3. expiresAt[n + 1] \in Entry /\ expiresAt[n + i] \in Entry
  BY <1>1, <1>2, ElementOfSeq
<1>4. expiresAt[n + 1].expiry \in Nat /\ expiresAt[n + i].expiry \in Nat
  BY <1>3 DEF Entry
<1>5. now < expiresAt[n + 1].expiry
  BY <1>1, <1>2, <1>4 DEF PruneStopsAfter
<1>6. n + 1 = n + i \/ n + 1 < n + i
  BY <1>1
<1>7. expiresAt[n + 1].expiry <= expiresAt[n + i].expiry
  <2>1. CASE n + 1 = n + i
    BY <2>1, <1>4
  <2>2. CASE n + 1 < n + i
    BY <2>2, <1>1, <1>2 DEF IInv, WellKept
  <2>. QED  BY <1>6, <2>1, <2>2
<1>. QED  BY <1>4, <1>5, <1>7, SMTT(30)

\* Pruning at a later time keeps the Map well kept.
LEMMA KeptIsWellKept ==
  ASSUME IInv, NEW now \in Nat, lastObservedTime <= now,
         NEW n \in 0..Len(expiresAt), PruneStopsAfter(n, now)
  PROVE  WellKept(Kept(n), now)
<1>. DEFINE kept == Kept(n)
<1>1. expiresAt \in Seq(Entry) /\ Len(expiresAt) \in Nat /\ DOMAIN expiresAt = 1..Len(expiresAt)
  BY LenProperties, SMTT(30) DEF IInv, TypeOK
<1>2. /\ kept \in Seq(Entry)
      /\ DOMAIN kept = 1..(Len(expiresAt) - n)
      /\ \A i \in DOMAIN kept : kept[i] = expiresAt[n + i]
  BY <1>1, KeptIsSuffix
<1>. HIDE DEF kept
<1>3. \A i \in DOMAIN kept : n + i \in DOMAIN expiresAt
  BY <1>1, <1>2
<1>4. ASSUME NEW i \in DOMAIN kept, NEW j \in DOMAIN kept, i < j
      PROVE  kept[i].expiry <= kept[j].expiry
  <2>1. n + i < n + j
    BY <1>1, <1>2, <1>4
  <2>. QED  BY <2>1, <1>2, <1>3 DEF IInv, WellKept
<1>5. ASSUME NEW i \in DOMAIN kept, NEW j \in DOMAIN kept, kept[i].key = kept[j].key
      PROVE  i = j
  <2>1. n + i = n + j
    BY <1>5, <1>2, <1>3 DEF IInv, WellKept
  <2>. QED  BY <2>1, <1>1, <1>2
<1>6. ASSUME NEW i \in DOMAIN kept
      PROVE  now < kept[i].expiry /\ kept[i].expiry <= now + ttlMs
  <2>1. now < kept[i].expiry
    BY KeptIsLive DEF kept
  <2>2. kept[i].expiry <= lastObservedTime + ttlMs
    BY <1>2, <1>3 DEF IInv, WellKept
  <2>3. kept[i].expiry \in Nat
    <3>1. kept[i] \in Entry
      BY <1>2, ElementOfSeq, LenProperties
    <3>. QED  BY <3>1 DEF Entry
  <2>4. lastObservedTime \in Int /\ ttlMs \in Nat
    BY TtlAssumption DEF IInv, TypeOK, Times, NegativeInfinity
  <2>. QED  BY <2>1, <2>2, <2>3, <2>4
<1>7. WellKept(kept, now)
  BY <1>2, <1>4, <1>5, <1>6 DEF WellKept
<1>. QED  BY <1>7 DEF kept

\* The time a claim works with: its own reading or a later one.
LEMMA LaterOfReading ==
  ASSUME TypeOK, NEW f \in Fibers, claiming[f] # NotClaiming
  PROVE  LET now == Later(claiming[f].observedTime, lastObservedTime)
         IN  /\ now \in Times /\ now \in Nat
             /\ lastObservedTime <= now
             /\ claiming[f].key \in Keys
<1>1. claiming[f] \in [key : Keys, observedTime : Times]
  BY DEF TypeOK
<1>2. claiming[f].key \in Keys /\ claiming[f].observedTime \in Times
  BY <1>1
<1>. QED  BY <1>2, ClockAssumption DEF TypeOK, Later, Times, NegativeInfinity

\* A key that is not live is not in the Map at all, so set appends its entry.
LEMMA InsertAppends ==
  ASSUME NEW kept, NEW now, NEW key, WellKept(kept, now), ~IsLive(key, kept, now)
  PROVE  /\ \A i \in DOMAIN kept : kept[i].key # key
         /\ MapSet(kept, [key |-> key, expiry |-> now + ttlMs])
              = Append(kept, [key |-> key, expiry |-> now + ttlMs])
<1>. DEFINE entry == [key |-> key, expiry |-> now + ttlMs]
<1>1. \A i \in DOMAIN kept : kept[i].key # key
  <2>. SUFFICES ASSUME NEW i \in DOMAIN kept, kept[i].key = key
                PROVE  FALSE
    OBVIOUS
  <2>1. now < kept[i].expiry
    BY DEF WellKept
  <2>. QED  BY <2>1 DEF IsLive, PositionsOf
<1>2. entry.key = key
  OBVIOUS
<1>3. PositionsOf(entry.key, kept) = {}
  BY <1>1, <1>2 DEF PositionsOf
<1>. QED  BY <1>1, <1>3 DEF MapSet

\* The entry of a key that is not in the Map, added last, keeps it well kept.
LEMMA AppendIsWellKept ==
  ASSUME NEW kept, NEW now \in Nat, NEW key \in Keys, WellKept(kept, now),
         \A i \in DOMAIN kept : kept[i].key # key
  PROVE  WellKept(Append(kept, [key |-> key, expiry |-> now + ttlMs]), now)
<1>. DEFINE entry == [key |-> key, expiry |-> now + ttlMs]
            grown == Append(kept, entry)
<1>1. ttlMs \in Nat /\ 0 < ttlMs
  BY TtlAssumption
<1>2. entry \in Entry /\ entry.key = key /\ entry.expiry = now + ttlMs
  BY <1>1 DEF Entry
<1>3. kept \in Seq(Entry) /\ Len(kept) \in Nat /\ DOMAIN kept = 1..Len(kept)
  BY LenProperties DEF WellKept
<1>. HIDE DEF entry
<1>4. /\ grown \in Seq(Entry)
      /\ DOMAIN grown = 1..(Len(kept) + 1)
      /\ \A i \in DOMAIN kept : grown[i] = kept[i]
      /\ grown[Len(kept) + 1] = entry
  BY <1>2, <1>3, AppendProperties, LenProperties
<1>. HIDE DEF grown
<1>5. \A i \in DOMAIN grown : i \in DOMAIN kept \/ i = Len(kept) + 1
  BY <1>3, <1>4
<1>6. \A i \in DOMAIN grown :
        now < grown[i].expiry /\ grown[i].expiry <= now + ttlMs
  <2>. SUFFICES ASSUME NEW i \in DOMAIN grown
                PROVE  now < grown[i].expiry /\ grown[i].expiry <= now + ttlMs
    OBVIOUS
  <2>1. CASE i \in DOMAIN kept
    BY <2>1, <1>4 DEF WellKept
  <2>2. CASE i = Len(kept) + 1
    BY <2>2, <1>1, <1>2, <1>4
  <2>. QED  BY <1>5, <2>1, <2>2
<1>7. ASSUME NEW i \in DOMAIN grown, NEW j \in DOMAIN grown, i < j
      PROVE  grown[i].expiry <= grown[j].expiry
  <2>1. i \in DOMAIN kept
    BY <1>3, <1>4, <1>7
  <2>2. CASE j \in DOMAIN kept
    BY <2>1, <2>2, <1>4, <1>7 DEF WellKept
  <2>3. CASE j = Len(kept) + 1
    BY <2>3, <1>2, <1>4, <1>6
  <2>. QED  BY <1>5, <2>2, <2>3
<1>8. ASSUME NEW i \in DOMAIN grown, NEW j \in DOMAIN grown, grown[i].key = grown[j].key
      PROVE  i = j
  <2>1. CASE i \in DOMAIN kept /\ j \in DOMAIN kept
    BY <2>1, <1>4, <1>8 DEF WellKept
  <2>2. CASE i = Len(kept) + 1 /\ j = Len(kept) + 1
    BY <2>2
  <2>3. CASE i = Len(kept) + 1 /\ j \in DOMAIN kept
    BY <2>3, <1>2, <1>4, <1>8
  <2>4. CASE i \in DOMAIN kept /\ j = Len(kept) + 1
    BY <2>4, <1>2, <1>4, <1>8
  <2>. QED  BY <1>5, <2>1, <2>2, <2>3, <2>4
<1>9. WellKept(grown, now)
  BY <1>4, <1>6, <1>7, <1>8 DEF WellKept
<1>. QED  BY <1>9 DEF grown, entry

-----------------------------------------------------------------------------
\* A new cache is empty.
LEMMA InitIInv == Init => IInv
<1>. SUFFICES ASSUME Init PROVE IInv
  OBVIOUS
<1>1. expiresAt \in Seq(Entry) /\ DOMAIN expiresAt = {} /\ Len(expiresAt) = 0
  BY EmptySeq, LenProperties DEF Init
<1>2. TypeOK
  BY <1>1 DEF Init, TypeOK
<1>3. WellKept(expiresAt, lastObservedTime)
  BY <1>1 DEF WellKept
<1>. QED  BY <1>1, <1>2, <1>3, LimitAssumption DEF IInv

\* A claim prunes, then rejects, throws or inserts: each leaves the Map well kept.
LEMMA ClaimPreservesIInv ==
  ASSUME IInv, NEW f \in Fibers, Claim(f)
  PROVE  IInv'
<1>. DEFINE key == claiming[f].key
            now == Later(claiming[f].observedTime, lastObservedTime)
<1>1. /\ now \in Times /\ now \in Nat /\ lastObservedTime <= now
      /\ key \in Keys
  BY LaterOfReading DEF IInv, Claim
<1>2. /\ lastObservedTime' = now /\ clock' = clock
      /\ claiming' = [claiming EXCEPT ![f] = NotClaiming]
  BY DEF Claim
<1>3. \E n \in 0..Len(expiresAt) :
        /\ PruneStopsAfter(n, now)
        /\ \/ RejectDuplicate(key, Kept(n), now)
           \/ ThrowForCapacity(key, Kept(n), now)
           \/ Insert(key, Kept(n), now)
  BY DEF Claim
<1>. HIDE DEF now, key
<1>4. PICK n \in 0..Len(expiresAt) :
        /\ PruneStopsAfter(n, now)
        /\ \/ RejectDuplicate(key, Kept(n), now)
           \/ ThrowForCapacity(key, Kept(n), now)
           \/ Insert(key, Kept(n), now)
  BY <1>3
<1>. DEFINE kept == Kept(n)
<1>5. WellKept(kept, now)
  BY <1>1, <1>4, KeptIsWellKept
<1>6. Len(kept) \in Nat /\ Len(kept) <= maxEntries /\ maxEntries \in Nat
  <2>1. expiresAt \in Seq(Entry) /\ Len(expiresAt) \in Nat
    BY LenProperties DEF IInv, TypeOK
  <2>2. Len(kept) = Len(expiresAt) - n
    BY <2>1, KeptIsSuffix
  <2>. QED  BY <2>1, <2>2, LimitAssumption DEF IInv
<1>. HIDE DEF kept
<1>7. /\ clock' \in Times /\ lastObservedTime' \in Times \cup {NegativeInfinity}
      /\ claiming' \in [Fibers -> [key : Keys, observedTime : Times] \cup {NotClaiming}]
  BY <1>1, <1>2 DEF IInv, TypeOK
<1>8. CASE RejectDuplicate(key, kept, now) \/ ThrowForCapacity(key, kept, now)
  BY <1>8, <1>1, <1>2, <1>5, <1>6, <1>7
  DEF RejectDuplicate, ThrowForCapacity, IInv, TypeOK, WellKept, Results
<1>9. CASE Insert(key, kept, now)
  <2>1. expiresAt' = Append(kept, [key |-> key, expiry |-> now + ttlMs])
    BY <1>5, <1>9, InsertAppends DEF Insert
  <2>2. WellKept(expiresAt', now)
    BY <2>1, <1>1, <1>5, <1>9, InsertAppends, AppendIsWellKept DEF Insert
  <2>3. Len(expiresAt') <= maxEntries
    <3>1. [key |-> key, expiry |-> now + ttlMs] \in Entry
      BY <1>1, TtlAssumption DEF Entry
    <3>2. Len(expiresAt') = Len(kept) + 1
      BY <2>1, <3>1, <1>5, AppendProperties DEF WellKept
    <3>. QED  BY <3>2, <1>6, <1>9 DEF Insert
  <2>4. acceptedAt' \in [Keys -> Times \cup {Never}]
    BY <1>1, <1>9 DEF Insert, IInv, TypeOK
  <2>5. answer' \in [key : Keys, result : Results] \cup {NoAnswer}
    BY <1>1, <1>9 DEF Insert, Results
  <2>. QED  BY <2>2, <2>3, <2>4, <2>5, <1>2, <1>7 DEF IInv, TypeOK, WellKept
<1>. QED  BY <1>4, <1>8, <1>9 DEF kept

\* Neither the clock nor a reading of it touches the Map.
LEMMA NextPreservesIInv == IInv /\ [Next]_vars => IInv'
<1>. SUFFICES ASSUME IInv, [Next]_vars PROVE IInv'
  OBVIOUS
<1>1. CASE ClockMoves
  BY <1>1 DEF ClockMoves, IInv, TypeOK, WellKept
<1>2. ASSUME NEW f \in Fibers, NEW key \in Keys, ReadClock(f, key) PROVE IInv'
  BY <1>2 DEF ReadClock, IInv, TypeOK, WellKept
<1>3. ASSUME NEW f \in Fibers, Claim(f) PROVE IInv'
  BY <1>3, ClaimPreservesIInv
<1>4. CASE UNCHANGED vars
  BY <1>4 DEF vars, IInv, TypeOK, WellKept
<1>. QED  BY <1>1, <1>2, <1>3, <1>4 DEF Next

\* Every state of the cache is well typed, and its Map well kept and within its limit.
THEOREM CacheWellKept == Spec => []IInv
BY InitIInv, NextPreservesIInv, PTL DEF Spec

\* Type correctness of the cache, for every limit and every clock.
THEOREM TypeCorrect == Spec => []TypeOK
<1>1. IInv => TypeOK
  BY DEF IInv
<1>. QED  BY <1>1, CacheWellKept, PTL

(***************************************************************************)
(* The Map stays in the order of expiration, holds each key once, none      *)
(* after it expired, and no more keys than its limit, in whatever order the *)
(* fibers' readings reach it.                                              *)
(***************************************************************************)
THEOREM LiveKeysInOrder == Spec => []OnlyLiveKeysInOrder
<1>1. IInv => OnlyLiveKeysInOrder
  <2>. SUFFICES ASSUME IInv PROVE OnlyLiveKeysInOrder
    OBVIOUS
  <2>1. /\ WellKept(expiresAt, lastObservedTime) /\ expiresAt \in Seq(Entry)
        /\ Len(expiresAt) <= maxEntries
    BY DEF IInv, TypeOK
  <2>2. DOMAIN expiresAt = 1..Len(expiresAt) /\ Len(expiresAt) \in Nat
    BY <2>1, LenProperties
  <2>3. ASSUME NEW i \in DOMAIN expiresAt, NEW j \in DOMAIN expiresAt, i < j
        PROVE  expiresAt[i].expiry <= expiresAt[j].expiry
               /\ expiresAt[i].key # expiresAt[j].key
    <3>1. i # j
      BY <2>2, <2>3
    <3>. QED  BY <2>1, <2>3, <3>1 DEF WellKept
  <2>4. ASSUME NEW i \in DOMAIN expiresAt
        PROVE  expiresAt[i].expiry > lastObservedTime
    <3>1. lastObservedTime < expiresAt[i].expiry
      BY <2>1 DEF WellKept
    <3>. QED  BY <3>1
  <2>. QED  BY <2>1, <2>3, <2>4 DEF OnlyLiveKeysInOrder
<1>. QED  BY <1>1, CacheWellKept, PTL
-----------------------------------------------------------------------------
(***************************************************************************)
(* MemoryReplayCache implements ReplayWindow with one owner, the Exit, for   *)
(* every set of keys and of fibers, every TTL, limit and horizon of the     *)
(* clock.                                                                  *)
(***************************************************************************)
\* The window of a key, in terms of the cache.
InItsWindow(key, t) == acceptedAt[key] # Never /\ t < acceptedAt[key] + ttlMs

(***************************************************************************)
(* An entry expires a TTL after its key was accepted, and every key that is *)
(* in its window has one.                                                  *)
(***************************************************************************)
LinkedAt(s, now) ==
  /\ \A i \in DOMAIN s :
       /\ acceptedAt[s[i].key] # Never
       /\ s[i].expiry = acceptedAt[s[i].key] + ttlMs
  /\ \A key \in Keys : InItsWindow(key, now) => \E i \in DOMAIN s : s[i].key = key

RInv == IInv /\ LinkedAt(expiresAt, lastObservedTime)
-----------------------------------------------------------------------------
\* The window names a key by its owner and the key.
LEMMA WindowOfKey ==
  ASSUME NEW key \in Keys, NEW t
  PROVE  /\ AsOwned(key) \in Window!Key
         /\ Window!InWindow(AsOwned(key), t) <=> InItsWindow(key, t)
BY DEF Window!InWindow, Window!Key, Window!Never, InItsWindow, AsOwned, Never

\* What is left of the Map at the time of a claim: the keys in their window,
\* each with its entry.
LEMMA KeptIsLinked ==
  ASSUME RInv, NEW now \in Nat, lastObservedTime <= now,
         NEW n \in 0..Len(expiresAt), PruneStopsAfter(n, now)
  PROVE  LinkedAt(Kept(n), now)
<1>1. /\ expiresAt \in Seq(Entry) /\ Len(expiresAt) \in Nat
      /\ DOMAIN expiresAt = 1..Len(expiresAt)
  BY LenProperties, SMTT(30) DEF RInv, IInv, TypeOK
<1>2. /\ DOMAIN Kept(n) = 1..(Len(expiresAt) - n)
      /\ \A i \in 1..(Len(expiresAt) - n) : Kept(n)[i] = expiresAt[n + i]
  BY <1>1, KeptIsSuffix
<1>3. \A i \in DOMAIN Kept(n) : n + i \in DOMAIN expiresAt /\ Kept(n)[i] = expiresAt[n + i]
  BY <1>1, <1>2
<1>4. ASSUME NEW key \in Keys, InItsWindow(key, now)
      PROVE  \E i \in DOMAIN Kept(n) : Kept(n)[i].key = key
  <2>1. ttlMs \in Nat /\ lastObservedTime \in Int /\ acceptedAt[key] \in Int
    BY TtlAssumption DEF RInv, IInv, TypeOK, Times, NegativeInfinity, Never
  <2>2. InItsWindow(key, lastObservedTime)
    BY <2>1, <1>4 DEF InItsWindow
  <2>3. PICK j \in DOMAIN expiresAt : expiresAt[j].key = key
    BY <2>2 DEF RInv, LinkedAt
  <2>4. expiresAt[j].expiry > now
    BY <2>1, <2>3, <1>4 DEF RInv, LinkedAt, InItsWindow
  <2>5. expiresAt[j].expiry \in Nat
    <3>1. expiresAt[j] \in Entry
      BY <1>1, ElementOfSeq
    <3>. QED  BY <3>1 DEF Entry
  <2>6. j \notin 1..n
    BY <2>4, <2>5 DEF PruneStopsAfter
  <2>7. j - n \in 1..(Len(expiresAt) - n) /\ n + (j - n) = j
    BY <1>1, <2>6
  <2>. QED  BY <1>2, <2>3, <2>7
<1>. QED  BY <1>3, <1>4 DEF RInv, LinkedAt

LEMMA KeptIsInWindow ==
  ASSUME RInv, NEW now \in Nat, lastObservedTime <= now,
         NEW n \in 0..Len(expiresAt), PruneStopsAfter(n, now), NEW key \in Keys
  PROVE  /\ InItsWindow(key, now) <=> \E i \in DOMAIN Kept(n) : Kept(n)[i].key = key
         /\ InItsWindow(key, now) <=> IsLive(key, Kept(n), now)
<1>1. LinkedAt(Kept(n), now)
  BY KeptIsLinked
<1>2. \A i \in DOMAIN Kept(n) : now < Kept(n)[i].expiry
  BY KeptIsLive DEF RInv
<1>3. \A i \in DOMAIN Kept(n) : Kept(n)[i].expiry > now
  BY <1>2
<1>4. ASSUME NEW i \in DOMAIN Kept(n), Kept(n)[i].key = key
      PROVE  InItsWindow(key, now)
  BY <1>1, <1>2, <1>4 DEF LinkedAt, InItsWindow
<1>. QED  BY <1>1, <1>3, <1>4 DEF LinkedAt, IsLive, PositionsOf

\* The Map's size is the number of keys in their window, all of them the Exit's.
LEMMA SizeIsRemembered ==
  ASSUME RInv, NEW now \in Nat, lastObservedTime <= now,
         NEW n \in 0..Len(expiresAt), PruneStopsAfter(n, now)
  PROVE  /\ Len(Kept(n)) = Cardinality(Window!Remembered(now))
         /\ Window!RememberedOf("exit", now) = Window!Remembered(now)
<1>. DEFINE kept == Kept(n)
            keyAt == [i \in DOMAIN kept |-> AsOwned(kept[i].key)]
<1>1. WellKept(kept, now)
  BY KeptIsWellKept DEF RInv
<1>2. kept \in Seq(Entry) /\ Len(kept) \in Nat /\ DOMAIN kept = 1..Len(kept)
  BY <1>1, LenProperties DEF WellKept
<1>3. \A i \in DOMAIN kept : kept[i].key \in Keys
  <2>1. \A i \in DOMAIN kept : kept[i] \in Entry
    BY <1>2, ElementOfSeq
  <2>. QED  BY <2>1 DEF Entry
<1>4. \A i, j \in DOMAIN kept : kept[i].key = kept[j].key => i = j
  BY <1>1 DEF WellKept
<1>5. \A key \in Keys : InItsWindow(key, now) <=> \E i \in DOMAIN kept : kept[i].key = key
  BY KeptIsInWindow
<1>. HIDE DEF kept
<1>6. Window!Remembered(now) = {AsOwned(key) : key \in {k \in Keys : InItsWindow(k, now)}}
  <2>1. \A owned \in Window!Key : \E key \in Keys : owned = AsOwned(key)
    BY DEF Window!Key, AsOwned
  <2>. QED  BY <2>1, WindowOfKey DEF Window!Remembered
<1>7. keyAt \in Bijection(1..Len(kept), Window!Remembered(now))
  <2>1. keyAt \in [1..Len(kept) -> Window!Remembered(now)]
    BY <1>2, <1>3, <1>5, <1>6
  <2>2. \A i, j \in 1..Len(kept) : keyAt[i] = keyAt[j] => i = j
    BY <1>2, <1>4 DEF AsOwned
  <2>3. \A owned \in Window!Remembered(now) : \E i \in 1..Len(kept) : keyAt[i] = owned
    BY <1>2, <1>5, <1>6
  <2>. HIDE DEF keyAt
  <2>. QED  BY <2>1, <2>2, <2>3, Fun_IsBij
<1>8. Len(kept) = Cardinality(Window!Remembered(now))
  BY <1>2, <1>7, FS_CountingElements DEF ExistsBijection
<1>9. Window!RememberedOf("exit", now) = Window!Remembered(now)
  BY <1>6 DEF Window!RememberedOf, AsOwned
<1>. QED  BY <1>8, <1>9 DEF kept

LEMMA CapacityIsFull ==
  ASSUME RInv, NEW now \in Nat, lastObservedTime <= now,
         NEW n \in 0..Len(expiresAt), PruneStopsAfter(n, now)
  PROVE  Len(Kept(n)) >= maxEntries <=> Window!Full("exit", now)
<1>1. \A S : Window!Cardinality(S) = Cardinality(S)
  BY DEF Cardinality, Window!Cardinality, IsFiniteSet, Window!IsFiniteSet
<1>. QED  BY <1>1, SizeIsRemembered DEF Window!Full
-----------------------------------------------------------------------------
\* What is common to the three outcomes of a claim.
LEMMA ClaimPrunes ==
  ASSUME IInv, NEW f \in Fibers, Claim(f)
  PROVE  \E key \in Keys, now \in Times, n \in 0..Len(expiresAt) :
           /\ now \in Nat /\ lastObservedTime <= now /\ lastObservedTime' = now
           /\ PruneStopsAfter(n, now)
           /\ \/ RejectDuplicate(key, Kept(n), now)
              \/ ThrowForCapacity(key, Kept(n), now)
              \/ Insert(key, Kept(n), now)
BY LaterOfReading DEF Claim, IInv

\* An insertion links the key it accepts, and no other entry has that key.
LEMMA InsertLinks ==
  ASSUME RInv, NEW now \in Nat, lastObservedTime <= now, NEW key \in Keys,
         NEW n \in 0..Len(expiresAt), PruneStopsAfter(n, now),
         Insert(key, Kept(n), now), lastObservedTime' = now
  PROVE  LinkedAt(expiresAt, lastObservedTime)'
<1>. DEFINE kept == Kept(n)
            entry == [key |-> key, expiry |-> now + ttlMs]
            last == Len(kept) + 1
<1>1. WellKept(kept, now)
  BY KeptIsWellKept DEF RInv
<1>2. kept \in Seq(Entry) /\ Len(kept) \in Nat /\ DOMAIN kept = 1..Len(kept)
  BY <1>1, LenProperties DEF WellKept
<1>3. \A i \in DOMAIN kept : kept[i].key \in Keys
  <2>1. \A i \in DOMAIN kept : kept[i] \in Entry
    BY <1>2, ElementOfSeq
  <2>. QED  BY <2>1 DEF Entry
<1>4. (\A i \in DOMAIN kept : kept[i].key # key) /\ expiresAt' = Append(kept, entry)
  BY <1>1, InsertAppends DEF Insert
<1>5. entry \in Entry /\ entry.key = key /\ entry.expiry = now + ttlMs
  BY TtlAssumption DEF Entry
<1>6. LinkedAt(kept, now)
  BY KeptIsLinked
<1>7. /\ acceptedAt'[key] = now /\ now # Never
      /\ \A k \in Keys : k # key => acceptedAt'[k] = acceptedAt[k]
  BY DEF RInv, IInv, TypeOK, Insert, Never
<1>. HIDE DEF entry, kept
<1>8. /\ DOMAIN expiresAt' = 1..last
      /\ \A i \in DOMAIN kept : expiresAt'[i] = kept[i]
      /\ expiresAt'[last] = entry
  BY <1>2, <1>4, <1>5, AppendProperties, LenProperties
<1>9. /\ \A i \in DOMAIN expiresAt' : i \in DOMAIN kept \/ i = last
      /\ DOMAIN kept \subseteq DOMAIN expiresAt' /\ last \in DOMAIN expiresAt'
  BY <1>2, <1>8
<1>. HIDE DEF last
<1>10. ASSUME NEW i \in DOMAIN expiresAt'
       PROVE  /\ acceptedAt'[expiresAt'[i].key] # Never
              /\ expiresAt'[i].expiry = acceptedAt'[expiresAt'[i].key] + ttlMs
  <2>1. CASE i \in DOMAIN kept
    BY <2>1, <1>3, <1>4, <1>6, <1>7, <1>8 DEF LinkedAt
  <2>2. CASE i = last
    BY <2>2, <1>5, <1>7, <1>8
  <2>. QED  BY <2>1, <2>2, <1>9
<1>11. ASSUME NEW k \in Keys, InItsWindow(k, now)'
       PROVE  \E i \in DOMAIN expiresAt' : expiresAt'[i].key = k
  <2>1. CASE k = key
    BY <2>1, <1>5, <1>8, <1>9
  <2>2. CASE k # key
    <3>1. InItsWindow(k, now)
      BY <2>2, <1>7, <1>11 DEF InItsWindow
    <3>2. PICK i \in DOMAIN kept : kept[i].key = k
      BY <3>1, <1>6 DEF LinkedAt
    <3>. QED  BY <3>2, <1>8, <1>9
  <2>. QED  BY <2>1, <2>2
<1>. QED  BY <1>10, <1>11 DEF LinkedAt, InItsWindow

LEMMA ClaimPreservesRInv ==
  ASSUME RInv, NEW f \in Fibers, Claim(f)
  PROVE  RInv'
<1>1. PICK key \in Keys, now \in Times, n \in 0..Len(expiresAt) :
        /\ now \in Nat /\ lastObservedTime <= now /\ lastObservedTime' = now
        /\ PruneStopsAfter(n, now)
        /\ \/ RejectDuplicate(key, Kept(n), now)
           \/ ThrowForCapacity(key, Kept(n), now)
           \/ Insert(key, Kept(n), now)
  BY ClaimPrunes DEF RInv
<1>2. IInv'
  BY ClaimPreservesIInv DEF RInv
<1>3. CASE RejectDuplicate(key, Kept(n), now) \/ ThrowForCapacity(key, Kept(n), now)
  <2>1. expiresAt' = Kept(n) /\ acceptedAt' = acceptedAt
    BY <1>3 DEF RejectDuplicate, ThrowForCapacity
  <2>2. LinkedAt(Kept(n), now)
    BY <1>1, KeptIsLinked
  <2>. QED  BY <1>1, <1>2, <2>1, <2>2 DEF RInv, LinkedAt, InItsWindow
<1>4. CASE Insert(key, Kept(n), now)
  BY <1>1, <1>2, <1>4, InsertLinks DEF RInv
<1>. QED  BY <1>1, <1>3, <1>4

\* The answer of a claim is that of the window.
LEMMA ClaimImplementsWindow ==
  ASSUME RInv, NEW f \in Fibers, Claim(f)
  PROVE  Window!Next
<1>1. PICK key \in Keys, now \in Times, n \in 0..Len(expiresAt) :
        /\ now \in Nat /\ lastObservedTime <= now /\ lastObservedTime' = now
        /\ PruneStopsAfter(n, now)
        /\ \/ RejectDuplicate(key, Kept(n), now)
           \/ ThrowForCapacity(key, Kept(n), now)
           \/ Insert(key, Kept(n), now)
  BY ClaimPrunes DEF RInv
<1>2. IsLive(key, Kept(n), now) <=> Window!InWindow(AsOwned(key), now)
  BY <1>1, KeptIsInWindow, WindowOfKey
<1>3. Len(Kept(n)) >= maxEntries <=> Window!Full(AsOwned(key)[1], now)
  BY <1>1, CapacityIsFull DEF AsOwned
<1>4. ~(Len(Kept(n)) < maxEntries) <=> Len(Kept(n)) >= maxEntries
  <2>1. Kept(n) \in Seq(Entry) /\ Len(Kept(n)) \in Nat
    BY <1>1, KeptIsWellKept, LenProperties DEF RInv, WellKept
  <2>. QED  BY <2>1, LimitAssumption
<1>5. AsOwned(key) \in Window!Key /\ now \in Window!Times /\ now >= lastObservedTime
  BY <1>1, WindowOfKey DEF Times, Window!Times, RInv, IInv, TypeOK, NegativeInfinity
<1>6. CASE RejectDuplicate(key, Kept(n), now)
  <2>1. Window!Duplicate(AsOwned(key), now)
    BY <1>2, <1>6 DEF RejectDuplicate, Window!Duplicate, NoAnswer
  <2>. QED  BY <2>1, <1>1, <1>5 DEF Window!Next, Window!Claim
<1>7. CASE ThrowForCapacity(key, Kept(n), now)
  <2>1. Window!RefuseForCapacity(AsOwned(key), now)
    BY <1>2, <1>3, <1>7 DEF ThrowForCapacity, Window!RefuseForCapacity, NoAnswer
  <2>. QED  BY <2>1, <1>1, <1>5 DEF Window!Next, Window!Claim
<1>8. CASE Insert(key, Kept(n), now)
  <2>1. ~Window!InWindow(AsOwned(key), now) /\ ~Window!Full(AsOwned(key)[1], now)
    BY <1>2, <1>3, <1>4, <1>8 DEF Insert
  <2>2. /\ answer' = [key |-> key, result |-> "claimed"]
        /\ acceptedAt' = [acceptedAt EXCEPT ![key] = now]
        /\ acceptedAt \in [Keys -> Times \cup {Never}]
    BY <1>8 DEF Insert, RInv, IInv, TypeOK
  <2>3. [owned \in {"exit"} \X Keys |-> acceptedAt'[owned[2]]]
          = [[owned \in {"exit"} \X Keys |-> acceptedAt[owned[2]]]
               EXCEPT ![AsOwned(key)] = now]
    <3>1. ASSUME NEW owned \in {"exit"} \X Keys
          PROVE  acceptedAt'[owned[2]]
                   = IF owned = AsOwned(key) THEN now ELSE acceptedAt[owned[2]]
      BY <2>2, <3>1 DEF AsOwned
    <3>. QED  BY <3>1
  <2>4. (IF answer' = NoAnswer THEN answer'
         ELSE [answer' EXCEPT !.key = AsOwned(answer'.key)])
          = [key |-> AsOwned(key), result |-> "claimed"]
    BY <2>2 DEF NoAnswer
  <2>5. Window!Accept(AsOwned(key), now)
    BY <2>1, <2>3, <2>4 DEF Window!Accept
  <2>. QED  BY <2>5, <1>1, <1>5 DEF Window!Next, Window!Claim
<1>. QED  BY <1>1, <1>6, <1>7, <1>8
-----------------------------------------------------------------------------
LEMMA InitRInv == Init => RInv
<1>. SUFFICES ASSUME Init PROVE RInv
  OBVIOUS
<1>1. DOMAIN expiresAt = {}
  BY EmptySeq, LenProperties DEF Init
<1>. QED  BY <1>1, InitIInv DEF Init, RInv, LinkedAt, InItsWindow, Never

LEMMA OtherStepsPreserveRInv ==
  ASSUME RInv, \/ ClockMoves \/ UNCHANGED vars
               \/ \E f \in Fibers, key \in Keys : ReadClock(f, key)
  PROVE  RInv' /\ UNCHANGED <<lastObservedTime, acceptedAt, answer>>
<1>1. UNCHANGED <<expiresAt, lastObservedTime, answer, acceptedAt>>
  BY DEF ClockMoves, ReadClock, vars
<1>2. IInv'
  BY NextPreservesIInv DEF RInv, Next
<1>. QED  BY <1>1, <1>2 DEF RInv, LinkedAt, InItsWindow

(***************************************************************************)
(* The cache's entries are what the window remembers: those of the accepted  *)
(* keys still in it.                                                       *)
(***************************************************************************)
THEOREM CacheIsWindow == Spec => []RInv
<1>1. RInv /\ [Next]_vars => RInv'
  BY ClaimPreservesRInv, OtherStepsPreserveRInv DEF Next
<1>. QED  BY <1>1, InitRInv, PTL DEF Spec

(***************************************************************************)
(* The cache implements the replay window: every claim is answered as by one *)
(* that forgets nothing.                                                   *)
(***************************************************************************)
THEOREM ImplementsWindow == Spec => KeepsReplayWindow
<1>1. Init => Window!Init
  BY DEF Init, Window!Init, NegativeInfinity, Never, NoAnswer, Window!Never,
         Window!NoAnswer, Window!Key
<1>2. RInv /\ [Next]_vars => [Window!Next]_(Window!vars)
  <2>. SUFFICES ASSUME RInv, [Next]_vars
                PROVE  [Window!Next]_(Window!vars)
    OBVIOUS
  <2>1. ASSUME NEW f \in Fibers, Claim(f)
        PROVE  Window!Next
    BY <2>1, ClaimImplementsWindow
  <2>2. CASE \/ ClockMoves \/ UNCHANGED vars
             \/ \E f \in Fibers, key \in Keys : ReadClock(f, key)
    BY <2>2, OtherStepsPreserveRInv DEF Window!vars
  <2>. QED  BY <2>1, <2>2 DEF Next
<1>. QED  BY <1>1, <1>2, CacheIsWindow, PTL DEF Spec, KeepsReplayWindow, Window!Spec
=============================================================================
