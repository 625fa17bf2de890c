------------------------ MODULE RequestTrackerProofs ------------------------
(***************************************************************************)
(* What MemoryRequestTracker guarantees for every set of tenants and ids,  *)
(* every TTL, limit and horizon of the clock.                              *)
(***************************************************************************)
EXTENDS RequestTracker, SequenceTheorems, FunctionTheorems, FiniteSetTheorems, TLAPS

(***************************************************************************)
(* A Map as every claim leaves it at time now.  That entries are ordered by *)
(* expiry is not inductive alone: a new entry goes last, so no entry may    *)
(* expire later than a full TTL from now.                                   *)
(***************************************************************************)
WellKept(s, now) ==
  /\ s \in Seq(Entry)
  /\ \A i, j \in DOMAIN s : i < j => s[i].expiresAt <= s[j].expiresAt
  /\ \A i, j \in DOMAIN s : s[i].key = s[j].key => i = j
  /\ \A i \in DOMAIN s : now < s[i].expiresAt /\ s[i].expiresAt <= now + ttlMs

IInv == TypeOK /\ WellKept(entries, lastObservedTime)

-----------------------------------------------------------------------------
(* What is left of the Map after prune.                                    *)

\* Pruning the first n entries shifts the others down by n.
LEMMA KeptIsSuffix ==
  ASSUME entries \in Seq(Entry), NEW n \in 0..Len(entries)
  PROVE  /\ Kept(n) \in Seq(Entry)
         /\ Len(Kept(n)) = Len(entries) - n
         /\ DOMAIN Kept(n) = 1..(Len(entries) - n)
         /\ \A i \in 1..(Len(entries) - n) : Kept(n)[i] = entries[n + i]
<1>1. Len(entries) \in Nat /\ n \in Nat
  BY LenProperties
<1>2. \A i \in n + 1..Len(entries) : entries[i] \in Entry
  BY <1>1, ElementOfSeq
<1>3. /\ Kept(n) \in Seq(Entry)
      /\ Len(Kept(n)) = IF n + 1 <= Len(entries) THEN Len(entries) - (n + 1) + 1 ELSE 0
      /\ \A i \in 1..Len(entries) - (n + 1) + 1 : Kept(n)[i] = entries[n + 1 + i - 1]
  BY <1>1, <1>2, SubSeqProperties DEF Kept
<1>4. Len(Kept(n)) = Len(entries) - n
  BY <1>1, <1>3
<1>5. \A i \in 1..(Len(entries) - n) : Kept(n)[i] = entries[n + i]
  <2>. TAKE i \in 1..(Len(entries) - n)
  <2>1. Kept(n)[i] = entries[n + 1 + i - 1]
    BY <1>1, <1>3
  <2>2. n + 1 + i - 1 = n + i
    BY <1>1
  <2>. QED  BY <2>1, <2>2
<1>6. DOMAIN Kept(n) = 1..(Len(entries) - n)
  BY <1>3, <1>4, LenProperties
<1>. QED  BY <1>3, <1>4, <1>5, <1>6

\* In a well-kept Map, prune's break leaves no expired entry behind.
LEMMA KeptIsLive ==
  ASSUME IInv, NEW now \in Nat, NEW n \in 0..Len(entries), PruneStopsAfter(n, now)
  PROVE  \A i \in DOMAIN Kept(n) : now < Kept(n)[i].expiresAt
<1>1. entries \in Seq(Entry) /\ Len(entries) \in Nat /\ DOMAIN entries = 1..Len(entries)
  BY LenProperties DEF IInv, TypeOK
<1>. SUFFICES ASSUME NEW i \in 1..(Len(entries) - n)
              PROVE  now < entries[n + i].expiresAt
  BY <1>1, KeptIsSuffix
<1>2. n + 1 \in 1..Len(entries) /\ n + i \in 1..Len(entries)
  BY <1>1
<1>3. entries[n + 1] \in Entry /\ entries[n + i] \in Entry
  BY <1>1, <1>2, ElementOfSeq
<1>4. entries[n + 1].expiresAt \in Nat /\ entries[n + i].expiresAt \in Nat
  BY <1>3 DEF Entry
<1>5. now < entries[n + 1].expiresAt
  BY <1>1, <1>2, <1>4 DEF PruneStopsAfter
<1>6. n + 1 = n + i \/ n + 1 < n + i
  BY <1>1
<1>7. entries[n + 1].expiresAt <= entries[n + i].expiresAt
  <2>1. CASE n + 1 = n + i
    BY <2>1, <1>4
  <2>2. CASE n + 1 < n + i
    BY <2>2, <1>1, <1>2 DEF IInv, WellKept
  <2>. QED  BY <1>6, <2>1, <2>2
<1>. QED  BY <1>4, <1>5, <1>7, SMTT(30)

\* Pruning at a later time keeps the Map well kept.
LEMMA KeptIsWellKept ==
  ASSUME IInv, NEW now \in Nat, lastObservedTime <= now,
         NEW n \in 0..Len(entries), PruneStopsAfter(n, now)
  PROVE  WellKept(Kept(n), now)
<1>. DEFINE kept == Kept(n)
<1>1. entries \in Seq(Entry) /\ Len(entries) \in Nat /\ DOMAIN entries = 1..Len(entries)
  BY LenProperties, SMTT(30) DEF IInv, TypeOK
<1>2. /\ kept \in Seq(Entry)
      /\ DOMAIN kept = 1..(Len(entries) - n)
      /\ \A i \in DOMAIN kept : kept[i] = entries[n + i]
  BY <1>1, KeptIsSuffix
<1>. HIDE DEF kept
<1>3. \A i \in DOMAIN kept : n + i \in DOMAIN entries
  BY <1>1, <1>2
<1>4. ASSUME NEW i \in DOMAIN kept, NEW j \in DOMAIN kept, i < j
      PROVE  kept[i].expiresAt <= kept[j].expiresAt
  <2>1. n + i < n + j
    BY <1>1, <1>2, <1>4
  <2>. QED  BY <2>1, <1>2, <1>3 DEF IInv, WellKept
<1>5. ASSUME NEW i \in DOMAIN kept, NEW j \in DOMAIN kept, kept[i].key = kept[j].key
      PROVE  i = j
  <2>1. n + i = n + j
    BY <1>5, <1>2, <1>3 DEF IInv, WellKept
  <2>. QED  BY <2>1, <1>1, <1>2
<1>6. ASSUME NEW i \in DOMAIN kept
      PROVE  now < kept[i].expiresAt /\ kept[i].expiresAt <= now + ttlMs
  <2>1. now < kept[i].expiresAt
    BY KeptIsLive DEF kept
  <2>2. kept[i].expiresAt <= lastObservedTime + ttlMs
    BY <1>2, <1>3 DEF IInv, WellKept
  <2>3. kept[i].expiresAt \in Nat
    <3>1. kept[i] \in Entry
      BY <1>2, ElementOfSeq, LenProperties
    <3>. QED  BY <3>1 DEF Entry
  <2>4. lastObservedTime \in Int /\ ttlMs \in Nat
    BY TtlAssumption DEF IInv, TypeOK, Times, NegativeInfinity
  <2>. QED  BY <2>1, <2>2, <2>3, <2>4
<1>7. WellKept(kept, now)
  BY <1>2, <1>4, <1>5, <1>6 DEF WellKept
<1>. QED  BY <1>7 DEF kept

\* The time a claim works with: a reading of the clock or a later one.
LEMMA LaterOfClock ==
  ASSUME TypeOK
  PROVE  /\ Later(clock, lastObservedTime) \in Times
         /\ Later(clock, lastObservedTime) \in Nat
         /\ lastObservedTime <= Later(clock, lastObservedTime)
BY ClockAssumption DEF TypeOK, Later, Times, NegativeInfinity

\* A key that is not live is not in the Map at all, so set appends its entry.
LEMMA InsertAppends ==
  ASSUME NEW kept, NEW now, NEW key, WellKept(kept, now), ~IsLive(key, kept, now)
  PROVE  /\ \A i \in DOMAIN kept : kept[i].key # key
         /\ MapSet(kept, [key |-> key, expiresAt |-> now + ttlMs])
              = Append(kept, [key |-> key, expiresAt |-> now + ttlMs])
<1>. DEFINE entry == [key |-> key, expiresAt |-> now + ttlMs]
<1>1. \A i \in DOMAIN kept : kept[i].key # key
  <2>. SUFFICES ASSUME NEW i \in DOMAIN kept, kept[i].key = key
                PROVE  FALSE
    OBVIOUS
  <2>1. now < kept[i].expiresAt
    BY DEF WellKept
  <2>. QED  BY <2>1 DEF IsLive, PositionsOf
<1>2. entry.key = key
  OBVIOUS
<1>3. PositionsOf(entry.key, kept) = {}
  BY <1>1, <1>2 DEF PositionsOf
<1>. QED  BY <1>1, <1>3 DEF MapSet

\* The entry of a key that is not in the Map, added last, keeps it well kept.
LEMMA AppendIsWellKept ==
  ASSUME NEW kept, NEW now \in Nat, NEW key \in Key, WellKept(kept, now),
         \A i \in DOMAIN kept : kept[i].key # key
  PROVE  WellKept(Append(kept, [key |-> key, expiresAt |-> now + ttlMs]), now)
<1>. DEFINE entry == [key |-> key, expiresAt |-> now + ttlMs]
            grown == Append(kept, entry)
<1>1. ttlMs \in Nat /\ 0 < ttlMs
  BY TtlAssumption
<1>2. entry \in Entry /\ entry.key = key /\ entry.expiresAt = now + ttlMs
  BY <1>1 DEF Entry
<1>3. kept \in Seq(Entry) /\ Len(kept) \in Nat /\ DOMAIN kept = 1..Len(kept)
  BY LenProperties DEF WellKept
<1>. HIDE DEF entry
<1>4. /\ grown \in Seq(Entry)
      /\ DOMAIN grown = 1..(Len(kept) + 1)
      /\ \A i \in DOMAIN kept : grown[i] = kept[i]
      /\ grown[Len(kept) + 1] = entry
  BY <1>2, <1>3, AppendProperties, LenProperties
<1>. HIDE DEF grown
<1>5. \A i \in DOMAIN grown : i \in DOMAIN kept \/ i = Len(kept) + 1
  BY <1>3, <1>4
<1>6. \A i \in DOMAIN grown :
        now < grown[i].expiresAt /\ grown[i].expiresAt <= now + ttlMs
  <2>. SUFFICES ASSUME NEW i \in DOMAIN grown
                PROVE  now < grown[i].expiresAt /\ grown[i].expiresAt <= now + ttlMs
    OBVIOUS
  <2>1. CASE i \in DOMAIN kept
    BY <2>1, <1>4 DEF WellKept
  <2>2. CASE i = Len(kept) + 1
    BY <2>2, <1>1, <1>2, <1>4
  <2>. QED  BY <1>5, <2>1, <2>2
<1>7. ASSUME NEW i \in DOMAIN grown, NEW j \in DOMAIN grown, i < j
      PROVE  grown[i].expiresAt <= grown[j].expiresAt
  <2>1. i \in DOMAIN kept
    BY <1>3, <1>4, <1>7
  <2>2. CASE j \in DOMAIN kept
    BY <2>1, <2>2, <1>4, <1>7 DEF WellKept
  <2>3. CASE j = Len(kept) + 1
    BY <2>3, <1>2, <1>4, <1>6
  <2>. QED  BY <1>5, <2>2, <2>3
<1>8. ASSUME NEW i \in DOMAIN grown, NEW j \in DOMAIN grown, grown[i].key = grown[j].key
      PROVE  i = j
  <2>1. CASE i \in DOMAIN kept /\ j \in DOMAIN kept
    BY <2>1, <1>4, <1>8 DEF WellKept
  <2>2. CASE i = Len(kept) + 1 /\ j = Len(kept) + 1
    BY <2>2
  <2>3. CASE i = Len(kept) + 1 /\ j \in DOMAIN kept
    BY <2>3, <1>2, <1>4, <1>8
  <2>4. CASE i \in DOMAIN kept /\ j = Len(kept) + 1
    BY <2>4, <1>2, <1>4, <1>8
  <2>. QED  BY <1>5, <2>1, <2>2, <2>3, <2>4
<1>9. WellKept(grown, now)
  BY <1>4, <1>6, <1>7, <1>8 DEF WellKept
<1>. QED  BY <1>9 DEF grown, entry

\* Pruning subtracts natural numbers, and stops at zero.
LEMMA PrunedCountsType ==
  ASSUME TypeOK, NEW n \in 0..Len(entries)
  PROVE  CountsAfterPrune(n) \in [Tenants -> Nat]
<1>. SUFFICES ASSUME NEW t \in Tenants
              PROVE  CountsAfterPrune(n)[t] \in Nat
  BY DEF CountsAfterPrune
<1>. DEFINE removed == {i \in 1..n : entries[i].key[1] = t}
<1>1. n \in Int
  BY LenProperties DEF TypeOK
<1>2. Cardinality(removed) \in Nat
  <2>1. IsFiniteSet(1..n)
    BY <1>1, FS_Interval
  <2>2. removed \in SUBSET (1..n)
    OBVIOUS
  <2>3. IsFiniteSet(removed)
    BY <2>1, <2>2, FS_Subset
  <2>. QED  BY <2>3, FS_CardinalityType
<1>3. tenantCounts[t] \in Nat
  BY DEF TypeOK
<1>4. CountsAfterPrune(n)[t]
        = IF tenantCounts[t] > Cardinality(removed)
            THEN tenantCounts[t] - Cardinality(removed) ELSE 0
  BY DEF CountsAfterPrune
<1>. HIDE DEF removed
<1>. QED  BY <1>2, <1>3, <1>4
-----------------------------------------------------------------------------
\* A new store is empty: its Map is well kept for want of entries.
LEMMA InitIInv == Init => IInv
<1>. SUFFICES ASSUME Init PROVE IInv
  OBVIOUS
<1>1. entries \in Seq(Entry) /\ DOMAIN entries = {}
  BY EmptySeq, LenProperties DEF Init
<1>2. TypeOK
  BY <1>1, LimitsAssumption DEF Init, TypeOK
<1>3. WellKept(entries, lastObservedTime)
  BY <1>1 DEF WellKept
<1>. QED  BY <1>2, <1>3 DEF IInv

\* A claim prunes, then rejects, fails or inserts: each leaves the Map well kept.
LEMMA ClaimPreservesIInv ==
  ASSUME IInv, NEW key \in Key, Claim(key)
  PROVE  IInv'
<1>. DEFINE now == Later(clock, lastObservedTime)
<1>1. now \in Times /\ now \in Nat /\ lastObservedTime <= now
  BY LaterOfClock DEF IInv
<1>2. lastObservedTime' = now /\ clock' = clock
  BY DEF Claim
<1>. HIDE DEF now
<1>3. PICK n \in 0..Len(entries) :
        /\ PruneStopsAfter(n, now)
        /\ \/ RejectDuplicate(key, Kept(n), CountsAfterPrune(n), now)
           \/ FailForCapacity(key, Kept(n), CountsAfterPrune(n), now)
           \/ Insert(key, Kept(n), CountsAfterPrune(n), now)
  BY DEF Claim, now
<1>. DEFINE kept == Kept(n)
            counts == CountsAfterPrune(n)
<1>4. WellKept(kept, now)
  BY <1>1, <1>3, KeptIsWellKept
<1>5. counts \in [Tenants -> Nat]
  BY PrunedCountsType DEF IInv
<1>. HIDE DEF kept, counts
<1>6. key[1] \in Tenants
  BY DEF Key
<1>7. clock' \in Times /\ lastObservedTime' \in Times \cup {NegativeInfinity}
  BY <1>1, <1>2 DEF IInv, TypeOK
<1>8. CASE RejectDuplicate(key, kept, counts, now)
  BY <1>8, <1>2, <1>4, <1>5, <1>7 DEF RejectDuplicate, IInv, TypeOK, WellKept, Results
<1>9. CASE FailForCapacity(key, kept, counts, now)
  BY <1>9, <1>2, <1>4, <1>5, <1>7 DEF FailForCapacity, IInv, TypeOK, WellKept, Results
<1>10. CASE Insert(key, kept, counts, now)
  <2>1. entries' = Append(kept, [key |-> key, expiresAt |-> now + ttlMs])
    BY <1>4, <1>10, InsertAppends DEF Insert
  <2>2. WellKept(entries', now)
    BY <2>1, <1>1, <1>4, <1>10, InsertAppends, AppendIsWellKept DEF Insert
  <2>3. tenantCounts' \in [Tenants -> Nat]
    BY <1>5, <1>6, <1>10 DEF Insert
  <2>4. acceptedAt' \in [Key -> Times \cup {Never}]
    BY <1>1, <1>10 DEF Insert, IInv, TypeOK
  <2>5. answer' \in [key : Key, result : Results] \cup {NoAnswer}
    BY <1>10 DEF Insert, Results
  <2>. QED  BY <2>2, <2>3, <2>4, <2>5, <1>2, <1>7 DEF IInv, TypeOK, WellKept
<1>. QED  BY <1>3, <1>8, <1>9, <1>10 DEF kept, counts

\* The clock, forwards or backwards, touches nothing the invariant is about.
LEMMA NextPreservesIInv == IInv /\ [Next]_vars => IInv'
<1>. SUFFICES ASSUME IInv, [Next]_vars PROVE IInv'
  OBVIOUS
<1>1. CASE ClockMoves
  BY <1>1 DEF ClockMoves, IInv, TypeOK, WellKept
<1>2. ASSUME NEW key \in Key, Claim(key) PROVE IInv'
  BY <1>2, ClaimPreservesIInv
<1>3. CASE UNCHANGED vars
  BY <1>3 DEF vars, IInv, TypeOK, WellKept
<1>. QED  BY <1>1, <1>2, <1>3 DEF Next

\* Every state of the store is well typed, and its Map well kept.
THEOREM StoreWellKept == Spec => []IInv
BY InitIInv, NextPreservesIInv, PTL DEF Spec

\* Type correctness of the store, for every limit and every clock.
THEOREM TypeCorrect == Spec => []TypeOK
<1>1. IInv => TypeOK
  BY DEF IInv
<1>. QED  BY <1>1, StoreWellKept, PTL

(***************************************************************************)
(* The premise of prune's break: the Map is always ordered by expiration,   *)
(* whatever way the wall clock goes; it never holds a key twice, nor, after *)
(* a claim, one that had expired.                                          *)
(***************************************************************************)
THEOREM LiveKeysInOrder == Spec => []OnlyLiveKeysInOrder
<1>1. IInv => OnlyLiveKeysInOrder
  <2>. SUFFICES ASSUME IInv PROVE OnlyLiveKeysInOrder
    OBVIOUS
  <2>1. WellKept(entries, lastObservedTime) /\ entries \in Seq(Entry)
    BY DEF IInv, TypeOK
  <2>2. DOMAIN entries = 1..Len(entries) /\ Len(entries) \in Nat
    BY <2>1, LenProperties
  <2>3. ASSUME NEW i \in DOMAIN entries, NEW j \in DOMAIN entries, i < j
        PROVE  entries[i].expiresAt <= entries[j].expiresAt
               /\ entries[i].key # entries[j].key
    <3>1. i # j
      BY <2>2, <2>3
    <3>. QED  BY <2>1, <2>3, <3>1 DEF WellKept
  <2>4. \A i \in DOMAIN entries : entries[i].expiresAt > lastObservedTime
    <3>. SUFFICES ASSUME NEW i \in DOMAIN entries
                  PROVE  entries[i].expiresAt > lastObservedTime
      OBVIOUS
    <3>1. lastObservedTime < entries[i].expiresAt
      BY <2>1 DEF WellKept
    <3>. QED  BY <3>1
  <2>. QED  BY <2>3, <2>4 DEF OnlyLiveKeysInOrder
<1>. QED  BY <1>1, StoreWellKept, PTL
-----------------------------------------------------------------------------
(***************************************************************************)
(* MemoryRequestTracker implements ReplayWindow, for every set of tenants    *)
(* and ids, every TTL, limit and horizon of the clock: what it forgets,     *)
(* no later answer depends on.                                             *)
(***************************************************************************)
\* The positions of a tenant's entries in a Map.
Positions(s, t) == {i \in DOMAIN s : s[i].key[1] = t}

(***************************************************************************)
(* An entry expires a TTL after its key was accepted, and every key that is *)
(* in its window has one.                                                  *)
(***************************************************************************)
Linked ==
  /\ \A i \in DOMAIN entries :
       /\ acceptedAt[entries[i].key] # Never
       /\ entries[i].expiresAt = acceptedAt[entries[i].key] + ttlMs
  /\ \A key \in Key :
       Window!InWindow(key, lastObservedTime) =>
         \E i \in DOMAIN entries : entries[i].key = key

RInv == IInv /\ Linked /\ CountsMatchEntries
-----------------------------------------------------------------------------
(* What a claim has before it after prune: n, the number of deletions, and   *)
(* now, its time.                                                          *)

LEMMA EntriesTyped ==
  ASSUME IInv
  PROVE  /\ entries \in Seq(Entry) /\ Len(entries) \in Nat
         /\ DOMAIN entries = 1..Len(entries)
         /\ \A i \in DOMAIN entries :
              entries[i].key \in Key /\ entries[i].expiresAt \in Nat
<1>1. entries \in Seq(Entry) /\ Len(entries) \in Nat /\ DOMAIN entries = 1..Len(entries)
  BY LenProperties DEF IInv, TypeOK
<1>2. \A i \in DOMAIN entries : entries[i] \in Entry
  BY <1>1, ElementOfSeq
<1> QED BY <1>1, <1>2 DEF Entry

\* What is left of the Map holds exactly the keys in their window.
LEMMA KeptIsInWindow ==
  ASSUME RInv, NEW now \in Nat, lastObservedTime <= now,
         NEW n \in 0..Len(entries), PruneStopsAfter(n, now), NEW key \in Key
  PROVE  Window!InWindow(key, now) <=> \E i \in DOMAIN Kept(n) : Kept(n)[i].key = key
<1>1. /\ Len(entries) \in Nat /\ DOMAIN entries = 1..Len(entries)
      /\ \A i \in DOMAIN entries :
           entries[i].key \in Key /\ entries[i].expiresAt \in Nat
  BY EntriesTyped, SMTT(30) DEF RInv
<1>2. /\ DOMAIN Kept(n) = 1..(Len(entries) - n)
      /\ \A i \in 1..(Len(entries) - n) : Kept(n)[i] = entries[n + i]
  BY <1>1, EntriesTyped, KeptIsSuffix DEF RInv
<1>3. ttlMs \in Nat /\ lastObservedTime \in Int /\ acceptedAt[key] \in Int
  BY TtlAssumption DEF RInv, IInv, TypeOK, Times, NegativeInfinity, Never
<1>4. ASSUME Window!InWindow(key, now)
      PROVE  \E i \in DOMAIN Kept(n) : Kept(n)[i].key = key
  <2>1. Window!InWindow(key, lastObservedTime)
    BY <1>3, <1>4 DEF Window!InWindow
  <2>2. PICK j \in DOMAIN entries : entries[j].key = key
    BY <2>1 DEF RInv, Linked
  <2>3. entries[j].expiresAt > now
    BY <1>3, <1>4, <2>2 DEF RInv, Linked, Window!InWindow
  <2>4. j \notin 1..n
    BY <1>1, <2>2, <2>3 DEF PruneStopsAfter
  <2>5. j - n \in 1..(Len(entries) - n) /\ n + (j - n) = j
    BY <1>1, <2>4
  <2> QED BY <1>2, <2>2, <2>5
<1>5. ASSUME NEW i \in DOMAIN Kept(n), Kept(n)[i].key = key
      PROVE  Window!InWindow(key, now)
  <2>1. n + i \in DOMAIN entries /\ Kept(n)[i] = entries[n + i]
    BY <1>1, <1>2
  <2>2. now < Kept(n)[i].expiresAt
    BY KeptIsLive DEF RInv
  <2> QED
    BY <1>5, <2>1, <2>2 DEF RInv, Linked, Window!InWindow, Window!Never, Never
<1> QED BY <1>4, <1>5

\* So the lookup of a key tells whether it is in its window.
LEMMA LookupIsWindow ==
  ASSUME RInv, NEW now \in Nat, lastObservedTime <= now,
         NEW n \in 0..Len(entries), PruneStopsAfter(n, now), NEW key \in Key
  PROVE  IsLive(key, Kept(n), now) <=> Window!InWindow(key, now)
<1>1. \A i \in DOMAIN Kept(n) : now < Kept(n)[i].expiresAt
  BY KeptIsLive DEF RInv
<1>2. \A i \in DOMAIN Kept(n) : Kept(n)[i].expiresAt > now
  BY <1>1
<1> QED BY <1>2, KeptIsInWindow DEF IsLive, PositionsOf

\* The Map's size is the number of keys in their window.
LEMMA SizeIsRemembered ==
  ASSUME RInv, NEW now \in Nat, lastObservedTime <= now,
         NEW n \in 0..Len(entries), PruneStopsAfter(n, now)
  PROVE  Len(Kept(n)) = Cardinality(Window!Remembered(now))
<1> DEFINE kept == Kept(n)
           keyAt == [i \in DOMAIN kept |-> kept[i].key]
<1>1. kept \in Seq(Entry) /\ Len(kept) \in Nat /\ DOMAIN kept = 1..Len(kept)
  BY EntriesTyped, KeptIsSuffix, LenProperties DEF RInv
<1>2. \A i \in DOMAIN kept : kept[i].key \in Key
  <2>1. \A i \in DOMAIN kept : kept[i] \in Entry
    BY <1>1, ElementOfSeq
  <2> QED BY <2>1 DEF Entry
<1>3. \A i, j \in DOMAIN kept : kept[i].key = kept[j].key => i = j
  BY KeptIsWellKept DEF RInv, WellKept
<1>4. \A key \in Key :
        Window!InWindow(key, now) <=> \E i \in DOMAIN kept : kept[i].key = key
  BY KeptIsInWindow
<1> HIDE DEF kept
<1>5. Window!Remembered(now) = {key \in Key : Window!InWindow(key, now)}
  BY DEF Window!Remembered, Window!Key, Key
<1>6. keyAt \in Bijection(1..Len(kept), Window!Remembered(now))
  <2>1. keyAt \in [1..Len(kept) -> Window!Remembered(now)]
    BY <1>1, <1>2, <1>4, <1>5
  <2>2. \A i, j \in 1..Len(kept) : keyAt[i] = keyAt[j] => i = j
    BY <1>1, <1>3
  <2>3. \A key \in Window!Remembered(now) : \E i \in 1..Len(kept) : keyAt[i] = key
    BY <1>1, <1>4, <1>5
  <2> HIDE DEF keyAt
  <2> QED BY <2>1, <2>2, <2>3, Fun_IsBij
<1>7. ExistsBijection(1..Len(kept), Window!Remembered(now))
  BY <1>6 DEF ExistsBijection
<1> QED BY <1>1, <1>7, FS_CountingElements, SMTT(30) DEF kept

\* The same of one tenant's share.
LEMMA ShareIsRemembered ==
  ASSUME RInv, NEW now \in Nat, lastObservedTime <= now,
         NEW n \in 0..Len(entries), PruneStopsAfter(n, now), NEW t \in Tenants
  PROVE  Cardinality(Positions(Kept(n), t)) = Cardinality(Window!RememberedOf(t, now))
<1> DEFINE kept == Kept(n)
           keyAt == [i \in Positions(kept, t) |-> kept[i].key]
<1>1. kept \in Seq(Entry) /\ Len(kept) \in Nat /\ DOMAIN kept = 1..Len(kept)
  BY EntriesTyped, KeptIsSuffix, LenProperties DEF RInv
<1>2. \A i \in DOMAIN kept : kept[i].key \in Key
  <2>1. \A i \in DOMAIN kept : kept[i] \in Entry
    BY <1>1, ElementOfSeq
  <2> QED BY <2>1 DEF Entry
<1>3. \A i, j \in DOMAIN kept : kept[i].key = kept[j].key => i = j
  BY KeptIsWellKept DEF RInv, WellKept
<1>4. \A key \in Key :
        Window!InWindow(key, now) <=> \E i \in DOMAIN kept : kept[i].key = key
  BY KeptIsInWindow
<1> HIDE DEF kept
<1>5. Window!RememberedOf(t, now) = {key \in Key : Window!InWindow(key, now) /\ key[1] = t}
  BY DEF Window!RememberedOf, Window!Remembered, Window!Key, Key
<1>6. keyAt \in Bijection(Positions(kept, t), Window!RememberedOf(t, now))
  <2>1. keyAt \in [Positions(kept, t) -> Window!RememberedOf(t, now)]
    BY <1>2, <1>4, <1>5 DEF Positions
  <2>2. \A i, j \in Positions(kept, t) : keyAt[i] = keyAt[j] => i = j
    BY <1>3 DEF Positions
  <2>3. \A key \in Window!RememberedOf(t, now) :
          \E i \in Positions(kept, t) : keyAt[i] = key
    BY <1>4, <1>5 DEF Positions
  <2> HIDE DEF keyAt
  <2> QED BY <2>1, <2>2, <2>3, Fun_IsBij
<1>7. ExistsBijection(Positions(kept, t), Window!RememberedOf(t, now))
  BY <1>6 DEF ExistsBijection
<1>8. IsFiniteSet(Positions(kept, t))
  <2>1. Positions(kept, t) \in SUBSET (1..Len(kept)) /\ IsFiniteSet(1..Len(kept))
    BY <1>1, FS_Interval DEF Positions
  <2> QED BY <2>1, FS_Subset
<1> QED BY <1>7, <1>8, FS_Bijection, SMTT(30) DEF kept

\* Pruning takes off a tenant's count exactly what it deletes of its entries.
LEMMA PrunedCountsMatch ==
  ASSUME RInv, NEW n \in 0..Len(entries), NEW t \in Tenants
  PROVE  CountsAfterPrune(n)[t] = Cardinality(Positions(Kept(n), t))
<1> DEFINE kept == Kept(n)
           deleted == {i \in 1..n : entries[i].key[1] = t}
           rest == {i \in (n + 1)..Len(entries) : entries[i].key[1] = t}
           shift == [i \in Positions(kept, t) |-> n + i]
<1>1. n \in Nat /\ Len(entries) \in Nat /\ DOMAIN entries = 1..Len(entries)
  BY EntriesTyped, SMTT(30) DEF RInv
<1>2. /\ DOMAIN kept = 1..(Len(entries) - n)
      /\ \A i \in 1..(Len(entries) - n) : kept[i] = entries[n + i]
  BY EntriesTyped, KeptIsSuffix DEF RInv
<1> HIDE DEF kept
<1>3. IsFiniteSet(deleted) /\ IsFiniteSet(rest) /\ IsFiniteSet(Positions(kept, t))
  <2>1. /\ IsFiniteSet(1..n) /\ IsFiniteSet((n + 1)..Len(entries))
        /\ IsFiniteSet(1..(Len(entries) - n))
    BY <1>1, FS_Interval
  <2>2. /\ deleted \in SUBSET (1..n) /\ rest \in SUBSET ((n + 1)..Len(entries))
        /\ Positions(kept, t) \in SUBSET (1..(Len(entries) - n))
    BY <1>2 DEF Positions
  <2> QED BY <2>1, <2>2, FS_Subset
<1>4. /\ Cardinality(deleted) \in Nat /\ Cardinality(rest) \in Nat
      /\ Cardinality(deleted \cap rest) = 0
  <2>1. deleted \cap rest = {}
    BY <1>1
  <2> QED BY <2>1, <1>3, FS_CardinalityType, FS_EmptySet
<1>5. Positions(entries, t) = deleted \cup rest
  BY <1>1 DEF Positions
<1>6. tenantCounts[t] = Cardinality(deleted) + Cardinality(rest)
  <2>1. tenantCounts[t] = Cardinality(deleted \cup rest)
    BY <1>5 DEF RInv, CountsMatchEntries, Positions
  <2> HIDE DEF deleted, rest
  <2>2. Cardinality(deleted \cup rest)
          = Cardinality(deleted) + Cardinality(rest) - Cardinality(deleted \cap rest)
    BY <1>3, FS_Union
  <2> QED BY <2>1, <2>2, <1>4
<1>7. shift \in Bijection(Positions(kept, t), rest)
  <2>1. \A i \in Positions(kept, t) : n + i \in rest /\ i \in Int
    BY <1>1, <1>2 DEF Positions
  <2>2. \A j \in rest : j - n \in Positions(kept, t) /\ n + (j - n) = j
    BY <1>1, <1>2 DEF Positions
  <2>3. \A i, j \in Positions(kept, t) : n + i = n + j => i = j
    BY <1>1, <2>1
  <2> HIDE DEF rest
  <2>4. /\ shift \in [Positions(kept, t) -> rest]
        /\ \A i, j \in Positions(kept, t) : shift[i] = shift[j] => i = j
        /\ \A j \in rest : \E i \in Positions(kept, t) : shift[i] = j
    BY <2>1, <2>2, <2>3
  <2> HIDE DEF shift
  <2> QED BY <2>4, Fun_IsBij
<1>8. Cardinality(rest) = Cardinality(Positions(kept, t))
  BY <1>3, <1>7, FS_Bijection DEF ExistsBijection
<1>9. CountsAfterPrune(n)[t]
        = IF tenantCounts[t] > Cardinality(deleted)
            THEN tenantCounts[t] - Cardinality(deleted) ELSE 0
  BY DEF CountsAfterPrune
<1> HIDE DEF deleted, rest
<1> QED BY <1>4, <1>6, <1>8, <1>9 DEF kept
-----------------------------------------------------------------------------
(* A claim, in terms of the window: what it leaves in the Map, and why.       *)

\* What pruning leaves is linked at the claim's time.
KeptLinked(n, now) ==
  /\ \A i \in DOMAIN Kept(n) :
       /\ acceptedAt[Kept(n)[i].key] # Never
       /\ Kept(n)[i].expiresAt = acceptedAt[Kept(n)[i].key] + ttlMs
  /\ \A key \in Key :
       Window!InWindow(key, now) => \E i \in DOMAIN Kept(n) : Kept(n)[i].key = key

LEMMA KeptIsLinked ==
  ASSUME RInv, NEW now \in Nat, lastObservedTime <= now,
         NEW n \in 0..Len(entries), PruneStopsAfter(n, now)
  PROVE  KeptLinked(n, now)
<1>1. \A i \in DOMAIN Kept(n) : n + i \in DOMAIN entries /\ Kept(n)[i] = entries[n + i]
  <2>1. /\ Len(entries) \in Nat /\ DOMAIN entries = 1..Len(entries)
        /\ DOMAIN Kept(n) = 1..(Len(entries) - n)
        /\ \A i \in 1..(Len(entries) - n) : Kept(n)[i] = entries[n + i]
    BY EntriesTyped, KeptIsSuffix DEF RInv
  <2> QED BY <2>1, SMTT(30)
<1> QED BY <1>1, KeptIsInWindow DEF RInv, Linked, KeptLinked

\* An insertion links the key it accepts, and no other entry has that key.
LEMMA InsertLinks ==
  ASSUME RInv, NEW now \in Nat, lastObservedTime <= now, NEW key \in Key,
         NEW n \in 0..Len(entries), PruneStopsAfter(n, now),
         Insert(key, Kept(n), CountsAfterPrune(n), now), lastObservedTime' = now
  PROVE  Linked' /\ CountsMatchEntries'
<1> DEFINE kept == Kept(n)
           entry == [key |-> key, expiresAt |-> now + ttlMs]
           last == Len(kept) + 1
<1>1. kept \in Seq(Entry) /\ Len(kept) \in Nat /\ DOMAIN kept = 1..Len(kept)
  BY EntriesTyped, KeptIsSuffix, LenProperties DEF RInv
<1>2. \A i \in DOMAIN kept : kept[i].key \in Key
  <2>1. \A i \in DOMAIN kept : kept[i] \in Entry
    BY <1>1, ElementOfSeq
  <2> QED BY <2>1 DEF Entry
<1>3. (\A i \in DOMAIN kept : kept[i].key # key) /\ entries' = Append(kept, entry)
  BY KeptIsWellKept, InsertAppends DEF RInv, Insert
<1>4. ttlMs \in Nat
  BY TtlAssumption
<1>5. entry \in Entry /\ entry.key = key /\ entry.expiresAt = now + ttlMs
  BY <1>4 DEF Entry
<1>6. KeptLinked(n, now)
  BY KeptIsLinked
<1>7. /\ acceptedAt'[key] = now /\ now # Never
      /\ \A k \in Key : k # key => acceptedAt'[k] = acceptedAt[k]
  BY DEF RInv, IInv, TypeOK, Insert, Never
<1>8. /\ \A t \in Tenants : CountsAfterPrune(n)[t] = Cardinality(Positions(kept, t))
      /\ \A t \in Tenants :
           tenantCounts'[t] = IF t = key[1] THEN CountsAfterPrune(n)[t] + 1
                              ELSE CountsAfterPrune(n)[t]
  BY PrunedCountsMatch, PrunedCountsType DEF RInv, IInv, Insert, Key
<1> HIDE DEF entry
<1>9. /\ DOMAIN entries' = 1..last
      /\ \A i \in DOMAIN kept : entries'[i] = kept[i]
      /\ entries'[last] = entry
  BY <1>1, <1>3, <1>5, AppendProperties, LenProperties
<1>10. \A i \in DOMAIN entries' : i \in DOMAIN kept \/ i = last
  BY <1>1, <1>9
<1>11. DOMAIN kept \subseteq DOMAIN entries' /\ last \in DOMAIN entries' /\ last \notin DOMAIN kept
  BY <1>1, <1>9
<1>12. ASSUME NEW i \in DOMAIN entries'
       PROVE  /\ acceptedAt'[entries'[i].key] # Never
              /\ entries'[i].expiresAt = acceptedAt'[entries'[i].key] + ttlMs
  <2>1. CASE i \in DOMAIN kept
    BY <2>1, <1>2, <1>3, <1>6, <1>7, <1>9 DEF KeptLinked
  <2>2. CASE i = last
    BY <2>2, <1>5, <1>7, <1>9
  <2> QED BY <2>1, <2>2, <1>10
<1>13. ASSUME NEW k \in Key, Window!InWindow(k, now)'
       PROVE  \E i \in DOMAIN entries' : entries'[i].key = k
  <2>1. CASE k = key
    BY <2>1, <1>5, <1>9, <1>11
  <2>2. CASE k # key
    <3>1. Window!InWindow(k, now)
      BY <2>2, <1>7, <1>13 DEF Window!InWindow
    <3>2. PICK i \in DOMAIN kept : kept[i].key = k
      BY <3>1, <1>6 DEF KeptLinked
    <3> QED BY <3>2, <1>9, <1>11
  <2> QED BY <2>1, <2>2
<1>14. Linked'
  BY <1>12, <1>13 DEF Linked, Window!InWindow
<1>15. ASSUME NEW t \in Tenants
       PROVE  tenantCounts'[t] = Cardinality(Positions(entries', t))
  <2>1. IsFiniteSet(Positions(kept, t))
    <3>1. Positions(kept, t) \in SUBSET (1..Len(kept)) /\ IsFiniteSet(1..Len(kept))
      BY <1>1, FS_Interval DEF Positions
    <3> QED BY <3>1, FS_Subset
  <2>2. CASE t = key[1]
    <3>1. Positions(entries', t) = Positions(kept, t) \cup {last}
      BY <2>2, <1>5, <1>9, <1>10, <1>11 DEF Positions
    <3>2. last \notin Positions(kept, t)
      BY <1>11 DEF Positions
    <3>3. Cardinality(Positions(kept, t) \cup {last}) = Cardinality(Positions(kept, t)) + 1
      <4> HIDE DEF kept, last
      <4> QED BY <2>1, <3>2, FS_AddElement
    <3>4. tenantCounts'[t] = CountsAfterPrune(n)[t] + 1
      BY <2>2, <1>8
    <3>5. CountsAfterPrune(n)[t] = Cardinality(Positions(kept, t))
      BY <1>8
    <3> QED BY <3>1, <3>3, <3>4, <3>5
  <2>3. CASE t # key[1]
    <3>1. Positions(entries', t) = Positions(kept, t)
      BY <2>3, <1>5, <1>9, <1>10, <1>11 DEF Positions
    <3> QED BY <2>3, <3>1, <1>8
  <2> QED BY <2>2, <2>3
<1>16. CountsMatchEntries'
  BY <1>15 DEF CountsMatchEntries, Positions
<1> QED BY <1>14, <1>16, SMTT(30)

\* What is common to the three outcomes of a claim.
LEMMA ClaimPrunes ==
  ASSUME IInv, NEW key \in Key, Claim(key)
  PROVE  \E now \in Times, n \in 0..Len(entries) :
           /\ now \in Nat /\ lastObservedTime <= now /\ lastObservedTime' = now
           /\ PruneStopsAfter(n, now)
           /\ \/ RejectDuplicate(key, Kept(n), CountsAfterPrune(n), now)
              \/ FailForCapacity(key, Kept(n), CountsAfterPrune(n), now)
              \/ Insert(key, Kept(n), CountsAfterPrune(n), now)
BY LaterOfClock DEF Claim, IInv

LEMMA ClaimPreservesRInv ==
  ASSUME RInv, NEW key \in Key, Claim(key)
  PROVE  RInv'
<1>1. PICK now \in Times, n \in 0..Len(entries) :
        /\ now \in Nat /\ lastObservedTime <= now /\ lastObservedTime' = now
        /\ PruneStopsAfter(n, now)
        /\ \/ RejectDuplicate(key, Kept(n), CountsAfterPrune(n), now)
           \/ FailForCapacity(key, Kept(n), CountsAfterPrune(n), now)
           \/ Insert(key, Kept(n), CountsAfterPrune(n), now)
  BY ClaimPrunes DEF RInv
<1>2. IInv'
  BY ClaimPreservesIInv DEF RInv
<1>3. CASE \/ RejectDuplicate(key, Kept(n), CountsAfterPrune(n), now)
           \/ FailForCapacity(key, Kept(n), CountsAfterPrune(n), now)
  <2>1. /\ entries' = Kept(n) /\ tenantCounts' = CountsAfterPrune(n)
        /\ acceptedAt' = acceptedAt
    BY <1>3 DEF RejectDuplicate, FailForCapacity
  <2>2. Linked'
    BY <1>1, <2>1, KeptIsLinked DEF Linked, KeptLinked, Window!InWindow
  <2>3. CountsMatchEntries'
    BY <2>1, PrunedCountsMatch DEF CountsMatchEntries, Positions
  <2> QED BY <1>2, <2>2, <2>3 DEF RInv
<1>4. CASE Insert(key, Kept(n), CountsAfterPrune(n), now)
  BY <1>1, <1>2, <1>4, InsertLinks DEF RInv
<1> QED BY <1>1, <1>3, <1>4

\* The answer of a claim is that of the window.
LEMMA ClaimImplementsWindow ==
  ASSUME RInv, NEW key \in Key, Claim(key)
  PROVE  Window!Claim(key)
<1>1. PICK now \in Times, n \in 0..Len(entries) :
        /\ now \in Nat /\ lastObservedTime <= now /\ lastObservedTime' = now
        /\ PruneStopsAfter(n, now)
        /\ \/ RejectDuplicate(key, Kept(n), CountsAfterPrune(n), now)
           \/ FailForCapacity(key, Kept(n), CountsAfterPrune(n), now)
           \/ Insert(key, Kept(n), CountsAfterPrune(n), now)
  BY ClaimPrunes DEF RInv
<1>2. IsLive(key, Kept(n), now) <=> Window!InWindow(key, now)
  BY <1>1, LookupIsWindow
<1>3. key[1] \in Tenants
  BY DEF Key
<1>4. AtCapacity(key[1], Kept(n), CountsAfterPrune(n)) <=> Window!Full(key[1], now)
  <2>1. Len(Kept(n)) = Cardinality(Window!Remembered(now))
    BY <1>1, SizeIsRemembered
  <2>2. CountsAfterPrune(n)[key[1]] = Cardinality(Positions(Kept(n), key[1]))
    BY <1>3, PrunedCountsMatch
  <2>3. Cardinality(Positions(Kept(n), key[1]))
          = Cardinality(Window!RememberedOf(key[1], now))
    BY <1>1, <1>3, ShareIsRemembered
  <2>4. \A S : Window!Cardinality(S) = Cardinality(S)
    BY DEF Cardinality, Window!Cardinality, IsFiniteSet, Window!IsFiniteSet
  <2> QED BY <2>1, <2>2, <2>3, <2>4 DEF AtCapacity, Window!Full
<1>5. \/ Window!Duplicate(key, now) \/ Window!RefuseForCapacity(key, now)
      \/ Window!Accept(key, now)
  BY <1>1, <1>2, <1>4
  DEF RejectDuplicate, FailForCapacity, Insert, Window!Duplicate,
      Window!RefuseForCapacity, Window!Accept
<1>6. now \in Window!Times /\ now >= lastObservedTime
  BY <1>1 DEF Times, Window!Times, RInv, IInv, TypeOK, NegativeInfinity
<1> QED BY <1>1, <1>5, <1>6 DEF Window!Claim
-----------------------------------------------------------------------------
LEMMA InitRInv == Init => RInv
<1> SUFFICES ASSUME Init PROVE RInv
  OBVIOUS
<1>1. DOMAIN entries = {}
  BY EmptySeq, LenProperties DEF Init
<1>2. Linked
  BY <1>1 DEF Init, Linked, Window!InWindow, Window!Never, Never
<1>3. CountsMatchEntries
  <2>1. \A t \in Tenants : {i \in DOMAIN entries : entries[i].key[1] = t} = {}
    BY <1>1
  <2> QED BY <2>1, FS_EmptySet DEF Init, CountsMatchEntries
<1> QED BY <1>2, <1>3, InitIInv DEF RInv

LEMMA OtherStepsPreserveRInv ==
  ASSUME RInv, ClockMoves \/ UNCHANGED vars
  PROVE  RInv' /\ UNCHANGED <<lastObservedTime, acceptedAt, answer>>
<1>1. UNCHANGED <<entries, tenantCounts, lastObservedTime, answer, acceptedAt>>
  BY DEF ClockMoves, vars
<1>2. IInv'
  BY NextPreservesIInv DEF RInv, Next
<1>3. Linked' /\ CountsMatchEntries'
  BY <1>1 DEF RInv, Linked, CountsMatchEntries, Window!InWindow
<1> QED BY <1>1, <1>2, <1>3 DEF RInv

(***************************************************************************)
(* The store's entries are what the window remembers: those of the accepted  *)
(* keys still in it, counted by tenant.                                     *)
(***************************************************************************)
THEOREM StoreIsWindow == Spec => []RInv
<1>1. RInv /\ [Next]_vars => RInv'
  BY ClaimPreservesRInv, OtherStepsPreserveRInv DEF Next
<1> QED BY <1>1, InitRInv, PTL DEF Spec

\* The counts per tenant never drift from the entries they count.
THEOREM CountsKept == Spec => []CountsMatchEntries
<1>1. RInv => CountsMatchEntries
  BY DEF RInv
<1> QED BY <1>1, StoreIsWindow, PTL

(***************************************************************************)
(* The store implements the replay window: every claim is answered as by one *)
(* that forgets nothing.                                                   *)
(***************************************************************************)
THEOREM ImplementsWindow == Spec => KeepsReplayWindow
<1>1. Init => Window!Init
  BY DEF Init, Window!Init, NegativeInfinity, Never, NoAnswer, Key, Window!Never,
         Window!NoAnswer, Window!Key
<1>2. RInv /\ [Next]_vars => [Window!Next]_(Window!vars)
  <2> SUFFICES ASSUME RInv, [Next]_vars
               PROVE  [Window!Next]_(Window!vars)
    OBVIOUS
  <2>1. ASSUME NEW key \in Key, Claim(key)
        PROVE  Window!Next
    BY <2>1, ClaimImplementsWindow DEF Window!Next, Window!Key, Key
  <2>2. CASE ClockMoves \/ UNCHANGED vars
    BY <2>2, OtherStepsPreserveRInv DEF Window!vars
  <2> QED BY <2>1, <2>2 DEF Next
<1> QED BY <1>1, <1>2, StoreIsWindow, PTL DEF Spec, KeepsReplayWindow, Window!Spec
=============================================================================
