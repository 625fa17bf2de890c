--------------------------- MODULE RequestTracker ---------------------------
(***************************************************************************)
(* MemoryRequestTracker, the Relay's replay store                          *)
(* (packages/relay/src/request-tracker.ts).                                *)
(*                                                                         *)
(* `entries` is a JavaScript Map, whose iteration order is insertion order: *)
(* here a sequence of entries.  `tenantCounts` is a Map in which a missing  *)
(* tenant counts as 0; the code never stores a 0, so a total function says  *)
(* the same.  A claim runs between two awaits of the Effect runtime and is  *)
(* one step.  The wall clock it reads may have gone backwards since the     *)
(* claim before it: the host adjusts its clock, or the runtime resumes two  *)
(* fibers in another order than they read the clock.                        *)
(***************************************************************************)
EXTENDS Integers, Sequences, FiniteSets

CONSTANTS
  Tenants,              \* tenant identities of the authenticator
  RequestIds,           \* request identifiers chosen by the Sidecars
  ttlMs,                \* constructor parameters of the store
  maxEntries,
  maxEntriesPerTenant,
  MaxClock              \* bound: wall-clock readings are 0..MaxClock

ASSUME TtlAssumption == ttlMs \in Nat \ {0}
ASSUME LimitsAssumption ==
  /\ maxEntries \in Nat \ {0}
  /\ maxEntriesPerTenant \in Nat \ {0}
ASSUME ClockAssumption == MaxClock \in Nat

VARIABLES
  clock,             \* what Clock.currentTimeMillis reads
  entries,           \* the Map of entries, in insertion order
  tenantCounts,      \* the Map of counts, absent tenants at 0
  lastObservedTime,
  answer,            \* the last claim and what it returned
  acceptedAt         \* history, read by no action: when each key was accepted

vars == <<clock, entries, tenantCounts, lastObservedTime, answer, acceptedAt>>

Key == Tenants \X RequestIds
Times == 0..MaxClock
NegativeInfinity == -1  \* below every reading of the clock
Never == -1
NoAnswer == [key |-> <<>>, result |-> "none"]

Entry == [key : Key, expiresAt : Nat]
Results == {"claimed", "duplicate", "capacity"}

\* Faulty: trusts the clock, which may have gone back.
ClockAsRead(a, b) == a

Later(a, b) == IF a > b THEN a ELSE b

(***************************************************************************)
(* prune deletes entries in insertion order and breaks at the first one    *)
(* that has not expired: it stops after the first n.                        *)
(***************************************************************************)
PruneStopsAfter(n, now) ==
  /\ n \in 0..Len(entries)
  /\ \A i \in 1..n : entries[i].expiresAt <= now
  /\ n < Len(entries) => entries[n + 1].expiresAt > now

Kept(n) == SubSeq(entries, n + 1, Len(entries))

\* Faulty: charges each deletion to every tenant.
CountsOfEveryTenant(n) == [t \in Tenants |-> tenantCounts[t] - n]

\* Faulty: deletes entries without counting them.
CountsNotPruned(n) == tenantCounts

\* Each deletion takes 1 off the tenant's count, and never below 0.
CountsAfterPrune(n) ==
  [t \in Tenants |->
     LET deleted == Cardinality({i \in 1..n : entries[i].key[1] = t})
     IN  IF tenantCounts[t] > deleted THEN tenantCounts[t] - deleted ELSE 0]

\* Map.get of a key, as the set of positions (at most one) that hold it.
PositionsOf(key, kept) == {i \in DOMAIN kept : kept[i].key = key}

\* Map.set keeps the position of a key the Map already has.
MapSet(kept, entry) ==
  IF PositionsOf(entry.key, kept) = {}
    THEN Append(kept, entry)
    ELSE [i \in DOMAIN kept |-> IF kept[i].key = entry.key THEN entry ELSE kept[i]]

Init ==
  /\ clock \in Times
  /\ entries = <<>>
  /\ tenantCounts = [t \in Tenants |-> 0]
  /\ lastObservedTime = NegativeInfinity
  /\ answer = NoAnswer
  /\ acceptedAt = [key \in Key |-> Never]

\* Time passes, or the host's clock is set back.
ClockMoves ==
  /\ clock' \in Times \ {clock}
  /\ UNCHANGED <<entries, tenantCounts, lastObservedTime, answer, acceptedAt>>

IsLive(key, kept, now) ==
  \E i \in PositionsOf(key, kept) : kept[i].expiresAt > now

\* Faulty: has no limit for a single tenant.
AtCapacityOverall(tenant, kept, counts) == Len(kept) >= maxEntries

AtCapacity(tenant, kept, counts) ==
  Len(kept) >= maxEntries \/ counts[tenant] >= maxEntriesPerTenant

RejectDuplicate(key, kept, counts, now) ==
  /\ IsLive(key, kept, now)
  /\ entries' = kept
  /\ tenantCounts' = counts
  /\ answer' = [key |-> key, result |-> "duplicate"]
  /\ UNCHANGED acceptedAt

FailForCapacity(key, kept, counts, now) ==
  /\ ~IsLive(key, kept, now)
  /\ AtCapacity(key[1], kept, counts)
  /\ entries' = kept
  /\ tenantCounts' = counts
  /\ answer' = [key |-> key, result |-> "capacity"]
  /\ UNCHANGED acceptedAt

Insert(key, kept, counts, now) ==
  /\ ~IsLive(key, kept, now)
  /\ ~AtCapacity(key[1], kept, counts)
  /\ entries' = MapSet(kept, [key |-> key, expiresAt |-> now + ttlMs])
  /\ tenantCounts' = [counts EXCEPT ![key[1]] = @ + 1]
  /\ answer' = [key |-> key, result |-> "claimed"]
  /\ acceptedAt' = [acceptedAt EXCEPT ![key] = now]

Claim(key) ==
  LET now == Later(clock, lastObservedTime) IN
  /\ lastObservedTime' = now
  /\ \E n \in 0..Len(entries) :
       /\ PruneStopsAfter(n, now)
       /\ \/ RejectDuplicate(key, Kept(n), CountsAfterPrune(n), now)
          \/ FailForCapacity(key, Kept(n), CountsAfterPrune(n), now)
          \/ Insert(key, Kept(n), CountsAfterPrune(n), now)
  /\ UNCHANGED clock

Next == ClockMoves \/ \E key \in Key : Claim(key)

Spec == Init /\ [][Next]_vars
-----------------------------------------------------------------------------
TypeOK ==
  /\ clock \in Times
  /\ entries \in Seq(Entry)
  /\ tenantCounts \in [Tenants -> Nat]
  /\ lastObservedTime \in Times \cup {NegativeInfinity}
  /\ answer \in [key : Key, result : Results] \cup {NoAnswer}
  /\ acceptedAt \in [Key -> Times \cup {Never}]

(***************************************************************************)
(* prune may break at the first live entry only if every entry behind it is *)
(* live too: the Map's insertion order is also the order of expiration,     *)
(* although the clock goes back and keys are inserted again after expiry.   *)
(* After a claim it holds each key once, and none that had expired.        *)
(***************************************************************************)
OnlyLiveKeysInOrder ==
  /\ \A i, j \in DOMAIN entries :
       i < j => /\ entries[i].expiresAt <= entries[j].expiresAt
                /\ entries[i].key # entries[j].key
  /\ \A i \in DOMAIN entries : entries[i].expiresAt > lastObservedTime

(***************************************************************************)
(* The incremental per-tenant counts, decremented by prune and incremented  *)
(* by claim, never drift from the entries they count: a drift would lock a  *)
(* tenant out, or lift its limit, until the Relay restarts.                 *)
(***************************************************************************)
CountsMatchEntries ==
  \A t \in Tenants :
    tenantCounts[t] = Cardinality({i \in DOMAIN entries : entries[i].key[1] = t})

(***************************************************************************)
(* The store keeps the promise of a replay window, answer by answer: no     *)
(* replay is let through because its entry went too early, no key is        *)
(* refused because its entry stayed too long, and no limit is passed.      *)
(***************************************************************************)
Window ==
  INSTANCE ReplayWindow WITH
    Owners <- Tenants, Ids <- RequestIds, TTL <- ttlMs, MaxEntries <- maxEntries,
    MaxPerOwner <- maxEntriesPerTenant, now <- lastObservedTime

KeepsReplayWindow == Window!Spec
=============================================================================
