---------------------------- MODULE ReplayWindow ----------------------------
(***************************************************************************)
(* What a replay store promises, without saying how it keeps the promise.  *)
(*                                                                         *)
(* A key belongs to an owner.  A claim of a key at observed time t is       *)
(*   - a duplicate, if the key was accepted less than TTL before t;         *)
(*   - refused for capacity, if MaxEntries keys, or MaxPerOwner keys of    *)
(*     the same owner, were accepted less than TTL before t;                *)
(*   - accepted otherwise.                                                 *)
(* Nothing is ever forgotten here: acceptedAt keeps every acceptance.  The  *)
(* program's stores (RequestTracker, ReplayCache) do forget, and are shown  *)
(* to forget only what no later answer depends on.                          *)
(***************************************************************************)
EXTENDS Integers, FiniteSets

CONSTANTS
  Owners,       \* whom the per-owner limit is counted for
  Ids,          \* identifiers; a key is an owner and an identifier
  TTL,          \* length of the window
  MaxEntries,   \* keys in their window, over all owners
  MaxPerOwner,  \* keys in their window, of one owner
  MaxClock      \* bound: observed times are 0..MaxClock

VARIABLES
  now,          \* the time the store last answered at
  acceptedAt,   \* for each key, when it was last accepted
  answer        \* the last claim and its result

vars == <<now, acceptedAt, answer>>

Key == Owners \X Ids
Times == 0..MaxClock
Never == -1
NoAnswer == [key |-> <<>>, result |-> "none"]

InWindow(key, t) == acceptedAt[key] # Never /\ t < acceptedAt[key] + TTL
Remembered(t) == {key \in Key : InWindow(key, t)}
RememberedOf(owner, t) == {key \in Remembered(t) : key[1] = owner}

Full(owner, t) ==
  \/ Cardinality(Remembered(t)) >= MaxEntries
  \/ Cardinality(RememberedOf(owner, t)) >= MaxPerOwner

Init ==
  /\ now = Never
  /\ acceptedAt = [key \in Key |-> Never]
  /\ answer = NoAnswer

Duplicate(key, t) ==
  /\ InWindow(key, t)
  /\ answer' = [key |-> key, result |-> "duplicate"]
  /\ UNCHANGED acceptedAt

RefuseForCapacity(key, t) ==
  /\ ~InWindow(key, t)
  /\ Full(key[1], t)
  /\ answer' = [key |-> key, result |-> "capacity"]
  /\ UNCHANGED acceptedAt

Accept(key, t) ==
  /\ ~InWindow(key, t)
  /\ ~Full(key[1], t)
  /\ answer' = [key |-> key, result |-> "claimed"]
  /\ acceptedAt' = [acceptedAt EXCEPT ![key] = t]

Claim(key) ==
  \E t \in Times :
    /\ t >= now
    /\ now' = t
    /\ Duplicate(key, t) \/ RefuseForCapacity(key, t) \/ Accept(key, t)

Next == \E key \in Key : Claim(key)

Spec == Init /\ [][Next]_vars
=============================================================================
