# Shallot, specified

TLA+ specifications of the Shallot gateway, the TLC runs that check them on
small instances, and TLAPS proofs about them. Source paths below are relative
to the repository; `relay/src/…` stands for `packages/relay/src/…` and so on.

## The system

An application talks to a **Sidecar** on its own host. The Sidecar encrypts
each chat request for the **Exit** (HPKE) and sends it through the **Relay**,
which knows the tenant but cannot read the request. The Exit opens it, knows no
tenant, and calls the AI **provider**. The answer comes back as a stream of
encrypted frames that the Relay proxies and the Sidecar opens.

    application -> Sidecar -> Relay -> Exit -> provider
                <- frames  <-       <-      <- body

Each of the three is one Bun process running Effect fibers: a request is a
fiber, other fibers run whenever it awaits, and a client that disconnects
interrupts it. Nothing is persisted. Response bodies are Web streams that
outlive the fiber that created them.

| Component | State | Operations | What makes it hard | What makes it correct |
| --- | --- | --- | --- | --- |
| Relay request tracker (`relay/src/request-tracker.ts`) | Map of claimed keys with expiry, counts per tenant, last observed time | `claim`, `prune` | wall clock set back, both limits, `prune` breaking at the first live entry | answers as a replay window would; counts never drift |
| Exit replay protection (`exit/src/replay-cache.ts`, `replay-protection.ts`) | Map of claimed keys, last observed time | `claim` | readings of the clock reach the cache out of order | answers as a replay window would |
| Relay server (`relay/src/relay.ts`, `concurrency-limiter.ts`, `exit-client.ts`, `response-proxy.ts`) | permits, deadline and fetch per request | authenticate, acquire, read, claim, forward, hand off, stream, cancel | interruption at every await, hand-off of the permit to the body, deadline against answer | permits accounted for; one forward per envelope and window; nothing held for ever |
| Exit server (`exit/src/exit.ts`, `openai-compatible-provider.ts`) | deadline and fetch per request | authenticate, read, open, claim, call, seal, stream, cancel | copies opened at the same time, damaged copies, failure while sealing, at once or in the middle of a body | one provider call per envelope and window; every call under a deadline |
| Response sealer (`exit/src/response-sealer.ts`, `byte-queue.ts`) | queue, pending read, frame sequence | pull, flush, cancel | timer against read, cancel against read, generator not started | frames are the body in order; a final frame is truthful; the provider is let go, or left to its deadline |
| Sidecar response (`client/src/response.ts`) | expected sequence, totals, reader | open the head, stream or buffer, cancel | a Relay that loses, repeats, reorders, truncates | the application sees a prefix; a clean end is complete |
| Sidecar request path (`client/src/sidecar.ts`, `relay.ts`, `chat-request.ts`) | deadline and fetch per request | read, seal, forward, answer | interruption while a promise takes no signal, hand-over of the deadline to the body | every exchange under a deadline, and ended |
| Deadline (`server-runtime/src/deadline.ts`) | timer fiber, abort controller | make, cancel, wrap a stream | lives longer than the fiber that made it; a cancelled stream cancels the deadline, awaits that, and only then cancels the body | armed as long as the exchange is open and not about to be closed |
| Protocol (`protocol/src/*`) | HPKE contexts | pad, seal, open, parse | which fields the authenticated data binds, two answers to one request | what is opened is what was sealed; an answer is for its sender |
| Sanitizer (`exit/src/sanitize-request.ts`) | none | filter a request | optional objects inside arrays inside objects, each of which may be absent, null or of another type | exactly the listed fields reach the provider, or the request is refused |
| Body readers (`protocol/src/http.ts`, `client/src/response.ts`) | bytes kept so far | read a body up to a limit, cut it into lines | lines, limits and characters split over chunks | the result depends on the bytes, never on the chunks |
| Key files and local stack (`scripts/generate-exit-key.ts`, `local-stack.ts`) | two files, the services of a stack | generate, read, launch, supervise | a crash between two system calls, two processes at the files, a service that fails while others start | what an Exit and a Sidecar serve with belongs together; no service outlives a failed one |
| Authentication, configuration, server lifecycle, observability, mock provider, benchmarks | none that changes | | | |

The components meet in four ways: calls (the Relay's handler claims in the
tracker, the Exit's in its cache), HTTP exchanges under a deadline (each hop),
streams pulled from downstream (each body), and cancellation travelling
upstream against them.

`PROJECT.json` lists the hazards, each at its line, with the properties that
would notice it going wrong.

## Modules

| Module | Models | Abstract parts |
| --- | --- | --- |
| `ReplayWindow` | what both replay stores promise: a duplicate is a key accepted less than a TTL ago, capacity counts exactly the keys in their window | remembers every acceptance for ever |
| `RequestTracker` | `MemoryRequestTracker`, Map order included | keys are pairs, time is a small range |
| `ReplayCache` | `MemoryReplayCache` under `ReplayProtection`, whose reading of the clock and call of the cache are two steps | as above |
| `RelayServer` | the Relay's handler, limiter, Exit client, deadline and proxied body, with the read that may be pending when the client cancels; composes `ReplayWindow` in place of the tracker | a body is open or closed, and a chunk is a step that leaves it open; envelopes are their keys |
| `ExitServer` | the Exit's handler, provider client, deadline and the ways the sealed body ends; composes `ReplayWindow` in place of the cache | opening succeeds for intact envelopes; the sanitizer accepts or rejects; a provider's status is 200 |
| `Gateway` | sender, Relay, Exit and provider together, with both replay stores (two instances of `ReplayWindow`), three deadlines on one clock, senders that leave, and restarts of either server | one step per message between processes; the awaits inside each server are those of the two modules above |
| `ResponseSealer` | `sealProviderResponse` and `coalesceResponseBody`: pull, generator, flush, cancel, a frame that cannot be sealed | bytes are numbered; a frame keeps its plaintext |
| `FlushTimer` | the same loop with its clock | only the number of queued bytes |
| `ByteQueue` | the queue the loop keeps its bytes in: chunks, the offset into the first, `push` and `take` one copy at a time | bytes are numbered |
| `Sidecar` | the Sidecar's handler from route to answer, its call to the Relay, `decryptResponseFrames`, both kinds of answer, cancellation, deadline | the request's content; whole lines; frames open if the Exit sealed them |
| `BodyReaders` | `readLimitedBody` and `readNdjsonLines` | four kinds of byte: a letter, a space, a newline, one that is not UTF-8 |
| `SanitizeRequest` | `sanitizeChatRequest` with all its helpers, on parsed JSON | strings other than the model's name; numbers and Booleans are alike |
| `SealedExchange` | `sealRequest`, `openRequest`, `sealFrame`, `openFrame`, `parseSealedFrame`: what the authenticated data binds, between Sidecars, Exit and a network that mixes parts of messages | an ideal HPKE; base64url, padding and version strings left out |
| `LocalStack` | `generateExitKeyFiles`, `readKeys` and `runLocalStack` of several processes that share the key files and the ports, system call by system call | what a service does besides starting, stopping and failing; a pair of keys is named by who generated it |
| `RequestTrackerProofs`, `ReplayCacheProofs`, `SealedExchangeProofs`, `GatewayProofs`, `RelayServerProofs`, `ExitServerProofs`, `ResponseSealerProofs`, `SidecarProofs` | theorems about the module each is named for, see Proofs; `ExitServerProofs` is also about `FlushTimer` and `SanitizeRequest` (parts of the Exit), `ResponseSealerProofs` about `ByteQueue` (which the sealer keeps its bytes in), `RelayServerProofs` about `BodyReaders` (which reads the Relay's requests) and `SealedExchangeProofs` about `LocalStack` (which provides the keys of the exchange) | |
| `MC…` | the instances that are model-checked; `MCAlgorithms` puts `BodyReaders`, `ByteQueue` and `SanitizeRequest` side by side | |

State and actions follow the code. A fiber's place between two awaits is a
`phase` (or `generator`, `pull`, `reader`), and an action is what the code does
from one await to the next, so that whatever can run in between does. A
client that disconnects is an action enabled at every await; what it interrupts
is written into it. A timer is an action of its own. A cancellation that passes
through `keepDeadlineUntilStreamEnds` is two actions, because `finish` awaits the
cancelled deadline (`server-runtime/src/deadline.ts:44`) before it cancels the body
(`:46`): in between the exchange is open without a deadline, which the modules
call `cancelling` (`RelayServer`), `closing` (`ExitServer`, `Sidecar`). In `LocalStack`, which is
about processes, an action is a system call and a process may be killed before
any of them. Definitions carry the
source's names where there are any, and `map` in `PROJECT.json` names the lines
each one stands for. Definitions commented *Faulty* are plausible bugs: no
specification uses them, and each is put in the place of the definition that
follows it to see that a property notices. Some names of `FlushTimer`,
`LocalStack`, `BodyReaders` and `ByteQueue` carry a prefix (`TimerSpec`,
`LocalSpec`, `ReadersSpec`, `QueueSpec`), so that a module of theorems can extend
any of them next to another specification.

Modules stand in for one another in three places. `RelayServer`, `ExitServer` and
`Gateway` use the abstract `ReplayWindow` where the code calls a store; the runs
`tracker` and `cache` show that the stores keep that promise, answer by answer
(`KeepsReplayWindow`), and the theorems `ImplementsWindow` prove it. `Sidecar` and
`ExitServer` take it that an envelope or frame opens if and only if it arrives
as it was sealed, for that request and in that place. `SealedExchange` checks
this of the protocol's code, field by field, over an ideal HPKE: a ciphertext
opens in a context with the same keys, info and message count, under the same
authenticated data. It says nothing of a party that seals messages of its own.
And `Gateway` takes what happens inside a server in one step: `RelayServer` and
`ExitServer` show that a claim and the call it allows are not separated by
another request for the same envelope, that every exchange ends at its deadline,
and that what a client leaves behind is cancelled or times out.

Some properties have limits that their names do not tell:

- `ServesOnePair` exempts two cases, which the history variables `forcedCut` and
  `overlapped` record: a replacement with `--force` that was killed between its
  two writes, and two processes that write the files at the same time or replace
  one between a stack's two reads. In either the code can start an Exit and a
  Sidecar with halves of two pairs. Everything else is covered: above all a
  first generation that was killed, whose remains make the next stack fail, and a
  stack that starts meanwhile.
- `InnermostDeadlineFirst` rests on `DeadlinesAssumption`, that the provider's
  timeout and the time a request spends outside the provider fit into the other
  two. The defaults are 60 s inside 65 s and 65 s. With `--inspect` the local
  stack sets the three of them equal (`scripts/local-stack.ts:120`), and then
  the order is open.
- `OpenExchangeHasDeadline` (of both servers) and `UpstreamUnderDeadline` let an
  exchange be open without a deadline between the two steps of `finish` described
  above, and nowhere else. That such an exchange is then closed is `RequestsSettle`
  and `UpstreamSettles`.
- `StreamEndStopsUpstream` says of an answer that the application cancelled only that
  the Relay's body is about to be cancelled: the generators do not wait for it.
- `SourceReleased` exempts a frame that could not be sealed: the stream errors
  (`exit/src/response-sealer.ts:122`), nobody resumes the generator, and the
  provider's body stays locked until its deadline aborts it, which is
  `RequestsSettle` of `ExitServer` (`FrameSealingFails`).
- `LimitsAloneRefuse` counts a line over `maxResponseLineBytes` as damaged. A
  Sidecar whose line limit is too small for the frames of its Exit refuses good
  answers, and this property does not notice.

## Runs

| Run | Instance | Shows |
| --- | --- | --- |
| `tracker` | two tenants with three ids each, a limit of two per tenant and three overall, a TTL of two, a clock of five readings that moves both ways; tenants and ids symmetric; 130,785 states | the Map stays ordered and duplicate-free, counts match, and the store implements `ReplayWindow` |
| `cache` | three keys, room for two, two fibers with stale readings, a TTL of two, a clock of five readings | the same of the Exit's cache |
| `relay` | three connections (two with the same envelope, one of another tenant), two permits, room for one key, fairness; 75,037 states | permits are accounted for, also when a cancellation meets a pending read, an open exchange has its deadline or is being closed, no replay is forwarded; every permit returns, every exchange and timer ends |
| `exit` | one envelope on two connections, another on a third, any of them perhaps damaged, room for one key, fairness; 284,288 states | one provider call per window, damaged copies change nothing, no open exchange without a deadline but one that is being closed; every opened request is answered, every exchange ends |
| `gateway` | one envelope brought twice, by one tenant or two; the provider may take 1, transit 1, outer deadlines 3, windows of 2 and 3, a clock to 5, one restart of each server; 1.3 million states | the provider is called again only when the stores in the way have forgotten; the innermost deadline passes first |
| `sealer` | payloads of 3 bytes, limit 7, bodies to 8, chunks to 4, fairness | frames carry the body, the final frame is truthful, one read in flight, the source is released unless a frame cannot be sealed, a quiet provider's bytes are flushed |
| `flush_timer` | payloads of 4 bytes, intervals of 2, chunks to 5, a clock to 12 | a reader waits one interval per queued byte at most, and one interval once the provider is quiet |
| `flush_interval` | the same | expected violation: see Finding |
| `sidecar` | one request, up to 3 data frames of 1 or 2 bytes, at most 4 frames and 5 bytes, fairness | the application sees a prefix, a clean end is complete, an undisturbed response is refused for its size alone, the exchange with the Relay is under a deadline until it is over or about to be cancelled, and ends although the application left |
| `exchange` | two requests, two ids of one private key, three answers of three frames, one restart of the Exit | the answer to a request is for its sender, once per claim; a Sidecar opens one answer as it was sealed, and every next frame of it |
| `local_stack` | two stacks, or a stack, a keygen and a keygen with `--force`; no keys, or a pair from earlier; fairness | an Exit and a Sidecar that serve have one pair; a failed service ends the others and the stack returns 1 |
| `algorithms` | bodies to 5 bytes in chunks to 3 under limits of 3 bytes and 2 per line; pushes and takes to 3 bytes up to 7 in all; a request that has every listed object, with up to two of its places changed, looked at 8 steps deep | body readers whose result does not depend on chunks, a queue that keeps its bytes in order, a sanitizer that forwards exactly what is listed |

**Bounds.** The clocks run over a range that holds more than one TTL, so that
keys are accepted, expire and are accepted again, and the instant of expiry is
met exactly. Limits are below what the keys could fill, so that each can be the
one that refuses: in the tracker a tenant with two live entries brings a third id
while the store has room, and with the limit per tenant dropped (`AtCapacityOverall`)
the run fails; two tenants with three entries between them meet the other limit. Two connections with one envelope are what a race needs, and a third
keeps a limit contended. A connection sends its next request when nothing is
left of the last one (`NextRequest`), so runs of requests are unbounded. In
`Gateway` the two windows differ, so that one store forgets before the other
without a restart, and two calls of one envelope fit into the clock. In the
sealer chunks are smaller than, equal to and larger than a payload, and bodies
stay within and pass the limit. In the Sidecar three short frames pass the frame
limit and three long ones the byte limit. In `SealedExchange` a request can be
answered twice, which is what mixing answers to one request takes, and the third
answer is for another request. In `MCAlgorithms` a chunk may hold several lines,
a line take several chunks, and a take end inside, at the end of and past the
first chunk; two changed places are what it takes for an outer and an inner
check of the sanitizer to disagree. Where a theorem states the same property,
its bounds do not matter.

**Deadlock.** The check is on except where the system really stops.
`ResponseSealer` and `Sidecar` model one response, which ends; `SealedExchange` a
bounded number of answers; in `Gateway` every attempt is made once, under a clock
that stops; in `LocalStack` each process runs once; the algorithms of
`MCAlgorithms` return.

**Fairness.** Only what the runtime does by itself is fair: a settled promise
resumes its fiber, a pull runs when the stream has room, a due timer fires
(`forkDetach` makes the deadline's fiber independent of the handler's). The
Bun server gives up a connection that stays idle, which is why reading a request
body ends. In `LocalStack` the library that supervises the services kills what it
has to and then resolves. Nothing is assumed of the provider, the Exit seen from the Relay, the
Relay seen from the Sidecar, of clients or of a local service: they may stop for ever.
`SlowStreamFlushed` adds its own premise, a consumer that reads.

**Finding.** The comment on `coalesceResponseBody` says that a partial payload
is emitted after the flush interval. Each wait sets a new timer
(`exit/src/response-sealer.ts:210`), so a provider that sends a small chunk just
before every interval is over postpones the emission until a payload is full.
`flush_interval` shows the shortest such run; `DelayBoundedByPayload` is what
holds instead.

## Proofs

Each theorem holds for all values of the constants that satisfy the named
assumptions of its module; `PROJECT.json` lists the theorems with the property
each one states. They are about the specifications without fairness, which
those with fairness imply. The inductive invariants were checked by TLC on the
instances of the runs before they were proved.

**The Relay's store** (`RequestTrackerProofs`).
`StoreWellKept`: the inductive invariant `IInv`, that is `TypeOK` together
with `WellKept(entries, lastObservedTime)`; from it `TypeCorrect` and
`LiveKeysInOrder`. The order of the Map is not inductive by itself: a claim
appends an entry that expires at `now + ttlMs`, so the proof needs that no entry
expires later than that. `now` is the later of the clock and the last observed
time, which is where a clock that goes back is dealt with, and why the invariant
speaks of `lastObservedTime` and never of `clock`. The argument has three parts:
pruning leaves a suffix, and because of the order the suffix holds live entries
only (`KeptIsLive`); what is live keeps the invariant at the later time
(`KeptIsWellKept`); a key that is not live is then not in the Map at all, so
`set` appends (`InsertAppends`, `AppendIsWellKept`).

`StoreIsWindow` adds what ties the Map to the abstract window: `Linked`, that an
entry expires a TTL after its key was accepted and that every key in its window
has one, and `CountsMatchEntries` (`CountsKept`). Then what is left after pruning
holds exactly the keys in their window (`KeptIsInWindow`), so the lookup, the
Map's size and the tenant's count say what the window says (`LookupIsWindow`,
`SizeIsRemembered` and `ShareIsRemembered` by bijections, `PrunedCountsMatch`),
and each outcome of a claim is the window's: `ImplementsWindow`, that `Spec`
implies `Window!Spec`.

**The Exit's store** (`ReplayCacheProofs`). The argument is
the same, with a claim whose reading of the clock may be older than the last one:
`CacheWellKept`, `TypeCorrect`, `LiveKeysInOrder`, and with `LinkedAt` in place
of `Linked` `CacheIsWindow` and `ImplementsWindow`. The cache counts no owners, so
the limit in its invariant and one bijection (`SizeIsRemembered`) take the place of the counts.

**The exchange** (`SealedExchangeProofs`) proves every property of the run
`exchange`: `ForTheirSender`, `OncePerClaim`, `OneAnswer`, `OnlySealed` and
`NextOpens`, from the inductive invariant `IInv` (`ExchangeKept`). It has three
parts. `ExitKept`: answers are for their senders, and a request that was answered
since the last restart is claimed. `FramesKept`: the n-th frame of an answer is
sealed in the n-th place of that answer's context. `OpenedKept`: what a Sidecar
opened is the beginning of the answer its opener was made for. Two lemmas carry
the argument: `OnlySealedRequestsOpen`, that no envelope but a sealed one opens,
and `OnlyNextFrameOpens`, that a frame which opens is the next of one answer. The
second shows what each part of the protocol is for: the context tells answers
apart, its count gives the place, the authenticated data fixes id, sequence,
kind and final marker, and the parser fixes the one field left, the encapsulated
key. The proof rests on the ideal HPKE.

**The servers** (`RelayServerProofs`, `ExitServerProofs`). For the Relay
`RelayKept` is the inductive invariant: the counter is the number of requests
that hold a permit (`PermitsAccountedFor`), a call not yet made has no deadline
or exchange, a call that failed has none open, and an open exchange has its
deadline armed or is being cancelled (`OpenExchangeHasDeadline`). A step that
cancels the deadline has seen the exchange close, closes it, or begins a
cancellation whose next step closes it; until then nothing but that step can move
the request on, so the exception stays one step long.
From it `TypeCorrect`, `PermitsAlways` and `UnderDeadlineAlways`.
For the Exit `CallsKept` is the same without permits, and gives its own
`UnderDeadlineAlways`. `OncePerWindow` of both is an action property: only a claim that is
accepted calls the next hop, in the same step, and one is accepted only outside
the window. Nothing is assumed of the numbers of connections, tenants or keys
but that the connections of the Relay are finitely many.

**The gateway** (`GatewayProofs`). `OncePerWindowAndEpoch`
(`CalledAgainOnlyWhenForgotten`) rests on `PassedApart`: what a server passed on
since its last restart, its store still has, so that two requests passed on for one key are
of different epochs or a window apart. `InnermostFirst` (`InnermostDeadlineFirst`)
rests on `AllInTime`: while a request is undisturbed the time since an outer
deadline was armed is at most the time the provider has had and the delay spent
outside it. Because due timers fire before time passes, the first is at most the
provider's timeout, and `DeadlinesAssumption` leaves the outer ones unreached.

**The sealed stream** (`ResponseSealerProofs`). `Inductive` proves the invariant
`IndInv`, and from it `TypeCorrect`, `FramesKeptInOrder` (`FramesInOrder`) and
`FinalFramesTruthful` (`FinalFrameIsTruthful`), for every size of payload, limit
and length of body. Neither property is inductive, because each is about frames
and a frame takes several steps to make: a chunk is pushed, taken as a payload
and sealed, with a consumer that may cancel in between. `BytesInv` says what the
steps hand on: the pending payload and then the queue go on where the last frame
stopped and end with the last byte read (`RunsFrom`). `FrameInv` is the two properties, and
that no final frame has been sent while the stream can go on, or a frame could
follow it. A final frame must also know how the body ended, which is `SourceInv`:
a generator that drains has seen the end of the provider's body with all of it
read. `PlaceInv`, the places in which pull and the generator may be at the same
time, is what lets a step be looked at alone: of the steps that touch the
queue or the payload, none can run while a payload is being sealed. `FramesInOrder`
compares a frame with the one before it only, so the proof needs no induction
over the frames: appending one keeps the others good (`GoodAppend`), reading
one moves it (`FramesKept`), cancelling drops the last ones (`PrefixGood`).

**The flush timer** (`ExitServerProofs`). `DelayBounded`
(`DelayBoundedByPayload`) from `TimerInv`: the last chunk came at most one
interval for each queued byte but one after the wait began, and the timer is set
one interval later. It is inductive because a chunk arrives before the timer is
due and brings at least one byte (`MoreBytesMoreTime`), and the clock does not
pass a due timer.

**The Sidecar** (`SidecarProofs`). `Inductive` proves `IndInv`, and from it
follow all six invariants of the run: `TypeCorrect`, `AnswersInOrder`, `CleanEnds`,
`OnlyLimitsRefuse`, `StreamEndsStop` and `AlwaysUnderDeadline`, for every limit
and every length of a response. Beside types it has four parts. `ExchangeInv` keeps handler,
exchange, deadline and answer in step: as in the servers, what is open is under an
armed deadline, here through the hand-over from the handler to the generators and
when the application has left. A body loses it before it is over only by becoming
`closing`, for a line that was refused or a stream that was cancelled; the first waits
until the body is cancelled before the stream errors, the second does not, which
are the two halves of `StreamEndStopsUpstream`. `FrameInv` says that the counters of
`response.ts` follow from the sequence number: the final frame is the one after
all payloads, and the bytes counted are those of the frames opened (`Opened`).
`PayloadInv` says that payloads are in order, and that all that were opened are
delivered or waiting unless the response was broken off (`Whole`), which makes a clean
end a complete one. `CauseInv` says that a response is broken off for damage, the
deadline or its size; an untouched frame within the limits is accepted, which
takes a little arithmetic of frames and bytes (`FramesInBytes`).

**The key files** (`SealedExchangeProofs`). `PairsServed` (`ServesOnePair`), for
any number of processes, from `LocalInv`. Unless one of the two named accidents
has happened: the process that writes the files is alone with them and finds
in the private file what it wrote (`WriterKept`); between its two reads a stack's
first key stays that of the private file (`ReaderKept`); the keys that a stack
holds are of one pair, or its public key is empty and its Sidecar does not start
(`HeldKept`); and the public file is absent, empty or of the private file's pair
unless a replacement is half-way (`FilesKept`). The last is what a process finds
that others left when they were killed. `NamesAssumption`, that no process is
named like the mark of a missing file, is about the model's names alone.

**The byte queue** (`ResponseSealerProofs`). `QueueInOrder` (`BytesInOrder`),
for chunks and takes of every size. `ResponseSealer` takes the queue as a plain
sequence; this is why it may. The property is nearly inductive, and `QueueInv` adds
types only, because it describes the chunks from one to the next: each chunk is a
run of numbers that goes on after the chunk before it, the first one from
`firstOffset` on goes on after what was returned, and the last one ends with
what was pushed last. A copy takes a slice of the first chunk (`SliceRuns`), so
what was returned goes on (`CopyReturns`); if that was all of the chunk, the next
one begins where it stopped (`NextBytes`), which is where the offset must start
over.

**The body readers** (`RelayServerProofs`). `ReadersSound` (`ChunksDoNotMatter`),
for bodies and chunks of any length and all limits. The property compares the lines
with a definition that looks at all bytes received, and more arrive while lines are
being cut, so it is no invariant by itself. `ReadersInv` adds two. `AtALine`: what is kept is
the end of the text from a place where a line begins; every line before it is
sound, and the ones that are not blank are what was yielded. `KeptIsBounded`: newlines
are in the last chunk only, and what is kept without one is at most a line or
all of a chunk but its newline. A line ends in one place only (`LineIs`), and what
has ended is not changed by bytes that come later (`LinesStay`), so a chunk
leaves `AtALine` as it was and a line that is taken moves it on by one
(`NextLine`). The k-th line yielded is the one with k starts up to it, which is how the
proof does without a recursion over lines (`FirstOnes`, `OneMore`). The bound on
memory is one to note: with a small line limit what is kept can be longer than a
line and a chunk, because what a chunk leaves behind its last newline is not
bounded until the next read (`client/src/response.ts:140`).

**The sanitizer** (`ExitServerProofs`). `RequestSanitized`
(`SanitizedAsListed`), for every JSON value, of any breadth, and looked at as deep
as one likes. `Parsed`, its hypothesis, says that `JSON.parse` gives no undefined
fields. `Made` is the invariant along the tree: what is forwarded at a
place is what the code makes of the value there. A field of such a
place is one again (`ChildMade`), so all places are (`GoodPlaces`, by the least depth
at which one would not be), and each has what the list says (`MadeShows`). The converse, that a
request is refused only for a reason, follows each check of the code down to the
place that it fails at (`RequestBlamed`), at most five steps below the request;
`DepthAssumption` says that one looks that far.

**Only model-checked.** Liveness under fairness, which is beyond the prover:
`RequestsSettle` of both servers, `SourceReleased`, `SlowStreamFlushed`,
`UpstreamSettles` and `FailureStopsStack`. Every other property of a passing run
is a theorem.

## Not modelled

- The inside of HPKE, base64url and padding: a library and conversions.
- The chunks that pass through the Relay's proxied stream and the wrapped streams
  of the deadlines: the modules keep whether a stream is open, cancelled or over and,
  in the Relay, whether a read is pending.
- Authentication: a comparison of digests without state; its outcome is a choice.
- Configuration, layers, server start and stop: read or run once; the values are
  the constants here.
- Logging; that the Relay's observer may throw is modelled.
- The mock provider and the benchmarks: the modules let a provider do anything.

## Plan

What could be added, the most important first:

1. That `Gateway`'s view of a server is what `RelayServer` and `ExitServer` do,
   claim by claim, and that `ResponseSealer`'s queue is `ByteQueue`, as refinements.
2. `ProxiedStream`: the two streams of a hop (`keepDeadlineUntilStreamEnds`
   under `proxyResponseBody`) chunk by chunk, implementing an abstract pipe.
3. Padding, and the response head between Exit and Sidecar, as operators against
   reference definitions.
