----------------------------- MODULE BodyReaders -----------------------------
(***************************************************************************)
(* The two readers that bound a body while it arrives, in chunks of any     *)
(* size: readLimitedBody of http.ts, which reads a request for the Sidecar,  *)
(* the Relay and the Exit, and readNdjsonLines of response.ts, which cuts    *)
(* the sealed response into lines.  A byte is a letter "a", a space "s", a   *)
(* newline "n", or one that is not UTF-8, "x".                              *)
(*                                                                         *)
(* Some names carry a prefix, so that RelayServerProofs can extend this     *)
(* module together with RelayServer.                                        *)
(***************************************************************************)
EXTENDS Integers, Sequences, FiniteSets

CONSTANTS
  maxBytes, maxLineBytes,        \* their limits
  MaxReadBytes, MaxBodyBytes     \* bounds: of a chunk, and of the whole body

ASSUME ReadersAssumption ==
  {maxBytes, maxLineBytes, MaxReadBytes, MaxBodyBytes} \subseteq Nat

VARIABLES
  reader,    \* which of the two: "body" or "lines"
  declared,  \* the request's Content-Length, if it has one that is a number
  pending,   \* the bytes read and kept
  lines,     \* the lines yielded
  outcome,   \* "reading", or how it ended
  received   \* history: every byte that arrived

readerVars == <<reader, declared, pending, lines, outcome, received>>

Bytes == {"a", "s", "n", "x"}
NoLength == -1

Has(seq, byte) == \E i \in DOMAIN seq : seq[i] = byte

ReadersInit ==
  /\ reader \in {"body", "lines"}
  /\ declared \in IF reader = "body" THEN {NoLength} \cup 0..MaxBodyBytes
                  ELSE {NoLength}
  /\ pending = <<>> /\ lines = <<>> /\ received = <<>>
  /\ outcome = IF declared > maxBytes THEN "tooLarge" ELSE "reading"
-----------------------------------------------------------------------------
(* A chunk arrives once the reader has asked for it.  The HTTP server sees   *)
(* to it that a body is as long as it was declared.                         *)

Chunks ==
  {chunk \in UNION {[1..n -> Bytes] : n \in 1..MaxReadBytes} :
    /\ Len(received) + Len(chunk) <= MaxBodyBytes
    /\ declared # NoLength => Len(received) + Len(chunk) <= declared}

Arrive(chunk) ==
  /\ received' = received \o chunk
  /\ UNCHANGED <<reader, declared, lines>>

\* readLimitedBody: the chunk that goes over the limit is not kept.
ReadChunk(chunk) ==
  /\ reader = "body" /\ outcome = "reading"
  /\ IF Len(pending) + Len(chunk) > maxBytes
       THEN outcome' = "tooLarge" /\ UNCHANGED pending
       ELSE pending' = pending \o chunk /\ UNCHANGED outcome
  /\ Arrive(chunk)

BodyEnds ==
  /\ reader = "body" /\ outcome = "reading"
  /\ declared # NoLength => Len(received) = declared
  /\ outcome' = "done"
  /\ UNCHANGED <<reader, declared, pending, lines, received>>

\* readNdjsonLines reads on once no whole line is left in what it has.
ReadForLine(chunk) ==
  /\ reader = "lines" /\ outcome = "reading" /\ ~Has(pending, "n")
  /\ pending' = pending \o chunk
  /\ outcome' = IF Len(pending') > maxLineBytes /\ ~Has(pending', "n")
                  THEN "tooLarge" ELSE "reading"
  /\ Arrive(chunk)

Trim(line) ==
  LET kept == {i \in DOMAIN line : line[i] # "s"} IN
  SelectSeq([i \in DOMAIN line |->
              IF \E j, k \in kept : j <= i /\ i <= k THEN line[i] ELSE "trimmed"],
            LAMBDA byte : byte # "trimmed")

Yield(line) == IF Trim(line) = <<>> THEN lines ELSE Append(lines, Trim(line))

\* Faulty: bounds only what is left without a newline.
DecodeUnbounded(line, next) ==
  IF Has(line, "x") THEN outcome' = "malformed" /\ UNCHANGED lines
  ELSE lines' = Yield(line) /\ outcome' = next

\* A line is too long, or no UTF-8, or it is yielded unless it is blank.
Decode(line, next) ==
  IF Len(line) > maxLineBytes THEN outcome' = "tooLarge" /\ UNCHANGED lines
  ELSE IF Has(line, "x") THEN outcome' = "malformed" /\ UNCHANGED lines
  ELSE lines' = Yield(line) /\ outcome' = next

TakeLine ==
  /\ reader = "lines" /\ outcome = "reading"
  /\ \E newline \in DOMAIN pending :
       /\ pending[newline] = "n" /\ ~Has(SubSeq(pending, 1, newline - 1), "n")
       /\ Decode(SubSeq(pending, 1, newline - 1), "reading")
       /\ pending' = SubSeq(pending, newline + 1, Len(pending))
  /\ UNCHANGED <<reader, declared, received>>

FinalLine ==
  /\ reader = "lines" /\ outcome = "reading" /\ ~Has(pending, "n")
  /\ Decode(pending, "done")
  /\ UNCHANGED <<reader, declared, pending, received>>

\* The connection breaks, and the read in flight rejects.
BodyBreaks ==
  /\ outcome = "reading" /\ (reader = "lines" => ~Has(pending, "n"))
  /\ outcome' = "broken"
  /\ UNCHANGED <<reader, declared, pending, lines, received>>

ReadersNext ==
  \/ \E chunk \in Chunks : ReadChunk(chunk) \/ ReadForLine(chunk)
  \/ BodyEnds \/ TakeLine \/ FinalLine \/ BodyBreaks

ReadersSpec == ReadersInit /\ [][ReadersNext]_readerVars
-----------------------------------------------------------------------------
(* What a text is cut into, whatever the chunks were in which it came.        *)

Newlines(text) == {i \in DOMAIN text : text[i] = "n"}

Starts(text) == {1} \cup {i + 1 : i \in Newlines(text)}

\* From one newline to the next; the last line may still grow.
EndsAt(text, start, last) ==
  /\ start - 1 <= last /\ last <= Len(text)
  /\ \A i \in start..last : i \notin Newlines(text)
  /\ last = Len(text) \/ last + 1 \in Newlines(text)

LineFrom(text, start) ==
  SubSeq(text, start, CHOOSE last \in 0..Len(text) : EndsAt(text, start, last))

Sound(line) == Len(line) <= maxLineBytes /\ ~Has(line, "x")

\* Where a line begins that is not blank, before the first one that is not sound.
TextStarts(text) ==
  {s \in Starts(text) :
    /\ Trim(LineFrom(text, s)) # <<>>
    /\ \A t \in Starts(text) : t <= s => Sound(LineFrom(text, t))}

\* How many of such starts there are up to this one.
Rank(starts, s) == Cardinality({t \in starts : t <= s})

\* What was yielded are the lines that begin at the first of the starts.
YieldedFrom(yielded, text, starts) ==
  \A k \in DOMAIN yielded :
    \E s \in starts : Rank(starts, s) = k /\ yielded[k] = Trim(LineFrom(text, s))

Longer(m, n) == IF m < n THEN n ELSE m

(***************************************************************************)
(* What either reader makes of a body depends on its bytes alone, never on  *)
(* the chunks they came in: a body within the limit is kept whole and one    *)
(* over it is refused; all lines before the first bad one are yielded, and   *)
(* a line is refused exactly if it is too long or no UTF-8.  What is kept is *)
(* bounded throughout: what a chunk leaves behind its last newline may be    *)
(* longer than a line, and the next chunk comes on top of it.               *)
(***************************************************************************)
ChunksDoNotMatter ==
  /\ reader = "body" =>
       /\ outcome = "done" => pending = received
       /\ outcome = "tooLarge" =>
            Len(received) > maxBytes \/ declared > maxBytes
       /\ Len(pending) <= maxBytes
  /\ reader = "lines" =>
       /\ YieldedFrom(lines, received, TextStarts(received))
       /\ outcome \in {"done", "tooLarge", "malformed"} =>
            Len(lines) = Cardinality(TextStarts(received))
       /\ outcome = "done" =>
            \A s \in Starts(received) : Sound(LineFrom(received, s))
       /\ outcome \in {"tooLarge", "malformed"} =>
            \E s \in Starts(received) : ~Sound(LineFrom(received, s))
       /\ Len(pending) <= Longer(maxLineBytes, MaxReadBytes - 1) + MaxReadBytes
=============================================================================
