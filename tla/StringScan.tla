----------------------------- MODULE StringScan -----------------------------
(***************************************************************************)
(* The body of a string in the tokenizer (write, scanStringBody and what    *)
(* they call, tokenizer/tokenizer.ts).  It is scanned in batches that end   *)
(* at a quote, an escape, a limit or where the chunk does, and each batch   *)
(* is decoded by a TextDecoder that holds an incomplete character back.     *)
(* The handler of a slice may close regions of SpanLimits, whose earliest   *)
(* limit the scan must stop at.                                             *)
(*                                                                         *)
(* The opening quote is at offset 0 and body[o] is the byte at offset o.    *)
(* A character of the text is the sequence of its bytes, or of its one code *)
(* unit when an escape spells it.                                           *)
(***************************************************************************)
EXTENDS SpanOwners, FiniteSetsExt, Functions, TLC

CONSTANTS
  Strings,    \* [body, key, strict, keyCap, byteLimit], see below
  ChunkSizes, \* how many bytes a write may bring
  Batch       \* 16384, the longest batch of a key under a cap

VARIABLES
  string,   \* fixed; its bytes, whether it is a key, utf8: "reject", maxKeyBytes,
            \* and a byte limit that counts every byte
  until,    \* the offset past the bytes written so far
  at,       \* the offset of the next byte to parse
  mode,     \* "body", "escape" or "unicode"
  decoder,  \* the bytes TextDecoder holds
  pending,  \* utf8Pending and utf8PendingOffset: [bytes, at]
  unit,     \* of an escape: [digits, value]
  high,     \* pendingHighSurrogate
  count,    \* strCodePoints
  text,     \* what was delivered: keyBuf, or the slices so far
  slice,    \* the slice the last turn delivered: [end, count]
  outcome   \* how the string ended: [kind, at]

scan == <<at, mode, decoder, pending, unit, high, count, text, slice, outcome>>
vars == <<regions, string, until, scan>>

Quote == 34
Backslash == 92
Control == 0 .. 31

Escaped == (34 :> 34) @@ (92 :> 92) @@ (47 :> 47) @@ (98 :> 8) @@ (102 :> 12)
             @@ (110 :> 10) @@ (114 :> 13) @@ (116 :> 9)

HexValue(b) ==
  CASE b \in 48 .. 57 -> b - 48 [] b \in 97 .. 102 -> b - 87 [] b \in 65 .. 70 -> b - 55 [] OTHER -> -1

IsHigh(u) == u \in 55296 .. 56319
IsLow(u) == u \in 56320 .. 57343

Replacement == <<65533>>

-----------------------------------------------------------------------------
(* UTF-8, as the platform's decoder reads it. *)

Width(b) ==
  CASE b < 128 -> 1 [] b \in 194 .. 223 -> 2 [] b \in 224 .. 239 -> 3 [] b \in 240 .. 244 -> 4 [] OTHER -> 0

(* The bytes that may come second keep overlong forms, surrogates and what is
   past the last code point out. *)
SecondByte(lead) ==
  CASE lead = 224 -> 160 .. 191 [] lead = 237 -> 128 .. 159
    [] lead = 240 -> 144 .. 191 [] lead = 244 -> 128 .. 143 [] OTHER -> 128 .. 191

(* How many bytes of b from i on belong to one character, whole or broken off. *)
Prefix(b, i) ==
  Max({n \in 1 .. 4 : /\ i + n - 1 <= Len(b)
                      /\ n = 1 \/ n <= Width(b[i])
                      /\ n >= 2 => b[i + 1] \in SecondByte(b[i])
                      /\ \A k \in 3 .. n : b[i + k - 1] \in 128 .. 191})

Whole(b, i) == Prefix(b, i) = Width(b[i])
CutOff(b, i) == ~Whole(b, i) /\ Width(b[i]) > 0 /\ i + Prefix(b, i) > Len(b)

(* The text of b from i on, the bytes held when more may come, and where the
   first ill-formed sequence is (past the end when there is none). *)
RECURSIVE DecodeFrom(_, _, _)
DecodeFrom(b, i, more) ==
  IF i > Len(b) THEN [text |-> <<>>, held |-> <<>>, bad |-> i]
  ELSE IF more /\ CutOff(b, i) THEN [text |-> <<>>, held |-> SubSeq(b, i, Len(b)), bad |-> Len(b) + 1]
  ELSE LET rest == DecodeFrom(b, i + Prefix(b, i), more)
       IN  IF Whole(b, i)
           THEN [rest EXCEPT !.text = <<SubSeq(b, i, i + Prefix(b, i) - 1)>> \o @]
           ELSE [rest EXCEPT !.text = <<Replacement>> \o @, !.bad = i]

Decode(b, more) == DecodeFrom(b, 1, more)

-----------------------------------------------------------------------------
(* What the tokenizer keeps of its own. *)

NothingPending == [bytes |-> <<>>, at |-> 0]

(* holdUtf8Tail: the incomplete character at the end of what was decoded. *)
HoldTail(joined, end) ==
  LET leads == {i \in DOMAIN joined : i > Len(joined) - 3 /\ joined[i] \notin 128 .. 191}
      i == Max(leads)
      width == IF joined[i] < 224 THEN 2 ELSE IF joined[i] < 240 THEN 3 ELSE 4
      length == Len(joined) - i + 1
  IN  IF leads = {} \/ joined[i] < 128 \/ length >= width THEN NothingPending
      ELSE [bytes |-> SubSeq(joined, i, Len(joined)), at |-> end - length]

(* Mutant: the byte after the lead is taken for a continuation unseen. *)
HeldPrefixAny(run) ==
  LET leads == {i \in DOMAIN run : i > Len(run) - 3 /\ run[i] \notin 128 .. 191}
      length == Len(run) - Max(leads) + 1
  IN  IF leads = {} \/ length >= Width(run[Max(leads)]) THEN 0 ELSE length

(* heldUtf8Prefix, of the run alone. *)
HeldPrefix(run) ==
  LET leads == {i \in DOMAIN run : i > Len(run) - 3 /\ run[i] \notin 128 .. 191}
      i == Max(leads)
      length == Len(run) - i + 1
  IN  IF leads = {} \/ length >= Width(run[i]) \/ (length > 1 /\ run[i + 1] \notin SecondByte(run[i]))
      THEN 0 ELSE length

(* Mutant: a batch ends where the chunk does, whatever the limits. *)
ScanEndOfChunk == until

(* scanEnd. *)
ScanEnd == Min({until, string.byteLimit, regions.applied})

BatchEnd == IF string.key /\ string.keyCap # Infinity
            THEN Min({ScanEnd, string.keyCap, at + Batch}) ELSE ScanEnd

NoByte == -1
NoUnit == [digits |-> 0, value |-> 0]
NoSlice == [end |-> -1, count |-> 0]
Reading == [kind |-> "reading", at |-> 0]

-----------------------------------------------------------------------------
(* What ends or delivers. *)

Fail(kind, offset) ==
  /\ outcome' = [kind |-> kind, at |-> offset]
  /\ slice' = NoSlice
  /\ UNCHANGED <<at, mode, decoder, pending, unit, high, count, text>>

(* emitStringText *)
Emit(chunk, points, end) ==
  /\ text' = text \o chunk
  /\ count' = count + points
  /\ slice' = IF chunk = <<>> THEN NoSlice ELSE [end |-> end, count |-> count + points]

(* The literal run from at up to stop, decoded and delivered; held back at the
   end of a batch. *)
Run(stop, more) ==
  LET run == SubSeq(string.body, at, stop - 1)
      decoded == Decode(decoder \o run, more)
  IN  /\ Emit(decoded.text, Len(decoded.text), stop - (IF more THEN HeldPrefix(run) ELSE 0))
      /\ decoder' = decoded.held
      /\ pending' = IF string.strict /\ more THEN HoldTail(pending.bytes \o run, stop) ELSE NothingPending
      /\ high' = FALSE

(* Mutant: the bytes held from the write before are left out of the search. *)
IllFormedOfRun(stop, more) ==
  LET run == SubSeq(string.body, at, stop - 1)
  IN  IF Decode(decoder \o run, more).bad > Len(decoder \o run) THEN Infinity
      ELSE at + Decode(run, FALSE).bad - 1

(* decodeRunStrict: where a run that does not decode is said to be ill-formed,
   Infinity when it decodes. *)
IllFormed(stop, more) ==
  LET run == SubSeq(string.body, at, stop - 1)
      decoded == Decode(decoder \o run, more)
      start == IF pending.bytes = <<>> THEN at ELSE pending.at
  IN  IF decoded.bad > Len(decoder \o run) THEN Infinity
      ELSE start + Decode(pending.bytes \o run, FALSE).bad - 1

(* flushHeldPartial, when malformed text is replaced. *)
Flush(end) ==
  /\ Emit(IF decoder = <<>> THEN <<>> ELSE <<Replacement>>, IF decoder = <<>> THEN 0 ELSE 1, end)
  /\ high' = (high /\ decoder = <<>>)
  /\ decoder' = <<>> /\ pending' = NothingPending

(* flushStrict *)
Truncated == IF decoder = <<>> THEN Infinity ELSE pending.at

(* scanStringBody, and finishString or the start of an escape. *)
ScanBody ==
  LET n == BatchEnd
      stop == Min({o \in at .. n - 1 : string.body[o] \in {Quote, Backslash} \union Control} \union {n})
      more == stop = n
      byte == IF more THEN NoByte ELSE string.body[stop]
      malformed == IF stop > at THEN IllFormed(stop, more) ELSE Truncated
  IN  \/ byte \in Control /\ Fail("control", stop)
      \/ byte \notin Control /\ string.strict /\ malformed # Infinity /\ Fail("utf8", malformed)
      \/ /\ byte \notin Control /\ (string.strict => malformed = Infinity)
         /\ IF stop > at THEN Run(stop, more) ELSE Flush(stop)
         /\ at' = IF more THEN n ELSE stop + 1
         /\ mode' = IF byte = Backslash THEN "escape" ELSE mode
         /\ outcome' = IF byte = Quote THEN [kind |-> "closed", at |-> stop] ELSE outcome
         /\ unit' = NoUnit

(* stepStringEscape *)
StepEscape ==
  LET b == string.body[at]
  IN  \/ /\ b = 117
         /\ mode' = "unicode" /\ at' = at + 1 /\ unit' = NoUnit /\ slice' = NoSlice
         /\ UNCHANGED <<decoder, pending, high, count, text, outcome>>
      \/ /\ b \in DOMAIN Escaped
         /\ Emit(<<<<Escaped[b]>>>>, 1, at + 1)
         /\ high' = FALSE /\ mode' = "body" /\ at' = at + 1
         /\ UNCHANGED <<decoder, pending, unit, outcome>>
      \/ b \notin DOMAIN Escaped \union {117} /\ Fail("escape", at)

(* stepStringUnicode: the low half of a pair was counted with the high one. *)
StepUnicode ==
  LET v == HexValue(string.body[at])
      value == 16 * unit.value + v
  IN  \/ v < 0 /\ Fail("hex", at)
      \/ /\ v >= 0 /\ unit.digits < 3
         /\ unit' = [digits |-> unit.digits + 1, value |-> value]
         /\ at' = at + 1 /\ slice' = NoSlice
         /\ UNCHANGED <<mode, decoder, pending, high, count, text, outcome>>
      \/ /\ v >= 0 /\ unit.digits = 3
         /\ Emit(<<<<value>>>>, IF high /\ IsLow(value) THEN 0 ELSE 1, at + 1)
         /\ high' = IsHigh(value) /\ mode' = "body" /\ unit' = NoUnit /\ at' = at + 1
         /\ UNCHANGED <<decoder, pending, outcome>>

(* write, one turn of its loop: the limits come first. *)
Turn ==
  /\ outcome = Reading /\ at < until
  /\ \/ at >= string.byteLimit /\ Fail("byteLimit", string.byteLimit)
     \/ at < string.byteLimit /\ at >= regions.applied /\ Fail("spanLimit", regions.applied)
     \/ /\ at < string.byteLimit /\ at < regions.applied
        /\ \/ string.key /\ at >= string.keyCap /\ Fail("keyLimit", at)
           \/ /\ string.key => at < string.keyCap
              /\ \/ mode = "body" /\ ScanBody
                 \/ mode = "escape" /\ StepEscape
                 \/ mode = "unicode" /\ StepUnicode
  /\ UNCHANGED <<regions, string, until>>

(* The next write. *)
Write ==
  /\ outcome = Reading /\ at = until /\ until <= Len(string.body)
  /\ \E n \in ChunkSizes : until' = Min({until + n, Len(string.body) + 1})
  /\ slice' = NoSlice
  /\ UNCHANGED <<regions, string, at, mode, decoder, pending, unit, high, count, text, outcome>>

(* end, with the string open. *)
EndOfInput ==
  /\ outcome = Reading /\ at = until /\ until > Len(string.body)
  /\ Fail("unterminated", at)
  /\ UNCHANGED <<regions, string, until>>

(* onStringStart holds a value; the handler of a slice lets go of one. *)
Hold(owner, limit) ==
  /\ ~string.key /\ at = 1 /\ until = 1 /\ Open(owner, limit)
  /\ UNCHANGED <<string, until, scan>>

LetGo(owner) ==
  /\ ~string.key /\ outcome = Reading /\ slice # NoSlice /\ Close(owner)
  /\ UNCHANGED <<string, until, scan>>

ScanInit ==
  /\ Init /\ string \in Strings
  /\ until = 1 /\ at = 1 /\ mode = "body" /\ decoder = <<>> /\ pending = NothingPending
  /\ unit = NoUnit /\ high = FALSE /\ count = 0 /\ text = <<>>
  /\ slice = NoSlice /\ outcome = Reading

ScanNext ==
  \/ Turn \/ Write \/ EndOfInput
  \/ \E owner \in Owners : LetGo(owner) \/ \E limit \in Offsets : Hold(owner, limit)

ScanSpec == ScanInit /\ [][ScanNext]_vars

-----------------------------------------------------------------------------
(* The text of the bytes up to an offset, read in one go: literal runs are
   whole, and what is cut off at the end is replaced. *)
RECURSIVE TextFrom(_, _)
TextFrom(o, end) ==
  LET b == string.body
      next == Min({i \in o .. end - 1 : b[i] = Backslash} \union {end})
  IN  IF o >= end THEN <<>>
      ELSE IF next > o THEN Decode(SubSeq(b, o, next - 1), FALSE).text \o TextFrom(next, end)
      ELSE IF o + 1 < end /\ b[o + 1] # 117 THEN <<<<Escaped[b[o + 1]]>>>> \o TextFrom(o + 2, end)
      ELSE IF o + 5 < end
        THEN <<<<4096 * HexValue(b[o + 2]) + 256 * HexValue(b[o + 3])
                  + 16 * HexValue(b[o + 4]) + HexValue(b[o + 5])>>>> \o TextFrom(o + 6, end)
      ELSE <<>>

TextUpTo(end) == TextFrom(1, end)

IsUnit(c, Half(_)) == Len(c) = 1 /\ Half(c[1])

(* As JavaScript counts it: the two halves of a pair are one. *)
CodePoints(t) ==
  Len(t) - Cardinality({i \in 1 .. Len(t) - 1 : IsUnit(t[i], IsHigh) /\ IsUnit(t[i + 1], IsLow)})

(* However the input is cut, by writes, limits or batches, the slices so far
   are the text of the bytes up to the end the last one claims, the count given
   with it is theirs, and the string closes with all of its text and its
   length: nothing the decoder held is lost, repeated, counted early or taken
   for a pair of escapes (onStringChunk, onStringEnd, onKey). *)
SlicesFollowText ==
  /\ slice # NoSlice => text = TextUpTo(slice.end) /\ slice.count = CodePoints(text)
  /\ outcome.kind = "closed" => text = TextUpTo(outcome.at) /\ count = CodePoints(text)

Refusals == {"byteLimit", "spanLimit", "keyLimit"}

(* No byte at an armed limit is parsed, and the one that is refused is that at
   the earliest limit, after every character that ended before it has been
   delivered: a batch never runs past a limit, nor a refusal cut it short. *)
RefusedAtTheLimit ==
  LET limits == {string.byteLimit, regions.applied} \union (IF string.key THEN {string.keyCap} ELSE {})
      withheld == IF mode = "body" THEN Len(decoder) ELSE 0
  IN  /\ outcome.kind \in {"reading", "closed"} => at <= Min(limits)
      /\ outcome.kind \in Refusals =>
           outcome.at = Min(limits) /\ at = outcome.at /\ text = TextUpTo(at - withheld)

(* Under utf8: "reject" no text is made up, and a parse error for malformed
   UTF-8 names the first byte that is part of no character, wherever the
   input was cut around it (decodeRunStrict, holdUtf8Tail). *)
MalformedLocated ==
  string.strict =>
    /\ Replacement \notin Range(text)
    /\ outcome.kind = "utf8" =>
         LET b == string.body
             end == Min({i \in outcome.at .. Len(b) : b[i] \in {Quote, Backslash} \union Control}
                          \union {Len(b) + 1})
         IN  /\ Replacement \notin Range(TextUpTo(outcome.at))
             /\ end > outcome.at /\ ~Whole(SubSeq(b, outcome.at, end - 1), 1)
=============================================================================
