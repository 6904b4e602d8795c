------------------------------- MODULE Router -------------------------------
(***************************************************************************)
(* createRouter (router/src/matcher.ts): which operation of a document a    *)
(* request is for.  A path template is a sequence of segments, each made of *)
(* literals around parameter names; a request path is a sequence of tokens  *)
(* as they arrive.  Both are made of items: an item is a character or an    *)
(* escape, with the characters it takes on the wire and those it stands     *)
(* for, where a character is a UTF-16 unit.                                 *)
(*                                                                         *)
(* Left out: leading and trailing slashes, what follows a "?" or "#", "x-"  *)
(* keys, and braces that are not closed.                                    *)
(***************************************************************************)
EXTENDS Integers, Sequences, FiniteSets, SequencesExt

CONSTANTS
  Wire,    \* item |-> its characters on the wire
  Stands,  \* item |-> those it stands for; not defined for an escape that is not valid
  Astral,  \* the escapes of four bytes, which stand for two surrogates
  Code,    \* character |-> its code point
  Methods  \* what a path item may declare

(* An escape takes three characters a byte. *)
ASSUME RouterAssumption ==
  /\ DOMAIN Stands \subseteq DOMAIN Wire /\ Astral \subseteq DOMAIN Stands
  /\ \A i \in DOMAIN Wire : Wire[i] \in Seq(DOMAIN Code)
  /\ \A i \in DOMAIN Stands :
       /\ Stands[i] \in Seq(DOMAIN Code) /\ Len(Stands[i]) = IF i \in Astral THEN 2 ELSE 1
       /\ Len(Wire[i]) >= IF i \in Astral THEN 12 ELSE 1
  /\ {"GET", "HEAD"} \subseteq Methods

(* A document's paths: [segments, methods], a set of routes.  A segment has
   one literal more than it has names. *)
Segmented(s) ==
  /\ s.names \in Seq(Seq(DOMAIN Wire)) /\ s.literals \in Seq(Seq(DOMAIN Wire))
  /\ Len(s.literals) = Len(s.names) + 1

WireText(token) == FlattenSeq([i \in DOMAIN token |-> Wire[token[i]]])

(* decodePathToken: a token with an invalid escape stays as it is. *)
Decoded(token) ==
  IF Range(token) \subseteq DOMAIN Stands
  THEN FlattenSeq([i \in DOMAIN token |-> Stands[token[i]]])
  ELSE WireText(token)

Literal(s, i) == Decoded(s.literals[i])

Kind(s) ==
  CASE s.names = <<>> -> "literal"
    [] s.names # <<>> /\ Len(s.names) = 1 /\ s.literals = <<<<>>, <<>>>> -> "template"
    [] OTHER -> "compound"

(* The text of a segment, as items. *)
SegmentText(s) ==
  s.literals[1] \o FlattenSeq([i \in DOMAIN s.names |->
                                 <<"{">> \o s.names[i] \o <<"}">> \o s.literals[i + 1]])

Text(r) ==
  FlattenSeq([i \in DOMAIN r.segments |-> <<"/">> \o WireText(SegmentText(r.segments[i]))])

-----------------------------------------------------------------------------
(* Construction. *)

(* Mutant: a literal around a parameter is compared as it is written. *)
SignatureAsWritten(s) ==
  IF Kind(s) = "literal" THEN Literal(s, 1)
  ELSE WireText(s.literals[1]) \o FlattenSeq([i \in DOMAIN s.names |->
                                                <<"{}">> \o WireText(s.literals[i + 1])])

SegmentSignature(s) ==
  Literal(s, 1) \o FlattenSeq([i \in DOMAIN s.names |-> <<"{}">> \o Literal(s, i + 1)])

RouteSignature(r) ==
  FlattenSeq([i \in DOMAIN r.segments |->
                (IF i = 1 THEN <<>> ELSE <<"/">>) \o SegmentSignature(r.segments[i])])

(* methodsDeclaredOn: GET takes HEAD with it. *)
Declares(r) == r.methods \union (IF "GET" \in r.methods THEN {"HEAD"} ELSE {})

Ambiguous(r, s) == RouteSignature(r) = RouteSignature(s) /\ Declares(r) \cap Declares(s) # {}

(* createRouter throws. *)
RouterRefused(doc) == \E r, s \in doc : r # s /\ Ambiguous(r, s)

KindRank(s) == CASE Kind(s) = "literal" -> 0 [] Kind(s) = "compound" -> 1 [] OTHER -> 2

LessAt(a, b, i) == /\ a[i] < b[i]
                   /\ \A j \in 1 .. i - 1 : a[j] = b[j]

Shared(a, b) == 1 .. IF Len(a) < Len(b) THEN Len(a) ELSE Len(b)

Ranks(r) == [i \in DOMAIN r.segments |-> KindRank(r.segments[i])]
Codes(r) == [i \in DOMAIN Text(r) |-> Code[Text(r)[i]]]

(* The order of the routes: the first segments that differ in kind decide,
   then the longer path, then the text. *)
Before(r, s) ==
  LET a == Ranks(r)
      b == Ranks(s)
  IN  \/ \E i \in Shared(a, b) : LessAt(a, b, i)
      \/ /\ \A i \in Shared(a, b) : a[i] = b[i]
         /\ \/ Len(a) > Len(b)
            \/ /\ Len(a) = Len(b)
               /\ \/ \E i \in Shared(Codes(r), Codes(s)) : LessAt(Codes(r), Codes(s), i)
                  \/ IsStrictPrefix(Codes(r), Codes(s))

-----------------------------------------------------------------------------
(* Matching. *)

OccursAt(token, text, at) ==
  at + Len(text) <= Len(token) /\ SubSeq(token, at + 1, at + Len(text)) = text

(* indexOf: beyond the token when the text does not occur. *)
IndexOf(token, text, from) ==
  LET at == {i \in from .. Len(token) : OccursAt(token, text, i)}
  IN  IF at = {} THEN Len(token) + 1 ELSE CHOOSE i \in at : \A j \in at : i <= j

(* Mutant: a capture may be empty. *)
EarliestEmpty(pos) == pos

Earliest(pos) == pos + 1

(* One parameter of the scan: all but the last stop where their separator
   first occurs, the last runs up to the suffix. *)
Capture(s, token, scan, i) ==
  LET text == Literal(s, i + 1)
      end == IF i = Len(s.names) THEN Len(token) - Len(text)
                                 ELSE IndexOf(token, text, Earliest(scan.pos))
  IN  [ok |-> scan.ok /\ end >= Earliest(scan.pos) /\ OccursAt(token, text, end),
       pos |-> end + Len(text),
       spans |-> Append(scan.spans, <<scan.pos, end>>)]

(* matchCompound. *)
Scan(s, token) ==
  FoldLeftDomain(LAMBDA scan, i : Capture(s, token, scan, i),
                 [ok |-> OccursAt(token, Literal(s, 1), 0), pos |-> Len(Literal(s, 1)),
                  spans |-> <<>>],
                 s.names)

SegmentMatches(s, token) ==
  CASE Kind(s) = "literal" -> Literal(s, 1) = token
    [] Kind(s) = "template" -> TRUE
    [] OTHER -> Scan(s, token).ok

Matches(r, path) ==
  /\ Len(r.segments) = Len(path)
  /\ \A i \in DOMAIN path : SegmentMatches(r.segments[i], Decoded(path[i]))

(* Mutant: HEAD is answered only where it is declared. *)
ServesAsDeclared(r, method) == method \in r.methods

(* An operation for the method: HEAD falls back to GET. *)
Serves(r, method) == method \in r.methods \/ (method = "HEAD" /\ "GET" \in r.methods)

Operation(r, method) == [route |-> r, method |-> IF method \in r.methods THEN method ELSE "GET"]

First(sorted, S) == sorted[CHOOSE i \in S : \A j \in S : i <= j]

(* Router.match, over the sorted routes. *)
Answer(sorted, method, path) ==
  LET structural == {i \in DOMAIN sorted : Matches(sorted[i], path)}
      serving == {i \in structural : Serves(sorted[i], method)}
  IN  IF serving # {} THEN [kind |-> "match", route |-> First(sorted, serving), allowed |-> {}]
      ELSE IF structural # {}
        THEN [kind |-> "method-not-allowed", route |-> First(sorted, structural),
              allowed |-> UNION {Declares(sorted[i]) : i \in structural}]
      ELSE [kind |-> "no-match", route |-> {}, allowed |-> {}]

-----------------------------------------------------------------------------
(* The wire captures of a compound segment. *)

(* Mutant: an escape stands for one unit. *)
UnitsOne(item) == 1

Units(item) == IF item \in Astral THEN 2 ELSE 1

(* wireOffsets: boundaries of the decoded token |-> offsets on the wire.
   The boundary between two surrogates has none. *)
WireOffsets(token) ==
  LET step(acc, i) ==
        LET units == acc.units + Units(token[i])
            wire == acc.wire + Len(Wire[token[i]])
        IN  [units |-> units, wire |-> wire,
             offsets |-> [b \in DOMAIN acc.offsets \union {units} |->
                            IF b = units THEN wire ELSE acc.offsets[b]]]
  IN  FoldLeftDomain(step, [units |-> 0, wire |-> 0, offsets |-> [b \in {0} |-> 0]], token).offsets

(* A token that decodes to itself keeps its boundaries. *)
Boundaries(token) ==
  IF Decoded(token) = WireText(token)
  THEN [b \in 0 .. Len(WireText(token)) |-> b] ELSE WireOffsets(token)

(* Absent when a boundary has no place on the wire.  In a path without escapes
   the code leaves it out, the capture being its own wire text. *)
RawCapture(token, span) ==
  LET b == Boundaries(token)
  IN  IF span[1] \in DOMAIN b /\ span[2] \in DOMAIN b
      THEN <<SubSeq(WireText(token), b[span[1]] + 1, b[span[2]])>> ELSE <<>>

Captured(token, span) == SubSeq(Decoded(token), span[1] + 1, span[2])
=============================================================================
