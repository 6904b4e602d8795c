--------------------------- MODULE BufferedRegions ---------------------------
(***************************************************************************)
(* The tokenizer and a spine that buffers, bounded by maxBufferedBytes: a  *)
(* schema is classified, then a source sends bytes, and may stop at any of *)
(* them.                                                                   *)
(***************************************************************************)
EXTENDS JsonTokenizer, Applicable

CONSTANTS
  Infinity, MaxBufferedBytes, MaxUniqueItems,
  Roots,      \* the schemas a document is validated against
  MaxLength   \* bound: the bytes of a document

ASSUME DocumentAssumption ==
  /\ Roots \subseteq DOMAIN Document
  /\ \A n \in DOMAIN Document :
       /\ Document[n].keys \subseteq Keywords
       /\ \A i \in DOMAIN Document[n].compose : Document[n].compose[i].key \in Compositions
       /\ Successors(Document[n]) \subseteq DOMAIN Document /\ IsInjective(Document[n].refs)

VARIABLES
  schemas,  \* node -> how the spine handles it: the classification, by node
  text,     \* the bytes received
  tok,      \* the tokenizer
  spine,    \* the root spine
  regions,  \* its SpanLimits; applied is the tokenizer's spanLimit
  thrown,   \* the error that ended the stream, if any
  high      \* history: the most bytes the open regions spanned at once

S == INSTANCE BufferedSpine

vars == <<schemas, text, tok, spine, regions, thrown, high>>

Init ==
  /\ text = <<>> /\ tok = TokenizerInit
  /\ \E root \in Roots : \E strategies \in {Classify(root)}, node \in {Expand(Schema(root))} :
       /\ schemas = Handlings(strategies, node)
       /\ spine = S!NewSpine(node)
       /\ thrown = IF strategies = Failed THEN [kind |-> "classifier", at |-> 0] ELSE S!NoError
  /\ regions = S!NoSpans /\ high = 0

(* The source sends a byte once the others are read. *)
Receive(b) ==
  /\ tok.pos = Len(text) /\ thrown = S!NoError /\ tok.state # "end" /\ Len(text) < MaxLength
  /\ text' = Append(text, b)
  /\ UNCHANGED <<schemas, tok, spine, regions, thrown, high>>

-----------------------------------------------------------------------------
(* The spines of a tree, each with its path, and the starts of what they
   hold back. *)
RECURSIVE Spines(_, _)
Spines(s, path) ==
  {[path |-> path, s |-> s]} \cup
    IF s.tee.open THEN UNION {Spines(s.tee.subs[i], Append(path, i)) : i \in DOMAIN s.tee.subs} ELSE {}

HoldsString(s) == s.str.open /\ s.str.needText
Held == {x \in Spines(spine, <<>>) : x.s.island.open \/ HoldsString(x.s)}
StartOf(s) == IF s.island.open THEN s.island.start ELSE s.str.offset

RECURSIVE Total(_, _)
Total(held, pos) ==
  IF held = {} THEN 0
  ELSE LET x == CHOOSE y \in held : TRUE IN pos - StartOf(x.s) + Total(held \ {x}, pos)

Higher(now) == IF now > high THEN now ELSE high

-----------------------------------------------------------------------------
(* What the handler is told: cur is the offset the spine keeps. *)
Told(event, pos, end) ==
  [type |-> event.type, end |-> end,
   cur  |-> CASE event.type \in {"key", "number"} -> event.start
              [] event.type = "stringEnd" -> end
              [] OTHER -> pos]

(* An event and the tokenizer behind it. *)
Deliver(result, end) ==
  /\ tok' = result.t
  /\ IF result.event.type = "none" THEN UNCHANGED <<spine, regions, thrown>>
     ELSE LET out == S!Feed(spine, <<>>, Told(result.event, tok.pos, end), regions)
          IN  spine' = out.s /\ regions' = out.r /\ thrown' = out.err
  /\ high' = Higher(Total(Held', tok.pos'))

Throw(error) == thrown' = error /\ UNCHANGED <<tok, spine, regions, high>>

Syntax == [kind |-> "syntax", at |-> tok.pos]

(* Mutant: the byte before the limit is refused too. *)
AtSpanLimitEarly == tok.pos + 1 >= regions.applied

AtSpanLimit == tok.pos >= regions.applied

(* One turn of write: the span limit refuses the byte before it is parsed,
   but a malformed number in front of it is a syntax error. *)
Turn ==
  /\ tok.pos < Len(text) /\ thrown = S!NoError
  /\ LET b == text[tok.pos + 1]
         result == Scan(tok, b)
     IN  IF AtSpanLimit
         THEN Throw(IF tok.state = "number" /\ b \notin NumberByte /\ ~NumberOk(tok.buf)
                    THEN Syntax ELSE [kind |-> "buffer", at |-> regions.applied])
         ELSE IF result.event.type = "error" THEN Throw(Syntax)
         ELSE Deliver(result, IF result.event.type = "number" THEN tok.pos ELSE tok.pos + 1)
  /\ UNCHANGED <<schemas, text>>

(* end: a number in progress is finished first. *)
End ==
  /\ tok.pos = Len(text) /\ thrown = S!NoError /\ tok.state = "number"
  /\ LET result == FinishNumber(tok)
     IN  IF result.event.type = "error" THEN Throw(Syntax) ELSE Deliver(result, tok.pos)
  /\ UNCHANGED <<schemas, text>>

Next == Turn \/ End \/ \E b \in Byte : Receive(b)
Spec == Init /\ [][Next]_vars

-----------------------------------------------------------------------------
(* Nothing held outgrows its cap, whatever else is held beside it: an island
   or a string never spans more than maxBufferedBytes, text held for
   equality no more than its longest candidate, and a uniqueItems array no
   more than maxUniqueItems elements. *)
HeldWithinCaps ==
  thrown = S!NoError =>
    \A x \in Held :
      /\ (IF x.s.island.open THEN tok.pos ELSE x.s.str.heldEnd) - StartOf(x.s) <= MaxBufferedBytes
      /\ x.s.island.open /\ x.s.island.unique => x.s.island.count <= MaxUniqueItems
      /\ x.s.str.open /\ x.s.str.equal => x.s.str.text <= x.s.str.longest

(* The value that starts at i, from the text alone: the container depth and
   whether a string is open after its first n bytes. *)
Quotes(i, n) == Cardinality({j \in i + 1..n : text[j] = "Q"})
Unquoted(i, n, bytes) ==
  Cardinality({j \in i + 1..n : text[j] \in bytes /\ Quotes(i, j) % 2 = 0})
OpenAfter(i, n) ==
  Quotes(i, n) % 2 = 1 \/ Unquoted(i, n, {"[", "{"}) > Unquoted(i, n, {"]", "}"})

(* maxBufferedBytes refuses only a document with a value too large to hold:
   one that starts at the refused offset less the cap and is not over within
   the cap. *)
RefusesTooLarge ==
  thrown.kind = "buffer" =>
    /\ thrown.at >= MaxBufferedBytes /\ thrown.at <= Len(text)
    /\ text[thrown.at - MaxBufferedBytes + 1] \in {"[", "{", "Q"}
    /\ OpenAfter(thrown.at - MaxBufferedBytes, thrown.at)

(* When the document is over nothing is held, and the reported peak is at
   least what all regions, those of branches side by side included, spanned
   at any one time. *)
PeakCoversHeld == tok.state = "end" /\ thrown = S!NoError => Held = {} /\ high <= spine.peak

(* The byte that is refused has arrived (options.ts: byte I +
   maxBufferedBytes is refused before it is parsed; spine.ts: the event's
   first byte is at curOffset, so span + 1 bytes are in). *)
RefusedByteArrived == thrown.kind = "buffer" => thrown.at < Len(text)

(* The schemas that couple, on one value, with something that must see it whole. *)
RECURSIVE Coupled(_)
Coupled(nodes) ==
  LET more == nodes \cup UNION {Successors(Document[n]) : n \in nodes}
  IN  IF more = nodes THEN nodes ELSE Coupled(more)

MustWait == {n \in DOMAIN Document : \E m \in Coupled({n}) : Document[m].keys \cap Whole # {}}

(* A value is fanned out only if nothing its schemas couple with must see it
   whole, it is held whole only if something must or its own keywords cannot
   be checked as it streams, and no schema that cannot be streamed ever meets
   a value: whatever circles the references go in, however deep. *)
HeldAsNeeded ==
  \A x \in Spines(spine, <<>>) :
    LET met == UNION {ToSet(x.s.frames[i]) : i \in DOMAIN x.s.frames}
                 \cup (IF x.s.tee.open THEN ToSet(x.s.tee.node) ELSE {})
                 \cup (IF x.s.island.open THEN ToSet(x.s.island.node) ELSE {})
    IN  /\ \A s \in met : ~Unstreamable(Document[s.at])
        /\ x.s.tee.open => \A s \in ToSet(x.s.tee.node) : s.own \/ s.at \notin MustWait
        /\ x.s.island.open =>
             \E s \in ToSet(x.s.island.node) :
               \/ ~s.own /\ s.at \in MustWait
               \/ Document[s.at].contains # <<>>
               \/ Document[s.at].keys \cap {"unique", "format"} # {}
=============================================================================
