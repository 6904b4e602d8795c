---------------------------- MODULE BufferedSpine ----------------------------
(***************************************************************************)
(* What a spine (spine/spine.ts) holds of a value it cannot check as it    *)
(* streams: an island, built whole for the in-memory engine, the text of a *)
(* string, or a TEE, a sub-spine for each branch of a composition that     *)
(* hears every event of the value and may hold islands, strings and TEEs   *)
(* of its own.  All of them share the regions of SpanLimits.               *)
(*                                                                         *)
(* What applies to a value is a node (module Applicable).  The verdicts of *)
(* keywords are left out.                                                  *)
(* A spine is named by its path: the root is <<>>, and sub-spine i of p is *)
(* Append(p, i).                                                           *)
(***************************************************************************)
EXTENDS SpanLimits

CONSTANTS
  MaxBufferedBytes,  \* options.maxBufferedBytes
  MaxUniqueItems     \* options.maxUniqueItems

VARIABLE schemas  \* node -> how the spine handles it, settled before the first byte

(* A node has [need, unique, text, longest, items, branches]: need is "stream",
   "tee" or "buffer"; unique: uniqueItems applies; text: what the text of a
   string is needed for, "none", "equal" or "whole"; longest: the longest
   candidate of an "equal" one, -1 when none is a string; items: the node of
   elements and members; branches: the nodes of a TEE's sub-spines. *)

NoIsland == [open |-> FALSE]
NoString == [open |-> FALSE]
NoTee == [open |-> FALSE]
NoError == [kind |-> "none", at |-> 0]
SpanExceeded(start) == [kind |-> "buffer", at |-> start + MaxBufferedBytes]

NewSpine(node) ==
  [node |-> node, frames |-> <<>>, island |-> NoIsland, str |-> NoString, tee |-> NoTee, peak |-> 0]

Max2(a, b) == IF a > b THEN a ELSE b

(* A spine, the regions, and the error thrown, if any. *)
Outcome(s, r, err) == [s |-> s, r |-> r, err |-> err]

(* The node of the value about to be parsed. *)
NodeForValue(s) ==
  IF s.frames = <<>> THEN s.node ELSE schemas[s.frames[Len(s.frames)]].items

OpenRegion(r, path, start) == OpenSpan(r, path, start + MaxBufferedBytes)

Starts == {"startObject", "startArray"}
Ends == {"endObject", "endArray"}
Scalars == {"number", "literal"}

-----------------------------------------------------------------------------
(* Islands. *)

NewIsland(node, at) ==
  [open |-> TRUE, node |-> node, start |-> at, unique |-> schemas[node].unique,
   depth |-> 0, isArray |-> FALSE, count |-> 0, inString |-> FALSE]

(* ValueBuilder: a container or a scalar is added to the one it is in, and
   the root array is as long as what was added to it. *)
Build(b, e) ==
  LET added == [b EXCEPT !.count = IF b.isArray /\ b.depth = 1 THEN @ + 1 ELSE @]
  IN  CASE e.type \in Starts ->
             [added EXCEPT !.depth = @ + 1,
                           !.isArray = IF b.depth = 0 THEN e.type = "startArray" ELSE @]
        [] e.type \in Ends -> [b EXCEPT !.depth = @ - 1]
        [] e.type = "stringStart" -> [b EXCEPT !.inString = TRUE]
        [] e.type = "stringEnd" -> [added EXCEPT !.inString = FALSE]
        [] e.type \in Scalars -> added
        [] OTHER -> b

Complete(b) == b.depth = 0 /\ ~b.inString

FinalizeIsland(s, path, r) == Outcome([s EXCEPT !.island = NoIsland], CloseSpan(r, path), NoError)

(* forwardIsland: the span runs to the event's offset, which for the end of
   a string is one past its quote. *)
ForwardIsland(s, path, e, r) ==
  LET b == Build(s.island, e)
      span == e.cur - b.start
      fed == [s EXCEPT !.island = b, !.peak = Max2(@, IF Complete(b) THEN span + 1 ELSE span)]
  IN  IF span >= MaxBufferedBytes THEN Outcome(fed, r, SpanExceeded(b.start))
      ELSE IF b.unique /\ b.isArray /\ b.count > MaxUniqueItems
      THEN Outcome(fed, r, [kind |-> "unique", at |-> e.cur])
      ELSE IF Complete(b) THEN FinalizeIsland(fed, path, r)
      ELSE Outcome(fed, r, NoError)

BeginIsland(s, path, node, e, r) ==
  Outcome([s EXCEPT !.island = NewIsland(node, e.cur)], OpenRegion(r, path, e.cur), NoError)

-----------------------------------------------------------------------------
(* Strings. *)

(* onStringStart: text needed only for equality is bounded by the longest
   candidate, and opens no region. *)
BeginString(s, path, node, e, r) ==
  LET equal == schemas[node].text = "equal"
      missed == equal /\ schemas[node].longest = -1
      needText == schemas[node].text # "none" /\ ~missed
      str == [open |-> TRUE, offset |-> e.cur, needText |-> needText, equal |-> equal,
              longest |-> schemas[node].longest, text |-> 0, missed |-> missed,
              held |-> 0, heldEnd |-> e.cur]
  IN  Outcome([s EXCEPT !.str = str],
              IF needText /\ ~equal THEN OpenRegion(r, path, e.cur) ELSE r, NoError)

(* Text longer than every candidate equals none, and is dropped. *)
Outgrown(str) == str.equal /\ ~str.missed /\ str.text + 1 > str.longest

Release(str) ==
  [str EXCEPT !.missed = TRUE, !.needText = FALSE, !.text = 0,
              !.held = IF str.text = 0 THEN 0 ELSE str.heldEnd - str.offset]

(* Mutant: outgrown text is kept. *)
StringTextKept(s, path, e, r) ==
  IF ~s.str.needText THEN Outcome(s, r, NoError)
  ELSE Outcome([s EXCEPT !.str.text = @ + 1, !.str.heldEnd = e.end], r,
               IF e.end - s.str.offset > MaxBufferedBytes /\ ~s.str.equal
               THEN SpanExceeded(s.str.offset) ELSE NoError)

(* onStringChunk, a byte of text at a time. *)
StringText(s, path, e, r) ==
  IF Outgrown(s.str)
  THEN IF Release(s.str).held > MaxBufferedBytes THEN Outcome(s, r, SpanExceeded(s.str.offset))
       ELSE Outcome([s EXCEPT !.str = Release(s.str)], CloseSpan(r, path), NoError)
  ELSE IF ~s.str.needText THEN Outcome(s, r, NoError)
  ELSE Outcome([s EXCEPT !.str.text = @ + 1, !.str.heldEnd = e.end], r,
               IF e.end - s.str.offset > MaxBufferedBytes THEN SpanExceeded(s.str.offset) ELSE NoError)

(* onStringEnd. *)
EndString(s, path, e, r) ==
  LET span == e.end - s.str.offset
      held == IF s.str.needText THEN span ELSE s.str.held
  IN  Outcome([s EXCEPT !.str = NoString, !.peak = Max2(@, held)], CloseSpan(r, path),
              IF s.str.needText /\ span > MaxBufferedBytes THEN SpanExceeded(s.str.offset) ELSE NoError)

-----------------------------------------------------------------------------
(* TEEs. *)

RECURSIVE ReleaseSpans(_, _, _), Feed(_, _, _, _)

(* fold over the sub-spines, in order: the first error ends the event. *)
EachSub(subs, Step(_, _, _), r) ==
  LET Upto[i \in 0..Len(subs)] ==
        IF i = 0 THEN [subs |-> subs, r |-> r, err |-> NoError]
        ELSE LET before == Upto[i - 1]
                 now == Step(subs[i], i, before.r)
             IN  IF before.err # NoError THEN before
                 ELSE [subs |-> [before.subs EXCEPT ![i] = now.s], r |-> now.r, err |-> now.err]
  IN  Upto[Len(subs)]

ReleaseSpans(s, path, r) ==
  LET own == CloseSpan(r, path)
  IN  IF ~s.tee.open THEN own
      ELSE EachSub(s.tee.subs,
                   LAMBDA sub, i, q : Outcome(sub, ReleaseSpans(sub, Append(path, i), q), NoError), own).r

(* Mutant: the branches' peaks are taken for one region at a time. *)
PeakOfBranchesMax(subs) ==
  LET Upto[i \in 0..Len(subs)] == IF i = 0 THEN 0 ELSE Max2(Upto[i - 1], subs[i].peak)
  IN  Upto[Len(subs)]

(* The branches hold their regions at the same time. *)
PeakOfBranches(subs) ==
  LET Upto[i \in 0..Len(subs)] == IF i = 0 THEN 0 ELSE Upto[i - 1] + subs[i].peak
  IN  Upto[Len(subs)]

TeeComplete(tee) == tee.depth = 0 /\ ~tee.inString

(* finalizeTee; combining the verdicts is left out. *)
FinalizeTee(s, path, r) ==
  LET released == EachSub(s.tee.subs,
        LAMBDA sub, i, q : Outcome(sub, ReleaseSpans(sub, Append(path, i), q), NoError), r)
  IN  Outcome([s EXCEPT !.tee = NoTee, !.peak = Max2(@, PeakOfBranches(s.tee.subs))],
              released.r, NoError)

(* An event of the value of an open TEE. *)
TeeFeed(s, path, e, r) ==
  LET fed == EachSub(s.tee.subs, LAMBDA sub, i, q : Feed(sub, Append(path, i), e, q), r)
      tee == [s.tee EXCEPT !.subs = fed.subs,
                           !.depth = IF e.type \in Starts THEN @ + 1
                                     ELSE IF e.type \in Ends THEN @ - 1 ELSE @,
                           !.inString = IF e.type = "stringStart" THEN TRUE
                                        ELSE IF e.type = "stringEnd" THEN FALSE ELSE @]
      after == [s EXCEPT !.tee = tee]
  IN  IF fed.err # NoError THEN Outcome(after, fed.r, fed.err)
      ELSE IF TeeComplete(tee) THEN FinalizeTee(after, path, fed.r)
      ELSE Outcome(after, fed.r, NoError)

BeginTee(s, node) ==
  LET subs == [i \in DOMAIN schemas[node].branches |-> NewSpine(schemas[node].branches[i])]
  IN  [s EXCEPT !.tee = [open |-> TRUE, node |-> node, subs |-> subs, depth |-> 0, inString |-> FALSE]]

-----------------------------------------------------------------------------
(* What a value that starts needs held is opened before it takes the event. *)
StartValue(s, path, e, r) ==
  LET node == NodeForValue(s)
  IN  IF schemas[node].need = "tee" THEN Outcome(BeginTee(s, node), r, NoError)
      ELSE IF schemas[node].need = "buffer" /\ e.type \in Starts THEN BeginIsland(s, path, node, e, r)
      ELSE Outcome(s, r, NoError)

Holding(s) == s.tee.open \/ s.island.open

(* An event of a value the spine streams. *)
Stream(s, path, e, r) ==
  CASE e.type \in Starts -> Outcome([s EXCEPT !.frames = Append(@, NodeForValue(s))], r, NoError)
    [] e.type \in Ends -> Outcome([s EXCEPT !.frames = SubSeq(@, 1, Len(@) - 1)], r, NoError)
    [] e.type = "stringStart" -> BeginString(s, path, NodeForValue(s), e, r)
    [] e.type = "text" -> StringText(s, path, e, r)
    [] e.type = "stringEnd" -> EndString(s, path, e, r)
    [] OTHER -> Outcome(s, r, NoError)

(* One event: an open TEE or island takes it, else the spine itself. *)
Feed(s, path, e, r) ==
  LET now == IF Holding(s) \/ e.type \notin Starts \cup Scalars \cup {"stringStart"}
             THEN Outcome(s, r, NoError) ELSE StartValue(s, path, e, r)
  IN  IF now.s.tee.open THEN TeeFeed(now.s, path, e, now.r)
      ELSE IF now.s.island.open THEN ForwardIsland(now.s, path, e, now.r)
      ELSE Stream(now.s, path, e, now.r)
=============================================================================
