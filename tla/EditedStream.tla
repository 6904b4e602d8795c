---------------------------- MODULE EditedStream ----------------------------
(***************************************************************************)
(* What the streaming validator promises of its output and its result,     *)
(* stated against the input document and the answers of the hooks alone:   *)
(* none of these definitions looks at offsets the engine keeps, so chunk   *)
(* boundaries cannot be part of the answer.                                *)
(***************************************************************************)
EXTENDS StreamEngine

-----------------------------------------------------------------------------
(* The edited document, from the text alone.  A byte is quoted when an odd *)
(* number of quotes precedes it; only the other bytes are structure.       *)

Quoted(d, o) == Cardinality({p \in 1..o : d[p] = "Q"}) % 2 = 1
Bytes(d, classes) == {o \in 0..Len(d) - 1 : d[o + 1] \in classes /\ ~Quoted(d, o)}
DepthAt(d, o) == Cardinality({p \in Bytes(d, {"{", "["}) : p < o})
                   - Cardinality({p \in Bytes(d, {"}", "]"}) : p < o})
CloseQuote(d, o) == Min({p \in o + 1..Len(d) - 1 : d[p + 1] = "Q"} \cup {Len(d)})

(* A key is a string followed by a colon. *)
KeyStarts(d) ==
  {o \in Bytes(d, {"Q"}) :
     \E p \in Bytes(d, {":"}) : /\ CloseQuote(d, o) < p
                                /\ \A i \in CloseQuote(d, o) + 1..p - 1 : d[i + 1] = "w"}

(* Of the member whose key opens at k: the key's closing quote, the
   separators around the member and the brace of its object. *)
Shape(d) ==
  [k \in KeyStarts(d) |->
     [close |-> CloseQuote(d, k),
      prev |-> Max({o \in Bytes(d, {"{", ","}) : o < k}),
      next |-> Min({o \in Bytes(d, {"}", ","}) : o > k /\ DepthAt(d, o) = DepthAt(d, k)} \cup {Len(d)}),
      object |-> Max({o \in Bytes(d, {"{"}) : o < k /\ DepthAt(d, o) = DepthAt(d, k) - 1})]]

Shapes == [d \in Docs |-> Shape(d)]
Members == Shapes[doc]

Did(does) == {chosen[i].at : i \in {j \in DOMAIN chosen : chosen[j].does = does}}
Dropped(o) == \E k \in Did("drop") : Members[k].prev < o /\ o < Members[k].next
Renamed(o) == \E k \in Did("rename") : k <= o /\ o <= Members[k].close

(* A comma between members survives with the member after it, unless no
   member before it survives. *)
CommaSurvives(o) ==
  \A k \in DOMAIN Members : Members[k].prev = o /\ ByteAt(o) = "," =>
     /\ k \notin Did("drop")
     /\ \E j \in DOMAIN Members \ Did("drop") : j < k /\ Members[j].object = Members[k].object

Texts(o) ==
  IF Dropped(o) THEN <<>>
  ELSE (IF o \in Did("append") THEN <<"append">> ELSE <<>>)
         \o (IF o \in Did("rename") THEN <<"R">>
             ELSE IF Renamed(o) \/ ~CommaSurvives(o) THEN <<>> ELSE <<ByteAt(o)>>)

Edited(until) == FoldLeft(LAMBDA acc, o : acc \o [i \in DOMAIN Texts(o) |-> <<o, Texts(o)[i]>>],
                          <<>>, [i \in 1..until |-> i - 1])

Pushed == [i \in DOMAIN out |->
             <<out[i].at, IF out[i].text \in {"A", ",A"} THEN "append" ELSE out[i].text>>]

-----------------------------------------------------------------------------
(* A JSON text: one reader over the output's bytes with its open containers
   and what it expects next.  "R" is a whole key, "A" a whole member
   or element. *)

Read(r, c) ==
  LET object == r.open # <<>> /\ Last(r.open) = "{"
      separator == r.want \in {"separator", "number"} /\ r.open # <<>>
      value == r.want \in {"value", "element"}
      Want(want) == [r EXCEPT !.want = want]
      closed == [open |-> Front(r.open), want |-> "separator"]
  IN  CASE r.want = "text" -> IF c = "Q" THEN Want("separator") ELSE r
        [] r.want = "name" -> IF c = "Q" THEN Want("colon") ELSE r
        [] c = "w" /\ r.want \notin {"text", "name"} -> IF r.want = "number" THEN Want("separator") ELSE r
        [] c = "n" /\ (value \/ r.want = "number") -> Want("number")
        [] c = "t" /\ value -> Want("separator")
        [] c = "Q" /\ value -> Want("text")
        [] c = "{" /\ value -> [open |-> Append(r.open, c), want |-> "member"]
        [] c = "[" /\ value -> [open |-> Append(r.open, c), want |-> "element"]
        [] c = "Q" /\ r.want \in {"member", "key"} -> Want("name")
        [] c = "R" /\ r.want \in {"member", "key"} -> Want("colon")
        [] c = ":" /\ r.want = "colon" -> Want("value")
        [] c = "A" /\ r.want \in {"member", "element"} -> Want("separator")
        [] c = ",A" /\ separator -> Want("separator")
        [] c = "," /\ separator -> Want(IF object THEN "key" ELSE "value")
        [] c = "}" /\ (separator \/ r.want = "member") /\ object -> closed
        [] c = "]" /\ (separator \/ r.want = "element") /\ ~object -> closed
        [] OTHER -> Want("error")

IsJson(texts) ==
  LET r == FoldLeft(Read, [open |-> <<>>, want |-> "value"], texts)
  IN  r.open = <<>> /\ r.want \in {"separator", "number"}

-----------------------------------------------------------------------------
Active == ~sealed /\ ~finished /\ ~destroyed

(* Output is decided output.  At any moment before the stream fails, what was
   pushed is a prefix of the edited document, and a stream that ends cleanly
   pushed all of it: no byte of a dropped member, every other byte once and in
   order, one comma between the members that remain, however the input was
   cut into chunks and wherever a detach sealed validation. *)
PushedIsEdited ==
  (result = "pending" /\ (after \in {"budget", "refuse"} => Detach /\ after = "budget")) \/ pc = "done"
    => LET want == Edited(fed)
       IN  /\ Len(Pushed) <= Len(want)
           /\ Pushed = SubSeq(want, 1, Len(Pushed))
           /\ pc = "done" => Len(Pushed) = Len(want)

(* The edited document is JSON whenever the input is, also when its tail was
   copied raw after a detach. *)
OutputIsJson ==
  pc = "done" /\ fed = Len(doc) /\ IsJson(doc)
    => IsJson([i \in DOMAIN out |-> out[i].text])

(* Bytes of a member a hook dropped never reach the output while they are
   input the validator accepted, also when the stream fails or is refused. *)
DroppedStaysGone ==
  \A i \in DOMAIN out : out[i].at < total => ~Dropped(out[i].at)

(* Between calls an active stream retains only what no decision has reached:
   the prefix of one undecided member, of which whitespace, the colon and
   the comma stay within maxMemberPrefixBytes. *)
RetentionBounded ==
  pc = "idle" /\ Active =>
    /\ held = total - EditSafeLimit
    /\ held > 0 => Cardinality(Bytes(doc, {"w", ":", ","}) \cap (base..total - 1)) <= MaxPrefix

(* A stream that was destroyed or sealed keeps nothing of its input, also
   when the hook that destroyed it ran on inside the parser. *)
ReleasedInput ==
  pc = "idle" /\ (destroyed \/ sealed)
    => held = 0 /\ spine.edits = {} /\ spine.frames = <<>> /\ spine.discard = NoDiscard

(* The tokenizer's byte limit is armed exactly while the span it bounds is
   open: never left behind to refuse later input. *)
LimitMatchesSpan ==
  spine.thrown = "none" /\ ~spine.disposed =>
    /\ (spine.limit.kind = "prefix") = (MemberPrefixStart(spine) # Infinity)
    /\ (spine.limit.kind = "drop") = (DropOpen(spine) /\ MaxDrop # Infinity)

(* A valid verdict is about the whole input: every byte accepted, parsed and
   pushed or edited, no failure recorded; an invalid one has failures. *)
VerdictHonest ==
  /\ result = "valid" => pc = "done" /\ spine.violations = 0 /\ spine.tok.pos = fed /\ total = fed
  /\ result = "invalid" => spine.violations > 0

(* Without edit hooks the output is the input, byte for byte, whatever the
   verdict: all of it between calls, a prefix while a call pushes. *)
EchoIsVerbatim ==
  ~editsActive =>
    /\ out = SubSeq(Echo(0, fed), 1, Len(out))
    /\ pc # "flush" /\ ~destroyed => Len(out) = fed

(* Nothing is pushed once the stream is destroyed. *)
QuietOnceDestroyed == [][destroyed => out' = out]_vars

(* The result settles: the stream ends, fails or is destroyed, and each of
   them answers whoever awaits the result. *)
ResultSettles == <>(result # "pending")
=============================================================================
