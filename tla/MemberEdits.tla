----------------------------- MODULE MemberEdits -----------------------------
(***************************************************************************)
(* The spine validator's member editing (spine/spine.ts) driven by the     *)
(* tokenizer, with the byte limit it sets on it, for one JSON document.    *)
(*                                                                         *)
(* The spine runs inside one synchronous tokenizer.write call, so its      *)
(* state is one record s, the tokenizer's included, and each handler of a  *)
(* tokenizer event is an operator from that record to the next one.  What  *)
(* the schema and the user code answer during the event is the record u:   *)
(*                                                                         *)
(*   decision  what the member hooks resolve to                            *)
(*   opaque    the value is checked by composition or buffering            *)
(*   fails     a keyword the event checks fails                            *)
(*   scoped    a member hook's scope matches the object that opens         *)
(*   appends   a hook appends to the object or array that closes           *)
(*   destroys  a hook or a listener destroys the stream                    *)
(*                                                                         *)
(* A thrown error is the field thrown; the later parts of a handler do     *)
(* nothing once it is set.                                                 *)
(***************************************************************************)
EXTENDS JsonTokenizer, FiniteSets

CONSTANTS
  Names,      \* the keys a rename may choose, sequences of bytes
  Infinity,   \* Number.POSITIVE_INFINITY: above every offset
  MaxErrors,  \* options.maxErrors
  MaxPrefix,  \* options.maxMemberPrefixBytes
  MaxDrop,    \* options.maxMemberDropBytes, Infinity when unset
  Detach      \* options.policy = "detach"

ASSUME MemberEditsAssumption ==
  /\ MaxErrors \in Nat \ {0}
  /\ MaxPrefix \in Nat \ {0}
  /\ MaxDrop \in Nat \ {0}
  /\ Infinity \in Nat \ {0}
  /\ Detach \in BOOLEAN
  /\ \A name \in Names : name \in Seq(Byte)

(* What the member hooks of one member resolve to. *)
Decisions == [kind : {"keep", "drop", "conflict"}, key : {<<>>}] \cup [kind : {"rename"}, key : Names]
Keep == [kind |-> "keep", key |-> <<>>]

(* An edit of input [start, end): bytes "none" deletes, others replace or insert. *)
Edit(start, end, bytes) == [start |-> start, end |-> end, bytes |-> bytes]

(* The dropped member: its value ended at valueEnd, or is open with nest
   containers of its own around the current byte. *)
NoDiscard == [start |-> Infinity, depth |-> 0, keyStart |-> 0, valueEnd |-> Infinity, nest |-> 0]

NoLimit == [kind |-> "none", at |-> Infinity]

SpineInit ==
  [tok |-> TokenizerInit, frames |-> <<>>, opaque |-> 0, discard |-> NoDiscard,
   limit |-> NoLimit, edits |-> {}, violations |-> 0, deferred |-> FALSE,
   thrown |-> "none", disposed |-> FALSE]

-----------------------------------------------------------------------------
(* The innermost frame, and the two spans an edit may have in flight.      *)

Top(s) == s.frames[Len(s.frames)]
InObject(s) == s.frames # <<>> /\ Top(s).kind = "object"
SetTop(s, frame) ==
  IF s.frames = <<>> THEN s ELSE [s EXCEPT !.frames[Len(s.frames)] = frame]
PopFrame(s) == [s EXCEPT !.frames = SubSeq(@, 1, Len(@) - 1)]

MemberPrefixStart(s) == IF InObject(s) THEN Top(s).prefix ELSE Infinity
Discards(s) == s.discard.start # Infinity
InFlight(s) == MemberPrefixStart(s) # Infinity \/ Discards(s)

Threw(s) == s.thrown # "none"
Throw(s, what) == [s EXCEPT !.thrown = what]
AddEdit(s, e) == [s EXCEPT !.edits = @ \cup {e}]
Limit(s, kind, at) == [s EXCEPT !.limit = [kind |-> kind, at |-> at]]
ClearLimit(s) == [s EXCEPT !.limit = NoLimit]

(* SpineValidator.dispose with JsonTokenizer.dispose: what a destroyed or
   sealed stream keeps of its parse.  The pending edits are the engine's. *)
Dispose(s) ==
  [s EXCEPT !.frames = <<>>, !.opaque = 0, !.discard = NoDiscard, !.disposed = TRUE,
            !.tok.stack = <<>>, !.tok.buf = <<>>]

(* User code ran: the engine's _destroy may have disposed the spine, and
   dropped the pending edits, under the handler that called it. *)
UserCode(s, u) == IF u.destroys THEN [Dispose(s) EXCEPT !.edits = {}] ELSE s

(* A listener or an observer is told of the event. *)
Told(s, u) == IF Threw(s) THEN s ELSE UserCode(s, u)

(* Mutant: the budget is not deferred while an edit is in flight. *)
RecordAtOnce(s, u) ==
  IF ~u.fails \/ s.deferred \/ Threw(s) THEN s
  ELSE LET t == UserCode([s EXCEPT !.violations = @ + 1], u)
       IN  IF t.violations < MaxErrors THEN t ELSE Throw(t, "budget")

(* SpineValidator.record: reaching the budget throws, or is deferred while a
   member edit is in flight under detach. *)
Record(s, u) ==
  IF ~u.fails \/ s.deferred \/ Threw(s) THEN s
  ELSE LET t == UserCode([s EXCEPT !.violations = @ + 1], u)
       IN  IF t.violations < MaxErrors THEN t
           ELSE IF Detach /\ InFlight(t) THEN [t EXCEPT !.deferred = TRUE]
           ELSE Throw(t, "budget")

SettleBudget(s) ==
  IF s.deferred /\ ~InFlight(s) /\ ~Threw(s) THEN Throw(s, "budget") ELSE s

-----------------------------------------------------------------------------
(* A dropped value: its containers are counted and its span is bounded.    *)

DropOpen(s) == Discards(s) /\ s.discard.valueEnd = Infinity

NoteDropOpen(s) == IF DropOpen(s) THEN [s EXCEPT !.discard.nest = @ + 1] ELSE s

EndDroppedValue(s, end) ==
  LET t == ClearLimit([s EXCEPT !.discard.valueEnd = end])
  IN  IF end - s.discard.keyStart > MaxDrop THEN Throw(t, "fatal") ELSE t

NoteDropClose(s, end) ==
  IF ~DropOpen(s) THEN s
  ELSE LET t == [s EXCEPT !.discard.nest = @ - 1]
       IN  IF t.discard.nest = 0 THEN EndDroppedValue(t, end) ELSE t

(* A scalar is reported whole, with its end; a container is not. *)
Drop(s, start, top, value) ==
  LET t == [s EXCEPT !.discard = [start |-> start, depth |-> Len(s.frames),
                                  keyStart |-> top.keyStart, valueEnd |-> Infinity,
                                  nest |-> IF value.container THEN 1 ELSE 0]]
      at == top.keyStart + MaxDrop
  IN  IF value.end # Infinity THEN EndDroppedValue(t, value.end)
      ELSE IF MaxDrop = Infinity THEN t
      ELSE IF at <= value.start THEN Throw(t, "fatal")
      ELSE Limit(t, "drop", at)

EndDiscard(s, o) ==
  AddEdit([s EXCEPT !.discard = NoDiscard], Edit(s.discard.start, o, "none"))

-----------------------------------------------------------------------------
(* SpineValidator.decideMember: the hooks decide the member whose value    *)
(* starts.  A rename onto a name the object already outputs, or a kept     *)
(* name an earlier rename took, is fatal.                                  *)

Value(start, end, container) == [start |-> start, end |-> end, container |-> container]

Editable(s) == ~Discards(s) /\ InObject(s) /\ Top(s).hooks

OutputKeys(top) == top.kept \cup top.renamed

OutputName(top, d) == IF d.kind = "rename" THEN d.key ELSE top.key

Collides(top, d) ==
  \/ OutputName(top, d) \in top.renamed
  \/ d.kind = "rename" /\ OutputName(top, d) \in top.kept

RecordOutputKey(top, d) ==
  IF d.kind = "rename" THEN [top EXCEPT !.renamed = @ \cup {d.key}]
                       ELSE [top EXCEPT !.kept = @ \cup {top.key}]

(* Mutant: the comma of the first member kept is left in place. *)
KeepMemberComma(s, start, top, d) ==
  LET named == SetTop(s, RecordOutputKey(top, d))
  IN  IF Collides(top, d) THEN Throw(s, "fatal")
      ELSE SettleBudget(IF d.kind = "rename"
                          THEN AddEdit(named, Edit(top.keyStart, top.keyEnd, "R")) ELSE named)

(* A kept member's comma survives only when an earlier member was kept. *)
KeepMember(s, start, top, d) ==
  LET first == top.comma /\ OutputKeys(top) = {}
      t == IF first THEN AddEdit(s, Edit(start, start + 1, "none")) ELSE s
      named == SetTop(t, RecordOutputKey(top, d))
  IN  IF Collides(top, d) THEN Throw(t, "fatal")
      ELSE SettleBudget(IF d.kind = "rename"
                          THEN AddEdit(named, Edit(top.keyStart, top.keyEnd, "R")) ELSE named)

DecideMember(s, value, u) ==
  IF Threw(s) \/ ~Editable(s) THEN s
  ELSE LET top == [Top(s) EXCEPT !.prefix = Infinity]
           asked == UserCode(ClearLimit(SetTop(s, top)), u)
       IN  CASE u.decision.kind = "conflict" -> Throw(asked, "fatal")
             [] u.decision.kind = "drop" -> Drop(asked, Top(s).prefix, top, value)
             [] u.decision.kind \in {"keep", "rename"} ->
                  KeepMember(asked, Top(s).prefix, top, u.decision)

-----------------------------------------------------------------------------
(* The handlers of the tokenizer's events.                                 *)

Frame(kind, o, hooks, inDrop) ==
  [kind |-> kind, hooks |-> hooks, prefix |-> IF hooks THEN o + 1 ELSE Infinity,
   comma |-> FALSE, keyStart |-> 0, keyEnd |-> 0, key |-> <<>>, count |-> 0,
   kept |-> {}, renamed |-> {}, edited |-> hooks \/ inDrop]

(* onStartObject and onStartArray. *)
OnStart(s, kind, u) ==
  LET o == s.tok.pos
      counted == NoteDropOpen(s)
      checked == Record(DecideMember(counted, Value(o, Infinity, TRUE), u), u)
      hooks == kind = "object" /\ u.scoped /\ ~Discards(checked)
      framed == [checked EXCEPT !.frames = Append(@, Frame(kind, o, hooks, Discards(checked)))]
  IN  IF s.opaque > 0 THEN [counted EXCEPT !.opaque = @ + 1]
      ELSE IF Threw(checked) THEN checked
      ELSE IF u.opaque THEN [checked EXCEPT !.opaque = 1]
      ELSE IF hooks THEN Limit(framed, "prefix", o + 1 + MaxPrefix)
      ELSE framed

(* A container of the value checked by composition or buffering closes. *)
OnEndOpaque(s, u) ==
  IF s.opaque > 1 THEN [s EXCEPT !.opaque = @ - 1] ELSE Record([s EXCEPT !.opaque = 0], u)

(* Mutant: an empty object's prefix limit stays armed behind it. *)
CloseFrameArmed(s, o) ==
  IF Discards(s) /\ s.discard.depth = Len(s.frames) THEN EndDiscard(PopFrame(s), o)
  ELSE PopFrame(s)

(* The object's frame goes with what it held: the discard of its last
   member ends, or the prefix held for a first member ends unused. *)
CloseFrame(s, o) ==
  IF Discards(s) /\ s.discard.depth = Len(s.frames) THEN EndDiscard(PopFrame(s), o)
  ELSE IF Top(s).prefix # Infinity THEN ClearLimit(PopFrame(s))
  ELSE PopFrame(s)

(* The engine's handleScopeClose: a hook may append, with a comma when the
   container outputs something already. *)
ScopeClose(s, outputs, o, u) ==
  IF Threw(s) THEN s
  ELSE IF u.appends THEN AddEdit(Told(s, u), Edit(o, o, IF outputs THEN ",A" ELSE "A"))
  ELSE Told(s, u)

OutputsMembers(top) == IF top.edited THEN OutputKeys(top) # {} ELSE top.count > 0

OnEndObject(s, u) ==
  LET o == s.tok.pos
      closed == NoteDropClose(s, o + 1)
  IN  IF Threw(closed) THEN closed
      ELSE IF s.opaque > 0 THEN OnEndOpaque(closed, u)
      ELSE SettleBudget(ScopeClose(Record(CloseFrame(closed, o), u), OutputsMembers(Top(s)), o, u))

(* Elements are never dropped: an array outputs what it has. *)
OutputsElements(s) == s.tok.state # "valueOrEndArray"

OnEndArray(s, u) ==
  LET o == s.tok.pos
      closed == NoteDropClose(s, o + 1)
  IN  IF Threw(closed) THEN closed
      ELSE IF s.opaque > 0 THEN OnEndOpaque(closed, u)
      ELSE ScopeClose(Record(PopFrame(closed), u), OutputsElements(s), o, u)

(* Mutant: the key starts the prefix allowance afresh. *)
OnKeyAfresh(s, key, start, u) ==
  LET end == s.tok.pos + 1
      top == [Top(s) EXCEPT !.keyStart = start, !.keyEnd = end]
      told == SetTop(UserCode(s, u), top)
      held == IF top.prefix = Infinity THEN told ELSE Limit(told, "prefix", end + MaxPrefix)
      checked == Record(held, u)
  IN  IF s.opaque > 0 THEN s
      ELSE IF Threw(checked) THEN checked
      ELSE SetTop(checked, [top EXCEPT !.key = key, !.count = @ + 1])

(* onKey: the prefix allowance resumes after the key. *)
OnKey(s, key, start, u) ==
  LET end == s.tok.pos + 1
      top == [Top(s) EXCEPT !.keyStart = start, !.keyEnd = end]
      told == SetTop(UserCode(s, u), top)
      held == IF top.prefix = Infinity THEN told
              ELSE Limit(told, "prefix", end + MaxPrefix - (start - top.prefix))
      checked == Record(held, u)
  IN  IF s.opaque > 0 THEN s
      ELSE IF Threw(checked) THEN checked
      ELSE SetTop(checked, [top EXCEPT !.key = key, !.count = @ + 1])

(* A comma between members: it ends the discard of this object's member
   and starts the next member's held prefix. *)
OnMemberComma(s) ==
  LET o == s.tok.pos
      ended == IF Discards(s) THEN EndDiscard(s, o) ELSE s
      held == SetTop(ended, [Top(s) EXCEPT !.prefix = o, !.comma = TRUE])
  IN  IF s.opaque > 0 \/ (Discards(s) /\ s.discard.depth # Len(s.frames)) THEN s
      ELSE IF Top(s).hooks THEN Limit(held, "prefix", o + MaxPrefix)
      ELSE ended

OnStringStart(s, u) ==
  IF s.opaque > 0 THEN s
  ELSE Record(DecideMember(s, Value(s.tok.pos, Infinity, FALSE), u), u)

(* onStringChunk fails maxLength, onStringEnd the keywords that need the
   whole string. *)
OnStringChunk(s, u) == IF s.opaque > 0 THEN s ELSE Record(s, u)

OnStringEnd(s, u) ==
  LET t == IF DropOpen(s) /\ s.discard.nest = 0 THEN EndDroppedValue(s, s.tok.pos + 1) ELSE s
  IN  IF s.opaque > 0 THEN t ELSE Record(Told(t, u), u)

(* onNumber, onBoolean and onNull: a scalar reported whole. *)
OnScalar(s, start, end, u) ==
  IF s.opaque > 0 THEN s ELSE Record(Told(DecideMember(s, Value(start, end, FALSE), u), u), u)

Handle(s, event, u) ==
  CASE event.type = "startObject" -> OnStart(s, "object", u)
    [] event.type = "startArray"  -> OnStart(s, "array", u)
    [] event.type = "endObject"   -> OnEndObject(s, u)
    [] event.type = "endArray"    -> OnEndArray(s, u)
    [] event.type = "key"         -> OnKey(s, event.key, event.start, u)
    [] event.type = "memberComma" -> OnMemberComma(s)
    [] event.type = "stringStart" -> OnStringStart(s, u)
    [] event.type = "text"        -> OnStringChunk(s, u)
    [] event.type = "stringEnd"   -> OnStringEnd(s, u)
    [] event.type = "number"      -> OnScalar(s, event.start, s.tok.pos, u)
    [] event.type = "literal"     -> OnScalar(s, event.start, s.tok.pos + 1, u)
    [] event.type = "error"       -> Throw(s, "fatal")
    [] event.type = "none"        -> s

-----------------------------------------------------------------------------
(* JsonTokenizer.write, one turn of its loop.                              *)

(* Bytes the active limit counts: all of a dropped value's, else the
   whitespace and the colon around a key. *)
LimitCounts(s, b) ==
  \/ s.limit.kind = "drop"
  \/ s.tok.state = "colon" /\ b \in {"w", ":"}
  \/ s.tok.state \in {"key", "keyOrEndObject", "value"} /\ b = "w"

AtLimit(s, b) == s.tok.pos >= s.limit.at /\ LimitCounts(s, b)

(* A handler that throws leaves the tokenizer where it was; one that
   disposed it ends the loop. *)
Deliver(s, result, u) ==
  LET t == Handle(s, result.event, u)
  IN  IF Threw(t) \/ t.disposed THEN t ELSE [t EXCEPT !.tok = result.t]

(* The limit refuses the byte before it is parsed. *)
Step(s, b, u) ==
  IF AtLimit(s, b) THEN Throw(s, "fatal") ELSE Deliver(s, Scan(s.tok, b), u)

(* JsonTokenizer.end: a number in progress ends at the end of input. *)
EndStep(s, u) == Deliver(s, FinishNumber(s.tok), u)
=============================================================================
