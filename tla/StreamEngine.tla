---------------------------- MODULE StreamEngine ----------------------------
(***************************************************************************)
(* The streaming validator's driver (engine/stream-validator.ts): a        *)
(* Transform that echoes its input, or, with edit hooks, holds it until    *)
(* the spine resolves every edit that could touch it, and settles one      *)
(* verdict.  MemberEdits gives the spine; a write is one Parse step per    *)
(* byte, and a push is one step, because user code (a hook, a violation    *)
(* or data listener) may destroy the stream inside each of them.           *)
(*                                                                         *)
(* pc is where the driver stands: "idle" between calls, "write" inside     *)
(* tokenizer.write, "flush" pushing the queue before the continuation in   *)
(* "after", "end" inside tokenizer.end, "failed" once an error reached the *)
(* callback (Node destroys the stream next) and "done" after _flush.       *)
(***************************************************************************)
EXTENDS MemberEdits, FiniteSetsExt, SequencesExt

CONSTANTS
  Docs,        \* the input documents, sequences of byte classes
  ChunkSizes,  \* the lengths of the chunks a source may write
  EditModes,   \* whether a scope or member hook is registered, a set of BOOLEANs
  MaxTotal     \* options.maxTotalBytes, Infinity when unset

ASSUME EngineAssumption ==
  /\ \A d \in Docs : d \in Seq(Byte) /\ Len(d) < Infinity
  /\ \A size \in ChunkSizes : size \in Nat
  /\ EditModes \subseteq BOOLEAN

VARIABLES
  doc,       \* the input
  editsActive,  \* fixed
  fed,       \* bytes of it written to the stream so far
  spine,     \* the tokenizer and spine, with the pending edits
  total,     \* totalBytes: bytes accepted for validation
  base,      \* heldBase
  held,      \* heldLength
  out,       \* bytes pushed: [at |-> input offset, text |-> class]
  queue,     \* what the current flush still has to push
  pc, after,
  sealed, finished, destroyed,
  result,    \* the result promise
  chosen     \* history: what each hook did, and where

input == <<doc, editsActive, fed>>
echo == <<total, base, held, out, queue>>
life == <<pc, after, sealed, finished, destroyed, result>>
vars == <<input, spine, echo, life, chosen>>

ByteAt(o) == doc[o + 1]
Echo(from, until) == [i \in 1..(until - from) |-> [at |-> from + i - 1, text |-> ByteAt(from + i - 1)]]

-----------------------------------------------------------------------------
(* flushEdits: the pushes that emit held bytes up to limit with the ready  *)
(* edits spliced in.  An edit that starts before the cursor was overlapped *)
(* by a wider one: it only moves the cursor.                               *)

Before(a, b) == a.start < b.start \/ (a.start = b.start /\ a.end > b.end)

Splice(acc, e) ==
  IF e.start < acc.cur THEN [acc EXCEPT !.cur = IF e.end > @ THEN e.end ELSE @]
  ELSE [cur |-> e.end,
        runs |-> acc.runs
                   \o (IF e.start > acc.cur THEN <<Echo(acc.cur, e.start)>> ELSE <<>>)
                   \o (IF e.bytes # "none" THEN <<<<[at |-> e.start, text |-> e.bytes]>>>> ELSE <<>>)]

Ready(edits, limit) == {e \in edits : e.end <= limit}

(* The edits in their order; no two pending edits tie in it. *)
InOrder(edits) ==
  [n \in 1..Cardinality(edits) |->
     CHOOSE e \in edits : Cardinality({f \in edits : Before(f, e)}) = n - 1]

FlushRuns(edits, from, limit) ==
  IF limit <= from THEN <<>>
  ELSE LET ready == InOrder(Ready(edits, limit))
           spliced == FoldLeft(Splice, [cur |-> from, runs |-> <<>>], ready)
       IN  spliced.runs \o (IF spliced.cur < limit THEN <<Echo(spliced.cur, limit)>> ELSE <<>>)

EditSafeLimit == IF MemberPrefixStart(spine) < total THEN MemberPrefixStart(spine) ELSE total

(* Mutant: an open discard is not deleted when the hold is flushed. *)
WithoutDiscard(edits, limit) == edits

(* flushResolved: an open discard is deleted up to the limit first. *)
WithDiscard(edits, limit) ==
  IF spine.discard.start < limit THEN edits \cup {Edit(spine.discard.start, limit, "none")}
                                 ELSE edits

ResolvedRuns == FlushRuns(WithDiscard(spine.edits, EditSafeLimit), base, EditSafeLimit)

FlushedTo(limit) == IF limit > base THEN limit ELSE base

(* flushHeldVerbatim: the resolved edits, then the rest of the hold as it is. *)
VerbatimRuns ==
  LET limit == FlushedTo(EditSafeLimit)
  IN  ResolvedRuns \o (IF base + held > limit THEN <<Echo(limit, base + held)>> ELSE <<>>)

(* The hold after flushing up to limit; every edit beyond it stays pending. *)
Commit(limit) ==
  /\ base' = FlushedTo(limit)
  /\ held' = held - (FlushedTo(limit) - base)
  /\ spine' = [spine EXCEPT !.edits = {e \in @ : e.end > limit}]

CommitAll ==
  /\ base' = base + held
  /\ held' = 0
  /\ spine' = [spine EXCEPT !.edits = {}]

-----------------------------------------------------------------------------
Init ==
  /\ doc \in Docs /\ editsActive \in EditModes
  /\ fed = 0
  /\ spine = SpineInit
  /\ total = 0 /\ base = 0 /\ held = 0
  /\ out = <<>> /\ queue = <<>>
  /\ pc = "idle" /\ after = "none"
  /\ sealed = FALSE /\ finished = FALSE /\ destroyed = FALSE
  /\ result = "pending"
  /\ chosen = <<>>

Settle(outcome) == result' = IF result = "pending" THEN outcome ELSE result

(* Mutant of DestroyNow: nobody is told of the destruction. *)
DestroySilently ==
  /\ destroyed' = TRUE
  /\ finished' = TRUE
  /\ spine' = [Dispose(spine) EXCEPT !.edits = {}]
  /\ held' = 0
  /\ UNCHANGED result

(* _destroy with releaseInput: synchronous, wherever the driver stands. *)
Released == [Dispose(spine) EXCEPT !.edits = {}]

DestroyNow ==
  /\ destroyed' = TRUE
  /\ finished' = TRUE
  /\ IF finished THEN UNCHANGED result ELSE Settle("rejected")
  /\ spine' = Released
  /\ held' = 0

(* _transform, up to tokenizer.write. *)
Passthrough(n) ==
  /\ sealed \/ finished
  /\ out' = out \o Echo(fed, fed + n)
  /\ fed' = fed + n
  /\ UNCHANGED <<doc, editsActive, spine, total, base, held, queue, life, chosen>>

Oversize(n) == total + n > MaxTotal

(* Mutant: the chunk that is refused is lost. *)
RefuseUnechoed(n) ==
  /\ ~sealed /\ ~finished /\ Oversize(n)
  /\ fed' = fed + n
  /\ queue' = IF editsActive THEN VerbatimRuns ELSE <<>>
  /\ pc' = "flush" /\ after' = "refuse"
  /\ UNCHANGED <<doc, editsActive, spine, total, base, held, out,
                 sealed, finished, destroyed, result, chosen>>

(* Refused: the hold is flushed as it is, then the chunk, then the error. *)
Refuse(n) ==
  /\ ~sealed /\ ~finished /\ Oversize(n)
  /\ fed' = fed + n
  /\ queue' = (IF editsActive THEN VerbatimRuns ELSE <<>>) \o <<Echo(fed, fed + n)>>
  /\ pc' = "flush" /\ after' = "refuse"
  /\ UNCHANGED <<doc, editsActive, spine, total, base, held, out,
                 sealed, finished, destroyed, result, chosen>>

HoldChunk(n) ==
  /\ editsActive /\ ~sealed /\ ~finished /\ ~Oversize(n)
  /\ fed' = fed + n /\ total' = total + n
  /\ base' = IF held = 0 THEN total ELSE base
  /\ held' = held + n
  /\ pc' = "write"
  /\ UNCHANGED <<doc, editsActive, spine, out, queue, after, sealed, finished, destroyed, result, chosen>>

EchoChunk(n) ==
  /\ ~editsActive /\ ~sealed /\ ~finished /\ ~Oversize(n)
  /\ fed' = fed + n /\ total' = total + n
  /\ queue' = <<Echo(fed, fed + n)>>
  /\ pc' = "flush" /\ after' = "write"
  /\ UNCHANGED <<doc, editsActive, spine, base, held, out, sealed, finished, destroyed, result, chosen>>

Transform(size) ==
  LET n == Min({size, Len(doc) - fed}) IN
  /\ pc = "idle" /\ ~destroyed /\ n > 0
  /\ Passthrough(n) \/ Refuse(n) \/ HoldChunk(n) \/ EchoChunk(n)

-----------------------------------------------------------------------------
(* One turn of tokenizer.write.  What user code and keywords may answer is *)
(* enumerated only where the byte's event asks them.                       *)

When(condition) == IF condition THEN BOOLEAN ELSE {FALSE}

ValueStarts == {"startObject", "startArray", "stringStart", "number", "literal"}

Deciding(event) ==
  event.type \in ValueStarts /\ editsActive /\ spine.opaque = 0 /\ Editable(spine)

Answers(event) ==
  [decision : IF Deciding(event) THEN Decisions ELSE {Keep},
   opaque   : When(event.type \in {"startObject", "startArray"}),
   fails    : When(event.type \notin {"none", "memberComma", "error"}),
   scoped   : When(event.type = "startObject" /\ editsActive),
   appends  : When(event.type \in {"endObject", "endArray"} /\ editsActive),
   destroys : When(event.type \notin {"none", "memberComma", "error"})]

(* The history of what the hooks answered. *)
Remember(deciding, u) ==
  chosen' = chosen
        \o (IF deciding /\ u.decision # Keep THEN <<[at |-> Top(spine).keyStart, does |-> u.decision.kind]>> ELSE <<>>)
        \o (IF \E e \in spine'.edits \ spine.edits : e.bytes \in {"A", ",A"}
              THEN <<[at |-> spine.tok.pos, does |-> "append"]>> ELSE <<>>)

(* User code inside the event may have destroyed the stream: the driver's
   own state was released under it. *)
Unwind ==
  /\ destroyed' = spine'.disposed
  /\ IF destroyed' THEN finished' = TRUE /\ Settle("rejected") /\ held' = 0
                   ELSE UNCHANGED <<finished, result, held>>

Parsing == pc = "write" /\ spine.thrown = "none" /\ ~spine.disposed

Parse ==
  /\ Parsing /\ spine.tok.pos < total
  /\ LET b == ByteAt(spine.tok.pos)
         event == Scan(spine.tok, b).event
     IN  \E u \in Answers(event) :
           /\ spine' = Step(spine, b, u)
           /\ Remember(Deciding(event) /\ ~AtLimit(spine, b), u)
  /\ Unwind
  /\ UNCHANGED <<input, total, base, out, queue, pc, after, sealed>>

-----------------------------------------------------------------------------
(* applyBudget, and the error a callback is given: Node destroys next.     *)

Terminate(s) ==
  /\ finished' = TRUE
  /\ Settle("invalid")
  /\ pc' = "failed"
  /\ spine' = s
  /\ UNCHANGED sealed

Seal(s) ==
  /\ sealed' = TRUE
  /\ spine' = Dispose(s)
  /\ pc' = "idle"
  /\ UNCHANGED <<finished, result>>

ApplyBudget(s) == IF Detach THEN Seal(s) ELSE Terminate(s)

Fail ==
  /\ finished' = TRUE
  /\ Settle("rejected")
  /\ pc' = "failed"

(* Mutant: what the spine did after the hook destroyed it is kept. *)
WriteDestroyedKept ==
  /\ pc = "write" /\ destroyed
  /\ pc' = "idle"
  /\ UNCHANGED <<input, total, base, held, spine, out, queue, after, sealed, finished, destroyed, result, chosen>>

(* The rest of _transform once tokenizer.write returned or threw. *)
WriteDestroyed ==
  /\ pc = "write" /\ destroyed
  /\ spine' = Released /\ held' = 0
  /\ pc' = "idle"
  /\ UNCHANGED <<input, total, base, out, queue, after, sealed, finished, destroyed, result, chosen>>

WriteReturned ==
  /\ Parsing /\ spine.tok.pos = total
  /\ IF editsActive
     THEN queue' = ResolvedRuns /\ pc' = "flush" /\ after' = "hold"
     ELSE pc' = "idle" /\ UNCHANGED <<queue, after>>
  /\ UNCHANGED <<input, spine, total, base, held, out, sealed, finished, destroyed, result, chosen>>

WriteBudget ==
  /\ pc = "write" /\ ~destroyed /\ spine.thrown = "budget"
  /\ IF editsActive
     THEN /\ queue' = VerbatimRuns /\ pc' = "flush" /\ after' = "budget"
          /\ UNCHANGED <<spine, sealed, finished, result>>
     ELSE ApplyBudget(spine) /\ UNCHANGED <<queue, after>>
  /\ UNCHANGED <<input, total, base, held, out, destroyed, chosen>>

ParseFatal ==
  /\ pc \in {"write", "end"} /\ ~destroyed /\ spine.thrown = "fatal"
  /\ Fail
  /\ UNCHANGED <<input, spine, echo, after, sealed, destroyed, chosen>>

-----------------------------------------------------------------------------
(* Mutant: the queue is pushed to its end though a listener destroyed the
   stream. *)
PushOn ==
  /\ pc = "flush" /\ queue # <<>>
  /\ out' = out \o Head(queue)
  /\ queue' = Tail(queue)
  /\ \/ UNCHANGED <<spine, held, life>>
     \/ DestroyNow /\ UNCHANGED <<pc, after, sealed>>
  /\ UNCHANGED <<input, total, base, chosen>>

(* A push, whose data listener may destroy the stream, and what follows    *)
(* the flush.                                                              *)

Push ==
  /\ pc = "flush" /\ queue # <<>>
  /\ out' = out \o Head(queue)
  /\ \/ /\ queue' = Tail(queue)
        /\ UNCHANGED <<spine, held, life>>
     \/ /\ DestroyNow
        /\ queue' = <<>>
        /\ pc' = "idle"
        /\ UNCHANGED <<after, sealed>>
  /\ UNCHANGED <<input, total, base, chosen>>

(* Mutant: failures within the budget leave the verdict valid. *)
VerdictInBudget(s) ==
  LET valid == s.violations < MaxErrors
  IN  /\ finished' = TRUE
      /\ Settle(IF valid THEN "valid" ELSE "invalid")
      /\ pc' = IF ~Detach /\ ~valid THEN "failed" ELSE "done"
      /\ spine' = s
      /\ UNCHANGED sealed

Verdict(s) ==
  LET valid == s.violations = 0
  IN  /\ finished' = TRUE
      /\ Settle(IF valid THEN "valid" ELSE "invalid")
      /\ pc' = IF ~Detach /\ ~valid THEN "failed" ELSE "done"
      /\ spine' = s
      /\ UNCHANGED sealed

NoEdits == [spine EXCEPT !.edits = {}]

Flushed ==
  /\ pc = "flush" /\ queue = <<>> /\ ~destroyed
  /\ CASE after = "hold" -> Commit(EditSafeLimit) /\ pc' = "idle" /\ UNCHANGED <<sealed, finished, result>>
       [] after = "write" -> pc' = "write" /\ UNCHANGED <<spine, base, held, sealed, finished, result>>
       [] after = "budget" -> base' = base + held /\ held' = 0 /\ ApplyBudget(NoEdits)
       [] after = "refuse" -> CommitAll /\ Fail /\ UNCHANGED sealed
       [] after = "close" -> base' = total /\ held' = 0 /\ Verdict(NoEdits)
  /\ after' = "none"
  /\ UNCHANGED <<input, total, out, queue, destroyed, chosen>>

-----------------------------------------------------------------------------
(* _flush: end of input.                                                   *)

End ==
  /\ pc = "idle" /\ ~destroyed
  /\ IF sealed THEN Verdict(spine) ELSE pc' = "end" /\ UNCHANGED <<spine, sealed, finished, result>>
  /\ UNCHANGED <<input, echo, after, destroyed, chosen>>

Ending == pc = "end" /\ spine.thrown = "none" /\ ~spine.disposed

(* tokenizer.end: a number in progress ends as before a delimiter, then the
   text must be one whole value. *)
EndNumber ==
  /\ Ending /\ spine.tok.state = "number"
  /\ LET event == FinishNumber(spine.tok).event
     IN  \E u \in Answers(event) :
           /\ spine' = EndStep(spine, u)
           /\ Remember(Deciding(event), u)
  /\ Unwind
  /\ UNCHANGED <<input, total, base, out, queue, pc, after, sealed>>

EndSyntax ==
  /\ Ending /\ spine.tok.state # "number"
  /\ IF ~EndsCleanly(spine.tok)
     THEN /\ spine' = Throw(spine, "fatal")
          /\ UNCHANGED <<queue, pc, after, sealed, finished, result>>
     ELSE IF editsActive
     THEN /\ queue' = FlushRuns(spine.edits, base, total)
          /\ pc' = "flush" /\ after' = "close"
          /\ UNCHANGED <<spine, sealed, finished, result>>
     ELSE Verdict(spine) /\ UNCHANGED <<queue, after>>
  /\ UNCHANGED <<input, total, base, held, out, destroyed, chosen>>

EndBudget ==
  /\ pc = "end" /\ ~destroyed /\ spine.thrown = "budget"
  /\ IF Detach /\ editsActive
     THEN /\ queue' = VerbatimRuns /\ pc' = "flush" /\ after' = "close"
          /\ UNCHANGED <<spine, sealed, finished, result>>
     ELSE Verdict(spine) /\ UNCHANGED <<queue, after>>
  /\ UNCHANGED <<input, total, base, held, out, destroyed, chosen>>

EndDestroyed ==
  /\ pc = "end" /\ destroyed
  /\ spine' = Released /\ held' = 0
  /\ pc' = "idle"
  /\ UNCHANGED <<input, total, base, out, queue, after, sealed, finished, destroyed, result, chosen>>

(* The application destroys an idle stream, or Node one whose callback was
   given an error. *)
Destroy ==
  /\ pc \in {"idle", "failed", "done"} /\ ~destroyed
  /\ DestroyNow
  /\ UNCHANGED <<input, total, base, out, queue, pc, after, sealed, chosen>>

-----------------------------------------------------------------------------
(* What runs on its own once a call is under way. *)
Engine ==
  \/ Parse \/ WriteDestroyed \/ WriteReturned \/ WriteBudget \/ ParseFatal
  \/ Push \/ Flushed
  \/ EndNumber \/ EndSyntax \/ EndBudget \/ EndDestroyed

(* The source writes the next chunk or ends the input. *)
Source == (\E size \in ChunkSizes : Transform(size)) \/ End

Next == Engine \/ Source \/ Destroy

Spec == Init /\ [][Next]_vars

(* A call runs to its end, since nothing in it waits, and the source goes on
   to write or to end: a source that stops for ever gets no result, which is
   why Destroy is not assumed. *)
Fairness == WF_vars(Engine) /\ WF_vars(Source)
FairSpec == Spec /\ Fairness
=============================================================================
