------------------------- MODULE StreamEngineProofs -------------------------
(***************************************************************************)
(* The stream engine and its spine for all documents, chunks, limits and   *)
(* answers of user code: what a destroyed stream keeps and does, what a    *)
(* verdict says, what a stream without edit hooks writes, when the byte    *)
(* limit of the tokenizer counts, what a live stream holds, and that what  *)
(* a hook dropped is never pushed.                                         *)
(***************************************************************************)
EXTENDS EditedStream, MemberEditsProofs

-----------------------------------------------------------------------------
(* The driver. *)

LEMMA AnswersType ==
  ASSUME NEW event, NEW u \in Answers(event), editsActive \in BOOLEAN
  PROVE  Answering(u) /\ (~editsActive => Unedited(u))
<1>1. Keep \in Decisions
  BY DEF Keep, Decisions
<1>2. \A c \in BOOLEAN : When(c) \subseteq BOOLEAN /\ (~c => When(c) = {FALSE})
  BY DEF When
<1>3. u.decision \in Decisions
  BY <1>1 DEF Answers
<1> DEFINE scope == event.type = "startObject" /\ editsActive
<1> DEFINE append == event.type \in {"endObject", "endArray"} /\ editsActive
<1>4. u.scoped \in When(scope) /\ u.appends \in When(append)
  BY DEF Answers
<1>5. scope \in BOOLEAN /\ append \in BOOLEAN /\ (~editsActive => ~scope /\ ~append)
  BY DEF scope
<1> HIDE DEF scope, append
<1>6. u.scoped \in BOOLEAN /\ (~editsActive => u.scoped = FALSE /\ u.appends = FALSE)
  BY <1>2, <1>4, <1>5
<1>7. QED
  BY <1>3, <1>6 DEF Answering, Unedited

LEMMA MinOf ==
  ASSUME NEW a \in Int, NEW b \in Int
  PROVE  Min({a, b}) \in {a, b} /\ Min({a, b}) <= a /\ Min({a, b}) <= b
<1>1. \E x \in {a, b} : \A y \in {a, b} : x <= y
  <2>1. a <= b \/ b <= a
    OBVIOUS
  <2>2. QED
    BY <2>1
<1>2. QED
  BY <1>1 DEF Min

-----------------------------------------------------------------------------
(* The invariant of the driver. *)
Stands == {"idle", "write", "flush", "end", "failed", "done"}

Results == {"pending", "valid", "invalid", "rejected"}

Typed ==
  /\ doc \in Seq(Byte) /\ fed \in Nat /\ total \in Nat /\ fed <= Len(doc) /\ total <= fed
  /\ editsActive \in BOOLEAN
  /\ pc \in Stands /\ sealed \in BOOLEAN /\ finished \in BOOLEAN /\ destroyed \in BOOLEAN
  /\ result \in Results

(* Where a stream that is over stands, and why. *)
Over ==
  /\ spine.disposed => destroyed \/ sealed
  /\ destroyed => finished /\ pc # "flush" /\ (pc \in {"write", "end"} => spine.disposed)
  /\ finished /\ ~destroyed => pc \in {"failed", "done"}
  /\ result # "pending" => finished
  /\ sealed => pc \in {"idle", "failed", "done"} /\ spine.violations > 0

Live == ~sealed /\ ~destroyed

(* How much of the accepted input a live stream has read between two steps,
   and what the continuation of a flush relies on. *)
Progress ==
  /\ spine.tok.pos <= total
  /\ Live /\ pc \in {"idle", "write", "end"} => total = fed
  /\ Live /\ pc = "idle" => spine.tok.pos = total
  /\ Live /\ pc = "end" => spine.tok.pos = total
  /\ pc = "flush" => \/ after = "hold" /\ editsActive /\ spine.tok.pos = total /\ total = fed
                     \/ after = "write" /\ ~editsActive /\ total = fed
                     \/ after = "budget" /\ editsActive /\ spine.violations > 0
                     \/ after = "refuse"
                     \/ after = "close" /\ editsActive /\ spine.tok.pos = total /\ total = fed

Bare == ~editsActive => Plain(spine) /\ held = 0

Gone == pc = "idle" /\ (destroyed \/ sealed) => held = 0 /\ Empty(spine)

Inv == Typed /\ Over /\ Progress /\ SpineOK(spine) /\ Bare /\ Gone /\ VerdictHonest

LEMMA Initial == Init => Inv
<1> SUFFICES ASSUME Init PROVE Inv
  OBVIOUS
<1>1. /\ doc \in Seq(Byte) /\ fed = 0 /\ total = 0 /\ editsActive \in BOOLEAN /\ held = 0
      /\ pc = "idle" /\ sealed = FALSE /\ finished = FALSE /\ destroyed = FALSE
      /\ result = "pending" /\ spine = SpineInit
  BY EngineAssumption DEF Init
<1>2. <<>> \in Seq(Byte) /\ <<>> \in Seq(Contexts) /\ "value" \in States /\ <<>> \in Seq(FrameType)
      /\ Len(<<>>) = 0
  BY DEF States
<1>3. TokenizerInit \in Tokenizers /\ TokenizerInit.pos = 0 /\ Len(TokenizerInit.stack) = 0
  BY <1>2 DEF TokenizerInit, Tokenizers
<1>4. Matches(TokenizerInit) /\ Bounded(TokenizerInit)
  BY DEF TokenizerInit, Matches, Bounded, ObjectState, ArrayState
<1>5. NoDiscard \in DiscardType /\ NoLimit \in LimitType
  BY Numbers DEF NoDiscard, DiscardType, NoLimit, LimitType
<1>6. /\ spine \in Spines /\ spine.tok = TokenizerInit /\ spine.frames = <<>> /\ spine.opaque = 0
      /\ spine.edits = {} /\ spine.discard = NoDiscard /\ spine.deferred = FALSE
      /\ spine.thrown = "none" /\ spine.disposed = FALSE
  <2>1. SpineInit \in Spines
    BY <1>2, <1>3, <1>5 DEF SpineInit, Spines
  <2>2. QED
    BY <1>1, <2>1 DEF SpineInit
<1>7. SpineOK(spine)
  BY <1>2, <1>3, <1>4, <1>6 DEF SpineOK, Counted, Sized, Sound
<1>8. Plain(spine)
  BY <1>6 DEF Plain
<1>9. Len(doc) \in Nat
  BY <1>1
<1>10. Typed
  <2>1. fed \in Nat /\ total \in Nat /\ fed <= Len(doc) /\ total <= fed
    BY <1>1, <1>9
  <2>2. /\ pc \in Stands /\ sealed \in BOOLEAN /\ finished \in BOOLEAN /\ destroyed \in BOOLEAN
        /\ result \in Results
    BY <1>1 DEF Stands, Results
  <2>3. QED
    BY <1>1, <2>1, <2>2 DEF Typed
<1>11. Over /\ Progress /\ Bare /\ Gone /\ VerdictHonest
  BY <1>1, <1>3, <1>6, <1>8 DEF Over, Progress, Bare, Gone, VerdictHonest, Live
<1>12. QED
  BY <1>7, <1>10, <1>11 DEF Inv

(* The source writes a chunk. *)
LEMMA TransformKeeps == ASSUME Inv, NEW size \in ChunkSizes, Transform(size) PROVE Inv'
<1> DEFINE n == Min({size, Len(doc) - fed})
<1>1. /\ doc \in Seq(Byte) /\ fed \in Nat /\ total \in Nat /\ Len(doc) \in Nat /\ size \in Nat
      /\ fed <= Len(doc) /\ total <= fed
  BY EngineAssumption DEF Inv, Typed
<1>2. n \in Nat /\ fed + n <= Len(doc)
  <2>1. size \in Int /\ Len(doc) - fed \in Int /\ Len(doc) - fed >= 0
    BY <1>1
  <2>2. n \in {size, Len(doc) - fed} /\ n <= Len(doc) - fed
    BY <2>1, MinOf
  <2> HIDE DEF n
  <2>3. QED
    BY <1>1, <2>1, <2>2
<1>3. pc = "idle" /\ ~destroyed /\ (Passthrough(n) \/ Refuse(n) \/ HoldChunk(n) \/ EchoChunk(n))
  BY DEF Transform
<1> HIDE DEF n
<1>4. ~finished
  BY <1>3 DEF Inv, Over
<1>5. CASE Passthrough(n)
  <2>1. sealed /\ fed' = fed + n /\ UNCHANGED <<doc, editsActive, spine, total, held, life>>
    BY <1>4, <1>5 DEF Passthrough
  <2>2. Typed'
    BY <1>1, <1>2, <2>1 DEF Inv, Typed, life
  <2>3. Over' /\ Progress' /\ SpineOK(spine)' /\ Bare' /\ Gone'
    BY <1>3, <2>1 DEF Inv, Over, Progress, Bare, Gone, Live, life
  <2>4. VerdictHonest'
    BY <1>3, <1>4, <2>1 DEF Inv, Over, VerdictHonest, life
  <2>5. QED
    BY <2>2, <2>3, <2>4 DEF Inv
<1>6. CASE Refuse(n)
  <2>1. /\ ~sealed /\ fed' = fed + n /\ pc' = "flush" /\ after' = "refuse"
        /\ UNCHANGED <<doc, editsActive, spine, total, held, sealed, finished, destroyed, result>>
    BY <1>6 DEF Refuse
  <2>2. Typed'
    BY <1>1, <1>2, <2>1 DEF Inv, Typed, Stands
  <2>3. Over' /\ Progress' /\ SpineOK(spine)' /\ Bare' /\ Gone'
    BY <1>3, <1>4, <2>1 DEF Inv, Over, Progress, Bare, Gone, Live
  <2>4. VerdictHonest'
    BY <1>3, <1>4, <2>1 DEF Inv, Over, VerdictHonest
  <2>5. QED
    BY <2>2, <2>3, <2>4 DEF Inv
<1>7. CASE HoldChunk(n) \/ EchoChunk(n)
  <2>1. /\ ~sealed /\ fed' = fed + n /\ total' = total + n
        /\ \/ editsActive /\ pc' = "write"
           \/ ~editsActive /\ pc' = "flush" /\ after' = "write" /\ held' = held
        /\ UNCHANGED <<doc, editsActive, spine, sealed, finished, destroyed, result>>
    BY <1>7 DEF HoldChunk, EchoChunk
  <2>2. Typed' /\ total = fed /\ spine.tok.pos <= total + n
    <3>1. total = fed /\ spine.tok.pos = total
      BY <1>3, <2>1 DEF Inv, Progress, Live
    <3>2. QED
      BY <1>1, <1>2, <2>1, <3>1 DEF Inv, Typed, Stands
  <2>3. Over' /\ SpineOK(spine)' /\ Bare' /\ Gone'
    BY <1>3, <1>4, <2>1 DEF Inv, Over, Bare, Gone
  <2>4. Progress'
    BY <1>3, <1>4, <2>1, <2>2 DEF Progress, Live
  <2>5. VerdictHonest'
    BY <1>3, <1>4, <2>1 DEF Inv, Over, VerdictHonest
  <2>6. QED
    BY <2>2, <2>3, <2>4, <2>5 DEF Inv
<1>8. QED
  BY <1>3, <1>5, <1>6, <1>7

(* A turn of tokenizer.write, and the end of a number in tokenizer.end. *)
LEMMA TurnKeeps ==
  ASSUME Inv, pc \in {"write", "end"}, ~spine.disposed, SpineOK(spine'),
         spine'.tok.pos <= total, pc = "end" => spine'.tok.pos = spine.tok.pos,
         spine'.violations >= spine.violations, ~editsActive => Plain(spine'), Unwind,
         UNCHANGED <<input, total, pc, sealed>>
  PROVE  Inv'
<1>1. ~destroyed /\ ~finished /\ result = "pending" /\ ~sealed
  BY DEF Inv, Over
<1>2. /\ destroyed' = spine'.disposed
      /\ spine'.disposed => finished' = TRUE /\ result' = "rejected" /\ held' = 0
      /\ ~spine'.disposed => UNCHANGED <<finished, result, held>>
  BY <1>1 DEF Unwind, Settle
<1>3. spine'.disposed \in BOOLEAN
  BY SpineType DEF SpineOK
<1>4. UNCHANGED <<doc, editsActive, fed, total, pc, sealed>>
  BY DEF input
<1>5. Typed'
  BY <1>1, <1>2, <1>3, <1>4 DEF Inv, Typed, Results
<1>6. Over'
  BY <1>1, <1>2, <1>3, <1>4 DEF Over
<1>7. Progress'
  BY <1>1, <1>2, <1>4 DEF Inv, Progress, Live
<1>8. Bare' /\ Gone' /\ VerdictHonest'
  BY <1>1, <1>2, <1>3, <1>4 DEF Inv, Bare, Gone, VerdictHonest
<1>9. QED
  BY <1>5, <1>6, <1>7, <1>8 DEF Inv

LEMMA ParseKeeps == ASSUME Inv, Parse PROVE Inv'
<1> DEFINE b == ByteAt(spine.tok.pos)
<1> DEFINE event == Scan(spine.tok, b).event
<1>1. PICK u \in Answers(event) : spine' = Step(spine, b, u)
  BY DEF Parse
<1>2. pc = "write" /\ ~spine.disposed /\ ~Threw(spine) /\ spine.tok.pos < total
  BY DEF Parse, Parsing, Threw
<1>3. SpineOK(spine) /\ spine \in Spines /\ spine.tok.pos \in Nat
  BY SpineType DEF Inv, SpineOK
<1>4. b \in Byte
  <2>1. doc \in Seq(Byte) /\ spine.tok.pos + 1 \in 1..Len(doc)
    BY <1>2, <1>3 DEF Inv, Typed
  <2>2. QED
    BY <2>1 DEF ByteAt
<1> HIDE DEF b, event
<1>5. Answering(u) /\ (~editsActive => Unedited(u))
  BY AnswersType DEF Inv, Typed
<1>6. Turns(spine, spine') /\ (Plain(spine) /\ Unedited(u) => Plain(spine'))
  BY <1>1, <1>2, <1>3, <1>4, <1>5, StepTurns
<1>7. /\ SpineOK(spine') /\ spine'.violations >= spine.violations
      /\ spine'.tok.pos \in {spine.tok.pos, spine.tok.pos + 1}
  BY <1>6 DEF Turns
<1>8. spine'.tok.pos <= total
  BY <1>2, <1>3, <1>7 DEF Inv, Typed
<1>9. ~editsActive => Plain(spine')
  BY <1>5, <1>6 DEF Inv, Bare
<1>10. Unwind /\ UNCHANGED <<input, total, pc, sealed>>
  BY DEF Parse
<1>11. QED
  BY <1>2, <1>7, <1>8, <1>9, <1>10, TurnKeeps

LEMMA EndNumberKeeps == ASSUME Inv, EndNumber PROVE Inv'
<1> DEFINE event == FinishNumber(spine.tok).event
<1>1. PICK u \in Answers(event) : spine' = EndStep(spine, u)
  BY DEF EndNumber
<1>2. pc = "end" /\ ~spine.disposed /\ ~Threw(spine)
  BY DEF EndNumber, Ending, Threw
<1>3. SpineOK(spine)
  BY DEF Inv
<1> HIDE DEF event
<1>4. Answering(u) /\ (~editsActive => Unedited(u))
  BY AnswersType DEF Inv, Typed
<1>5. /\ Turns(spine, spine') /\ spine'.tok.pos = spine.tok.pos
      /\ (Plain(spine) /\ Unedited(u) => Plain(spine'))
  BY <1>1, <1>2, <1>3, <1>4, EndStepTurns
<1>6. SpineOK(spine') /\ spine'.violations >= spine.violations /\ spine'.tok.pos <= total
  BY <1>5 DEF Turns, Inv, Progress
<1>7. ~editsActive => Plain(spine')
  BY <1>4, <1>5 DEF Inv, Bare
<1>8. Unwind /\ UNCHANGED <<input, total, pc, sealed>>
  BY DEF EndNumber
<1>9. QED
  BY <1>2, <1>5, <1>6, <1>7, <1>8, TurnKeeps

(* The stream is destroyed: by whoever holds it, by Node after an error, or
   by a data listener during a push; or a parse that was under way returns. *)
LEMMA DestroyKeeps ==
  ASSUME Inv, spine' = Released, held' = 0, destroyed' = TRUE, finished' = TRUE,
         IF finished THEN UNCHANGED result ELSE Settle("rejected"),
         pc' \in {"idle", pc}, pc # "flush" \/ pc' = "idle", result = "valid" => pc' = pc,
         UNCHANGED <<input, total, sealed>>
  PROVE  Inv'
<1>1. SpineOK(spine)
  BY DEF Inv
<1>2. /\ SpineOK(spine') /\ spine'.disposed /\ spine'.tok.pos = spine.tok.pos
      /\ spine'.violations = spine.violations /\ Empty(spine') /\ Plain(spine')
  BY <1>1, ReleasedLeft DEF Released
<1>3. UNCHANGED <<doc, editsActive, fed, total, sealed>>
  BY DEF input
<1>4. result' \in {result, "rejected"} /\ (~finished => result' = "rejected")
  BY DEF Settle, Inv, Over
<1>5. pc' \in Stands /\ result' \in Results /\ pc' # "flush"
  BY <1>4 DEF Inv, Typed, Stands, Results
<1>6. Typed'
  BY <1>3, <1>5 DEF Inv, Typed
<1>7. Over' /\ Progress' /\ Bare' /\ Gone'
  BY <1>2, <1>3, <1>5 DEF Inv, Over, Progress, Bare, Gone, Live
<1>8. VerdictHonest'
  BY <1>2, <1>3, <1>4 DEF Inv, Over, VerdictHonest
<1>9. QED
  BY <1>2, <1>6, <1>7, <1>8 DEF Inv

(* The driver goes on without touching the spine, the hold or the result. *)
LEMMA CarryOn ==
  ASSUME Inv, Live, pc \in {"idle", "write", "flush", "end"},
         pc' \in {"idle", "write", "end", "flush"}, Progress',
         UNCHANGED <<input, total, spine, held, sealed, finished, destroyed, result>>
  PROVE  Inv'
<1>1. UNCHANGED <<doc, editsActive, fed, total, sealed, finished, destroyed, result, spine, held>>
  BY DEF input
<1>2. ~finished /\ ~sealed /\ ~destroyed /\ result = "pending"
  BY DEF Inv, Over, Live
<1>3. Typed' /\ Over' /\ Bare' /\ Gone' /\ VerdictHonest'
  BY <1>1, <1>2 DEF Inv, Typed, Over, Bare, Gone, VerdictHonest, Stands
<1>4. QED
  BY <1>1, <1>3 DEF Inv

(* The stream comes to its end with a verdict, a refusal or an error. *)
LEMMA VerdictKeeps ==
  ASSUME Inv, ~destroyed, ~finished, pc \in {"idle", "flush", "end"}, NEW s, Verdict(s), SpineOK(s),
         s.tok.pos = spine.tok.pos, s.violations = spine.violations, s.disposed = spine.disposed,
         Plain(spine) => Plain(s), s.violations = 0 => spine.tok.pos = total /\ total = fed,
         held' \in {held, 0}, UNCHANGED <<input, total, destroyed>>
  PROVE  Inv'
<1>1. UNCHANGED <<doc, editsActive, fed, total, destroyed, sealed>> /\ spine' = s /\ finished' = TRUE
  BY DEF input, Verdict
<1>2. /\ result' = IF s.violations = 0 THEN "valid" ELSE "invalid"
      /\ pc' \in {"failed", "done"} /\ (s.violations = 0 => pc' = "done")
  BY DEF Verdict, Settle, Inv, Over
<1>3. s.violations \in Nat
  BY SpineType DEF SpineOK
<1>4. Typed' /\ Over'
  BY <1>1, <1>2 DEF Inv, Typed, Over, Stands, Results
<1>5. Progress' /\ Bare' /\ Gone'
  BY <1>1, <1>2 DEF Inv, Progress, Bare, Gone
<1>6. VerdictHonest'
  BY <1>1, <1>2, <1>3 DEF VerdictHonest
<1>7. QED
  BY <1>1, <1>4, <1>5, <1>6 DEF Inv

LEMMA FailKeeps ==
  ASSUME Inv, ~destroyed, pc \in {"write", "flush", "end"}, Fail, SpineOK(spine'),
         spine'.tok.pos = spine.tok.pos, spine'.violations = spine.violations,
         spine'.disposed = spine.disposed,
         Plain(spine) => Plain(spine'), held' \in {held, 0}, UNCHANGED <<input, total, sealed, destroyed>>
  PROVE  Inv'
<1>1. /\ UNCHANGED <<doc, editsActive, fed, total, destroyed, sealed>> /\ finished' = TRUE
      /\ pc' = "failed" /\ result' = "rejected"
  BY DEF input, Fail, Settle, Inv, Over
<1>2. Typed' /\ Over' /\ Progress' /\ Bare' /\ Gone' /\ VerdictHonest'
  BY <1>1 DEF Inv, Typed, Over, Progress, Bare, Gone, VerdictHonest, Stands, Results
<1>3. QED
  BY <1>2 DEF Inv

(* Under detach the rest of the input is copied, and the spine let go of;
   else the stream fails. *)
LEMMA ApplyBudgetKeeps ==
  ASSUME Inv, ~destroyed, pc \in {"write", "flush"}, NEW s, ApplyBudget(s), SpineOK(s),
         s.tok.pos = spine.tok.pos, s.violations = spine.violations, s.disposed = spine.disposed,
         s.violations > 0, s.edits = {}, Plain(spine) => Plain(s), held' = 0,
         UNCHANGED <<input, total, destroyed>>
  PROVE  Inv'
<1>1. /\ UNCHANGED <<doc, editsActive, fed, total, destroyed>> /\ ~finished /\ ~sealed
      /\ result = "pending"
  BY DEF input, Inv, Over
<1>2. CASE Detach
  <2>1. sealed' = TRUE /\ spine' = Dispose(s) /\ pc' = "idle" /\ UNCHANGED <<finished, result>>
    BY <1>2 DEF ApplyBudget, Seal
  <2>2. /\ SpineOK(spine') /\ spine'.disposed /\ spine'.tok.pos = s.tok.pos
        /\ spine'.violations = s.violations /\ Empty(spine') /\ (Plain(s) => Plain(spine'))
    BY <2>1, DisposeLeft DEF Empty
  <2>3. Typed' /\ Over'
    BY <1>1, <2>1, <2>2 DEF Inv, Typed, Over, Stands
  <2>4. Progress' /\ Bare' /\ Gone' /\ VerdictHonest'
    BY <1>1, <2>1, <2>2 DEF Inv, Progress, Bare, Gone, VerdictHonest, Live
  <2>5. QED
    BY <2>2, <2>3, <2>4 DEF Inv
<1>3. CASE ~Detach
  <2>1. finished' = TRUE /\ result' = "invalid" /\ pc' = "failed" /\ spine' = s /\ sealed' = sealed
    BY <1>1, <1>3 DEF ApplyBudget, Terminate, Settle
  <2>2. Typed' /\ Over'
    BY <1>1, <2>1 DEF Inv, Typed, Over, Stands, Results
  <2>3. Progress' /\ Bare' /\ Gone' /\ VerdictHonest'
    BY <1>1, <2>1 DEF Inv, Progress, Bare, Gone, VerdictHonest, Live
  <2>4. QED
    BY <2>1, <2>2, <2>3 DEF Inv
<1>4. QED
  BY <1>2, <1>3

(* The edits a flush leaves pending are some of those it found. *)
LEMMA FlushLeaves ==
  ASSUME SpineOK(spine), NEW x, x \subseteq spine.edits
  PROVE  LET t == [spine EXCEPT !.edits = x]
         IN  /\ SpineOK(t) /\ t.edits = x /\ t.tok = spine.tok /\ t.violations = spine.violations
             /\ t.disposed = spine.disposed /\ (Plain(spine) => Plain(t))
  BY EditsLeft DEF Others, Fields

LEMMA FlushedKeeps == ASSUME Inv, Flushed PROVE Inv'
<1> DEFINE bare == [spine EXCEPT !.edits = {}]
<1>1. pc = "flush" /\ ~destroyed /\ UNCHANGED <<input, total, destroyed>> /\ SpineOK(spine) /\ ~sealed
      /\ ~finished
  BY DEF Flushed, Inv, Over
<1>2. UNCHANGED <<doc, editsActive, fed, total, destroyed>>
  BY <1>1 DEF input
<1>3. /\ SpineOK(bare) /\ bare.edits = {} /\ bare.tok = spine.tok
      /\ bare.violations = spine.violations /\ bare.disposed = spine.disposed
      /\ (Plain(spine) => Plain(bare))
  BY <1>1, FlushLeaves
<1>4. NoEdits = bare
  BY DEF NoEdits
<1> HIDE DEF bare
<1>5. CASE after = "hold"
  <2>1. /\ spine' = [spine EXCEPT !.edits = {e \in @ : e.end > EditSafeLimit}]
        /\ pc' = "idle" /\ UNCHANGED <<sealed, finished, result>>
    BY <1>5 DEF Flushed, Commit
  <2>2. /\ SpineOK(spine') /\ spine'.tok = spine.tok /\ spine'.violations = spine.violations
        /\ spine'.disposed = spine.disposed /\ (Plain(spine) => Plain(spine'))
    <3> DEFINE x == {e \in spine.edits : e.end > EditSafeLimit}
    <3>1. x \subseteq spine.edits /\ spine' = [spine EXCEPT !.edits = x]
      BY <2>1
    <3> HIDE DEF x
    <3>2. QED
      BY <1>1, <3>1, FlushLeaves
  <2>3. editsActive /\ spine.tok.pos = total /\ total = fed
    BY <1>1, <1>5 DEF Inv, Progress
  <2>4. Typed' /\ Over' /\ Progress' /\ Bare' /\ Gone' /\ VerdictHonest'
    BY <1>1, <1>2, <2>1, <2>2, <2>3 DEF Inv, Typed, Over, Progress, Bare, Gone, VerdictHonest, Stands
  <2>5. QED
    BY <2>2, <2>4 DEF Inv
<1>6. CASE after = "write"
  <2>1. pc' = "write" /\ UNCHANGED <<spine, held, sealed, finished, result>>
    BY <1>6 DEF Flushed
  <2>2. Progress'
    BY <1>1, <1>2, <1>6, <2>1 DEF Inv, Progress
  <2>3. QED
    BY <1>1, <2>1, <2>2, CarryOn DEF Live
<1>7. CASE after = "budget"
  <2>1. held' = 0 /\ ApplyBudget(bare)
    BY <1>4, <1>7 DEF Flushed
  <2>2. spine.violations > 0
    BY <1>1, <1>7 DEF Inv, Progress
  <2>3. QED
    BY <1>1, <1>3, <2>1, <2>2, ApplyBudgetKeeps
<1>8. CASE after = "refuse"
  <2>1. held' = 0 /\ spine' = bare /\ Fail /\ UNCHANGED sealed
    BY <1>8 DEF Flushed, CommitAll, bare
  <2>2. QED
    BY <1>1, <1>3, <2>1, FailKeeps
<1>9. CASE after = "close"
  <2>1. held' = 0 /\ Verdict(bare)
    BY <1>4, <1>9 DEF Flushed
  <2>2. spine.tok.pos = total /\ total = fed
    BY <1>1, <1>9 DEF Inv, Progress
  <2>3. QED
    BY <1>1, <1>3, <2>1, <2>2, VerdictKeeps
<1>10. QED
  BY <1>1, <1>5, <1>6, <1>7, <1>8, <1>9 DEF Inv, Progress

LEMMA EndSyntaxKeeps == ASSUME Inv, EndSyntax PROVE Inv'
<1>1. /\ pc = "end" /\ ~spine.disposed /\ UNCHANGED <<input, total, held, destroyed>> /\ SpineOK(spine)
      /\ ~destroyed /\ ~sealed /\ ~finished /\ result = "pending"
  BY DEF EndSyntax, Ending, Inv, Over
<1>2. UNCHANGED <<doc, editsActive, fed, total, destroyed, held>> /\ spine.tok.pos = total /\ total = fed
  BY <1>1 DEF input, Inv, Progress, Live
<1>3. CASE ~EndsCleanly(spine.tok)
  <2>1. spine' = Throw(spine, "fatal") /\ UNCHANGED <<pc, sealed, finished, result>>
    BY <1>3 DEF EndSyntax
  <2>2. spine \in Spines
    BY <1>1 DEF SpineOK
  <2>3. Turns(spine, spine') /\ (Plain(spine) => Plain(spine'))
    BY <1>1, <2>1, ThrowTurns
  <2>4. spine'.disposed = spine.disposed /\ spine'.tok = spine.tok
    BY <2>1, <2>2, SetReads DEF Throw, Fields
  <2>5. Unwind
    <3>1. spine.disposed \in BOOLEAN /\ destroyed \in BOOLEAN
      BY <2>2, SpineType DEF Inv, Typed
    <3>2. QED
      BY <1>1, <1>2, <2>1, <2>4, <3>1 DEF Unwind
  <2>6. SpineOK(spine') /\ spine'.violations >= spine.violations /\ spine'.tok.pos <= total
    BY <2>3, <2>4 DEF Turns, Inv, Progress
  <2>7. ~editsActive => Plain(spine')
    BY <2>3 DEF Inv, Bare
  <2>8. QED
    BY <1>1, <2>1, <2>4, <2>5, <2>6, <2>7, TurnKeeps
<1>4. CASE EndsCleanly(spine.tok) /\ editsActive
  <2>1. pc' = "flush" /\ after' = "close" /\ UNCHANGED <<spine, sealed, finished, result>>
    BY <1>4 DEF EndSyntax
  <2>2. Progress'
    BY <1>2, <1>4, <2>1 DEF Inv, Progress
  <2>3. QED
    BY <1>1, <2>1, <2>2, CarryOn DEF Live
<1>5. CASE EndsCleanly(spine.tok) /\ ~editsActive
  <2>1. Verdict(spine)
    BY <1>5 DEF EndSyntax
  <2>2. QED
    BY <1>1, <1>2, <2>1, VerdictKeeps
<1>6. QED
  BY <1>3, <1>4, <1>5

LEMMA Inductive == Inv /\ [Next]_vars => Inv'
<1> SUFFICES ASSUME Inv, [Next]_vars PROVE Inv'
  OBVIOUS
<1>1. SpineOK(spine) /\ Counted(spine) /\ (Plain(spine) \/ editsActive) /\ (editsActive \/ held = 0)
  BY DEF Inv, SpineOK, Bare
<1>2. /\ pc \in {"write", "flush", "end"} => ~sealed
      /\ pc \in {"idle", "write", "flush", "end"} /\ ~destroyed => ~finished
      /\ pc = "flush" => ~destroyed
      /\ pc \in {"write", "end"} /\ ~spine.disposed => ~destroyed
  BY DEF Inv, Over
<1>3. CASE Parse
  BY <1>3, ParseKeeps
<1>4. CASE WriteDestroyed \/ EndDestroyed
  <2>1. /\ spine' = Released /\ held' = 0 /\ destroyed' = TRUE /\ finished' = TRUE /\ finished
        /\ UNCHANGED <<input, total, sealed, result>> /\ pc' = "idle" /\ pc \in {"write", "end"}
    BY <1>4 DEF WriteDestroyed, EndDestroyed, Inv, Over, Typed
  <2>2. result # "valid"
    BY <2>1 DEF Inv, VerdictHonest
  <2>3. QED
    BY <2>1, <2>2, DestroyKeeps
<1>5. CASE WriteReturned
  <2>1. /\ pc = "write" /\ ~spine.disposed /\ spine.tok.pos = total
        /\ (editsActive /\ pc' = "flush" /\ after' = "hold") \/ (~editsActive /\ pc' = "idle")
        /\ UNCHANGED <<input, spine, total, held, sealed, finished, destroyed, result>>
    BY <1>5 DEF WriteReturned, Parsing
  <2>2. Live /\ total = fed
    BY <1>2, <2>1 DEF Inv, Progress, Live
  <2>3. Progress'
    BY <1>2, <2>1, <2>2 DEF Inv, Progress, input
  <2>4. QED
    BY <2>1, <2>2, <2>3, CarryOn
<1>6. CASE WriteBudget
  <2>1. /\ pc = "write" /\ ~destroyed /\ spine.thrown = "budget"
        /\ UNCHANGED <<input, total, held, destroyed>>
    BY <1>6 DEF WriteBudget
  <2>2. spine.violations > 0
    BY <1>1, <2>1 DEF Counted
  <2>3. CASE editsActive
    <3>1. pc' = "flush" /\ after' = "budget" /\ UNCHANGED <<spine, sealed, finished, result>>
      BY <1>6, <2>3 DEF WriteBudget
    <3>2. Progress'
      BY <2>1, <2>2, <2>3, <3>1 DEF Inv, Progress, input
    <3>3. QED
      BY <1>2, <2>1, <3>1, <3>2, CarryOn DEF Live
  <2>4. CASE ~editsActive
    <3>1. ApplyBudget(spine)
      BY <1>6, <2>4 DEF WriteBudget
    <3>2. Plain(spine) /\ held = 0
      BY <1>1, <2>4
    <3>3. spine.edits = {}
      BY <3>2 DEF Plain
    <3>4. QED
      BY <1>1, <2>1, <2>2, <3>1, <3>2, <3>3, ApplyBudgetKeeps
  <2>5. QED
    BY <2>3, <2>4
<1>7. CASE ParseFatal
  <2>1. /\ pc \in {"write", "end"} /\ ~destroyed /\ Fail
        /\ UNCHANGED <<input, spine, total, held, sealed, destroyed>>
    BY <1>7 DEF ParseFatal, echo
  <2>2. QED
    BY <1>1, <2>1, FailKeeps
<1>8. CASE Push
  <2>1. pc = "flush" /\ UNCHANGED <<input, total>>
    BY <1>8 DEF Push
  <2>2. CASE UNCHANGED <<spine, held, life>>
    <3>1. UNCHANGED <<spine, held, pc, after, sealed, finished, destroyed, result>>
      BY <2>2 DEF life
    <3>2. Progress'
      BY <2>1, <3>1 DEF Inv, Progress, input
    <3>3. QED
      BY <1>2, <2>1, <3>1, <3>2, CarryOn DEF Live
  <2>3. CASE DestroyNow /\ pc' = "idle" /\ UNCHANGED <<after, sealed>>
    <3>1. result # "valid"
      BY <2>1 DEF Inv, VerdictHonest
    <3>2. QED
      BY <2>1, <2>3, <3>1, DestroyKeeps DEF DestroyNow
  <2>4. QED
    BY <1>8, <2>2, <2>3 DEF Push
<1>9. CASE Flushed
  BY <1>9, FlushedKeeps
<1>10. CASE EndNumber
  BY <1>10, EndNumberKeeps
<1>11. CASE EndSyntax
  BY <1>11, EndSyntaxKeeps
<1>12. CASE EndBudget
  <2>1. /\ pc = "end" /\ ~destroyed /\ spine.thrown = "budget"
        /\ UNCHANGED <<input, total, held, destroyed>>
    BY <1>12 DEF EndBudget
  <2>2. spine.violations > 0 /\ spine.tok.pos = total /\ total = fed
    BY <1>1, <1>2, <2>1 DEF Counted, Inv, Progress, Live
  <2>3. CASE Detach /\ editsActive
    <3>1. pc' = "flush" /\ after' = "close" /\ UNCHANGED <<spine, sealed, finished, result>>
      BY <1>12, <2>3 DEF EndBudget
    <3>2. Progress'
      BY <2>1, <2>2, <2>3, <3>1 DEF Inv, Progress, input
    <3>3. QED
      BY <1>2, <2>1, <3>1, <3>2, CarryOn DEF Live
  <2>4. CASE ~(Detach /\ editsActive)
    <3>1. Verdict(spine)
      BY <1>12, <2>4 DEF EndBudget
    <3>2. QED
      BY <1>1, <1>2, <2>1, <2>2, <3>1, VerdictKeeps
  <2>5. QED
    BY <2>3, <2>4
<1>13. ASSUME NEW size \in ChunkSizes, Transform(size) PROVE Inv'
  BY <1>13, TransformKeeps
<1>14. CASE End
  <2>1. pc = "idle" /\ ~destroyed /\ UNCHANGED <<input, total, held, destroyed>>
    BY <1>14 DEF End, echo
  <2>2. CASE sealed
    <3>1. Verdict(spine)
      BY <1>14, <2>2 DEF End
    <3>2. spine.violations > 0
      BY <2>2 DEF Inv, Over
    <3>3. QED
      BY <1>1, <1>2, <2>1, <3>1, <3>2, VerdictKeeps
  <2>3. CASE ~sealed
    <3>1. pc' = "end" /\ UNCHANGED <<spine, sealed, finished, result>>
      BY <1>14, <2>3 DEF End
    <3>2. Progress'
      BY <2>1, <2>3, <3>1 DEF Inv, Progress, Live, input
    <3>3. QED
      BY <2>1, <2>3, <3>1, <3>2, CarryOn DEF Live
  <2>4. QED
    BY <2>2, <2>3
<1>15. CASE Destroy
  <2>1. /\ pc \in {"idle", "failed", "done"} /\ ~destroyed /\ DestroyNow
        /\ UNCHANGED <<input, total, pc, sealed>>
    BY <1>15 DEF Destroy
  <2>2. QED
    BY <2>1, DestroyKeeps DEF DestroyNow
<1>16. CASE UNCHANGED vars
  <2>1. UNCHANGED <<doc, editsActive, fed, spine, total, held, pc, after, sealed, finished, destroyed, result>>
    BY <1>16 DEF vars, input, echo, life
  <2>2. QED
    BY <2>1 DEF Inv, Typed, Over, Progress, Bare, Gone, VerdictHonest, Live
<1>17. QED
  BY <1>3, <1>4, <1>5, <1>6, <1>7, <1>8, <1>9, <1>10, <1>11, <1>12, <1>13, <1>14, <1>15, <1>16
     DEF Next, Engine, Source

(* For every document, chunking, limit and answers: the driver, its spine and
   the tokenizer agree on what was read, what is open and what is over. *)
THEOREM DriverSound == Spec => []Inv
  BY Initial, Inductive, PTL DEF Spec

(* For every document, however it is cut, every limit and whatever hooks and
   listeners answer: a valid verdict is about the whole input, accepted and
   read to its end without a failure, and an invalid one has failures. *)
THEOREM VerdictHonestAlways == Spec => []VerdictHonest
<1>1. Inv => VerdictHonest
  BY DEF Inv
<1>2. QED
  BY <1>1, DriverSound, PTL

(* For every document, chunking and answers: once its driver is idle, a stream
   that was destroyed or sealed keeps no byte, edit, frame or discard of its
   input, also when the hook that destroyed it ran on inside the parser. *)
THEOREM ReleasedInputAlways == Spec => []ReleasedInput
<1>1. Inv => ReleasedInput
  BY DEF Inv, Gone, Empty, ReleasedInput
<1>2. QED
  BY <1>1, DriverSound, PTL

(* For every document, chunking and answers: nothing is pushed once the stream
   is destroyed, whoever destroyed it and wherever the driver stood. *)
THEOREM QuietOnceDestroyedAlways == Spec => QuietOnceDestroyed
<1>1. Inv /\ [Next]_vars => [destroyed => out' = out]_vars
  <2> SUFFICES ASSUME Inv, [Next]_vars, destroyed PROVE out' = out
    OBVIOUS
  <2>1. pc # "flush"
    BY DEF Inv, Over
  <2>2. ~Push /\ ~Flushed
    BY <2>1 DEF Push, Flushed
  <2>3. \A size \in ChunkSizes : ~Transform(size)
    BY DEF Transform
  <2>4. QED
    BY <2>2, <2>3 DEF Next, Engine, Source, vars, echo, Parse, WriteDestroyed, WriteReturned, WriteBudget,
       ParseFatal, EndNumber, EndSyntax, EndBudget, EndDestroyed, End, Destroy
<1>2. QED
  BY <1>1, DriverSound, PTL DEF Spec, QuietOnceDestroyed

-----------------------------------------------------------------------------
(* Without hooks the output is the input. *)
Pieces == [at : Int, text : Byte]

LEMMA EchoType ==
  ASSUME doc \in Seq(Byte), NEW a \in Nat, NEW b \in Nat, a <= b, b <= Len(doc)
  PROVE  /\ Echo(a, b) \in Seq(Pieces) /\ Len(Echo(a, b)) = b - a
         /\ \A i \in 1..(b - a) : Echo(a, b)[i] = [at |-> a + i - 1, text |-> ByteAt(a + i - 1)]
<1>1. \A i \in 1..(b - a) : [at |-> a + i - 1, text |-> ByteAt(a + i - 1)] \in Pieces
  <2> SUFFICES ASSUME NEW i \in 1..(b - a)
               PROVE  [at |-> a + i - 1, text |-> ByteAt(a + i - 1)] \in Pieces
    OBVIOUS
  <2>1. a + i - 1 \in Int /\ (a + i - 1) + 1 \in 1..Len(doc)
    OBVIOUS
  <2>2. ByteAt(a + i - 1) \in Byte
    BY <2>1 DEF ByteAt
  <2>3. QED
    BY <2>1, <2>2 DEF Pieces
<1>2. b - a \in Nat
  OBVIOUS
<1> DEFINE n == b - a
<1> DEFINE f == Echo(a, b)
<1>3. /\ f \in [1..n -> Pieces]
      /\ \A i \in 1..n : f[i] = [at |-> a + i - 1, text |-> ByteAt(a + i - 1)]
  BY <1>1 DEF Echo
<1> HIDE DEF f, n
<1>4. n \in Nat
  BY <1>2 DEF n
<1>5. f \in Seq(Pieces) /\ Len(f) = n
  BY <1>3, <1>4
<1>6. QED
  BY <1>3, <1>5 DEF f, n

LEMMA EchoJoins ==
  ASSUME doc \in Seq(Byte), NEW a \in Nat, NEW b \in Nat, a <= b, b <= Len(doc)
  PROVE  Echo(0, a) \o Echo(a, b) = Echo(0, b)
<1> DEFINE x == Echo(0, a)
<1> DEFINE y == Echo(a, b)
<1> DEFINE z == Echo(0, b)
<1>1. 0 <= a /\ a <= Len(doc) /\ 0 <= b /\ 0 \in Nat /\ a - 0 = a /\ b - 0 = b
  OBVIOUS
<1>2. /\ x \in Seq(Pieces) /\ Len(x) = a
      /\ \A i \in 1..a : x[i] = [at |-> 0 + i - 1, text |-> ByteAt(0 + i - 1)]
  BY <1>1, EchoType
<1>3. /\ y \in Seq(Pieces) /\ Len(y) = b - a
      /\ \A i \in 1..(b - a) : y[i] = [at |-> a + i - 1, text |-> ByteAt(a + i - 1)]
  BY EchoType
<1>4. /\ z \in Seq(Pieces) /\ Len(z) = b
      /\ \A i \in 1..b : z[i] = [at |-> 0 + i - 1, text |-> ByteAt(0 + i - 1)]
  BY <1>1, EchoType
<1> HIDE DEF x, y, z
<1>5. /\ x \o y \in Seq(Pieces) /\ Len(x \o y) = b
      /\ \A i \in 1..b : (x \o y)[i] = IF i <= a THEN x[i] ELSE y[i - a]
  <2>1. /\ x \o y \in Seq(Pieces) /\ Len(x \o y) = Len(x) + Len(y)
        /\ \A i \in 1..(Len(x) + Len(y)) : (x \o y)[i] = IF i <= Len(x) THEN x[i] ELSE y[i - Len(x)]
    <3>1. x \in Seq(Pieces) /\ y \in Seq(Pieces)
      BY <1>2, <1>3
    <3>2. QED
      BY <3>1, ConcatProperties
  <2>2. Len(x) = a /\ Len(x) + Len(y) = b
    BY <1>2, <1>3
  <2>3. QED
    BY <2>1, <2>2
<1>6. ASSUME NEW i \in 1..b PROVE (x \o y)[i] = z[i]
  <2>1. CASE i <= a
    <3>1. i \in 1..a
      BY <2>1
    <3>2. QED
      BY <1>2, <1>4, <1>5, <1>6, <2>1, <3>1
  <2>2. CASE ~(i <= a)
    <3>1. i - a \in 1..(b - a) /\ a + (i - a) - 1 = 0 + i - 1
      BY <2>2
    <3>2. QED
      BY <1>3, <1>4, <1>5, <1>6, <2>2, <3>1
  <2>3. QED
    BY <2>1, <2>2
<1>7. x \o y = z
  BY <1>4, <1>5, <1>6, SeqEqual
<1>8. QED
  BY <1>7 DEF x, y, z

LEMMA EchoPrefix ==
  ASSUME doc \in Seq(Byte), NEW a \in Nat, NEW b \in Nat, a <= b, b <= Len(doc)
  PROVE  Len(Echo(0, a)) = a /\ Echo(0, a) = SubSeq(Echo(0, b), 1, a)
<1> DEFINE x == Echo(0, a)
<1> DEFINE z == Echo(0, b)
<1>1. 0 <= a /\ a <= Len(doc) /\ 0 <= b /\ 0 \in Nat /\ a - 0 = a /\ b - 0 = b
  OBVIOUS
<1>2. /\ x \in Seq(Pieces) /\ Len(x) = a
      /\ \A i \in 1..a : x[i] = [at |-> 0 + i - 1, text |-> ByteAt(0 + i - 1)]
  BY <1>1, EchoType
<1>3. /\ z \in Seq(Pieces) /\ Len(z) = b
      /\ \A i \in 1..b : z[i] = [at |-> 0 + i - 1, text |-> ByteAt(0 + i - 1)]
  BY <1>1, EchoType
<1> HIDE DEF x, z
<1> DEFINE y == SubSeq(z, 1, a)
<1>4. y \in Seq(Pieces) /\ Len(y) = a /\ \A i \in 1..a : y[i] = z[i]
  BY <1>3
<1> HIDE DEF y
<1>5. \A i \in 1..a : x[i] = y[i]
  BY <1>2, <1>3, <1>4
<1>6. x = y
  BY <1>2, <1>4, <1>5, SeqEqual
<1>7. QED
  BY <1>2, <1>6 DEF x, y, z

(* What was pushed is the input up to somewhere; what a flush still has to
   push is the rest of what was written. *)
Echoed ==
  ~editsActive =>
    /\ destroyed => \E a \in 0..fed : out = Echo(0, a)
    /\ pc = "flush" /\ queue # <<>> => \E a \in 0..fed : queue = <<Echo(a, fed)>> /\ out = Echo(0, a)
    /\ ~destroyed /\ (pc = "flush" => queue = <<>>) => out = Echo(0, fed)

LEMMA EchoInitial == Init => Echoed
<1> SUFFICES ASSUME Init PROVE Echoed
  OBVIOUS
<1>1. pc = "idle" /\ out = <<>> /\ fed = 0 /\ destroyed = FALSE /\ doc \in Seq(Byte)
  BY EngineAssumption DEF Init
<1>2. Len(doc) \in Nat
  BY <1>1
<1>3. Len(Echo(0, 0)) = 0 /\ Echo(0, 0) \in Seq(Pieces)
  BY <1>1, <1>2, EchoType
<1>4. Echo(0, 0) = <<>>
  BY <1>3
<1>5. QED
  BY <1>1, <1>4 DEF Echoed

LEMMA EchoInductive == Inv /\ Inv' /\ Echoed /\ [Next]_vars => Echoed'
<1> SUFFICES ASSUME Inv, Inv', Echoed, [Next]_vars, ~editsActive' PROVE Echoed'
  BY DEF Echoed
<1>1. /\ doc \in Seq(Byte) /\ fed \in Nat /\ fed' \in Nat /\ Len(doc) \in Nat /\ fed <= Len(doc)
      /\ fed' <= Len(doc')
  BY DEF Inv, Typed
<1>2. doc' = doc /\ editsActive' = editsActive
  BY DEF Next, Engine, Source, vars, input, Parse, WriteDestroyed, WriteReturned, WriteBudget,
     ParseFatal, Push, Flushed, EndNumber, EndSyntax, EndBudget, EndDestroyed, Transform, Passthrough,
     Refuse, HoldChunk, EchoChunk, End, Destroy
<1>3. destroyed => pc # "flush"
  BY DEF Inv, Over
<1>4. \A a : Echo(a, fed)' = Echo(a, fed') /\ Echo(0, a)' = Echo(0, a)
  BY <1>2 DEF Echo, ByteAt
<1>5. Echo(0, fed)' = Echo(0, fed')
  BY <1>2 DEF Echo, ByteAt
(* A chunk is written: it is pushed, or queued after what was pushed. *)
<1>6. ASSUME NEW size \in ChunkSizes, Transform(size) PROVE Echoed'
  <2> DEFINE n == Min({size, Len(doc) - fed})
  <2>1. pc = "idle" /\ ~destroyed /\ n > 0 /\ (Passthrough(n) \/ Refuse(n) \/ EchoChunk(n))
    BY <1>2, <1>6 DEF Transform, HoldChunk
  <2>2. n \in Int
    <3>1. size \in Int /\ Len(doc) - fed \in Int
      BY <1>1, EngineAssumption
    <3>2. QED
      BY <3>1, MinOf
  <2> HIDE DEF n
  <2>3. fed' = fed + n /\ fed <= fed' /\ fed \in 0..fed'
    BY <1>1, <2>1, <2>2 DEF Passthrough, Refuse, EchoChunk
  <2>4. out = Echo(0, fed)
    BY <1>2, <2>1 DEF Echoed
  <2>5. CASE Passthrough(n)
    <3>1. out' = Echo(0, fed) \o Echo(fed, fed') /\ pc' = pc /\ destroyed' = destroyed
      BY <2>3, <2>4, <2>5 DEF Passthrough, life
    <3>2. out' = Echo(0, fed')
      BY <1>1, <1>2, <2>3, <3>1, EchoJoins
    <3>3. QED
      BY <1>5, <2>1, <3>1, <3>2 DEF Echoed
  <2>6. CASE Refuse(n) \/ EchoChunk(n)
    <3>1. queue' = <<Echo(fed, fed')>> /\ out' = out /\ pc' = "flush" /\ destroyed' = destroyed
      BY <1>2, <2>3, <2>6 DEF Refuse, EchoChunk
    <3>2. \E a \in 0..fed' : queue' = <<Echo(a, fed')>> /\ out' = Echo(0, a)
      BY <2>3, <2>4, <3>1
    <3>3. (\E a \in 0..fed : queue = <<Echo(a, fed)>> /\ out = Echo(0, a))'
      BY <1>4, <3>2
    <3>4. QED
      BY <2>1, <3>1, <3>3 DEF Echoed
  <2>7. QED
    BY <2>1, <2>5, <2>6
(* A push moves the chunk from the queue to the output. *)
<1>7. CASE Push
  <2>1. PICK a \in 0..fed : queue = <<Echo(a, fed)>> /\ out = Echo(0, a)
    BY <1>2, <1>7 DEF Push, Echoed
  <2>2. pc = "flush" /\ out' = out \o Head(queue) /\ queue' \in {Tail(queue), <<>>} /\ fed' = fed
    BY <1>7 DEF Push, input
  <2>3. Head(queue) = Echo(a, fed) /\ queue' = <<>>
    BY <2>1, <2>2
  <2>4. out' = Echo(0, fed')
    <3>1. a \in Nat /\ a <= fed
      BY <1>1, <2>1
    <3>2. Echo(0, a) \o Echo(a, fed) = Echo(0, fed)
      BY <1>1, <3>1, EchoJoins
    <3>3. out' = Echo(0, a) \o Echo(a, fed) /\ fed' = fed
      BY <2>1, <2>2, <2>3
    <3>4. QED
      BY <3>2, <3>3
  <2>5. fed' \in 0..fed'
    BY <1>1
  <2>6. (\E x \in 0..fed : out = Echo(0, x))'
    BY <1>4, <2>4, <2>5
  <2>7. QED
    BY <1>5, <2>3, <2>4, <2>6 DEF Echoed
(* Nothing else writes or pushes: out of a flush all of it has been pushed. *)
<1>8. ASSUME UNCHANGED <<fed, out>>, pc = "flush" => queue = <<>>, pc' # "flush", destroyed => destroyed'
      PROVE  Echoed'
  <2>1. \E a \in 0..fed : out = Echo(0, a)
    <3>1. fed \in 0..fed
      BY <1>1
    <3>2. QED
      BY <1>2, <1>8, <3>1 DEF Echoed
  <2>2. (\E a \in 0..fed : out = Echo(0, a))'
    BY <1>4, <1>8, <2>1
  <2>3. ~destroyed => out' = Echo(0, fed')
    BY <1>2, <1>8 DEF Echoed
  <2>4. QED
    BY <1>5, <1>8, <2>2, <2>3 DEF Echoed
<1>9. CASE Parse \/ EndNumber
  <2>1. /\ pc \in {"write", "end"} /\ ~spine.disposed /\ UNCHANGED <<fed, out, pc>>
    BY <1>9 DEF Parse, EndNumber, Parsing, Ending, input
  <2>2. ~destroyed
    BY <2>1 DEF Inv, Over
  <2>3. QED
    BY <1>8, <2>1, <2>2
<1>10. CASE WriteDestroyed \/ WriteReturned \/ WriteBudget \/ ParseFatal
  <2>1. pc \in {"write", "end"} /\ UNCHANGED <<fed, out, destroyed>> /\ pc' # "flush"
    BY <1>2, <1>10 DEF WriteDestroyed, WriteReturned, WriteBudget, ParseFatal, Parsing, Fail, ApplyBudget, Seal,
       Terminate, input, echo
  <2>2. QED
    BY <1>8, <2>1
<1>11. CASE Flushed
  <2>1. pc = "flush" /\ queue = <<>> /\ UNCHANGED <<fed, out, destroyed>>
    BY <1>11 DEF Flushed, input
  <2>2. pc' # "flush"
    BY <1>11, <2>1 DEF Flushed, Inv, Progress, Fail, ApplyBudget, Seal, Terminate, Verdict
  <2>3. QED
    BY <1>8, <2>1, <2>2
<1>12. CASE EndSyntax \/ EndBudget \/ EndDestroyed \/ End
  <2>1. pc \in {"end", "idle"} /\ UNCHANGED <<fed, out, destroyed>> /\ pc' # "flush"
    BY <1>2, <1>12 DEF EndSyntax, EndBudget, EndDestroyed, End, Ending, Verdict, input, echo
  <2>2. QED
    BY <1>8, <2>1
<1>13. CASE Destroy
  <2>1. pc \in {"idle", "failed", "done"} /\ UNCHANGED <<fed, out, pc>> /\ destroyed'
    BY <1>13 DEF Destroy, DestroyNow, input
  <2>2. QED
    BY <1>8, <2>1
<1>14. CASE UNCHANGED vars
  <2>1. UNCHANGED <<fed, out, queue, pc, destroyed>>
    BY <1>14 DEF vars, input, echo, life
  <2>2. /\ destroyed => \E a \in 0..fed' : out' = Echo(0, a)
        /\ pc = "flush" /\ queue # <<>> => \E a \in 0..fed' : queue' = <<Echo(a, fed')>> /\ out' = Echo(0, a)
        /\ ~destroyed /\ (pc = "flush" => queue = <<>>) => out' = Echo(0, fed')
    BY <1>2, <2>1 DEF Echoed
  <2>3. /\ destroyed => (\E a \in 0..fed : out = Echo(0, a))'
        /\ pc = "flush" /\ queue # <<>> => (\E a \in 0..fed : queue = <<Echo(a, fed)>> /\ out = Echo(0, a))'
    BY <1>4, <2>2
  <2>4. QED
    BY <1>5, <2>1, <2>2, <2>3 DEF Echoed
<1>15. QED
  BY <1>6, <1>7, <1>9, <1>10, <1>11, <1>12, <1>13, <1>14 DEF Next, Engine, Source

(* For every document, chunking, limit and answers: without edit hooks the
   output is the input, byte for byte, whatever the verdict and wherever the
   stream was refused, sealed or destroyed. *)
THEOREM EchoIsVerbatimAlways == Spec => []EchoIsVerbatim
<1>1. Inv /\ Echoed => EchoIsVerbatim
  <2> SUFFICES ASSUME Inv, Echoed, ~editsActive
               PROVE  /\ out = SubSeq(Echo(0, fed), 1, Len(out))
                      /\ pc # "flush" /\ ~destroyed => Len(out) = fed
    BY DEF EchoIsVerbatim
  <2>1. doc \in Seq(Byte) /\ fed \in Nat /\ fed <= Len(doc) /\ fed \in 0..fed
    BY DEF Inv, Typed
  <2>2. PICK a \in 0..fed : out = Echo(0, a)
    BY <2>1 DEF Echoed
  <2>3. Len(Echo(0, a)) = a /\ Echo(0, a) = SubSeq(Echo(0, fed), 1, a)
    BY <2>1, EchoPrefix
  <2>4. pc # "flush" /\ ~destroyed => Len(out) = fed
    <3>1. Len(Echo(0, fed)) = fed
      BY <2>1, EchoPrefix
    <3>2. QED
      BY <3>1 DEF Echoed
  <2>5. QED
    BY <2>2, <2>3, <2>4
<1>2. QED
  BY <1>1, DriverSound, EchoInitial, EchoInductive, PTL DEF Spec

(* The limit bounds its span wherever the text stands, until the spine
   stops. *)
Limits == Len(doc) < Infinity /\ Fits(spine, spine.tok.stack, Place(spine.tok), 0)

LEMMA LimitsInitial == Init => Limits
<1> SUFFICES ASSUME Init PROVE Limits
  OBVIOUS
<1>1. Len(doc) < Infinity /\ spine = SpineInit
  BY EngineAssumption DEF Init
<1>2. /\ spine.tok = TokenizerInit /\ spine.frames = <<>> /\ spine.opaque = 0
      /\ spine.discard.start = Infinity /\ spine.limit.kind = "none"
  BY <1>1 DEF SpineInit, NoDiscard, NoLimit
<1>3. spine.tok.stack = <<>> /\ <<>> \in Seq(Contexts) /\ Len(<<>>) = 0 /\ DOMAIN <<>> = {}
  BY <1>2 DEF TokenizerInit
<1>4. Spans(spine, spine.tok.stack, Place(spine.tok), 0)
  BY <1>2, <1>3 DEF Spans, Kinds, Holds, Drops, Armed, Discards, DropOpen
<1>5. QED
  BY <1>1, <1>4 DEF Limits, Fits

(* Every other step leaves the spine, stops it or takes the edits a flush
   wrote. *)
LEMMA OtherwiseLeaves ==
  ASSUME Inv, [Next]_vars
  PROVE  Parse \/ EndNumber \/ (Leaves(spine, spine') /\ (spine'.tok = spine.tok \/ Stopped(spine')))
<1> DEFINE Left == Leaves(spine, spine') /\ (spine'.tok = spine.tok \/ Stopped(spine'))
<1>1. SpineOK(spine) /\ spine \in Spines
  BY DEF Inv, SpineOK
<1>2. spine' = spine => Left
  BY SameLeaves
<1>3. ASSUME NEW t, Stopped(t), spine' = t PROVE Left
  BY <1>3 DEF Leaves
<1>4. ASSUME NEW x, spine' = [spine EXCEPT !.edits = x] PROVE Left
  <2>1. Leaves(spine, [spine EXCEPT !.edits = x])
    BY <1>1, AgreeLeaves
  <2>2. [spine EXCEPT !.edits = x].tok = spine.tok
    BY <1>1, SetReads DEF Fields
  <2>3. QED
    BY <1>4, <2>1, <2>2
<1>5. spine' = Released => Left
  BY <1>1, <1>3, ReleasedLeft DEF Released, Stopped
<1>6. spine' = Throw(spine, "fatal") => Left
  BY <1>1, <1>3, ThrowStops
<1>7. spine' = Dispose(spine) => Left
  BY <1>1, <1>3, DisposeLeft DEF Stopped
<1>8. spine' = Dispose(NoEdits) => Left
  <2>1. SpineOK(NoEdits)
    BY <1>1, EditsLeft DEF NoEdits
  <2>2. Dispose(NoEdits).disposed
    BY <2>1, DisposeLeft
  <2>3. QED
    BY <1>3, <2>2 DEF Stopped
<1>9. spine' = NoEdits => Left
  BY <1>4 DEF NoEdits
<1> HIDE DEF Left
<1>10. CASE Flushed
  <2>1. CASE after = "hold"
    <3>1. spine' = [spine EXCEPT !.edits = {e \in @ : e.end > EditSafeLimit}]
      BY <1>10, <2>1 DEF Flushed, Commit
    <3>2. QED
      BY <1>4, <3>1 DEF Left
  <2>2. CASE after = "write"
    BY <1>2, <1>10, <2>2 DEF Flushed, Left
  <2>3. CASE after = "budget"
    <3>1. spine' = NoEdits \/ spine' = Dispose(NoEdits)
      BY <1>10, <2>3 DEF Flushed, ApplyBudget, Seal, Terminate
    <3>2. QED
      BY <1>8, <1>9, <3>1 DEF Left
  <2>4. CASE after = "refuse"
    <3>1. spine' = NoEdits
      BY <1>10, <2>4 DEF Flushed, CommitAll, NoEdits
    <3>2. QED
      BY <1>9, <3>1 DEF Left
  <2>5. CASE after = "close"
    <3>1. spine' = NoEdits
      BY <1>10, <2>5 DEF Flushed, Verdict
    <3>2. QED
      BY <1>9, <3>1 DEF Left
  <2>6. QED
    BY <1>10, <2>1, <2>2, <2>3, <2>4, <2>5 DEF Inv, Progress, Flushed
<1>11. CASE WriteDestroyed \/ EndDestroyed \/ Destroy
  <2>1. spine' = Released
    BY <1>11 DEF WriteDestroyed, EndDestroyed, Destroy, DestroyNow
  <2>2. QED
    BY <1>5, <2>1 DEF Left
<1>12. CASE Push
  <2>1. spine' = Released \/ spine' = spine
    BY <1>12 DEF Push, DestroyNow
  <2>2. QED
    BY <1>2, <1>5, <2>1 DEF Left
<1>13. CASE WriteBudget
  <2>1. spine' = spine \/ spine' = Dispose(spine)
    BY <1>13 DEF WriteBudget, ApplyBudget, Seal, Terminate
  <2>2. QED
    BY <1>2, <1>7, <2>1 DEF Left
<1>14. CASE EndSyntax
  <2>1. spine' = spine \/ spine' = Throw(spine, "fatal")
    BY <1>14 DEF EndSyntax, Verdict
  <2>2. QED
    BY <1>2, <1>6, <2>1 DEF Left
<1>15. CASE WriteReturned \/ ParseFatal \/ EndBudget \/ Source \/ UNCHANGED vars
  <2>1. spine' = spine
    BY <1>15 DEF WriteReturned, ParseFatal, EndBudget, Source, Transform, Passthrough, Refuse, HoldChunk,
       EchoChunk, End, Verdict, vars
  <2>2. QED
    BY <1>2, <2>1 DEF Left
<1>16. QED
  BY <1>10, <1>11, <1>12, <1>13, <1>14, <1>15 DEF Next, Engine, Left

LEMMA LimitsInductive == Inv /\ Limits /\ [Next]_vars => Limits'
<1> SUFFICES ASSUME Inv, Limits, [Next]_vars PROVE Limits'
  OBVIOUS
<1>1. doc' = doc
  BY DEF Next, Engine, Source, vars, input, Parse, WriteDestroyed, WriteReturned, WriteBudget,
     ParseFatal, Push, Flushed, EndNumber, EndSyntax, EndBudget, EndDestroyed, Transform, Passthrough,
     Refuse, HoldChunk, EchoChunk, End, Destroy
<1>2. SUFFICES Fits(spine', spine'.tok.stack, Place(spine'.tok), 0)
  <2>1. Place(spine.tok)' = Place(spine'.tok)
    BY DEF Place, BeforeValue, ValueString
  <2>2. Fits(spine, spine.tok.stack, Place(spine.tok), 0)' = Fits(spine', spine'.tok.stack, Place(spine'.tok), 0)
    BY <2>1 DEF Fits, Spans, Kinds, Holds, Drops, Armed, Stopped, Threw, Discards, DropOpen, Top
  <2>3. QED
    BY <1>1, <2>2 DEF Limits
<1>3. /\ SpineOK(spine) /\ spine.tok.pos \in Nat /\ Infinity \in Nat /\ total \in Nat
      /\ total <= Len(doc) /\ Len(doc) \in Nat /\ Len(doc) < Infinity /\ spine.tok.pos <= total
  <2>1. /\ SpineOK(spine) /\ spine.tok.pos \in Nat /\ Infinity \in Nat /\ Len(doc) < Infinity
        /\ spine.tok.pos <= total
    BY SpineType, Numbers DEF Inv, SpineOK, Progress, Limits
  <2>2. total \in Nat /\ fed \in Nat /\ total <= fed /\ fed <= Len(doc) /\ Len(doc) \in Nat
    BY DEF Inv, Typed
  <2>3. QED
    BY <2>1, <2>2
<1>4. CASE Parse
  <2> DEFINE b == ByteAt(spine.tok.pos)
  <2> DEFINE event == Scan(spine.tok, b).event
  <2>1. PICK u \in Answers(event) : spine' = Step(spine, b, u)
    BY <1>4 DEF Parse
  <2>2. ~Stopped(spine) /\ spine.tok.pos < total
    BY <1>4 DEF Parse, Parsing, Threw, Stopped
  <2>3. b \in Byte
    <3>1. doc \in Seq(Byte)
      BY DEF Inv, Typed
    <3>2. spine.tok.pos + 1 \in 1..Len(doc)
      BY <1>3, <2>2
    <3>3. QED
      BY <3>1, <3>2 DEF ByteAt
  <2> HIDE DEF b, event
  <2>4. Answering(u)
    BY AnswersType DEF Inv, Typed
  <2>5. spine.tok.pos # Infinity /\ spine.tok.pos + 1 # Infinity
    BY <1>3, <2>2
  <2>6. Spans(spine, spine.tok.stack, Place(spine.tok), 0)
    BY <2>2 DEF Limits, Fits
  <2>7. QED
    BY <1>3, <2>1, <2>2, <2>3, <2>4, <2>5, <2>6, StepSpans
<1>5. CASE EndNumber
  <2> DEFINE event == FinishNumber(spine.tok).event
  <2>1. PICK u \in Answers(event) : spine' = EndStep(spine, u)
    BY <1>5 DEF EndNumber
  <2>2. ~Stopped(spine) /\ spine.tok.state = "number"
    BY <1>5 DEF EndNumber, Ending, Threw, Stopped
  <2> HIDE DEF event
  <2>3. Answering(u)
    BY AnswersType DEF Inv, Typed
  <2>4. spine.tok.pos # Infinity
    BY <1>3
  <2>5. Spans(spine, spine.tok.stack, Place(spine.tok), 0)
    BY <2>2 DEF Limits, Fits
  <2>6. QED
    BY <1>3, <2>1, <2>2, <2>3, <2>4, <2>5, EndStepSpans
<1>6. CASE ~Parse /\ ~EndNumber
  <2>1. Leaves(spine, spine') /\ (spine'.tok = spine.tok \/ Stopped(spine'))
    BY <1>6, OtherwiseLeaves
  <2>2. Fits(spine', spine.tok.stack, Place(spine.tok), 0)
    BY <2>1, LeavesFits DEF Limits
  <2>3. QED
    BY <2>1, <2>2 DEF Fits
<1>7. QED
  BY <1>4, <1>5, <1>6

(* For every document, chunking, limit and answers of the hooks: the byte
   limit stands exactly while a held member prefix or a dropped value is open,
   however deep the text goes on inside it, so neither can grow unbounded and
   no limit outlives its span to refuse bytes that are nobody's. *)
THEOREM LimitMatchesSpanAlways == Spec => []LimitMatchesSpan
<1>1. Inv /\ Limits => LimitMatchesSpan
  <2> SUFFICES ASSUME Inv, Limits, spine.thrown = "none", ~spine.disposed
               PROVE  /\ spine.limit.kind = "prefix" <=> MemberPrefixStart(spine) # Infinity
                      /\ spine.limit.kind = "drop" <=> (DropOpen(spine) /\ MaxDrop # Infinity)
    BY DEF LimitMatchesSpan
  <2>1. Spans(spine, spine.tok.stack, Place(spine.tok), 0)
    BY DEF Limits, Fits, Stopped, Threw
  <2>2. MemberPrefixStart(spine) # Infinity <=> spine.frames # <<>> /\ Top(spine).prefix # Infinity
    <3>1. CASE spine.frames = <<>>
      BY <3>1 DEF MemberPrefixStart, InObject
    <3>2. CASE spine.frames # <<>>
      <4>1. spine.frames \in Seq(FrameType)
        BY SpineType DEF Inv, SpineOK
      <4>2. Len(spine.frames) \in DOMAIN spine.frames
        BY <3>2, <4>1
      <4>3. Top(spine).prefix # Infinity => Top(spine).kind = "object"
        BY <2>1, <4>2 DEF Spans, Holds, Top
      <4>4. QED
        BY <3>2, <4>3 DEF MemberPrefixStart, InObject
    <3>3. QED
      BY <3>1, <3>2
  <2>3. QED
    BY <2>1, <2>2 DEF Spans, Armed
<1>2. QED
  BY <1>1, DriverSound, LimitsInitial, LimitsInductive, PTL DEF Spec

(* A byte is quoted exactly while the tokenizer reads a string. *)
LEMMA QuotedOn ==
  ASSUME NEW d, NEW o \in Nat
  PROVE  Quoted(d, o + 1) <=> (Quoted(d, o) <=> d[o + 1] # "Q")
<1> DEFINE S == {p \in 1..o : d[p] = "Q"}
<1> DEFINE T == {p \in 1..o + 1 : d[p] = "Q"}
<1>1. IsFiniteSet(S) /\ Cardinality(S) \in Nat
  <2>1. IsFiniteSet(1..o)
    BY FS_Interval
  <2>2. IsFiniteSet(S)
    BY <2>1, FS_Subset
  <2>3. QED
    BY <2>2, FS_CardinalityType
<1>2. CASE d[o + 1] = "Q"
  <2>1. T = S \cup {o + 1} /\ o + 1 \notin S
    BY <1>2
  <2>2. Cardinality(T) = Cardinality(S) + 1
    BY <1>1, <2>1, FS_AddElement
  <2>3. ASSUME NEW n \in Nat PROVE (n + 1) % 2 = 1 <=> n % 2 # 1
    OBVIOUS
  <2> HIDE DEF S, T
  <2>4. Cardinality(T) % 2 = 1 <=> Cardinality(S) % 2 # 1
    BY <1>1, <2>2, <2>3
  <2>5. QED
    BY <1>2, <2>4 DEF Quoted, S, T
<1>3. CASE d[o + 1] # "Q"
  <2>1. T = S
    BY <1>3
  <2>2. QED
    BY <1>3, <2>1 DEF Quoted
<1>4. QED
  BY <1>2, <1>3

LEMMA QuotedAtFirst == ASSUME NEW d PROVE ~Quoted(d, 0)
<1>1. {p \in 1..0 : d[p] = "Q"} = {}
  OBVIOUS
<1>2. Cardinality({}) % 2 = 0
  BY FS_EmptySet
<1>3. QED
  BY <1>1, <1>2 DEF Quoted

Reading(d, k) == Quoted(d, k.pos) <=> k.state = "string"

LEMMA ReadingOn ==
  ASSUME NEW d, NEW k \in Tokenizers, Reading(d, k), NEW r, r.t \in Tokenizers,
         ReadsOn(k, d[k.pos + 1], r)
  PROVE  Reading(d, r.t)
<1>1. k.pos \in Nat /\ k.pos # k.pos + 1
  BY DEF Tokenizers
<1>2. CASE r.t.pos = k.pos + 1
  <2>1. r.t.state = "string" <=> (k.state = "string" <=> d[k.pos + 1] # "Q")
    BY <1>2 DEF ReadsOn
  <2>2. Quoted(d, k.pos + 1) <=> (Quoted(d, k.pos) <=> d[k.pos + 1] # "Q")
    BY <1>1, QuotedOn
  <2>3. Quoted(d, k.pos) <=> k.state = "string"
    BY DEF Reading
  <2>4. Quoted(d, k.pos + 1) <=> r.t.state = "string"
    BY <2>1, <2>2, <2>3
  <2>5. QED
    BY <1>2, <2>4 DEF Reading
<1>3. CASE r.t.pos # k.pos + 1
  <2>1. r.t.pos = k.pos /\ (r.t.state = "string" <=> k.state = "string")
    BY <1>3 DEF ReadsOn
  <2>2. Quoted(d, k.pos) <=> r.t.state = "string"
    BY <2>1 DEF Reading
  <2>3. QED
    BY <2>1, <2>2 DEF Reading
<1>4. QED
  BY <1>2, <1>3

(* The bytes a held prefix is bounded by: those between the brace or the
   comma and the key, and between the key and the value. *)
Sep == {"w", ":", ","}

Clear(d, from, until) == \A o \in from..until - 1 : o \notin Bytes(d, Sep)

LEMMA ClearOn ==
  ASSUME NEW d, NEW from \in Nat, NEW until \in Nat, Clear(d, from, until),
         d[until + 1] \notin Sep \/ Quoted(d, until)
  PROVE  Clear(d, from, until + 1)
<1>1. until \notin Bytes(d, Sep)
  BY DEF Bytes
<1>2. \A o \in from..(until + 1) - 1 : o = until \/ o \in from..until - 1
  OBVIOUS
<1>3. QED
  BY <1>1, <1>2 DEF Clear

LEMMA ClearNone == ASSUME NEW d, NEW at \in Nat PROVE Clear(d, at, at)
  BY DEF Clear

(* Where the prefix, the key and the limit stand for each place in the
   member, from no byte before floor. *)
Stretch(d, s, k, floor) ==
  Held(s) =>
    LET p == Top(s).prefix
        ks == Top(s).keyStart
        ke == Top(s).keyEnd
        at == s.limit.at
    IN  /\ floor <= p
        /\ k.state \in {"keyOrEndObject", "key"} => p <= k.pos /\ k.pos <= at /\ at = p + MaxPrefix
        /\ k.state = "string" =>
             p <= k.start /\ k.start <= p + MaxPrefix /\ k.start < k.pos /\ Clear(d, k.start, k.pos)
        /\ k.state \in {"colon", "value", "number"} =>
             p <= ks /\ ks <= ke /\ at = ke + MaxPrefix - (ks - p) /\ ke <= at /\ Clear(d, ks, ke)
        /\ k.state \in {"colon", "value"} => ke <= k.pos /\ k.pos <= at
        /\ k.state = "number" =>
             ke <= k.start /\ k.start <= at /\ k.start <= k.pos /\ Clear(d, k.start, k.pos)

LEMMA QuietStretch ==
  ASSUME NEW d, NEW s \in Spines, NEW k \in Tokenizers, s.tok = k, NEW floor \in Nat,
         Stretch(d, s, k, floor), Held(s) => BeforeValue(k), Reading(d, k),
         NEW b, b = d[k.pos + 1], ~AtLimit(s, b),
         NEW u \in Tokenizers, Quietly(k, b, u)
  PROVE  Stretch(d, s, u, floor)
<1> SUFFICES ASSUME Held(s) PROVE Stretch(d, s, u, floor)
  BY DEF Stretch
<1> DEFINE p == Top(s).prefix
<1> DEFINE ks == Top(s).keyStart
<1> DEFINE ke == Top(s).keyEnd
<1> DEFINE at == s.limit.at
<1>1. p \in Nat /\ ks \in Nat /\ ke \in Nat /\ at \in Int /\ MaxPrefix \in Nat
  BY StretchTypes DEF Held
<1>2. /\ k.pos \in Nat /\ k.start \in Nat /\ u.pos \in Nat /\ u.start \in Nat
  BY DEF Tokenizers
<1>3. /\ floor <= p
      /\ k.state \in {"keyOrEndObject", "key"} => p <= k.pos /\ k.pos <= at /\ at = p + MaxPrefix
      /\ k.state = "string" =>
           p <= k.start /\ k.start <= p + MaxPrefix /\ k.start < k.pos /\ Clear(d, k.start, k.pos)
      /\ k.state \in {"colon", "value", "number"} =>
           p <= ks /\ ks <= ke /\ at = ke + MaxPrefix - (ks - p) /\ ke <= at /\ Clear(d, ks, ke)
      /\ k.state \in {"colon", "value"} => ke <= k.pos /\ k.pos <= at
      /\ k.state = "number" =>
           ke <= k.start /\ k.start <= at /\ k.start <= k.pos /\ Clear(d, k.start, k.pos)
  BY DEF Stretch
<1>4. \/ k.state \in {"keyOrEndObject", "key", "colon", "value", "number"}
      \/ k.state = "string" /\ k.isKey
  BY DEF BeforeValue
<1>5. ~(k.pos >= at) \/ ~LimitCounts(s, b)
  BY DEF AtLimit
<1> DEFINE Goal ==
      /\ u.state \in {"keyOrEndObject", "key"} => p <= u.pos /\ u.pos <= at /\ at = p + MaxPrefix
      /\ u.state = "string" =>
           p <= u.start /\ u.start <= p + MaxPrefix /\ u.start < u.pos /\ Clear(d, u.start, u.pos)
      /\ u.state \in {"colon", "value", "number"} =>
           p <= ks /\ ks <= ke /\ at = ke + MaxPrefix - (ks - p) /\ ke <= at /\ Clear(d, ks, ke)
      /\ u.state \in {"colon", "value"} => ke <= u.pos /\ u.pos <= at
      /\ u.state = "number" =>
           ke <= u.start /\ u.start <= at /\ u.start <= u.pos /\ Clear(d, u.start, u.pos)
<1>6. SUFFICES Goal
  BY <1>3 DEF Stretch
<1>7. ASSUME b = "w" \/ b = ":", k.state = "colon" \/ (b = "w" /\ k.state \in {"keyOrEndObject", "key", "value"})
      PROVE  k.pos + 1 <= at
  <2>1. LimitCounts(s, b)
    BY <1>7 DEF LimitCounts
  <2> HIDE DEF at
  <2>2. QED
    BY <1>1, <1>2, <1>5, <2>1
<1> HIDE DEF p, ks, ke, at
<1>8. CASE k.state \notin {"string", "number"} /\ b = "w" /\ u.state = k.state /\ u.pos = k.pos + 1
  <2>1. k.state \in {"keyOrEndObject", "key", "colon", "value"}
    BY <1>4, <1>8
  <2>2. u.pos <= at
    BY <1>7, <1>8, <2>1
  <2>3. u.state \in {"keyOrEndObject", "key"} => p <= u.pos /\ at = p + MaxPrefix
    BY <1>1, <1>2, <1>3, <1>8
  <2>4. u.state \in {"colon", "value"} => ke <= u.pos
    BY <1>1, <1>2, <1>3, <1>8
  <2>5. QED
    BY <1>3, <1>8, <2>1, <2>2, <2>3, <2>4
<1>9. CASE /\ k.state \in {"colon", "commaOrEndArray"} /\ u.state = "value" /\ u.pos = k.pos + 1
           /\ k.state = "colon" => b = ":"
  <2>1. k.state = "colon" /\ b = ":"
    BY <1>4, <1>9
  <2>2. u.pos <= at
    BY <1>7, <1>9, <2>1
  <2>3. ke <= u.pos
    BY <1>1, <1>2, <1>3, <1>9, <2>1
  <2>4. QED
    BY <1>3, <1>9, <2>1, <2>2, <2>3
<1>10. CASE /\ k.state \in {"key", "keyOrEndObject"} /\ b = "Q"
            /\ u.state = "string" /\ u.isKey = TRUE /\ u.start = k.pos /\ u.pos = k.pos + 1
  <2>0. Clear(d, k.pos, k.pos) /\ d[k.pos + 1] \notin Sep
    BY <1>2, <1>10, ClearNone DEF Sep
  <2>1. Clear(d, k.pos, k.pos + 1)
    BY <1>2, <2>0, ClearOn
  <2>2. p <= k.pos /\ k.pos <= p + MaxPrefix /\ k.pos < k.pos + 1
    BY <1>1, <1>2, <1>3, <1>10
  <2>3. QED
    BY <1>10, <2>1, <2>2
<1>11. CASE /\ k.state = "string" /\ k.isKey /\ b # "Q"
            /\ u.state = "string" /\ u.isKey = TRUE /\ u.start = k.start /\ u.pos = k.pos + 1
  <2>1. Quoted(d, k.pos)
    BY <1>11 DEF Reading
  <2>2. Clear(d, k.start, k.pos + 1)
    BY <1>2, <1>3, <1>11, <2>1, ClearOn
  <2>3. p <= k.start /\ k.start <= p + MaxPrefix /\ k.start < k.pos + 1
    BY <1>1, <1>2, <1>3, <1>11
  <2>4. QED
    BY <1>11, <2>2, <2>3
<1>12. CASE k.state \in {"value", "valueOrEndArray"} /\ u.state = "number" /\ u.start = k.pos /\ u.pos = k.pos
  <2>1. k.state = "value"
    BY <1>4, <1>12
  <2>2. Clear(d, k.pos, k.pos) /\ k.pos <= k.pos
    BY <1>2, ClearNone
  <2>3. QED
    BY <1>3, <1>12, <2>1, <2>2
<1>13. CASE /\ k.state = "number" /\ b \in NumberByte
            /\ u.state = "number" /\ u.start = k.start /\ u.pos = k.pos + 1
  <2>1. b \notin Sep
    <3>1. b = "n" \/ b = "-"
      BY <1>13 DEF NumberByte
    <3> HIDE DEF Goal
    <3>2. QED
      BY <3>1 DEF Sep
  <2>2. Clear(d, k.start, k.pos + 1)
    BY <1>2, <1>3, <1>13, <2>1, ClearOn
  <2>3. k.start <= k.pos + 1
    BY <1>2, <1>3, <1>13
  <2>4. QED
    BY <1>3, <1>13, <2>2, <2>3
<1>14. QED
  BY <1>8, <1>9, <1>10, <1>11, <1>12, <1>13 DEF Quietly

LEMMA StretchAgrees ==
  ASSUME NEW d, NEW s, NEW t, Agree(s, t), NEW k, NEW floor, Stretch(d, s, k, floor)
  PROVE  Stretch(d, t, k, floor)
  BY DEF Stretch, Agree, Held, Top

(* The bytes of the key end where its quote is read; the allowance goes on
   from there. *)
LEMMA KeyStretch ==
  ASSUME NEW d, NEW s \in Spines, NEW t \in Spines, NEW k \in Tokenizers, NEW floor \in Nat,
         Stretch(d, s, k, floor), Held(s), k.state = "string", d[k.pos + 1] = "Q",
         NEW u, u.state = "colon", u.pos = k.pos + 1, Held(t),
         Top(t).prefix = Top(s).prefix, Top(t).keyStart = k.start, Top(t).keyEnd = k.pos + 1,
         t.limit.at = k.pos + 1 + MaxPrefix - (k.start - Top(s).prefix)
  PROVE  Stretch(d, t, u, floor)
<1> DEFINE p == Top(s).prefix
<1> DEFINE ks == k.start
<1> DEFINE ke == k.pos + 1
<1> DEFINE at == ke + MaxPrefix - (ks - p)
<1>1. p \in Nat /\ ks \in Nat /\ k.pos \in Nat /\ MaxPrefix \in Nat
  BY StretchTypes DEF Held, Tokenizers
<1>2. floor <= p /\ p <= ks /\ ks <= p + MaxPrefix /\ ks < k.pos /\ Clear(d, ks, k.pos)
  BY DEF Stretch
<1>3. d[k.pos + 1] \notin Sep
  BY DEF Sep
<1>4. Clear(d, ks, ke)
  BY <1>1, <1>2, <1>3, ClearOn
<1>5. Top(t).prefix = p /\ Top(t).keyStart = ks /\ Top(t).keyEnd = ke /\ t.limit.at = at /\ u.pos = ke
  OBVIOUS
<1> HIDE DEF p
<1>6. ks <= ke /\ ke <= at
  BY <1>1, <1>2
<1> HIDE DEF ks, ke, at
<1>7. ke <= ke
  BY <1>1 DEF ke
<1>8. QED
  BY <1>2, <1>4, <1>5, <1>6, <1>7 DEF Stretch

LEMMA DeliverStretch ==
  ASSUME NEW d, NEW s, SpineOK(s), ~Stopped(s), s.tok.pos # Infinity,
         NEW r, Follows(s.tok, r), Tells(s.tok, r), ReadsOn(s.tok, d[s.tok.pos + 1], r),
         r.t \in Tokenizers, r.event.type \notin {"number", "error"} => s.tok.pos + 1 # Infinity,
         r.event.type = "none" => ~AtLimit(s, d[s.tok.pos + 1]),
         NEW u, Answering(u), Spans(s, s.tok.stack, Place(s.tok), 0),
         Reading(d, s.tok), NEW floor \in Nat, floor <= s.tok.pos, Stretch(d, s, s.tok, floor),
         NEW t, t = Deliver(s, r, u), ~Stopped(t)
  PROVE  Stretch(d, t, t.tok, floor) /\ Reading(d, t.tok) /\ floor <= t.tok.pos
<1> DEFINE k == s.tok
<1> DEFINE h == Handle(s, r.event, u)
<1>1. /\ s \in Spines /\ Counted(s) /\ r.event \in Events /\ k \in Tokenizers
      /\ Len(k.stack) = Len(s.frames) + s.opaque
  BY SpineType DEF SpineOK, Sized, Tells, Stopped
<1>2. Len(s.frames) \in Nat /\ s.opaque \in Nat /\ s.frames \in Seq(FrameType)
  BY <1>1, SpineType
<1>3. r.event.type \in Ends \cup Within => s.frames # <<>> \/ s.opaque > 0
  BY <1>1, <1>2 DEF Tells
<1>4. h \in Spines
  <2>1. Opens(s, h) \/ Closes(s, h) \/ Onward(s, h)
    BY <1>1, <1>3, HandleMoves
  <2>2. QED
    BY <2>1 DEF Opens, Closes, Onward, Moves
<1>5. t = IF Threw(h) \/ h.disposed THEN h ELSE [h EXCEPT !.tok = r.t]
  BY DEF Deliver
<1>6. /\ r.event.type = "startObject" => h = OnStart(s, "object", u)
      /\ r.event.type = "key" => h = OnKey(s, r.event.key, r.event.start, u)
      /\ r.event.type = "memberComma" => h = OnMemberComma(s)
      /\ r.event.type = "none" => h = s
      /\ r.event.type = "error" => h = Throw(s, "fatal")
  BY DEF Handle
<1>7. Fits(t, t.tok.stack, Place(t.tok), 0)
  BY DeliverSpans
<1> HIDE DEF h
<1>8. ~Stopped(h) /\ t = [h EXCEPT !.tok = r.t]
  BY <1>5 DEF Stopped
<1>9. t \in Spines /\ t.tok = r.t /\ Agree(h, t) /\ Agree(t, h)
  <2>0. "tok" \in Fields
    BY DEF Fields
  <2>1. t.tok = r.t /\ \A g \in Fields \ {"tok"} : t[g] = h[g]
    BY <1>4, <1>8, <2>0, SetReads
  <2>2. t \in Spines
    BY <1>4, <1>8, SetFields
  <2>3. QED
    BY <2>1, <2>2 DEF Fields, Agree
<1>10. Spans(t, r.t.stack, Place(r.t), 0)
  BY <1>7, <1>9 DEF Fits
<1>11. Spans(h, r.t.stack, Place(r.t), 0)
  BY <1>9, <1>10, AgreeSpans
<1>12. Reading(d, r.t)
  BY <1>1, ReadingOn
<1>13. k.pos \in Nat /\ k.start \in Nat /\ r.t.pos \in {k.pos, k.pos + 1} /\ MaxPrefix \in Nat
  BY <1>1, Numbers DEF ReadsOn, Tokenizers
<1>14. floor <= k.pos + 1 /\ floor <= r.t.pos
  BY <1>13
<1>15. SUFFICES Stretch(d, h, r.t, floor)
  BY <1>9, <1>12, <1>14, StretchAgrees
<1>16. SUFFICES ASSUME Held(h) PROVE Stretch(d, h, r.t, floor)
  BY DEF Stretch
<1>17. Place(r.t) = "before" /\ BeforeValue(r.t)
  BY <1>4, <1>11, <1>16, HeldIs, PlaceIs
<1>18. CASE r.event.type = "startObject"
  <2>1. Top(h).prefix = k.pos + 1 /\ h.limit.at = k.pos + 1 + MaxPrefix
    <3>1. "object" \in Contexts
      BY DEF Contexts
    <3>2. QED
      BY <1>1, <1>4, <1>6, <1>8, <1>11, <1>16, <1>18, <3>1, StartHolds
  <2>2. r.t.state = "keyOrEndObject" /\ r.t.pos = k.pos + 1
    BY <1>18 DEF ReadsOn
  <2>3. k.pos + 1 <= k.pos + 1 + MaxPrefix /\ k.pos + 1 <= k.pos + 1
    BY <1>13
  <2>4. QED
    BY <1>14, <2>1, <2>2, <2>3 DEF Stretch
<1>19. CASE r.event.type = "key"
  <2>1. /\ Held(s) /\ Top(h).prefix = Top(s).prefix
        /\ Top(h).keyStart = r.event.start /\ Top(h).keyEnd = k.pos + 1
        /\ h.limit.at = k.pos + 1 + MaxPrefix - (r.event.start - Top(s).prefix)
    <3>1. r.event.key \in Seq(Byte) /\ r.event.start \in Nat
      BY <1>1 DEF Events
    <3>2. s.frames # <<>> \/ s.opaque > 0
      BY <1>3, <1>19 DEF Within
    <3>3. h = OnKey(s, r.event.key, r.event.start, u)
      BY <1>6, <1>19
    <3>4. QED
      BY <1>1, <1>4, <1>8, <1>11, <1>16, <3>1, <3>2, <3>3, KeyHolds
  <2>2. /\ k.state = "string" /\ d[k.pos + 1] = "Q" /\ r.event.start = k.start
        /\ r.t.state = "colon" /\ r.t.pos = k.pos + 1
    BY <1>19 DEF ReadsOn
  <2>3. QED
    BY <1>1, <1>4, <1>16, <2>1, <2>2, KeyStretch
<1>20. CASE r.event.type = "memberComma"
  <2>1. Top(h).prefix = k.pos /\ h.limit.at = k.pos + MaxPrefix
    <3>1. s.frames # <<>> \/ s.opaque > 0
      BY <1>3, <1>20 DEF Within
    <3>2. QED
      BY <1>1, <1>4, <1>6, <1>11, <1>16, <1>20, <3>1, CommaHolds
  <2>2. r.t.state = "key" /\ r.t.pos = k.pos + 1
    BY <1>20 DEF ReadsOn
  <2>3. k.pos <= k.pos + 1 /\ k.pos + 1 <= k.pos + MaxPrefix
    BY <1>13, MemberEditsAssumption
  <2>4. QED
    BY <2>1, <2>2, <2>3 DEF Stretch
<1>21. CASE r.event.type = "none"
  <2>1. h = s
    BY <1>6, <1>21
  <2>2. Held(s) => BeforeValue(k)
    BY <1>1, HeldIs, PlaceIs
  <2>3. Quietly(k, d[k.pos + 1], r.t) /\ ~AtLimit(s, d[k.pos + 1])
    BY <1>21 DEF ReadsOn
  <2>4. QED
    BY <1>1, <2>1, <2>2, <2>3, QuietStretch
<1>22. CASE r.event.type = "error"
  BY <1>1, <1>6, <1>8, <1>22, ThrowStops
<1>23. CASE r.event.type \notin {"startObject", "key", "memberComma", "none", "error"}
  <2>1. r.event.type \in {"startArray", "stringStart", "text", "stringEnd", "number", "literal"} \cup Ends
    BY <1>1, <1>23 DEF Events, Starts, Ends, Within
  <2>2. ~BeforeValue(r.t)
    BY <2>1 DEF Follows, BetweenTokens
  <2>3. QED
    BY <1>17, <2>2
<1>24. QED
  BY <1>18, <1>19, <1>20, <1>21, <1>22, <1>23

LEMMA StepStretch ==
  ASSUME NEW d, NEW s, SpineOK(s), ~Stopped(s), s.tok.pos # Infinity, s.tok.pos + 1 # Infinity,
         NEW u, Answering(u), NEW b \in Byte, b = d[s.tok.pos + 1],
         Spans(s, s.tok.stack, Place(s.tok), 0),
         Reading(d, s.tok), NEW floor \in Nat, floor <= s.tok.pos, Stretch(d, s, s.tok, floor),
         NEW t, t = Step(s, b, u), ~Stopped(t)
  PROVE  Stretch(d, t, t.tok, floor) /\ Reading(d, t.tok) /\ floor <= t.tok.pos
<1>1. ~AtLimit(s, b)
  BY ThrowStops DEF Step, SpineOK
<1> DEFINE r == Scan(s.tok, b)
<1>2. Sound(s.tok)
  BY DEF SpineOK, Stopped
<1>3. /\ Tells(s.tok, r) /\ r.t \in Tokenizers /\ Follows(s.tok, r)
      /\ ReadsOn(s.tok, d[s.tok.pos + 1], r)
  BY <1>2, ScanTells, ScanSound, ScanFollows, ScanReadsOn DEF Sound
<1>4. t = Deliver(s, r, u)
  BY <1>1 DEF Step
<1> HIDE DEF r
<1>5. QED
  BY <1>1, <1>3, <1>4, DeliverStretch

LEMMA EndStepStretch ==
  ASSUME NEW d, NEW s, SpineOK(s), ~Stopped(s), s.tok.pos # Infinity, s.tok.state = "number",
         NEW u, Answering(u), Spans(s, s.tok.stack, Place(s.tok), 0),
         Reading(d, s.tok), NEW floor \in Nat, floor <= s.tok.pos, Stretch(d, s, s.tok, floor),
         NEW t, t = EndStep(s, u), ~Stopped(t)
  PROVE  Stretch(d, t, t.tok, floor) /\ Reading(d, t.tok) /\ floor <= t.tok.pos
<1> DEFINE r == FinishNumber(s.tok)
<1>1. Sound(s.tok) /\ s.tok \in Tokenizers
  BY DEF SpineOK, Stopped, Sound
<1>2. /\ Tells(s.tok, r) /\ r.t \in Tokenizers /\ Follows(s.tok, r)
      /\ ReadsOn(s.tok, d[s.tok.pos + 1], r)
  BY <1>1, FinishNumberTells, FinishNumberSound, FinishNumberFollows, FinishNumberReadsOn DEF Sound
<1>3. r.event.type \in {"number", "error"}
  BY DEF FinishNumber, Result, Bad, EventOf
<1>4. t = Deliver(s, r, u)
  BY DEF EndStep
<1> HIDE DEF r
<1>5. QED
  BY <1>2, <1>3, <1>4, DeliverStretch

(* A set within two intervals is no larger than both. *)
LEMMA TwoSpans ==
  ASSUME NEW a \in Nat, NEW b \in Nat, NEW c \in Nat, NEW e \in Nat, a <= b, c <= e,
         NEW X, X \subseteq (a..b - 1) \cup (c..e - 1)
  PROVE  Cardinality(X) <= (b - a) + (e - c)
<1> DEFINE S == a..b - 1
<1> DEFINE T == c..e - 1
<1>1. /\ IsFiniteSet(S) /\ Cardinality(S) = b - a
      /\ IsFiniteSet(T) /\ Cardinality(T) = e - c
  <2>1. b - 1 \in Int /\ e - 1 \in Int /\ a \in Int /\ c \in Int
    OBVIOUS
  <2>2. /\ IsFiniteSet(S) /\ Cardinality(S) = IF a > b - 1 THEN 0 ELSE (b - 1) - a + 1
        /\ IsFiniteSet(T) /\ Cardinality(T) = IF c > e - 1 THEN 0 ELSE (e - 1) - c + 1
    BY <2>1, FS_Interval
  <2> HIDE DEF S, T
  <2>3. QED
    BY <2>2
<1>2. X \in SUBSET (S \cup T)
  OBVIOUS
<1> HIDE DEF S, T
<1>3. /\ IsFiniteSet(S \cup T) /\ IsFiniteSet(S \cap T)
      /\ Cardinality(S \cup T) = Cardinality(S) + Cardinality(T) - Cardinality(S \cap T)
  BY <1>1, FS_Union, FS_Intersection
<1>4. Cardinality(S \cap T) \in Nat /\ Cardinality(S \cup T) \in Nat
  BY <1>3, FS_CardinalityType
<1>5. IsFiniteSet(X) /\ Cardinality(X) <= Cardinality(S \cup T)
  BY <1>2, <1>3, FS_Subset
<1>6. Cardinality(X) \in Nat
  BY <1>5, FS_CardinalityType
<1>7. QED
  BY <1>1, <1>3, <1>4, <1>5, <1>6

(* What a held prefix retains is within its allowance. *)
LEMMA StretchBounds ==
  ASSUME NEW d, NEW s \in Spines, NEW k \in Tokenizers, NEW floor \in Nat, Stretch(d, s, k, floor),
         Held(s), BeforeValue(k)
  PROVE  Cardinality(Bytes(d, Sep) \cap (Top(s).prefix..k.pos - 1)) <= MaxPrefix
<1> DEFINE p == Top(s).prefix
<1> DEFINE ks == Top(s).keyStart
<1> DEFINE ke == Top(s).keyEnd
<1> DEFINE at == s.limit.at
<1> DEFINE X == Bytes(d, Sep) \cap (p..k.pos - 1)
<1>1. p \in Nat /\ ks \in Nat /\ ke \in Nat /\ at \in Int /\ MaxPrefix \in Nat
  BY StretchTypes DEF Held
<1>2. /\ k.pos \in Nat /\ k.start \in Nat
  BY DEF Tokenizers
<1>3. /\ floor <= p
      /\ k.state \in {"keyOrEndObject", "key"} => p <= k.pos /\ k.pos <= at /\ at = p + MaxPrefix
      /\ k.state = "string" =>
           p <= k.start /\ k.start <= p + MaxPrefix /\ k.start < k.pos /\ Clear(d, k.start, k.pos)
      /\ k.state \in {"colon", "value", "number"} =>
           p <= ks /\ ks <= ke /\ at = ke + MaxPrefix - (ks - p) /\ ke <= at /\ Clear(d, ks, ke)
      /\ k.state \in {"colon", "value"} => ke <= k.pos /\ k.pos <= at
      /\ k.state = "number" =>
           ke <= k.start /\ k.start <= at /\ k.start <= k.pos /\ Clear(d, k.start, k.pos)
  BY DEF Stretch
<1>4. \/ k.state \in {"keyOrEndObject", "key"}
      \/ k.state = "string"
      \/ k.state \in {"colon", "value"}
      \/ k.state = "number"
  BY DEF BeforeValue
<1> HIDE DEF p, ks, ke, at
<1>5. \A o \in X : o \in Bytes(d, Sep) /\ o \in p..k.pos - 1 /\ o \in Int
  BY <1>1, <1>2
<1> HIDE DEF X
<1>6. SUFFICES Cardinality(X) <= MaxPrefix
  BY DEF X, p
<1>7. ASSUME NEW from \in Nat, NEW until \in Nat, Clear(d, from, until), NEW o \in X
      PROVE  o < from \/ o >= until
  <2>1. o \notin from..until - 1
    BY <1>5, <1>7 DEF Clear
  <2>2. QED
    BY <1>5, <2>1
<1>8. ASSUME NEW b \in Nat, NEW c \in Nat, NEW e \in Nat, p <= b, c <= e,
             X \subseteq (p..b - 1) \cup (c..e - 1), (b - p) + (e - c) <= MaxPrefix
      PROVE  Cardinality(X) <= MaxPrefix
  <2>1. Cardinality(X) <= (b - p) + (e - c)
    BY <1>1, <1>8, TwoSpans
  <2>2. IsFiniteSet(X)
    <3>0. p \in Int /\ k.pos - 1 \in Int
      BY <1>1, <1>2
    <3>1. IsFiniteSet(p..k.pos - 1)
      BY <3>0, FS_Interval
    <3>2. X \in SUBSET (p..k.pos - 1)
      BY <1>5
    <3>3. QED
      BY <3>1, <3>2, FS_Subset
  <2>3. Cardinality(X) \in Nat
    BY <2>2, FS_CardinalityType
  <2>4. QED
    BY <1>1, <1>8, <2>1, <2>3
<1> DEFINE Fitting(b, c, e) == /\ p <= b /\ c <= e /\ X \subseteq (p..b - 1) \cup (c..e - 1)
                               /\ (b - p) + (e - c) <= MaxPrefix
<1>0. \A b, c, e \in Nat : Fitting(b, c, e) => Cardinality(X) <= MaxPrefix
  BY <1>8
<1>9. CASE k.state \in {"keyOrEndObject", "key"}
  <2>1. p <= k.pos /\ (k.pos - p) + (0 - 0) <= MaxPrefix
    BY <1>1, <1>2, <1>3, <1>9
  <2>2. X \subseteq (p..k.pos - 1) \cup (0..0 - 1)
    BY <1>5
  <2>3. Fitting(k.pos, 0, 0)
    BY <2>1, <2>2
  <2> HIDE DEF Fitting
  <2>4. QED
    BY <1>0, <1>2, <2>3
<1>10. CASE k.state = "string"
  <2>1. p <= k.start /\ k.start < k.pos /\ (k.start - p) + (0 - 0) <= MaxPrefix /\ Clear(d, k.start, k.pos)
    BY <1>1, <1>2, <1>3, <1>10
  <2>2. ASSUME NEW o \in X PROVE o \in p..k.start - 1
    <3>1. o < k.start \/ o >= k.pos
      BY <1>2, <1>7, <2>1
    <3>2. QED
      BY <1>1, <1>2, <1>5, <2>1, <3>1
  <2>3. X \subseteq (p..k.start - 1) \cup (0..0 - 1)
    BY <2>2
  <2>4. Fitting(k.start, 0, 0)
    BY <2>1, <2>3
  <2> HIDE DEF Fitting
  <2>5. QED
    BY <1>0, <1>2, <2>4
<1>11. CASE k.state \in {"colon", "value"}
  <2>1. /\ p <= ks /\ ks <= ke /\ ke <= k.pos /\ (ks - p) + (k.pos - ke) <= MaxPrefix /\ Clear(d, ks, ke)
    BY <1>1, <1>2, <1>3, <1>11
  <2>2. ASSUME NEW o \in X PROVE o \in p..ks - 1 \/ o \in ke..k.pos - 1
    <3>1. o < ks \/ o >= ke
      BY <1>1, <1>7, <2>1
    <3>2. QED
      BY <1>1, <1>2, <1>5, <2>1, <3>1
  <2>3. X \subseteq (p..ks - 1) \cup (ke..k.pos - 1)
    BY <2>2
  <2>4. Fitting(ks, ke, k.pos)
    BY <2>1, <2>3
  <2> HIDE DEF Fitting
  <2>5. QED
    BY <1>0, <1>1, <1>2, <2>4
<1>12. CASE k.state = "number"
  <2>1. /\ p <= ks /\ ks <= ke /\ ke <= k.start /\ k.start <= k.pos
        /\ (ks - p) + (k.start - ke) <= MaxPrefix /\ Clear(d, ks, ke) /\ Clear(d, k.start, k.pos)
    BY <1>1, <1>2, <1>3, <1>12
  <2>2. ASSUME NEW o \in X PROVE o \in p..ks - 1 \/ o \in ke..k.start - 1
    <3>1. (o < ks \/ o >= ke) /\ (o < k.start \/ o >= k.pos)
      BY <1>1, <1>2, <1>7, <2>1
    <3>2. QED
      BY <1>1, <1>2, <1>5, <2>1, <3>1
  <2>3. X \subseteq (p..ks - 1) \cup (ke..k.start - 1)
    BY <2>2
  <2>4. Fitting(ks, ke, k.start)
    BY <2>1, <2>3
  <2> HIDE DEF Fitting
  <2>5. QED
    BY <1>0, <1>1, <1>2, <2>4
<1>13. QED
  BY <1>4, <1>9, <1>10, <1>11, <1>12

(* The hold.  A stream with hooks holds what it accepted and has not written;
   its hold starts at or before the prefix that waits, and between calls exactly there. *)
Kept(d, s, from) == Reading(d, s.tok) /\ Stretch(d, s, s.tok, from) /\ from <= s.tok.pos

Running == {"idle", "write", "flush", "end"}

Retains ==
  /\ base \in Nat /\ held \in Nat
  /\ ~Stopped(spine) /\ pc \in Running => Kept(doc, spine, base)
  /\ editsActive /\ ~destroyed => base + held = total
  /\ pc = "idle" /\ Active => ~Stopped(spine) /\ held = total - EditSafeLimit
  /\ pc = "flush" /\ after = "hold" => ~Stopped(spine)

LEMMA RetainsInitial == Init => Retains
<1> SUFFICES ASSUME Init PROVE Retains
  OBVIOUS
<1>1. /\ spine = SpineInit /\ total = 0 /\ base = 0 /\ held = 0 /\ pc = "idle" /\ after = "none"
      /\ ~destroyed
  BY DEF Init
<1>2. /\ spine.tok = TokenizerInit /\ spine.frames = <<>> /\ spine.thrown = "none" /\ ~spine.disposed
  BY <1>1 DEF SpineInit
<1>3. spine.tok.pos = 0 /\ spine.tok.state = "value"
  BY <1>2 DEF TokenizerInit
<1>4. Reading(doc, spine.tok)
  BY <1>3, QuotedAtFirst DEF Reading
<1>5. ~Held(spine) /\ MemberPrefixStart(spine) = Infinity
  BY <1>2 DEF Held, MemberPrefixStart, InObject
<1>6. EditSafeLimit = 0
  BY <1>1, <1>5, Numbers DEF EditSafeLimit
<1>7. Kept(doc, spine, base)
  BY <1>1, <1>3, <1>4, <1>5 DEF Kept, Stretch
<1>8. ~Stopped(spine)
  BY <1>2 DEF Stopped, Threw
<1>9. QED
  BY <1>1, <1>6, <1>7, <1>8 DEF Retains

(* Where a hold may be cut: at the prefix that waits, else at the end of what
   was accepted. *)
LEMMA SafeLimitIs ==
  ASSUME NEW d, NEW s, SpineOK(s), ~Stopped(s), NEW stack, NEW place, NEW more,
         Spans(s, stack, place, more), NEW from \in Nat, Kept(d, s, from),
         NEW n \in Nat, n < Infinity, s.tok.pos = n
  PROVE  LET limit == SafeLimit(s, n)
         IN  limit \in Nat /\ from <= limit /\ limit <= n /\ Kept(d, s, limit)
<1>1. s \in Spines /\ Infinity \in Nat
  BY Numbers DEF SpineOK
<1>2. CASE Held(s)
  <2> DEFINE p == Top(s).prefix
  <2>1. MemberPrefixStart(s) = p /\ p \in Nat
    BY <1>1, <1>2, HeldIs, StretchTypes DEF Held
  <2>2. from <= p
    BY <1>2 DEF Kept, Stretch
  <2>3. SafeLimit(s, n) = IF p < n THEN p ELSE n
    BY <2>1 DEF SafeLimit
  <2> HIDE DEF p
  <2>4. from <= n
    BY DEF Kept
  <2>5. /\ SafeLimit(s, n) \in Nat /\ from <= SafeLimit(s, n) /\ SafeLimit(s, n) <= n
        /\ SafeLimit(s, n) <= p
    BY <2>1, <2>2, <2>3, <2>4
  <2> HIDE DEF p
  <2>6. Kept(d, s, SafeLimit(s, n))
    BY <2>5 DEF Kept, Stretch, p
  <2>7. QED
    BY <2>5, <2>6
<1>3. CASE ~Held(s)
  <2>1. MemberPrefixStart(s) = Infinity
    BY <1>1, <1>3, NotHeld
  <2>2. SafeLimit(s, n) = n
    BY <1>1, <2>1 DEF SafeLimit
  <2>3. n <= n /\ from <= n
    BY DEF Kept
  <2>4. QED
    BY <1>3, <2>2, <2>3 DEF Kept, Stretch
<1>4. QED
  BY <1>2, <1>3

(* Retains after a step, which leaves the document. *)
RetainsNext ==
  /\ base' \in Nat /\ held' \in Nat
  /\ ~Stopped(spine') /\ pc' \in Running => Kept(doc, spine', base')
  /\ editsActive /\ ~destroyed' => base' + held' = total'
  /\ pc' = "idle" /\ ~sealed' /\ ~finished' /\ ~destroyed'
       => ~Stopped(spine') /\ held' = total' - SafeLimit(spine', total')
  /\ pc' = "flush" /\ after' = "hold" => ~Stopped(spine')

LEMMA RetainsFacts ==
  ASSUME Inv, Limits, Retains
  PROVE  /\ total \in Nat /\ fed \in Nat /\ Infinity \in Nat /\ total < Infinity /\ total <= Len(doc)
         /\ Len(doc) \in Nat /\ Len(doc) < Infinity /\ doc \in Seq(Byte)
         /\ SpineOK(spine) /\ spine \in Spines /\ spine.tok.pos \in Nat /\ spine.tok.pos <= total
         /\ base \in Nat /\ held \in Nat
         /\ ~Stopped(spine) => Spans(spine, spine.tok.stack, Place(spine.tok), 0)
         /\ EditSafeLimit = SafeLimit(spine, total)
<1>1. /\ Infinity \in Nat /\ Len(doc) < Infinity /\ doc \in Seq(Byte) /\ total \in Nat /\ fed \in Nat
      /\ fed <= Len(doc) /\ total <= fed
  BY Numbers DEF Inv, Typed, Limits
<1>2. Len(doc) \in Nat
  BY <1>1
<1>3. total <= Len(doc) /\ total < Infinity
  BY <1>1, <1>2
<1>4. /\ SpineOK(spine) /\ spine \in Spines /\ spine.tok.pos \in Nat /\ spine.tok.pos <= total
  BY SpineType DEF Inv, SpineOK, Progress
<1>5. ~Stopped(spine) => Spans(spine, spine.tok.stack, Place(spine.tok), 0)
  BY DEF Limits, Fits
<1>6. EditSafeLimit = SafeLimit(spine, total)
  BY DEF EditSafeLimit, SafeLimit
<1>7. QED
  BY <1>1, <1>2, <1>3, <1>4, <1>5, <1>6 DEF Retains

(* A chunk is accepted. *)
LEMMA TransformRetains ==
  ASSUME Inv, Limits, Retains, NEW size \in ChunkSizes, Transform(size) PROVE RetainsNext
<1> DEFINE n == Min({size, Len(doc) - fed})
<1>1. pc = "idle" /\ ~destroyed /\ n \in Nat
  <2>0. size \in Nat /\ fed \in Nat /\ Len(doc) \in Nat /\ n > 0
    BY EngineAssumption, RetainsFacts DEF Transform
  <2>1. size \in Int /\ Len(doc) - fed \in Int /\ n > 0
    BY <2>0
  <2>2. n \in {size, Len(doc) - fed}
    BY <2>1, MinOf
  <2> HIDE DEF n
  <2>3. QED
    BY <2>1, <2>2 DEF Transform
<1>2. Passthrough(n) \/ Refuse(n) \/ HoldChunk(n) \/ EchoChunk(n)
  BY DEF Transform
<1> HIDE DEF n
<1>3. /\ total \in Nat /\ Infinity \in Nat /\ total < Infinity /\ SpineOK(spine) /\ base \in Nat /\ held \in Nat
      /\ EditSafeLimit = SafeLimit(spine, total)
  BY RetainsFacts
<1>4. ~Stopped(spine) => Kept(doc, spine, base)
  BY <1>1 DEF Retains, Running
<1>5. editsActive => base + held = total
  BY <1>1 DEF Retains
<1>6. CASE Passthrough(n)
  <2>1. /\ spine' = spine /\ total' = total /\ base' = base /\ held' = held /\ pc' = pc
        /\ destroyed' = destroyed /\ sealed' = sealed /\ finished' = finished
    BY <1>6 DEF Passthrough, life
  <2>2. sealed \/ finished
    BY <1>6 DEF Passthrough
  <2>3. QED
    BY <1>1, <1>3, <1>4, <1>5, <2>1, <2>2 DEF RetainsNext
<1>7. CASE Refuse(n) \/ EchoChunk(n)
  <2>1. /\ spine' = spine /\ base' = base /\ held' = held /\ pc' = "flush" /\ after' # "hold"
        /\ destroyed' = destroyed /\ (editsActive => total' = total)
    BY <1>7 DEF Refuse, EchoChunk
  <2>2. QED
    BY <1>1, <1>3, <1>4, <1>5, <2>1 DEF RetainsNext
<1>8. CASE HoldChunk(n)
  <2>1. /\ editsActive /\ ~sealed /\ ~finished /\ spine' = spine /\ total' = total + n /\ held' = held + n
        /\ base' = (IF held = 0 THEN total ELSE base) /\ pc' = "write" /\ destroyed' = destroyed
    BY <1>8 DEF HoldChunk
  <2>2. ~Stopped(spine) /\ held = total - SafeLimit(spine, total) /\ spine.tok.pos = total
    BY <1>1, <1>3, <2>1 DEF Retains, Active, Inv, Progress, Live
  <2>3. SafeLimit(spine, total) \in Nat /\ Kept(doc, spine, SafeLimit(spine, total))
    <3>1. Spans(spine, spine.tok.stack, Place(spine.tok), 0)
      BY <2>2, RetainsFacts
    <3>2. QED
      BY <1>3, <1>4, <2>2, <3>1, SafeLimitIs
  <2>4. held = 0 => SafeLimit(spine, total) = total
    BY <1>3, <2>2, <2>3
  <2>5. Kept(doc, spine, base')
    BY <1>4, <2>1, <2>2, <2>3, <2>4
  <2>6. base' \in Nat /\ held' \in Nat /\ base' + held' = total'
    BY <1>1, <1>3, <1>5, <2>1
  <2>7. QED
    BY <2>1, <2>5, <2>6 DEF RetainsNext
<1>9. QED
  BY <1>2, <1>6, <1>7, <1>8

(* A byte is read, or the number at the end of the text. *)
LEMMA TurnRetains ==
  ASSUME Inv, Limits, Retains, Parse \/ EndNumber PROVE RetainsNext
<1>1. /\ total \in Nat /\ Infinity \in Nat /\ total < Infinity /\ SpineOK(spine) /\ base \in Nat /\ held \in Nat
      /\ spine.tok.pos \in Nat /\ spine.tok.pos <= total /\ total <= Len(doc) /\ doc \in Seq(Byte)
      /\ Len(doc) \in Nat
  BY RetainsFacts
<1>2. /\ ~Stopped(spine) /\ pc \in {"write", "end"} /\ Unwind
      /\ base' = base /\ total' = total /\ pc' = pc /\ doc' = doc
  BY DEF Parse, EndNumber, Parsing, Ending, Stopped, Threw, input
<1>3. Spans(spine, spine.tok.stack, Place(spine.tok), 0)
  BY <1>2, RetainsFacts
<1>4. Reading(doc, spine.tok) /\ Stretch(doc, spine, spine.tok, base) /\ base <= spine.tok.pos
  BY <1>2 DEF Retains, Running, Kept
<1>5. ~Stopped(spine') => Kept(doc, spine', base')
  <2>1. CASE Parse
    <3> DEFINE b == ByteAt(spine.tok.pos)
    <3> DEFINE event == Scan(spine.tok, b).event
    <3>1. PICK u \in Answers(event) : spine' = Step(spine, b, u)
      BY <2>1 DEF Parse
    <3>2. spine.tok.pos < total
      BY <2>1 DEF Parse
    <3>3. b \in Byte /\ b = doc[spine.tok.pos + 1]
      <4>1. spine.tok.pos + 1 \in 1..Len(doc)
        BY <1>1, <3>2
      <4>2. QED
        BY <1>1, <4>1 DEF ByteAt
    <3> HIDE DEF b, event
    <3>4. Answering(u)
      BY AnswersType DEF Inv, Typed
    <3>5. spine.tok.pos # Infinity /\ spine.tok.pos + 1 # Infinity
      BY <1>1, <3>2
    <3>6. QED
      BY <1>1, <1>2, <1>3, <1>4, <3>1, <3>3, <3>4, <3>5, StepStretch DEF Kept
  <2>2. CASE EndNumber
    <3> DEFINE event == FinishNumber(spine.tok).event
    <3>1. PICK u \in Answers(event) : spine' = EndStep(spine, u)
      BY <2>2 DEF EndNumber
    <3>2. spine.tok.state = "number"
      BY <2>2 DEF EndNumber
    <3> HIDE DEF event
    <3>3. Answering(u)
      BY AnswersType DEF Inv, Typed
    <3>4. spine.tok.pos # Infinity
      BY <1>1
    <3>5. QED
      BY <1>1, <1>2, <1>3, <1>4, <3>1, <3>2, <3>3, <3>4, EndStepStretch DEF Kept
  <2>3. QED
    BY <2>1, <2>2
<1>6. held' \in Nat /\ (editsActive /\ ~destroyed' => base' + held' = total')
  <2>1. ~destroyed
    BY <1>2 DEF Inv, Over, Stopped
  <2>2. held' = 0 \/ held' = held
    BY <1>2 DEF Unwind
  <2>3. ~destroyed' => held' = held
    BY <1>2 DEF Unwind
  <2>4. editsActive => base + held = total
    BY <2>1 DEF Retains
  <2>5. QED
    BY <1>1, <1>2, <2>2, <2>3, <2>4
<1>7. QED
  BY <1>1, <1>2, <1>5, <1>6 DEF RetainsNext

(* The hold is flushed, as far as no decision is pending or to its end. *)
LEMMA FlushedRetains ==
  ASSUME Inv, Limits, Retains, Flushed PROVE RetainsNext
<1>1. /\ total \in Nat /\ Infinity \in Nat /\ total < Infinity /\ SpineOK(spine) /\ base \in Nat /\ held \in Nat
      /\ EditSafeLimit = SafeLimit(spine, total) /\ spine \in Spines
  BY RetainsFacts
<1>2. pc = "flush" /\ ~destroyed /\ total' = total /\ destroyed' = destroyed /\ after' = "none"
  BY DEF Flushed
<1>3. editsActive => base + held = total
  BY <1>2 DEF Retains
<1>4. ~Stopped(spine) => Kept(doc, spine, base)
  BY <1>2 DEF Retains, Running
<1>5. base + held \in Nat /\ (base + held) + 0 = base + held /\ total + 0 = total /\ 0 \in Nat
  BY <1>1
<1>6. CASE after = "hold"
  <2> DEFINE limit == SafeLimit(spine, total)
  <2> DEFINE x == {e \in spine.edits : e.end > limit}
  <2>1. ~Stopped(spine) /\ editsActive /\ spine.tok.pos = total
    BY <1>2, <1>6 DEF Retains, Inv, Progress
  <2>2. Spans(spine, spine.tok.stack, Place(spine.tok), 0)
    BY <2>1, RetainsFacts
  <2>3. limit \in Nat /\ base <= limit /\ limit <= total /\ Kept(doc, spine, limit)
    BY <1>1, <1>4, <2>1, <2>2, SafeLimitIs
  <2>4. /\ base' = FlushedTo(limit) /\ held' = held - (FlushedTo(limit) - base)
        /\ spine' = [spine EXCEPT !.edits = x]
    BY <1>1, <1>6 DEF Flushed, Commit
  <2>5. Agree(spine, spine') /\ spine'.tok = spine.tok /\ ~Stopped(spine')
    <3> HIDE DEF x
    <3>1. "edits" \in Fields
      BY DEF Fields
    <3>2. \A g \in Fields \ {"edits"} : spine'[g] = spine[g]
      BY <1>1, <2>4, <3>1, SetReads
    <3>3. QED
      BY <2>1, <3>2 DEF Fields, Agree, Stopped, Threw
  <2>6. SafeLimit(spine', total) = limit
    BY <2>5 DEF SafeLimit, MemberPrefixStart, InObject, Top, Agree
  <2> HIDE DEF limit, x
  <2>7. FlushedTo(limit) = limit
    BY <1>1, <2>3 DEF FlushedTo
  <2>8. /\ base' = limit /\ held' = total - limit
    BY <1>1, <1>3, <2>1, <2>3, <2>4, <2>7
  <2>9. Kept(doc, spine', limit)
    BY <2>3, <2>5, StretchAgrees DEF Kept
  <2>10. held' \in Nat /\ base' + held' = total
    BY <1>1, <2>3, <2>8
  <2>11. QED
    BY <1>2, <2>3, <2>5, <2>6, <2>8, <2>9, <2>10 DEF RetainsNext
<1>7. CASE after = "write"
  <2>1. spine' = spine /\ base' = base /\ held' = held /\ pc' = "write"
    BY <1>7 DEF Flushed
  <2>2. QED
    BY <1>1, <1>2, <1>3, <1>4, <2>1 DEF RetainsNext
<1>8. CASE after = "budget"
  <2>1. /\ base' = base + held /\ held' = 0
        /\ pc' \in {"idle", "failed"} /\ (pc' = "idle" => sealed' /\ spine' = Dispose(NoEdits))
    BY <1>8 DEF Flushed, ApplyBudget, Seal, Terminate
  <2>2. pc' = "idle" => Stopped(spine')
    <3>1. SpineOK(NoEdits)
      BY <1>1, EditsLeft DEF NoEdits
    <3>2. Dispose(NoEdits).disposed
      BY <3>1, DisposeLeft
    <3>3. QED
      BY <2>1, <3>2 DEF Stopped
  <2>3. QED
    BY <1>2, <1>3, <1>5, <2>1, <2>2 DEF RetainsNext, Running
<1>9. CASE after = "refuse"
  <2>1. base' = base + held /\ held' = 0 /\ pc' = "failed"
    BY <1>9 DEF Flushed, CommitAll, Fail
  <2>2. QED
    BY <1>2, <1>3, <1>5, <2>1 DEF RetainsNext, Running
<1>10. CASE after = "close"
  <2>1. base' = total /\ held' = 0 /\ pc' \in {"failed", "done"}
    BY <1>10 DEF Flushed, Verdict
  <2>2. QED
    BY <1>1, <1>2, <1>5, <2>1 DEF RetainsNext, Running
<1>11. QED
  BY <1>2, <1>6, <1>7, <1>8, <1>9, <1>10 DEF Inv, Progress

(* The other steps leave the hold, hand it on or end the stream. *)
LEMMA OthersRetain ==
  ASSUME Inv, Limits, Retains,
         \/ WriteReturned \/ WriteBudget \/ ParseFatal \/ Push \/ EndSyntax \/ EndBudget \/ End
         \/ WriteDestroyed \/ EndDestroyed \/ Destroy \/ UNCHANGED vars
  PROVE  RetainsNext
<1>1. /\ total \in Nat /\ Infinity \in Nat /\ total < Infinity /\ SpineOK(spine) /\ base \in Nat /\ held \in Nat
      /\ EditSafeLimit = SafeLimit(spine, total) /\ spine \in Spines /\ 0 \in Nat
  BY RetainsFacts
<1>2. /\ ~Stopped(spine) /\ pc \in Running => Kept(doc, spine, base)
      /\ editsActive /\ ~destroyed => base + held = total
      /\ pc = "idle" /\ ~sealed /\ ~finished /\ ~destroyed
           => ~Stopped(spine) /\ held = total - SafeLimit(spine, total)
      /\ pc = "flush" /\ after = "hold" => ~Stopped(spine)
  BY <1>1 DEF Retains, Active
<1>3. Stopped(Released) /\ Stopped(Dispose(spine))
  BY <1>1, ReleasedLeft, DisposeLeft DEF Released, Stopped
<1>4. CASE WriteDestroyed \/ EndDestroyed \/ Destroy
  <2>1. /\ spine' = Released /\ held' = 0 /\ base' = base /\ destroyed'
        /\ (pc' = "idle" \/ pc' = pc) /\ pc # "flush"
    BY <1>4 DEF WriteDestroyed, EndDestroyed, Destroy, DestroyNow
  <2>2. QED
    BY <1>1, <1>3, <2>1 DEF RetainsNext
<1>5. CASE WriteReturned
  <2>1. /\ spine' = spine /\ base' = base /\ held' = held /\ total' = total /\ destroyed' = destroyed
        /\ pc = "write" /\ ~Stopped(spine)
        /\ pc' = (IF editsActive THEN "flush" ELSE "idle")
    BY <1>5 DEF WriteReturned, Parsing, Stopped, Threw
  <2>2. ~editsActive => held = total - SafeLimit(spine, total)
    <3>1. SUFFICES ASSUME ~editsActive PROVE held = total - SafeLimit(spine, total)
      OBVIOUS
    <3>2. Plain(spine) /\ held = 0
      BY <3>1 DEF Inv, Bare
    <3>3. Spans(spine, spine.tok.stack, Place(spine.tok), 0)
      BY <2>1, RetainsFacts
    <3>4. SafeLimit(spine, total) = total
      BY <1>1, <3>2, <3>3, PlainSafe
    <3>5. QED
      BY <1>1, <3>2, <3>4
  <2>3. Kept(doc, spine, base)
    BY <1>2, <2>1 DEF Running
  <2>4. QED
    BY <1>1, <1>2, <2>1, <2>2, <2>3 DEF RetainsNext
<1>6. CASE WriteBudget
  <2>1. /\ base' = base /\ held' = held /\ total' = total /\ destroyed' = destroyed
        /\ Stopped(spine) /\ pc = "write" /\ ~destroyed
        /\ \/ spine' = spine /\ pc' = "flush" /\ after' = "budget"
           \/ spine' = Dispose(spine) /\ pc' = "idle" /\ sealed'
           \/ spine' = spine /\ pc' = "failed"
    BY <1>6 DEF WriteBudget, ApplyBudget, Seal, Terminate, Stopped, Threw
  <2>2. QED
    BY <1>1, <1>2, <1>3, <2>1 DEF RetainsNext
<1>7. CASE ParseFatal \/ EndBudget
  <2>1. /\ base' = base /\ held' = held /\ total' = total /\ destroyed' = destroyed
        /\ Stopped(spine) /\ spine' = spine
        /\ (pc' \in {"failed", "done"} \/ (pc' = "flush" /\ after' = "close"))
    BY <1>7 DEF ParseFatal, Fail, EndBudget, Verdict, Stopped, Threw, echo
  <2>2. QED
    BY <1>1, <1>2, <2>1 DEF RetainsNext
<1>8. CASE Push
  <2>1. base' = base /\ total' = total /\ pc = "flush"
    BY <1>8 DEF Push
  <2>2. CASE UNCHANGED <<spine, held, life>>
    BY <1>1, <1>2, <2>1, <2>2 DEF RetainsNext, life
  <2>3. CASE DestroyNow /\ pc' = "idle"
    BY <1>1, <1>3, <2>1, <2>3 DEF RetainsNext, DestroyNow, Released
  <2>4. QED
    BY <1>8, <2>2, <2>3 DEF Push
<1>9. CASE EndSyntax
  <2>1. /\ base' = base /\ held' = held /\ total' = total /\ destroyed' = destroyed /\ pc = "end"
        /\ \/ spine' = Throw(spine, "fatal") /\ pc' = "end"
           \/ spine' = spine /\ pc' = "flush" /\ after' = "close"
           \/ spine' = spine /\ pc' \in {"failed", "done"}
    BY <1>9 DEF EndSyntax, Ending, Verdict
  <2>2. Stopped(Throw(spine, "fatal"))
    BY <1>1, ThrowStops
  <2>3. spine' = spine /\ pc' = "flush" => (~Stopped(spine') => Kept(doc, spine', base'))
    BY <1>2, <2>1 DEF Running
  <2>4. QED
    BY <1>1, <1>2, <2>1, <2>2, <2>3 DEF RetainsNext, Running
<1>10. CASE End
  <2>1. /\ base' = base /\ held' = held /\ total' = total /\ destroyed' = destroyed /\ pc = "idle"
        /\ spine' = spine /\ pc' \in {"failed", "done", "end"}
    BY <1>10 DEF End, Verdict, echo
  <2>2. ~Stopped(spine') => Kept(doc, spine', base')
    BY <1>2, <2>1 DEF Running
  <2>3. QED
    BY <1>1, <1>2, <2>1, <2>2 DEF RetainsNext
<1>11. CASE UNCHANGED vars
  <2>1. /\ base' = base /\ held' = held /\ total' = total /\ destroyed' = destroyed /\ pc' = pc
        /\ spine' = spine /\ after' = after /\ sealed' = sealed /\ finished' = finished
    BY <1>11 DEF vars, echo, life
  <2>2. QED
    BY <1>1, <1>2, <2>1 DEF RetainsNext
<1>12. QED
  BY <1>4, <1>5, <1>6, <1>7, <1>8, <1>9, <1>10, <1>11

LEMMA RetainsInductive == Inv /\ Limits /\ Retains /\ [Next]_vars => Retains'
<1> SUFFICES ASSUME Inv, Limits, Retains, [Next]_vars PROVE Retains'
  OBVIOUS
<1>1. doc' = doc /\ editsActive' = editsActive
  BY DEF Next, Engine, Source, vars, input, Parse, WriteDestroyed, WriteReturned, WriteBudget,
     ParseFatal, Push, Flushed, EndNumber, EndSyntax, EndBudget, EndDestroyed, Transform, Passthrough,
     Refuse, HoldChunk, EchoChunk, End, Destroy
<1>2. RetainsNext
  <2>1. CASE \E size \in ChunkSizes : Transform(size)
    BY <2>1, TransformRetains
  <2>2. CASE Parse \/ EndNumber
    BY <2>2, TurnRetains
  <2>3. CASE Flushed
    BY <2>3, FlushedRetains
  <2>4. CASE \/ WriteReturned \/ WriteBudget \/ ParseFatal \/ Push \/ EndSyntax \/ EndBudget \/ End
             \/ WriteDestroyed \/ EndDestroyed \/ Destroy \/ UNCHANGED vars
    BY <2>4, OthersRetain
  <2>5. QED
    BY <2>1, <2>2, <2>3, <2>4 DEF Next, Engine, Source
<1>3. /\ Stopped(spine)' = Stopped(spine')
      /\ Kept(doc, spine, base)' = Kept(doc', spine', base')
      /\ EditSafeLimit' = SafeLimit(spine', total')
      /\ Active' = (~sealed' /\ ~finished' /\ ~destroyed')
  BY DEF Stopped, Threw, Kept, Reading, Quoted, Stretch, Held, Top, Clear, Bytes, Sep, EditSafeLimit,
     SafeLimit, MemberPrefixStart, InObject, Active
<1>4. QED
  BY <1>1, <1>2, <1>3 DEF Retains, RetainsNext

(* For every document, chunking, limit and answers of the hooks: between calls
   a live stream holds exactly the input from the prefix that waits for its
   hooks, and the separators and the whitespace in it stay within
   maxMemberPrefixBytes, however the bytes were cut into chunks. *)
THEOREM RetentionBoundedAlways == Spec => []RetentionBounded
<1>1. Inv /\ Limits /\ Retains => RetentionBounded
  <2> SUFFICES ASSUME Inv, Limits, Retains, pc = "idle", Active
               PROVE  /\ held = total - EditSafeLimit
                      /\ held > 0 => Cardinality(Bytes(doc, {"w", ":", ","}) \cap (base..total - 1)) <= MaxPrefix
    BY DEF RetentionBounded
  <2>1. ~Stopped(spine) /\ held = total - EditSafeLimit /\ spine.tok.pos = total /\ ~destroyed
    BY DEF Retains, Active, Inv, Progress, Live
  <2>2. /\ total \in Nat /\ Infinity \in Nat /\ total < Infinity /\ spine \in Spines /\ base \in Nat
        /\ Spans(spine, spine.tok.stack, Place(spine.tok), 0)
        /\ EditSafeLimit = SafeLimit(spine, total) /\ spine.tok \in Tokenizers
    BY <2>1, RetainsFacts, SpineType
  <2>3. Kept(doc, spine, base)
    BY <2>1 DEF Retains, Running
  <2>4. SUFFICES ASSUME held > 0
                 PROVE  Cardinality(Bytes(doc, Sep) \cap (base..spine.tok.pos - 1)) <= MaxPrefix
    BY <2>1 DEF Sep
  <2>5. Held(spine)
    <3>1. SUFFICES ASSUME ~Held(spine) PROVE FALSE
      OBVIOUS
    <3>2. MemberPrefixStart(spine) = Infinity
      BY <2>2, <3>1, NotHeld
    <3>3. EditSafeLimit = total
      BY <2>2, <3>2 DEF EditSafeLimit
    <3>4. QED
      BY <2>1, <2>2, <2>4, <3>3
  <2>6. MemberPrefixStart(spine) = Top(spine).prefix /\ BeforeValue(spine.tok)
    BY <2>2, <2>5, HeldIs, PlaceIs
  <2>7. Top(spine).prefix \in Nat
    BY <2>2, <2>5, StretchTypes DEF Held
  <2>8. EditSafeLimit = Top(spine).prefix
    BY <2>1, <2>2, <2>4, <2>6, <2>7 DEF EditSafeLimit
  <2>9. base + held = total
    BY <2>1, <2>4 DEF Retains, Inv, Bare
  <2>10. base = Top(spine).prefix
    BY <2>1, <2>2, <2>7, <2>8, <2>9
  <2>11. QED
    BY <2>2, <2>3, <2>5, <2>6, <2>10, StretchBounds DEF Kept
<1>2. QED
  BY <1>1, DriverSound, LimitsInitial, LimitsInductive, RetainsInitial, RetainsInductive, PTL DEF Spec

-----------------------------------------------------------------------------
(* The text read so far: its depth is the tokenizer's, and the key and the
   prefix of a member that waits are where the document has them. *)

LEMMA CountOn ==
  ASSUME NEW d \in Seq(Byte), NEW classes, NEW o \in 0..Len(d) - 1
  PROVE  /\ Cardinality({p \in Bytes(d, classes) : p < o}) \in Nat
         /\ Cardinality({p \in Bytes(d, classes) : p < o + 1})
              = Cardinality({p \in Bytes(d, classes) : p < o})
                  + IF d[o + 1] \in classes /\ ~Quoted(d, o) THEN 1 ELSE 0
<1> DEFINE S == {p \in Bytes(d, classes) : p < o}
<1> DEFINE T == {p \in Bytes(d, classes) : p < o + 1}
<1>1. o \in Nat /\ Len(d) \in Nat
  OBVIOUS
<1>2. \A p \in Bytes(d, classes) : p \in 0..Len(d) - 1 /\ p \in Int
  BY DEF Bytes
<1>3. IsFiniteSet(S) /\ Cardinality(S) \in Nat
  <2>1. S \in SUBSET (0..Len(d) - 1)
    BY <1>2
  <2>2. IsFiniteSet(S)
    <3>1. 0 \in Int /\ Len(d) - 1 \in Int
      BY <1>1
    <3>2. IsFiniteSet(0..Len(d) - 1)
      BY <3>1, FS_Interval
    <3>3. QED
      BY <2>1, <3>2, FS_Subset
  <2>3. QED
    BY <2>2, FS_CardinalityType
<1>4. o \in Bytes(d, classes) <=> d[o + 1] \in classes /\ ~Quoted(d, o)
  BY DEF Bytes
<1> DEFINE B == Bytes(d, classes)
<1>0. \A p \in B : (p < o + 1 <=> p < o \/ p = o) /\ ~(o < o)
  BY <1>1, <1>2
<1>5. CASE o \in Bytes(d, classes)
  <2>1. T = S \cup {o} /\ o \notin S
    <3>1. o \in B
      BY <1>5
    <3> HIDE DEF B
    <3>2. {p \in B : p < o + 1} = {p \in B : p < o} \cup {o} /\ o \notin {p \in B : p < o}
      BY <1>0, <3>1
    <3>3. QED
      BY <3>2 DEF B
  <2> HIDE DEF S, T
  <2>2. Cardinality(T) = Cardinality(S) + 1
    BY <1>3, <2>1, FS_AddElement
  <2>3. QED
    BY <1>3, <1>4, <1>5, <2>2 DEF S, T
<1>6. CASE o \notin Bytes(d, classes)
  <2>1. T = S
    BY <1>1, <1>2, <1>6
  <2> HIDE DEF S, T
  <2>2. Cardinality(T) = Cardinality(S) + 0
    BY <1>3, <2>1
  <2>3. QED
    BY <1>3, <1>4, <1>6, <2>2 DEF S, T
<1>7. QED
  BY <1>5, <1>6

(* A bracket that is not quoted moves the depth, and nothing else does. *)
LEMMA DepthOn ==
  ASSUME NEW d \in Seq(Byte), NEW o \in 0..Len(d) - 1
  PROVE  /\ DepthAt(d, o) \in Int
         /\ Quoted(d, o) \/ d[o + 1] \notin Brackets => DepthAt(d, o + 1) = DepthAt(d, o)
         /\ ~Quoted(d, o) /\ d[o + 1] \in {"{", "["} => DepthAt(d, o + 1) = DepthAt(d, o) + 1
         /\ ~Quoted(d, o) /\ d[o + 1] \in {"}", "]"} => DepthAt(d, o + 1) = DepthAt(d, o) - 1
<1> DEFINE a == Cardinality({p \in Bytes(d, {"{", "["}) : p < o})
<1> DEFINE b == Cardinality({p \in Bytes(d, {"}", "]"}) : p < o})
<1> DEFINE a1 == Cardinality({p \in Bytes(d, {"{", "["}) : p < o + 1})
<1> DEFINE b1 == Cardinality({p \in Bytes(d, {"}", "]"}) : p < o + 1})
<1>1. DepthAt(d, o) = a - b /\ DepthAt(d, o + 1) = a1 - b1
  BY DEF DepthAt
<1>2. /\ a \in Nat /\ a1 = a + IF d[o + 1] \in {"{", "["} /\ ~Quoted(d, o) THEN 1 ELSE 0
      /\ b \in Nat /\ b1 = b + IF d[o + 1] \in {"}", "]"} /\ ~Quoted(d, o) THEN 1 ELSE 0
  BY CountOn
<1> HIDE DEF a, b, a1, b1
<1> DEFINE c == d[o + 1]
<1>3. c \in {"{", "["} => c \notin {"}", "]"}
  OBVIOUS
<1>4. c \notin Brackets => c \notin {"{", "["} /\ c \notin {"}", "]"}
  BY DEF Brackets
<1> DEFINE up == c \in {"{", "["}
<1> DEFINE down == c \in {"}", "]"}
<1> DEFINE q == Quoted(d, o)
<1>5. /\ a \in Nat /\ a1 = a + IF up /\ ~q THEN 1 ELSE 0
      /\ b \in Nat /\ b1 = b + IF down /\ ~q THEN 1 ELSE 0
      /\ (up => ~down) /\ (c \notin Brackets => ~up /\ ~down)
  BY <1>2, <1>3, <1>4
<1> HIDE DEF c, up, down, q
<1>6. /\ DepthAt(d, o) \in Int
      /\ q \/ (~up /\ ~down) => DepthAt(d, o + 1) = DepthAt(d, o)
      /\ ~q /\ up => DepthAt(d, o + 1) = DepthAt(d, o) + 1
      /\ ~q /\ down => DepthAt(d, o + 1) = DepthAt(d, o) - 1
  BY <1>1, <1>5
<1>7. QED
  BY <1>5, <1>6 DEF c, up, down, q

LEMMA DepthAtFirst == ASSUME NEW d \in Seq(Byte) PROVE DepthAt(d, 0) = 0
<1>1. ASSUME NEW classes PROVE {p \in Bytes(d, classes) : p < 0} = {}
  <2>1. Len(d) \in Nat
    OBVIOUS
  <2>2. \A p \in Bytes(d, classes) : ~(p < 0)
    BY <2>1 DEF Bytes
  <2>3. QED
    BY <2>2
<1>2. Cardinality({}) = 0
  BY FS_EmptySet
<1>3. {p \in Bytes(d, {"{", "["}) : p < 0} = {} /\ {p \in Bytes(d, {"}", "]"}) : p < 0} = {}
  BY <1>1
<1>4. DepthAt(d, 0) = Cardinality({}) - Cardinality({})
  BY <1>3 DEF DepthAt
<1>5. QED
  BY <1>2, <1>4

Deep(d, k) == DepthAt(d, k.pos) = Len(k.stack)

LEMMA DeepOn ==
  ASSUME NEW d \in Seq(Byte), NEW k \in Tokenizers, Reading(d, k), Deep(d, k),
         NEW r, r.t \in Tokenizers, Tells(k, r), Spells(k, d[k.pos + 1], r),
         r.t.pos = k.pos \/ (r.t.pos = k.pos + 1 /\ k.pos < Len(d))
  PROVE  Deep(d, r.t)
<1>1. k.pos \in Nat /\ k.pos # k.pos + 1 /\ Len(k.stack) \in Nat /\ Len(d) \in Nat
  BY DEF Tokenizers
<1>2. CASE r.event.type \in Starts \cup Ends
  <2>1. /\ k.state # "string" /\ r.t.pos = k.pos + 1
        /\ r.event.type \in Starts => d[k.pos + 1] \in {"{", "["} /\ Len(r.t.stack) = Len(k.stack) + 1
        /\ r.event.type \in Ends => d[k.pos + 1] \in {"}", "]"} /\ Len(r.t.stack) = Len(k.stack) - 1
    BY <1>2 DEF Spells, Tells, Starts, Ends
  <2>2. ~Quoted(d, k.pos)
    BY <2>1 DEF Reading
  <2>3. k.pos \in 0..Len(d) - 1
    <3>1. r.t.pos # k.pos
      BY <1>1, <2>1
    <3>2. k.pos < Len(d)
      BY <3>1
    <3>3. QED
      BY <1>1, <3>2
  <2>4. DepthAt(d, k.pos) = Len(k.stack)
    BY DEF Deep
  <2>5. DepthAt(d, k.pos + 1) = Len(r.t.stack)
    BY <1>2, <2>1, <2>2, <2>3, <2>4, DepthOn
  <2>6. QED
    BY <2>1, <2>5 DEF Deep
<1>3. CASE r.event.type \notin Starts \cup Ends
  <2>1. /\ r.t.stack = k.stack
        /\ d[k.pos + 1] \notin Brackets \/ k.state = "string" \/ r.t.pos = k.pos
    BY <1>3 DEF Spells, Tells
  <2>2. CASE r.t.pos = k.pos
    BY <2>1, <2>2 DEF Deep
  <2>3. CASE r.t.pos # k.pos
    <3>1. k.pos \in 0..Len(d) - 1 /\ r.t.pos = k.pos + 1
      BY <1>1, <2>3
    <3>2. Quoted(d, k.pos) \/ d[k.pos + 1] \notin Brackets
      BY <2>1, <2>3 DEF Reading
    <3>3. DepthAt(d, k.pos + 1) = DepthAt(d, k.pos)
      BY <3>1, <3>2, DepthOn
    <3>4. QED
      BY <2>1, <3>1, <3>3 DEF Deep
  <2>4. QED
    BY <2>2, <2>3
<1>4. QED
  BY <1>2, <1>3

(* A key being read: where its quote stands, and that it is not closed. *)
KeyRead(d, k) ==
  k.state = "string" /\ k.isKey =>
    /\ k.start < k.pos /\ k.start \in Bytes(d, {"Q"}) /\ DepthAt(d, k.start) = Len(k.stack)
    /\ \A i \in k.start + 1..k.pos - 1 : d[i + 1] # "Q"

LEMMA KeyReadOn ==
  ASSUME NEW d \in Seq(Byte), NEW k \in Tokenizers, k.pos < Len(d), Reading(d, k), Deep(d, k),
         KeyRead(d, k), NEW u \in Tokenizers, u.stack = k.stack, Quietly(k, d[k.pos + 1], u)
  PROVE  KeyRead(d, u)
<1>1. /\ k.pos \in Nat /\ k.start \in Nat /\ u.start \in Nat /\ Len(d) \in Nat
  BY DEF Tokenizers
<1>2. SUFFICES ASSUME u.state = "string", u.isKey PROVE KeyRead(d, u)
  BY DEF KeyRead
<1>3. CASE k.state \in {"key", "keyOrEndObject"} /\ d[k.pos + 1] = "Q" /\ u.start = k.pos /\ u.pos = k.pos + 1
  <2>1. k.pos \in Bytes(d, {"Q"})
    BY <1>1, <1>3 DEF Bytes, Reading
  <2>2. DepthAt(d, k.pos) = Len(u.stack)
    BY DEF Deep
  <2>3. QED
    BY <1>1, <1>3, <2>1, <2>2 DEF KeyRead
<1>4. CASE /\ k.state = "string" /\ k.isKey /\ d[k.pos + 1] # "Q"
           /\ u.start = k.start /\ u.pos = k.pos + 1
  <2>1. /\ k.start < k.pos /\ k.start \in Bytes(d, {"Q"}) /\ DepthAt(d, k.start) = Len(k.stack)
        /\ \A i \in k.start + 1..k.pos - 1 : d[i + 1] # "Q"
    BY <1>4 DEF KeyRead
  <2>2. \A i \in k.start + 1..(k.pos + 1) - 1 : i = k.pos \/ i \in k.start + 1..k.pos - 1
    BY <1>1
  <2>3. \A i \in k.start + 1..(k.pos + 1) - 1 : d[i + 1] # "Q"
    BY <1>4, <2>1, <2>2
  <2>4. QED
    BY <1>1, <1>4, <2>1, <2>3 DEF KeyRead
<1>5. QED
  BY <1>2, <1>3, <1>4 DEF Quietly

(* The first quote after a key that has none is where it closes. *)
LEMMA ClosedAt ==
  ASSUME NEW d \in Seq(Byte), NEW ks \in Nat, NEW o \in 0..Len(d) - 1, ks < o, d[o + 1] = "Q",
         \A i \in ks + 1..o - 1 : d[i + 1] # "Q"
  PROVE  CloseQuote(d, ks) = o
<1> DEFINE S == {p \in ks + 1..Len(d) - 1 : d[p + 1] = "Q"} \cup {Len(d)}
<1>1. Len(d) \in Nat /\ o \in Nat
  OBVIOUS
<1>2. o \in S
  BY <1>1
<1>3. \A p \in S : p \in Int /\ p >= o
  <2>1. SUFFICES ASSUME NEW p \in S, p # Len(d) PROVE p \in Int /\ p >= o
    BY <1>1
  <2>2. p \in ks + 1..Len(d) - 1 /\ d[p + 1] = "Q"
    BY <2>1
  <2>3. p \notin ks + 1..o - 1
    BY <2>2
  <2>4. QED
    BY <1>1, <2>2, <2>3
<1> HIDE DEF S
<1>4. Min(S) = o
  <2>1. \A x \in S : (\A y \in S : x <= y) <=> x = o
    BY <1>1, <1>2, <1>3
  <2>2. QED
    BY <1>2, <2>1 DEF Min
<1>5. QED
  BY <1>4 DEF CloseQuote, S

LEMMA KeyStartIs ==
  ASSUME NEW d \in Seq(Byte), NEW ks \in Bytes(d, {"Q"}), NEW o \in Bytes(d, {":"}), NEW ke \in Nat,
         CloseQuote(d, ks) = ke - 1, ke <= o, \A i \in ke..o - 1 : d[i + 1] = "w"
  PROVE  ks \in KeyStarts(d)
<1>1. o \in Nat /\ ke - 1 < o /\ ke - 1 + 1 = ke
  BY DEF Bytes
<1>2. \A i \in (ke - 1) + 1..o - 1 : d[i + 1] = "w"
  BY <1>1
<1>3. QED
  BY <1>1, <1>2 DEF KeyStarts

(* Of the member that waits: the brace or the comma its prefix starts at, and
   its key from the end of the key on. *)
Named(d, s, k) ==
  Held(s) =>
    LET p == Top(s).prefix
        ks == Top(s).keyStart
        ke == Top(s).keyEnd
    IN  /\ IF Top(s).comma THEN p \in Bytes(d, {","}) ELSE p - 1 \in Bytes(d, {"{"})
        /\ k.state \in {"colon", "value", "number"} =>
             /\ ks \in Bytes(d, {"Q"}) /\ DepthAt(d, ks) = Len(k.stack)
             /\ CloseQuote(d, ks) = ke - 1 /\ ks < ke
        /\ k.state = "colon" => \A i \in ke..k.pos - 1 : d[i + 1] = "w"
        /\ k.state \in {"value", "number"} => ks \in KeyStarts(d)

LEMMA NamedAgrees ==
  ASSUME NEW d, NEW s, NEW t, Agree(s, t), NEW k, Named(d, s, k)
  PROVE  Named(d, t, k)
  BY DEF Agree, Named, Held, Top

LEMMA QuietNamed ==
  ASSUME NEW d \in Seq(Byte), NEW s \in Spines, NEW k \in Tokenizers, s.tok = k, k.pos < Len(d),
         NEW floor \in Nat, Stretch(d, s, k, floor), Named(d, s, k), Held(s) => BeforeValue(k),
         Reading(d, k), NEW u \in Tokenizers, u.stack = k.stack, Quietly(k, d[k.pos + 1], u)
  PROVE  Named(d, s, u)
<1> SUFFICES ASSUME Held(s) PROVE Named(d, s, u)
  BY DEF Named
<1> DEFINE p == Top(s).prefix
<1> DEFINE ks == Top(s).keyStart
<1> DEFINE ke == Top(s).keyEnd
<1> DEFINE Keyed == /\ ks \in Bytes(d, {"Q"}) /\ DepthAt(d, ks) = Len(k.stack)
                    /\ CloseQuote(d, ks) = ke - 1 /\ ks < ke
<1>1. /\ k.pos \in Nat /\ Len(d) \in Nat /\ ks \in Nat /\ ke \in Nat
  BY StretchTypes DEF Tokenizers, Held
<1>2. /\ IF Top(s).comma THEN p \in Bytes(d, {","}) ELSE p - 1 \in Bytes(d, {"{"})
      /\ k.state \in {"colon", "value", "number"} => Keyed
      /\ k.state = "colon" => \A i \in ke..k.pos - 1 : d[i + 1] = "w"
      /\ k.state \in {"value", "number"} => ks \in KeyStarts(d)
  BY DEF Named
<1>3. k.state = "colon" => ke <= k.pos
  BY DEF Stretch
<1>4. k.state \notin {"commaOrEndArray", "valueOrEndArray"} /\ (k.state = "string" => k.isKey)
  BY DEF BeforeValue
<1>5. SUFFICES /\ u.state \in {"colon", "value", "number"} => Keyed
               /\ u.state = "colon" => \A i \in ke..u.pos - 1 : d[i + 1] = "w"
               /\ u.state \in {"value", "number"} => ks \in KeyStarts(d)
  BY <1>2 DEF Named
<1> HIDE DEF p, ks, ke, Keyed
<1>6. CASE k.state \notin {"string", "number"} /\ d[k.pos + 1] = "w" /\ u.state = k.state /\ u.pos = k.pos + 1
  <2>1. \A i \in ke..(k.pos + 1) - 1 : i = k.pos \/ i \in ke..k.pos - 1
    BY <1>1
  <2>2. k.state = "colon" => \A i \in ke..(k.pos + 1) - 1 : d[i + 1] = "w"
    BY <1>2, <1>6, <2>1
  <2>3. QED
    BY <1>2, <1>6, <2>2
<1>7. CASE k.state = "colon" /\ d[k.pos + 1] = ":" /\ u.state = "value" /\ u.pos = k.pos + 1
  <2>1. k.pos \in Bytes(d, {":"})
    BY <1>1, <1>7 DEF Bytes, Reading
  <2>2. Keyed /\ ke <= k.pos /\ \A i \in ke..k.pos - 1 : d[i + 1] = "w"
    BY <1>2, <1>3, <1>7
  <2>3. ks \in KeyStarts(d)
    BY <1>1, <2>1, <2>2, KeyStartIs DEF Keyed
  <2>4. QED
    BY <1>7, <2>2, <2>3
<1>8. CASE u.state = "string"
  BY <1>8
<1>9. CASE k.state = "value" /\ u.state = "number"
  BY <1>2, <1>9
<1>10. CASE k.state = "number" /\ u.state = "number"
  BY <1>2, <1>10
<1>11. QED
  BY <1>4, <1>6, <1>7, <1>8, <1>9, <1>10 DEF Quietly

Lexed(d, k) == Reading(d, k) /\ Deep(d, k) /\ KeyRead(d, k)

LEMMA TokSet ==
  ASSUME NEW s \in Spines, NEW k \in Tokenizers, NEW t, t = [s EXCEPT !.tok = k]
  PROVE  /\ t \in Spines /\ t.tok = k /\ Agree(s, t) /\ Agree(t, s) /\ t.edits = s.edits
         /\ t.disposed = s.disposed /\ t.thrown = s.thrown
<1>1. "tok" \in Fields
  BY DEF Fields
<1>2. t.tok = k /\ \A g \in Fields \ {"tok"} : t[g] = s[g]
  BY <1>1, SetReads
<1>3. t \in Spines
  BY SetFields
<1>4. QED
  BY <1>2, <1>3 DEF Fields, Agree

(* A byte leaves what was read where the document has it. *)
LEMMA DeliverNamed ==
  ASSUME NEW d \in Seq(Byte), NEW s, SpineOK(s), ~Stopped(s), s.tok.pos # Infinity,
         NEW r, Follows(s.tok, r), Tells(s.tok, r), ReadsOn(s.tok, d[s.tok.pos + 1], r),
         Spells(s.tok, d[s.tok.pos + 1], r),
         r.t \in Tokenizers, r.event.type \notin {"number", "error"} => s.tok.pos + 1 # Infinity,
         r.event.type \notin {"number", "error"} => s.tok.pos < Len(d),
         NEW u, Answering(u), Spans(s, s.tok.stack, Place(s.tok), 0),
         Lexed(d, s.tok), NEW floor \in Nat, Stretch(d, s, s.tok, floor), Named(d, s, s.tok),
         NEW t, t = Deliver(s, r, u), ~Stopped(t)
  PROVE  Lexed(d, t.tok) /\ Named(d, t, t.tok) /\ t.tok = r.t
<1> DEFINE k == s.tok
<1> DEFINE h == Handle(s, r.event, u)
<1>1. /\ s \in Spines /\ Counted(s) /\ r.event \in Events /\ k \in Tokenizers
      /\ Len(k.stack) = Len(s.frames) + s.opaque /\ Reading(d, k) /\ Deep(d, k) /\ KeyRead(d, k)
  BY SpineType DEF SpineOK, Sized, Tells, Stopped, Lexed
<1>2. Len(s.frames) \in Nat /\ s.opaque \in Nat /\ s.frames \in Seq(FrameType)
  BY <1>1, SpineType
<1>3. r.event.type \in Ends \cup Within => s.frames # <<>> \/ s.opaque > 0
  BY <1>1, <1>2 DEF Tells
<1>4. h \in Spines
  <2>1. Opens(s, h) \/ Closes(s, h) \/ Onward(s, h)
    BY <1>1, <1>3, HandleMoves
  <2>2. QED
    BY <2>1 DEF Opens, Closes, Onward, Moves
<1>5. t = IF Threw(h) \/ h.disposed THEN h ELSE [h EXCEPT !.tok = r.t]
  BY DEF Deliver
<1>6. /\ r.event.type = "startObject" => h = OnStart(s, "object", u)
      /\ r.event.type = "key" => h = OnKey(s, r.event.key, r.event.start, u)
      /\ r.event.type = "memberComma" => h = OnMemberComma(s)
      /\ r.event.type = "none" => h = s
      /\ r.event.type = "error" => h = Throw(s, "fatal")
  BY DEF Handle
<1>7. Fits(t, t.tok.stack, Place(t.tok), 0)
  BY DeliverSpans
<1> HIDE DEF h
<1>8. ~Stopped(h) /\ t = [h EXCEPT !.tok = r.t]
  BY <1>5 DEF Stopped
<1>9. t \in Spines /\ t.tok = r.t /\ Agree(h, t) /\ Agree(t, h)
  BY <1>4, <1>8, TokSet
<1>10. Spans(t, r.t.stack, Place(r.t), 0)
  BY <1>7, <1>9 DEF Fits
<1>11. Spans(h, r.t.stack, Place(r.t), 0)
  BY <1>9, <1>10, AgreeSpans
<1>12. r.event.type # "error"
  BY <1>1, <1>6, <1>8, ThrowStops
<1>13. k.pos \in Nat /\ k.start \in Nat /\ r.t.pos \in {k.pos, k.pos + 1} /\ Len(d) \in Nat
  <2>1. k.pos \in Nat /\ k.start \in Nat /\ Len(d) \in Nat
    BY <1>1 DEF Tokenizers
  <2>2. r.t.pos # k.pos + 1 => r.t.pos = k.pos
    BY DEF ReadsOn
  <2>3. QED
    BY <2>1, <2>2
<1>14. r.t.pos = k.pos \/ (r.t.pos = k.pos + 1 /\ k.pos < Len(d))
  <2>1. r.event.type = "number" => r.t.pos = k.pos
    BY DEF Spells
  <2>2. QED
    BY <1>12, <1>13, <2>1
<1>15. Reading(d, r.t) /\ Deep(d, r.t)
  BY <1>1, <1>14, ReadingOn, DeepOn
<1>16. r.event.type \in {"startObject", "key", "memberComma", "none"} \/ ~BeforeValue(r.t)
  <2>1. r.event.type \in {"startArray", "stringStart", "text", "stringEnd", "number", "literal"} \cup Ends
          => ~BeforeValue(r.t)
    BY DEF Follows, BetweenTokens
  <2>2. QED
    BY <1>1, <1>12, <2>1 DEF Events, Starts, Ends, Within
<1>17. r.event.type = "none" => r.t.stack = k.stack /\ Quietly(k, d[k.pos + 1], r.t) /\ k.pos < Len(d)
  BY DEF Tells, Starts, Ends, ReadsOn
<1>18. KeyRead(d, r.t)
  <2>1. CASE r.event.type = "none"
    BY <1>1, <1>17, <2>1, KeyReadOn
  <2>2. CASE r.event.type \in {"startObject", "key", "memberComma"}
    BY <2>2 DEF ReadsOn, KeyRead
  <2>3. CASE ~BeforeValue(r.t)
    BY <2>3 DEF BeforeValue, KeyRead
  <2>4. QED
    BY <1>16, <2>1, <2>2, <2>3
<1>19. SUFFICES Named(d, h, r.t)
  BY <1>9, <1>15, <1>18, NamedAgrees DEF Lexed
<1>20. SUFFICES ASSUME Held(h) PROVE Named(d, h, r.t)
  BY DEF Named
<1>21. Place(r.t) = "before" /\ BeforeValue(r.t)
  BY <1>4, <1>11, <1>20, HeldIs, PlaceIs
<1>22. CASE r.event.type = "startObject"
  <2>1. Top(h).prefix = k.pos + 1 /\ ~Top(h).comma
    <3>1. "object" \in Contexts
      BY DEF Contexts
    <3>2. QED
      BY <1>1, <1>4, <1>6, <1>8, <1>11, <1>20, <1>22, <3>1, StartHolds
  <2>2. r.t.state = "keyOrEndObject" /\ d[k.pos + 1] = "{" /\ k.state # "string"
    BY <1>22 DEF ReadsOn, Spells, Starts
  <2>3. k.pos < Len(d)
    BY <1>22
  <2>4. k.pos \in Bytes(d, {"{"})
    <3>1. k.pos \in 0..Len(d) - 1
      BY <1>13, <2>3
    <3>2. Reading(d, k)
      BY <1>1
    <3>3. ~Quoted(d, k.pos)
      BY <2>2, <3>2 DEF Reading
    <3>4. QED
      BY <2>2, <3>1, <3>3 DEF Bytes
  <2>5. (k.pos + 1) - 1 = k.pos
    BY <1>13
  <2>6. QED
    BY <2>1, <2>2, <2>4, <2>5 DEF Named
<1>23. CASE r.event.type = "key"
  <2>1. /\ Held(s) /\ Top(h).prefix = Top(s).prefix /\ Top(h).comma = Top(s).comma
        /\ Top(h).keyStart = r.event.start /\ Top(h).keyEnd = k.pos + 1
    <3>1. r.event.key \in Seq(Byte) /\ r.event.start \in Nat
      BY <1>1 DEF Events
    <3>2. s.frames # <<>> \/ s.opaque > 0
      BY <1>3, <1>23 DEF Within
    <3>3. h = OnKey(s, r.event.key, r.event.start, u)
      BY <1>6, <1>23
    <3>4. QED
      BY <1>1, <1>4, <1>8, <1>11, <1>20, <3>1, <3>2, <3>3, KeyHolds
  <2>2. /\ k.state = "string" /\ k.isKey /\ d[k.pos + 1] = "Q" /\ r.event.start = k.start
        /\ r.t.state = "colon" /\ r.t.pos = k.pos + 1 /\ r.t.stack = k.stack
    BY <1>23 DEF ReadsOn, Tells, Starts, Ends
  <2>3. /\ k.start < k.pos /\ k.start \in Bytes(d, {"Q"}) /\ DepthAt(d, k.start) = Len(k.stack)
        /\ \A i \in k.start + 1..k.pos - 1 : d[i + 1] # "Q"
    BY <1>1, <2>2 DEF KeyRead
  <2>4. k.pos \in 0..Len(d) - 1
    BY <1>13, <1>23
  <2>5. CloseQuote(d, k.start) = k.pos
    BY <1>13, <2>2, <2>3, <2>4, ClosedAt
  <2>6. (k.pos + 1) - 1 = k.pos /\ k.start < k.pos + 1
    BY <1>13, <2>3
  <2>7. \A i \in k.pos + 1..(k.pos + 1) - 1 : d[i + 1] = "w"
    BY <1>13
  <2>8. IF Top(h).comma THEN Top(h).prefix \in Bytes(d, {","}) ELSE Top(h).prefix - 1 \in Bytes(d, {"{"})
    BY <2>1 DEF Named
  <2>9. QED
    BY <2>1, <2>2, <2>3, <2>5, <2>6, <2>7, <2>8 DEF Named
<1>24. CASE r.event.type = "memberComma"
  <2>1. Top(h).prefix = k.pos /\ Top(h).comma
    <3>1. s.frames # <<>> \/ s.opaque > 0
      BY <1>3, <1>24 DEF Within
    <3>2. QED
      BY <1>1, <1>4, <1>6, <1>11, <1>20, <1>24, <3>1, CommaHolds
  <2>2. r.t.state = "key" /\ d[k.pos + 1] = "," /\ k.state # "string"
    BY <1>24 DEF ReadsOn, Spells
  <2>3. k.pos < Len(d)
    BY <1>24
  <2>4. k.pos \in Bytes(d, {","})
    <3>1. k.pos \in 0..Len(d) - 1
      BY <1>13, <2>3
    <3>2. Reading(d, k)
      BY <1>1
    <3>3. ~Quoted(d, k.pos)
      BY <2>2, <3>2 DEF Reading
    <3>4. QED
      BY <2>2, <3>1, <3>3 DEF Bytes
  <2>5. QED
    BY <2>1, <2>2, <2>4 DEF Named
<1>25. CASE r.event.type = "none"
  <2>1. h = s
    BY <1>6, <1>25
  <2>2. Held(s) => BeforeValue(k)
    BY <1>1, HeldIs, PlaceIs
  <2>3. QED
    BY <1>1, <1>17, <1>25, <2>1, <2>2, QuietNamed
<1>26. QED
  BY <1>16, <1>21, <1>22, <1>23, <1>24, <1>25

(* What an event does to the edits. *)
Alters(s, t, type, does) ==
  LET o == s.tok.pos
  IN  /\ type \in ValueStarts => Begins(s, t, does)
      /\ type \in {"text", "stringEnd", "key", "none"} => Like(s, t)
      /\ type = "memberComma" => Like(s, t) \/ EndsDrop(s, t, o, {})
      /\ type = "endObject" => Finishes(s, t, o)
      /\ type = "endArray" => Appends(s, t, o)
      /\ type # "error"
      /\ Held(t) => /\ type \in {"startObject", "key", "memberComma", "none"}
                    /\ type = "startObject" => Top(t).prefix = o + 1 /\ ~Discards(t)
                    /\ type = "memberComma" => Top(t).prefix = o /\ ~Discards(t)
                    /\ type \in {"key", "none"} => Held(s) /\ Top(t).prefix = Top(s).prefix

LEMMA HandleAlters ==
  ASSUME NEW s \in Spines, Counted(s), ~Stopped(s), s.tok.pos # Infinity,
         NEW r, Follows(s.tok, r), Tells(s.tok, r),
         r.event.type \notin {"number", "error"} => s.tok.pos + 1 # Infinity,
         r.event.type \in Ends \cup Within => s.frames # <<>> \/ s.opaque > 0,
         NEW u, Answering(u), Spans(s, s.tok.stack, Place(s.tok), 0),
         NEW t, t = Handle(s, r.event, u), ~Lost(t)
  PROVE  Alters(s, t, r.event.type, u.decision.kind)
<1> DEFINE k == s.tok
<1> DEFINE event == r.event
<1> DEFINE does == u.decision.kind
<1>1. event.key \in Seq(Byte) /\ event.start \in Nat /\ k.pos \in Nat /\ k.pos + 1 \in Nat /\ Infinity \in Nat
  BY SpineType, Numbers DEF Tells, Events
<1>2. event.type \in Starts \cup Ends \cup Within
                       \cup {"none", "stringStart", "text", "stringEnd", "number", "literal", "error"}
  BY DEF Tells, Events
<1>3. u.decision \in Decisions
  BY DEF Answering
<1>4. CASE event.type \in Starts
  <2>1. Place(k) # "string"
    BY <1>4, PlaceIs DEF Follows
  <2>2. ASSUME NEW kind \in Contexts, t = OnStart(s, kind, u)
        PROVE  /\ Begins(s, t, does)
               /\ Held(t) => kind = "object" /\ Top(t).prefix = k.pos + 1 /\ ~Discards(t)
    BY <1>3, <2>1, <2>2, OnStartBegins
  <2>3. CASE event.type = "startObject"
    <3>1. "object" \in Contexts /\ t = OnStart(s, "object", u)
      BY <2>3 DEF Handle, Contexts
    <3>2. QED
      BY <2>2, <2>3, <3>1 DEF Alters
  <2>4. CASE event.type = "startArray"
    <3>1. "array" \in Contexts /\ t = OnStart(s, "array", u)
      BY <2>4 DEF Handle, Contexts
    <3>2. QED
      BY <2>2, <2>4, <3>1 DEF Alters
  <2>5. QED
    BY <1>4, <2>3, <2>4 DEF Starts
<1>5. ASSUME NEW start \in Nat, NEW end \in Nat,
             t = IF s.opaque > 0 THEN s
                 ELSE Record(IF end = Infinity THEN DecideMember(s, Value(start, end, FALSE), u)
                             ELSE Told(DecideMember(s, Value(start, end, FALSE), u), u), u)
      PROVE  Begins(s, t, does) /\ ~Held(t)
  <2> DEFINE value == Value(start, end, FALSE)
  <2>1. value \in ValueType /\ value.end = end
    BY DEF Value, ValueType
  <2> HIDE DEF value
  <2>2. t = IF s.opaque > 0 THEN s
            ELSE Record(IF value.end = Infinity THEN DecideMember(s, value, u)
                        ELSE Told(DecideMember(s, value, u), u), u)
    BY <1>5, <2>1 DEF value
  <2>3. QED
    BY <1>3, <2>1, <2>2, ScalarBegins
<1>6. CASE event.type = "stringStart"
  <2>1. t = IF s.opaque > 0 THEN s
            ELSE Record(IF Infinity = Infinity THEN DecideMember(s, Value(k.pos, Infinity, FALSE), u)
                        ELSE Told(DecideMember(s, Value(k.pos, Infinity, FALSE), u), u), u)
    BY <1>6 DEF Handle, OnStringStart
  <2>2. Begins(s, t, does) /\ ~Held(t)
    BY <1>1, <1>5, <2>1
  <2>3. QED
    BY <1>6, <2>2 DEF Alters
<1>7. ASSUME NEW end \in Nat, t = OnScalar(s, event.start, end, u), end # Infinity
      PROVE  Begins(s, t, does) /\ ~Held(t)
  <2>1. t = IF s.opaque > 0 THEN s
            ELSE Record(IF end = Infinity THEN DecideMember(s, Value(event.start, end, FALSE), u)
                        ELSE Told(DecideMember(s, Value(event.start, end, FALSE), u), u), u)
    BY <1>7 DEF OnScalar
  <2>2. QED
    BY <1>1, <1>5, <2>1
<1>8. CASE event.type = "number"
  <2>1. t = OnScalar(s, event.start, k.pos, u)
    BY <1>8 DEF Handle
  <2>2. k.pos # Infinity
    OBVIOUS
  <2>3. Begins(s, t, does) /\ ~Held(t)
    BY <1>1, <1>7, <2>1, <2>2
  <2>4. QED
    BY <1>8, <2>3 DEF Alters
<1>9. CASE event.type = "literal"
  <2>1. t = OnScalar(s, event.start, k.pos + 1, u)
    BY <1>9 DEF Handle
  <2>2. Begins(s, t, does) /\ ~Held(t)
    BY <1>1, <1>7, <1>9, <2>1
  <2>3. QED
    BY <1>9, <2>2 DEF Alters
<1>10. CASE event.type = "endObject"
  <2>1. Place(k) # "string" /\ t = OnEndObject(s, u) /\ (s.frames # <<>> \/ s.opaque > 0) /\ k.pos + 1 # Infinity
    BY <1>10, PlaceIs DEF Follows, Handle, Ends
  <2>2. Finishes(s, t, k.pos) /\ ~Held(t)
    BY <2>1, OnEndObjectFinishes
  <2>3. QED
    BY <1>10, <2>2 DEF Alters, ValueStarts
<1>11. CASE event.type = "endArray"
  <2>1. /\ Place(k) # "string" /\ t = OnEndArray(s, u) /\ (s.frames # <<>> \/ s.opaque > 0)
        /\ k.pos + 1 # Infinity /\ Context(k.stack) = "array"
    BY <1>11, PlaceIs DEF Follows, Handle, Ends
  <2>2. Appends(s, t, k.pos) /\ ~Held(t)
    BY <2>1, OnEndArrayFinishes
  <2>3. QED
    BY <1>11, <2>2 DEF Alters, ValueStarts
<1>12. CASE event.type = "key"
  <2>1. t = OnKey(s, event.key, event.start, u) /\ (s.frames # <<>> \/ s.opaque > 0)
    BY <1>12 DEF Handle, Within
  <2>2. Like(s, t) /\ (Held(t) => Held(s) /\ Top(t).prefix = Top(s).prefix)
    BY <1>1, <2>1, OnKeyLike
  <2>3. QED
    BY <1>12, <2>2 DEF Alters, ValueStarts
<1>13. CASE event.type = "memberComma"
  <2>1. t = OnMemberComma(s) /\ (s.frames # <<>> \/ s.opaque > 0)
    BY <1>13 DEF Handle, Within
  <2>2. /\ Like(s, t) \/ EndsDrop(s, t, k.pos, {})
        /\ Held(t) => Top(t).prefix = k.pos /\ ~Discards(t)
    BY <2>1, OnCommaEnds
  <2>3. QED
    BY <1>13, <2>2 DEF Alters, ValueStarts
<1>14. CASE event.type = "text"
  <2>1. Place(k) = "string" /\ (t = s \/ t = Record(s, u))
    BY <1>14 DEF Follows, Place, Handle, OnStringChunk
  <2>2. Shows(s, t)
    BY <2>1, RecordShows, ShowsSame
  <2>3. ~Held(s)
    BY <2>1, HeldIs
  <2>4. Like(s, t) /\ ~Held(t)
    BY <2>2, <2>3, ShowsLike
  <2>5. QED
    BY <1>14, <2>4 DEF Alters, ValueStarts
<1>15. CASE event.type = "stringEnd"
  <2> DEFINE ended == EndDroppedValue(s, k.pos + 1)
  <2> DEFINE x == IF DropOpen(s) /\ s.discard.nest = 0 THEN ended ELSE s
  <2> DEFINE told == Told(x, u)
  <2>1. Place(k) # "before" /\ (t = x \/ t = Record(told, u))
    BY <1>15, PlaceIs DEF Follows, Handle, OnStringEnd
  <2>2. Shows(s, x) /\ x \in Spines
    BY <1>1, EndDroppedShows, ShowsSame
  <2> HIDE DEF x
  <2>3. Shows(x, told) /\ told \in Spines
    BY <2>2, ToldShows, ToldKeeps DEF Onward, Moves
  <2> HIDE DEF told
  <2>4. Shows(told, Record(told, u))
    BY <2>3, RecordShows
  <2>5. Shows(x, Record(told, u))
    BY <2>3, <2>4, ShowsThen
  <2>6. Shows(s, t)
    BY <2>1, <2>2, <2>5, ShowsThen
  <2>7. ~Held(s)
    BY <2>1, HeldIs
  <2>8. Like(s, t) /\ ~Held(t)
    BY <2>6, <2>7, ShowsLike
  <2>9. QED
    BY <1>15, <2>8 DEF Alters, ValueStarts
<1>16. CASE event.type = "error"
  <2>1. t = Throw(s, "fatal")
    BY <1>16 DEF Handle
  <2>2. t.thrown = "fatal"
    BY <2>1 DEF Throw, Spines
  <2>3. QED
    BY <2>2 DEF Lost
<1>17. CASE event.type = "none"
  <2>1. t = s
    BY <1>17 DEF Handle
  <2>2. QED
    BY <1>17, <2>1 DEF Alters, ValueStarts, Like, SameDrop
<1>18. QED
  BY <1>2, <1>4, <1>6, <1>8, <1>9, <1>10, <1>11, <1>12, <1>13, <1>14, <1>15, <1>16, <1>17 DEF Ends, Within

(* The events that may leave an edit or a prefix behind their byte. *)
Nearer == {"startObject", "memberComma"} \cup Ends

(* What an event leaves of the edits keeps them apart. *)
LEMMA AltersCut ==
  ASSUME NEW s \in Spines, NEW t \in Spines, NEW o \in Nat, o = s.tok.pos, Cut(s, o), NEW type, NEW does,
         type \in ValueStarts /\ s.opaque = 0 /\ Editable(s) => Waits(s),
         Alters(s, t, type, does),
         type \in ValueStarts \cup {"endArray", "text", "stringEnd", "key", "none", "memberComma", "endObject"}
  PROVE  Cut(t, IF type \in Nearer THEN o + 1 ELSE o)
<1> DEFINE lim == IF type \in Nearer THEN o + 1 ELSE o
<1> DEFINE Rest(r, l) == (\A e \in r.edits : LiesIn(e, l)) /\ Apart(r.edits) /\ IsFiniteSet(r.edits) /\ Aside(r, l)
<1>1. lim \in Nat /\ o <= lim
  OBVIOUS
<1>2. \A e \in s.edits : e.start \in Nat /\ e.end \in Nat /\ e.start < o /\ e.end <= o
  BY SpineType DEF EditType, Cut, LiesIn
<1>3. ASSUME Rest(t, o) PROVE Rest(t, lim) /\ \A e \in t.edits : e.end <= o /\ e.start < o
  <2>1. \A e \in t.edits : e.start \in Nat /\ e.end \in Nat
    BY SpineType DEF EditType
  <2>2. t.discard.start \in Nat
    BY SpineType DEF DiscardType
  <2> HIDE DEF lim
  <2>3. (\A e \in t.edits : LiesIn(e, lim)) /\ \A e \in t.edits : e.end <= o /\ e.start < o
    BY <1>1, <1>3, <2>1 DEF LiesIn
  <2>4. Aside(t, lim)
    BY <1>1, <1>3, <2>2 DEF Aside
  <2>5. QED
    BY <1>3, <2>3, <2>4
<1> HIDE DEF Rest
<1>4. CASE type \in ValueStarts
  <2>1. Begins(s, t, does)
    BY <1>4 DEF Alters
  <2>2. Rest(t, o)
    <3>1. CASE s.opaque = 0 /\ Editable(s)
      BY <1>4, <2>1, <3>1, BeginsCut DEF Rest
    <3>2. CASE ~(s.opaque = 0 /\ Editable(s))
      BY <2>1, <3>2, LikeCut DEF Begins, Rest
    <3>3. QED
      BY <3>1, <3>2
  <2>3. Held(t) => lim = o + 1 /\ Top(t).prefix = o + 1 /\ ~Discards(t)
    BY <1>4 DEF Alters, ValueStarts, Nearer, Ends
  <2>4. Rest(t, lim) /\ \A e \in t.edits : e.end <= o /\ e.start < o
    BY <1>3, <2>2
  <2>5. \A e \in t.edits : e.start \in Nat /\ e.end \in Nat
    BY SpineType DEF EditType
  <2>6. Beside(t)
    BY <2>3, <2>4, <2>5 DEF Beside
  <2>7. QED
    BY <2>4, <2>6 DEF Rest, Cut
<1>5. CASE type \in {"text", "stringEnd", "key", "none"}
  <2>1. Like(s, t) /\ (Held(t) => Held(s) /\ Top(t).prefix = Top(s).prefix)
    BY <1>5 DEF Alters
  <2>2. Rest(t, o)
    BY <2>1, LikeCut DEF Rest
  <2>3. Rest(t, lim)
    BY <1>3, <2>2
  <2>4. Beside(t)
    BY <2>1 DEF Cut, Beside, Like, SameDrop, Discards
  <2>5. QED
    BY <2>3, <2>4 DEF Rest, Cut
<1>6. CASE type \in {"memberComma", "endObject", "endArray"}
  <2>a. PICK a \in Added(o) : \E more \in SUBSET {a} :
          /\ (SameDrop(s, t) /\ Grew(s, t, more)) \/ EndsDrop(s, t, o, more)
          /\ type = "memberComma" => more = {}
    <3>1. CASE type \in {"endObject", "endArray"}
      BY <3>1 DEF Alters, Finishes, Appends
    <3>2. CASE type = "memberComma"
      <4>1. Edit(o, o, "A") \in Added(o)
        BY DEF Added
      <4>2. Like(s, t) => SameDrop(s, t) /\ Grew(s, t, {})
        BY DEF Like, Grew
      <4>3. (SameDrop(s, t) /\ Grew(s, t, {})) \/ EndsDrop(s, t, o, {})
        BY <3>2, <4>2 DEF Alters
      <4>4. {} \in SUBSET {Edit(o, o, "A")}
        OBVIOUS
      <4>5. QED
        BY <4>1, <4>3, <4>4
    <3>3. QED
      BY <1>6, <3>1, <3>2
  <2>1. PICK more \in SUBSET {a} :
          /\ (SameDrop(s, t) /\ Grew(s, t, more)) \/ EndsDrop(s, t, o, more)
          /\ type = "memberComma" => more = {}
    BY <2>a
  <2>2. /\ (\A e \in t.edits : LiesIn(e, o + 1)) /\ Apart(t.edits) /\ IsFiniteSet(t.edits)
        /\ Aside(t, o + 1)
        /\ \A e \in t.edits : e.end <= o /\ e.start <= o /\ (more = {} => e.start < o)
    BY <2>1, EndsCut
  <2>3. Held(t) => type = "memberComma" /\ Top(t).prefix = o /\ ~Discards(t)
    BY <1>6 DEF Alters
  <2>4. Beside(t)
    BY <2>1, <2>2, <2>3 DEF Beside
  <2>5. lim = o + 1
    BY <1>6 DEF Nearer, Ends
  <2>6. QED
    BY <2>2, <2>4, <2>5 DEF Cut
<1>7. QED
  BY <1>4, <1>5, <1>6

-----------------------------------------------------------------------------
(* The member in the document. *)

LEMMA Climbs ==
  ASSUME NEW n \in Nat, NEW P \in SUBSET Nat, 0 \in P,
         \A i \in Nat : i < n /\ i \in P => i + 1 \in P
  PROVE  \A i \in 0..n : i \in P
<1>1. SUFFICES ASSUME NEW bad \in 0..n, bad \notin P PROVE FALSE
  OBVIOUS
<1> DEFINE T == {i \in 0..n : i \notin P}
<1>2. PICK m \in T : \A i \in T : ~(<<i, m>> \in OpToRel(<, Nat))
  <2>1. T \subseteq Nat /\ T # {}
    BY <1>1
  <2>2. QED
    BY <2>1, NatLessThanWellFounded, WFMin
<1>3. m # 0 /\ m \in Nat
  OBVIOUS
<1>4. <<m - 1, m>> \in OpToRel(<, Nat)
  BY <1>3 DEF OpToRel
<1>5. m - 1 \in 0..n /\ m - 1 < n
  BY <1>3
<1>6. m - 1 \in P
  BY <1>2, <1>4, <1>5
<1>7. (m - 1) + 1 = m /\ m \notin P
  BY <1>3
<1>8. QED
  BY <1>5, <1>6, <1>7

(* The greatest and the least of a set of offsets. *)
LEMMA GreatestIs ==
  ASSUME NEW n \in Nat, NEW S \in SUBSET (0..n), NEW q \in S
  PROVE  Max(S) \in S /\ \A x \in S : x <= Max(S)
<1> DEFINE Q(k) == \A T \in SUBSET (0..k) : T # {} => \E x \in T : \A y \in T : x >= y
<1> DEFINE P == {k \in Nat : Q(k)}
<1>1. Q(0)
  <2>1. SUFFICES ASSUME NEW T \in SUBSET (0..0), T # {} PROVE \E x \in T : \A y \in T : x >= y
    OBVIOUS
  <2>a. 0..0 = {0}
    OBVIOUS
  <2>2. T = {0}
    BY <2>1, <2>a
  <2>3. 0 >= 0
    OBVIOUS
  <2>4. QED
    BY <2>2, <2>3
<1>2. ASSUME NEW k \in Nat, Q(k) PROVE Q(k + 1)
  <2>1. SUFFICES ASSUME NEW T \in SUBSET (0..k + 1), T # {} PROVE \E x \in T : \A y \in T : x >= y
    OBVIOUS
  <2>2. CASE k + 1 \in T
    <3>1. \A y \in T : k + 1 >= y
      OBVIOUS
    <3>2. QED
      BY <2>2, <3>1
  <2>3. CASE k + 1 \notin T
    <3>1. T \in SUBSET (0..k)
      BY <2>3
    <3>2. QED
      BY <1>2, <2>1, <3>1
  <2>4. QED
    BY <2>2, <2>3
<1> HIDE DEF Q
<1>3. P \in SUBSET Nat /\ 0 \in P /\ \A i \in Nat : i < n /\ i \in P => i + 1 \in P
  BY <1>1, <1>2
<1>4. Q(n)
  <2> HIDE DEF P
  <2>1. n \in P
    BY <1>3, Climbs
  <2>2. QED
    BY <2>1 DEF P
<1>5. \E x \in S : \A y \in S : x >= y
  BY <1>4 DEF Q
<1>6. Max(S) \in S /\ \A y \in S : Max(S) >= y
  BY <1>5 DEF Max
<1>7. QED
  BY <1>6

LEMMA LeastIs ==
  ASSUME NEW S \in SUBSET Nat, NEW q \in S
  PROVE  Min(S) \in S /\ \A x \in S : Min(S) <= x
<1>1. PICK m \in S : \A i \in S : ~(<<i, m>> \in OpToRel(<, Nat))
  BY NatLessThanWellFounded, WFMin
<1>2. ASSUME NEW i \in S PROVE m <= i
  <2>1. i \in Nat /\ m \in Nat
    OBVIOUS
  <2>2. ~(i < m)
    BY <1>1, <2>1 DEF OpToRel
  <2>3. QED
    BY <2>1, <2>2
<1>3. Min(S) \in S /\ \A y \in S : Min(S) <= y
  BY <1>2 DEF Min
<1>4. QED
  BY <1>3

LEMMA BytesIn ==
  ASSUME NEW d \in Seq(Byte), NEW classes
  PROVE  /\ Len(d) \in Nat /\ 0..Len(d) \subseteq Nat
         /\ Bytes(d, classes) \subseteq Nat /\ Bytes(d, classes) \subseteq 0..Len(d)
<1>1. Len(d) \in Nat
  OBVIOUS
<1>2. 0..Len(d) \subseteq Nat /\ 0..Len(d) - 1 \subseteq Nat /\ 0..Len(d) - 1 \subseteq 0..Len(d)
  BY <1>1
<1>3. Bytes(d, classes) \subseteq 0..Len(d) - 1
  BY DEF Bytes
<1>4. QED
  BY <1>1, <1>2, <1>3

PrevSep(d, k) == Shape(d)[k].prev

NextSep(d, k) == Shape(d)[k].next

LEMMA PrevIs ==
  ASSUME NEW d \in Seq(Byte), NEW k \in KeyStarts(d), NEW q \in Bytes(d, {"{", ","}), q < k
  PROVE  PrevSep(d, k) \in Nat /\ q <= PrevSep(d, k)
<1> DEFINE S == {o \in Bytes(d, {"{", ","}) : o < k}
<1>1. PrevSep(d, k) = Max(S)
  BY DEF PrevSep, Shape
<1>2. Len(d) \in Nat /\ S \in SUBSET (0..Len(d)) /\ q \in S
  BY BytesIn
<1> HIDE DEF S
<1>3. Max(S) \in S /\ q <= Max(S)
  BY <1>2, GreatestIs
<1>a. 0..Len(d) \subseteq Nat
  BY BytesIn
<1>4. QED
  BY <1>1, <1>2, <1>3, <1>a

LEMMA NextIs ==
  ASSUME NEW d \in Seq(Byte), NEW k \in KeyStarts(d), NEW o \in Bytes(d, {"}", ","}), o > k,
         DepthAt(d, o) = DepthAt(d, k)
  PROVE  NextSep(d, k) \in Nat /\ NextSep(d, k) <= o
<1> DEFINE S == {p \in Bytes(d, {"}", ","}) : p > k /\ DepthAt(d, p) = DepthAt(d, k)} \cup {Len(d)}
<1>1. NextSep(d, k) = Min(S)
  BY DEF NextSep, Shape
<1>2. S \in SUBSET Nat /\ o \in S
  BY BytesIn
<1> HIDE DEF S
<1>3. Min(S) \in Nat /\ Min(S) <= o
  BY <1>2, LeastIs
<1>4. QED
  BY <1>1, <1>2, <1>3

LEMMA OneOver == ASSUME NEW a \in Nat, NEW b \in Nat, NEW c \in Nat, a <= b + 1, b <= c PROVE a <= c + 1
  OBVIOUS

(* The member whose value starts, as the document has it: what is deleted, if it
   is dropped, begins no later than after the brace or the comma before it. *)
Marked(d, at, start, k, depth) ==
  /\ k \in KeyStarts(d) /\ DepthAt(d, k) = depth /\ k < at
  /\ start <= PrevSep(d, k) + 1 /\ PrevSep(d, k) \in Nat

LEMMA MemberWaits ==
  ASSUME NEW d \in Seq(Byte), NEW s \in Spines, Sized(s), ~Stopped(s), NEW floor \in Nat,
         Spans(s, s.tok.stack, Place(s.tok), 0), Lexed(d, s.tok), Stretch(d, s, s.tok, floor), Named(d, s, s.tok),
         NEW r, Follows(s.tok, r), Spells(s.tok, d[s.tok.pos + 1], r),
         r.event.type \in ValueStarts, s.opaque = 0, Editable(s)
  PROVE  /\ Waits(s) /\ floor <= Top(s).prefix
         /\ Marked(d, s.tok.pos, Top(s).prefix, Top(s).keyStart, Len(s.frames))
<1> DEFINE k == s.tok
<1> DEFINE p == Top(s).prefix
<1> DEFINE ks == Top(s).keyStart
<1> DEFINE ke == Top(s).keyEnd
<1> DEFINE n == Len(s.frames)
<1>1. /\ s.frames # <<>> /\ Top(s).kind = "object" /\ Top(s).hooks /\ ~Discards(s)
      /\ n \in Nat \ {0} /\ DOMAIN s.frames = 1..n /\ Top(s) = s.frames[n]
  BY TopIsLast DEF Editable, InObject
<1>2. Len(k.stack) = n /\ k.stack \in Seq(Contexts) /\ k.stack[n] = "object"
  <2>1. /\ k.stack \in Seq(Contexts) /\ Len(k.stack) = n + 0 /\ s.frames[n].kind = k.stack[n]
    BY <1>1 DEF Spans, Kinds
  <2>2. QED
    BY <1>1, <2>1
<1>3. Context(k.stack) = "object"
  BY <1>1, <1>2 DEF Context
<1>4. BeforeValue(k) /\ Place(k) = "before"
  <2>1. BeforeValue(k)
    BY <1>3 DEF Follows, ValueStarts, Starts
  <2>2. QED
    BY <2>1, PlaceIs
<1>5. Held(s)
  <2>1. n \in DOMAIN s.frames
    BY <1>1
  <2>2. s.frames[n].prefix # Infinity
    BY <1>1, <1>4, <2>1 DEF Spans, Holds
  <2>3. QED
    BY <1>1, <2>2 DEF Held
<1>6. k.state = "value" \/ k.state = "number"
  BY <1>4 DEF Spells, FirstBytes, ValueStarts, BeforeValue
<1>7. p \in Nat /\ ks \in Nat /\ ke \in Nat /\ k.pos \in Nat /\ k.start \in Nat
  BY <1>1, StretchTypes, SpineType DEF Tokenizers
<1>8. /\ floor <= p /\ p <= ks
      /\ k.state = "value" => ke <= k.pos
      /\ k.state = "number" => ke <= k.start /\ k.start <= k.pos
  BY <1>5, <1>6 DEF Stretch
<1>9. /\ IF Top(s).comma THEN p \in Bytes(d, {","}) ELSE p - 1 \in Bytes(d, {"{"})
      /\ ks \in Bytes(d, {"Q"}) /\ DepthAt(d, ks) = Len(k.stack) /\ ks < ke /\ ks \in KeyStarts(d)
  BY <1>5, <1>6 DEF Named
<1>10. Top(s).comma => p # ks
  BY <1>9 DEF Bytes
<1> HIDE DEF p, ks, ke, n
<1>11. ke <= k.pos /\ ks < k.pos /\ (Top(s).comma => p < ks)
  <2>1. ke <= k.pos
    BY <1>6, <1>7, <1>8
  <2>2. ks < k.pos
    <3>1. ks < ke
      BY <1>9
    <3>2. QED
      BY <1>7, <2>1, <3>1
  <2>3. p # ks => p < ks
    BY <1>7, <1>8
  <2>4. QED
    BY <1>10, <2>1, <2>2, <2>3
<1>12. Waits(s)
  BY <1>5, <1>8, <1>9, <1>11 DEF Waits, p, ks, ke
<1>13. PICK q \in Bytes(d, {"{", ","}) : q < ks /\ p <= q + 1
  <2>1. CASE Top(s).comma
    <3>1. p \in Bytes(d, {"{", ","})
      BY <1>9, <2>1 DEF Bytes
    <3>2. p < ks /\ p <= p + 1
      BY <1>7, <1>11, <2>1
    <3>3. QED
      BY <3>1, <3>2
  <2>2. CASE ~Top(s).comma
    <3>1. p - 1 \in Bytes(d, {"{", ","})
      BY <1>9, <2>2 DEF Bytes
    <3>2. p - 1 < ks /\ p <= (p - 1) + 1
      BY <1>7, <1>8
    <3>3. QED
      BY <3>1, <3>2
  <2>3. QED
    BY <2>1, <2>2
<1>14. PrevSep(d, ks) \in Nat /\ q <= PrevSep(d, ks)
  BY <1>9, <1>13, PrevIs
<1>15. q \in Nat
  BY BytesIn
<1>16. p <= PrevSep(d, ks) + 1
  <2>1. p <= q + 1
    BY <1>13
  <2> DEFINE v == PrevSep(d, ks)
  <2>2. v \in Nat /\ q <= v
    BY <1>14
  <2> HIDE DEF v
  <2>b. p \in Nat /\ q \in Nat
    BY <1>7, <1>15
  <2>3. p <= v + 1
    BY <2>b, <2>1, <2>2, OneOver
  <2>4. QED
    BY <2>3 DEF v
<1>17. DepthAt(d, ks) = n
  BY <1>2, <1>9
<1>18. Marked(d, k.pos, p, ks, n)
  BY <1>9, <1>11, <1>14, <1>16, <1>17 DEF Marked
<1>19. floor <= p
  BY <1>8
<1>20. QED
  BY <1>12, <1>18, <1>19 DEF p, ks, n

(* The member with its key at k is deleted, or will be when its drop ends. *)
Deleted(d, s, k) ==
  \/ \E e \in s.edits : e.bytes = "none" /\ e.start <= PrevSep(d, k) + 1 /\ NextSep(d, k) <= e.end
  \/ Discards(s) /\ s.discard.keyStart = k /\ s.discard.start <= PrevSep(d, k) + 1

Dropping(d, s, at) ==
  Discards(s) => Marked(d, at, s.discard.start, s.discard.keyStart, s.discard.depth)

Adds(s, t) == SameDrop(s, t) /\ s.edits \subseteq t.edits

LEMMA AddsDeleted ==
  ASSUME NEW d, NEW s, NEW t, Adds(s, t)
  PROVE  /\ \A k, at : Dropping(d, s, at) => Dropping(d, t, at)
         /\ \A k : Deleted(d, s, k) => Deleted(d, t, k)
  BY DEF Adds, SameDrop, Dropping, Deleted, Discards

(* The member that is dropped ends at the comma or the brace after it. *)
LEMMA EndsDeleted ==
  ASSUME NEW d \in Seq(Byte), NEW s \in Spines, NEW t, NEW more, NEW o \in Bytes(d, {"}", ","}),
         DepthAt(d, o) = Len(s.frames), Dropping(d, s, o), EndsDrop(s, t, o, more),
         NEW k, Deleted(d, s, k)
  PROVE  Deleted(d, t, k)
<1> DEFINE gone == Edit(s.discard.start, o, "none")
<1>1. /\ Discards(s) /\ s.discard.depth = Len(s.frames) /\ s.edits \subseteq t.edits
      /\ gone \in t.edits
  BY DEF EndsDrop, Grew
<1>2. CASE \E e \in s.edits : e.bytes = "none" /\ e.start <= PrevSep(d, k) + 1 /\ NextSep(d, k) <= e.end
  BY <1>1, <1>2 DEF Deleted
<1>3. CASE s.discard.keyStart = k /\ s.discard.start <= PrevSep(d, k) + 1
  <2>1. k \in KeyStarts(d) /\ DepthAt(d, k) = Len(s.frames) /\ k < o
    BY <1>1, <1>3 DEF Dropping, Marked
  <2>2. k \in Nat /\ o \in Nat
    BY BytesIn, <2>1 DEF KeyStarts
  <2>3. o > k
    BY <2>1, <2>2
  <2>4. NextSep(d, k) <= o
    BY <2>1, <2>3, NextIs
  <2>5. gone.bytes = "none" /\ gone.start = s.discard.start /\ gone.end = o
    BY DEF Edit
  <2> HIDE DEF gone
  <2>6. QED
    BY <1>1, <1>3, <2>4, <2>5 DEF Deleted
<1>4. QED
  BY <1>2, <1>3 DEF Deleted

LEMMA AltersDeleted ==
  ASSUME NEW d \in Seq(Byte), NEW s \in Spines, Sized(s), ~Stopped(s), Lexed(d, s.tok),
         Dropping(d, s, s.tok.pos), NEW r, ReadsOn(s.tok, d[s.tok.pos + 1], r),
         Spells(s.tok, d[s.tok.pos + 1], r), NEW type, type = r.event.type,
         type \notin {"number", "error"} => s.tok.pos < Len(d),
         NEW t, NEW does, Alters(s, t, type, does),
         type \in ValueStarts /\ s.opaque = 0 /\ Editable(s)
            => Held(s) /\ Marked(d, s.tok.pos, Top(s).prefix, Top(s).keyStart, Len(s.frames)),
         type \in ValueStarts \cup {"endArray", "text", "stringEnd", "key", "none", "memberComma", "endObject"}
  PROVE  /\ Dropping(d, t, s.tok.pos)
         /\ \A k : Deleted(d, s, k) => Deleted(d, t, k)
         /\ type \in ValueStarts /\ s.opaque = 0 /\ Editable(s) /\ does = "drop"
              => Deleted(d, t, Top(s).keyStart)
<1> DEFINE o == s.tok.pos
<1> DEFINE Goal == Dropping(d, t, o) /\ \A k : Deleted(d, s, k) => Deleted(d, t, k)
<1>1. Adds(s, t) => Goal
  BY AddsDeleted
<1>2. ASSUME type \in {"memberComma", "endObject"}, NEW more, EndsDrop(s, t, o, more) PROVE Goal
  <2>1. Discards(s) /\ ~Discards(t) /\ s.opaque = 0 /\ s.frames \in Seq(FrameType)
    BY <1>2, SpineType DEF EndsDrop
  <2>2. DepthAt(d, o) = Len(s.frames)
    <3>1. DepthAt(d, o) = Len(s.tok.stack) /\ Len(s.tok.stack) = Len(s.frames) + s.opaque
      BY DEF Lexed, Deep, Sized, Stopped
    <3>2. Len(s.frames) \in Nat
      BY <2>1
    <3>3. QED
      BY <2>1, <3>1, <3>2
  <2>3. o \in Bytes(d, {"}", ","})
    <3>1. s.tok.state # "string" /\ d[o + 1] \in {"}", ","}
      BY <1>2 DEF Spells, ReadsOn, Ends
    <3>2. o \in Nat /\ o < Len(d) /\ Len(d) \in Nat
      BY <1>2, SpineType DEF Tokenizers
    <3>3. o \in 0..Len(d) - 1
      BY <3>2
    <3>4. ~Quoted(d, o)
      BY <3>1 DEF Lexed, Reading
    <3>5. QED
      BY <3>1, <3>3, <3>4 DEF Bytes
  <2>4. Dropping(d, t, o)
    BY <2>1 DEF Dropping
  <2>5. \A k : Deleted(d, s, k) => Deleted(d, t, k)
    BY <1>2, <2>2, <2>3, EndsDeleted
  <2>6. QED
    BY <2>4, <2>5
<1> HIDE DEF Goal
<1>3. CASE type \in ValueStarts
  <2>1. Begins(s, t, does)
    BY <1>3 DEF Alters
  <2>2. CASE s.opaque = 0 /\ Editable(s) /\ does = "drop"
    <3>1. t.edits = s.edits /\ DropsMember(t, Top(s).prefix, Top(s).keyStart, Len(s.frames)) /\ ~Discards(s)
      BY <2>1, <2>2 DEF Begins, Editable
    <3>2. Marked(d, o, Top(s).prefix, Top(s).keyStart, Len(s.frames))
      BY <1>3, <2>2
    <3>3. Dropping(d, t, o)
      BY <3>1, <3>2 DEF DropsMember, Dropping
    <3>4. \A k : Deleted(d, s, k) => Deleted(d, t, k)
      BY <3>1 DEF Deleted
    <3>5. Discards(t)
      <4>1. Held(s)
        BY <2>2, <1>3
      <4>2. QED
        BY <3>1, <4>1 DEF Discards, DropsMember, Held
    <3>6. Deleted(d, t, Top(s).keyStart)
      BY <3>1, <3>2, <3>5 DEF Deleted, DropsMember, Marked
    <3>7. QED
      BY <3>3, <3>4, <3>6
  <2>3. CASE ~(s.opaque = 0 /\ Editable(s) /\ does = "drop")
    <3>1. Adds(s, t)
      BY <2>1, <2>3 DEF Begins, Adds, Like, Grew
    <3>2. QED
      BY <1>1, <2>3, <3>1 DEF Goal
  <2>4. QED
    BY <2>2, <2>3
<1>4. CASE type \in {"endArray", "text", "stringEnd", "key", "none"}
  <2>1. Adds(s, t)
    BY <1>4 DEF Alters, Adds, Like, Appends, Grew
  <2>2. QED
    BY <1>1, <1>4, <2>1 DEF Goal, ValueStarts
<1>5. CASE type = "memberComma"
  <2>1. Adds(s, t) \/ EndsDrop(s, t, o, {})
    BY <1>5 DEF Alters, Adds, Like
  <2>2. QED
    BY <1>1, <1>2, <1>5, <2>1 DEF Goal, ValueStarts
<1>6. CASE type = "endObject"
  <2>1. PICK a \in Added(o) : (SameDrop(s, t) /\ Grew(s, t, {a})) \/ EndsDrop(s, t, o, {a})
    BY <1>6 DEF Alters, Finishes
  <2>2. Adds(s, t) \/ EndsDrop(s, t, o, {a})
    BY <2>1 DEF Adds, Grew
  <2>3. QED
    BY <1>1, <1>2, <1>6, <2>2 DEF Goal, ValueStarts
<1>7. QED
  BY <1>3, <1>4, <1>5, <1>6

(* One byte, or the number at the end of the text: the edits stay apart, a drop
   that is open stays where the document has its member, and what was deleted
   or is decided to be stays deleted. *)
Decides(s, type) == type \in ValueStarts /\ s.opaque = 0 /\ Editable(s)

Tidy(d, t, at) == Cut(t, at) /\ Dropping(d, t, at)

LEMMA DeliverDeleted ==
  ASSUME NEW d \in Seq(Byte), NEW s, SpineOK(s), ~Stopped(s), s.tok.pos # Infinity,
         NEW r, Follows(s.tok, r), Tells(s.tok, r), ReadsOn(s.tok, d[s.tok.pos + 1], r),
         Spells(s.tok, d[s.tok.pos + 1], r),
         r.t \in Tokenizers, r.event.type \notin {"number", "error"} => s.tok.pos + 1 # Infinity,
         r.event.type \notin {"number", "error"} => s.tok.pos < Len(d),
         NEW u, Answering(u), Spans(s, s.tok.stack, Place(s.tok), 0),
         Lexed(d, s.tok), NEW floor \in Nat, Stretch(d, s, s.tok, floor), Named(d, s, s.tok),
         Tidy(d, s, s.tok.pos),
         NEW t, t = Deliver(s, r, u)
  PROVE  /\ Decides(s, r.event.type)
              => floor <= Top(s).prefix /\ Marked(d, s.tok.pos, Top(s).prefix, Top(s).keyStart, Len(s.frames))
         /\ ~Lost(t) =>
              /\ Cut(t, s.tok.pos + 1) /\ Dropping(d, t, s.tok.pos)
              /\ r.event.type \in {"number", "error"} => Cut(t, s.tok.pos)
              /\ \A k : Deleted(d, s, k) => Deleted(d, t, k)
              /\ Decides(s, r.event.type) /\ u.decision.kind = "drop" => Deleted(d, t, Top(s).keyStart)
         /\ ~Stopped(t) => Tidy(d, t, t.tok.pos)
<1> DEFINE k == s.tok
<1> DEFINE o == s.tok.pos
<1> DEFINE h == Handle(s, r.event, u)
<1> DEFINE type == r.event.type
<1> DEFINE does == u.decision.kind
<1> DEFINE lim == IF type \in Nearer THEN o + 1 ELSE o
<1>1. /\ s \in Spines /\ Counted(s) /\ r.event \in Events /\ k \in Tokenizers
      /\ Len(k.stack) = Len(s.frames) + s.opaque /\ Sized(s)
  BY SpineType DEF SpineOK, Sized, Tells, Stopped
<1>2. Len(s.frames) \in Nat /\ s.opaque \in Nat /\ s.frames \in Seq(FrameType) /\ o \in Nat
  BY <1>1, SpineType DEF Tokenizers
<1>3. r.event.type \in Ends \cup Within => s.frames # <<>> \/ s.opaque > 0
  BY <1>1, <1>2 DEF Tells
<1>4. h \in Spines
  <2>1. Opens(s, h) \/ Closes(s, h) \/ Onward(s, h)
    BY <1>1, <1>3, HandleMoves
  <2>2. QED
    BY <2>1 DEF Opens, Closes, Onward, Moves
<1>5. t = IF Threw(h) \/ h.disposed THEN h ELSE [h EXCEPT !.tok = r.t]
  BY DEF Deliver
<1> HIDE DEF h
<1>6. Decides(s, type) => /\ Waits(s) /\ floor <= Top(s).prefix
                          /\ Marked(d, o, Top(s).prefix, Top(s).keyStart, Len(s.frames))
  BY <1>1, MemberWaits DEF Decides
<1>7. SUFFICES ASSUME ~Lost(t)
               PROVE  /\ Cut(t, o + 1) /\ Dropping(d, t, o)
                      /\ type \in {"number", "error"} => Cut(t, o)
                      /\ \A key : Deleted(d, s, key) => Deleted(d, t, key)
                      /\ Decides(s, type) /\ does = "drop" => Deleted(d, t, Top(s).keyStart)
                      /\ ~Stopped(t) => Tidy(d, t, t.tok.pos)
  <2>1. ~Stopped(t) => ~Lost(t)
    BY DEF Stopped, Threw, Lost
  <2>2. QED
    BY <1>6, <2>1
<1>8. /\ ~Lost(h) /\ t \in Spines /\ t.edits = h.edits /\ t.discard = h.discard /\ t.frames = h.frames
      /\ ~Stopped(t) => t.tok = r.t
  <2>1. CASE Threw(h) \/ h.disposed
    BY <1>4, <1>5, <1>7, <2>1 DEF Stopped
  <2>2. CASE ~(Threw(h) \/ h.disposed)
    <3>1. t = [h EXCEPT !.tok = r.t]
      BY <1>5, <2>2
    <3>2. QED
      BY <1>4, <2>2, <3>1, TokSet DEF Agree, Lost, Threw
  <2>3. QED
    BY <2>1, <2>2
<1>9. Alters(s, h, type, does)
  BY <1>1, <1>3, <1>8, HandleAlters DEF h
<1>10. type \in ValueStarts \cup {"endArray", "text", "stringEnd", "key", "none", "memberComma", "endObject"}
  <2>1. type # "error"
    BY <1>9 DEF Alters
  <2>2. QED
    BY <1>1, <2>1 DEF Events, Starts, Ends, Within, ValueStarts
<1>11. Cut(h, lim)
  BY <1>1, <1>2, <1>4, <1>6, <1>9, <1>10, AltersCut DEF Decides, Tidy
<1>12. /\ Dropping(d, h, o)
       /\ \A key : Deleted(d, s, key) => Deleted(d, h, key)
       /\ Decides(s, type) /\ does = "drop" => Deleted(d, h, Top(s).keyStart)
  <2>1. type \in ValueStarts /\ s.opaque = 0 /\ Editable(s)
           => Held(s) /\ Marked(d, o, Top(s).prefix, Top(s).keyStart, Len(s.frames))
    BY <1>6 DEF Decides, Waits
  <2>2. Dropping(d, s, o) /\ type = r.event.type
    BY DEF Tidy
  <2>3. type \notin {"number", "error"} => o < Len(d)
    OBVIOUS
  <2> HIDE DEF type, does
  <2>4. /\ Dropping(d, h, o)
        /\ \A key : Deleted(d, s, key) => Deleted(d, h, key)
        /\ type \in ValueStarts /\ s.opaque = 0 /\ Editable(s) /\ does = "drop"
              => Deleted(d, h, Top(s).keyStart)
    BY <1>1, <1>9, <1>10, <2>1, <2>2, <2>3, AltersDeleted
  <2>5. QED
    BY <2>4 DEF Decides
<1>13. /\ Cut(t, lim) /\ Dropping(d, t, o)
       /\ \A key : Deleted(d, s, key) => Deleted(d, t, key)
       /\ Decides(s, type) /\ does = "drop" => Deleted(d, t, Top(s).keyStart)
  BY <1>8, <1>11, <1>12 DEF Cut, Beside, Aside, Held, Top, Discards, Dropping, Deleted
<1>14. lim \in Nat /\ lim <= o + 1 /\ o + 1 \in Nat
  BY <1>2
<1>15. Cut(t, o + 1)
  BY <1>8, <1>13, <1>14, CutWider
<1>16. type \in {"number", "error"} => Cut(t, o)
  BY <1>13 DEF Nearer, Ends
<1>17. ~Stopped(t) => Tidy(d, t, t.tok.pos)
  <2>1. SUFFICES ASSUME ~Stopped(t) PROVE Tidy(d, t, r.t.pos)
    BY <1>8
  <2>2. r.t.pos \in {o, o + 1}
    BY DEF ReadsOn
  <2>3. type \in Nearer => r.t.pos = o + 1
    BY DEF Nearer, ReadsOn, Spells, Starts, Ends
  <2>4. lim <= r.t.pos /\ o <= r.t.pos /\ r.t.pos \in Nat
    BY <1>2, <2>2, <2>3
  <2>5. Cut(t, r.t.pos)
    BY <1>8, <1>13, <1>14, <2>4, CutWider
  <2>6. Dropping(d, t, r.t.pos)
    <3>1. SUFFICES ASSUME Discards(t) PROVE Marked(d, r.t.pos, t.discard.start, t.discard.keyStart, t.discard.depth)
      BY DEF Dropping
    <3>2. Marked(d, o, t.discard.start, t.discard.keyStart, t.discard.depth)
      BY <1>13, <3>1 DEF Dropping
    <3>3. t.discard.keyStart \in Nat
      BY <1>8, SpineType DEF DiscardType
    <3>4. t.discard.keyStart < r.t.pos
      BY <1>2, <2>4, <3>2, <3>3 DEF Marked
    <3>5. QED
      BY <3>2, <3>4 DEF Marked
  <2>7. QED
    BY <2>5, <2>6 DEF Tidy
<1>18. QED
  BY <1>13, <1>15, <1>16, <1>17

(* What a live spine reads is where the document has it. *)
Placed(d, s) == Lexed(d, s.tok) /\ Named(d, s, s.tok) /\ Tidy(d, s, s.tok.pos)

Turned(d, s, t, floor, lim, decides, does) ==
  /\ decides => /\ floor <= Top(s).prefix
                /\ Marked(d, s.tok.pos, Top(s).prefix, Top(s).keyStart, Len(s.frames))
  /\ ~Lost(t) => /\ Cut(t, lim)
                 /\ \A k : Deleted(d, s, k) => Deleted(d, t, k)
                 /\ decides /\ does = "drop" => Deleted(d, t, Top(s).keyStart)
  /\ ~Stopped(t) => Placed(d, t)

LEMMA StepTurned ==
  ASSUME NEW d \in Seq(Byte), NEW s, SpineOK(s), ~Stopped(s),
         s.tok.pos # Infinity, s.tok.pos + 1 # Infinity, s.tok.pos < Len(d),
         NEW u, Answering(u), NEW b \in Byte, b = d[s.tok.pos + 1],
         Spans(s, s.tok.stack, Place(s.tok), 0), NEW floor \in Nat,
         Stretch(d, s, s.tok, floor), Placed(d, s), NEW t, t = Step(s, b, u)
  PROVE  Turned(d, s, t, floor, s.tok.pos + 1,
                Decides(s, Scan(s.tok, b).event.type) /\ ~AtLimit(s, b), u.decision.kind)
<1>1. CASE AtLimit(s, b)
  <2>1. t = Throw(s, "fatal") /\ s \in Spines
    BY <1>1 DEF Step, SpineOK
  <2>2. t.thrown = "fatal"
    BY <2>1 DEF Throw, Spines
  <2>3. Lost(t) /\ Stopped(t)
    BY <2>2 DEF Lost, Stopped, Threw
  <2>4. QED
    BY <1>1, <2>3 DEF Turned
<1>2. CASE ~AtLimit(s, b)
  <2> DEFINE r == Scan(s.tok, b)
  <2>1. Sound(s.tok) /\ s.tok \in Tokenizers
    BY DEF SpineOK, Stopped, Sound
  <2>2. /\ Tells(s.tok, r) /\ r.t \in Tokenizers /\ Follows(s.tok, r)
        /\ ReadsOn(s.tok, d[s.tok.pos + 1], r) /\ Spells(s.tok, d[s.tok.pos + 1], r)
    BY <2>1, ScanTells, ScanSound, ScanFollows, ScanReadsOn, ScanSpells DEF Sound
  <2>3. t = Deliver(s, r, u)
    BY <1>2 DEF Step
  <2> HIDE DEF r
  <2>4. /\ Decides(s, r.event.type)
              => floor <= Top(s).prefix /\ Marked(d, s.tok.pos, Top(s).prefix, Top(s).keyStart, Len(s.frames))
        /\ ~Lost(t) => /\ Cut(t, s.tok.pos + 1)
                       /\ \A k : Deleted(d, s, k) => Deleted(d, t, k)
                       /\ Decides(s, r.event.type) /\ u.decision.kind = "drop" => Deleted(d, t, Top(s).keyStart)
        /\ ~Stopped(t) => Tidy(d, t, t.tok.pos)
    BY <2>2, <2>3, DeliverDeleted DEF Placed
  <2>5. ~Stopped(t) => Lexed(d, t.tok) /\ Named(d, t, t.tok)
    BY <2>2, <2>3, DeliverNamed DEF Placed
  <2>6. QED
    BY <2>4, <2>5 DEF Turned, Placed, r
<1>3. QED
  BY <1>1, <1>2

LEMMA EndStepTurned ==
  ASSUME NEW d \in Seq(Byte), NEW s, SpineOK(s), ~Stopped(s), s.tok.pos # Infinity, s.tok.state = "number",
         NEW u, Answering(u), Spans(s, s.tok.stack, Place(s.tok), 0), NEW floor \in Nat,
         Stretch(d, s, s.tok, floor), Placed(d, s), NEW t, t = EndStep(s, u)
  PROVE  Turned(d, s, t, floor, s.tok.pos,
                Decides(s, FinishNumber(s.tok).event.type), u.decision.kind)
<1> DEFINE r == FinishNumber(s.tok)
<1>1. Sound(s.tok) /\ s.tok \in Tokenizers
  BY DEF SpineOK, Stopped, Sound
<1>2. /\ Tells(s.tok, r) /\ r.t \in Tokenizers /\ Follows(s.tok, r)
      /\ ReadsOn(s.tok, d[s.tok.pos + 1], r) /\ Spells(s.tok, d[s.tok.pos + 1], r)
  BY <1>1, FinishNumberTells, FinishNumberSound, FinishNumberFollows, FinishNumberReadsOn, FinishNumberSpells
     DEF Sound
<1>3. r.event.type \in {"number", "error"}
  BY DEF FinishNumber, Result, Bad, EventOf
<1>4. t = Deliver(s, r, u)
  BY DEF EndStep
<1> HIDE DEF r
<1>5. /\ Decides(s, r.event.type)
            => floor <= Top(s).prefix /\ Marked(d, s.tok.pos, Top(s).prefix, Top(s).keyStart, Len(s.frames))
      /\ ~Lost(t) => /\ Cut(t, s.tok.pos)
                     /\ \A k : Deleted(d, s, k) => Deleted(d, t, k)
                     /\ Decides(s, r.event.type) /\ u.decision.kind = "drop" => Deleted(d, t, Top(s).keyStart)
      /\ ~Stopped(t) => Tidy(d, t, t.tok.pos)
  BY <1>2, <1>3, <1>4, DeliverDeleted DEF Placed
<1>6. ~Stopped(t) => Lexed(d, t.tok) /\ Named(d, t, t.tok)
  BY <1>2, <1>3, <1>4, DeliverNamed DEF Placed
<1>7. QED
  BY <1>5, <1>6 DEF Turned, Placed, r

-----------------------------------------------------------------------------
(* What a flush pushes, as the offsets of its bytes. *)
Stuff == [at : Nat, text : Byte \cup {"none", "R", "A", ",A"}]

At(run) == {run[i].at : i \in DOMAIN run}

Ats(runs) == UNION {At(runs[j]) : j \in DOMAIN runs}

LEMMA AtJoin ==
  ASSUME NEW x \in Seq(Stuff), NEW y \in Seq(Stuff)
  PROVE  x \o y \in Seq(Stuff) /\ At(x \o y) = At(x) \cup At(y)
<1> DEFINE m == Len(x)
<1> DEFINE n == Len(y)
<1> DEFINE z == x \o y
<1>1. /\ z \in Seq(Stuff) /\ Len(z) = m + n
      /\ \A i \in 1..m + n : z[i] = IF i <= m THEN x[i] ELSE y[i - m]
  BY ConcatProperties
<1>2. m \in Nat /\ n \in Nat /\ DOMAIN x = 1..m /\ DOMAIN y = 1..n /\ DOMAIN z = 1..m + n
  BY <1>1
<1> HIDE DEF m, n, z
<1>3. ASSUME NEW i \in DOMAIN z PROVE z[i].at \in At(x) \cup At(y)
  <2>1. CASE i <= m
    <3>1. i \in DOMAIN x /\ z[i] = x[i]
      BY <1>1, <1>2, <2>1
    <3>2. QED
      BY <3>1 DEF At
  <2>2. CASE ~(i <= m)
    <3>1. i - m \in DOMAIN y /\ z[i] = y[i - m]
      BY <1>1, <1>2, <2>2
    <3>2. QED
      BY <3>1 DEF At
  <2>3. QED
    BY <2>1, <2>2
<1>4. ASSUME NEW i \in DOMAIN x PROVE x[i].at \in At(z)
  <2>1. i \in DOMAIN z /\ z[i] = x[i]
    BY <1>1, <1>2
  <2>2. QED
    BY <2>1 DEF At
<1>5. ASSUME NEW i \in DOMAIN y PROVE y[i].at \in At(z)
  <2>1. i + m \in DOMAIN z /\ z[i + m] = y[i]
    <3>1. i + m \in 1..m + n /\ ~(i + m <= m) /\ (i + m) - m = i
      BY <1>2
    <3>2. QED
      BY <1>1, <1>2, <3>1
  <2>2. QED
    BY <2>1 DEF At
<1>6. At(z) = At(x) \cup At(y)
  BY <1>3, <1>4, <1>5 DEF At
<1>7. QED
  BY <1>1, <1>6 DEF z

LEMMA AtsJoin ==
  ASSUME NEW x \in Seq(Seq(Stuff)), NEW y \in Seq(Seq(Stuff))
  PROVE  x \o y \in Seq(Seq(Stuff)) /\ Ats(x \o y) = Ats(x) \cup Ats(y)
<1> DEFINE m == Len(x)
<1> DEFINE n == Len(y)
<1> DEFINE z == x \o y
<1>1. /\ z \in Seq(Seq(Stuff)) /\ Len(z) = m + n
      /\ \A i \in 1..m + n : z[i] = IF i <= m THEN x[i] ELSE y[i - m]
  BY ConcatProperties
<1>2. m \in Nat /\ n \in Nat /\ DOMAIN x = 1..m /\ DOMAIN y = 1..n /\ DOMAIN z = 1..m + n
  BY <1>1
<1> HIDE DEF m, n, z
<1>3. ASSUME NEW i \in DOMAIN z PROVE At(z[i]) \subseteq Ats(x) \cup Ats(y)
  <2>1. CASE i <= m
    <3>1. i \in DOMAIN x /\ z[i] = x[i]
      BY <1>1, <1>2, <2>1
    <3>2. QED
      BY <3>1 DEF Ats
  <2>2. CASE ~(i <= m)
    <3>1. i \in 1..m + n
      BY <1>2
    <3>2. i - m \in 1..n
      BY <1>2, <2>2, <3>1
    <3>3. z[i] = y[i - m]
      BY <1>1, <2>2, <3>1
    <3>4. i - m \in DOMAIN y
      BY <1>2, <3>2
    <3>5. QED
      BY <3>3, <3>4 DEF Ats
  <2>3. QED
    BY <2>1, <2>2
<1>4. ASSUME NEW i \in DOMAIN x PROVE At(x[i]) \subseteq Ats(z)
  <2>1. i \in DOMAIN z /\ z[i] = x[i]
    BY <1>1, <1>2
  <2>2. QED
    BY <2>1 DEF Ats
<1>5. ASSUME NEW i \in DOMAIN y PROVE At(y[i]) \subseteq Ats(z)
  <2>1. i + m \in DOMAIN z /\ z[i + m] = y[i]
    <3>1. i + m \in 1..m + n /\ ~(i + m <= m) /\ (i + m) - m = i
      BY <1>2
    <3>2. QED
      BY <1>1, <1>2, <3>1
  <2>2. QED
    BY <2>1 DEF Ats
<1>6. Ats(z) = Ats(x) \cup Ats(y)
  BY <1>3, <1>4, <1>5 DEF Ats
<1>7. QED
  BY <1>1, <1>6 DEF z

LEMMA AtsOne ==
  ASSUME NEW run \in Seq(Stuff)
  PROVE  <<run>> \in Seq(Seq(Stuff)) /\ Ats(<<run>>) = At(run)
<1>1. DOMAIN <<run>> = {1} /\ <<run>>[1] = run
  OBVIOUS
<1>2. QED
  BY <1>1 DEF Ats

LEMMA AtsNone == <<>> \in Seq(Seq(Stuff)) /\ Ats(<<>>) = {} /\ <<>> \in Seq(Stuff) /\ At(<<>>) = {}
  BY DEF Ats, At

LEMMA AtEcho ==
  ASSUME doc \in Seq(Byte), NEW a \in Nat, NEW b \in Nat, b <= Len(doc)
  PROVE  Echo(a, b) \in Seq(Stuff) /\ At(Echo(a, b)) = {o \in Nat : a <= o /\ o < b}
<1>1. CASE b < a
  <2>1. 1..(b - a) = {}
    BY <1>1
  <2>2. Echo(a, b) = <<>>
    BY <2>1 DEF Echo
  <2>3. {o \in Nat : a <= o /\ o < b} = {}
    BY <1>1
  <2>4. QED
    BY <2>2, <2>3, AtsNone
<1>2. CASE a <= b
  <2> DEFINE n == b - a
  <2> DEFINE f == Echo(a, b)
  <2>1. \A i \in 1..n : f[i] = [at |-> a + i - 1, text |-> ByteAt(a + i - 1)]
    BY DEF Echo
  <2>2. DOMAIN f = 1..n /\ n \in Nat
    BY <1>2 DEF Echo
  <2>3. f = [i \in 1..n |-> f[i]]
    BY DEF Echo
  <2>4. ASSUME NEW i \in 1..n PROVE f[i] \in Stuff /\ f[i].at = a + i - 1
    <3>1. a + i - 1 \in Nat /\ (a + i - 1) + 1 \in 1..Len(doc)
      BY <1>2
    <3>2. ByteAt(a + i - 1) \in Byte
      BY <3>1 DEF ByteAt
    <3> HIDE DEF f
    <3>3. f[i] = [at |-> a + i - 1, text |-> ByteAt(a + i - 1)]
      BY <2>1
    <3> DEFINE at == a + i - 1
    <3>4. at \in Nat
      BY <3>1
    <3> HIDE DEF at
    <3>5. \A x \in Byte : [at |-> at, text |-> x] \in Stuff
      BY <3>4 DEF Stuff
    <3>6. QED
      BY <3>2, <3>3, <3>5 DEF at
  <2> HIDE DEF f
  <2>5. f \in Seq(Stuff)
    BY <2>2, <2>3, <2>4
  <2>6. ASSUME NEW i \in DOMAIN f PROVE f[i].at \in {o \in Nat : a <= o /\ o < b}
    BY <1>2, <2>2, <2>4
  <2>7. ASSUME NEW o \in Nat, a <= o, o < b PROVE o \in At(f)
    <3>1. o - a + 1 \in 1..n /\ a + (o - a + 1) - 1 = o
      BY <2>7
    <3> DEFINE i == o - a + 1
    <3>2. i \in DOMAIN f /\ f[i].at = o
      BY <2>2, <2>4, <3>1
    <3> HIDE DEF i
    <3>3. QED
      BY <3>2 DEF At
  <2>8. At(f) = {o \in Nat : a <= o /\ o < b}
    BY <2>6, <2>7 DEF At
  <2>9. QED
    BY <2>5, <2>8 DEF f
<1>3. QED
  BY <1>1, <1>2

-----------------------------------------------------------------------------
(* Edits in order. *)
Rank(S, e) == Cardinality({f \in S : Before(f, e)})

LEMMA RankIs ==
  ASSUME NEW S \in SUBSET EditType, IsFiniteSet(S), Apart(S), NEW e \in S, NEW g \in S
  PROVE  /\ Rank(S, e) \in 0..Cardinality(S) - 1
         /\ e.start < g.start => Rank(S, e) < Rank(S, g)
<1> DEFINE L(x) == {f \in S : Before(f, x)}
<1>1. \A x \in S : x.start \in Nat
  BY DEF EditType
<1>2. \A x \in S, f \in S : Before(f, x) <=> f.start < x.start
  <2>1. SUFFICES ASSUME NEW x \in S, NEW f \in S PROVE Before(f, x) <=> f.start < x.start
    OBVIOUS
  <2>2. x.start = f.start => x = f
    BY DEF Apart
  <2>3. x.end \in Nat
    BY DEF EditType
  <2>4. x = f => ~(f.end > x.end)
    BY <2>3
  <2>5. QED
    BY <2>2, <2>4 DEF Before
<1>3. ASSUME NEW x \in S, NEW T \in SUBSET S, L(x) \cup {x} \subseteq T
      PROVE  Cardinality(L(x)) < Cardinality(T) /\ Cardinality(L(x)) \in Nat /\ Cardinality(T) \in Nat
  <2>1. L(x) \in SUBSET S /\ x \notin L(x)
    BY <1>1, <1>2
  <2> HIDE DEF L
  <2>2. IsFiniteSet(L(x)) /\ IsFiniteSet(T)
    BY <2>1, FS_Subset
  <2>3. Cardinality(L(x) \cup {x}) = Cardinality(L(x)) + 1
    BY <2>1, <2>2, FS_AddElement
  <2>4. L(x) \cup {x} \in SUBSET T
    BY <1>3
  <2>5. Cardinality(L(x) \cup {x}) <= Cardinality(T)
    BY <2>2, <2>4, FS_Subset
  <2>6. Cardinality(L(x)) \in Nat /\ Cardinality(T) \in Nat
    BY <2>2, FS_CardinalityType
  <2>7. QED
    BY <2>3, <2>5, <2>6
<1>4. Rank(S, e) = Cardinality(L(e)) /\ Rank(S, g) = Cardinality(L(g))
  BY DEF Rank
<1>5. Cardinality(L(e)) < Cardinality(S) /\ Cardinality(L(e)) \in Nat /\ Cardinality(S) \in Nat
  <2>1. S \in SUBSET S /\ L(e) \cup {e} \subseteq S
    OBVIOUS
  <2> HIDE DEF L
  <2>2. QED
    BY <1>3, <2>1
<1>6. ASSUME e.start < g.start PROVE Cardinality(L(e)) < Cardinality(L(g))
  <2>1. L(g) \in SUBSET S /\ L(e) \cup {e} \subseteq L(g)
    <3>1. ASSUME NEW f \in L(e) PROVE f.start < g.start
      <4>1. f \in S /\ f.start < e.start
        BY <1>2
      <4>2. QED
        BY <1>1, <1>6, <4>1
    <3>2. QED
      BY <1>2, <1>6, <3>1
  <2> HIDE DEF L
  <2>2. QED
    BY <1>3, <2>1
<1>7. QED
  BY <1>4, <1>5, <1>6

Ordered(S, q) ==
  /\ q \in [1..Cardinality(S) -> S]
  /\ \A e \in S : \E i \in 1..Cardinality(S) : q[i] = e
  /\ \A i, j \in 1..Cardinality(S) : i < j => q[i].start < q[j].start

LEMMA InOrderIs ==
  ASSUME NEW S \in SUBSET EditType, IsFiniteSet(S), Apart(S)
  PROVE  Cardinality(S) \in Nat /\ Ordered(S, InOrder(S))
<1> DEFINE n == Cardinality(S)
<1> DEFINE T == 0..n - 1
<1> DEFINE r == [e \in S |-> Rank(S, e)]
<1> DEFINE q == InOrder(S)
<1>1. n \in Nat
  BY FS_CardinalityType
<1>2. \A e \in S : e.start \in Nat
  BY DEF EditType
<1>3. \A e \in S : Rank(S, e) \in T
  BY RankIs
<1>4. \A e, g \in S : e.start < g.start => Rank(S, e) < Rank(S, g)
  BY RankIs
<1>5. \A i \in 1..n : q[i] = CHOOSE e \in S : Rank(S, e) = i - 1
  BY DEF InOrder, Rank
<1>6. q = [i \in 1..n |-> q[i]]
  BY DEF InOrder
<1> HIDE DEF n, T, q
<1>7. \A e, g \in S : Rank(S, e) = Rank(S, g) => e = g
  <2>1. SUFFICES ASSUME NEW e \in S, NEW g \in S, Rank(S, e) = Rank(S, g) PROVE e = g
    OBVIOUS
  <2>2. Rank(S, e) \in Int
    BY <1>1, <1>3 DEF T
  <2>3. ~(e.start < g.start) /\ ~(g.start < e.start)
    BY <1>4, <2>1, <2>2
  <2>4. e.start = g.start
    BY <1>2, <2>3
  <2>5. QED
    BY <2>4 DEF Apart
<1>8. r \in Injection(S, T)
  BY <1>3, <1>7 DEF Injection, IsInjective
<1>9. IsFiniteSet(T) /\ Cardinality(T) = n
  <2>1. 0 \in Int /\ n - 1 \in Int
    BY <1>1
  <2>2. IsFiniteSet(0..n - 1) /\ Cardinality(0..n - 1) = IF 0 > n - 1 THEN 0 ELSE (n - 1) - 0 + 1
    BY <2>1, FS_Interval
  <2>3. QED
    BY <1>1, <2>2 DEF T
<1>10. r \in Surjection(S, T)
  <2> HIDE DEF r
  <2>1. Cardinality(S) = Cardinality(T)
    BY <1>9 DEF n
  <2>2. QED
    BY <1>8, <1>9, <2>1, FS_Injection
<1>11. ASSUME NEW i \in 1..n PROVE q[i] \in S /\ Rank(S, q[i]) = i - 1
  <2>1. i - 1 \in T
    BY <1>1 DEF T
  <2>2. \E e \in S : r[e] = i - 1
    BY <1>10, <2>1 DEF Surjection
  <2>3. \E e \in S : Rank(S, e) = i - 1
    BY <2>2
  <2>4. QED
    BY <1>5, <2>3
<1>12. q \in [1..n -> S]
  BY <1>6, <1>11
<1>13. ASSUME NEW e \in S PROVE \E i \in 1..n : q[i] = e
  <2> DEFINE i == Rank(S, e) + 1
  <2>1. i \in 1..n /\ i - 1 = Rank(S, e)
    BY <1>1, <1>3 DEF T
  <2>2. q[i] = e
    BY <1>7, <1>11, <2>1
  <2>3. QED
    BY <2>1, <2>2
<1>14. ASSUME NEW i \in 1..n, NEW j \in 1..n, i < j PROVE q[i].start < q[j].start
  <2>1. q[i] \in S /\ q[j] \in S /\ Rank(S, q[i]) = i - 1 /\ Rank(S, q[j]) = j - 1
    BY <1>11
  <2>2. ~(q[j].start < q[i].start)
    BY <1>4, <1>14, <2>1
  <2>3. q[i].start # q[j].start
    <3>1. q[i] = q[j] => i - 1 = j - 1
      BY <2>1
    <3>2. q[i] # q[j]
      BY <1>14, <3>1
    <3>3. QED
      BY <2>1, <3>2 DEF Apart
  <2>4. q[i].start \in Nat /\ q[j].start \in Nat
    BY <1>2, <2>1
  <2>5. QED
    BY <2>2, <2>3, <2>4
<1>15. QED
  BY <1>1, <1>12, <1>13, <1>14 DEF Ordered, n, q

-----------------------------------------------------------------------------
(* A fold takes the elements of 1..n in their order: the greatest is last. *)
LEMMA LastIs ==
  ASSUME NEW k \in Nat, NEW z \in SUBSET (1..k + 1), k + 1 \in z
  PROVE  Max(z) = k + 1
<1>1. \A x \in z : (\A y \in z : x >= y) <=> x = k + 1
  OBVIOUS
<1>2. QED
  BY <1>1 DEF Max

LEMMA LastIn ==
  ASSUME NEW n \in Nat, NEW z \in SUBSET (1..n), z # {}
  PROVE  Max(z) \in z
<1>1. z \in SUBSET (0..n)
  OBVIOUS
<1>2. QED
  BY <1>1, GreatestIs

(* The value of a fold over each part of 1..n, by an operation given as a
   function; there is such a function. *)
Folding(it, n, first, op) ==
  it = [z \in SUBSET (1..n) |-> IF z = {} THEN first ELSE op[<<it[z \ {Max(z)}], Max(z)>>]]

LEMMA FoldingExists ==
  ASSUME NEW n \in Nat, NEW A, NEW first \in A, NEW op \in [A \X (1..n) -> A]
  PROVE  \E it \in [SUBSET (1..n) -> A] : Folding(it, n, first, op)
<1> DEFINE Q(k) == \E it \in [SUBSET (1..k) -> A] : Folding(it, k, first, op)
           P == {k \in Nat : k <= n => Q(k)}
<1>1. 0 \in P
  <2> DEFINE it == [z \in SUBSET (1..0) |-> first]
  <2>1. it \in [SUBSET (1..0) -> A] /\ Folding(it, 0, first, op)
    BY DEF Folding
  <2>2. Q(0)
    BY <2>1
  <2> HIDE DEF Q
  <2>3. QED
    BY <2>2
<1>2. \A k \in Nat : k < n /\ Q(k) => Q(k + 1)
  <2>1. SUFFICES ASSUME NEW k \in Nat, k < n, Q(k)
                 PROVE  \E it \in [SUBSET (1..k + 1) -> A] : Folding(it, k + 1, first, op)
    OBVIOUS
  <2>2. PICK f \in [SUBSET (1..k) -> A] : Folding(f, k, first, op)
    BY <2>1
  <2> DEFINE it == [z \in SUBSET (1..k + 1) |->
                      IF k + 1 \in z THEN op[<<f[z \ {k + 1}], k + 1>>] ELSE f[z]]
  <2>3. \A z \in SUBSET (1..k + 1) : z \ {k + 1} \in SUBSET (1..k)
    OBVIOUS
  <2>4. it \in [SUBSET (1..k + 1) -> A]
    <3>1. SUFFICES ASSUME NEW z \in SUBSET (1..k + 1)
                   PROVE  (IF k + 1 \in z THEN op[<<f[z \ {k + 1}], k + 1>>] ELSE f[z]) \in A
      OBVIOUS
    <3>2. CASE k + 1 \in z
      <4>1. f[z \ {k + 1}] \in A
        BY <2>3
      <4>2. <<f[z \ {k + 1}], k + 1>> \in A \X (1..n)
        BY <2>1, <4>1
      <4>3. QED
        BY <3>2, <4>2
    <3>3. CASE k + 1 \notin z
      BY <3>3, <2>3
    <3>4. QED
      BY <3>2, <3>3
  <2>5. ASSUME NEW z \in SUBSET (1..k + 1)
        PROVE  it[z] = IF z = {} THEN first ELSE op[<<it[z \ {Max(z)}], Max(z)>>]
    <3>1. CASE k + 1 \in z
      <4>1. Max(z) = k + 1
        BY <3>1, LastIs
      <4>2. it[z \ {k + 1}] = f[z \ {k + 1}]
        BY <2>3
      <4>3. it[z] = op[<<f[z \ {k + 1}], k + 1>>]
        BY <3>1
      <4>4. QED
        BY <3>1, <4>1, <4>2, <4>3
    <3>2. CASE k + 1 \notin z
      <4>1. z \in SUBSET (1..k)
        BY <3>2
      <4>2. it[z] = f[z]
        BY <3>2
      <4>3. f[z] = IF z = {} THEN first ELSE op[<<f[z \ {Max(z)}], Max(z)>>]
        BY <2>2, <4>1 DEF Folding
      <4>4. it[z \ {Max(z)}] = f[z \ {Max(z)}]
        BY <3>2
      <4>5. QED
        BY <4>2, <4>3, <4>4
    <3>3. QED
      BY <3>1, <3>2
  <2>6. Folding(it, k + 1, first, op)
    <3>1. it = [z \in SUBSET (1..k + 1) |-> it[z]]
      OBVIOUS
    <3> HIDE DEF it
    <3>2. QED
      BY <2>5, <3>1 DEF Folding
  <2>7. QED
    BY <2>4, <2>6
<1>3. Q(n)
  <2> HIDE DEF Q
  <2>1. P \in SUBSET Nat /\ \A k \in Nat : k < n /\ k \in P => k + 1 \in P
    BY <1>2
  <2>2. n \in P
    <3> HIDE DEF P
    <3>1. QED
      BY <1>1, <2>1, Climbs
  <2>3. QED
    BY <2>2
<1>4. QED
  BY <1>3

(* A fold over the first i comes to i last. *)
LEMMA LastOfFirst ==
  ASSUME NEW n \in Nat, NEW i \in 1..n
  PROVE  /\ 1..i \in SUBSET (1..n) /\ 1..i # {}
         /\ Max(1..i) = i /\ (1..i) \ {Max(1..i)} = 1..i - 1
<1>1. \A x \in 1..i : (\A y \in 1..i : x >= y) <=> x = i
  OBVIOUS
<1>2. Max(1..i) = i
  BY <1>1 DEF Max
<1>3. QED
  BY <1>2

Accs == [cur : Nat, runs : Seq(Seq(Stuff))]

(* Where the pushes are after each edit. *)
Spliced(g, q, n, from) ==
  /\ g[0] = [cur |-> from, runs |-> <<>>]
  /\ \A i \in 0..n : g[i] \in Accs
  /\ \A i \in 1..n : g[i] = Splice(g[i - 1], q[i])
  /\ FoldLeft(Splice, [cur |-> from, runs |-> <<>>], q) = g[n]

LEMMA Widest ==
  ASSUME NEW a \in Nat, NEW b \in Nat, NEW c \in Nat
  PROVE  /\ (IF b > c THEN b ELSE c) \in Nat
         /\ c <= (IF b > c THEN b ELSE c) /\ b <= (IF b > c THEN b ELSE c)
         /\ ~(a < c) /\ a <= b => c <= a /\ c <= b
         /\ b <= b
  OBVIOUS

LEMMA SpliceIs ==
  ASSUME doc \in Seq(Byte), NEW acc \in Accs, NEW e \in EditType, e.start <= e.end, e.start <= Len(doc)
  PROVE  LET t == Splice(acc, e)
         IN  /\ t \in Accs /\ acc.cur <= t.cur /\ e.end <= t.cur
             /\ \A o \in Ats(t.runs) : \/ o \in Ats(acc.runs)
                                       \/ acc.cur <= o /\ o < e.start
                                       \/ acc.cur <= o /\ o = e.start /\ e.bytes # "none"
<1> DEFINE t == Splice(acc, e)
<1>1. acc.cur \in Nat /\ acc.runs \in Seq(Seq(Stuff)) /\ e.start \in Nat /\ e.end \in Nat
      /\ e.bytes \in {"none", "R", "A", ",A"}
  BY DEF Accs, EditType
<1>2. CASE e.start < acc.cur
  <2> DEFINE cur == IF e.end > acc.cur THEN e.end ELSE acc.cur
  <2>1. t = [acc EXCEPT !.cur = cur]
    BY <1>2 DEF Splice
  <2>2. cur \in Nat /\ acc.cur <= cur /\ e.end <= cur
    BY <1>1, Widest
  <2> HIDE DEF cur, t
  <2>3. t \in Accs /\ t.cur = cur /\ t.runs = acc.runs
    BY <2>1, <2>2 DEF Accs
  <2>4. QED
    BY <2>2, <2>3 DEF t
<1>3. CASE ~(e.start < acc.cur)
  <2> DEFINE x == IF e.start > acc.cur THEN <<Echo(acc.cur, e.start)>> ELSE <<>>
  <2> DEFINE y == IF e.bytes # "none" THEN <<<<[at |-> e.start, text |-> e.bytes]>>>> ELSE <<>>
  <2>1. t = [cur |-> e.end, runs |-> acc.runs \o x \o y]
    BY <1>3 DEF Splice
  <2>2. x \in Seq(Seq(Stuff)) /\ \A o \in Ats(x) : acc.cur <= o /\ o < e.start
    <3>1. CASE e.start > acc.cur
      <4>1. x = <<Echo(acc.cur, e.start)>>
        BY <3>1
      <4>2. /\ Echo(acc.cur, e.start) \in Seq(Stuff)
            /\ At(Echo(acc.cur, e.start)) = {o \in Nat : acc.cur <= o /\ o < e.start}
        BY <1>1, AtEcho
      <4> HIDE DEF x, t
      <4>3. QED
        BY <4>1, <4>2, AtsOne
    <3>2. CASE ~(e.start > acc.cur)
      BY <3>2, AtsNone
    <3>3. QED
      BY <3>1, <3>2
  <2>3. y \in Seq(Seq(Stuff)) /\ \A o \in Ats(y) : o = e.start /\ e.bytes # "none"
    <3>1. CASE e.bytes = "none"
      BY <3>1, AtsNone
    <3>2. CASE e.bytes # "none"
      <4> DEFINE p == [at |-> e.start, text |-> e.bytes]
      <4>1. p \in Stuff /\ p.at = e.start
        BY <1>1 DEF Stuff
      <4>2. y = <<<<p>>>>
        BY <3>2
      <4> HIDE DEF p, y
      <4>3. <<p>> \in Seq(Stuff) /\ At(<<p>>) = {e.start}
        <5>1. DOMAIN <<p>> = {1} /\ <<p>>[1] = p
          OBVIOUS
        <5>2. QED
          BY <4>1, <5>1 DEF At
      <4>4. QED
        BY <3>2, <4>2, <4>3, AtsOne
    <3>3. QED
      BY <3>1, <3>2
  <2> HIDE DEF x, y, t
  <2>4. acc.runs \o x \in Seq(Seq(Stuff)) /\ Ats(acc.runs \o x) = Ats(acc.runs) \cup Ats(x)
    BY <1>1, <2>2, AtsJoin
  <2>5. /\ acc.runs \o x \o y \in Seq(Seq(Stuff))
        /\ Ats(acc.runs \o x \o y) = Ats(acc.runs \o x) \cup Ats(y)
    BY <2>3, <2>4, AtsJoin
  <2>6. t \in Accs /\ t.cur = e.end /\ t.runs = acc.runs \o x \o y
    BY <1>1, <2>1, <2>5 DEF Accs
  <2>7. acc.cur <= e.start /\ acc.cur <= e.end /\ e.end <= e.end
    BY <1>1, <1>3, Widest
  <2>8. ASSUME NEW o \in Ats(t.runs)
        PROVE  \/ o \in Ats(acc.runs)
               \/ acc.cur <= o /\ o < e.start
               \/ acc.cur <= o /\ o = e.start /\ e.bytes # "none"
    BY <2>2, <2>3, <2>4, <2>5, <2>6, <2>7
  <2>9. QED
    BY <2>6, <2>7, <2>8 DEF t
<1>4. QED
  BY <1>2, <1>3

LEMMA SplicedExists ==
  ASSUME doc \in Seq(Byte), NEW n \in Nat, NEW q \in [1..n -> EditType],
         \A i \in 1..n : q[i].start <= q[i].end /\ q[i].start <= Len(doc), NEW from \in Nat
  PROVE  \E g : Spliced(g, q, n, from)
<1> DEFINE first == [cur |-> from, runs |-> <<>>]
<1> DEFINE op == [p \in Accs \X (1..n) |-> Splice(p[1], q[p[2]])]
<1> DEFINE F(it) == [z \in SUBSET (1..n) |-> IF z = {} THEN first
                                             ELSE Splice(it[z \ {Max(z)}], q[Max(z)])]
<1> DEFINE iter == CHOOSE it : it = F(it)
<1>1. first \in Accs
  BY AtsNone DEF Accs
<1>2. \A p \in Accs \X (1..n) : Splice(p[1], q[p[2]]) \in Accs
  BY SpliceIs
<1>3. op \in [Accs \X (1..n) -> Accs]
  BY <1>2
<1>4. PICK f \in [SUBSET (1..n) -> Accs] : Folding(f, n, first, op)
  <2> HIDE DEF op, first
  <2>1. QED
    BY <1>1, <1>3, FoldingExists
<1>5. f = F(f)
  <2>1. ASSUME NEW z \in SUBSET (1..n), z # {}
        PROVE  op[<<f[z \ {Max(z)}], Max(z)>>] = Splice(f[z \ {Max(z)}], q[Max(z)])
    <3>1. Max(z) \in 1..n /\ z \ {Max(z)} \in SUBSET (1..n)
      BY <2>1, LastIn
    <3>2. <<f[z \ {Max(z)}], Max(z)>> \in Accs \X (1..n)
      BY <3>1
    <3> HIDE DEF F, iter, first
    <3>3. QED
      BY <3>2
  <2> HIDE DEF op, first, iter
  <2>2. QED
    BY <1>4, <2>1 DEF Folding
<1>6. iter = F(iter)
  <2> HIDE DEF F
  <2>1. QED
    BY <1>5
<1>7. FoldLeft(Splice, first, q) = iter[1..n]
  <2>1. DOMAIN q = 1..n
    OBVIOUS
  <2>2. QED
    BY <2>1 DEF FoldLeft, MapThenFoldSet
<1> HIDE DEF iter, op, first
<1>8. \A z \in SUBSET (1..n) : iter[z] = IF z = {} THEN first ELSE Splice(iter[z \ {Max(z)}], q[Max(z)])
  BY <1>6
<1> HIDE DEF F
<1> DEFINE g == [i \in 0..n |-> iter[1..i]]
<1>9. g[0] = first
  <2>1. 1..0 = {} /\ 1..0 \in SUBSET (1..n) /\ 0 \in 0..n
    OBVIOUS
  <2>2. QED
    BY <1>8, <2>1
<1>10. ASSUME NEW i \in 1..n PROVE g[i] = Splice(g[i - 1], q[i])
  <2>1. iter[1..i] = Splice(iter[1..i - 1], q[i])
    BY <1>8, LastOfFirst
  <2>2. i \in 0..n /\ i - 1 \in 0..n
    OBVIOUS
  <2>3. QED
    BY <2>1, <2>2
<1>11. g[n] = iter[1..n]
  OBVIOUS
<1> HIDE DEF g
<1>12. \A i \in 0..n : g[i] \in Accs
  <2> DEFINE P == {i \in Nat : i <= n => g[i] \in Accs}
  <2>1. P \in SUBSET Nat /\ 0 \in P
    BY <1>1, <1>9
  <2>2. ASSUME NEW i \in Nat, i < n, i \in P PROVE i + 1 \in P
    <3>1. i + 1 \in 1..n /\ (i + 1) - 1 = i /\ g[i] \in Accs
      BY <2>2
    <3>2. g[i + 1] = Splice(g[i], q[i + 1])
      BY <1>10, <3>1
    <3>3. g[i + 1] \in Accs
      BY <3>1, <3>2, SpliceIs
    <3>4. QED
      BY <3>3
  <2>3. \A i \in 0..n : i \in P
    <3> HIDE DEF P
    <3>1. QED
      BY <2>1, <2>2, Climbs
  <2>4. QED
    BY <2>3
<1>13. Spliced(g, q, n, from)
  BY <1>7, <1>9, <1>10, <1>11, <1>12 DEF Spliced, first
<1>14. QED
  BY <1>13

-----------------------------------------------------------------------------
(* A flush leaves out what its edits delete. *)
Spared(e, o) == ~(e.bytes = "none" /\ e.start <= o /\ o < e.end)

LEMMA AtsType ==
  ASSUME NEW runs \in Seq(Seq(Stuff)), NEW o \in Ats(runs)
  PROVE  o \in Nat
<1>1. PICK m \in DOMAIN runs : o \in At(runs[m])
  BY DEF Ats
<1>2. runs[m] \in Seq(Stuff)
  OBVIOUS
<1>3. PICK l \in DOMAIN runs[m] : o = runs[m][l].at
  BY <1>1 DEF At
<1>4. runs[m][l] \in Stuff
  BY <1>2, <1>3
<1>5. QED
  BY <1>3, <1>4 DEF Stuff

LEMMA SplicedSpares ==
  ASSUME doc \in Seq(Byte), NEW n \in Nat, NEW q \in [1..n -> EditType],
         \A i \in 1..n : q[i].start <= q[i].end /\ q[i].start <= Len(doc),
         \A i, j \in 1..n : i < j => q[i].start < q[j].start,
         NEW from \in Nat, NEW g, Spliced(g, q, n, from)
  PROVE  /\ from <= g[n].cur /\ \A j \in 1..n : q[j].end <= g[n].cur
         /\ \A o \in Ats(g[n].runs) : /\ from <= o
                                      /\ \E j \in 1..n : o <= q[j].start
                                      /\ \A j \in 1..n : Spared(q[j], o)
<1> DEFINE Q(i) == /\ from <= g[i].cur /\ \A j \in 1..n : j <= i => q[j].end <= g[i].cur
                   /\ \A o \in Ats(g[i].runs) : /\ o \in Nat /\ from <= o
                                                /\ \E j \in 1..n : j <= i /\ o <= q[j].start
                                                /\ \A j \in 1..n : j <= i => Spared(q[j], o)
<1> DEFINE P == {i \in Nat : i <= n => Q(i)}
<1>1. \A i \in 1..n : q[i].start \in Nat /\ q[i].end \in Nat /\ q[i] \in EditType
  BY DEF EditType
<1>2. \A i \in 0..n : g[i].cur \in Nat
  BY DEF Spliced, Accs
<1>3. Q(0)
  <2>1. g[0].cur = from /\ g[0].runs = <<>>
    BY DEF Spliced
  <2>2. Ats(g[0].runs) = {} /\ from <= from
    BY <2>1, AtsNone
  <2>3. \A j \in 1..n : ~(j <= 0)
    OBVIOUS
  <2>4. QED
    BY <2>1, <2>2, <2>3
<1>4. ASSUME NEW i \in Nat, i < n, Q(i) PROVE Q(i + 1)
  <2> DEFINE k == i + 1
  <2> DEFINE e == q[k]
  <2>1. k \in 1..n /\ k - 1 = i /\ i \in 0..n /\ k \in 0..n
    BY <1>4
  <2>2. g[k] = Splice(g[i], e) /\ g[i] \in Accs
    BY <2>1 DEF Spliced
  <2>3. /\ g[i].cur <= g[k].cur /\ e.end <= g[k].cur
        /\ \A o \in Ats(g[k].runs) : \/ o \in Ats(g[i].runs)
                                     \/ g[i].cur <= o /\ o < e.start
                                     \/ g[i].cur <= o /\ o = e.start /\ e.bytes # "none"
    <3>1. e \in EditType /\ e.start <= e.end /\ e.start <= Len(doc)
      BY <1>1, <2>1
    <3> HIDE DEF e, k
    <3>2. QED
      BY <2>2, <3>1, SpliceIs
  <2>4. e.start \in Nat /\ e.end \in Nat
    BY <1>1, <2>1
  <2>5. \A j \in 1..n : j <= k => j <= i \/ j = k
    BY <2>1
  <2>6. \A j \in 1..n : j <= i => j <= k /\ q[j].start < e.start /\ q[j].end <= g[i].cur
    BY <1>4, <2>1
  <2>7. k <= k
    BY <2>1
  <2> HIDE DEF k
  <2>8. from <= g[k].cur
    BY <1>2, <1>4, <2>1, <2>3
  <2>9. ASSUME NEW j \in 1..n, j <= k PROVE q[j].end <= g[k].cur
    BY <1>1, <1>2, <2>1, <2>3, <2>5, <2>6, <2>9
  <2>10. g[k].runs \in Seq(Seq(Stuff))
    BY <2>1 DEF Spliced, Accs
  <2>11. ASSUME NEW o \in Ats(g[k].runs) PROVE o \in Nat
    BY <2>10, AtsType
  <2>12. ASSUME NEW o \in Ats(g[k].runs)
         PROVE  /\ from <= o
                /\ \E j \in 1..n : j <= k /\ o <= q[j].start
                /\ \A j \in 1..n : j <= k => Spared(q[j], o)
    <3>1. o \in Nat
      BY <2>11
    <3>2. CASE o \in Ats(g[i].runs)
      <4>1. from <= o
        BY <1>4, <3>2
      <4>2. PICK m \in 1..n : m <= i /\ o <= q[m].start
        BY <1>4, <3>2
      <4>3. m <= k /\ o < e.start
        <5>1. q[m].start \in Nat /\ q[m].start < e.start
          BY <1>1, <2>6, <4>2
        <5>2. QED
          BY <2>4, <2>6, <3>1, <4>2, <5>1
      <4>4. Spared(e, o)
        BY <2>4, <3>1, <4>3 DEF Spared
      <4>5. \A j \in 1..n : j <= i => Spared(q[j], o)
        BY <1>4, <3>2
      <4>6. QED
        BY <2>5, <4>1, <4>2, <4>3, <4>4, <4>5
    <3>3. CASE g[i].cur <= o /\ (o < e.start \/ (o = e.start /\ e.bytes # "none"))
      <4>1. g[i].cur \in Nat /\ from <= g[i].cur
        BY <1>2, <1>4, <2>1
      <4>2. from <= o
        BY <3>1, <3>3, <4>1
      <4>3. o <= e.start
        BY <2>4, <3>1, <3>3
      <4>4. Spared(e, o)
        BY <2>4, <3>1, <3>3 DEF Spared
      <4>5. ASSUME NEW j \in 1..n, j <= i PROVE Spared(q[j], o)
        <5>1. q[j].end <= g[i].cur /\ q[j].end \in Nat
          BY <1>1, <2>6, <4>5
        <5>2. ~(o < q[j].end)
          BY <3>1, <3>3, <4>1, <5>1
        <5>3. QED
          BY <5>2 DEF Spared
      <4>6. QED
        BY <2>1, <2>5, <2>7, <4>2, <4>3, <4>4, <4>5
    <3>4. QED
      BY <2>3, <3>2, <3>3
  <2>13. Q(k)
    BY <2>8, <2>9, <2>11, <2>12
  <2>14. QED
    BY <2>13 DEF k
<1> HIDE DEF Q
<1>5. P \in SUBSET Nat /\ 0 \in P /\ \A i \in Nat : i < n /\ i \in P => i + 1 \in P
  BY <1>3, <1>4
<1>6. Q(n)
  <2> HIDE DEF P
  <2>a. \A i \in 0..n : i \in P
    BY <1>5, Climbs
  <2>1. n \in P
    BY <2>a
  <2>2. QED
    BY <2>1 DEF P
<1>7. \A j \in 1..n : j <= n
  OBVIOUS
<1>8. QED
  BY <1>6, <1>7 DEF Q

LEMMA FlushIs ==
  ASSUME doc \in Seq(Byte), NEW edits \in SUBSET EditType, IsFiniteSet(edits), Apart(edits),
         NEW from \in Nat, NEW limit \in Nat, limit <= Len(doc),
         \A e \in edits : e.start <= e.end /\ e.start < limit
  PROVE  /\ FlushRuns(edits, from, limit) \in Seq(Seq(Stuff))
         /\ \A o \in Ats(FlushRuns(edits, from, limit)) :
              /\ o \in Nat /\ from <= o /\ o < limit
              /\ \A e \in edits : e.end <= limit => Spared(e, o)
<1> DEFINE runs == FlushRuns(edits, from, limit)
<1> DEFINE S == Ready(edits, limit)
<1> DEFINE n == Cardinality(S)
<1> DEFINE q == InOrder(S)
<1> DEFINE last == FoldLeft(Splice, [cur |-> from, runs |-> <<>>], q)
<1>1. CASE limit <= from
  <2>1. runs = <<>>
    BY <1>1 DEF FlushRuns
  <2>2. QED
    BY <2>1, AtsNone
<1>2. CASE ~(limit <= from)
  <2> DEFINE tail == IF last.cur < limit THEN <<Echo(last.cur, limit)>> ELSE <<>>
  <2>1. runs = last.runs \o tail
    BY <1>2 DEF FlushRuns
  <2>2. S \in SUBSET edits /\ S \in SUBSET EditType
    BY DEF Ready
  <2>3. IsFiniteSet(S) /\ Apart(S)
    BY <2>2, FS_Subset DEF Apart
  <2> HIDE DEF S
  <2>4. n \in Nat /\ Ordered(S, q)
    BY <2>2, <2>3, InOrderIs
  <2> HIDE DEF n, q
  <2>5. /\ q \in [1..n -> EditType] /\ \A i \in 1..n : q[i] \in S
        /\ \A e \in S : \E i \in 1..n : q[i] = e
        /\ \A i, j \in 1..n : i < j => q[i].start < q[j].start
    BY <2>2, <2>4 DEF Ordered, n
  <2>6. \A e \in edits : e.start \in Nat /\ e.end \in Nat
    BY DEF EditType
  <2>7. \A i \in 1..n : q[i].start <= q[i].end /\ q[i].start <= Len(doc) /\ q[i].start < limit /\ q[i].start \in Nat
    <3>1. SUFFICES ASSUME NEW i \in 1..n
                   PROVE  /\ q[i].start <= q[i].end /\ q[i].start <= Len(doc)
                          /\ q[i].start < limit /\ q[i].start \in Nat
      OBVIOUS
    <3>2. q[i] \in edits
      BY <2>2, <2>5
    <3>3. q[i].start <= q[i].end /\ q[i].start < limit /\ q[i].start \in Nat
      BY <2>6, <3>2
    <3>4. q[i].start <= Len(doc)
      BY <3>3
    <3>5. QED
      BY <3>3, <3>4
  <2>8. PICK g : Spliced(g, q, n, from)
    BY <2>4, <2>5, <2>7, SplicedExists
  <2>9. last = g[n] /\ g[n] \in Accs
    BY <2>4, <2>8 DEF Spliced
  <2> HIDE DEF last
  <2>10. /\ from <= last.cur /\ \A j \in 1..n : q[j].end <= last.cur
         /\ \A o \in Ats(last.runs) : /\ from <= o
                                      /\ \E j \in 1..n : o <= q[j].start
                                      /\ \A j \in 1..n : Spared(q[j], o)
    BY <2>4, <2>5, <2>7, <2>8, <2>9, SplicedSpares
  <2>11. last.cur \in Nat /\ last.runs \in Seq(Seq(Stuff))
    BY <2>9 DEF Accs
  <2>12. tail \in Seq(Seq(Stuff)) /\ \A o \in Ats(tail) : o \in Nat /\ last.cur <= o /\ o < limit
    <3>1. CASE last.cur < limit
      <4>1. tail = <<Echo(last.cur, limit)>>
        BY <3>1
      <4>2. /\ Echo(last.cur, limit) \in Seq(Stuff)
            /\ At(Echo(last.cur, limit)) = {o \in Nat : last.cur <= o /\ o < limit}
        BY <2>11, AtEcho
      <4> HIDE DEF tail, runs
      <4>3. QED
        BY <4>1, <4>2, AtsOne
    <3>2. CASE ~(last.cur < limit)
      BY <3>2, AtsNone
    <3>3. QED
      BY <3>1, <3>2
  <2> HIDE DEF tail, runs
  <2>13. runs \in Seq(Seq(Stuff)) /\ Ats(runs) = Ats(last.runs) \cup Ats(tail)
    BY <2>1, <2>11, <2>12, AtsJoin
  <2>14. ASSUME NEW o \in Ats(last.runs)
         PROVE  o \in Nat /\ from <= o /\ o < limit /\ \A e \in S : Spared(e, o)
    <3>1. o \in Nat
      BY <2>11, AtsType
    <3>2. PICK j \in 1..n : o <= q[j].start
      BY <2>10
    <3>3. o < limit
      BY <2>7, <3>1, <3>2
    <3>4. \A e \in S : Spared(e, o)
      BY <2>5, <2>10
    <3>5. QED
      BY <2>10, <3>1, <3>3, <3>4
  <2>15. ASSUME NEW o \in Ats(tail)
         PROVE  o \in Nat /\ from <= o /\ o < limit /\ \A e \in S : Spared(e, o)
    <3>1. o \in Nat /\ last.cur <= o /\ o < limit
      BY <2>12
    <3>2. from <= o
      BY <2>10, <2>11, <3>1
    <3>3. ASSUME NEW e \in S PROVE Spared(e, o)
      <4>1. PICK i \in 1..n : q[i] = e
        BY <2>5
      <4>2. e.end <= last.cur /\ e.end \in Nat
        BY <2>2, <2>6, <2>10, <4>1
      <4>3. ~(o < e.end)
        BY <2>11, <3>1, <4>2
      <4>4. QED
        BY <4>3 DEF Spared
    <3>4. QED
      BY <3>1, <3>2, <3>3
  <2>16. \A e \in edits : e.end <= limit => e \in S
    BY DEF S, Ready
  <2>17. QED
    BY <2>13, <2>14, <2>15, <2>16 DEF runs
<1>3. QED
  BY <1>1, <1>2

-----------------------------------------------------------------------------
(* What a flush pushes lies in no member that is deleted. *)
Spots(d) == {k \in KeyStarts(d) : PrevSep(d, k) \in Nat}

Inside(d, k, o) == PrevSep(d, k) < o /\ o < NextSep(d, k)

Free(d, K, X, n) == \A o \in X, k \in K : o < n => ~Inside(d, k, o)

Handled(d, s, K, from) == \A k \in K : NextSep(d, k) <= from \/ Deleted(d, s, k)

LEMMA SpotType ==
  ASSUME NEW d \in Seq(Byte), NEW k \in Spots(d)
  PROVE  PrevSep(d, k) \in Nat /\ NextSep(d, k) \in Nat /\ k \in KeyStarts(d)
<1> DEFINE S == {p \in Bytes(d, {"}", ","}) : p > k /\ DepthAt(d, p) = DepthAt(d, k)} \cup {Len(d)}
<1>1. k \in KeyStarts(d) /\ PrevSep(d, k) \in Nat
  BY DEF Spots
<1>2. NextSep(d, k) = Min(S)
  BY <1>1 DEF NextSep, Shape
<1>3. S \in SUBSET Nat /\ Len(d) \in S
  BY BytesIn
<1> HIDE DEF S
<1>4. Min(S) \in Nat
  BY <1>3, LeastIs
<1>5. QED
  BY <1>1, <1>2, <1>4

LEMMA FlushFree ==
  ASSUME doc \in Seq(Byte), NEW edits \in SUBSET EditType, IsFiniteSet(edits), Apart(edits),
         NEW from \in Nat, NEW limit \in Nat, limit <= Len(doc),
         \A e \in edits : e.start <= e.end /\ e.end <= limit /\ e.start < limit,
         NEW K \in SUBSET Spots(doc),
         \A k \in K : \/ NextSep(doc, k) <= from
                      \/ \E e \in edits : /\ e.bytes = "none" /\ e.start <= PrevSep(doc, k) + 1
                                          /\ NextSep(doc, k) <= e.end \/ e.end = limit
  PROVE  /\ FlushRuns(edits, from, limit) \in Seq(Seq(Stuff))
         /\ \A o \in Ats(FlushRuns(edits, from, limit)) :
              o \in Nat /\ from <= o /\ o < limit /\ \A k \in K : ~Inside(doc, k, o)
<1> DEFINE runs == FlushRuns(edits, from, limit)
<1>1. /\ runs \in Seq(Seq(Stuff))
      /\ \A o \in Ats(runs) : o \in Nat /\ from <= o /\ o < limit /\ \A e \in edits : Spared(e, o)
  BY FlushIs
<1> HIDE DEF runs
<1>2. ASSUME NEW o \in Ats(runs), NEW k \in K PROVE ~Inside(doc, k, o)
  <2> DEFINE p == PrevSep(doc, k)
  <2> DEFINE n == NextSep(doc, k)
  <2>1. p \in Nat /\ n \in Nat /\ o \in Nat /\ from <= o /\ o < limit
    BY <1>1, <1>2, SpotType
  <2>2. \/ n <= from
        \/ \E e \in edits : e.bytes = "none" /\ e.start <= p + 1 /\ (n <= e.end \/ e.end = limit)
    OBVIOUS
  <2> HIDE DEF p, n
  <2>3. CASE n <= from
    <3>1. ~(o < n)
      BY <2>1, <2>3
    <3>2. QED
      BY <3>1 DEF Inside, n
  <2>4. ASSUME NEW e \in edits, e.bytes = "none", e.start <= p + 1, n <= e.end \/ e.end = limit
        PROVE  ~(p < o /\ o < n)
    <3>1. e.start \in Nat /\ e.end \in Nat /\ ~(e.start <= o /\ o < e.end)
      BY <1>1, <2>4 DEF EditType, Spared
    <3>2. p < o => e.start <= o
      BY <2>1, <2>4, <3>1
    <3>3. o < n => o < e.end
      BY <2>1, <2>4, <3>1
    <3>4. QED
      BY <3>1, <3>2, <3>3
  <2>5. QED
    BY <2>2, <2>3, <2>4 DEF Inside, p, n
<1>3. QED
  BY <1>1, <1>2 DEF runs

(* A hold may be cut where every pending edit ends before, and an open drop
   leaves nothing that waits. *)
LEMMA SafeLimitCut ==
  ASSUME spine \in Spines, Infinity \in Nat, total \in Nat, total < Infinity, Cut(spine, total)
  PROVE  /\ EditSafeLimit \in Nat /\ EditSafeLimit <= total
         /\ \A e \in spine.edits : e.start <= e.end /\ e.end <= EditSafeLimit /\ e.start < EditSafeLimit
         /\ Discards(spine) => EditSafeLimit = total
<1> DEFINE m == MemberPrefixStart(spine)
<1>1. \A e \in spine.edits : e.start \in Nat /\ e.end \in Nat
  BY SpineType DEF EditType
<1>2. \A e \in spine.edits : e.start < total /\ e.start <= e.end /\ e.end <= total
  BY DEF Cut, LiesIn
<1>3. m = Infinity \/ (Held(spine) /\ m = Top(spine).prefix /\ m \in Nat)
  BY StretchTypes DEF MemberPrefixStart, Held, InObject
<1>4. EditSafeLimit = IF m < total THEN m ELSE total
  BY DEF EditSafeLimit
<1> HIDE DEF m
<1>5. CASE m < total
  <2>1. Held(spine) /\ m = Top(spine).prefix /\ m \in Nat
    BY <1>3, <1>5
  <2>2. ~Discards(spine) /\ \A e \in spine.edits : e.end <= m /\ e.start < m
    BY <2>1 DEF Cut, Beside
  <2>3. EditSafeLimit = m
    BY <1>4, <1>5
  <2>4. m <= total
    BY <1>5, <2>1
  <2>5. QED
    BY <1>2, <2>1, <2>2, <2>3, <2>4
<1>6. CASE ~(m < total)
  <2>1. EditSafeLimit = total
    BY <1>4, <1>6
  <2>2. QED
    BY <1>2, <2>1
<1>7. QED
  BY <1>5, <1>6

LEMMA ResolvedFree ==
  ASSUME doc \in Seq(Byte), spine \in Spines, Infinity \in Nat, total \in Nat, total < Infinity,
         total <= Len(doc), base \in Nat, Cut(spine, total),
         NEW K \in SUBSET Spots(doc), Handled(doc, spine, K, base)
  PROVE  /\ ResolvedRuns \in Seq(Seq(Stuff))
         /\ \A o \in Ats(ResolvedRuns) :
              o \in Nat /\ base <= o /\ o < EditSafeLimit /\ \A k \in K : ~Inside(doc, k, o)
<1> DEFINE limit == EditSafeLimit
<1> DEFINE open == Edit(spine.discard.start, limit, "none")
<1> DEFINE edits == WithDiscard(spine.edits, limit)
<1>1. /\ limit \in Nat /\ limit <= total
      /\ \A e \in spine.edits : e.start <= e.end /\ e.end <= limit /\ e.start < limit
      /\ Discards(spine) => limit = total
  BY SafeLimitCut
<1>2. ResolvedRuns = FlushRuns(edits, base, limit)
  BY DEF ResolvedRuns
<1>3. spine.edits \in SUBSET EditType /\ IsFiniteSet(spine.edits) /\ Apart(spine.edits)
      /\ spine.discard.start \in Nat
  BY SpineType DEF Cut, DiscardType
<1>4. open.start = spine.discard.start /\ open.end = limit /\ open.bytes = "none"
  BY DEF Edit
<1>5. open \in EditType
  BY <1>1, <1>3 DEF Edit, EditType
<1>6. edits = IF spine.discard.start < limit THEN spine.edits \cup {open} ELSE spine.edits
  BY DEF WithDiscard
<1>7. limit <= Len(doc)
  <2>1. Len(doc) \in Nat
    OBVIOUS
  <2> HIDE DEF limit
  <2>2. QED
    BY <1>1, <2>1
<1> HIDE DEF limit, open, edits
<1>8. limit <= limit /\ ~(Infinity < limit)
  BY <1>1
<1>9. CASE Discards(spine)
  <2>1. limit = total /\ spine.discard.start < limit /\ \A e \in spine.edits : e.start # open.start
    BY <1>1, <1>4, <1>9 DEF Cut, Aside
  <2>2. edits = spine.edits \cup {open}
    BY <1>6, <2>1
  <2>3. edits \in SUBSET EditType /\ IsFiniteSet(edits) /\ Apart(edits)
    <3>1. IsFiniteSet(spine.edits \cup {open})
      BY <1>3, FS_AddElement
    <3>2. QED
      BY <1>3, <1>5, <2>1, <2>2, <3>1 DEF Apart
  <2>4. open.start <= open.end /\ open.end <= limit /\ open.start < limit
    BY <1>1, <1>3, <1>4, <1>8, <2>1
  <2>5. \A e \in edits : e.start <= e.end /\ e.end <= limit /\ e.start < limit
    BY <1>1, <2>2, <2>4
  <2>6. \A k \in K : \/ NextSep(doc, k) <= base
                     \/ \E e \in edits : /\ e.bytes = "none" /\ e.start <= PrevSep(doc, k) + 1
                                         /\ NextSep(doc, k) <= e.end \/ e.end = limit
    BY <1>4, <2>2 DEF Handled, Deleted
  <2>7. QED
    BY <1>1, <1>2, <1>7, <2>3, <2>5, <2>6, FlushFree DEF limit
<1>10. CASE ~Discards(spine)
  <2>1. edits = spine.edits
    BY <1>6, <1>8, <1>10 DEF Discards
  <2>2. \A k \in K : \/ NextSep(doc, k) <= base
                     \/ \E e \in edits : /\ e.bytes = "none" /\ e.start <= PrevSep(doc, k) + 1
                                         /\ NextSep(doc, k) <= e.end \/ e.end = limit
    BY <1>10, <2>1 DEF Handled, Deleted
  <2>3. QED
    BY <1>1, <1>2, <1>3, <1>7, <2>1, <2>2, FlushFree DEF limit
<1>11. QED
  BY <1>9, <1>10

LEMMA VerbatimFree ==
  ASSUME doc \in Seq(Byte), spine \in Spines, Infinity \in Nat, total \in Nat, total < Infinity,
         total <= Len(doc), base \in Nat, held \in Nat, base + held = total, Cut(spine, total),
         NEW K \in SUBSET Spots(doc), Handled(doc, spine, K, base)
  PROVE  VerbatimRuns \in Seq(Seq(Stuff)) /\ Free(doc, K, Ats(VerbatimRuns), total)
<1> DEFINE safe == EditSafeLimit
<1> DEFINE limit == FlushedTo(safe)
<1> DEFINE tail == IF total > limit THEN <<Echo(limit, total)>> ELSE <<>>
<1>1. /\ safe \in Nat /\ safe <= total
      /\ \A e \in spine.edits : e.end <= safe
      /\ Discards(spine) => safe = total
  BY SafeLimitCut
<1>2. /\ ResolvedRuns \in Seq(Seq(Stuff))
      /\ \A o \in Ats(ResolvedRuns) : \A k \in K : ~Inside(doc, k, o)
  BY ResolvedFree
<1>3. VerbatimRuns = ResolvedRuns \o tail
  BY DEF VerbatimRuns
<1>4. limit = IF safe > base THEN safe ELSE base
  BY DEF FlushedTo
<1> HIDE DEF safe, limit
<1>5. limit \in Nat /\ safe <= limit /\ base <= limit
  BY <1>1, <1>4, Widest
<1>6. tail \in Seq(Seq(Stuff)) /\ \A o \in Ats(tail) : o \in Nat /\ limit <= o /\ o < total
  <2>1. CASE total > limit
    <3>1. tail = <<Echo(limit, total)>>
      BY <2>1
    <3>2. /\ Echo(limit, total) \in Seq(Stuff)
          /\ At(Echo(limit, total)) = {o \in Nat : limit <= o /\ o < total}
      BY <1>5, AtEcho
    <3> HIDE DEF tail
    <3>3. QED
      BY <3>1, <3>2, AtsOne
  <2>2. CASE ~(total > limit)
    BY <2>2, AtsNone
  <2>3. QED
    BY <2>1, <2>2
<1> HIDE DEF tail
<1>7. ASSUME NEW o \in Ats(tail), NEW k \in K PROVE ~Inside(doc, k, o)
  <2> DEFINE n == NextSep(doc, k)
  <2>1. o \in Nat /\ limit <= o /\ o < total /\ n \in Nat
    BY <1>6, SpotType
  <2>2. ~Discards(spine)
    <3>1. safe # total
      BY <1>1, <1>5, <2>1
    <3>2. QED
      BY <1>1, <3>1
  <2>3. n <= base \/ \E e \in spine.edits : n <= e.end
    BY <2>2 DEF Handled, Deleted
  <2> HIDE DEF n
  <2>4. ASSUME NEW e \in spine.edits, n <= e.end PROVE n <= o
    <3>1. e.end \in Nat /\ e.end <= safe
      BY <1>1, SpineType DEF EditType
    <3>2. QED
      BY <1>1, <1>5, <2>1, <2>4, <3>1
  <2>5. n <= base => n <= o
    BY <1>5, <2>1
  <2>6. ~(o < n)
    BY <2>1, <2>3, <2>4, <2>5
  <2>7. QED
    BY <2>6 DEF Inside, n
<1>8. /\ ResolvedRuns \o tail \in Seq(Seq(Stuff))
      /\ Ats(ResolvedRuns \o tail) = Ats(ResolvedRuns) \cup Ats(tail)
  BY <1>2, <1>6, AtsJoin
<1>9. QED
  BY <1>2, <1>3, <1>7, <1>8 DEF Free

(* At the end of the text no member is open. *)
LEMMA CloseFree ==
  ASSUME doc \in Seq(Byte), spine \in Spines, total \in Nat, total <= Len(doc), base \in Nat,
         Cut(spine, total), ~Discards(spine),
         NEW K \in SUBSET Spots(doc), Handled(doc, spine, K, base)
  PROVE  /\ FlushRuns(spine.edits, base, total) \in Seq(Seq(Stuff))
         /\ Free(doc, K, Ats(FlushRuns(spine.edits, base, total)), total)
<1>1. spine.edits \in SUBSET EditType /\ IsFiniteSet(spine.edits) /\ Apart(spine.edits)
  BY SpineType DEF Cut
<1>2. \A e \in spine.edits : e.start <= e.end /\ e.end <= total /\ e.start < total
  BY DEF Cut, LiesIn
<1>3. \A k \in K : \/ NextSep(doc, k) <= base
                   \/ \E e \in spine.edits : /\ e.bytes = "none" /\ e.start <= PrevSep(doc, k) + 1
                                             /\ NextSep(doc, k) <= e.end \/ e.end = total
  BY DEF Handled, Deleted
<1>4. QED
  BY <1>1, <1>2, <1>3, FlushFree DEF Free

LEMMA FewerPlaced ==
  ASSUME NEW d, NEW s, NEW t, Placed(d, s), Agree(s, t), t.tok = s.tok, t.edits \in SUBSET s.edits
  PROVE  Placed(d, t)
<1>1. Cut(t, s.tok.pos)
  BY FewerCut DEF Placed, Tidy, Agree
<1>2. Dropping(d, t, s.tok.pos)
  BY DEF Placed, Tidy, Dropping, Agree, Discards
<1>3. Named(d, t, t.tok)
  BY NamedAgrees DEF Placed
<1>4. QED
  BY <1>1, <1>2, <1>3 DEF Placed, Tidy

-----------------------------------------------------------------------------
(* What is withheld.  The members the hooks dropped lie behind what was flushed
   or under an edit that deletes them, and nothing pushed is inside one. *)
Noted == [at : Nat, does : {"keep", "drop", "conflict", "rename", "append"}]

DropsOf(c) == {c[i].at : i \in {j \in DOMAIN c : c[j].does = "drop"}}

LEMMA DropsJoin ==
  ASSUME NEW x \in Seq(Noted), NEW y \in Seq(Noted)
  PROVE  x \o y \in Seq(Noted) /\ DropsOf(x \o y) = DropsOf(x) \cup DropsOf(y)
<1> DEFINE m == Len(x)
<1> DEFINE n == Len(y)
<1> DEFINE z == x \o y
<1>1. /\ z \in Seq(Noted) /\ Len(z) = m + n
      /\ \A i \in 1..m + n : z[i] = IF i <= m THEN x[i] ELSE y[i - m]
  BY ConcatProperties
<1>2. m \in Nat /\ n \in Nat /\ DOMAIN x = 1..m /\ DOMAIN y = 1..n /\ DOMAIN z = 1..m + n
  BY <1>1
<1> HIDE DEF m, n, z
<1>3. ASSUME NEW i \in DOMAIN z, z[i].does = "drop" PROVE z[i].at \in DropsOf(x) \cup DropsOf(y)
  <2>1. CASE i <= m
    <3>1. i \in DOMAIN x /\ z[i] = x[i]
      BY <1>1, <1>2, <2>1
    <3>2. QED
      BY <1>3, <3>1 DEF DropsOf
  <2>2. CASE ~(i <= m)
    <3>1. i - m \in DOMAIN y /\ z[i] = y[i - m]
      BY <1>1, <1>2, <2>2
    <3>2. QED
      BY <1>3, <3>1 DEF DropsOf
  <2>3. QED
    BY <2>1, <2>2
<1>4. ASSUME NEW i \in DOMAIN x, x[i].does = "drop" PROVE x[i].at \in DropsOf(z)
  <2>1. i \in DOMAIN z /\ z[i] = x[i]
    BY <1>1, <1>2
  <2>2. QED
    BY <1>4, <2>1 DEF DropsOf
<1>5. ASSUME NEW i \in DOMAIN y, y[i].does = "drop" PROVE y[i].at \in DropsOf(z)
  <2>1. i + m \in DOMAIN z /\ z[i + m] = y[i]
    <3>1. i + m \in 1..m + n /\ ~(i + m <= m) /\ (i + m) - m = i
      BY <1>2
    <3>2. QED
      BY <1>1, <1>2, <3>1
  <2>2. QED
    BY <1>5, <2>1 DEF DropsOf
<1>6. DropsOf(z) = DropsOf(x) \cup DropsOf(y)
  BY <1>3, <1>4, <1>5 DEF DropsOf
<1>7. QED
  BY <1>1, <1>6 DEF z

LEMMA AtType == ASSUME NEW run \in Seq(Stuff), NEW o \in At(run) PROVE o \in Nat
<1>1. PICK i \in DOMAIN run : o = run[i].at
  BY DEF At
<1>2. run[i] \in Stuff
  OBVIOUS
<1>3. QED
  BY <1>1, <1>2 DEF Stuff

Watched(K) ==
  editsActive /\ Active /\ ~Lost(spine) =>
    /\ Cut(spine, total) /\ Handled(doc, spine, K, base)
    /\ pc # "flush" => \A o \in At(out) : o < base
    /\ pc = "flush" /\ after = "hold" => \A o \in At(out) \cup Ats(queue) : o < EditSafeLimit

Withholds ==
  /\ doc \in Docs /\ chosen \in Seq(Noted) /\ out \in Seq(Stuff) /\ queue \in Seq(Seq(Stuff))
  /\ DropsOf(chosen) \subseteq Spots(doc) /\ (~editsActive => DropsOf(chosen) = {})
  /\ Free(doc, DropsOf(chosen), At(out), total)
  /\ pc = "flush" => Free(doc, DropsOf(chosen), Ats(queue), total)
  /\ ~Stopped(spine) /\ pc \in Running => Placed(doc, spine)
  /\ Watched(DropsOf(chosen))

(* Withholds after a step, which leaves the document. *)
WatchedNext(K) ==
  editsActive /\ ~sealed' /\ ~finished' /\ ~destroyed' /\ ~Lost(spine') =>
    /\ Cut(spine', total') /\ Handled(doc, spine', K, base')
    /\ pc' # "flush" => \A o \in At(out') : o < base'
    /\ pc' = "flush" /\ after' = "hold" =>
         \A o \in At(out') \cup Ats(queue') : o < SafeLimit(spine', total')

WithholdsNext ==
  /\ chosen' \in Seq(Noted) /\ out' \in Seq(Stuff) /\ queue' \in Seq(Seq(Stuff))
  /\ DropsOf(chosen') \subseteq Spots(doc) /\ (~editsActive => DropsOf(chosen') = {})
  /\ Free(doc, DropsOf(chosen'), At(out'), total')
  /\ pc' = "flush" => Free(doc, DropsOf(chosen'), Ats(queue'), total')
  /\ ~Stopped(spine') /\ pc' \in Running => Placed(doc, spine')
  /\ WatchedNext(DropsOf(chosen'))

LEMMA FreeJoins ==
  ASSUME NEW d, NEW K, NEW X, NEW Y, NEW n, Free(d, K, X, n), Free(d, K, Y, n)
  PROVE  Free(d, K, X \cup Y, n)
  BY DEF Free

LEMMA FreeNone == ASSUME NEW d, NEW X, NEW n PROVE Free(d, {}, X, n)
  BY DEF Free

LEMMA FreeLater ==
  ASSUME NEW d, NEW K, NEW X, NEW n \in Nat, \A o \in X : o \in Nat /\ o >= n
  PROVE  Free(d, K, X, n)
<1>1. \A o \in X : ~(o < n)
  OBVIOUS
<1>2. QED
  BY <1>1 DEF Free

LEMMA WithholdsInitial == Init => Withholds
<1> SUFFICES ASSUME Init PROVE Withholds
  OBVIOUS
<1>1. /\ doc \in Docs /\ spine = SpineInit /\ total = 0 /\ base = 0 /\ out = <<>> /\ queue = <<>>
      /\ chosen = <<>> /\ pc = "idle"
  BY DEF Init
<1>2. /\ spine.tok = TokenizerInit /\ spine.frames = <<>> /\ spine.edits = {} /\ spine.discard = NoDiscard
  BY <1>1 DEF SpineInit
<1>3. spine.tok.pos = 0 /\ spine.tok.state = "value" /\ spine.tok.stack = <<>>
  BY <1>2 DEF TokenizerInit
<1>4. /\ chosen \in Seq(Noted) /\ DropsOf(chosen) = {}
      /\ out \in Seq(Stuff) /\ At(out) = {} /\ queue \in Seq(Seq(Stuff)) /\ Ats(queue) = {}
  BY <1>1, AtsNone DEF DropsOf
<1>5. ~Held(spine) /\ ~Discards(spine)
  BY <1>2 DEF Held, Discards, NoDiscard
<1>6. \A lim : Cut(spine, lim)
  <2>1. IsFiniteSet({})
    BY FS_EmptySet
  <2>2. QED
    BY <1>2, <1>5, <2>1 DEF Cut, Beside, Aside, Apart
<1>7. Placed(doc, spine)
  <2>1. Reading(doc, spine.tok)
    BY <1>3, QuotedAtFirst DEF Reading
  <2>2. Len(<<>>) = 0
    OBVIOUS
  <2>3. DepthAt(doc, 0) = 0
    BY <1>1, DepthAtFirst, EngineAssumption
  <2>4. Deep(doc, spine.tok)
    BY <1>3, <2>2, <2>3 DEF Deep
  <2>5. KeyRead(doc, spine.tok)
    BY <1>3 DEF KeyRead
  <2>6. QED
    BY <1>5, <1>6, <2>1, <2>4, <2>5 DEF Placed, Lexed, Named, Tidy, Dropping
<1>8. QED
  BY <1>1, <1>4, <1>6, <1>7 DEF Withholds, Watched, Free, Handled

LEMMA WithholdsFacts ==
  ASSUME Inv, Limits, Retains, Withholds
  PROVE  /\ total \in Nat /\ fed \in Nat /\ total <= fed /\ Infinity \in Nat /\ total < Infinity
         /\ total <= Len(doc) /\ Len(doc) \in Nat /\ Len(doc) < Infinity /\ doc \in Seq(Byte)
         /\ SpineOK(spine) /\ spine \in Spines /\ base \in Nat /\ held \in Nat
         /\ EditSafeLimit = SafeLimit(spine, total)
         /\ DropsOf(chosen) \in SUBSET Spots(doc)
         /\ pc = "flush" => Active
         /\ pc \in {"write", "end"} /\ ~destroyed => Active
         /\ pc \in {"write", "end"} /\ ~spine.disposed => Active
         /\ Active => ~spine.disposed
         /\ ~Lost(spine) <=> ~spine.disposed /\ spine.thrown # "fatal"
         /\ ~Stopped(spine) => ~Lost(spine)
         /\ editsActive /\ ~destroyed => base + held = total
<1>1. /\ total \in Nat /\ fed \in Nat /\ Infinity \in Nat /\ total < Infinity
      /\ total <= Len(doc) /\ Len(doc) \in Nat /\ Len(doc) < Infinity /\ doc \in Seq(Byte)
      /\ SpineOK(spine) /\ spine \in Spines /\ base \in Nat /\ held \in Nat
      /\ EditSafeLimit = SafeLimit(spine, total)
  BY RetainsFacts
<1>2. total <= fed
  BY DEF Inv, Typed
<1>3. /\ pc = "flush" => Active
      /\ pc \in {"write", "end"} /\ ~destroyed => Active
      /\ pc \in {"write", "end"} /\ ~spine.disposed => Active
      /\ Active => ~spine.disposed
  BY DEF Inv, Over, Active
<1>4. /\ ~Lost(spine) <=> ~spine.disposed /\ spine.thrown # "fatal"
      /\ ~Stopped(spine) => ~Lost(spine)
  BY DEF Lost, Stopped, Threw
<1>5. DropsOf(chosen) \in SUBSET Spots(doc)
  BY DEF Withholds
<1>6. editsActive /\ ~destroyed => base + held = total
  BY DEF Retains
<1>7. QED
  BY <1>1, <1>2, <1>3, <1>4, <1>5, <1>6

LEMMA AtLater ==
  ASSUME doc \in Seq(Byte), NEW a \in Nat, NEW b \in Nat, b <= Len(doc), NEW n \in Nat, n <= a, NEW K
  PROVE  Echo(a, b) \in Seq(Stuff) /\ Free(doc, K, At(Echo(a, b)), n)
<1>1. Echo(a, b) \in Seq(Stuff) /\ At(Echo(a, b)) = {o \in Nat : a <= o /\ o < b}
  BY AtEcho
<1> DEFINE X == At(Echo(a, b))
<1>2. \A o \in X : o \in Nat /\ o >= n
  BY <1>1
<1> HIDE DEF X
<1>3. Free(doc, K, X, n)
  BY <1>2, FreeLater
<1>4. QED
  BY <1>1, <1>3 DEF X

(* What an idle or a working stream with hooks has pushed lies before the hold. *)
LEMMA WatchedFacts ==
  ASSUME Inv, Limits, Retains, Withholds, editsActive, Active, ~Lost(spine)
  PROVE  /\ Cut(spine, total) /\ Handled(doc, spine, DropsOf(chosen), base)
         /\ pc # "flush" => \A o \in At(out) : o < base
         /\ pc = "flush" /\ after = "hold" => \A o \in At(out) \cup Ats(queue) : o < EditSafeLimit
         /\ base <= total /\ base + held = total
<1>1. Watched(DropsOf(chosen))
  BY DEF Withholds
<1>2. base \in Nat /\ held \in Nat /\ total \in Nat /\ base + held = total
  BY WithholdsFacts DEF Active
<1>3. base <= total
  BY <1>2
<1>4. QED
  BY <1>1, <1>2, <1>3 DEF Watched

(* A chunk is accepted, refused or passed on. *)
LEMMA TransformWithholds ==
  ASSUME Inv, Limits, Retains, Withholds, NEW size \in ChunkSizes, Transform(size)
  PROVE  WithholdsNext
<1> DEFINE n == Min({size, Len(doc) - fed})
<1> DEFINE K == DropsOf(chosen)
<1>1. pc = "idle" /\ ~destroyed /\ n \in Nat /\ fed + n \in Nat /\ fed + n <= Len(doc)
  <2>0. size \in Nat /\ fed \in Nat /\ Len(doc) \in Nat /\ n > 0
    BY EngineAssumption, WithholdsFacts DEF Transform
  <2>1. size \in Int /\ Len(doc) - fed \in Int /\ n > 0
    BY <2>0
  <2>2. n \in {size, Len(doc) - fed} /\ n <= Len(doc) - fed
    BY <2>1, MinOf
  <2> HIDE DEF n
  <2>3. n \in Nat
    BY <2>1, <2>2
  <2>4. fed + n \in Nat /\ fed + n <= Len(doc)
    BY <2>0, <2>2, <2>3
  <2>5. QED
    BY <2>3, <2>4 DEF Transform
<1>2. Passthrough(n) \/ Refuse(n) \/ HoldChunk(n) \/ EchoChunk(n)
  BY DEF Transform
<1> HIDE DEF n
<1>3. /\ total \in Nat /\ fed \in Nat /\ total <= fed /\ Infinity \in Nat /\ total < Infinity
      /\ total <= Len(doc) /\ doc \in Seq(Byte) /\ spine \in Spines /\ base \in Nat /\ held \in Nat
      /\ K \in SUBSET Spots(doc) /\ (~Stopped(spine) => ~Lost(spine))
  BY WithholdsFacts
<1>4. /\ chosen \in Seq(Noted) /\ out \in Seq(Stuff) /\ queue \in Seq(Seq(Stuff))
      /\ (~editsActive => K = {}) /\ Free(doc, K, At(out), total)
      /\ (~Stopped(spine) => Placed(doc, spine))
  BY <1>1 DEF Withholds, Running
<1>5. ~sealed /\ ~finished => ~Stopped(spine) /\ Active /\ ~Lost(spine)
  BY <1>1, <1>3 DEF Retains, Active
<1>6. Echo(fed, fed + n) \in Seq(Stuff) /\ Free(doc, K, At(Echo(fed, fed + n)), total)
  BY <1>1, <1>3, AtLater
<1>7. chosen' = chosen /\ spine' = spine
  BY <1>2 DEF Passthrough, Refuse, HoldChunk, EchoChunk
<1> HIDE DEF K
<1>8. CASE Passthrough(n)
  <2>1. /\ out' = out \o Echo(fed, fed + n) /\ total' = total /\ queue' = queue /\ pc' = pc
        /\ (sealed' \/ finished')
    BY <1>8 DEF Passthrough, life
  <2>2. out' \in Seq(Stuff) /\ Free(doc, K, At(out'), total)
    BY <1>4, <1>6, <2>1, AtJoin, FreeJoins
  <2>3. QED
    BY <1>1, <1>3, <1>4, <1>7, <2>1, <2>2 DEF WithholdsNext, WatchedNext, K
<1>9. CASE Refuse(n)
  <2> DEFINE kept == IF editsActive THEN VerbatimRuns ELSE <<>>
  <2>1. /\ queue' = kept \o <<Echo(fed, fed + n)>> /\ out' = out /\ total' = total /\ base' = base
        /\ pc' = "flush" /\ after' = "refuse" /\ ~sealed /\ ~finished
    BY <1>9 DEF Refuse
  <2>2. kept \in Seq(Seq(Stuff)) /\ Free(doc, K, Ats(kept), total)
    <3>1. CASE editsActive
      <4>1. Cut(spine, total) /\ Handled(doc, spine, K, base) /\ base + held = total
        BY <1>5, <2>1, <3>1, WatchedFacts DEF K
      <4>2. VerbatimRuns \in Seq(Seq(Stuff)) /\ Free(doc, K, Ats(VerbatimRuns), total)
        BY <1>3, <4>1, VerbatimFree
      <4>3. QED
        BY <3>1, <4>2
    <3>2. CASE ~editsActive
      BY <3>2, AtsNone DEF Free
    <3>3. QED
      BY <3>1, <3>2
  <2> HIDE DEF kept
  <2>3. queue' \in Seq(Seq(Stuff)) /\ Free(doc, K, Ats(queue'), total)
    <3> DEFINE x == Echo(fed, fed + n)
    <3>1. x \in Seq(Stuff) /\ Free(doc, K, At(x), total) /\ queue' = kept \o <<x>>
      BY <1>6, <2>1
    <3> HIDE DEF x
    <3>2. <<x>> \in Seq(Seq(Stuff)) /\ Ats(<<x>>) = At(x)
      BY <3>1, AtsOne
    <3>3. kept \o <<x>> \in Seq(Seq(Stuff)) /\ Ats(kept \o <<x>>) = Ats(kept) \cup Ats(<<x>>)
      BY <2>2, <3>2, AtsJoin
    <3>4. Free(doc, K, Ats(kept) \cup At(x), total)
      BY <2>2, <3>1, FreeJoins
    <3>5. QED
      BY <3>1, <3>2, <3>3, <3>4
  <2>4. WatchedNext(K)
    BY <1>5, <1>7, <2>1, WatchedFacts DEF WatchedNext, K
  <2>5. QED
    BY <1>3, <1>4, <1>7, <2>1, <2>3, <2>4 DEF WithholdsNext, K
<1>10. CASE HoldChunk(n)
  <2>1. /\ editsActive /\ ~sealed /\ ~finished /\ total' = total + n /\ out' = out /\ queue' = queue
        /\ base' = (IF held = 0 THEN total ELSE base) /\ pc' = "write"
    BY <1>10 DEF HoldChunk
  <2>2. /\ Cut(spine, total) /\ Handled(doc, spine, K, base) /\ base <= total
        /\ \A o \in At(out) : o < base
    BY <1>1, <1>5, <2>1, WatchedFacts DEF K
  <2>3. total' \in Nat /\ total <= total' /\ base' \in Nat /\ base <= base'
    BY <1>1, <1>3, <2>1, <2>2
  <2>4. Cut(spine', total')
    BY <1>3, <1>7, <2>2, <2>3, CutWider
  <2>5. Handled(doc, spine', K, base')
    <3>1. \A k \in K : NextSep(doc, k) \in Nat
      BY <1>3, SpotType
    <3>2. \A k \in K : NextSep(doc, k) <= base => NextSep(doc, k) <= base'
      BY <1>3, <2>3, <3>1
    <3>3. QED
      BY <1>7, <2>2, <3>2 DEF Handled
  <2>6. \A o \in At(out) : o \in Nat /\ o < base' /\ o < total
    <3>1. \A o \in At(out) : o \in Nat
      BY <1>4, AtType
    <3>2. QED
      BY <1>3, <2>2, <2>3, <3>1
  <2>7. Free(doc, K, At(out'), total')
    BY <1>4, <2>1, <2>6 DEF Free
  <2>8. WatchedNext(K)
    BY <2>1, <2>4, <2>5, <2>6 DEF WatchedNext
  <2>9. QED
    BY <1>1, <1>3, <1>4, <1>7, <2>1, <2>7, <2>8 DEF WithholdsNext, K
<1>11. CASE EchoChunk(n)
  <2>1. ~editsActive /\ queue' = <<Echo(fed, fed + n)>> /\ out' = out /\ K = {}
    BY <1>4, <1>11 DEF EchoChunk
  <2>2. queue' \in Seq(Seq(Stuff))
    BY <1>6, <2>1, AtsOne
  <2>3. QED
    BY <1>1, <1>3, <1>4, <1>7, <2>1, <2>2, FreeNone DEF WithholdsNext, WatchedNext, K
<1>12. QED
  BY <1>2, <1>8, <1>9, <1>10, <1>11

(* The history grows by what a hook decided. *)
LEMMA RememberDrops ==
  ASSUME chosen \in Seq(Noted), spine.tok.pos \in Nat, NEW deciding \in BOOLEAN, NEW u,
         u.decision \in Decisions, deciding => Top(spine).keyStart \in Nat, Remember(deciding, u)
  PROVE  LET fresh == IF deciding /\ u.decision.kind = "drop" THEN {Top(spine).keyStart} ELSE {}
         IN  chosen' \in Seq(Noted) /\ DropsOf(chosen') = DropsOf(chosen) \cup fresh
<1> DEFINE fresh == IF deciding /\ u.decision.kind = "drop" THEN {Top(spine).keyStart} ELSE {}
<1> DEFINE one == [at |-> Top(spine).keyStart, does |-> u.decision.kind]
<1> DEFINE two == [at |-> spine.tok.pos, does |-> "append"]
<1> DEFINE decided == IF deciding /\ u.decision # Keep THEN <<one>> ELSE <<>>
<1> DEFINE appended == IF \E e \in spine'.edits \ spine.edits : e.bytes \in {"A", ",A"} THEN <<two>> ELSE <<>>
<1>1. chosen' = (chosen \o decided) \o appended
  BY DEF Remember
<1>2. \A x \in Noted : <<x>> \in Seq(Noted) /\ DropsOf(<<x>>) = IF x.does = "drop" THEN {x.at} ELSE {}
  <2>1. SUFFICES ASSUME NEW x \in Noted
                 PROVE  <<x>> \in Seq(Noted) /\ DropsOf(<<x>>) = IF x.does = "drop" THEN {x.at} ELSE {}
    OBVIOUS
  <2>2. DOMAIN <<x>> = {1} /\ <<x>>[1] = x
    OBVIOUS
  <2>3. QED
    BY <2>2 DEF DropsOf
<1>3. <<>> \in Seq(Noted) /\ DropsOf(<<>>) = {}
  BY DEF DropsOf
<1>4. u.decision.kind \in {"keep", "drop", "conflict", "rename"} /\ (u.decision.kind = "drop" => u.decision # Keep)
  BY DEF Decisions, Keep
<1>5. decided \in Seq(Noted) /\ DropsOf(decided) = fresh
  <2>1. CASE deciding /\ u.decision # Keep
    <3>1. one \in Noted /\ one.does = u.decision.kind /\ one.at = Top(spine).keyStart
      BY <1>4, <2>1 DEF Noted
    <3>2. decided = <<one>>
      BY <2>1
    <3> HIDE DEF one, decided
    <3>3. DropsOf(decided) = fresh
      BY <1>2, <2>1, <3>1, <3>2
    <3>4. QED
      BY <1>2, <3>1, <3>2, <3>3
  <2>2. CASE ~(deciding /\ u.decision # Keep)
    BY <1>3, <1>4, <2>2
  <2>3. QED
    BY <2>1, <2>2
<1>6. appended \in Seq(Noted) /\ DropsOf(appended) = {}
  <2>1. two \in Noted /\ two.does # "drop"
    BY DEF Noted
  <2> HIDE DEF two
  <2>2. QED
    BY <1>2, <1>3, <2>1
<1> HIDE DEF one, two, decided, appended, fresh
<1>7. chosen \o decided \in Seq(Noted) /\ DropsOf(chosen \o decided) = DropsOf(chosen) \cup fresh
  BY <1>5, DropsJoin
<1>8. /\ (chosen \o decided) \o appended \in Seq(Noted)
      /\ DropsOf((chosen \o decided) \o appended) = DropsOf(chosen \o decided) \cup DropsOf(appended)
  BY <1>6, <1>7, DropsJoin
<1>9. chosen' \in Seq(Noted) /\ DropsOf(chosen') = DropsOf(chosen) \cup fresh
  BY <1>1, <1>6, <1>7, <1>8
<1>10. QED
  BY <1>9 DEF fresh

(* What a turn of the parser drops lies behind the hold. *)
Fresh(N) == N \in SUBSET Spots(doc) /\ (N # {} => editsActive) /\ \A k \in N : base <= PrevSep(doc, k) + 1

LEMMA FreshWithholds ==
  ASSUME Inv, Limits, Retains, Withholds, ~Stopped(spine), pc \in {"write", "end"},
         base' = base, total' = total, pc' = pc, out' = out, queue' = queue,
         NEW N, Fresh(N), chosen' \in Seq(Noted), DropsOf(chosen') = DropsOf(chosen) \cup N,
         spine' \in Spines, NEW lim \in Nat, lim <= total,
         ~Lost(spine') => /\ Cut(spine', lim)
                          /\ \A k : Deleted(doc, spine, k) => Deleted(doc, spine', k)
                          /\ \A k \in N : Deleted(doc, spine', k),
         ~Stopped(spine') => Placed(doc, spine')
  PROVE  WithholdsNext
<1> DEFINE K == DropsOf(chosen)
<1>1. /\ total \in Nat /\ doc \in Seq(Byte) /\ base \in Nat /\ K \in SUBSET Spots(doc) /\ ~Lost(spine) /\ Active
  BY WithholdsFacts DEF Stopped
<1>2. /\ out \in Seq(Stuff) /\ queue \in Seq(Seq(Stuff)) /\ (~editsActive => K = {})
      /\ Free(doc, K, At(out), total)
  BY DEF Withholds
<1>3. editsActive => Handled(doc, spine, K, base) /\ \A o \in At(out) : o < base
  BY <1>1, WatchedFacts
<1> HIDE DEF K
<1>4. Free(doc, N, At(out), total)
  <2>1. SUFFICES ASSUME NEW o \in At(out), NEW k \in N PROVE ~Inside(doc, k, o)
    BY DEF Free
  <2>2. o \in Nat /\ o < base
    BY <1>2, <1>3, <2>1, AtType DEF Fresh
  <2>3. PrevSep(doc, k) \in Nat /\ base <= PrevSep(doc, k) + 1
    BY <1>1, SpotType DEF Fresh
  <2>4. ~(PrevSep(doc, k) < o)
    BY <1>1, <2>2, <2>3
  <2>5. QED
    BY <2>4 DEF Inside
<1>5. Free(doc, K \cup N, At(out'), total')
  BY <1>2, <1>4 DEF Free
<1>6. WatchedNext(K \cup N)
  <2>1. SUFFICES ASSUME editsActive, ~Lost(spine')
                 PROVE  /\ Cut(spine', total) /\ Handled(doc, spine', K \cup N, base)
                        /\ \A o \in At(out) : o < base
    BY DEF WatchedNext
  <2>2. Cut(spine', total)
    BY <1>1, <2>1, CutWider
  <2>3. Handled(doc, spine', K \cup N, base)
    BY <1>3, <2>1 DEF Handled
  <2>4. QED
    BY <1>3, <2>1, <2>2, <2>3
<1>7. K \cup N \in SUBSET Spots(doc) /\ (~editsActive => K \cup N = {})
  BY <1>1, <1>2 DEF Fresh
<1>8. QED
  BY <1>2, <1>5, <1>6, <1>7 DEF WithholdsNext, K

LEMMA MarkedFresh ==
  ASSUME NEW d, NEW at, NEW start \in Nat, NEW k, NEW depth, Marked(d, at, start, k, depth),
         NEW floor \in Nat, floor <= start
  PROVE  k \in Spots(d) /\ floor <= PrevSep(d, k) + 1
  BY DEF Marked, Spots

(* A byte is read, or the number at the end of the text. *)
LEMMA TurnWithholds ==
  ASSUME Inv, Limits, Retains, Withholds, Parse \/ EndNumber PROVE WithholdsNext
<1>1. /\ total \in Nat /\ Infinity \in Nat /\ total < Infinity /\ SpineOK(spine) /\ base \in Nat
      /\ spine.tok.pos \in Nat /\ spine.tok.pos <= total /\ total <= Len(doc) /\ doc \in Seq(Byte)
      /\ Len(doc) \in Nat /\ spine \in Spines
  BY RetainsFacts
<1>2. /\ ~Stopped(spine) /\ pc \in {"write", "end"} /\ ~spine.disposed /\ ~Threw(spine)
      /\ base' = base /\ total' = total /\ pc' = pc /\ out' = out /\ queue' = queue
  BY DEF Parse, EndNumber, Parsing, Ending, Stopped, Threw
<1>3. Spans(spine, spine.tok.stack, Place(spine.tok), 0)
  BY <1>2, RetainsFacts
<1>4. Stretch(doc, spine, spine.tok, base) /\ Placed(doc, spine)
  BY <1>2 DEF Retains, Running, Kept, Withholds
<1>5. chosen \in Seq(Noted)
  BY DEF Withholds
<1>6. ASSUME NEW event, NEW u \in Answers(event), NEW deciding \in BOOLEAN,
             deciding => Deciding(event), Remember(deciding, u),
             NEW lim \in Nat, lim <= total, SpineOK(spine'),
             deciding => /\ base <= Top(spine).prefix
                         /\ Marked(doc, spine.tok.pos, Top(spine).prefix, Top(spine).keyStart, Len(spine.frames)),
             ~Lost(spine') => /\ Cut(spine', lim)
                              /\ \A k : Deleted(doc, spine, k) => Deleted(doc, spine', k)
                              /\ deciding /\ u.decision.kind = "drop" => Deleted(doc, spine', Top(spine).keyStart),
             ~Stopped(spine') => Placed(doc, spine')
      PROVE  WithholdsNext
  <2> DEFINE N == IF deciding /\ u.decision.kind = "drop" THEN {Top(spine).keyStart} ELSE {}
  <2>1. u.decision \in Decisions
    BY <1>6, AnswersType DEF Inv, Typed, Answering
  <2>2. deciding => editsActive /\ Top(spine).keyStart \in Nat /\ Top(spine).prefix \in Nat
    BY <1>1, <1>6, StretchTypes DEF Deciding, Editable, InObject
  <2>3. chosen' \in Seq(Noted) /\ DropsOf(chosen') = DropsOf(chosen) \cup N
    BY <1>1, <1>5, <1>6, <2>1, <2>2, RememberDrops
  <2>4. Fresh(N)
    <3>1. CASE deciding
      <4>1. Top(spine).keyStart \in Spots(doc) /\ base <= PrevSep(doc, Top(spine).keyStart) + 1
        BY <1>1, <1>6, <2>2, <3>1, MarkedFresh
      <4>2. QED
        BY <2>2, <3>1, <4>1 DEF Fresh
    <3>2. CASE ~deciding
      BY <3>2 DEF Fresh
    <3>3. QED
      BY <3>1, <3>2
  <2>5. ~Lost(spine') => \A k \in N : Deleted(doc, spine', k)
    BY <1>6
  <2>6. spine' \in Spines
    BY <1>6 DEF SpineOK
  <2> HIDE DEF N
  <2>7. QED
    BY <1>2, <1>6, <2>3, <2>4, <2>5, <2>6, FreshWithholds
<1>7. CASE Parse
  <2> DEFINE b == ByteAt(spine.tok.pos)
  <2> DEFINE event == Scan(spine.tok, b).event
  <2> DEFINE deciding == Deciding(event) /\ ~AtLimit(spine, b)
  <2>1. PICK u \in Answers(event) : spine' = Step(spine, b, u) /\ Remember(deciding, u)
    BY <1>7 DEF Parse
  <2>2. spine.tok.pos < total /\ spine.tok.pos < Len(doc) /\ spine.tok.pos + 1 \in Nat
        /\ spine.tok.pos + 1 <= total
    <3>1. spine.tok.pos < total
      BY <1>7 DEF Parse
    <3>2. QED
      BY <1>1, <3>1
  <2>3. b \in Byte /\ b = doc[spine.tok.pos + 1]
    <3>1. spine.tok.pos + 1 \in 1..Len(doc)
      BY <1>1, <2>2
    <3>2. QED
      BY <1>1, <3>1 DEF ByteAt
  <2>4. deciding \in BOOLEAN /\ (deciding => Deciding(event))
        /\ (deciding => Decides(spine, event.type) /\ ~AtLimit(spine, b))
    BY DEF Deciding, Decides
  <2>e. event = Scan(spine.tok, b).event
    OBVIOUS
  <2> HIDE DEF b, event
  <2>5. Answering(u)
    BY AnswersType DEF Inv, Typed
  <2>6. spine.tok.pos # Infinity /\ spine.tok.pos + 1 # Infinity
    BY <1>1, <2>2
  <2>7. Turned(doc, spine, spine', base, spine.tok.pos + 1,
               Decides(spine, event.type) /\ ~AtLimit(spine, b), u.decision.kind)
    BY <1>1, <1>2, <1>3, <1>4, <2>1, <2>2, <2>3, <2>5, <2>6, <2>e, StepTurned
  <2>8. SpineOK(spine')
    BY <1>1, <1>2, <2>1, <2>3, <2>5, StepTurns DEF Turns
  <2> DEFINE decides == Decides(spine, event.type) /\ ~AtLimit(spine, b)
  <2>9. /\ decides => /\ base <= Top(spine).prefix
                      /\ Marked(doc, spine.tok.pos, Top(spine).prefix, Top(spine).keyStart, Len(spine.frames))
        /\ ~Lost(spine') => /\ Cut(spine', spine.tok.pos + 1)
                            /\ \A k : Deleted(doc, spine, k) => Deleted(doc, spine', k)
                            /\ decides /\ u.decision.kind = "drop" => Deleted(doc, spine', Top(spine).keyStart)
        /\ ~Stopped(spine') => Placed(doc, spine')
    BY <2>7 DEF Turned
  <2>10. deciding => decides
    BY <2>4
  <2>11. Remember(deciding, u)
    BY <2>1
  <2> HIDE DEF deciding, decides
  <2>12. QED
    BY <1>6, <2>2, <2>4, <2>8, <2>9, <2>10, <2>11
<1>8. CASE EndNumber
  <2> DEFINE event == FinishNumber(spine.tok).event
  <2> DEFINE deciding == Deciding(event)
  <2>1. PICK u \in Answers(event) : spine' = EndStep(spine, u) /\ Remember(deciding, u)
    BY <1>8 DEF EndNumber
  <2>2. spine.tok.state = "number"
    BY <1>8 DEF EndNumber
  <2>4. deciding \in BOOLEAN /\ (deciding => Deciding(event)) /\ (deciding => Decides(spine, event.type))
    BY DEF Deciding, Decides
  <2>e. event = FinishNumber(spine.tok).event
    OBVIOUS
  <2> HIDE DEF event
  <2>5. Answering(u)
    BY AnswersType DEF Inv, Typed
  <2>6. spine.tok.pos # Infinity
    BY <1>1
  <2>7. Turned(doc, spine, spine', base, spine.tok.pos, Decides(spine, event.type), u.decision.kind)
    BY <1>1, <1>2, <1>3, <1>4, <2>1, <2>2, <2>5, <2>6, <2>e, EndStepTurned
  <2>8. SpineOK(spine')
    BY <1>1, <1>2, <2>1, <2>5, EndStepTurns DEF Turns
  <2> DEFINE decides == Decides(spine, event.type)
  <2>9. /\ decides => /\ base <= Top(spine).prefix
                      /\ Marked(doc, spine.tok.pos, Top(spine).prefix, Top(spine).keyStart, Len(spine.frames))
        /\ ~Lost(spine') => /\ Cut(spine', spine.tok.pos)
                            /\ \A k : Deleted(doc, spine, k) => Deleted(doc, spine', k)
                            /\ decides /\ u.decision.kind = "drop" => Deleted(doc, spine', Top(spine).keyStart)
        /\ ~Stopped(spine') => Placed(doc, spine')
    BY <2>7 DEF Turned
  <2>10. deciding => decides
    BY <2>4
  <2>11. Remember(deciding, u)
    BY <2>1
  <2> HIDE DEF deciding, decides
  <2>12. QED
    BY <1>1, <1>6, <2>4, <2>8, <2>9, <2>10, <2>11
<1>9. QED
  BY <1>7, <1>8

(* The hold is flushed, as far as no decision is pending or to its end. *)
LEMMA FlushedWithholds ==
  ASSUME Inv, Limits, Retains, Withholds, Flushed PROVE WithholdsNext
<1> DEFINE K == DropsOf(chosen)
<1>1. /\ total \in Nat /\ Infinity \in Nat /\ total < Infinity /\ SpineOK(spine) /\ base \in Nat
      /\ EditSafeLimit = SafeLimit(spine, total) /\ spine \in Spines /\ K \in SUBSET Spots(doc) /\ Active
      /\ doc \in Seq(Byte)
  BY WithholdsFacts DEF Flushed
<1>2. /\ pc = "flush" /\ queue = <<>> /\ total' = total /\ out' = out /\ queue' = queue /\ chosen' = chosen
  BY DEF Flushed
<1>3. /\ chosen \in Seq(Noted) /\ out \in Seq(Stuff) /\ queue \in Seq(Seq(Stuff))
      /\ (~editsActive => K = {}) /\ Free(doc, K, At(out), total)
      /\ (~Stopped(spine) => Placed(doc, spine))
  BY <1>2 DEF Withholds, Running
<1> HIDE DEF K
<1>4. ASSUME ~Stopped(spine') /\ pc' \in Running => Placed(doc, spine'), pc' # "flush", WatchedNext(K)
      PROVE  WithholdsNext
  BY <1>1, <1>2, <1>3, <1>4 DEF WithholdsNext, K
<1>5. CASE after = "hold"
  <2> DEFINE limit == EditSafeLimit
  <2> DEFINE x == {e \in spine.edits : e.end > limit}
  <2>1. ~Stopped(spine) /\ editsActive /\ spine.tok.pos = total
    BY <1>2, <1>5 DEF Retains, Inv, Progress
  <2>2. limit \in Nat /\ base <= limit
    <3>1. Spans(spine, spine.tok.stack, Place(spine.tok), 0) /\ Kept(doc, spine, base)
      BY <1>2, <2>1, RetainsFacts DEF Retains, Running
    <3>2. QED
      BY <1>1, <2>1, <3>1, SafeLimitIs
  <2>3. base' = FlushedTo(limit) /\ spine' = [spine EXCEPT !.edits = x] /\ pc' = "idle"
    BY <1>5 DEF Flushed, Commit
  <2>4. Agree(spine, spine') /\ spine'.tok = spine.tok /\ spine'.edits = x
    <3> HIDE DEF x
    <3>1. "edits" \in Fields
      BY DEF Fields
    <3>a. spine \in Spines /\ spine' = [spine EXCEPT !.edits = x]
      BY <1>1, <2>3
    <3>2. \A g \in Fields \ {"edits"} : spine'[g] = spine[g]
      BY <3>a, <3>1, SetReads
    <3>4. spine'.edits = x
      BY <3>a DEF Spines
    <3>3. QED
      BY <2>1, <3>2, <3>4 DEF Fields, Agree
  <2>5. ~Lost(spine) /\ Cut(spine, total) /\ Handled(doc, spine, K, base)
        /\ \A o \in At(out) : o < limit
    <3>1. ~Lost(spine)
      BY <2>1, WithholdsFacts
    <3>2. QED
      BY <1>1, <1>2, <1>5, <2>1, <3>1, WatchedFacts DEF K
  <2>6. \A e \in spine.edits : e.end \in Nat
    BY <1>1, SpineType DEF EditType
  <2> HIDE DEF limit
  <2>7. base' = limit
    BY <1>1, <2>2, <2>3 DEF FlushedTo
  <2>8. Cut(spine', total)
    BY <2>4, <2>5, FewerCut DEF Agree
  <2>9. Placed(doc, spine')
    BY <1>3, <2>1, <2>4, FewerPlaced
  <2>10. Handled(doc, spine', K, base')
    <3>1. SUFFICES ASSUME NEW k \in K, ~(NextSep(doc, k) <= limit) PROVE Deleted(doc, spine', k)
      BY <2>7 DEF Handled
    <3> DEFINE n == NextSep(doc, k)
    <3>2. n \in Nat /\ (n <= base \/ Deleted(doc, spine, k))
      BY <1>1, <2>5, SpotType DEF Handled
    <3>n. ~(n <= limit)
      BY <3>1
    <3>d. Deleted(doc, spine, k) <=>
            \/ \E e \in spine.edits : e.bytes = "none" /\ e.start <= PrevSep(doc, k) + 1 /\ n <= e.end
            \/ Discards(spine) /\ spine.discard.keyStart = k /\ spine.discard.start <= PrevSep(doc, k) + 1
      BY DEF Deleted
    <3> HIDE DEF n
    <3>3. ~(n <= base)
      BY <1>1, <2>2, <3>2, <3>n
    <3>4. CASE Discards(spine) /\ spine.discard.keyStart = k /\ spine.discard.start <= PrevSep(doc, k) + 1
      BY <2>4, <3>4 DEF Deleted, Discards, Agree
    <3>5. ASSUME NEW e \in spine.edits, e.bytes = "none", e.start <= PrevSep(doc, k) + 1, n <= e.end
          PROVE  Deleted(doc, spine', k)
      <4>1. e.end > limit
        BY <2>2, <2>6, <3>2, <3>n, <3>5
      <4>2. e \in spine'.edits
        BY <2>4, <4>1
      <4>3. QED
        BY <3>5, <4>2 DEF Deleted, n
    <3>6. QED
      BY <3>2, <3>3, <3>4, <3>5, <3>d
  <2>11. WatchedNext(K)
    BY <1>2, <2>3, <2>5, <2>7, <2>8, <2>10 DEF WatchedNext
  <2>12. QED
    BY <1>4, <2>3, <2>9, <2>11
<1>6. CASE after = "write"
  <2>1. spine' = spine /\ pc' = "write" /\ ~editsActive
    BY <1>2, <1>6 DEF Flushed, Inv, Progress
  <2>2. QED
    BY <1>3, <1>4, <2>1 DEF WatchedNext
<1>7. CASE after = "budget"
  <2>1. /\ pc' \in {"idle", "failed"} /\ (pc' = "idle" => sealed' /\ spine' = Dispose(NoEdits))
        /\ (pc' = "failed" => finished')
    BY <1>7 DEF Flushed, ApplyBudget, Seal, Terminate
  <2>2. pc' = "idle" => Stopped(spine')
    <3>1. SpineOK(NoEdits)
      BY <1>1, EditsLeft DEF NoEdits
    <3>2. Dispose(NoEdits).disposed
      BY <3>1, DisposeLeft
    <3>3. QED
      BY <2>1, <3>2 DEF Stopped
  <2>3. QED
    BY <1>4, <2>1, <2>2 DEF Running, WatchedNext
<1>8. CASE after = "refuse"
  <2>1. pc' = "failed" /\ finished'
    BY <1>8 DEF Flushed, Fail
  <2>2. QED
    BY <1>4, <2>1 DEF Running, WatchedNext
<1>9. CASE after = "close"
  <2>1. pc' \in {"failed", "done"} /\ finished'
    BY <1>9 DEF Flushed, Verdict
  <2>2. QED
    BY <1>4, <2>1 DEF Running, WatchedNext
<1>10. QED
  BY <1>2, <1>5, <1>6, <1>7, <1>8, <1>9 DEF Inv, Progress

(* The first of the queue is handed on. *)
LEMMA HeadTail ==
  ASSUME NEW q \in Seq(Seq(Stuff)), q # <<>>
  PROVE  /\ Head(q) \in Seq(Stuff) /\ At(Head(q)) \subseteq Ats(q)
         /\ Tail(q) \in Seq(Seq(Stuff)) /\ Ats(Tail(q)) \subseteq Ats(q)
<1>1. Head(q) = q[1] /\ 1 \in DOMAIN q /\ Head(q) \in Seq(Stuff)
  BY HeadTailProperties
<1>2. /\ Tail(q) \in Seq(Seq(Stuff)) /\ Len(Tail(q)) = Len(q) - 1
      /\ \A i \in 1..Len(Tail(q)) : Tail(q)[i] = q[i + 1]
  BY HeadTailProperties
<1>3. ASSUME NEW i \in DOMAIN Tail(q) PROVE i + 1 \in DOMAIN q /\ Tail(q)[i] = q[i + 1]
  <2>1. i \in 1..Len(q) - 1 /\ Len(q) \in Nat /\ DOMAIN q = 1..Len(q)
    BY <1>2
  <2>2. i + 1 \in 1..Len(q)
    BY <2>1
  <2>3. QED
    BY <1>2, <2>1, <2>2
<1>4. QED
  BY <1>1, <1>2, <1>3 DEF Ats

(* What ends the hold as it is: the resolved edits, then the rest. *)
LEMMA VerbatimWithholds ==
  ASSUME Inv, Limits, Retains, Withholds, editsActive, Active, ~Lost(spine)
  PROVE  VerbatimRuns \in Seq(Seq(Stuff)) /\ Free(doc, DropsOf(chosen), Ats(VerbatimRuns), total)
<1>1. /\ total \in Nat /\ Infinity \in Nat /\ total < Infinity /\ total <= Len(doc) /\ doc \in Seq(Byte)
      /\ spine \in Spines /\ base \in Nat /\ held \in Nat /\ DropsOf(chosen) \in SUBSET Spots(doc)
  BY WithholdsFacts
<1>2. Cut(spine, total) /\ Handled(doc, spine, DropsOf(chosen), base) /\ base + held = total
  BY WatchedFacts
<1>3. QED
  BY <1>1, <1>2, VerbatimFree

(* The hold is pushed without the members that were dropped. *)
LEMMA ReturnedWithholds ==
  ASSUME Inv, Limits, Retains, Withholds, WriteReturned, editsActive
  PROVE  /\ Cut(spine, total) /\ Handled(doc, spine, DropsOf(chosen), base)
         /\ ResolvedRuns \in Seq(Seq(Stuff)) /\ Free(doc, DropsOf(chosen), Ats(ResolvedRuns), total)
         /\ \A o \in At(out) \cup Ats(ResolvedRuns) : o < EditSafeLimit
<1>1. /\ total \in Nat /\ Infinity \in Nat /\ total < Infinity /\ total <= Len(doc) /\ doc \in Seq(Byte)
      /\ SpineOK(spine) /\ spine \in Spines /\ base \in Nat /\ DropsOf(chosen) \in SUBSET Spots(doc)
      /\ EditSafeLimit = SafeLimit(spine, total)
  BY WithholdsFacts
<1>2. pc = "write" /\ ~Stopped(spine) /\ spine.tok.pos = total /\ ~spine.disposed
  BY DEF WriteReturned, Parsing, Stopped, Threw
<1>3. Active /\ ~Lost(spine)
  BY <1>2, WithholdsFacts
<1>4. Cut(spine, total) /\ Handled(doc, spine, DropsOf(chosen), base) /\ \A o \in At(out) : o < base
  BY <1>2, <1>3, WatchedFacts
<1>5. /\ ResolvedRuns \in Seq(Seq(Stuff))
      /\ \A o \in Ats(ResolvedRuns) :
           o \in Nat /\ base <= o /\ o < EditSafeLimit /\ \A k \in DropsOf(chosen) : ~Inside(doc, k, o)
  BY <1>1, <1>4, ResolvedFree
<1>6. EditSafeLimit \in Nat /\ base <= EditSafeLimit
  <2>1. Spans(spine, spine.tok.stack, Place(spine.tok), 0) /\ Kept(doc, spine, base)
    BY <1>2, RetainsFacts DEF Retains, Running
  <2>2. QED
    BY <1>1, <1>2, <2>1, SafeLimitIs
<1>7. \A o \in At(out) : o < EditSafeLimit
  <2>1. SUFFICES ASSUME NEW o \in At(out) PROVE o < EditSafeLimit
    OBVIOUS
  <2>2. out \in Seq(Stuff)
    BY DEF Withholds
  <2>3. o \in Nat /\ o < base
    BY <1>4, <2>2, AtType
  <2>4. QED
    BY <1>1, <1>6, <2>3
<1>8. QED
  BY <1>4, <1>5, <1>7 DEF Free

(* At the end of the text every member has ended. *)
LEMMA EndedWithholds ==
  ASSUME Inv, Limits, Retains, Withholds, Ending, editsActive, EndsCleanly(spine.tok)
  PROVE  /\ FlushRuns(spine.edits, base, total) \in Seq(Seq(Stuff))
         /\ Free(doc, DropsOf(chosen), Ats(FlushRuns(spine.edits, base, total)), total)
<1>1. /\ total \in Nat /\ total <= Len(doc) /\ doc \in Seq(Byte) /\ SpineOK(spine) /\ spine \in Spines
      /\ base \in Nat /\ DropsOf(chosen) \in SUBSET Spots(doc)
  BY WithholdsFacts
<1>2. pc = "end" /\ ~Stopped(spine) /\ ~spine.disposed
  BY DEF Ending, Stopped, Threw
<1>3. Active /\ ~Lost(spine)
  BY <1>2, WithholdsFacts
<1>4. Cut(spine, total) /\ Handled(doc, spine, DropsOf(chosen), base)
  BY <1>2, <1>3, WatchedFacts
<1>5. ~Discards(spine)
  <2>1. spine.tok.stack = <<>>
    BY <1>1, <1>2 DEF SpineOK, Sound, Matches, EndsCleanly
  <2>2. Kinds(spine, <<>>) /\ Drops(spine, Place(spine.tok), 0)
    BY <1>2, <2>1, RetainsFacts DEF Spans
  <2>3. Len(spine.frames) \in Nat /\ spine.opaque \in Nat /\ Len(<<>>) = 0
    BY <1>1, SpineType
  <2>4. Len(spine.frames) = 0
    BY <2>2, <2>3 DEF Kinds
  <2>5. 1..Len(spine.frames) = {}
    BY <2>4
  <2>6. QED
    BY <2>2, <2>5 DEF Drops
<1>6. QED
  BY <1>1, <1>4, <1>5, CloseFree

(* The other steps hand the hold on or end the stream. *)
LEMMA OthersWithhold ==
  ASSUME Inv, Limits, Retains, Withholds,
         \/ WriteReturned \/ WriteBudget \/ ParseFatal \/ Push \/ EndSyntax \/ EndBudget \/ End
         \/ WriteDestroyed \/ EndDestroyed \/ Destroy \/ UNCHANGED vars
  PROVE  WithholdsNext
<1> DEFINE K == DropsOf(chosen)
<1>1. /\ total \in Nat /\ SpineOK(spine) /\ spine \in Spines /\ doc \in Seq(Byte) /\ base \in Nat
      /\ K \in SUBSET Spots(doc) /\ EditSafeLimit = SafeLimit(spine, total)
  BY WithholdsFacts
<1>2. /\ chosen \in Seq(Noted) /\ out \in Seq(Stuff) /\ queue \in Seq(Seq(Stuff))
      /\ (~editsActive => K = {}) /\ Free(doc, K, At(out), total)
      /\ (pc = "flush" => Free(doc, K, Ats(queue), total))
      /\ (~Stopped(spine) /\ pc \in Running => Placed(doc, spine)) /\ Watched(K)
  BY DEF Withholds
<1>3. Stopped(Released) /\ Stopped(Dispose(spine))
  BY <1>1, ReleasedLeft, DisposeLeft DEF Released, Stopped
<1> HIDE DEF K
<1>4. ASSUME chosen' = chosen, total' = total, out' = out, queue' \in Seq(Seq(Stuff)),
             pc' = "flush" => Free(doc, K, Ats(queue'), total),
             ~Stopped(spine') /\ pc' \in Running => Placed(doc, spine'), WatchedNext(K)
      PROVE  WithholdsNext
  BY <1>1, <1>2, <1>4 DEF WithholdsNext, K
<1>5. CASE WriteDestroyed \/ EndDestroyed \/ Destroy
  <2>1. /\ spine' = Released /\ destroyed' /\ (pc' = "idle" \/ pc' = pc) /\ pc # "flush"
        /\ total' = total /\ out' = out /\ queue' = queue /\ chosen' = chosen
    BY <1>5 DEF WriteDestroyed, EndDestroyed, Destroy, DestroyNow
  <2>2. QED
    BY <1>2, <1>3, <1>4, <2>1 DEF WatchedNext
<1>6. CASE WriteReturned
  <2>1. /\ spine' = spine /\ base' = base /\ total' = total /\ out' = out /\ chosen' = chosen
        /\ pc = "write"
    BY <1>6 DEF WriteReturned, Parsing
  <2>2. CASE editsActive
    <3>1. queue' = ResolvedRuns /\ pc' = "flush" /\ after' = "hold"
      BY <1>6, <2>2 DEF WriteReturned
    <3>2. /\ Cut(spine, total) /\ Handled(doc, spine, K, base)
          /\ ResolvedRuns \in Seq(Seq(Stuff)) /\ Free(doc, K, Ats(ResolvedRuns), total)
          /\ \A o \in At(out) \cup Ats(ResolvedRuns) : o < EditSafeLimit
      BY <1>6, <2>2, ReturnedWithholds DEF K
    <3>3. WatchedNext(K)
      BY <1>1, <2>1, <3>1, <3>2 DEF WatchedNext
    <3>4. QED
      BY <1>2, <1>4, <2>1, <3>1, <3>2, <3>3 DEF Running
  <2>3. CASE ~editsActive
    <3>1. queue' = queue /\ pc' = "idle"
      BY <1>6, <2>3 DEF WriteReturned
    <3>2. WatchedNext(K)
      BY <2>3 DEF WatchedNext
    <3>3. QED
      BY <1>2, <1>4, <2>1, <3>1, <3>2 DEF Running
  <2>4. QED
    BY <2>2, <2>3
<1>7. CASE WriteBudget
  <2>1. /\ total' = total /\ out' = out /\ chosen' = chosen /\ base' = base
        /\ pc = "write" /\ ~destroyed /\ spine.thrown = "budget" /\ Stopped(spine)
    BY <1>7 DEF WriteBudget, Stopped, Threw
  <2>2. CASE editsActive
    <3>1. queue' = VerbatimRuns /\ pc' = "flush" /\ after' = "budget" /\ spine' = spine
      BY <1>7, <2>2 DEF WriteBudget
    <3>2. Active /\ ~Lost(spine)
      BY <2>1, WithholdsFacts
    <3>3. VerbatimRuns \in Seq(Seq(Stuff)) /\ Free(doc, K, Ats(VerbatimRuns), total)
      BY <2>2, <3>2, VerbatimWithholds DEF K
    <3>4. Cut(spine, total) /\ Handled(doc, spine, K, base)
      BY <2>2, <3>2, WatchedFacts DEF K
    <3>5. WatchedNext(K)
      BY <2>1, <3>1, <3>4 DEF WatchedNext
    <3>6. QED
      BY <1>4, <2>1, <3>1, <3>3, <3>5
  <2>3. CASE ~editsActive
    <3>1. queue' = queue /\ pc' \in {"idle", "failed"} /\ (pc' = "idle" => spine' = Dispose(spine))
      BY <1>7, <2>3 DEF WriteBudget, ApplyBudget, Seal, Terminate
    <3>2. WatchedNext(K)
      BY <2>3 DEF WatchedNext
    <3>3. QED
      BY <1>2, <1>3, <1>4, <2>1, <3>1, <3>2 DEF Running
  <2>4. QED
    BY <2>2, <2>3
<1>8. CASE ParseFatal
  <2>1. /\ total' = total /\ out' = out /\ queue' = queue /\ chosen' = chosen
        /\ pc' = "failed" /\ finished'
    BY <1>8 DEF ParseFatal, Fail, echo
  <2>2. WatchedNext(K)
    BY <2>1 DEF WatchedNext
  <2>3. QED
    BY <1>2, <1>4, <2>1, <2>2 DEF Running
<1>9. CASE EndBudget
  <2>1. /\ total' = total /\ out' = out /\ chosen' = chosen /\ base' = base
        /\ pc = "end" /\ ~destroyed /\ spine.thrown = "budget" /\ Stopped(spine)
    BY <1>9 DEF EndBudget, Stopped, Threw
  <2>2. CASE Detach /\ editsActive
    <3>1. queue' = VerbatimRuns /\ pc' = "flush" /\ after' = "close" /\ spine' = spine
      BY <1>9, <2>2 DEF EndBudget
    <3>2. Active /\ ~Lost(spine)
      BY <2>1, WithholdsFacts
    <3>3. VerbatimRuns \in Seq(Seq(Stuff)) /\ Free(doc, K, Ats(VerbatimRuns), total)
      BY <2>2, <3>2, VerbatimWithholds DEF K
    <3>4. Cut(spine, total) /\ Handled(doc, spine, K, base)
      BY <2>2, <3>2, WatchedFacts DEF K
    <3>5. WatchedNext(K)
      BY <2>1, <3>1, <3>4 DEF WatchedNext
    <3>6. QED
      BY <1>4, <2>1, <3>1, <3>3, <3>5
  <2>3. CASE ~(Detach /\ editsActive)
    <3>1. queue' = queue /\ pc' \in {"done", "failed"} /\ finished'
      BY <1>9, <2>3 DEF EndBudget, Verdict
    <3>2. WatchedNext(K)
      BY <3>1 DEF WatchedNext
    <3>3. QED
      BY <1>2, <1>4, <2>1, <3>1, <3>2 DEF Running
  <2>4. QED
    BY <2>2, <2>3
<1>10. CASE Push
  <2> DEFINE run == Head(queue)
  <2>1. /\ pc = "flush" /\ queue # <<>> /\ out' = out \o run /\ base' = base /\ total' = total
        /\ chosen' = chosen
    BY <1>10 DEF Push
  <2>2. /\ run \in Seq(Stuff) /\ At(run) \subseteq Ats(queue)
        /\ Tail(queue) \in Seq(Seq(Stuff)) /\ Ats(Tail(queue)) \subseteq Ats(queue)
    BY <1>2, <2>1, HeadTail
  <2> HIDE DEF run
  <2>3. out \o run \in Seq(Stuff) /\ At(out \o run) = At(out) \cup At(run)
    BY <1>2, <2>2, AtJoin
  <2>4. Free(doc, K, At(out'), total)
    BY <1>2, <2>1, <2>2, <2>3 DEF Free
  <2>5. ASSUME queue' \in Seq(Seq(Stuff)), pc' = "flush" => Free(doc, K, Ats(queue'), total),
               ~Stopped(spine') /\ pc' \in Running => Placed(doc, spine'), WatchedNext(K)
        PROVE  WithholdsNext
    BY <1>1, <1>2, <2>1, <2>3, <2>4, <2>5 DEF WithholdsNext, K
  <2>6. CASE queue' = Tail(queue) /\ UNCHANGED <<spine, held, life>>
    <3>1. /\ spine' = spine /\ pc' = pc /\ after' = after /\ sealed' = sealed /\ finished' = finished
          /\ destroyed' = destroyed
      BY <2>6 DEF life
    <3>2. Free(doc, K, Ats(queue'), total)
      BY <1>2, <2>1, <2>2, <2>6 DEF Free
    <3>3. At(out') \cup Ats(queue') \subseteq At(out) \cup Ats(queue)
      BY <2>1, <2>2, <2>3, <2>6
    <3>4. WatchedNext(K)
      BY <1>1, <1>2, <2>1, <3>1, <3>3 DEF WatchedNext, Watched, Active
    <3>5. QED
      BY <1>2, <2>1, <2>2, <2>5, <2>6, <3>1, <3>2, <3>4
  <2>7. CASE DestroyNow /\ queue' = <<>> /\ pc' = "idle"
    <3>1. spine' = Released /\ destroyed'
      BY <2>7 DEF DestroyNow
    <3>2. WatchedNext(K)
      BY <3>1 DEF WatchedNext
    <3>3. QED
      BY <1>3, <2>5, <2>7, <3>1, <3>2, AtsNone
  <2>8. QED
    BY <1>10, <2>6, <2>7 DEF Push
<1>11. CASE EndSyntax
  <2>1. /\ total' = total /\ out' = out /\ chosen' = chosen /\ base' = base /\ pc = "end" /\ Ending
        /\ ~Stopped(spine) /\ Placed(doc, spine) /\ ~spine.disposed
    BY <1>2, <1>11 DEF EndSyntax, Ending, Stopped, Threw, Running
  <2>2. CASE ~EndsCleanly(spine.tok)
    <3>1. spine' = Throw(spine, "fatal") /\ queue' = queue /\ pc' = pc
      BY <1>11, <2>2 DEF EndSyntax
    <3>2. spine'.thrown = "fatal"
      BY <1>1, <3>1 DEF Throw, Spines
    <3>3. Lost(spine') /\ Stopped(spine')
      BY <3>2 DEF Lost, Stopped, Threw
    <3>4. WatchedNext(K)
      BY <3>3 DEF WatchedNext
    <3>5. QED
      BY <1>2, <1>4, <2>1, <3>1, <3>3, <3>4
  <2>3. CASE EndsCleanly(spine.tok) /\ editsActive
    <3>1. /\ queue' = FlushRuns(spine.edits, base, total) /\ pc' = "flush" /\ after' = "close"
          /\ spine' = spine
      BY <1>11, <2>3 DEF EndSyntax
    <3>2. Active /\ ~Lost(spine)
      BY <2>1, WithholdsFacts
    <3>3. queue' \in Seq(Seq(Stuff)) /\ Free(doc, K, Ats(queue'), total)
      BY <2>1, <2>3, <3>1, EndedWithholds DEF K
    <3>4. Cut(spine, total) /\ Handled(doc, spine, K, base)
      BY <2>3, <3>2, WatchedFacts DEF K
    <3>5. WatchedNext(K)
      BY <2>1, <3>1, <3>4 DEF WatchedNext
    <3>6. QED
      BY <1>4, <2>1, <3>1, <3>3, <3>5
  <2>4. CASE EndsCleanly(spine.tok) /\ ~editsActive
    <3>1. queue' = queue /\ pc' \in {"done", "failed"}
      BY <1>11, <2>4 DEF EndSyntax, Verdict
    <3>2. WatchedNext(K)
      BY <2>4 DEF WatchedNext
    <3>3. QED
      BY <1>2, <1>4, <2>1, <3>1, <3>2 DEF Running
  <2>5. QED
    BY <2>2, <2>3, <2>4
<1>12. CASE End
  <2>1. /\ total' = total /\ out' = out /\ chosen' = chosen /\ base' = base /\ queue' = queue
        /\ pc = "idle" /\ destroyed' = destroyed
        /\ \/ pc' \in {"failed", "done"} /\ finished'
           \/ pc' = "end" /\ spine' = spine /\ sealed' = sealed /\ finished' = finished
    BY <1>12 DEF End, Verdict, echo
  <2>2. CASE pc' \in {"failed", "done"} /\ finished'
    <3>1. WatchedNext(K)
      BY <2>2 DEF WatchedNext
    <3>2. QED
      BY <1>2, <1>4, <2>1, <2>2, <3>1 DEF Running
  <2>3. CASE pc' = "end" /\ spine' = spine /\ sealed' = sealed /\ finished' = finished
    <3>1. WatchedNext(K)
      BY <1>2, <2>1, <2>3 DEF WatchedNext, Watched, Active
    <3>2. QED
      BY <1>2, <1>4, <2>1, <2>3, <3>1 DEF Running
  <2>4. QED
    BY <2>1, <2>2, <2>3
<1>13. CASE UNCHANGED vars
  <2>1. /\ total' = total /\ out' = out /\ chosen' = chosen /\ base' = base /\ queue' = queue
        /\ pc' = pc /\ after' = after /\ spine' = spine /\ sealed' = sealed /\ finished' = finished
        /\ destroyed' = destroyed
    BY <1>13 DEF vars, echo, life
  <2>2. WatchedNext(K)
    BY <1>1, <1>2, <2>1 DEF WatchedNext, Watched, Active
  <2>3. QED
    BY <1>2, <1>4, <2>1, <2>2
<1>14. QED
  BY <1>5, <1>6, <1>7, <1>8, <1>9, <1>10, <1>11, <1>12, <1>13

LEMMA WithholdsInductive ==
  Inv /\ Limits /\ Retains /\ Withholds /\ [Next]_vars => Withholds'
<1> SUFFICES ASSUME Inv, Limits, Retains, Withholds, [Next]_vars PROVE Withholds'
  OBVIOUS
<1>1. doc' = doc /\ editsActive' = editsActive
  BY DEF Next, Engine, Source, vars, input, Parse, WriteDestroyed, WriteReturned, WriteBudget,
     ParseFatal, Push, Flushed, EndNumber, EndSyntax, EndBudget, EndDestroyed, Transform, Passthrough,
     Refuse, HoldChunk, EchoChunk, End, Destroy
<1>2. WithholdsNext
  <2>1. CASE \E size \in ChunkSizes : Transform(size)
    BY <2>1, TransformWithholds
  <2>2. CASE Parse \/ EndNumber
    BY <2>2, TurnWithholds
  <2>3. CASE Flushed
    BY <2>3, FlushedWithholds
  <2>4. CASE \/ WriteReturned \/ WriteBudget \/ ParseFatal \/ Push \/ EndSyntax \/ EndBudget \/ End
             \/ WriteDestroyed \/ EndDestroyed \/ Destroy \/ UNCHANGED vars
    BY <2>4, OthersWithhold
  <2>5. QED
    BY <2>1, <2>2, <2>3, <2>4 DEF Next, Engine, Source
<1>3. /\ DropsOf(chosen)' = DropsOf(chosen') /\ At(out)' = At(out') /\ Ats(queue)' = Ats(queue')
      /\ Stopped(spine)' = Stopped(spine') /\ Lost(spine)' = Lost(spine')
      /\ EditSafeLimit' = SafeLimit(spine', total')
      /\ Active' = (~sealed' /\ ~finished' /\ ~destroyed')
  BY DEF DropsOf, At, Ats, Stopped, Threw, Lost, EditSafeLimit, SafeLimit, MemberPrefixStart, InObject,
     Top, Active
<1>4. /\ Cut(spine, total)' = Cut(spine', total')
      /\ Spots(doc)' = Spots(doc')
  BY DEF Cut, LiesIn, Apart, Beside, Aside, Held, Top, Discards, Spots, KeyStarts, PrevSep, Shape, Bytes
<1>5. Handled(doc, spine, DropsOf(chosen), base)' = Handled(doc', spine', DropsOf(chosen'), base')
  BY DEF Handled, Deleted, Discards, NextSep, PrevSep, Shape, Bytes, KeyStarts, DropsOf
<1>6. /\ Free(doc, DropsOf(chosen), At(out), total)' = Free(doc', DropsOf(chosen'), At(out'), total')
      /\ Free(doc, DropsOf(chosen), Ats(queue), total)' = Free(doc', DropsOf(chosen'), Ats(queue'), total')
  BY DEF Free, Inside, NextSep, PrevSep, Shape, Bytes, KeyStarts, DropsOf, At, Ats
<1>7. Placed(doc, spine)' = Placed(doc', spine')
  BY DEF Placed
<1>8. Watched(DropsOf(chosen))' = WatchedNext(DropsOf(chosen'))
  BY <1>1, <1>3, <1>4, <1>5 DEF Watched, WatchedNext
<1>9. QED
  BY <1>1, <1>2, <1>3, <1>4, <1>6, <1>7, <1>8 DEF Withholds, WithholdsNext

(* For every document, chunking, limit and answers of the hooks: no byte of a
   member that a hook dropped is pushed while it is input the validator
   accepted, whether the stream ends, fails, is refused or is destroyed. *)
THEOREM DroppedStaysGoneAlways == Spec => []DroppedStaysGone
<1>1. Withholds => DroppedStaysGone
  <2> SUFFICES ASSUME Withholds, NEW i \in DOMAIN out, out[i].at < total PROVE ~Dropped(out[i].at)
    BY DEF DroppedStaysGone
  <2>1. Free(doc, DropsOf(chosen), At(out), total) /\ doc \in Docs
    BY DEF Withholds
  <2>2. out[i].at \in At(out)
    BY DEF At
  <2>3. \A k \in DropsOf(chosen) : ~Inside(doc, k, out[i].at)
    BY <2>1, <2>2 DEF Free
  <2>4. Members = Shape(doc)
    BY <2>1 DEF Members, Shapes
  <2>5. Did("drop") = DropsOf(chosen)
    BY DEF Did, DropsOf
  <2>6. QED
    BY <2>3, <2>4, <2>5 DEF Dropped, Inside, PrevSep, NextSep
<1>2. QED
  BY <1>1, DriverSound, LimitsInitial, LimitsInductive, RetainsInitial, RetainsInductive,
     WithholdsInitial, WithholdsInductive, PTL DEF Spec
=============================================================================
