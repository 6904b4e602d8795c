------------------------- MODULE MemberEditsProofs --------------------------
(***************************************************************************)
(* What one byte and one event leave, for every alphabet, cap, limit and   *)
(* answer of user code: the tokenizer's record first, then the spine's,    *)
(* its types, its byte limit, what it retains and the edits it records.    *)
(* JsonReaderProofs and StreamEngineProofs rest on these lemmas.           *)
(***************************************************************************)
EXTENDS MemberEdits, TLAPS, SequenceTheorems, FiniteSetTheorems

-----------------------------------------------------------------------------
(* The tokenizer. *)

States == {"value", "valueOrEndArray", "keyOrEndObject", "key", "colon", "commaOrEndArray",
           "commaOrEndObject", "end", "string", "number"}

Tokenizers == [pos : Nat, state : States, stack : Seq(Contexts), isKey : BOOLEAN,
               start : Nat, buf : Seq(Byte)]

(* The states a key can be expected or read in, and those an array's. *)
ObjectState(t) ==
  \/ t.state \in {"keyOrEndObject", "key", "colon", "commaOrEndObject"}
  \/ t.state = "string" /\ t.isKey
ArrayState(t) == t.state \in {"valueOrEndArray", "commaOrEndArray"}

Matches(t) ==
  /\ ObjectState(t) => Context(t.stack) = "object"
  /\ ArrayState(t) => Context(t.stack) = "array"
  /\ t.state = "end" => t.stack = <<>>

(* A token being read holds its bytes and nothing else. *)
Bounded(t) ==
  /\ t.state = "string" /\ t.isKey => t.start + Len(t.buf) + 1 = t.pos /\ Len(t.buf) < MaxKeyBytes
  /\ t.state = "number" => t.start + Len(t.buf) = t.pos /\ Len(t.buf) <= MaxNumberBytes

Sound(t) == t \in Tokenizers /\ Matches(t) /\ Bounded(t)

-----------------------------------------------------------------------------
(* What one turn of the loop may do to the record. *)

LEMMA SkipSound ==
  ASSUME NEW t \in Tokenizers, NEW state \in States
  PROVE  /\ Skip(t, state) \in Tokenizers
         /\ Skip(t, state).state = state
         /\ Skip(t, state).pos = t.pos + 1
         /\ Skip(t, state).stack = t.stack
         /\ Skip(t, state).isKey = t.isKey
         /\ Skip(t, state).start = t.start
         /\ Skip(t, state).buf = t.buf
<1>1. t.pos + 1 \in Nat
  BY DEF Tokenizers
<1>2. Skip(t, state) = [t EXCEPT !.state = state, !.pos = t.pos + 1]
  BY DEF Skip, Tokenizers
<1>3. Skip(t, state) \in Tokenizers
  BY <1>1, <1>2 DEF Tokenizers
<1>4. QED
  BY <1>2, <1>3 DEF Tokenizers

LEMMA StackSound ==
  ASSUME NEW t \in Tokenizers, NEW stack \in Seq(Contexts),
         NEW u, u = [t EXCEPT !.stack = stack]
  PROVE  /\ u \in Tokenizers
         /\ u.state = t.state /\ u.stack = stack /\ u.pos = t.pos
         /\ u.isKey = t.isKey /\ u.start = t.start /\ u.buf = t.buf
  BY DEF Tokenizers

LEMMA PopType ==
  ASSUME NEW stack \in Seq(Contexts), Context(stack) # "none"
  PROVE  Pop(stack) \in Seq(Contexts)
  BY DEF Pop, Context

LEMMA AfterValueSound ==
  ASSUME NEW stack \in Seq(Contexts)
  PROVE  /\ AfterValue(stack) \in {"end", "commaOrEndArray", "commaOrEndObject"}
         /\ AfterValue(stack) = "end" => stack = <<>>
         /\ AfterValue(stack) = "commaOrEndArray" => Context(stack) = "array"
         /\ AfterValue(stack) = "commaOrEndObject" => Context(stack) = "object"
<1>1. stack # <<>> => stack[Len(stack)] \in Contexts
  OBVIOUS
<1>2. QED
  BY <1>1 DEF AfterValue, Context, Contexts

LEMMA CloseSound ==
  ASSUME NEW t \in Tokenizers, Context(t.stack) # "none", NEW type
  PROVE  Sound(Close(t, type).t)
<1>1. Pop(t.stack) \in Seq(Contexts)
  BY PopType DEF Tokenizers
<1>2. /\ AfterValue(Pop(t.stack)) \in {"end", "commaOrEndArray", "commaOrEndObject"}
      /\ AfterValue(Pop(t.stack)) = "end" => Pop(t.stack) = <<>>
      /\ AfterValue(Pop(t.stack)) = "commaOrEndArray" => Context(Pop(t.stack)) = "array"
      /\ AfterValue(Pop(t.stack)) = "commaOrEndObject" => Context(Pop(t.stack)) = "object"
  BY <1>1, AfterValueSound
<1>3. AfterValue(Pop(t.stack)) \in States
  BY <1>2 DEF States
<1> DEFINE s == Skip(t, AfterValue(Pop(t.stack)))
<1>4. /\ s \in Tokenizers
      /\ s.state = AfterValue(Pop(t.stack))
  BY <1>3, SkipSound
<1> DEFINE u == [s EXCEPT !.stack = Pop(t.stack)]
<1> HIDE DEF s
<1>5. u \in Tokenizers /\ u.state = s.state /\ u.stack = Pop(t.stack)
  BY <1>1, <1>4, StackSound
<1>6. Close(t, type).t = u
  BY DEF Close, Result, s
<1> HIDE DEF u
<1>7. Matches(u) /\ Bounded(u)
  BY <1>2, <1>4, <1>5 DEF Matches, Bounded, ObjectState, ArrayState
<1>8. QED
  BY <1>5, <1>6, <1>7 DEF Sound

LEMMA BadSound ==
  ASSUME NEW t, Sound(t)
  PROVE  Sound(Bad(t).t)
  BY DEF Bad, Result

LEMMA OpenSound ==
  ASSUME NEW t \in Tokenizers, NEW type, NEW context \in Contexts, NEW state \in States,
         state = "keyOrEndObject" => context = "object",
         state = "valueOrEndArray" => context = "array",
         state \in {"keyOrEndObject", "valueOrEndArray"}
  PROVE  Sound(Open(t, type, context, state).t)
<1> DEFINE s == Skip(t, state)
<1>1. s \in Tokenizers /\ s.state = state /\ s.stack = t.stack
  BY SkipSound
<1> DEFINE stack == Append(t.stack, context)
<1>2. stack \in Seq(Contexts) /\ Context(stack) = context /\ stack # <<>>
  BY DEF Tokenizers, Context
<1> DEFINE u == [s EXCEPT !.stack = stack]
<1> HIDE DEF s, stack
<1>3. u \in Tokenizers /\ u.state = state /\ u.stack = stack
  BY <1>1, <1>2, StackSound
<1>4. Open(t, type, context, state).t = u
  BY <1>1 DEF Open, Result, s, stack
<1> HIDE DEF u
<1>5. Matches(u) /\ Bounded(u)
  BY <1>2, <1>3 DEF Matches, Bounded, ObjectState, ArrayState
<1>6. QED
  BY <1>3, <1>4, <1>5 DEF Sound

LEMMA BeginStringSound ==
  ASSUME NEW t, Sound(t), NEW isKey \in BOOLEAN, isKey => Context(t.stack) = "object"
  PROVE  Sound(BeginString(t, isKey).t)
<1>1. CASE isKey /\ MaxKeyBytes = 0
  BY <1>1, BadSound DEF BeginString
<1>2. CASE ~(isKey /\ MaxKeyBytes = 0)
  <2> DEFINE s == Skip(t, "string")
  <2>1. /\ s \in Tokenizers /\ s.state = "string" /\ s.stack = t.stack
        /\ s.pos = t.pos + 1 /\ t.pos \in Nat
    BY SkipSound DEF Sound, States, Tokenizers
  <2> DEFINE u == [s EXCEPT !.isKey = isKey, !.start = t.pos, !.buf = <<>>]
  <2> HIDE DEF s
  <2>2. /\ u \in Tokenizers /\ u.state = "string" /\ u.stack = t.stack /\ u.pos = t.pos + 1
        /\ u.isKey = isKey /\ u.start = t.pos /\ u.buf = <<>>
    <3>1. <<>> \in Seq(Byte)
      OBVIOUS
    <3>2. QED
      BY <2>1, <3>1 DEF Tokenizers
  <2>3. BeginString(t, isKey).t = u
    BY <1>2 DEF BeginString, Result, s
  <2> HIDE DEF u
  <2>4. Matches(u) /\ Bounded(u)
    BY <1>2, <2>1, <2>2, TokenizerAssumption DEF Matches, Bounded, ObjectState, ArrayState
  <2>5. QED
    BY <2>2, <2>3, <2>4 DEF Sound
<1>3. QED
  BY <1>1, <1>2

LEMMA AfterSkipSound ==
  ASSUME NEW t \in Tokenizers
  PROVE  Sound(Skip(t, AfterValue(t.stack)))
<1> DEFINE u == Skip(t, AfterValue(t.stack))
<1>1. /\ AfterValue(t.stack) \in {"end", "commaOrEndArray", "commaOrEndObject"}
      /\ AfterValue(t.stack) = "end" => t.stack = <<>>
      /\ AfterValue(t.stack) = "commaOrEndArray" => Context(t.stack) = "array"
      /\ AfterValue(t.stack) = "commaOrEndObject" => Context(t.stack) = "object"
  BY AfterValueSound DEF Tokenizers
<1>2. AfterValue(t.stack) \in States
  BY <1>1 DEF States
<1>3. u \in Tokenizers /\ u.state = AfterValue(t.stack) /\ u.stack = t.stack
  BY <1>2, SkipSound
<1> HIDE DEF u
<1>4. Matches(u) /\ Bounded(u)
  BY <1>1, <1>3 DEF Matches, Bounded, ObjectState, ArrayState
<1>5. QED
  BY <1>3, <1>4 DEF Sound, u

LEMMA BeginValueSound ==
  ASSUME NEW t, Sound(t), NEW b
  PROVE  Sound(BeginValue(t, b).t)
<1>1. t \in Tokenizers
  BY DEF Sound
<1>2. CASE b = "{"
  <2>1. BeginValue(t, b) = Open(t, "startObject", "object", "keyOrEndObject")
    BY <1>2 DEF BeginValue, NumberByte
  <2>2. "object" \in Contexts /\ "keyOrEndObject" \in States
    BY DEF Contexts, States
  <2>3. Sound(Open(t, "startObject", "object", "keyOrEndObject").t)
    BY <1>1, <2>2, OpenSound
  <2>4. QED
    BY <2>1, <2>3
<1>3. CASE b = "["
  <2>1. BeginValue(t, b) = Open(t, "startArray", "array", "valueOrEndArray")
    BY <1>3 DEF BeginValue, NumberByte
  <2>2. "array" \in Contexts /\ "valueOrEndArray" \in States
    BY DEF Contexts, States
  <2>3. Sound(Open(t, "startArray", "array", "valueOrEndArray").t)
    BY <1>1, <2>2, OpenSound
  <2>4. QED
    BY <2>1, <2>3
<1>4. CASE b = "Q"
  <2>1. BeginValue(t, b) = BeginString(t, FALSE)
    BY <1>4 DEF BeginValue, NumberByte
  <2>2. QED
    BY <2>1, BeginStringSound, Zenon
<1>5. CASE b = "t"
  <2>1. BeginValue(t, b).t = Skip(t, AfterValue(t.stack))
    BY <1>5 DEF BeginValue, NumberByte, Result
  <2>2. QED
    BY <1>1, <2>1, AfterSkipSound
<1>6. CASE b \in NumberByte
  <2> DEFINE u == [t EXCEPT !.state = "number", !.start = t.pos, !.buf = <<>>]
  <2>1. /\ u \in Tokenizers /\ u.state = "number" /\ u.pos = t.pos
        /\ u.start = t.pos /\ u.buf = <<>> /\ u.stack = t.stack /\ t.pos \in Nat
    <3>1. <<>> \in Seq(Byte) /\ "number" \in States /\ t.pos \in Nat
      BY <1>1 DEF States, Tokenizers
    <3>2. QED
      BY <1>1, <3>1 DEF Tokenizers
  <2>2. BeginValue(t, b).t = u
    BY <1>6 DEF BeginValue, Result, NumberByte
  <2> HIDE DEF u
  <2>3. Matches(u) /\ Bounded(u)
    BY <2>1, TokenizerAssumption DEF Matches, Bounded, ObjectState, ArrayState
  <2>4. QED
    BY <2>1, <2>2, <2>3 DEF Sound
<1>7. CASE b \notin {"{", "[", "Q", "t"} \cup NumberByte
  <2>1. BeginValue(t, b) = Bad(t)
    BY <1>7 DEF BeginValue
  <2>2. QED
    BY <2>1, BadSound
<1>8. QED
  BY <1>2, <1>3, <1>4, <1>5, <1>6, <1>7

(* A key's bytes are counted before they are kept. *)
LEMMA InStringSound ==
  ASSUME NEW t, Sound(t), t.state = "string", NEW b \in Byte
  PROVE  Sound(InString(t, b).t)
<1>1. t \in Tokenizers
  BY DEF Sound
<1>2. CASE t.isKey /\ t.pos - t.start >= MaxKeyBytes
  BY <1>2, BadSound DEF InString
<1>3. CASE ~(t.isKey /\ t.pos - t.start >= MaxKeyBytes) /\ b # "Q"
  <2> DEFINE s == Skip(t, "string")
  <2> DEFINE buf == IF t.isKey THEN Append(t.buf, b) ELSE t.buf
  <2>1. /\ s \in Tokenizers /\ s.state = "string" /\ s.stack = t.stack /\ s.pos = t.pos + 1
        /\ s.isKey = t.isKey /\ s.start = t.start /\ s.buf = t.buf
    BY <1>1, SkipSound DEF States
  <2>2. /\ buf \in Seq(Byte)
        /\ t.isKey => Len(buf) = Len(t.buf) + 1
        /\ t.pos \in Nat /\ t.start \in Nat /\ Len(t.buf) \in Nat
    BY <1>1 DEF Tokenizers
  <2> DEFINE u == [s EXCEPT !.buf = buf]
  <2>3. InString(t, b).t = u
    BY <1>3, <2>1 DEF InString, Result, s, buf
  <2> HIDE DEF s, buf
  <2>4. /\ u \in Tokenizers /\ u.state = "string" /\ u.stack = t.stack /\ u.pos = t.pos + 1
        /\ u.isKey = t.isKey /\ u.start = t.start /\ u.buf = buf
    BY <2>1, <2>2 DEF Tokenizers
  <2> HIDE DEF u
  <2>5. Matches(u)
    BY <2>4 DEF Sound, Matches, ObjectState, ArrayState
  <2>6. Bounded(u)
    <3>1. t.isKey => t.start + Len(t.buf) + 1 = t.pos
      BY DEF Sound, Bounded
    <3>2. t.isKey => t.start + Len(buf) + 1 = t.pos + 1 /\ Len(buf) < MaxKeyBytes
      <4>1. SUFFICES ASSUME t.isKey
                     PROVE  t.start + Len(buf) + 1 = t.pos + 1 /\ Len(buf) < MaxKeyBytes
        OBVIOUS
      <4>2. ~(t.pos - t.start >= MaxKeyBytes)
        BY <1>3, <4>1
      <4>3. t.start + Len(t.buf) + 1 = t.pos /\ Len(buf) = Len(t.buf) + 1
        BY <2>2, <3>1, <4>1
      <4>4. QED
        BY <2>2, <4>2, <4>3, TokenizerAssumption
    <3>3. QED
      BY <2>4, <3>2 DEF Bounded
  <2>7. QED
    BY <2>3, <2>4, <2>5, <2>6 DEF Sound
<1>4. CASE ~(t.isKey /\ t.pos - t.start >= MaxKeyBytes) /\ b = "Q"
  <2>1. CASE t.isKey
    <3> DEFINE u == Skip(t, "colon")
    <3>1. InString(t, b).t = u
      BY <1>4, <2>1 DEF InString, Result
    <3>2. u \in Tokenizers /\ u.state = "colon" /\ u.stack = t.stack
      BY <1>1, SkipSound DEF States
    <3> HIDE DEF u
    <3>3. Matches(u) /\ Bounded(u)
      BY <2>1, <3>2 DEF Sound, Matches, Bounded, ObjectState, ArrayState
    <3>4. QED
      BY <3>1, <3>2, <3>3 DEF Sound
  <2>2. CASE ~t.isKey
    <3>1. InString(t, b).t = Skip(t, AfterValue(t.stack))
      BY <1>4, <2>2 DEF InString, Result
    <3>2. QED
      BY <1>1, <3>1, AfterSkipSound
  <2>3. QED
    BY <2>1, <2>2
<1>5. QED
  BY <1>2, <1>3, <1>4

LEMMA FinishNumberSound ==
  ASSUME NEW t, Sound(t)
  PROVE  Sound(FinishNumber(t).t)
<1>1. CASE ~NumberOk(t.buf)
  BY <1>1, BadSound DEF FinishNumber
<1>2. CASE NumberOk(t.buf)
  <2> DEFINE u == [t EXCEPT !.state = AfterValue(t.stack), !.buf = <<>>]
  <2>1. /\ AfterValue(t.stack) \in {"end", "commaOrEndArray", "commaOrEndObject"}
        /\ AfterValue(t.stack) = "end" => t.stack = <<>>
        /\ AfterValue(t.stack) = "commaOrEndArray" => Context(t.stack) = "array"
        /\ AfterValue(t.stack) = "commaOrEndObject" => Context(t.stack) = "object"
    BY AfterValueSound DEF Sound, Tokenizers
  <2>2. u \in Tokenizers /\ u.state = AfterValue(t.stack) /\ u.stack = t.stack
    <3>1. AfterValue(t.stack) \in States /\ <<>> \in Seq(Byte)
      BY <2>1 DEF States
    <3>2. QED
      BY <3>1 DEF Sound, Tokenizers
  <2>3. FinishNumber(t).t = u
    BY <1>2 DEF FinishNumber, Result
  <2> HIDE DEF u
  <2>4. Matches(u) /\ Bounded(u)
    BY <2>1, <2>2 DEF Matches, Bounded, ObjectState, ArrayState
  <2>5. QED
    BY <2>2, <2>3, <2>4 DEF Sound
<1>3. QED
  BY <1>1, <1>2

LEMMA InNumberSound ==
  ASSUME NEW t, Sound(t), t.state = "number", NEW b \in Byte
  PROVE  Sound(InNumber(t, b).t)
<1>1. t \in Tokenizers
  BY DEF Sound
<1>2. CASE b \notin NumberByte
  BY <1>2, FinishNumberSound DEF InNumber
<1>3. CASE b \in NumberByte /\ t.pos - t.start >= MaxNumberBytes
  BY <1>3, BadSound DEF InNumber
<1>4. CASE b \in NumberByte /\ ~(t.pos - t.start >= MaxNumberBytes)
  <2> DEFINE s == Skip(t, "number")
  <2>1. /\ s \in Tokenizers /\ s.state = "number" /\ s.stack = t.stack /\ s.pos = t.pos + 1
        /\ s.start = t.start /\ s.buf = t.buf
    BY <1>1, SkipSound DEF States
  <2> DEFINE buf == Append(t.buf, b)
  <2>2. /\ buf \in Seq(Byte) /\ Len(buf) = Len(t.buf) + 1
        /\ t.pos \in Nat /\ t.start \in Nat /\ Len(t.buf) \in Nat
    BY <1>1 DEF Tokenizers
  <2> DEFINE u == [s EXCEPT !.buf = buf]
  <2>3. InNumber(t, b).t = u
    BY <1>4, <2>1 DEF InNumber, Result, s, buf
  <2> HIDE DEF s, buf
  <2>4. /\ u \in Tokenizers /\ u.state = "number" /\ u.stack = t.stack /\ u.pos = t.pos + 1
        /\ u.start = t.start /\ u.buf = buf
    BY <2>1, <2>2 DEF Tokenizers
  <2> HIDE DEF u
  <2>5. Matches(u)
    BY <2>4 DEF Matches, ObjectState, ArrayState
  <2>6. Bounded(u)
    <3>1. t.start + Len(t.buf) = t.pos
      BY DEF Sound, Bounded
    <3>2. t.start + Len(buf) = t.pos + 1 /\ Len(buf) <= MaxNumberBytes
      BY <1>4, <2>2, <3>1, TokenizerAssumption
    <3>3. QED
      BY <2>4, <3>2 DEF Bounded
  <2>7. QED
    BY <2>3, <2>4, <2>5, <2>6 DEF Sound
<1>5. QED
  BY <1>2, <1>3, <1>4

(* Whatever byte comes next in whatever state, the tokenizer stays sound. *)
LEMMA ScanSound ==
  ASSUME NEW t, Sound(t), NEW b \in Byte
  PROVE  Sound(Scan(t, b).t)
<1>1. t \in Tokenizers /\ Matches(t)
  BY DEF Sound
<1>2. CASE t.state = "string"
  BY <1>2, InStringSound DEF Scan
<1>3. CASE t.state = "number"
  BY <1>3, InNumberSound DEF Scan
<1> DEFINE Between == t.state \notin {"string", "number"}
<1>4. CASE Between /\ b = "w"
  <2> DEFINE u == Skip(t, t.state)
  <2>1. Scan(t, b).t = u
    BY <1>4 DEF Scan, Result
  <2>2. t.state \in States
    BY <1>1 DEF Tokenizers
  <2>3. u \in Tokenizers /\ u.state = t.state /\ u.stack = t.stack
    BY <1>1, <2>2, SkipSound
  <2> HIDE DEF u
  <2>4. Matches(u) /\ Bounded(u)
    BY <1>1, <1>4, <2>3 DEF Matches, Bounded, ObjectState, ArrayState
  <2>5. QED
    BY <2>1, <2>3, <2>4 DEF Sound
<1>5. CASE t.state = "value" /\ b # "w"
  BY <1>5, BeginValueSound DEF Scan
<1>6. CASE t.state = "valueOrEndArray" /\ b # "w"
  <2>1. CASE b = "]"
    <3>1. Scan(t, b) = Close(t, "endArray")
      BY <1>6, <2>1 DEF Scan
    <3>2. Context(t.stack) # "none"
      BY <1>1, <1>6 DEF Matches, ArrayState
    <3>3. QED
      BY <1>1, <3>1, <3>2, CloseSound
  <2>2. CASE b # "]"
    BY <1>6, <2>2, BeginValueSound DEF Scan
  <2>3. QED
    BY <2>1, <2>2
<1>7. CASE t.state = "keyOrEndObject" /\ b # "w"
  <2>1. Context(t.stack) = "object"
    BY <1>1, <1>7 DEF Matches, ObjectState
  <2>2. CASE b = "}"
    <3>1. Scan(t, b) = Close(t, "endObject")
      BY <1>7, <2>2 DEF Scan
    <3>2. QED
      BY <1>1, <2>1, <3>1, CloseSound
  <2>3. CASE b = "Q"
    <3>1. Scan(t, b) = BeginString(t, TRUE)
      BY <1>7, <2>3 DEF Scan
    <3>2. QED
      BY <2>1, <3>1, BeginStringSound
  <2>4. CASE b \notin {"}", "Q"}
    <3>1. Scan(t, b) = Bad(t)
      BY <1>7, <2>4 DEF Scan
    <3>2. QED
      BY <3>1, BadSound
  <2>5. QED
    BY <2>2, <2>3, <2>4
<1>8. CASE t.state = "key" /\ b # "w"
  <2>1. CASE b = "Q"
    <3>1. Scan(t, b) = BeginString(t, TRUE)
      BY <1>8, <2>1 DEF Scan
    <3>2. Context(t.stack) = "object"
      BY <1>1, <1>8 DEF Matches, ObjectState
    <3>3. QED
      BY <3>1, <3>2, BeginStringSound
  <2>2. CASE b # "Q"
    <3>1. Scan(t, b) = Bad(t)
      BY <1>8, <2>2 DEF Scan
    <3>2. QED
      BY <3>1, BadSound
  <2>3. QED
    BY <2>1, <2>2
<1> DEFINE value == Skip(t, "value")
<1> DEFINE key == Skip(t, "key")
<1>9. Sound(value)
  <2>1. value \in Tokenizers /\ value.state = "value"
    BY <1>1, SkipSound DEF States
  <2> HIDE DEF value
  <2>2. QED
    BY <2>1 DEF Sound, Matches, Bounded, ObjectState, ArrayState
<1>10. CASE t.state = "colon" /\ b # "w"
  <2>1. CASE b = ":"
    <3>1. Scan(t, b).t = value
      BY <1>10, <2>1 DEF Scan, Result
    <3>2. QED
      BY <1>9, <3>1
  <2>2. CASE b # ":"
    <3>1. Scan(t, b) = Bad(t)
      BY <1>10, <2>2 DEF Scan
    <3>2. QED
      BY <3>1, BadSound
  <2>3. QED
    BY <2>1, <2>2
<1>11. CASE t.state = "commaOrEndArray" /\ b # "w"
  <2>1. CASE b = ","
    <3>1. Scan(t, b).t = value
      BY <1>11, <2>1 DEF Scan, Result
    <3>2. QED
      BY <1>9, <3>1
  <2>2. CASE b = "]"
    <3>1. Scan(t, b) = Close(t, "endArray")
      BY <1>11, <2>2 DEF Scan
    <3>2. Context(t.stack) # "none"
      BY <1>1, <1>11 DEF Matches, ArrayState
    <3>3. QED
      BY <1>1, <3>1, <3>2, CloseSound
  <2>3. CASE b \notin {",", "]"}
    <3>1. Scan(t, b) = Bad(t)
      BY <1>11, <2>3 DEF Scan
    <3>2. QED
      BY <3>1, BadSound
  <2>4. QED
    BY <2>1, <2>2, <2>3
<1>12. CASE t.state = "commaOrEndObject" /\ b # "w"
  <2>1. Context(t.stack) = "object"
    BY <1>1, <1>12 DEF Matches, ObjectState
  <2>2. CASE b = ","
    <3>1. Scan(t, b).t = key
      BY <1>12, <2>2 DEF Scan, Result
    <3>2. key \in Tokenizers /\ key.state = "key" /\ key.stack = t.stack
      BY <1>1, SkipSound DEF States
    <3> HIDE DEF key
    <3>3. Sound(key)
      BY <2>1, <3>2 DEF Sound, Matches, Bounded, ObjectState, ArrayState
    <3>4. QED
      BY <3>1, <3>3
  <2>3. CASE b = "}"
    <3>1. Scan(t, b) = Close(t, "endObject")
      BY <1>12, <2>3 DEF Scan
    <3>2. QED
      BY <1>1, <2>1, <3>1, CloseSound
  <2>4. CASE b \notin {",", "}"}
    <3>1. Scan(t, b) = Bad(t)
      BY <1>12, <2>4 DEF Scan
    <3>2. QED
      BY <3>1, BadSound
  <2>5. QED
    BY <2>2, <2>3, <2>4
<1>13. CASE t.state = "end" /\ b # "w"
  <2>1. Scan(t, b) = Bad(t)
    BY <1>13 DEF Scan
  <2>2. QED
    BY <2>1, BadSound
<1>14. t.state \in States
  BY <1>1 DEF Tokenizers
<1>15. QED
  BY <1>2, <1>3, <1>4, <1>5, <1>6, <1>7, <1>8, <1>10, <1>11, <1>12, <1>13, <1>14 DEF States

(* One byte at a time: a turn reads the byte at hand or leaves it. *)
LEMMA ScanAdvances ==
  ASSUME NEW t \in Tokenizers, NEW b
  PROVE  Scan(t, b).t.pos \in {t.pos, t.pos + 1}
  BY DEF Scan, InString, InNumber, FinishNumber, BeginValue, BeginString, Open, Close,
         Skip, Bad, Result, Tokenizers

(* What an event says of the stack: a start opens one container, an end
   closes one, and a key or a comma between members comes within one. *)
Starts == {"startObject", "startArray"}
Ends == {"endObject", "endArray"}
Within == {"key", "memberComma"}
Events == [type : Starts \cup Ends \cup Within
                    \cup {"none", "stringStart", "text", "stringEnd", "number", "literal", "error"},
           key : Seq(Byte), start : Nat]

Tells(t, r) ==
  /\ r.event \in Events
  /\ r.event.type \in Starts => Len(r.t.stack) = Len(t.stack) + 1
  /\ r.event.type \in Ends => Len(r.t.stack) = Len(t.stack) - 1
  /\ r.event.type \notin Starts \cup Ends => r.t.stack = t.stack
  /\ r.event.type \in Ends \cup Within => Len(t.stack) > 0

LEMMA EventIs ==
  ASSUME NEW type \in Starts \cup Ends \cup Within
                        \cup {"none", "stringStart", "text", "stringEnd", "number", "literal", "error"},
         NEW key \in Seq(Byte), NEW start \in Nat
  PROVE  EventOf(type, key, start) \in Events /\ EventOf(type, key, start).type = type
  BY DEF EventOf, Events

LEMMA SameStackTells ==
  ASSUME NEW t \in Tokenizers, NEW u, u.stack = t.stack,
         NEW type \in Within \cup {"none", "stringStart", "text", "stringEnd", "number", "literal", "error"},
         type \in Within => Len(t.stack) > 0, NEW key \in Seq(Byte), NEW start \in Nat
  PROVE  Tells(t, Result(EventOf(type, key, start), u))
<1>1. type \notin Starts \cup Ends
  BY DEF Starts, Ends, Within
<1>2. EventOf(type, key, start) \in Events /\ EventOf(type, key, start).type = type
  BY EventIs
<1>3. QED
  BY <1>1, <1>2 DEF Tells, Result

LEMMA ContextOpen ==
  ASSUME NEW t \in Tokenizers, Context(t.stack) # "none"
  PROVE  Len(t.stack) > 0 /\ Len(Pop(t.stack)) = Len(t.stack) - 1
<1>1. t.stack \in Seq(Contexts) /\ t.stack # <<>>
  BY DEF Context, Tokenizers
<1>2. Len(t.stack) \in Nat \ {0}
  BY <1>1
<1>3. QED
  BY <1>1, <1>2 DEF Pop

LEMMA CloseTells ==
  ASSUME NEW t \in Tokenizers, Context(t.stack) # "none", NEW type \in Ends
  PROVE  Tells(t, Close(t, type))
<1> DEFINE e == EventOf(type, <<>>, t.pos)
<1>2. Close(t, type).event = e
  BY DEF Close, Result
<1>3. e \in Events /\ e.type = type
  <2>1. <<>> \in Seq(Byte) /\ t.pos \in Nat
    BY DEF Tokenizers
  <2>2. QED
    BY <2>1, EventIs
<1>4. Close(t, type).t.stack = Pop(t.stack)
  BY DEF Close, Result, Skip, Tokenizers
<1> HIDE DEF e
<1>5. type \notin Starts
  BY DEF Starts, Ends
<1>6. QED
  BY <1>2, <1>3, <1>4, <1>5, ContextOpen DEF Tells

LEMMA OpenTells ==
  ASSUME NEW t \in Tokenizers, NEW type \in Starts, NEW context \in Contexts, NEW state
  PROVE  Tells(t, Open(t, type, context, state))
<1> DEFINE e == EventOf(type, <<>>, t.pos)
<1>1. Open(t, type, context, state).event = e
  BY DEF Open, Result
<1>2. e \in Events /\ e.type = type
  <2>1. <<>> \in Seq(Byte) /\ t.pos \in Nat
    BY DEF Tokenizers
  <2>2. QED
    BY <2>1, EventIs
<1>3. Open(t, type, context, state).t.stack = Append(t.stack, context)
  BY DEF Open, Result, Skip, Tokenizers
<1> HIDE DEF e
<1>4. type \notin Ends \cup Within
  BY DEF Starts, Ends, Within
<1>5. Len(Append(t.stack, context)) = Len(t.stack) + 1
  BY DEF Tokenizers
<1>6. QED
  BY <1>1, <1>2, <1>3, <1>4, <1>5 DEF Tells

LEMMA BadTells == ASSUME NEW t \in Tokenizers PROVE Tells(t, Bad(t))
<1>1. <<>> \in Seq(Byte) /\ t.pos \in Nat
  BY DEF Tokenizers
<1>2. QED
  BY <1>1, SameStackTells DEF Bad, Within

LEMMA BeginStringTells ==
  ASSUME NEW t \in Tokenizers, NEW isKey \in BOOLEAN
  PROVE  Tells(t, BeginString(t, isKey))
<1> DEFINE u == [Skip(t, "string") EXCEPT !.isKey = isKey, !.start = t.pos, !.buf = <<>>]
<1> DEFINE type == IF isKey THEN "none" ELSE "stringStart"
<1>1. BeginString(t, isKey) \in {Bad(t), Result(EventOf(type, <<>>, t.pos), u)}
  BY DEF BeginString
<1>2. u.stack = t.stack /\ <<>> \in Seq(Byte) /\ t.pos \in Nat
  BY DEF Skip, Tokenizers
<1>3. type \in {"none", "stringStart"} /\ type \notin Within
  BY DEF Within
<1> HIDE DEF u, type
<1>4. Tells(t, Result(EventOf(type, <<>>, t.pos), u))
  BY <1>2, <1>3, SameStackTells
<1>5. QED
  BY <1>1, <1>4, BadTells

LEMMA BeginValueTells ==
  ASSUME NEW t \in Tokenizers, NEW b
  PROVE  Tells(t, BeginValue(t, b))
<1> DEFINE literal == Skip(t, AfterValue(t.stack))
<1> DEFINE number == [t EXCEPT !.state = "number", !.start = t.pos, !.buf = <<>>]
<1>1. BeginValue(t, b) \in {Open(t, "startObject", "object", "keyOrEndObject"),
                            Open(t, "startArray", "array", "valueOrEndArray"),
                            BeginString(t, FALSE), Result(EventOf("literal", <<>>, t.pos), literal),
                            Result(EventOf("none", <<>>, 0), number), Bad(t)}
  BY DEF BeginValue, NoEvent, EventOf
<1>2. literal.stack = t.stack /\ number.stack = t.stack /\ <<>> \in Seq(Byte) /\ t.pos \in Nat /\ 0 \in Nat
  BY DEF Skip, Tokenizers
<1> HIDE DEF literal, number
<1>3. Tells(t, Result(EventOf("literal", <<>>, t.pos), literal))
  BY <1>2, SameStackTells DEF Within
<1>4. Tells(t, Result(EventOf("none", <<>>, 0), number))
  BY <1>2, SameStackTells DEF Within
<1>5. /\ Tells(t, Open(t, "startObject", "object", "keyOrEndObject"))
      /\ Tells(t, Open(t, "startArray", "array", "valueOrEndArray"))
  BY OpenTells DEF Starts, Contexts
<1>6. QED
  BY <1>1, <1>3, <1>4, <1>5, BeginStringTells, BadTells

LEMMA InStringTells ==
  ASSUME NEW t, Sound(t), t.state = "string", NEW b
  PROVE  Tells(t, InString(t, b))
<1> DEFINE body == [Skip(t, "string") EXCEPT !.buf = IF t.isKey THEN Append(@, b) ELSE @]
<1> DEFINE key == Skip(t, "colon")
<1> DEFINE value == Skip(t, AfterValue(t.stack))
<1> DEFINE type == IF t.isKey THEN "none" ELSE "text"
<1>1. \/ InString(t, b) \in {Bad(t), Result(EventOf(type, <<>>, t.pos), body),
                             Result(EventOf("stringEnd", <<>>, t.start), value)}
      \/ t.isKey /\ InString(t, b) = Result(EventOf("key", t.buf, t.start), key)
  BY DEF InString
<1>2. t \in Tokenizers
  BY DEF Sound
<1>3. body.stack = t.stack /\ key.stack = t.stack /\ value.stack = t.stack
  BY <1>2 DEF Skip, Tokenizers
<1>4. <<>> \in Seq(Byte) /\ t.buf \in Seq(Byte) /\ t.pos \in Nat /\ t.start \in Nat
  BY <1>2 DEF Tokenizers
<1>5. type \in {"none", "text"} /\ type \notin Within
  BY DEF Within
<1> HIDE DEF body, key, value, type
<1>6. Tells(t, Result(EventOf(type, <<>>, t.pos), body))
  BY <1>2, <1>3, <1>4, <1>5, SameStackTells
<1>7. Tells(t, Result(EventOf("stringEnd", <<>>, t.start), value))
  BY <1>2, <1>3, <1>4, SameStackTells DEF Within
<1>8. t.isKey => Tells(t, Result(EventOf("key", t.buf, t.start), key))
  <2>1. t.isKey => Context(t.stack) # "none"
    BY DEF Sound, Matches, ObjectState
  <2>2. t.isKey => Len(t.stack) > 0
    BY <1>2, <2>1, ContextOpen
  <2>3. QED
    BY <1>2, <1>3, <1>4, <2>2, SameStackTells DEF Within
<1>9. QED
  BY <1>1, <1>2, <1>6, <1>7, <1>8, BadTells

LEMMA FinishNumberTells ==
  ASSUME NEW t \in Tokenizers
  PROVE  Tells(t, FinishNumber(t)) /\ FinishNumber(t).t.pos = t.pos
<1> DEFINE u == [t EXCEPT !.state = AfterValue(t.stack), !.buf = <<>>]
<1>1. FinishNumber(t) \in {Bad(t), Result(EventOf("number", <<>>, t.start), u)}
  BY DEF FinishNumber
<1>2. u.stack = t.stack /\ u.pos = t.pos /\ <<>> \in Seq(Byte) /\ t.start \in Nat
  BY DEF Tokenizers
<1> HIDE DEF u
<1>3. Tells(t, Result(EventOf("number", <<>>, t.start), u))
  BY <1>2, SameStackTells DEF Within
<1>4. Bad(t).t.pos = t.pos /\ Result(EventOf("number", <<>>, t.start), u).t.pos = t.pos
  BY <1>2 DEF Bad, Result
<1>5. QED
  BY <1>1, <1>3, <1>4, BadTells

LEMMA InNumberTells ==
  ASSUME NEW t \in Tokenizers, NEW b
  PROVE  Tells(t, InNumber(t, b))
<1> DEFINE u == [Skip(t, "number") EXCEPT !.buf = Append(@, b)]
<1>1. InNumber(t, b) \in {FinishNumber(t), Bad(t), Result(EventOf("none", <<>>, 0), u)}
  BY DEF InNumber, NoEvent, EventOf
<1>2. u.stack = t.stack /\ <<>> \in Seq(Byte) /\ 0 \in Nat
  BY DEF Skip, Tokenizers
<1> HIDE DEF u
<1>3. Tells(t, Result(EventOf("none", <<>>, 0), u))
  BY <1>2, SameStackTells DEF Within
<1>4. QED
  BY <1>1, <1>3, FinishNumberTells, BadTells

(* Every event the tokenizer reports fits what it does to the stack. *)
LEMMA ScanTells ==
  ASSUME NEW t, Sound(t), NEW b
  PROVE  Tells(t, Scan(t, b))
<1>1. t \in Tokenizers /\ t.state \in States
  BY DEF Sound, Tokenizers
<1> DEFINE Quiet(state) == Result(EventOf("none", <<>>, 0), Skip(t, state))
<1> DEFINE Comma == Result(EventOf("memberComma", <<>>, t.pos), Skip(t, "key"))
<1>2. \A state : Tells(t, Quiet(state))
  <2>1. ASSUME NEW state PROVE Tells(t, Quiet(state))
    <3> DEFINE u == Skip(t, state)
    <3>1. u.stack = t.stack /\ <<>> \in Seq(Byte) /\ 0 \in Nat
      BY <1>1 DEF Skip, Tokenizers
    <3> HIDE DEF u
    <3>2. Tells(t, Result(EventOf("none", <<>>, 0), u))
      BY <1>1, <3>1, SameStackTells DEF Within
    <3>3. QED
      BY <3>2 DEF u
  <2>2. QED
    BY <2>1
<1>3. Context(t.stack) # "none" => Tells(t, Comma)
  <2> DEFINE u == Skip(t, "key")
  <2>1. u.stack = t.stack /\ <<>> \in Seq(Byte) /\ t.pos \in Nat
    BY <1>1 DEF Skip, Tokenizers
  <2> HIDE DEF u
  <2>2. Context(t.stack) # "none" => Tells(t, Result(EventOf("memberComma", <<>>, t.pos), u))
    BY <1>1, <2>1, ContextOpen, SameStackTells DEF Within
  <2>3. QED
    BY <2>2 DEF u
<1>4. /\ t.state \in {"valueOrEndArray", "commaOrEndArray"} => Tells(t, Close(t, "endArray"))
      /\ t.state \in {"keyOrEndObject", "commaOrEndObject"} => Tells(t, Close(t, "endObject"))
      /\ t.state = "commaOrEndObject" => Context(t.stack) # "none"
  BY <1>1, CloseTells DEF Sound, Matches, ObjectState, ArrayState, Ends
<1>5. \/ t.state = "string" /\ Scan(t, b) = InString(t, b)
      \/ Scan(t, b) \in {InNumber(t, b), Quiet(t.state), Quiet("value"), BeginValue(t, b),
                         BeginString(t, TRUE), Bad(t)}
      \/ t.state \in {"valueOrEndArray", "commaOrEndArray"} /\ Scan(t, b) = Close(t, "endArray")
      \/ t.state \in {"keyOrEndObject", "commaOrEndObject"} /\ Scan(t, b) = Close(t, "endObject")
      \/ t.state = "commaOrEndObject" /\ Scan(t, b) = Comma
  BY DEF Scan, NoEvent, EventOf
<1> HIDE DEF Quiet, Comma
<1>6. QED
  BY <1>1, <1>2, <1>3, <1>4, <1>5, InStringTells, InNumberTells, BeginValueTells, BeginStringTells, BadTells

(* Where the text stands: between the start of a member and its value, and
   inside a string that is a value. *)
BeforeValue(t) ==
  \/ t.state \in {"keyOrEndObject", "key", "colon", "value", "number"}
  \/ t.state = "string" /\ t.isKey
ValueString(t) == t.state = "string" /\ ~t.isKey

BetweenTokens(t) == ~BeforeValue(t) /\ ~ValueString(t)

(* What an event says of it: a value that starts in an object was awaited,
   and text and the end of a string come of a value that is one. *)
Follows(t, r) ==
  LET type == r.event.type
      u == r.t
  IN  /\ type \in Starts \cup {"stringStart", "literal", "number"} =>
            ~ValueString(t) /\ (Context(t.stack) = "object" => BeforeValue(t))
      /\ type = "startObject" =>
            u.stack = Append(t.stack, "object") /\ BeforeValue(u) /\ ~ValueString(u)
      /\ type = "startArray" => u.stack = Append(t.stack, "array") /\ BetweenTokens(u)
      /\ type \in Ends => ~ValueString(t) /\ u.stack = Pop(t.stack) /\ BetweenTokens(u)
      /\ type = "endArray" => Context(t.stack) = "array"
      /\ type = "key" => BeforeValue(t) /\ ~ValueString(t) /\ BeforeValue(u) /\ ~ValueString(u)
      /\ type = "memberComma" => ~ValueString(t) /\ BeforeValue(u) /\ ~ValueString(u)
      /\ type = "stringStart" => ValueString(u) /\ ~BeforeValue(u)
      /\ type = "text" => ~BeforeValue(t) /\ ValueString(t) /\ ValueString(u) /\ ~BeforeValue(u)
      /\ type = "stringEnd" => ~BeforeValue(t) /\ BetweenTokens(u)
      /\ type \in {"number", "literal"} => BetweenTokens(u)
      /\ type = "none" => /\ ValueString(u) = ValueString(t)
                          /\ Context(t.stack) = "object" => BeforeValue(u) = BeforeValue(t)

LEMMA AfterValueBetween ==
  ASSUME NEW stack \in Seq(Contexts), NEW u, u.state = AfterValue(stack)
  PROVE  BetweenTokens(u)
  BY AfterValueSound DEF BetweenTokens, BeforeValue, ValueString

LEMMA BadFollows == ASSUME NEW t PROVE Follows(t, Bad(t))
  BY DEF Bad, Result, EventOf, Follows, Starts, Ends

LEMMA CloseFollows ==
  ASSUME NEW t, Sound(t), Context(t.stack) # "none", t.state # "string", NEW type \in Ends,
         type = "endArray" => Context(t.stack) = "array"
  PROVE  Follows(t, Close(t, type))
<1>1. t \in Tokenizers /\ Pop(t.stack) \in Seq(Contexts)
  BY PopType DEF Sound, Tokenizers
<1> DEFINE u == Close(t, type).t
<1>2. u.state = AfterValue(Pop(t.stack)) /\ u.stack = Pop(t.stack)
  BY <1>1 DEF Close, Result, Skip, Tokenizers
<1>3. Close(t, type).event.type = type
  BY DEF Close, Result, EventOf
<1> HIDE DEF u
<1>4. BetweenTokens(u)
  BY <1>1, <1>2, AfterValueBetween
<1>5. ~ValueString(t)
  BY DEF ValueString
<1>6. QED
  BY <1>2, <1>3, <1>4, <1>5 DEF u, Follows, Starts, Ends

LEMMA OpenFollows ==
  ASSUME NEW t \in Tokenizers, ~ValueString(t), Context(t.stack) = "object" => BeforeValue(t)
  PROVE  /\ Follows(t, Open(t, "startObject", "object", "keyOrEndObject"))
         /\ Follows(t, Open(t, "startArray", "array", "valueOrEndArray"))
<1>1. ASSUME NEW type, NEW context, NEW state
      PROVE  LET r == Open(t, type, context, state)
             IN  r.event.type = type /\ r.t.state = state /\ r.t.stack = Append(t.stack, context)
  BY DEF Open, Result, EventOf, Skip, Tokenizers
<1>2. QED
  BY <1>1 DEF Follows, Starts, Ends, BetweenTokens, BeforeValue, ValueString

LEMMA BeginStringFollows ==
  ASSUME NEW t \in Tokenizers, NEW isKey \in BOOLEAN, ~ValueString(t),
         isKey \/ Context(t.stack) = "object" => BeforeValue(t)
  PROVE  Follows(t, BeginString(t, isKey))
<1> DEFINE u == [Skip(t, "string") EXCEPT !.isKey = isKey, !.start = t.pos, !.buf = <<>>]
<1> DEFINE type == IF isKey THEN "none" ELSE "stringStart"
<1>1. BeginString(t, isKey) \in {Bad(t), Result(EventOf(type, <<>>, t.pos), u)}
  BY DEF BeginString
<1>2. u.state = "string" /\ u.isKey = isKey
  BY DEF Skip, Tokenizers
<1> HIDE DEF u
<1>3. Follows(t, Result(EventOf(type, <<>>, t.pos), u))
  BY <1>2 DEF Follows, Result, EventOf, Starts, Ends, BetweenTokens, BeforeValue, ValueString
<1>4. QED
  BY <1>1, <1>3, BadFollows

LEMMA BeginValueFollows ==
  ASSUME NEW t \in Tokenizers, NEW b, ~ValueString(t), Context(t.stack) = "object" => BeforeValue(t)
  PROVE  Follows(t, BeginValue(t, b))
<1> DEFINE literal == Skip(t, AfterValue(t.stack))
<1> DEFINE number == [t EXCEPT !.state = "number", !.start = t.pos, !.buf = <<>>]
<1>1. BeginValue(t, b) \in {Open(t, "startObject", "object", "keyOrEndObject"),
                            Open(t, "startArray", "array", "valueOrEndArray"),
                            BeginString(t, FALSE), Result(EventOf("literal", <<>>, t.pos), literal),
                            Result(NoEvent, number), Bad(t)}
  BY DEF BeginValue
<1>2. literal.state = AfterValue(t.stack) /\ number.state = "number" /\ t.stack \in Seq(Contexts)
  BY DEF Skip, Tokenizers
<1> HIDE DEF literal, number
<1>3. BetweenTokens(literal)
  BY <1>2, AfterValueBetween
<1>4. Follows(t, Result(EventOf("literal", <<>>, t.pos), literal))
  BY <1>3 DEF Follows, Result, EventOf, Starts, Ends
<1>5. Follows(t, Result(NoEvent, number))
  BY <1>2 DEF Follows, Result, NoEvent, Starts, Ends, BeforeValue, ValueString
<1>6. QED
  BY <1>1, <1>4, <1>5, OpenFollows, BeginStringFollows, BadFollows

LEMMA InStringFollows ==
  ASSUME NEW t \in Tokenizers, t.state = "string", NEW b
  PROVE  Follows(t, InString(t, b))
<1> DEFINE body == [Skip(t, "string") EXCEPT !.buf = IF t.isKey THEN Append(@, b) ELSE @]
<1> DEFINE key == Skip(t, "colon")
<1> DEFINE value == Skip(t, AfterValue(t.stack))
<1> DEFINE type == IF t.isKey THEN "none" ELSE "text"
<1>1. \/ InString(t, b) \in {Bad(t), Result(EventOf(type, <<>>, t.pos), body)}
      \/ ~t.isKey /\ InString(t, b) = Result(EventOf("stringEnd", <<>>, t.start), value)
      \/ t.isKey /\ InString(t, b) = Result(EventOf("key", t.buf, t.start), key)
  BY DEF InString
<1>2. /\ body.state = "string" /\ body.isKey = t.isKey /\ key.state = "colon"
      /\ value.state = AfterValue(t.stack) /\ t.stack \in Seq(Contexts)
  BY DEF Skip, Tokenizers
<1> HIDE DEF body, key, value
<1>3. BetweenTokens(value)
  BY <1>2, AfterValueBetween
<1>4. Follows(t, Result(EventOf(type, <<>>, t.pos), body))
  BY <1>2 DEF Follows, Result, EventOf, Starts, Ends, BetweenTokens, BeforeValue, ValueString
<1>5. ~t.isKey => Follows(t, Result(EventOf("stringEnd", <<>>, t.start), value))
  BY <1>3 DEF Follows, Result, EventOf, Starts, Ends, BeforeValue
<1>6. t.isKey => Follows(t, Result(EventOf("key", t.buf, t.start), key))
  BY <1>2 DEF Follows, Result, EventOf, Starts, Ends, BeforeValue, ValueString
<1>7. QED
  BY <1>1, <1>4, <1>5, <1>6, BadFollows

LEMMA FinishNumberFollows ==
  ASSUME NEW t \in Tokenizers, t.state = "number"
  PROVE  Follows(t, FinishNumber(t))
<1> DEFINE u == [t EXCEPT !.state = AfterValue(t.stack), !.buf = <<>>]
<1>1. FinishNumber(t) \in {Bad(t), Result(EventOf("number", <<>>, t.start), u)}
  BY DEF FinishNumber
<1>2. u.state = AfterValue(t.stack) /\ t.stack \in Seq(Contexts)
  BY DEF Tokenizers
<1> HIDE DEF u
<1>3. BetweenTokens(u)
  BY <1>2, AfterValueBetween
<1>4. Follows(t, Result(EventOf("number", <<>>, t.start), u))
  BY <1>3 DEF Follows, Result, EventOf, Starts, Ends, BeforeValue, ValueString
<1>5. QED
  BY <1>1, <1>4, BadFollows

LEMMA InNumberFollows ==
  ASSUME NEW t \in Tokenizers, t.state = "number", NEW b
  PROVE  Follows(t, InNumber(t, b))
<1> DEFINE u == [Skip(t, "number") EXCEPT !.buf = Append(@, b)]
<1>1. InNumber(t, b) \in {FinishNumber(t), Bad(t), Result(NoEvent, u)}
  BY DEF InNumber
<1>2. u.state = "number"
  BY DEF Skip, Tokenizers
<1> HIDE DEF u
<1>3. Follows(t, Result(NoEvent, u))
  BY <1>2 DEF Follows, Result, NoEvent, Starts, Ends, BeforeValue, ValueString
<1>4. QED
  BY <1>1, <1>3, FinishNumberFollows, BadFollows

(* Every event the tokenizer reports fits where the text stands. *)
LEMMA ScanFollows ==
  ASSUME NEW t, Sound(t), NEW b
  PROVE  Follows(t, Scan(t, b))
<1>1. t \in Tokenizers /\ t.state \in States
  BY DEF Sound, Tokenizers
<1> DEFINE Quiet(state) == Result(NoEvent, Skip(t, state))
<1> DEFINE comma == Result(EventOf("memberComma", <<>>, t.pos), Skip(t, "key"))
<1>2. ASSUME NEW state PROVE Skip(t, state).state = state /\ Skip(t, state).isKey = t.isKey
  BY <1>1 DEF Skip, Tokenizers
<1>3. /\ t.state \notin {"string", "number"} => Follows(t, Quiet(t.state))
      /\ t.state \in {"colon", "commaOrEndArray"} => Follows(t, Quiet("value"))
  <2>1. t.state = "commaOrEndArray" => Context(t.stack) # "object"
    BY DEF Sound, Matches, ArrayState
  <2>2. QED
    BY <1>2, <2>1 DEF Follows, Result, NoEvent, Starts, Ends, BeforeValue, ValueString
<1>4. t.state = "commaOrEndObject" => Follows(t, comma)
  BY <1>2 DEF Follows, Result, EventOf, Starts, Ends, BeforeValue, ValueString
<1>5. /\ t.state \in {"valueOrEndArray", "commaOrEndArray"} => Follows(t, Close(t, "endArray"))
      /\ t.state \in {"keyOrEndObject", "commaOrEndObject"} => Follows(t, Close(t, "endObject"))
  BY CloseFollows DEF Sound, Matches, ObjectState, ArrayState, Ends
<1>6. t.state \in {"value", "valueOrEndArray"} => Follows(t, BeginValue(t, b))
  BY <1>1, BeginValueFollows DEF Sound, Matches, ArrayState, BeforeValue, ValueString
<1>7. t.state \in {"key", "keyOrEndObject"} => Follows(t, BeginString(t, TRUE))
  BY <1>1, BeginStringFollows DEF BeforeValue, ValueString
<1>8. \/ t.state = "string" /\ Scan(t, b) = InString(t, b)
      \/ t.state = "number" /\ Scan(t, b) = InNumber(t, b)
      \/ t.state \notin {"string", "number"} /\ Scan(t, b) = Quiet(t.state)
      \/ t.state \in {"colon", "commaOrEndArray"} /\ Scan(t, b) = Quiet("value")
      \/ t.state \in {"value", "valueOrEndArray"} /\ Scan(t, b) = BeginValue(t, b)
      \/ t.state \in {"key", "keyOrEndObject"} /\ Scan(t, b) = BeginString(t, TRUE)
      \/ t.state \in {"valueOrEndArray", "commaOrEndArray"} /\ Scan(t, b) = Close(t, "endArray")
      \/ t.state \in {"keyOrEndObject", "commaOrEndObject"} /\ Scan(t, b) = Close(t, "endObject")
      \/ t.state = "commaOrEndObject" /\ Scan(t, b) = comma
      \/ Scan(t, b) = Bad(t)
  BY DEF Scan
<1> HIDE DEF Quiet, comma
<1>9. QED
  BY <1>1, <1>3, <1>4, <1>5, <1>6, <1>7, <1>8, InStringFollows, InNumberFollows, BadFollows

-----------------------------------------------------------------------------
(* What one byte makes of the token being read when no event of it is
   reported. *)
Quietly(t, b, u) ==
  \/ t.state \notin {"string", "number"} /\ b = "w" /\ u.state = t.state /\ u.pos = t.pos + 1
  \/ t.state \in {"colon", "commaOrEndArray"} /\ u.state = "value" /\ u.pos = t.pos + 1
       /\ (t.state = "colon" => b = ":")
  \/ /\ t.state \in {"key", "keyOrEndObject"} /\ b = "Q"
     /\ u.state = "string" /\ u.isKey = TRUE /\ u.start = t.pos /\ u.pos = t.pos + 1
  \/ /\ t.state = "string" /\ t.isKey /\ b # "Q"
     /\ u.state = "string" /\ u.isKey = TRUE /\ u.start = t.start /\ u.pos = t.pos + 1
  \/ t.state \in {"value", "valueOrEndArray"} /\ u.state = "number" /\ u.start = t.pos /\ u.pos = t.pos
  \/ /\ t.state = "number" /\ b \in NumberByte
     /\ u.state = "number" /\ u.start = t.start /\ u.pos = t.pos + 1

(* A string is open exactly between its quotes, and the events of a member
   come where its separators and its key are read. *)
ReadsOn(t, b, r) ==
  LET type == r.event.type
      u == r.t
  IN  /\ u.pos = t.pos + 1 => (u.state = "string" <=> (t.state = "string" <=> b # "Q"))
      /\ u.pos # t.pos + 1 => u.pos = t.pos /\ (u.state = "string" <=> t.state = "string")
      /\ type = "startObject" => u.state = "keyOrEndObject" /\ u.pos = t.pos + 1
      /\ type = "key" => /\ t.state = "string" /\ t.isKey /\ b = "Q" /\ r.event.start = t.start
                         /\ u.state = "colon" /\ u.pos = t.pos + 1
      /\ type = "memberComma" => b = "," /\ u.state = "key" /\ u.pos = t.pos + 1
      /\ type = "none" => Quietly(t, b, u)

Spoken == {"startObject", "key", "memberComma", "none"}

LEMMA BadReadsOn == ASSUME NEW t \in Tokenizers, NEW b PROVE ReadsOn(t, b, Bad(t))
<1>1. t.pos \in Nat /\ t.pos # t.pos + 1
  BY DEF Tokenizers
<1>2. QED
  BY <1>1 DEF Bad, Result, EventOf, ReadsOn

LEMMA OpenReadsOn ==
  ASSUME NEW t \in Tokenizers, t.state # "string", NEW b, b # "Q"
  PROVE  /\ ReadsOn(t, b, Open(t, "startObject", "object", "keyOrEndObject"))
         /\ ReadsOn(t, b, Open(t, "startArray", "array", "valueOrEndArray"))
<1>1. ASSUME NEW type, NEW context, NEW state
      PROVE  LET r == Open(t, type, context, state)
             IN  r.event.type = type /\ r.t.state = state /\ r.t.pos = t.pos + 1
  BY DEF Open, Result, EventOf, Skip, Tokenizers
<1>2. t.pos \in Nat /\ "startObject" # "none" /\ "startArray" \notin Spoken
  BY DEF Tokenizers, Spoken
<1>3. ASSUME NEW r, r.t.pos = t.pos + 1, r.event.type \in {"startObject", "startArray"}, r.t.state # "string",
             r.event.type = "startObject" => r.t.state = "keyOrEndObject"
      PROVE  ReadsOn(t, b, r)
  BY <1>3 DEF ReadsOn
<1> DEFINE object == Open(t, "startObject", "object", "keyOrEndObject")
<1> DEFINE array == Open(t, "startArray", "array", "valueOrEndArray")
<1>4. /\ object.event.type = "startObject" /\ object.t.state = "keyOrEndObject" /\ object.t.pos = t.pos + 1
      /\ array.event.type = "startArray" /\ array.t.state = "valueOrEndArray" /\ array.t.pos = t.pos + 1
  BY <1>1
<1> HIDE DEF object, array
<1>5. ReadsOn(t, b, object) /\ ReadsOn(t, b, array)
  BY <1>3, <1>4
<1>6. QED
  BY <1>5 DEF object, array

LEMMA CloseReadsOn ==
  ASSUME NEW t \in Tokenizers, Context(t.stack) # "none", t.state # "string", NEW b, b # "Q",
         NEW type, type \notin Spoken
  PROVE  ReadsOn(t, b, Close(t, type))
<1>1. Pop(t.stack) \in Seq(Contexts)
  BY PopType DEF Tokenizers
<1> DEFINE u == Close(t, type).t
<1>2. u.state = AfterValue(Pop(t.stack)) /\ u.pos = t.pos + 1
  BY <1>1 DEF Close, Result, Skip, Tokenizers
<1>3. Close(t, type).event.type = type
  BY DEF Close, Result, EventOf
<1> HIDE DEF u
<1>4. u.state # "string"
  BY <1>1, <1>2, AfterValueSound
<1>5. QED
  BY <1>2, <1>3, <1>4 DEF u, ReadsOn, Spoken

LEMMA BeginStringReadsOn ==
  ASSUME NEW t \in Tokenizers, t.state # "string", NEW isKey \in BOOLEAN,
         isKey => t.state \in {"key", "keyOrEndObject"}
  PROVE  ReadsOn(t, "Q", BeginString(t, isKey))
<1> DEFINE u == [Skip(t, "string") EXCEPT !.isKey = isKey, !.start = t.pos, !.buf = <<>>]
<1> DEFINE type == IF isKey THEN "none" ELSE "stringStart"
<1>1. BeginString(t, isKey) \in {Bad(t), Result(EventOf(type, <<>>, t.pos), u)}
  BY DEF BeginString
<1>2. u.state = "string" /\ u.isKey = isKey /\ u.start = t.pos /\ u.pos = t.pos + 1
  BY DEF Skip, Tokenizers
<1> HIDE DEF u
<1>3. isKey => Quietly(t, "Q", u)
  BY <1>2 DEF Quietly
<1>4. ReadsOn(t, "Q", Result(EventOf(type, <<>>, t.pos), u))
  BY <1>2, <1>3 DEF ReadsOn, Result, EventOf
<1>5. QED
  BY <1>1, <1>4, BadReadsOn

LEMMA BeginValueReadsOn ==
  ASSUME NEW t \in Tokenizers, NEW b, t.state \in {"value", "valueOrEndArray"}
  PROVE  ReadsOn(t, b, BeginValue(t, b))
<1> DEFINE literal == Skip(t, AfterValue(t.stack))
<1> DEFINE number == [t EXCEPT !.state = "number", !.start = t.pos, !.buf = <<>>]
<1>1. \/ b = "{" /\ BeginValue(t, b) = Open(t, "startObject", "object", "keyOrEndObject")
      \/ b = "[" /\ BeginValue(t, b) = Open(t, "startArray", "array", "valueOrEndArray")
      \/ b = "Q" /\ BeginValue(t, b) = BeginString(t, FALSE)
      \/ b = "t" /\ BeginValue(t, b) = Result(EventOf("literal", <<>>, t.pos), literal)
      \/ BeginValue(t, b) = Result(NoEvent, number)
      \/ BeginValue(t, b) = Bad(t)
  BY DEF BeginValue, NumberByte
<1>2. /\ literal.state = AfterValue(t.stack) /\ literal.pos = t.pos + 1
      /\ number.state = "number" /\ number.start = t.pos /\ number.pos = t.pos
      /\ t.stack \in Seq(Contexts) /\ t.pos \in Nat /\ t.pos # t.pos + 1
  BY DEF Skip, Tokenizers
<1> HIDE DEF literal, number
<1>3. literal.state # "string"
  BY <1>2, AfterValueSound
<1>4. b = "t" => ReadsOn(t, b, Result(EventOf("literal", <<>>, t.pos), literal))
  BY <1>2, <1>3 DEF ReadsOn, Result, EventOf
<1>5. Quietly(t, b, number)
  BY <1>2 DEF Quietly
<1>6. ReadsOn(t, b, Result(NoEvent, number))
  BY <1>2, <1>5 DEF ReadsOn, Result, NoEvent
<1>7. b = "Q" => ReadsOn(t, b, BeginString(t, FALSE))
  BY BeginStringReadsOn
<1>8. b \in {"{", "["} => /\ ReadsOn(t, b, Open(t, "startObject", "object", "keyOrEndObject"))
                          /\ ReadsOn(t, b, Open(t, "startArray", "array", "valueOrEndArray"))
  BY OpenReadsOn
<1>9. QED
  BY <1>1, <1>4, <1>6, <1>7, <1>8, BadReadsOn

LEMMA InStringReadsOn ==
  ASSUME NEW t \in Tokenizers, t.state = "string", NEW b
  PROVE  ReadsOn(t, b, InString(t, b))
<1> DEFINE body == [Skip(t, "string") EXCEPT !.buf = IF t.isKey THEN Append(@, b) ELSE @]
<1> DEFINE key == Skip(t, "colon")
<1> DEFINE value == Skip(t, AfterValue(t.stack))
<1> DEFINE type == IF t.isKey THEN "none" ELSE "text"
<1>1. \/ InString(t, b) = Bad(t)
      \/ b # "Q" /\ InString(t, b) = Result(EventOf(type, <<>>, t.pos), body)
      \/ b = "Q" /\ ~t.isKey /\ InString(t, b) = Result(EventOf("stringEnd", <<>>, t.start), value)
      \/ b = "Q" /\ t.isKey /\ InString(t, b) = Result(EventOf("key", t.buf, t.start), key)
  BY DEF InString
<1>2. /\ body.state = "string" /\ body.isKey = t.isKey /\ body.start = t.start /\ body.pos = t.pos + 1
      /\ key.state = "colon" /\ key.pos = t.pos + 1
      /\ value.state = AfterValue(t.stack) /\ value.pos = t.pos + 1 /\ t.stack \in Seq(Contexts)
      /\ t.isKey \in BOOLEAN
  BY DEF Skip, Tokenizers
<1> HIDE DEF body, key, value
<1>3. value.state # "string"
  BY <1>2, AfterValueSound
<1>4. b # "Q" => ReadsOn(t, b, Result(EventOf(type, <<>>, t.pos), body))
  <2>1. b # "Q" /\ t.isKey => Quietly(t, b, body)
    BY <1>2 DEF Quietly
  <2>2. QED
    BY <1>2, <2>1 DEF ReadsOn, Result, EventOf
<1>5. b = "Q" => ReadsOn(t, b, Result(EventOf("stringEnd", <<>>, t.start), value))
  BY <1>2, <1>3 DEF ReadsOn, Result, EventOf
<1>6. b = "Q" /\ t.isKey => ReadsOn(t, b, Result(EventOf("key", t.buf, t.start), key))
  BY <1>2 DEF ReadsOn, Result, EventOf
<1>7. QED
  BY <1>1, <1>4, <1>5, <1>6, BadReadsOn

LEMMA FinishNumberReadsOn ==
  ASSUME NEW t \in Tokenizers, t.state = "number", NEW b
  PROVE  ReadsOn(t, b, FinishNumber(t))
<1> DEFINE u == [t EXCEPT !.state = AfterValue(t.stack), !.buf = <<>>]
<1>1. FinishNumber(t) \in {Bad(t), Result(EventOf("number", <<>>, t.start), u)}
  BY DEF FinishNumber
<1>2. u.state = AfterValue(t.stack) /\ u.pos = t.pos /\ t.pos # t.pos + 1 /\ t.stack \in Seq(Contexts)
  BY DEF Tokenizers
<1> HIDE DEF u
<1>3. u.state # "string"
  BY <1>2, AfterValueSound
<1>4. ReadsOn(t, b, Result(EventOf("number", <<>>, t.start), u))
  BY <1>2, <1>3 DEF ReadsOn, Result, EventOf
<1>5. QED
  BY <1>1, <1>4, BadReadsOn

LEMMA InNumberReadsOn ==
  ASSUME NEW t \in Tokenizers, t.state = "number", NEW b
  PROVE  ReadsOn(t, b, InNumber(t, b))
<1> DEFINE u == [Skip(t, "number") EXCEPT !.buf = Append(@, b)]
<1>1. \/ InNumber(t, b) \in {FinishNumber(t), Bad(t)}
      \/ b \in NumberByte /\ InNumber(t, b) = Result(NoEvent, u)
  BY DEF InNumber
<1>2. u.state = "number" /\ u.pos = t.pos + 1 /\ u.start = t.start
  BY DEF Skip, Tokenizers
<1> HIDE DEF u
<1>3. b \in NumberByte => Quietly(t, b, u) /\ b # "Q"
  BY <1>2 DEF Quietly, NumberByte
<1>4. b \in NumberByte => ReadsOn(t, b, Result(NoEvent, u))
  BY <1>2, <1>3 DEF ReadsOn, Result, NoEvent
<1>5. QED
  BY <1>1, <1>4, FinishNumberReadsOn, BadReadsOn

LEMMA ScanReadsOn ==
  ASSUME NEW t, Sound(t), NEW b
  PROVE  ReadsOn(t, b, Scan(t, b))
<1>1. t \in Tokenizers /\ t.state \in States
  BY DEF Sound, Tokenizers
<1> DEFINE Quiet(state) == Result(NoEvent, Skip(t, state))
<1> DEFINE comma == Result(EventOf("memberComma", <<>>, t.pos), Skip(t, "key"))
<1>2. ASSUME NEW state PROVE Skip(t, state).state = state /\ Skip(t, state).pos = t.pos + 1
  BY <1>1 DEF Skip, Tokenizers
<1>3. /\ t.state \notin {"string", "number"} /\ b = "w" => ReadsOn(t, b, Quiet(t.state))
      /\ t.state \in {"colon", "commaOrEndArray"} /\ b # "Q" /\ (t.state = "colon" => b = ":")
           => ReadsOn(t, b, Quiet("value"))
  <2>1. t.state \notin {"string", "number"} /\ b = "w" => Quietly(t, b, Skip(t, t.state))
    BY <1>2 DEF Quietly
  <2>2. t.state \in {"colon", "commaOrEndArray"} /\ (t.state = "colon" => b = ":")
          => Quietly(t, b, Skip(t, "value"))
    BY <1>2 DEF Quietly
  <2>3. QED
    BY <1>2, <2>1, <2>2 DEF ReadsOn, Result, NoEvent
<1>4. t.state = "commaOrEndObject" /\ b = "," => ReadsOn(t, b, comma)
  BY <1>2 DEF ReadsOn, Result, EventOf
<1>5. /\ t.state \in {"valueOrEndArray", "commaOrEndArray"} /\ b = "]" => ReadsOn(t, b, Close(t, "endArray"))
      /\ t.state \in {"keyOrEndObject", "commaOrEndObject"} /\ b = "}" => ReadsOn(t, b, Close(t, "endObject"))
  BY <1>1, CloseReadsOn DEF Sound, Matches, ObjectState, ArrayState, Spoken
<1>6. t.state \in {"value", "valueOrEndArray"} => ReadsOn(t, b, BeginValue(t, b))
  BY <1>1, BeginValueReadsOn
<1>7. t.state \in {"key", "keyOrEndObject"} /\ b = "Q" => ReadsOn(t, b, BeginString(t, TRUE))
  BY <1>1, BeginStringReadsOn
<1>8. CASE t.state \in {"string", "number"}
  BY <1>1, <1>8, InStringReadsOn, InNumberReadsOn DEF Scan
<1>9. CASE t.state \notin {"string", "number"} /\ b = "w"
  <2>1. Scan(t, b) = Quiet(t.state)
    BY <1>9 DEF Scan
  <2>2. QED
    BY <1>3, <1>9, <2>1
<1>10. CASE t.state \notin {"string", "number"} /\ b # "w"
  <2>1. CASE t.state = "value" \/ (t.state = "valueOrEndArray" /\ b # "]")
    <3>1. Scan(t, b) = BeginValue(t, b)
      BY <1>10, <2>1 DEF Scan
    <3>2. QED
      BY <1>6, <2>1, <3>1
  <2>2. CASE \/ t.state \in {"valueOrEndArray", "commaOrEndArray"} /\ b = "]"
             \/ t.state \in {"keyOrEndObject", "commaOrEndObject"} /\ b = "}"
    <3>1. /\ t.state \in {"valueOrEndArray", "commaOrEndArray"} => Scan(t, b) = Close(t, "endArray")
          /\ t.state \in {"keyOrEndObject", "commaOrEndObject"} => Scan(t, b) = Close(t, "endObject")
      BY <1>10, <2>2 DEF Scan
    <3>2. QED
      BY <1>5, <2>2, <3>1
  <2>3. CASE t.state \in {"key", "keyOrEndObject"} /\ b = "Q"
    <3>1. Scan(t, b) = BeginString(t, TRUE)
      BY <2>3 DEF Scan
    <3>2. QED
      BY <1>7, <2>3, <3>1
  <2>4. CASE (t.state = "colon" /\ b = ":") \/ (t.state = "commaOrEndArray" /\ b = ",")
    <3>1. Scan(t, b) = Quiet("value")
      BY <2>4 DEF Scan
    <3>2. QED
      BY <1>3, <2>4, <3>1
  <2>5. CASE t.state = "commaOrEndObject" /\ b = ","
    <3>1. Scan(t, b) = comma
      BY <2>5 DEF Scan
    <3>2. QED
      BY <1>4, <2>5, <3>1
  <2>6. CASE /\ t.state \notin {"value", "valueOrEndArray"}
             /\ t.state = "commaOrEndArray" => b \notin {",", "]"}
             /\ t.state = "keyOrEndObject" => b \notin {"Q", "}"}
             /\ t.state = "key" => b # "Q"
             /\ t.state = "colon" => b # ":"
             /\ t.state = "commaOrEndObject" => b \notin {",", "}"}
    <3>1. Scan(t, b) = Bad(t)
      BY <1>10, <2>6 DEF Scan
    <3>2. QED
      BY <1>1, <3>1, BadReadsOn
  <2>7. QED
    BY <2>1, <2>2, <2>3, <2>4, <2>5, <2>6
<1>11. QED
  BY <1>8, <1>9, <1>10

(* The byte an event is read from, and where a value may start: a container
   opens and closes at its own bracket and no other byte is one. *)
Brackets == {"{", "[", "}", "]"}
FirstBytes == {"startObject", "startArray", "stringStart", "literal"}

Spells(t, b, r) ==
  LET type == r.event.type
      u == r.t
  IN  /\ type = "startObject" => b = "{"
      /\ type = "startArray" => b = "["
      /\ type = "endObject" => b = "}"
      /\ type = "endArray" => b = "]"
      /\ type \in Starts \cup Ends => t.state # "string" /\ u.pos = t.pos + 1
      /\ type \in FirstBytes => t.state \in {"value", "valueOrEndArray"} /\ u.pos = t.pos + 1
      /\ type = "number" => t.state = "number" /\ u.pos = t.pos
      /\ type = "memberComma" => t.state = "commaOrEndObject"
      /\ type \notin Starts \cup Ends => b \notin Brackets \/ t.state = "string" \/ u.pos = t.pos

LEMMA BadSpells == ASSUME NEW t, NEW b PROVE Spells(t, b, Bad(t))
  BY DEF Bad, Result, EventOf, Spells, Starts, Ends, FirstBytes

LEMMA OpenSpells ==
  ASSUME NEW t \in Tokenizers, t.state \in {"value", "valueOrEndArray"}, NEW b
  PROVE  /\ b = "{" => Spells(t, b, Open(t, "startObject", "object", "keyOrEndObject"))
         /\ b = "[" => Spells(t, b, Open(t, "startArray", "array", "valueOrEndArray"))
<1>1. ASSUME NEW type, NEW context, NEW state
      PROVE  LET r == Open(t, type, context, state) IN r.event.type = type /\ r.t.pos = t.pos + 1
  BY DEF Open, Result, EventOf, Skip, Tokenizers
<1>2. ASSUME NEW r, r.t.pos = t.pos + 1,
             (r.event.type = "startObject" /\ b = "{") \/ (r.event.type = "startArray" /\ b = "[")
      PROVE  Spells(t, b, r)
  BY <1>2 DEF Spells, Starts, Ends, FirstBytes
<1> DEFINE object == Open(t, "startObject", "object", "keyOrEndObject")
<1> DEFINE array == Open(t, "startArray", "array", "valueOrEndArray")
<1>3. /\ object.event.type = "startObject" /\ object.t.pos = t.pos + 1
      /\ array.event.type = "startArray" /\ array.t.pos = t.pos + 1
  BY <1>1
<1> HIDE DEF object, array
<1>4. (b = "{" => Spells(t, b, object)) /\ (b = "[" => Spells(t, b, array))
  BY <1>2, <1>3
<1>5. QED
  BY <1>4 DEF object, array

LEMMA CloseSpells ==
  ASSUME NEW t \in Tokenizers, t.state # "string", NEW b,
         NEW type, (type = "endObject" /\ b = "}") \/ (type = "endArray" /\ b = "]")
  PROVE  Spells(t, b, Close(t, type))
<1> DEFINE r == Close(t, type)
<1>2. r.t.pos = t.pos + 1 /\ r.event.type = type
  BY DEF Close, Result, EventOf, Skip, Tokenizers
<1> HIDE DEF r
<1>3. Spells(t, b, r)
  BY <1>2 DEF Spells, Starts, Ends, FirstBytes
<1>4. QED
  BY <1>3 DEF r

LEMMA BeginStringSpells ==
  ASSUME NEW t \in Tokenizers, NEW isKey \in BOOLEAN,
         isKey \/ t.state \in {"value", "valueOrEndArray"}
  PROVE  Spells(t, "Q", BeginString(t, isKey))
<1> DEFINE u == [Skip(t, "string") EXCEPT !.isKey = isKey, !.start = t.pos, !.buf = <<>>]
<1> DEFINE type == IF isKey THEN "none" ELSE "stringStart"
<1> DEFINE r == Result(EventOf(type, <<>>, t.pos), u)
<1>1. BeginString(t, isKey) \in {Bad(t), r}
  BY DEF BeginString
<1>2. r.event.type = type /\ r.t = u /\ u.pos = t.pos + 1
  BY DEF Result, EventOf, Skip, Tokenizers
<1> HIDE DEF u, r
<1>3. Spells(t, "Q", r)
  BY <1>2 DEF Spells, Starts, Ends, FirstBytes, Brackets
<1>4. QED
  BY <1>1, <1>3, BadSpells

LEMMA BeginValueSpells ==
  ASSUME NEW t \in Tokenizers, NEW b, t.state \in {"value", "valueOrEndArray"}
  PROVE  Spells(t, b, BeginValue(t, b))
<1> DEFINE u == Skip(t, AfterValue(t.stack))
<1> DEFINE v == [t EXCEPT !.state = "number", !.start = t.pos, !.buf = <<>>]
<1> DEFINE literal == Result(EventOf("literal", <<>>, t.pos), u)
<1> DEFINE number == Result(NoEvent, v)
<1>1. \/ b = "{" /\ BeginValue(t, b) = Open(t, "startObject", "object", "keyOrEndObject")
      \/ b = "[" /\ BeginValue(t, b) = Open(t, "startArray", "array", "valueOrEndArray")
      \/ b = "Q" /\ BeginValue(t, b) = BeginString(t, FALSE)
      \/ b = "t" /\ BeginValue(t, b) = literal
      \/ BeginValue(t, b) = number
      \/ BeginValue(t, b) = Bad(t)
  BY DEF BeginValue, NumberByte
<1>2. /\ literal.event.type = "literal" /\ literal.t = u /\ u.pos = t.pos + 1
      /\ number.event.type = "none" /\ number.t = v /\ v.pos = t.pos
  BY DEF Result, EventOf, NoEvent, Skip, Tokenizers
<1> HIDE DEF u, v, literal, number
<1>3. b = "t" => Spells(t, b, literal)
  BY <1>2 DEF Spells, Starts, Ends, FirstBytes, Brackets
<1>4. Spells(t, b, number)
  BY <1>2 DEF Spells, Starts, Ends, FirstBytes
<1>5. b = "Q" => Spells(t, b, BeginString(t, FALSE))
  BY BeginStringSpells
<1>6. QED
  BY <1>1, <1>3, <1>4, <1>5, BadSpells, OpenSpells

LEMMA InStringSpells ==
  ASSUME NEW t \in Tokenizers, t.state = "string", NEW b
  PROVE  Spells(t, b, InString(t, b))
<1>1. InString(t, b).event.type \in {"error", "none", "text", "stringEnd", "key"}
  BY DEF InString, Bad, Result, EventOf
<1>2. QED
  BY <1>1 DEF Spells, Starts, Ends, FirstBytes

LEMMA FinishNumberSpells ==
  ASSUME NEW t \in Tokenizers, t.state = "number", NEW b
  PROVE  Spells(t, b, FinishNumber(t))
<1> DEFINE u == [t EXCEPT !.state = AfterValue(t.stack), !.buf = <<>>]
<1> DEFINE r == Result(EventOf("number", <<>>, t.start), u)
<1>1. FinishNumber(t) \in {Bad(t), r}
  BY DEF FinishNumber
<1>2. r.event.type = "number" /\ r.t = u /\ u.pos = t.pos
  BY DEF Result, EventOf, Tokenizers
<1> HIDE DEF u, r
<1>3. Spells(t, b, r)
  BY <1>2 DEF Spells, Starts, Ends, FirstBytes
<1>4. QED
  BY <1>1, <1>3, BadSpells

LEMMA InNumberSpells ==
  ASSUME NEW t \in Tokenizers, t.state = "number", NEW b
  PROVE  Spells(t, b, InNumber(t, b))
<1> DEFINE u == [Skip(t, "number") EXCEPT !.buf = Append(@, b)]
<1>1. \/ InNumber(t, b) \in {FinishNumber(t), Bad(t)}
      \/ b \in NumberByte /\ InNumber(t, b) = Result(NoEvent, u)
  BY DEF InNumber
<1> HIDE DEF u
<1>2. b \in NumberByte => Spells(t, b, Result(NoEvent, u))
  BY DEF Spells, Starts, Ends, FirstBytes, Brackets, NumberByte, Result, NoEvent
<1>3. QED
  BY <1>1, <1>2, FinishNumberSpells, BadSpells

LEMMA ScanSpells ==
  ASSUME NEW t, Sound(t), NEW b
  PROVE  Spells(t, b, Scan(t, b))
<1>1. t \in Tokenizers /\ t.state \in States
  BY DEF Sound, Tokenizers
<1>2. ASSUME NEW u, b \notin Brackets PROVE Spells(t, b, Result(NoEvent, u))
  BY <1>2 DEF Spells, Starts, Ends, FirstBytes, Result, NoEvent
<1> DEFINE comma == Result(EventOf("memberComma", <<>>, t.pos), Skip(t, "key"))
<1>3. t.state = "commaOrEndObject" /\ b = "," => Spells(t, b, comma)
  BY DEF Spells, Starts, Ends, FirstBytes, Brackets, Result, EventOf
<1>4. CASE t.state \in {"string", "number"}
  BY <1>1, <1>4, InStringSpells, InNumberSpells DEF Scan
<1>5. CASE t.state \notin {"string", "number"} /\ b = "w"
  <2>1. Scan(t, b) = Result(NoEvent, Skip(t, t.state)) /\ b \notin Brackets
    BY <1>5 DEF Scan, Brackets
  <2>2. QED
    BY <1>2, <2>1
<1>6. CASE t.state \notin {"string", "number"} /\ b # "w"
  <2>1. CASE t.state = "value" \/ (t.state = "valueOrEndArray" /\ b # "]")
    <3>1. Scan(t, b) = BeginValue(t, b)
      BY <1>6, <2>1 DEF Scan
    <3>2. QED
      BY <1>1, <2>1, <3>1, BeginValueSpells
  <2>2. CASE t.state \in {"valueOrEndArray", "commaOrEndArray"} /\ b = "]"
    <3>1. Scan(t, b) = Close(t, "endArray")
      BY <1>6, <2>2 DEF Scan
    <3>2. QED
      BY <1>1, <1>6, <2>2, <3>1, CloseSpells
  <2>3. CASE t.state \in {"keyOrEndObject", "commaOrEndObject"} /\ b = "}"
    <3>1. Scan(t, b) = Close(t, "endObject")
      BY <1>6, <2>3 DEF Scan
    <3>2. QED
      BY <1>1, <1>6, <2>3, <3>1, CloseSpells
  <2>4. CASE t.state \in {"key", "keyOrEndObject"} /\ b = "Q"
    <3>1. Scan(t, b) = BeginString(t, TRUE)
      BY <2>4 DEF Scan
    <3>2. QED
      BY <1>1, <2>4, <3>1, BeginStringSpells
  <2>5. CASE (t.state = "colon" /\ b = ":") \/ (t.state = "commaOrEndArray" /\ b = ",")
    <3>1. Scan(t, b) = Result(NoEvent, Skip(t, "value")) /\ b \notin Brackets
      BY <2>5 DEF Scan, Brackets
    <3>2. QED
      BY <1>2, <3>1
  <2>6. CASE t.state = "commaOrEndObject" /\ b = ","
    <3>1. Scan(t, b) = comma
      BY <2>6 DEF Scan
    <3>2. QED
      BY <1>3, <2>6, <3>1
  <2>7. CASE /\ t.state \notin {"value", "valueOrEndArray"}
             /\ t.state = "commaOrEndArray" => b \notin {",", "]"}
             /\ t.state = "keyOrEndObject" => b \notin {"Q", "}"}
             /\ t.state = "key" => b # "Q"
             /\ t.state = "colon" => b # ":"
             /\ t.state = "commaOrEndObject" => b \notin {",", "}"}
    <3>1. Scan(t, b) = Bad(t)
      BY <1>6, <2>7 DEF Scan
    <3>2. QED
      BY <3>1, BadSpells
  <2>8. QED
    BY <2>1, <2>2, <2>3, <2>4, <2>5, <2>6, <2>7
<1>7. QED
  BY <1>4, <1>5, <1>6

-----------------------------------------------------------------------------
(* Types. *)

FrameType == [kind : Contexts, hooks : BOOLEAN, prefix : Nat, comma : BOOLEAN, keyStart : Nat,
              keyEnd : Nat, key : Seq(Byte), count : Nat, kept : SUBSET Seq(Byte),
              renamed : SUBSET Seq(Byte), edited : BOOLEAN]

DiscardType == [start : Nat, depth : Nat, keyStart : Nat, valueEnd : Nat, nest : Int]

LimitType == [kind : {"none", "prefix", "drop"}, at : Int]

EditType == [start : Nat, end : Nat, bytes : {"none", "R", "A", ",A"}]

Spines == [tok : Tokenizers, frames : Seq(FrameType), opaque : Nat, discard : DiscardType,
           limit : LimitType, edits : SUBSET EditType, violations : Nat, deferred : BOOLEAN,
           thrown : {"none", "budget", "fatal"}, disposed : BOOLEAN]

AnswerType == [decision : Decisions, opaque : BOOLEAN, fails : BOOLEAN, scoped : BOOLEAN,
               appends : BOOLEAN, destroys : BOOLEAN]

LEMMA Numbers == Infinity \in Nat /\ MaxErrors \in Nat \ {0} /\ MaxPrefix \in Nat /\ MaxDrop \in Nat
  BY MemberEditsAssumption

(* What the handlers are built from. *)
LEMMA SetFields ==
  ASSUME NEW s \in Spines
  PROVE  /\ \A x \in Tokenizers : [s EXCEPT !.tok = x] \in Spines
         /\ \A x \in Seq(FrameType) : [s EXCEPT !.frames = x] \in Spines
         /\ \A x \in Nat : [s EXCEPT !.opaque = x] \in Spines
         /\ \A x \in DiscardType : [s EXCEPT !.discard = x] \in Spines
         /\ \A x \in LimitType : [s EXCEPT !.limit = x] \in Spines
         /\ \A x \in SUBSET EditType : [s EXCEPT !.edits = x] \in Spines
         /\ \A x \in Nat : [s EXCEPT !.violations = x] \in Spines
         /\ \A x \in BOOLEAN : [s EXCEPT !.deferred = x] \in Spines
         /\ \A x \in {"none", "budget", "fatal"} : [s EXCEPT !.thrown = x] \in Spines
  BY DEF Spines

LEMMA TopType ==
  ASSUME NEW s \in Spines, s.frames # <<>>
  PROVE  /\ Top(s) \in FrameType /\ Len(s.frames) \in Nat \ {0}
         /\ \A f \in FrameType : /\ SetTop(s, f) \in Spines
                                 /\ SetTop(s, f) = [s EXCEPT !.frames = [@ EXCEPT ![Len(@)] = f]]
<1>1. s.frames \in Seq(FrameType)
  BY DEF Spines
<1>2. Len(s.frames) \in Nat \ {0} /\ s.frames[Len(s.frames)] \in FrameType
  BY <1>1
<1>3. ASSUME NEW f \in FrameType PROVE [s.frames EXCEPT ![Len(s.frames)] = f] \in Seq(FrameType)
  BY <1>1
<1>4. ASSUME NEW f \in FrameType
      PROVE  SetTop(s, f) = [s EXCEPT !.frames = [@ EXCEPT ![Len(@)] = f]]
  BY DEF SetTop
<1>5. ASSUME NEW f \in FrameType PROVE SetTop(s, f) \in Spines
  <2> DEFINE x == [s.frames EXCEPT ![Len(s.frames)] = f]
  <2>1. x \in Seq(FrameType)
    BY <1>3
  <2>2. SetTop(s, f) = [s EXCEPT !.frames = x]
    BY <1>4
  <2> HIDE DEF x
  <2>3. QED
    BY <2>1, <2>2, SetFields
<1>6. QED
  BY <1>2, <1>4, <1>5 DEF Top

LEMMA DisposeType ==
  ASSUME NEW s \in Spines
  PROVE  /\ Dispose(s) \in Spines /\ Dispose(s).disposed
         /\ Dispose(s).tok.pos = s.tok.pos /\ Dispose(s).violations = s.violations
         /\ Dispose(s).thrown = s.thrown /\ Dispose(s).edits = s.edits
         /\ Dispose(s).frames = <<>> /\ Dispose(s).discard = NoDiscard
         /\ Dispose(s).deferred = s.deferred
<1>1. <<>> \in Seq(FrameType) /\ <<>> \in Seq(Contexts) /\ <<>> \in Seq(Byte)
  OBVIOUS
<1>2. NoDiscard \in DiscardType
  BY Numbers DEF NoDiscard, DiscardType
<1> DEFINE tok == [[s.tok EXCEPT !.stack = <<>>] EXCEPT !.buf = <<>>]
<1>3. tok \in Tokenizers /\ tok.pos = s.tok.pos
  BY <1>1 DEF Spines, Tokenizers
<1> DEFINE r == [[[[s EXCEPT !.frames = <<>>] EXCEPT !.opaque = 0] EXCEPT !.discard = NoDiscard]
                    EXCEPT !.disposed = TRUE]
<1>4. /\ r \in Spines /\ r.disposed /\ r.tok = s.tok /\ r.violations = s.violations
      /\ r.thrown = s.thrown /\ r.edits = s.edits /\ r.frames = <<>> /\ r.discard = NoDiscard
      /\ r.deferred = s.deferred
  BY <1>1, <1>2 DEF Spines
<1>5. Dispose(s) = [[r EXCEPT !.tok.stack = <<>>] EXCEPT !.tok.buf = <<>>]
  BY DEF Dispose
<1> HIDE DEF r
<1>6. Dispose(s) = [r EXCEPT !.tok = tok]
  BY <1>4, <1>5 DEF Spines, Tokenizers
<1> HIDE DEF tok
<1>7. Dispose(s) \in Spines
  BY <1>3, <1>4, <1>6, SetFields
<1>8. /\ Dispose(s).tok = tok
      /\ \A x \in {"frames", "opaque", "discard", "disposed", "violations", "thrown", "edits",
                   "deferred"} :
           Dispose(s)[x] = r[x]
  BY <1>4, <1>6 DEF Spines
<1>9. QED
  BY <1>3, <1>4, <1>7, <1>8

-----------------------------------------------------------------------------
(* What every handler keeps: it does not read on, forgets no failure, revives
   nothing, and throws for the budget only when something failed; and it
   opens or closes as many containers as its event.  Of a spine without hooks
   none edits. *)
Counted(s) == s.deferred \/ s.thrown = "budget" => s.violations > 0

Moves(s, t, d, e) ==
  /\ t \in Spines
  /\ t.tok.pos = s.tok.pos /\ (t.disposed \/ t.tok = s.tok)
  /\ t.violations >= s.violations
  /\ s.disposed => t.disposed
  /\ Threw(s) => Threw(t)
  /\ Counted(s) => Counted(t)
  /\ t.disposed \/ Threw(t)
       \/ (Len(t.frames) = Len(s.frames) + d /\ t.opaque = s.opaque + e)

Onward(s, t) == Moves(s, t, 0, 0)

Plain(s) == s.edits = {} /\ s.discard = NoDiscard /\ \A i \in DOMAIN s.frames : ~s.frames[i].hooks

Unedited(u) == ~u.scoped /\ ~u.appends

LEMMA SpineType ==
  ASSUME NEW s \in Spines
  PROVE  /\ s.tok \in Tokenizers /\ s.tok.pos \in Nat
         /\ s.frames \in Seq(FrameType) /\ Len(s.frames) \in Nat /\ s.opaque \in Nat
         /\ s.violations \in Nat /\ s.deferred \in BOOLEAN /\ s.disposed \in BOOLEAN
         /\ s.thrown \in {"none", "budget", "fatal"}
         /\ s.discard \in DiscardType /\ s.limit \in LimitType /\ s.edits \in SUBSET EditType
  BY DEF Spines, Tokenizers

LEMMA MovesThen ==
  ASSUME NEW s \in Spines, NEW t, NEW r, Onward(s, t), NEW d \in Int, NEW e \in Int, Moves(t, r, d, e)
  PROVE  Moves(s, r, d, e)
<1>1. t \in Spines /\ r \in Spines
  BY DEF Moves, Onward
<1>2. /\ Len(s.frames) \in Nat /\ Len(t.frames) \in Nat /\ s.opaque \in Nat /\ t.opaque \in Nat
      /\ s.violations \in Nat /\ t.violations \in Nat /\ r.violations \in Nat
  BY <1>1, SpineType
<1>3. r.disposed \/ Threw(r)
        \/ (Len(r.frames) = Len(s.frames) + d /\ r.opaque = s.opaque + e)
  BY <1>2 DEF Moves, Onward
<1>4. QED
  BY <1>1, <1>2, <1>3 DEF Moves, Onward

LEMMA OnwardSame == ASSUME NEW s \in Spines PROVE Onward(s, s)
  BY SpineType DEF Onward, Moves

LEMMA OnwardThen ==
  ASSUME NEW s \in Spines, NEW t, NEW r, Onward(s, t), Onward(t, r) PROVE Onward(s, r)
<1>1. 0 \in Int
  OBVIOUS
<1>2. Moves(s, r, 0, 0)
  BY <1>1, MovesThen, Zenon DEF Onward
<1>3. QED
  BY <1>2 DEF Onward

LEMMA MovesOn ==
  ASSUME NEW s \in Spines, NEW t, NEW r, NEW d \in Int, NEW e \in Int, Moves(s, t, d, e), Onward(t, r)
  PROVE  Moves(s, r, d, e)
<1>1. t \in Spines /\ r \in Spines
  BY DEF Moves, Onward
<1>2. /\ Len(s.frames) \in Nat /\ Len(t.frames) \in Nat /\ Len(r.frames) \in Nat
      /\ s.opaque \in Nat /\ t.opaque \in Nat /\ r.opaque \in Nat
      /\ s.violations \in Nat /\ t.violations \in Nat /\ r.violations \in Nat
  BY <1>1, SpineType
<1>3. r.disposed \/ Threw(r)
        \/ (Len(r.frames) = Len(s.frames) + d /\ r.opaque = s.opaque + e)
  BY <1>2 DEF Moves, Onward
<1>4. QED
  BY <1>1, <1>2, <1>3 DEF Moves, Onward

(* Nobody counts the containers of a spine that threw or is disposed. *)
LEMMA OverMoves ==
  ASSUME NEW s \in Spines, NEW t, NEW d, NEW e, Moves(s, t, d, e), Threw(t) \/ t.disposed,
         NEW d2, NEW e2
  PROVE  Moves(s, t, d2, e2)
  BY DEF Moves

LEMMA OnwardIf ==
  ASSUME NEW s \in Spines, NEW t \in Spines, t.tok = s.tok, t.violations >= s.violations,
         t.disposed = s.disposed, t.thrown = s.thrown \/ Threw(t),
         t.violations > 0 \/ (t.thrown \in {s.thrown, "fatal"} /\ t.deferred = s.deferred),
         NEW d \in Int, NEW e \in Int,
         Threw(t) \/ (Len(t.frames) = Len(s.frames) + d /\ t.opaque = s.opaque + e)
  PROVE  Moves(s, t, d, e)
<1>1. t.violations \in Nat /\ s.violations \in Nat
  BY SpineType
<1>2. Counted(s) => Counted(t)
  BY <1>1 DEF Counted
<1>3. QED
  BY <1>2 DEF Moves, Threw

(* One field set. *)
Fields == {"tok", "frames", "opaque", "discard", "limit", "edits", "violations", "deferred",
           "thrown", "disposed"}

LEMMA SetReads ==
  ASSUME NEW s \in Spines, NEW f \in Fields, NEW x
  PROVE  /\ [s EXCEPT ![f] = x][f] = x
         /\ \A g \in Fields \ {f} : [s EXCEPT ![f] = x][g] = s[g]
<1>1. DOMAIN s = Fields
  BY DEF Spines, Fields
<1>2. QED
  BY <1>1

LEMMA SetMoves ==
  ASSUME NEW s \in Spines
  PROVE  /\ \A x \in Seq(FrameType) : \A d \in Int :
              Len(x) = Len(s.frames) + d => Moves(s, [s EXCEPT !.frames = x], d, 0)
         /\ \A x \in Nat : \A d \in Int : x = s.opaque + d => Moves(s, [s EXCEPT !.opaque = x], 0, d)
         /\ \A x \in DiscardType : Onward(s, [s EXCEPT !.discard = x])
         /\ \A x \in LimitType : Onward(s, [s EXCEPT !.limit = x])
         /\ \A x \in SUBSET EditType : Onward(s, [s EXCEPT !.edits = x])
         /\ s.violations > 0 => Onward(s, [s EXCEPT !.deferred = TRUE])
         /\ \A x \in {"fatal", "budget"} : (x = "budget" => s.violations > 0) => Onward(s, Throw(s, x))
         /\ Onward(s, [s EXCEPT !.violations = @ + 1])
<1>1. /\ s.violations \in Nat /\ s.violations + 1 \in Nat /\ s.violations >= s.violations
      /\ Len(s.frames) \in Nat /\ s.opaque \in Nat
  BY SpineType
<1>2. ASSUME NEW x \in Seq(FrameType), NEW d \in Int, Len(x) = Len(s.frames) + d
      PROVE  Moves(s, [s EXCEPT !.frames = x], d, 0)
  <2> DEFINE t == [s EXCEPT !.frames = x]
  <2>1. t \in Spines
    BY SetFields
  <2>2. /\ t.frames = x /\ t.opaque = s.opaque /\ t.tok = s.tok /\ t.violations = s.violations
        /\ t.disposed = s.disposed /\ t.thrown = s.thrown /\ t.deferred = s.deferred
    BY SetReads DEF Fields
  <2> HIDE DEF t
  <2>3. Len(t.frames) = Len(s.frames) + d /\ t.opaque = s.opaque + 0
    BY <1>1, <1>2, <2>2
  <2>4. Moves(s, t, d, 0)
    BY <1>1, <2>1, <2>2, <2>3, OnwardIf
  <2>5. QED
    BY <2>4 DEF t
<1>3. ASSUME NEW x \in Nat, NEW d \in Int, x = s.opaque + d
      PROVE  Moves(s, [s EXCEPT !.opaque = x], 0, d)
  <2> DEFINE t == [s EXCEPT !.opaque = x]
  <2>1. t \in Spines
    BY SetFields
  <2>2. /\ t.opaque = x /\ t.frames = s.frames /\ t.tok = s.tok /\ t.violations = s.violations
        /\ t.disposed = s.disposed /\ t.thrown = s.thrown /\ t.deferred = s.deferred
    BY SetReads DEF Fields
  <2> HIDE DEF t
  <2>3. Len(t.frames) = Len(s.frames) + 0 /\ t.opaque = s.opaque + d
    BY <1>1, <1>3, <2>2
  <2>4. Moves(s, t, 0, d)
    BY <1>1, <2>1, <2>2, <2>3, OnwardIf
  <2>5. QED
    BY <2>4 DEF t
<1>4. ASSUME NEW f \in {"discard", "limit", "edits"}, NEW x, [s EXCEPT ![f] = x] \in Spines
      PROVE  Onward(s, [s EXCEPT ![f] = x])
  <2> DEFINE t == [s EXCEPT ![f] = x]
  <2>1. /\ t.opaque = s.opaque /\ t.frames = s.frames /\ t.tok = s.tok /\ t.violations = s.violations
        /\ t.disposed = s.disposed /\ t.thrown = s.thrown /\ t.deferred = s.deferred
    BY SetReads DEF Fields
  <2>2. t \in Spines
    BY <1>4
  <2> HIDE DEF t
  <2>3. Len(t.frames) = Len(s.frames) + 0 /\ t.opaque = s.opaque + 0
    BY <1>1, <2>1 DEF Threw
  <2>4. Moves(s, t, 0, 0)
    BY <1>1, <2>1, <2>2, <2>3, OnwardIf
  <2>5. QED
    BY <2>4 DEF t, Onward
<1>5. ASSUME s.violations > 0 PROVE Onward(s, [s EXCEPT !.deferred = TRUE])
  <2> DEFINE t == [s EXCEPT !.deferred = TRUE]
  <2>1. t \in Spines
    BY SetFields
  <2>2. /\ t.opaque = s.opaque /\ t.frames = s.frames /\ t.tok = s.tok /\ t.violations = s.violations
        /\ t.disposed = s.disposed /\ t.thrown = s.thrown
    BY SetReads DEF Fields
  <2> HIDE DEF t
  <2>3. Len(t.frames) = Len(s.frames) + 0 /\ t.opaque = s.opaque + 0
    BY <1>1, <2>2 DEF Threw
  <2>4. Moves(s, t, 0, 0)
    BY <1>1, <1>5, <2>1, <2>2, <2>3, OnwardIf
  <2>5. QED
    BY <2>4 DEF t, Onward
<1>6. ASSUME NEW x \in {"fatal", "budget"}, x = "budget" => s.violations > 0
      PROVE  Onward(s, Throw(s, x))
  <2> DEFINE t == [s EXCEPT !.thrown = x]
  <2>1. t \in Spines
    BY SetFields
  <2>2. /\ t.opaque = s.opaque /\ t.frames = s.frames /\ t.tok = s.tok /\ t.violations = s.violations
        /\ t.disposed = s.disposed /\ t.deferred = s.deferred /\ t.thrown = x
    BY SetReads DEF Fields
  <2>3. t = Throw(s, x)
    BY DEF Throw
  <2> HIDE DEF t
  <2>4. Len(t.frames) = Len(s.frames) + 0 /\ t.opaque = s.opaque + 0 /\ Threw(t)
    BY <1>1, <2>2 DEF Threw
  <2>5. QED
    BY <1>1, <1>6, <2>1, <2>2, <2>3, <2>4, OnwardIf DEF Onward
<1>7. Onward(s, [s EXCEPT !.violations = @ + 1])
  <2> DEFINE t == [s EXCEPT !.violations = s.violations + 1]
  <2>1. t \in Spines
    BY <1>1, SetFields
  <2>2. /\ t.opaque = s.opaque /\ t.frames = s.frames /\ t.tok = s.tok
        /\ t.violations = s.violations + 1
        /\ t.disposed = s.disposed /\ t.deferred = s.deferred /\ t.thrown = s.thrown
    BY SetReads DEF Fields
  <2>3. t = [s EXCEPT !.violations = @ + 1]
    OBVIOUS
  <2> HIDE DEF t
  <2>4. Len(t.frames) = Len(s.frames) + 0 /\ t.opaque = s.opaque + 0 /\ t.violations > 0 /\ t.violations >= s.violations
    BY <1>1, <2>2 DEF Threw
  <2>5. t.thrown = s.thrown \/ Threw(t)
    BY <2>2
  <2>6. Moves(s, t, 0, 0)
    BY <1>1, <2>1, <2>2, <2>4, <2>5, OnwardIf
  <2>7. QED
    BY <2>3, <2>6 DEF Onward
<1>8. /\ \A x \in DiscardType : Onward(s, [s EXCEPT !.discard = x])
      /\ \A x \in LimitType : Onward(s, [s EXCEPT !.limit = x])
      /\ \A x \in SUBSET EditType : Onward(s, [s EXCEPT !.edits = x])
  BY <1>4, SetFields
<1>9. QED
  BY <1>2, <1>3, <1>5, <1>6, <1>7, <1>8

LEMMA SetPlain ==
  ASSUME NEW s \in Spines, Plain(s)
  PROVE  /\ \A f \in Fields \ {"frames", "edits", "discard"} : \A x : Plain([s EXCEPT ![f] = x])
         /\ \A x : Plain(Throw(s, x))
         /\ \A x \in Seq(FrameType) :
              (\A i \in DOMAIN x : ~x[i].hooks) => Plain([s EXCEPT !.frames = x])
<1>1. ASSUME NEW f \in Fields \ {"frames", "edits", "discard"}, NEW x
      PROVE  Plain([s EXCEPT ![f] = x])
  BY SetReads DEF Plain, Fields
<1>2. ASSUME NEW x \in Seq(FrameType), \A i \in DOMAIN x : ~x[i].hooks
      PROVE  Plain([s EXCEPT !.frames = x])
  BY <1>2, SetReads DEF Plain, Fields
<1>3. QED
  BY <1>1, <1>2 DEF Throw, Fields

LEMMA PlainIdle ==
  ASSUME NEW s \in Spines, Plain(s)
  PROVE  ~Discards(s) /\ ~DropOpen(s) /\ ~Editable(s)
<1>1. InObject(s) => ~Top(s).hooks
  <2>1. SUFFICES ASSUME InObject(s) PROVE Len(s.frames) \in DOMAIN s.frames
    BY DEF Top, Plain
  <2>2. QED
    BY <2>1, SpineType DEF InObject
<1>2. QED
  BY <1>1 DEF Plain, Discards, DropOpen, Editable, NoDiscard

LEMMA UserCodeKeeps ==
  ASSUME NEW s \in Spines, NEW u
  PROVE  /\ Onward(s, UserCode(s, u)) /\ (Plain(s) => Plain(UserCode(s, u)))
         /\ ~UserCode(s, u).disposed => UserCode(s, u) = s
<1>1. CASE u.destroys
  <2> DEFINE d == Dispose(s)
  <2> DEFINE t == [d EXCEPT !.edits = {}]
  <2>1. /\ d \in Spines /\ d.disposed /\ d.tok.pos = s.tok.pos /\ d.violations = s.violations
        /\ d.thrown = s.thrown /\ d.frames = <<>> /\ d.discard = NoDiscard
        /\ d.deferred = s.deferred
    BY DisposeType
  <2>2. UserCode(s, u) = t
    BY <1>1 DEF UserCode
  <2> HIDE DEF d
  <2>3. /\ t.disposed = d.disposed /\ t.tok = d.tok /\ t.violations = d.violations
        /\ t.thrown = d.thrown /\ t.frames = d.frames /\ t.discard = d.discard
        /\ t.deferred = d.deferred /\ t.edits = {}
    <3>1. d \in Spines
      BY <2>1
    <3>2. QED
      BY <3>1, SetReads DEF Fields
  <2>4. t \in Spines
    BY <2>1, SetFields
  <2> HIDE DEF t
  <2>5. t.violations >= s.violations
    BY <2>1, <2>3, SpineType
  <2>6. Onward(s, t)
    BY <2>1, <2>3, <2>4, <2>5 DEF Onward, Moves, Counted, Threw
  <2>7. Plain(t)
    BY <2>1, <2>3 DEF Plain
  <2>8. QED
    BY <2>1, <2>2, <2>3, <2>6, <2>7
<1>2. CASE ~u.destroys
  BY <1>2, OnwardSame DEF UserCode
<1>3. QED
  BY <1>1, <1>2

LEMMA ToldKeeps ==
  ASSUME NEW s \in Spines, NEW u
  PROVE  /\ Onward(s, Told(s, u)) /\ (Plain(s) => Plain(Told(s, u)))
         /\ ~Told(s, u).disposed => Told(s, u) = s
  BY UserCodeKeeps, OnwardSame DEF Told

(* A failure is recorded, and user code told of it. *)
LEMMA RecordKeeps ==
  ASSUME NEW s \in Spines, NEW u
  PROVE  /\ Onward(s, Record(s, u)) /\ (Plain(s) => Plain(Record(s, u)))
<1>1. CASE ~u.fails \/ s.deferred \/ Threw(s)
  BY <1>1, OnwardSame DEF Record
<1>2. CASE ~(~u.fails \/ s.deferred \/ Threw(s))
  <2> DEFINE r == [s EXCEPT !.violations = @ + 1]
  <2> DEFINE t == UserCode(r, u)
  <2>1. Onward(s, r) /\ (Plain(s) => Plain(r))
    BY SetMoves, SetPlain DEF Fields
  <2>2. r.violations > 0
    <3>1. r.violations = s.violations + 1
      BY SetReads DEF Fields
    <3>2. QED
      BY <3>1, SpineType
  <2>3. Record(s, u) \in {t, [t EXCEPT !.deferred = TRUE], Throw(t, "budget")}
    BY <1>2 DEF Record
  <2> HIDE DEF r
  <2>4. r \in Spines
    BY <2>1 DEF Onward, Moves
  <2>5. Onward(r, t) /\ (Plain(r) => Plain(t))
    BY <2>4, UserCodeKeeps
  <2> HIDE DEF t
  <2>6. Onward(s, t) /\ (Plain(s) => Plain(t))
    BY <2>1, <2>5, OnwardThen
  <2>7. t \in Spines /\ t.violations > 0
    <3>1. t \in Spines /\ t.violations >= r.violations
      BY <2>5 DEF Onward, Moves
    <3>2. QED
      BY <2>2, <2>4, <3>1, SpineType
  <2>8. Onward(t, t) /\ Onward(t, [t EXCEPT !.deferred = TRUE]) /\ Onward(t, Throw(t, "budget"))
    BY <2>7, SetMoves, OnwardSame
  <2>9. Plain(t) => Plain([t EXCEPT !.deferred = TRUE]) /\ Plain(Throw(t, "budget"))
    BY <2>7, SetPlain DEF Fields
  <2>10. QED
    BY <2>3, <2>6, <2>8, <2>9, OnwardThen
<1>3. QED
  BY <1>1, <1>2

-----------------------------------------------------------------------------
(* Each handler and what it calls goes onward; without hooks it edits nothing. *)
Keeps(s, t) == Onward(s, t) /\ (Plain(s) => Plain(t))

LEMMA KeepsThen ==
  ASSUME NEW s \in Spines, NEW t, NEW r, Keeps(s, t), Keeps(t, r) PROVE Keeps(s, r)
  BY OnwardThen DEF Keeps

LEMMA ClearLimitOnward ==
  ASSUME NEW s \in Spines PROVE Keeps(s, ClearLimit(s))
<1>1. NoLimit \in LimitType
  BY Numbers DEF NoLimit, LimitType
<1>2. QED
  BY <1>1, SetMoves, SetPlain DEF Keeps, ClearLimit, Onward, Fields

LEMMA LimitOnward ==
  ASSUME NEW s \in Spines, NEW kind \in {"none", "prefix", "drop"}, NEW at \in Int
  PROVE  Keeps(s, Limit(s, kind, at))
<1> DEFINE limit == [kind |-> kind, at |-> at]
<1>1. limit \in LimitType
  BY DEF LimitType
<1>2. Limit(s, kind, at) = [s EXCEPT !.limit = limit]
  BY DEF Limit
<1> HIDE DEF limit
<1>3. Moves(s, [s EXCEPT !.limit = limit], 0, 0)
  BY <1>1, SetMoves DEF Onward
<1>4. Plain(s) => Plain([s EXCEPT !.limit = limit])
  BY SetPlain DEF Fields
<1>5. QED
  BY <1>2, <1>3, <1>4 DEF Keeps, Onward

LEMMA AddEditOnward ==
  ASSUME NEW s \in Spines, NEW e \in EditType PROVE Onward(s, AddEdit(s, e))
<1>1. s.edits \union {e} \in SUBSET EditType
  BY SpineType
<1>2. AddEdit(s, e) = [s EXCEPT !.edits = s.edits \union {e}]
  BY DEF AddEdit
<1>3. QED
  BY <1>1, <1>2, SetMoves

LEMMA SetTopOnward ==
  ASSUME NEW s \in Spines, NEW f \in FrameType PROVE Onward(s, SetTop(s, f))
<1>1. CASE s.frames = <<>>
  BY <1>1, OnwardSame DEF SetTop
<1>2. CASE s.frames # <<>>
  <2> DEFINE x == [s.frames EXCEPT ![Len(s.frames)] = f]
  <2>1. s.frames \in Seq(FrameType)
    BY SpineType
  <2>2. Len(s.frames) \in 1..Len(s.frames) /\ Len(s.frames) \in Nat
    BY <1>2, <2>1
  <2>a. x \in Seq(FrameType) /\ Len(x) = Len(s.frames)
    BY <2>1, <2>2, ExceptSeq
  <2>3. SetTop(s, f) = [s EXCEPT !.frames = x]
    BY <1>2, TopType
  <2> HIDE DEF x
  <2>4. Len(x) = Len(s.frames) + 0
    BY <2>2, <2>a
  <2>5. Moves(s, [s EXCEPT !.frames = x], 0, 0)
    <3>1. 0 \in Int
      OBVIOUS
    <3>2. QED
      BY <2>a, <2>4, <3>1, SetMoves, Zenon
  <2>6. QED
    BY <2>3, <2>5 DEF Onward
<1>3. QED
  BY <1>1, <1>2

LEMMA ThrowKeeps == ASSUME NEW s \in Spines PROVE Keeps(s, Throw(s, "fatal"))
  BY SetMoves, SetPlain DEF Keeps, Onward

LEMMA SettleBudgetKeeps ==
  ASSUME NEW s \in Spines, Counted(s) PROVE Keeps(s, SettleBudget(s))
  BY SetMoves, SetPlain, OnwardSame DEF SettleBudget, Keeps, Counted, Onward

(* A dropped value. *)
LEMMA NoteDropOpenKeeps ==
  ASSUME NEW s \in Spines PROVE Keeps(s, NoteDropOpen(s))
<1>1. CASE DropOpen(s)
  <2> DEFINE x == [s.discard EXCEPT !.nest = @ + 1]
  <2>1. x \in DiscardType
    BY SpineType DEF DiscardType
  <2>2. NoteDropOpen(s) = [s EXCEPT !.discard = x]
    BY <1>1 DEF NoteDropOpen
  <2> HIDE DEF x
  <2>3. QED
    BY <1>1, <2>1, <2>2, SetMoves, PlainIdle DEF Keeps, Onward
<1>2. CASE ~DropOpen(s)
  BY <1>2, OnwardSame DEF NoteDropOpen, Keeps, Onward
<1>3. QED
  BY <1>1, <1>2

LEMMA EndDroppedValueOnward ==
  ASSUME NEW s \in Spines, NEW end \in Nat PROVE Onward(s, EndDroppedValue(s, end))
<1> DEFINE x == [s.discard EXCEPT !.valueEnd = end]
<1> DEFINE r == [s EXCEPT !.discard = x]
<1> DEFINE t == ClearLimit(r)
<1>1. x \in DiscardType
  BY SpineType DEF DiscardType
<1>2. EndDroppedValue(s, end) \in {t, Throw(t, "fatal")}
  BY DEF EndDroppedValue
<1> HIDE DEF x
<1>3. Onward(s, r)
  BY <1>1, SetMoves
<1> HIDE DEF r
<1>4. r \in Spines
  BY <1>3 DEF Onward, Moves
<1>5. Onward(r, t)
  BY <1>4, ClearLimitOnward DEF Keeps, Onward
<1> HIDE DEF t
<1>6. Onward(s, t) /\ t \in Spines
  BY <1>3, <1>5, OnwardThen DEF Onward, Moves
<1>7. Onward(t, Throw(t, "fatal"))
  BY <1>6, SetMoves
<1>8. QED
  BY <1>2, <1>6, <1>7, OnwardThen

LEMMA NoteDropCloseKeeps ==
  ASSUME NEW s \in Spines, NEW end \in Nat PROVE Keeps(s, NoteDropClose(s, end))
<1>1. CASE DropOpen(s)
  <2> DEFINE x == [s.discard EXCEPT !.nest = @ - 1]
  <2> DEFINE t == [s EXCEPT !.discard = x]
  <2>1. x \in DiscardType
    <3>1. s.discard \in DiscardType
      BY SpineType
    <3>2. s.discard.nest - 1 \in Int
      BY <3>1 DEF DiscardType
    <3>3. QED
      BY <3>1, <3>2 DEF DiscardType
  <2>2. NoteDropClose(s, end) \in {t, EndDroppedValue(t, end)}
    BY <1>1 DEF NoteDropClose
  <2> HIDE DEF x
  <2>3. Onward(s, t)
    BY <2>1, SetMoves
  <2> HIDE DEF t
  <2>4. t \in Spines
    BY <2>3 DEF Onward, Moves
  <2>5. Onward(s, EndDroppedValue(t, end))
    BY <2>3, <2>4, EndDroppedValueOnward, OnwardThen
  <2>6. QED
    BY <1>1, <2>2, <2>3, <2>5, PlainIdle DEF Keeps, Onward
<1>2. CASE ~DropOpen(s)
  BY <1>2, OnwardSame DEF NoteDropClose, Keeps, Onward
<1>3. QED
  BY <1>1, <1>2

ValueType == [start : Nat, end : Nat, container : BOOLEAN]

LEMMA DropOnward ==
  ASSUME NEW s \in Spines, NEW start \in Nat, NEW top \in FrameType, NEW value \in ValueType
  PROVE  Onward(s, Drop(s, start, top, value))
<1> DEFINE n == IF value.container THEN 1 ELSE 0
<1> DEFINE x == [start |-> start, depth |-> Len(s.frames), keyStart |-> top.keyStart,
                 valueEnd |-> Infinity, nest |-> n]
<1> DEFINE t == [s EXCEPT !.discard = x]
<1> DEFINE at == top.keyStart + MaxDrop
<1>1. x \in DiscardType
  <2>1. Len(s.frames) \in Nat /\ top.keyStart \in Nat /\ Infinity \in Nat
    BY SpineType, Numbers DEF FrameType
  <2>2. n \in Int
    OBVIOUS
  <2> HIDE DEF n
  <2>3. QED
    BY <2>1, <2>2 DEF DiscardType
<1>2. at \in Int /\ value.end \in Nat
  BY Numbers DEF FrameType, ValueType
<1>3. Drop(s, start, top, value)
        \in {EndDroppedValue(t, value.end), t, Throw(t, "fatal"), Limit(t, "drop", at)}
  BY DEF Drop
<1> HIDE DEF x, at
<1>4. Onward(s, t)
  BY <1>1, SetMoves
<1> HIDE DEF t
<1>5. t \in Spines
  BY <1>4 DEF Onward, Moves
<1>6. /\ Onward(t, EndDroppedValue(t, value.end)) /\ Onward(t, t)
      /\ Onward(t, Throw(t, "fatal")) /\ Onward(t, Limit(t, "drop", at))
  BY <1>2, <1>5, EndDroppedValueOnward, OnwardSame, SetMoves, LimitOnward DEF Keeps, Onward
<1>7. QED
  BY <1>3, <1>4, <1>6, OnwardThen

LEMMA EndDiscardOnward ==
  ASSUME NEW s \in Spines, NEW o \in Nat
  PROVE  Onward(s, EndDiscard(s, o))
<1> DEFINE t == [s EXCEPT !.discard = NoDiscard]
<1> DEFINE e == Edit(s.discard.start, o, "none")
<1>1. NoDiscard \in DiscardType
  BY Numbers DEF NoDiscard, DiscardType
<1>2. e \in EditType
  BY SpineType DEF Edit, EditType, DiscardType
<1>3. EndDiscard(s, o) = AddEdit(t, e)
  BY DEF EndDiscard
<1> HIDE DEF e
<1>4. Onward(s, t)
  BY <1>1, SetMoves
<1> HIDE DEF t
<1>5. QED
  BY <1>2, <1>3, <1>4, AddEditOnward, OnwardThen DEF Onward, Moves

-----------------------------------------------------------------------------
(* A member whose value starts. *)
LEMMA OutputKeyType ==
  ASSUME NEW top \in FrameType, NEW d \in Decisions
  PROVE  RecordOutputKey(top, d) \in FrameType
<1>1. top.kept \in SUBSET Seq(Byte) /\ top.renamed \in SUBSET Seq(Byte) /\ top.key \in Seq(Byte)
  BY DEF FrameType
<1>2. d.kind = "rename" => d.key \in Seq(Byte)
  BY MemberEditsAssumption DEF Decisions
<1>3. CASE d.kind = "rename"
  <2>1. top.renamed \cup {d.key} \in SUBSET Seq(Byte)
    BY <1>1, <1>2, <1>3
  <2>2. QED
    BY <1>3, <2>1 DEF RecordOutputKey, FrameType
<1>4. CASE d.kind # "rename"
  <2>1. top.kept \cup {top.key} \in SUBSET Seq(Byte)
    BY <1>1
  <2>2. QED
    BY <1>4, <2>1 DEF RecordOutputKey, FrameType
<1>5. QED
  BY <1>3, <1>4

LEMMA EditIs ==
  ASSUME NEW start \in Nat, NEW end \in Nat, NEW bytes \in {"none", "R", "A", ",A"}
  PROVE  Edit(start, end, bytes) \in EditType
  BY DEF Edit, EditType

LEMMA OnwardCounted ==
  ASSUME NEW s \in Spines, NEW t, Onward(s, t), Counted(s) PROVE t \in Spines /\ Counted(t)
  BY DEF Onward, Moves

LEMMA KeepMemberOnward ==
  ASSUME NEW s \in Spines, Counted(s), NEW start \in Nat, NEW top \in FrameType, NEW d \in Decisions
  PROVE  Onward(s, KeepMember(s, start, top, d))
<1> DEFINE comma == Edit(start, start + 1, "none")
<1> DEFINE name == Edit(top.keyStart, top.keyEnd, "R")
<1> DEFINE t == IF top.comma /\ OutputKeys(top) = {} THEN AddEdit(s, comma) ELSE s
<1> DEFINE frame == RecordOutputKey(top, d)
<1> DEFINE named == SetTop(t, frame)
<1> DEFINE renamed == AddEdit(named, name)
<1>1. comma \in EditType /\ name \in EditType
  <2>1. start + 1 \in Nat /\ top.keyStart \in Nat /\ top.keyEnd \in Nat
    BY DEF FrameType
  <2>2. QED
    BY <2>1, EditIs
<1>2. frame \in FrameType
  BY OutputKeyType
<1>3. KeepMember(s, start, top, d)
        \in {Throw(t, "fatal"), SettleBudget(named), SettleBudget(renamed)}
  BY DEF KeepMember
<1> HIDE DEF comma, name, frame
<1>4. Onward(s, t)
  BY <1>1, AddEditOnward, OnwardSame
<1> HIDE DEF t
<1>5. t \in Spines /\ Counted(t)
  BY <1>4, OnwardCounted
<1>6. Onward(t, named)
  BY <1>2, <1>5, SetTopOnward
<1> HIDE DEF named
<1>7. named \in Spines /\ Counted(named)
  BY <1>5, <1>6, OnwardCounted
<1>8. Onward(named, renamed)
  BY <1>1, <1>7, AddEditOnward
<1> HIDE DEF renamed
<1>9. renamed \in Spines /\ Counted(renamed)
  BY <1>7, <1>8, OnwardCounted
<1>10. Onward(s, named) /\ Onward(s, renamed)
  BY <1>4, <1>6, <1>8, OnwardThen
<1>11. /\ Onward(t, Throw(t, "fatal")) /\ Onward(named, SettleBudget(named))
       /\ Onward(renamed, SettleBudget(renamed))
  BY <1>5, <1>7, <1>9, ThrowKeeps, SettleBudgetKeeps DEF Keeps
<1>12. QED
  BY <1>3, <1>4, <1>10, <1>11, OnwardThen

LEMMA DecideMemberKeeps ==
  ASSUME NEW s \in Spines, Counted(s), NEW value \in ValueType, NEW u, u.decision \in Decisions
  PROVE  Keeps(s, DecideMember(s, value, u))
<1>1. CASE Threw(s) \/ ~Editable(s)
  BY <1>1, OnwardSame DEF DecideMember, Keeps
<1>2. CASE ~(Threw(s) \/ ~Editable(s))
  <2> DEFINE top == [Top(s) EXCEPT !.prefix = Infinity]
  <2> DEFINE set == SetTop(s, top)
  <2> DEFINE cleared == ClearLimit(set)
  <2> DEFINE asked == UserCode(cleared, u)
  <2> DEFINE start == Top(s).prefix
  <2>1. Top(s) \in FrameType
    BY <1>2, TopType DEF Editable, InObject
  <2>2. top \in FrameType /\ start \in Nat
    BY <2>1, Numbers DEF FrameType
  <2>3. u.decision.kind \in {"keep", "drop", "conflict", "rename"}
    BY DEF Decisions
  <2>4. DecideMember(s, value, u)
          \in {Throw(asked, "fatal"), Drop(asked, start, top, value), KeepMember(asked, start, top, u.decision)}
    BY <1>2, <2>3 DEF DecideMember
  <2> HIDE DEF top, start
  <2>5. Onward(s, set) /\ set \in Spines
    BY <2>2, SetTopOnward DEF Onward, Moves
  <2> HIDE DEF set
  <2>6. Onward(set, cleared) /\ cleared \in Spines
    BY <2>5, ClearLimitOnward DEF Keeps, Onward, Moves
  <2> HIDE DEF cleared
  <2>7. Onward(cleared, asked)
    BY <2>6, UserCodeKeeps
  <2> HIDE DEF asked
  <2>8. Onward(s, asked)
    BY <2>5, <2>6, <2>7, OnwardThen
  <2>9. asked \in Spines /\ Counted(asked)
    BY <2>8, OnwardCounted
  <2>10. /\ Onward(asked, Throw(asked, "fatal")) /\ Onward(asked, Drop(asked, start, top, value))
         /\ Onward(asked, KeepMember(asked, start, top, u.decision))
    BY <2>2, <2>9, ThrowKeeps, DropOnward, KeepMemberOnward DEF Keeps
  <2>11. Onward(s, DecideMember(s, value, u))
    BY <2>4, <2>8, <2>10, OnwardThen
  <2>12. ~Plain(s)
    BY <1>2, PlainIdle
  <2>13. QED
    BY <2>11, <2>12 DEF Keeps
<1>3. QED
  BY <1>1, <1>2

-----------------------------------------------------------------------------
(* The handlers.  A start opens one container and an end closes one, counted
   by a frame or within an opaque value. *)
LEMMA OnStartMoves ==
  ASSUME NEW s \in Spines, Counted(s), NEW kind \in Contexts, NEW u, u.decision \in Decisions,
         u.scoped \in BOOLEAN
  PROVE  LET t == OnStart(s, kind, u)
         IN  /\ Moves(s, t, 1, 0) \/ Moves(s, t, 0, 1)
             /\ Plain(s) /\ Unedited(u) => Plain(t)
<1> DEFINE o == s.tok.pos
<1> DEFINE counted == NoteDropOpen(s)
<1> DEFINE decided == DecideMember(counted, Value(o, Infinity, TRUE), u)
<1> DEFINE checked == Record(decided, u)
<1> DEFINE hooks == kind = "object" /\ u.scoped /\ ~Discards(checked)
<1> DEFINE frame == Frame(kind, o, hooks, Discards(checked))
<1> DEFINE framed == [checked EXCEPT !.frames = Append(@, frame)]
<1> DEFINE inner == [counted EXCEPT !.opaque = counted.opaque + 1]
<1> DEFINE opened == [checked EXCEPT !.opaque = 1]
<1> DEFINE limited == Limit(framed, "prefix", o + 1 + MaxPrefix)
<1>1. OnStart(s, kind, u) =
        IF s.opaque > 0 THEN inner
        ELSE IF Threw(checked) THEN checked
        ELSE IF u.opaque THEN opened
        ELSE IF hooks THEN limited ELSE framed
  BY DEF OnStart
<1>2. Keeps(s, counted)
  BY NoteDropOpenKeeps
<1> HIDE DEF counted
<1>3. counted \in Spines /\ Counted(counted) /\ Onward(s, counted)
  BY <1>2, OnwardCounted DEF Keeps
<1>4. Value(o, Infinity, TRUE) \in ValueType /\ o \in Nat
  BY SpineType, Numbers DEF Value, ValueType
<1>5. Keeps(counted, decided)
  BY <1>3, <1>4, DecideMemberKeeps
<1> HIDE DEF decided
<1>6. decided \in Spines
  BY <1>3, <1>5, OnwardCounted DEF Keeps
<1>7. Keeps(decided, checked)
  BY <1>6, RecordKeeps DEF Keeps
<1> HIDE DEF checked
<1>8. Keeps(s, checked) /\ checked \in Spines
  BY <1>2, <1>3, <1>5, <1>6, <1>7, KeepsThen, OnwardCounted DEF Keeps, Onward, Moves
<1>9. CASE s.opaque > 0
  <2>1. counted.opaque + 1 \in Nat /\ counted.opaque \in Nat
    BY <1>3, SpineType
  <2>2. 1 \in Int /\ 0 \in Int
    OBVIOUS
  <2>3. Moves(counted, inner, 0, 1)
    BY <1>3, <2>1, <2>2, SetMoves, Zenon
  <2>4. Moves(s, inner, 0, 1)
    BY <1>3, <2>2, <2>3, MovesThen, Zenon
  <2>5. Plain(counted) => Plain(inner)
    BY <1>3, SetPlain DEF Fields
  <2>6. QED
    BY <1>1, <1>2, <1>9, <2>4, <2>5 DEF Keeps
<1>10. CASE ~(s.opaque > 0) /\ Threw(checked)
  <2>1. Moves(s, checked, 1, 0)
    BY <1>8, <1>10, OverMoves DEF Keeps, Onward
  <2>2. QED
    BY <1>1, <1>8, <1>10, <2>1 DEF Keeps
<1>11. CASE ~(s.opaque > 0) /\ ~Threw(checked) /\ u.opaque
  <2> DEFINE e == 1 - checked.opaque
  <2>1. checked.opaque \in Nat /\ s.opaque \in Nat /\ 0 \in Int /\ 1 \in Int
    BY <1>8, SpineType
  <2>2. e \in Int /\ 1 = checked.opaque + e /\ 1 \in Nat
    BY <2>1
  <2> HIDE DEF e
  <2>3. Moves(checked, opened, 0, e)
    BY <1>8, <2>2, SetMoves, Zenon
  <2>4. Moves(s, opened, 0, e)
    BY <1>8, <2>1, <2>2, <2>3, MovesThen, Zenon DEF Keeps
  <2>5. checked.disposed \/ checked.opaque = s.opaque
    BY <1>8, <1>11, <2>1 DEF Keeps, Onward, Moves
  <2>6. checked.disposed => opened.disposed
    BY <1>8, <2>3 DEF Moves
  <2>7. Moves(s, opened, 0, 1)
    <3>1. CASE checked.disposed
      BY <2>4, <2>6, <3>1, OverMoves
    <3>2. CASE checked.opaque = s.opaque
      <4>1. e = 1
        BY <1>11, <2>1, <2>2, <3>2
      <4>2. QED
        BY <2>4, <4>1
    <3>3. QED
      BY <2>5, <3>1, <3>2
  <2>8. Plain(checked) => Plain(opened)
    BY <1>8, SetPlain DEF Fields
  <2>9. QED
    BY <1>1, <1>8, <1>11, <2>7, <2>8 DEF Keeps
<1>12. CASE ~(s.opaque > 0) /\ ~Threw(checked) /\ ~u.opaque
  <2>1. frame \in FrameType
    <3>1. o + 1 \in Nat /\ <<>> \in Seq(Byte) /\ {} \in SUBSET Seq(Byte) /\ Infinity \in Nat
      BY <1>4, Numbers
    <3>2. hooks \in BOOLEAN /\ Discards(checked) \in BOOLEAN
      BY DEF Discards
    <3> HIDE DEF hooks
    <3>3. QED
      BY <3>1, <3>2 DEF Frame, FrameType
  <2>2. Unedited(u) => ~frame.hooks
    BY DEF Unedited, Frame
  <2> HIDE DEF frame
  <2> DEFINE x == Append(checked.frames, frame)
  <2>3. checked.frames \in Seq(FrameType)
    BY <1>8, SpineType
  <2>4. x \in Seq(FrameType) /\ Len(x) = Len(checked.frames) + 1
    BY <2>1, <2>3
  <2>5. Plain(checked) /\ Unedited(u) => \A i \in DOMAIN x : ~x[i].hooks
    <3>1. \A i \in DOMAIN x : x[i] = frame \/ (i \in DOMAIN checked.frames /\ x[i] = checked.frames[i])
      BY <2>1, <2>3
    <3>2. QED
      BY <2>2, <3>1 DEF Plain
  <2>6. framed = [checked EXCEPT !.frames = x]
    OBVIOUS
  <2> HIDE DEF x
  <2>7. 1 \in Int /\ 0 \in Int
    OBVIOUS
  <2>8. Moves(checked, framed, 1, 0)
    BY <1>8, <2>4, <2>6, <2>7, SetMoves, Zenon
  <2>9. Plain(checked) /\ Unedited(u) => Plain(framed)
    BY <1>8, <2>4, <2>5, <2>6, SetPlain
  <2> HIDE DEF framed
  <2>10. Moves(s, framed, 1, 0) /\ framed \in Spines
    <3>1. Onward(s, checked)
      BY <1>8 DEF Keeps
    <3>2. Moves(s, framed, 1, 0)
      BY <2>7, <2>8, <3>1, MovesThen, Zenon
    <3>3. QED
      BY <3>2 DEF Moves
  <2>11. Keeps(framed, limited)
    <3>1. o + 1 + MaxPrefix \in Int
      BY <1>4, Numbers
    <3>2. QED
      BY <2>10, <3>1, LimitOnward
  <2> HIDE DEF limited
  <2>12. Moves(s, limited, 1, 0)
    BY <2>7, <2>10, <2>11, MovesOn, Zenon DEF Keeps
  <2>13. QED
    BY <1>1, <1>8, <1>12, <2>9, <2>10, <2>11, <2>12 DEF Keeps
<1>13. QED
  BY <1>9, <1>10, <1>11, <1>12

(* A frame leaves. *)
LEMMA PopFrameMoves ==
  ASSUME NEW s \in Spines, s.frames # <<>> \/ s.disposed
  PROVE  Moves(s, PopFrame(s), -1, 0) /\ (Plain(s) => Plain(PopFrame(s)))
<1> DEFINE x == SubSeq(s.frames, 1, Len(s.frames) - 1)
<1>1. s.frames \in Seq(FrameType) /\ Len(s.frames) \in Nat
  BY SpineType
<1>2. /\ x \in Seq(FrameType)
      /\ \A i \in DOMAIN x : i \in DOMAIN s.frames /\ x[i] = s.frames[i]
  BY <1>1
<1>3. PopFrame(s) = [s EXCEPT !.frames = x]
  BY DEF PopFrame
<1>4. Plain(s) => Plain(PopFrame(s))
  <2>1. Plain(s) => \A i \in DOMAIN x : ~x[i].hooks
    BY <1>2 DEF Plain
  <2> HIDE DEF x
  <2>2. QED
    BY <1>2, <1>3, <2>1, SetPlain
<1>5. -1 \in Int /\ 0 \in Int
  OBVIOUS
<1>6. CASE s.frames # <<>>
  <2>1. Len(x) = Len(s.frames) + -1
    BY <1>1, <1>6
  <2> HIDE DEF x
  <2>2. Moves(s, PopFrame(s), -1, 0)
    BY <1>2, <1>3, <1>5, <2>1, SetMoves, Zenon
  <2>3. QED
    BY <1>4, <2>2
<1>7. CASE s.frames = <<>> /\ s.disposed
  <2>1. Len(x) = Len(s.frames) + 0
    BY <1>1, <1>7
  <2> HIDE DEF x
  <2>2. Moves(s, PopFrame(s), 0, 0)
    BY <1>2, <1>3, <1>5, <2>1, SetMoves, Zenon
  <2>3. PopFrame(s).disposed
    BY <1>7, <2>2 DEF Moves
  <2>4. QED
    BY <1>4, <2>2, <2>3, OverMoves
<1>8. QED
  BY <1>6, <1>7

LEMMA CloseFrameMoves ==
  ASSUME NEW s \in Spines, s.frames # <<>> \/ s.disposed, NEW o \in Nat
  PROVE  Moves(s, CloseFrame(s, o), -1, 0) /\ (Plain(s) => Plain(CloseFrame(s, o)))
<1> DEFINE t == PopFrame(s)
<1>1. Moves(s, t, -1, 0) /\ (Plain(s) => Plain(t))
  BY PopFrameMoves
<1>2. CloseFrame(s, o) = IF Discards(s) /\ s.discard.depth = Len(s.frames) THEN EndDiscard(t, o)
                         ELSE IF Top(s).prefix # Infinity THEN ClearLimit(t) ELSE t
  BY DEF CloseFrame
<1>3. Plain(s) => ~Discards(s)
  BY PlainIdle
<1> HIDE DEF t
<1>4. t \in Spines
  BY <1>1 DEF Moves
<1>5. Onward(t, EndDiscard(t, o)) /\ Keeps(t, ClearLimit(t))
  BY <1>4, EndDiscardOnward, ClearLimitOnward
<1>6. -1 \in Int /\ 0 \in Int
  OBVIOUS
<1>7. Moves(s, EndDiscard(t, o), -1, 0) /\ Moves(s, ClearLimit(t), -1, 0)
  BY <1>1, <1>5, <1>6, MovesOn, Zenon DEF Keeps
<1>8. QED
  BY <1>1, <1>2, <1>3, <1>5, <1>7 DEF Keeps

LEMMA OnEndOpaqueMoves ==
  ASSUME NEW s \in Spines, NEW u
  PROVE  LET t == OnEndOpaque(s, u)
         IN  /\ s.opaque > 0 \/ s.disposed => Moves(s, t, 0, -1)
             /\ Plain(s) => Plain(t)
<1>1. s.opaque \in Nat /\ -1 \in Int /\ 0 \in Int
  BY SpineType
<1>2. CASE s.opaque > 1
  <2> DEFINE t == [s EXCEPT !.opaque = s.opaque - 1]
  <2>1. s.opaque - 1 \in Nat /\ s.opaque - 1 = s.opaque + -1
    BY <1>1, <1>2
  <2>2. Moves(s, t, 0, -1)
    BY <1>1, <2>1, SetMoves, Zenon
  <2>3. Plain(s) => Plain(t)
    BY SetPlain DEF Fields
  <2>4. QED
    BY <1>2, <2>2, <2>3 DEF OnEndOpaque
<1>3. CASE ~(s.opaque > 1)
  <2> DEFINE t == [s EXCEPT !.opaque = 0]
  <2> DEFINE e == -(s.opaque)
  <2> DEFINE r == Record(t, u)
  <2>1. e \in Int /\ 0 = s.opaque + e /\ 0 \in Nat /\ (s.opaque > 0 => e = -1)
    BY <1>1, <1>3
  <2>2. OnEndOpaque(s, u) = r
    BY <1>3 DEF OnEndOpaque
  <2> HIDE DEF e
  <2>3. Moves(s, t, 0, e)
    BY <1>1, <2>1, SetMoves, Zenon
  <2>4. Plain(s) => Plain(t)
    BY SetPlain DEF Fields
  <2> HIDE DEF t
  <2>5. t \in Spines
    BY <2>3 DEF Moves
  <2>6. Onward(t, r) /\ (Plain(t) => Plain(r))
    BY <2>5, RecordKeeps
  <2> HIDE DEF r
  <2>7. Moves(s, r, 0, e)
    BY <1>1, <2>1, <2>3, <2>6, MovesOn, Zenon
  <2>8. s.opaque > 0 \/ s.disposed => Moves(s, r, 0, -1)
    <3>1. s.disposed => r.disposed
      BY <2>7 DEF Moves
    <3>2. s.disposed => Moves(s, r, 0, -1)
      BY <2>7, <3>1, OverMoves
    <3>3. QED
      BY <2>1, <2>7, <3>2
  <2>9. QED
    BY <2>2, <2>4, <2>6, <2>8
<1>4. QED
  BY <1>2, <1>3

LEMMA ScopeCloseOnward ==
  ASSUME NEW s \in Spines, NEW outputs, NEW o \in Nat, NEW u
  PROVE  LET t == ScopeClose(s, outputs, o, u)
         IN  Onward(s, t) /\ (Plain(s) /\ Unedited(u) => Plain(t))
<1> DEFINE t == Told(s, u)
<1> DEFINE a == Edit(o, o, "A")
<1> DEFINE b == Edit(o, o, ",A")
<1>1. a \in EditType /\ b \in EditType
  BY EditIs
<1>2. Onward(s, t) /\ (Plain(s) => Plain(t)) /\ Onward(s, s)
  BY ToldKeeps, OnwardSame
<1>3. ScopeClose(s, outputs, o, u) \in {s, t} \/ (u.appends /\ ScopeClose(s, outputs, o, u) \in {AddEdit(t, a), AddEdit(t, b)})
  BY DEF ScopeClose
<1> HIDE DEF a, b, t
<1>4. t \in Spines
  BY <1>2 DEF Onward, Moves
<1>5. Onward(t, AddEdit(t, a)) /\ Onward(t, AddEdit(t, b))
  BY <1>1, <1>4, AddEditOnward
<1>6. Onward(s, AddEdit(t, a)) /\ Onward(s, AddEdit(t, b))
  BY <1>2, <1>5, OnwardThen
<1>7. QED
  BY <1>2, <1>3, <1>6 DEF Unedited

(* What a close leaves of one container. *)
Closes(s, t) == Moves(s, t, -1, 0) \/ Moves(s, t, 0, -1)

LEMMA OnEndObjectMoves ==
  ASSUME NEW s \in Spines, Counted(s), s.frames # <<>> \/ s.opaque > 0, NEW u
  PROVE  LET t == OnEndObject(s, u)
         IN  Closes(s, t) /\ (Plain(s) /\ Unedited(u) => Plain(t))
<1> DEFINE o == s.tok.pos
<1> DEFINE closed == NoteDropClose(s, o + 1)
<1> DEFINE opaque == OnEndOpaque(closed, u)
<1> DEFINE popped == CloseFrame(closed, o)
<1> DEFINE checked == Record(popped, u)
<1> DEFINE scope == ScopeClose(checked, OutputsMembers(Top(s)), o, u)
<1> DEFINE done == SettleBudget(scope)
<1>1. OnEndObject(s, u) = IF Threw(closed) THEN closed ELSE IF s.opaque > 0 THEN opaque ELSE done
  BY DEF OnEndObject
<1>2. o \in Nat /\ o + 1 \in Nat /\ -1 \in Int /\ 0 \in Int /\ s.opaque \in Nat /\ Len(s.frames) \in Nat
      /\ s.frames \in Seq(FrameType)
  BY SpineType
<1>3. Keeps(s, closed)
  BY <1>2, NoteDropCloseKeeps
<1> HIDE DEF closed
<1>4. closed \in Spines /\ Onward(s, closed) /\ Counted(closed)
  BY <1>3, OnwardCounted DEF Keeps
<1>5. CASE Threw(closed)
  <2>1. Moves(s, closed, -1, 0)
    BY <1>4, <1>5, OverMoves DEF Onward
  <2>2. QED
    BY <1>1, <1>3, <1>5, <2>1 DEF Keeps, Closes
<1>6. CASE ~Threw(closed) /\ s.opaque > 0
  <2>1. closed.opaque > 0 \/ closed.disposed
    BY <1>2, <1>4, <1>6 DEF Onward, Moves
  <2>2. Moves(closed, opaque, 0, -1) /\ (Plain(closed) => Plain(opaque))
    BY <1>4, <2>1, OnEndOpaqueMoves
  <2> HIDE DEF opaque
  <2>3. Moves(s, opaque, 0, -1)
    BY <1>2, <1>4, <2>2, MovesThen, Zenon
  <2>4. QED
    BY <1>1, <1>3, <1>6, <2>2, <2>3 DEF Keeps, Closes
<1>7. CASE ~Threw(closed) /\ ~(s.opaque > 0)
  <2>1. closed.frames # <<>> \/ closed.disposed
    <3>1. SUFFICES ASSUME ~closed.disposed PROVE closed.frames # <<>>
      OBVIOUS
    <3>2. Len(closed.frames) = Len(s.frames) + 0 /\ s.frames # <<>>
      BY <1>4, <1>7, <3>1 DEF Onward, Moves
    <3>3. Len(s.frames) > 0
      BY <1>2, <3>2
    <3>4. QED
      BY <1>2, <3>2, <3>3
  <2>2. Moves(closed, popped, -1, 0) /\ (Plain(closed) => Plain(popped))
    BY <1>2, <1>4, <2>1, CloseFrameMoves
  <2> HIDE DEF popped
  <2>3. popped \in Spines /\ Counted(popped)
    BY <1>4, <2>2 DEF Moves
  <2>4. Onward(popped, checked) /\ (Plain(popped) => Plain(checked))
    BY <2>3, RecordKeeps
  <2> HIDE DEF checked
  <2>5. checked \in Spines /\ Counted(checked)
    BY <2>3, <2>4, OnwardCounted
  <2>6. Onward(checked, scope) /\ (Plain(checked) /\ Unedited(u) => Plain(scope))
    BY <1>2, <2>5, ScopeCloseOnward
  <2> HIDE DEF scope
  <2>7. scope \in Spines /\ Counted(scope)
    BY <2>5, <2>6, OnwardCounted
  <2>8. Keeps(scope, done)
    BY <2>7, SettleBudgetKeeps
  <2> HIDE DEF done
  <2>9. Onward(popped, done)
    BY <2>3, <2>4, <2>6, <2>8, OnwardThen DEF Keeps
  <2>10. Moves(closed, done, -1, 0)
    BY <1>2, <1>4, <2>2, <2>9, MovesOn, Zenon
  <2>11. Moves(s, done, -1, 0)
    BY <1>2, <1>4, <2>10, MovesThen, Zenon
  <2>12. QED
    BY <1>1, <1>3, <1>7, <2>2, <2>4, <2>6, <2>8, <2>11 DEF Keeps, Closes
<1>8. QED
  BY <1>5, <1>6, <1>7

LEMMA OnEndArrayMoves ==
  ASSUME NEW s \in Spines, Counted(s), s.frames # <<>> \/ s.opaque > 0, NEW u
  PROVE  LET t == OnEndArray(s, u) IN Closes(s, t) /\ (Plain(s) /\ Unedited(u) => Plain(t))
<1> DEFINE o == s.tok.pos
<1> DEFINE closed == NoteDropClose(s, o + 1)
<1> DEFINE opaque == OnEndOpaque(closed, u)
<1> DEFINE popped == PopFrame(closed)
<1> DEFINE checked == Record(popped, u)
<1> DEFINE done == ScopeClose(checked, OutputsElements(s), o, u)
<1>1. OnEndArray(s, u) = IF Threw(closed) THEN closed ELSE IF s.opaque > 0 THEN opaque ELSE done
  BY DEF OnEndArray
<1>2. o \in Nat /\ o + 1 \in Nat /\ -1 \in Int /\ 0 \in Int /\ s.opaque \in Nat /\ Len(s.frames) \in Nat
      /\ s.frames \in Seq(FrameType)
  BY SpineType
<1>3. Keeps(s, closed)
  BY <1>2, NoteDropCloseKeeps
<1> HIDE DEF closed
<1>4. closed \in Spines /\ Onward(s, closed)
  BY <1>3, OnwardCounted DEF Keeps
<1>5. CASE Threw(closed)
  <2>1. Moves(s, closed, -1, 0)
    BY <1>4, <1>5, OverMoves DEF Onward
  <2>2. QED
    BY <1>1, <1>3, <1>5, <2>1 DEF Keeps, Closes
<1>6. CASE ~Threw(closed) /\ s.opaque > 0
  <2>1. closed.opaque > 0 \/ closed.disposed
    BY <1>2, <1>4, <1>6 DEF Onward, Moves
  <2>2. Moves(closed, opaque, 0, -1) /\ (Plain(closed) => Plain(opaque))
    BY <1>4, <2>1, OnEndOpaqueMoves
  <2> HIDE DEF opaque
  <2>3. Moves(s, opaque, 0, -1)
    BY <1>2, <1>4, <2>2, MovesThen, Zenon
  <2>4. QED
    BY <1>1, <1>3, <1>6, <2>2, <2>3 DEF Keeps, Closes
<1>7. CASE ~Threw(closed) /\ ~(s.opaque > 0)
  <2>1. closed.frames # <<>> \/ closed.disposed
    <3>1. SUFFICES ASSUME ~closed.disposed PROVE closed.frames # <<>>
      OBVIOUS
    <3>2. Len(closed.frames) = Len(s.frames) + 0 /\ s.frames # <<>>
      BY <1>4, <1>7, <3>1 DEF Onward, Moves
    <3>3. Len(s.frames) > 0
      BY <1>2, <3>2
    <3>4. QED
      BY <1>2, <3>2, <3>3
  <2>2. Moves(closed, popped, -1, 0) /\ (Plain(closed) => Plain(popped))
    BY <1>4, <2>1, PopFrameMoves
  <2> HIDE DEF popped
  <2>3. popped \in Spines
    BY <2>2 DEF Moves
  <2>4. Onward(popped, checked) /\ (Plain(popped) => Plain(checked))
    BY <2>3, RecordKeeps
  <2> HIDE DEF checked
  <2>5. checked \in Spines
    BY <2>4 DEF Onward, Moves
  <2>6. Onward(checked, done) /\ (Plain(checked) /\ Unedited(u) => Plain(done))
    BY <1>2, <2>5, ScopeCloseOnward
  <2> HIDE DEF done
  <2>7. Onward(popped, done)
    BY <2>3, <2>4, <2>6, OnwardThen
  <2>8. Moves(closed, done, -1, 0)
    BY <1>2, <1>4, <2>2, <2>7, MovesOn, Zenon
  <2>9. Moves(s, done, -1, 0)
    BY <1>2, <1>4, <2>8, MovesThen, Zenon
  <2>10. QED
    BY <1>1, <1>3, <1>7, <2>2, <2>4, <2>6, <2>9 DEF Keeps, Closes
<1>8. QED
  BY <1>5, <1>6, <1>7

LEMMA SetTopPlain ==
  ASSUME NEW s \in Spines, Plain(s), NEW f \in FrameType, ~f.hooks
  PROVE  Plain(SetTop(s, f))
<1>1. CASE s.frames = <<>>
  BY <1>1 DEF SetTop
<1>2. CASE s.frames # <<>>
  <2> DEFINE x == [s.frames EXCEPT ![Len(s.frames)] = f]
  <2>1. s.frames \in Seq(FrameType)
    BY SpineType
  <2>2. Len(s.frames) \in 1..Len(s.frames)
    BY <1>2, <2>1
  <2>3. /\ x \in Seq(FrameType) /\ Len(x) = Len(s.frames)
        /\ \A i \in 1..Len(s.frames) : x[i] = IF i = Len(s.frames) THEN f ELSE s.frames[i]
    BY <2>1, <2>2, ExceptSeq
  <2>4. \A i \in DOMAIN x : ~x[i].hooks
    <3>1. DOMAIN x = 1..Len(s.frames) /\ DOMAIN s.frames = 1..Len(s.frames)
      BY <2>1
    <3>2. QED
      BY <2>3, <3>1 DEF Plain
  <2>5. SetTop(s, f) = [s EXCEPT !.frames = x]
    BY <1>2, TopType
  <2> HIDE DEF x
  <2>6. QED
    BY <2>3, <2>4, <2>5, SetPlain
<1>3. QED
  BY <1>1, <1>2

LEMMA TopPlain ==
  ASSUME NEW s \in Spines, s.frames # <<>>, Plain(s) PROVE ~Top(s).hooks
<1>1. s.frames \in Seq(FrameType)
  BY SpineType
<1>2. Len(s.frames) \in DOMAIN s.frames
  BY <1>1
<1>3. QED
  BY <1>2 DEF Plain, Top

LEMMA OnKeyKeeps ==
  ASSUME NEW s \in Spines, s.frames # <<>> \/ s.opaque > 0, NEW key \in Seq(Byte), NEW start \in Nat,
         NEW u
  PROVE  Keeps(s, OnKey(s, key, start, u))
<1>1. CASE s.opaque > 0
  BY <1>1, OnwardSame DEF OnKey, Keeps
<1>2. CASE ~(s.opaque > 0)
  <2> DEFINE end == s.tok.pos + 1
  <2> DEFINE top == [Top(s) EXCEPT !.keyStart = start, !.keyEnd = end]
  <2> DEFINE later == [top EXCEPT !.key = key, !.count = @ + 1]
  <2> DEFINE at == end + MaxPrefix - (start - top.prefix)
  <2> DEFINE asked == UserCode(s, u)
  <2> DEFINE told == SetTop(asked, top)
  <2> DEFINE limited == Limit(told, "prefix", at)
  <2> DEFINE holding == IF top.prefix = Infinity THEN told ELSE limited
  <2> DEFINE checked == Record(holding, u)
  <2> DEFINE done == SetTop(checked, later)
  <2>1. Top(s) \in FrameType /\ end \in Nat
    BY <1>2, TopType, SpineType
  <2>2. top \in FrameType /\ top.hooks = Top(s).hooks
    BY <2>1 DEF FrameType
  <2>3. OnKey(s, key, start, u) = IF Threw(checked) THEN checked ELSE done
    BY <1>2 DEF OnKey
  <2>4. Plain(s) => ~top.hooks
    BY <1>2, <2>2, TopPlain
  <2> HIDE DEF top
  <2>5. later \in FrameType /\ later.hooks = top.hooks /\ at \in Int
    <3>1. top.count + 1 \in Nat /\ top.prefix \in Nat
      BY <2>2 DEF FrameType
    <3>2. at \in Int
      BY <2>1, <3>1, Numbers
    <3>3. QED
      BY <2>2, <3>1, <3>2 DEF FrameType
  <2> HIDE DEF later, at
  <2>6. Onward(s, asked) /\ (Plain(s) => Plain(asked))
    BY UserCodeKeeps
  <2> HIDE DEF asked
  <2>7. asked \in Spines
    BY <2>6 DEF Onward, Moves
  <2>8. Onward(asked, told) /\ (Plain(s) => Plain(told))
    BY <2>2, <2>4, <2>6, <2>7, SetTopOnward, SetTopPlain
  <2> HIDE DEF told
  <2>9. told \in Spines
    BY <2>8 DEF Onward, Moves
  <2>10. Keeps(told, limited) /\ Keeps(told, told)
    BY <2>5, <2>9, LimitOnward, OnwardSame DEF Keeps
  <2>11. Keeps(told, holding)
    BY <2>10
  <2> HIDE DEF holding
  <2>12. holding \in Spines
    BY <2>9, <2>11, OnwardCounted DEF Keeps, Onward, Moves
  <2>13. Onward(holding, checked) /\ (Plain(holding) => Plain(checked))
    BY <2>12, RecordKeeps
  <2> HIDE DEF checked
  <2>14. checked \in Spines
    BY <2>13 DEF Onward, Moves
  <2>15. Onward(checked, done) /\ (Plain(s) /\ Plain(checked) => Plain(done))
    BY <2>4, <2>5, <2>14, SetTopOnward, SetTopPlain
  <2>16. Onward(s, checked)
    BY <2>6, <2>8, <2>11, <2>13, OnwardThen DEF Keeps
  <2>17. Onward(s, done)
    BY <2>15, <2>16, OnwardThen
  <2>18. QED
    BY <2>3, <2>8, <2>11, <2>13, <2>15, <2>16, <2>17 DEF Keeps
<1>3. QED
  BY <1>1, <1>2

LEMMA OnMemberCommaKeeps ==
  ASSUME NEW s \in Spines, s.frames # <<>> \/ s.opaque > 0
  PROVE  Keeps(s, OnMemberComma(s))
<1>1. CASE s.opaque > 0 \/ (Discards(s) /\ s.discard.depth # Len(s.frames))
  BY <1>1, OnwardSame DEF OnMemberComma, Keeps
<1>2. CASE ~(s.opaque > 0 \/ (Discards(s) /\ s.discard.depth # Len(s.frames)))
  <2> DEFINE o == s.tok.pos
  <2> DEFINE ended == IF Discards(s) THEN EndDiscard(s, o) ELSE s
  <2> DEFINE top == [Top(s) EXCEPT !.prefix = o, !.comma = TRUE]
  <2> DEFINE holding == SetTop(ended, top)
  <2> DEFINE limited == Limit(holding, "prefix", o + MaxPrefix)
  <2>1. OnMemberComma(s) = IF Top(s).hooks THEN limited ELSE ended
    BY <1>2 DEF OnMemberComma
  <2>2. Top(s) \in FrameType /\ o \in Nat /\ o + MaxPrefix \in Int
    <3>1. Top(s) \in FrameType
      BY <1>2, TopType
    <3>2. o \in Nat
      BY SpineType
    <3>3. o + MaxPrefix \in Int
      BY <3>2, Numbers
    <3>4. QED
      BY <3>1, <3>2, <3>3
  <2>3. top \in FrameType
    BY <2>2 DEF FrameType
  <2>4. Plain(s) => ~Top(s).hooks /\ ended = s
    BY <1>2, TopPlain, PlainIdle
  <2> HIDE DEF top
  <2>5. Onward(s, ended)
    BY <2>2, EndDiscardOnward, OnwardSame
  <2> HIDE DEF ended
  <2>6. ended \in Spines
    BY <2>5 DEF Onward, Moves
  <2>7. Onward(ended, holding)
    BY <2>3, <2>6, SetTopOnward
  <2> HIDE DEF holding
  <2>8. holding \in Spines
    BY <2>7 DEF Onward, Moves
  <2>9. Keeps(holding, limited)
    BY <2>2, <2>8, LimitOnward
  <2>10. Onward(s, limited)
    BY <2>5, <2>7, <2>9, OnwardThen DEF Keeps
  <2>11. QED
    BY <2>1, <2>4, <2>5, <2>10 DEF Keeps
<1>3. QED
  BY <1>1, <1>2

LEMMA OnStringEndKeeps ==
  ASSUME NEW s \in Spines, NEW u PROVE Keeps(s, OnStringEnd(s, u))
<1> DEFINE t == IF DropOpen(s) /\ s.discard.nest = 0 THEN EndDroppedValue(s, s.tok.pos + 1) ELSE s
<1> DEFINE r == Told(t, u)
<1> DEFINE q == Record(r, u)
<1>1. OnStringEnd(s, u) \in {t, q}
  BY DEF OnStringEnd
<1>2. s.tok.pos + 1 \in Nat
  BY SpineType
<1>3. Keeps(s, t)
  BY <1>2, EndDroppedValueOnward, OnwardSame, PlainIdle DEF Keeps
<1> HIDE DEF t
<1>4. t \in Spines
  BY <1>3 DEF Keeps, Onward, Moves
<1>5. Keeps(t, r)
  BY <1>4, ToldKeeps DEF Keeps
<1> HIDE DEF r
<1>6. r \in Spines
  BY <1>5 DEF Keeps, Onward, Moves
<1>7. Keeps(r, q)
  BY <1>6, RecordKeeps DEF Keeps
<1>8. QED
  BY <1>1, <1>3, <1>5, <1>7, KeepsThen

LEMMA OnScalarKeeps ==
  ASSUME NEW s \in Spines, Counted(s), NEW value \in ValueType, NEW u, u.decision \in Decisions
  PROVE  /\ Keeps(s, Record(DecideMember(s, value, u), u))
         /\ Keeps(s, Record(Told(DecideMember(s, value, u), u), u))
<1> DEFINE t == DecideMember(s, value, u)
<1> DEFINE r == Told(t, u)
<1>1. Keeps(s, t)
  BY DecideMemberKeeps
<1> HIDE DEF t
<1>2. t \in Spines
  BY <1>1 DEF Keeps, Onward, Moves
<1>3. Keeps(t, r)
  BY <1>2, ToldKeeps DEF Keeps
<1> HIDE DEF r
<1>4. r \in Spines
  BY <1>3 DEF Keeps, Onward, Moves
<1>5. Keeps(t, Record(t, u)) /\ Keeps(r, Record(r, u))
  BY <1>2, <1>4, RecordKeeps DEF Keeps
<1>6. Keeps(s, Record(t, u)) /\ Keeps(s, Record(r, u))
  BY <1>1, <1>3, <1>5, KeepsThen
<1>7. QED
  BY <1>6 DEF t, r

-----------------------------------------------------------------------------
(* One event, and one turn of the loop. *)
Opens(s, t) == Moves(s, t, 1, 0) \/ Moves(s, t, 0, 1)

Answering(u) == u.decision \in Decisions /\ u.scoped \in BOOLEAN

LEMMA HandleMoves ==
  ASSUME NEW s \in Spines, Counted(s), NEW u, Answering(u), NEW event \in Events,
         event.type \in Ends \cup Within => s.frames # <<>> \/ s.opaque > 0
  PROVE  LET t == Handle(s, event, u)
         IN  /\ event.type \in Starts => Opens(s, t)
             /\ event.type \in Ends => Closes(s, t)
             /\ event.type \notin Starts \cup Ends => Onward(s, t)
             /\ Plain(s) /\ Unedited(u) => Plain(t)
<1>1. event.key \in Seq(Byte) /\ event.start \in Nat
  BY DEF Events
<1>2. event.type \in Starts \cup Ends \cup Within
                       \cup {"none", "stringStart", "text", "stringEnd", "number", "literal", "error"}
  BY DEF Events
<1>3. u.decision \in Decisions /\ u.scoped \in BOOLEAN
  BY DEF Answering
<1>4. CASE event.type \in Starts
  <2>1. PICK kind \in Contexts : Handle(s, event, u) = OnStart(s, kind, u)
    BY <1>4 DEF Starts, Contexts, Handle
  <2>2. event.type \notin Ends
    BY <1>4 DEF Starts, Ends
  <2>3. QED
    BY <1>3, <1>4, <2>1, <2>2, OnStartMoves DEF Opens
<1>5. CASE event.type = "endObject"
  <2>1. Handle(s, event, u) = OnEndObject(s, u) /\ event.type \notin Starts
    BY <1>5 DEF Starts, Handle
  <2>2. s.frames # <<>> \/ s.opaque > 0
    BY <1>5 DEF Ends
  <2>3. Closes(s, OnEndObject(s, u)) /\ (Plain(s) /\ Unedited(u) => Plain(OnEndObject(s, u)))
    BY <2>2, OnEndObjectMoves
  <2>4. QED
    BY <1>5, <2>1, <2>3 DEF Ends
<1>6. CASE event.type = "endArray"
  <2>1. Handle(s, event, u) = OnEndArray(s, u) /\ event.type \notin Starts
    BY <1>6 DEF Starts, Handle
  <2>2. s.frames # <<>> \/ s.opaque > 0
    BY <1>6 DEF Ends
  <2>3. Closes(s, OnEndArray(s, u)) /\ (Plain(s) /\ Unedited(u) => Plain(OnEndArray(s, u)))
    BY <2>2, OnEndArrayMoves
  <2>4. QED
    BY <1>6, <2>1, <2>3 DEF Ends
<1>7. CASE event.type \notin Starts \cup Ends
  <2> DEFINE t == Handle(s, event, u)
  <2>1. SUFFICES Keeps(s, t)
    BY <1>7 DEF Keeps
  <2>2. Keeps(s, s)
    BY OnwardSame DEF Keeps
  <2>3. CASE event.type = "key"
    <3>1. t = OnKey(s, event.key, event.start, u)
      BY <2>3 DEF Handle
    <3>2. QED
      BY <1>1, <2>3, <3>1, OnKeyKeeps DEF Within
  <2>4. CASE event.type = "memberComma"
    <3>1. t = OnMemberComma(s)
      BY <2>4 DEF Handle
    <3>2. QED
      BY <2>4, <3>1, OnMemberCommaKeeps DEF Within
  <2> DEFINE open == Value(s.tok.pos, Infinity, FALSE)
  <2> DEFINE number == Value(event.start, s.tok.pos, FALSE)
  <2> DEFINE literal == Value(event.start, s.tok.pos + 1, FALSE)
  <2>5. open \in ValueType /\ number \in ValueType /\ literal \in ValueType
    <3>1. s.tok.pos \in Nat /\ s.tok.pos + 1 \in Nat /\ Infinity \in Nat
      BY SpineType, Numbers
    <3>2. QED
      BY <1>1, <3>1 DEF Value, ValueType
  <2>6. CASE event.type = "stringStart"
    <3>1. t \in {s, Record(DecideMember(s, open, u), u)}
      BY <2>6 DEF Handle, OnStringStart
    <3> HIDE DEF open, t
    <3>2. QED
      BY <1>3, <2>2, <2>5, <3>1, OnScalarKeeps
  <2>7. CASE event.type = "text"
    <3>1. t \in {s, Record(s, u)}
      BY <2>7 DEF Handle, OnStringChunk
    <3> HIDE DEF t
    <3>2. QED
      BY <2>2, <3>1, RecordKeeps DEF Keeps
  <2>8. CASE event.type = "stringEnd"
    <3>1. t = OnStringEnd(s, u)
      BY <2>8 DEF Handle
    <3>2. QED
      BY <3>1, OnStringEndKeeps
  <2>9. CASE event.type = "number"
    <3>1. t \in {s, Record(Told(DecideMember(s, number, u), u), u)}
      BY <2>9 DEF Handle, OnScalar
    <3> HIDE DEF number, t
    <3>2. QED
      BY <1>3, <2>2, <2>5, <3>1, OnScalarKeeps
  <2>10. CASE event.type = "literal"
    <3>1. t \in {s, Record(Told(DecideMember(s, literal, u), u), u)}
      BY <2>10 DEF Handle, OnScalar
    <3> HIDE DEF literal, t
    <3>2. QED
      BY <1>3, <2>2, <2>5, <3>1, OnScalarKeeps
  <2>11. CASE event.type = "error"
    BY <2>11, ThrowKeeps DEF Handle
  <2>12. CASE event.type = "none"
    BY <2>2, <2>12 DEF Handle
  <2>13. QED
    BY <1>2, <1>7, <2>3, <2>4, <2>6, <2>7, <2>8, <2>9, <2>10, <2>11, <2>12 DEF Within
<1>8. QED
  BY <1>4, <1>5, <1>6, <1>7 DEF Ends

(* The containers of the text are those the spine follows, by a frame or
   within an opaque value. *)
Sized(s) == s.disposed \/ Threw(s) \/ Len(s.tok.stack) = Len(s.frames) + s.opaque

SpineOK(s) == s \in Spines /\ Counted(s) /\ (s.disposed \/ Sound(s.tok)) /\ Sized(s)

(* What one turn of the loop makes of the spine. *)
Turns(s, t) ==
  /\ SpineOK(t)
  /\ t.tok.pos \in {s.tok.pos, s.tok.pos + 1}
  /\ t.violations >= s.violations

LEMMA DeliverTurns ==
  ASSUME NEW s, SpineOK(s), ~s.disposed, ~Threw(s), NEW u, Answering(u),
         NEW r, Tells(s.tok, r), Sound(r.t), r.t.pos \in {s.tok.pos, s.tok.pos + 1}
  PROVE  LET t == Deliver(s, r, u)
         IN  Turns(s, t) /\ t.tok.pos \in {s.tok.pos, r.t.pos} /\ (Plain(s) /\ Unedited(u) => Plain(t))
<1> DEFINE event == r.event
<1> DEFINE t == Handle(s, event, u)
<1> DEFINE read == [t EXCEPT !.tok = r.t]
<1>1. /\ s \in Spines /\ Counted(s) /\ Sound(s.tok) /\ event \in Events
      /\ Len(s.tok.stack) = Len(s.frames) + s.opaque
  BY DEF SpineOK, Sized, Tells
<1>2. /\ Len(s.frames) \in Nat /\ s.opaque \in Nat /\ Len(s.tok.stack) \in Nat
      /\ s.frames \in Seq(FrameType) /\ s.violations \in Nat
  BY <1>1, SpineType DEF Sound, Tokenizers
<1>3. event.type \in Ends \cup Within => s.frames # <<>> \/ s.opaque > 0
  BY <1>1, <1>2 DEF Tells
<1>4. /\ event.type \in Starts => Opens(s, t)
      /\ event.type \in Ends => Closes(s, t)
      /\ event.type \notin Starts \cup Ends => Onward(s, t)
      /\ Plain(s) /\ Unedited(u) => Plain(t)
  BY <1>1, <1>3, HandleMoves
<1>5. Deliver(s, r, u) = IF Threw(t) \/ t.disposed THEN t ELSE read
  BY DEF Deliver
<1> HIDE DEF t
<1>6. /\ t \in Spines /\ Counted(t) /\ t.tok.pos = s.tok.pos /\ (t.disposed \/ t.tok = s.tok)
      /\ t.violations >= s.violations
  BY <1>1, <1>4 DEF Opens, Closes, Onward, Moves
<1>7. CASE Threw(t) \/ t.disposed
  <2>1. SpineOK(t)
    BY <1>1, <1>6, <1>7 DEF SpineOK, Sized
  <2>2. QED
    BY <1>4, <1>5, <1>6, <1>7, <2>1 DEF Turns
<1>8. CASE ~(Threw(t) \/ t.disposed)
  <2>1. /\ event.type \in Starts => Len(t.frames) + t.opaque = Len(s.frames) + s.opaque + 1
        /\ event.type \in Ends => Len(t.frames) + t.opaque = Len(s.frames) + s.opaque - 1
        /\ event.type \notin Starts \cup Ends => Len(t.frames) + t.opaque = Len(s.frames) + s.opaque
    <3>1. Len(t.frames) \in Nat /\ t.opaque \in Nat
      BY <1>6, SpineType
    <3>2. ASSUME NEW d \in Int, NEW e \in Int, Moves(s, t, d, e)
          PROVE  Len(t.frames) + t.opaque = Len(s.frames) + s.opaque + (d + e)
      <4>1. Len(t.frames) = Len(s.frames) + d /\ t.opaque = s.opaque + e
        BY <1>8, <3>2 DEF Moves
      <4>2. QED
        BY <1>2, <3>1, <4>1
    <3>3. Opens(s, t) => Len(t.frames) + t.opaque = Len(s.frames) + s.opaque + 1
      BY <3>2, 1 + 0 = 1, 0 + 1 = 1 DEF Opens
    <3>4. Closes(s, t) => Len(t.frames) + t.opaque = Len(s.frames) + s.opaque - 1
      <4>1. Closes(s, t) => Len(t.frames) + t.opaque = Len(s.frames) + s.opaque + -1
        BY <3>2, -1 + 0 = -1, 0 + -1 = -1 DEF Closes
      <4>2. QED
        BY <1>2, <4>1
    <3>5. Onward(s, t) => Len(t.frames) + t.opaque = Len(s.frames) + s.opaque
      <4>1. Onward(s, t) => Len(t.frames) + t.opaque = Len(s.frames) + s.opaque + 0
        BY <3>2, 0 + 0 = 0 DEF Onward
      <4>2. QED
        BY <1>2, <4>1
    <3>6. QED
      BY <1>4, <3>3, <3>4, <3>5
  <2>2. Len(r.t.stack) = Len(t.frames) + t.opaque
    <3>1. event.type \in Starts => event.type \notin Ends
      BY DEF Starts, Ends
    <3>2. QED
      BY <1>1, <1>2, <2>1, <3>1 DEF Tells
  <2>3. read \in Spines
    BY <1>6, SetFields DEF Sound
  <2>4. /\ read.tok = r.t /\ read.frames = t.frames /\ read.opaque = t.opaque
        /\ read.violations = t.violations /\ read.deferred = t.deferred
        /\ read.thrown = t.thrown /\ read.disposed = t.disposed
    BY <1>6, SetReads DEF Fields
  <2>5. Plain(t) => Plain(read)
    BY <1>6, SetPlain DEF Fields
  <2> HIDE DEF read
  <2>6. SpineOK(read)
    BY <1>6, <2>2, <2>3, <2>4 DEF SpineOK, Sized, Counted
  <2>7. QED
    BY <1>4, <1>5, <1>6, <1>8, <2>4, <2>5, <2>6 DEF Turns
<1>9. QED
  BY <1>7, <1>8

LEMMA ThrowTurns ==
  ASSUME NEW s, SpineOK(s)
  PROVE  LET t == Throw(s, "fatal") IN Turns(s, t) /\ (Plain(s) => Plain(t))
<1> DEFINE t == Throw(s, "fatal")
<1>1. s \in Spines /\ Counted(s) /\ (s.disposed \/ Sound(s.tok))
  BY DEF SpineOK
<1>2. Keeps(s, t)
  BY <1>1, ThrowKeeps
<1>3. t.thrown = "fatal"
  BY <1>1 DEF Throw, Spines
<1> HIDE DEF t
<1>4. SpineOK(t)
  BY <1>1, <1>2, <1>3 DEF SpineOK, Sized, Threw, Keeps, Onward, Moves
<1>5. QED
  BY <1>2, <1>4 DEF Turns, Keeps, Onward, Moves, t

LEMMA StepTurns ==
  ASSUME NEW s, SpineOK(s), ~s.disposed, ~Threw(s), NEW u, Answering(u), NEW b \in Byte
  PROVE  LET t == Step(s, b, u) IN Turns(s, t) /\ (Plain(s) /\ Unedited(u) => Plain(t))
<1>1. CASE AtLimit(s, b)
  BY <1>1, ThrowTurns DEF Step
<1>2. CASE ~AtLimit(s, b)
  <2> DEFINE r == Scan(s.tok, b)
  <2>1. Sound(s.tok)
    BY DEF SpineOK
  <2>2. Tells(s.tok, r) /\ Sound(r.t) /\ r.t.pos \in {s.tok.pos, s.tok.pos + 1}
    BY <2>1, ScanTells, ScanSound, ScanAdvances DEF Sound
  <2>3. Step(s, b, u) = Deliver(s, r, u)
    BY <1>2 DEF Step
  <2> HIDE DEF r
  <2>4. QED
    BY <2>2, <2>3, DeliverTurns
<1>3. QED
  BY <1>1, <1>2

LEMMA EndStepTurns ==
  ASSUME NEW s, SpineOK(s), ~s.disposed, ~Threw(s), NEW u, Answering(u)
  PROVE  LET t == EndStep(s, u)
         IN  Turns(s, t) /\ t.tok.pos = s.tok.pos /\ (Plain(s) /\ Unedited(u) => Plain(t))
<1> DEFINE r == FinishNumber(s.tok)
<1>1. Sound(s.tok)
  BY DEF SpineOK
<1>2. Tells(s.tok, r) /\ Sound(r.t) /\ r.t.pos = s.tok.pos
  BY <1>1, FinishNumberTells, FinishNumberSound DEF Sound
<1>3. EndStep(s, u) = Deliver(s, r, u)
  BY DEF EndStep
<1> HIDE DEF r
<1>4. QED
  BY <1>2, <1>3, DeliverTurns

-----------------------------------------------------------------------------
(* What the driver leaves of a spine: its edits flushed, or all of it
   released. *)
Others == Fields \ {"edits"}

LEMMA EditsLeft ==
  ASSUME NEW s, SpineOK(s), NEW x, x \subseteq s.edits
  PROVE  LET t == [s EXCEPT !.edits = x]
         IN  /\ SpineOK(t) /\ t.edits = x /\ \A f \in Others : t[f] = s[f]
             /\ Plain(s) => Plain(t)
<1> DEFINE t == [s EXCEPT !.edits = x]
<1>1. s \in Spines /\ Counted(s) /\ (s.disposed \/ Sound(s.tok)) /\ Sized(s)
  BY DEF SpineOK
<1>2. s.edits \in SUBSET EditType
  BY <1>1, SpineType
<1>3. t \in Spines
  BY <1>1, <1>2, SetFields
<1>4. t.edits = x /\ \A f \in Others : t[f] = s[f]
  BY <1>1, SetReads DEF Others, Fields
<1> HIDE DEF t
<1>5. /\ t.tok = s.tok /\ t.frames = s.frames /\ t.opaque = s.opaque /\ t.discard = s.discard
      /\ t.violations = s.violations /\ t.deferred = s.deferred
      /\ t.thrown = s.thrown /\ t.disposed = s.disposed
  BY <1>4 DEF Others, Fields
<1>6. SpineOK(t)
  BY <1>1, <1>3, <1>5 DEF SpineOK, Counted, Sized, Threw
<1>7. Plain(s) => Plain(t)
  BY <1>4, <1>5 DEF Plain
<1>8. QED
  BY <1>4, <1>6, <1>7 DEF t

LEMMA DisposeLeft ==
  ASSUME NEW s, SpineOK(s)
  PROVE  LET t == Dispose(s)
         IN  /\ SpineOK(t) /\ t.disposed /\ t.tok.pos = s.tok.pos /\ t.violations = s.violations
             /\ t.edits = s.edits /\ t.frames = <<>> /\ t.discard = NoDiscard
             /\ Plain(s) => Plain(t)
<1> DEFINE t == Dispose(s)
<1>1. s \in Spines /\ Counted(s)
  BY DEF SpineOK
<1>2. /\ t \in Spines /\ t.disposed /\ t.tok.pos = s.tok.pos /\ t.violations = s.violations
      /\ t.thrown = s.thrown /\ t.edits = s.edits /\ t.frames = <<>> /\ t.discard = NoDiscard
      /\ t.deferred = s.deferred
  BY <1>1, DisposeType
<1> HIDE DEF t
<1>3. SpineOK(t)
  BY <1>1, <1>2 DEF SpineOK, Counted, Sized
<1>4. Plain(s) => Plain(t)
  BY <1>2 DEF Plain
<1>5. QED
  BY <1>2, <1>3, <1>4 DEF t

(* What a released spine holds of the input: nothing. *)
Empty(s) == s.edits = {} /\ s.frames = <<>> /\ s.discard = NoDiscard

LEMMA ReleasedLeft ==
  ASSUME NEW s, SpineOK(s)
  PROVE  LET t == [Dispose(s) EXCEPT !.edits = {}]
         IN  /\ SpineOK(t) /\ t.disposed /\ t.tok.pos = s.tok.pos /\ t.violations = s.violations
             /\ Empty(t) /\ Plain(t)
<1> DEFINE d == Dispose(s)
<1> DEFINE t == [d EXCEPT !.edits = {}]
<1>1. /\ SpineOK(d) /\ d.disposed /\ d.tok.pos = s.tok.pos /\ d.violations = s.violations
      /\ d.frames = <<>> /\ d.discard = NoDiscard
  BY DisposeLeft
<1> HIDE DEF d
<1>2. SpineOK(t) /\ t.edits = {} /\ \A f \in Others : t[f] = d[f]
  BY <1>1, EditsLeft
<1> HIDE DEF t
<1>3. /\ t.disposed = d.disposed /\ t.tok = d.tok /\ t.violations = d.violations
      /\ t.frames = d.frames /\ t.discard = d.discard
  BY <1>2 DEF Others, Fields
<1>4. Empty(t) /\ Plain(t)
  BY <1>1, <1>2, <1>3 DEF Empty, Plain
<1>5. QED
  BY <1>1, <1>2, <1>3, <1>4 DEF t, d

-----------------------------------------------------------------------------
(* The byte limit and the span it bounds.  stack and place are where the
   text stands, between tokens unless a member's value is awaited or a string
   read; more counts the containers of the text that open (1) or close (-1)
   with the event under way. *)
Stopped(s) == s.disposed \/ Threw(s)

Kinds(s, stack) ==
  /\ stack \in Seq(Contexts) /\ Len(stack) = Len(s.frames) + s.opaque
  /\ \A i \in DOMAIN s.frames : s.frames[i].kind = stack[i]

(* The prefix is held from a brace or a comma of an object whose members are
   decided until a value starts, and of the innermost object only. *)
Holds(s, place) ==
  \A i \in DOMAIN s.frames :
    /\ s.frames[i].hooks => s.frames[i].kind = "object"
    /\ (s.frames[i].prefix # Infinity)
         <=> (i = Len(s.frames) /\ s.frames[i].hooks /\ ~Discards(s) /\ s.opaque = 0 /\ place = "before")
    /\ Discards(s) /\ i > s.discard.depth => ~s.frames[i].hooks

(* A dropped value is open while a container of it or its string is. *)
Drops(s, place, more) ==
  /\ Discards(s) => /\ s.discard.depth \in 1..Len(s.frames)
                    /\ s.frames[s.discard.depth].kind = "object"
  /\ DropOpen(s) => /\ s.discard.nest >= 0
                    /\ Len(s.frames) + s.opaque + more = s.discard.depth + s.discard.nest
                    /\ s.discard.nest = 0 => place = "string"

Armed(s) ==
  /\ s.limit.kind = "prefix" <=> (s.frames # <<>> /\ Top(s).prefix # Infinity)
  /\ s.limit.kind = "drop" <=> (DropOpen(s) /\ MaxDrop # Infinity)

Spans(s, stack, place, more) ==
  Kinds(s, stack) /\ Holds(s, place) /\ Drops(s, place, more) /\ Armed(s)

Fits(s, stack, place, more) == Stopped(s) \/ Spans(s, stack, place, more)

(* The parts of the spine the spans are read from. *)
Agree(s, t) ==
  t.frames = s.frames /\ t.opaque = s.opaque /\ t.discard = s.discard /\ t.limit = s.limit

LEMMA AgreeSpans ==
  ASSUME NEW s, NEW t, Agree(s, t), NEW stack, NEW place, NEW more,
         Spans(s, stack, place, more)
  PROVE  Spans(t, stack, place, more)
  BY DEF Agree, Spans, Kinds, Holds, Drops, Armed, Discards, DropOpen, Top

(* User code and a failure stop the spine or leave its spans. *)
Leaves(s, t) == Stopped(t) \/ (~Stopped(s) /\ Agree(s, t))

LEMMA LeavesFits ==
  ASSUME NEW s, NEW t, Leaves(s, t), NEW stack, NEW place, NEW more,
         Fits(s, stack, place, more)
  PROVE  Fits(t, stack, place, more)
  BY AgreeSpans DEF Leaves, Fits

LEMMA StoppedOn ==
  ASSUME NEW s, NEW t, NEW d, NEW e, Moves(s, t, d, e), Stopped(s) PROVE Stopped(t)
  BY DEF Moves, Stopped

LEMMA LeavesThen ==
  ASSUME NEW s, NEW t, NEW r, Leaves(s, t), Leaves(t, r) PROVE Leaves(s, r)
  BY DEF Leaves, Agree

LEMMA AgreeLeaves ==
  ASSUME NEW s \in Spines,
         NEW f \in {"edits", "violations", "deferred"}, NEW x
  PROVE  Leaves(s, [s EXCEPT ![f] = x])
<1> DEFINE t == [s EXCEPT ![f] = x]
<1>1. \A g \in Fields \ {f} : t[g] = s[g]
  BY SetReads DEF Fields
<1> HIDE DEF t
<1>2. Agree(s, t) /\ t.disposed = s.disposed /\ t.thrown = s.thrown
  BY <1>1 DEF Agree, Fields
<1>3. QED
  BY <1>2 DEF Leaves, Stopped, Threw, t

LEMMA SameLeaves == ASSUME NEW s PROVE Leaves(s, s)
  BY DEF Leaves, Agree

LEMMA ThrowStops == ASSUME NEW s \in Spines, NEW x, x # "none" PROVE Stopped(Throw(s, x))
  BY DEF Throw, Spines, Stopped, Threw

LEMMA UserCodeLeaves == ASSUME NEW s \in Spines, NEW u PROVE Leaves(s, UserCode(s, u))
  BY UserCodeKeeps, SameLeaves DEF Leaves, Stopped

LEMMA ToldLeaves == ASSUME NEW s \in Spines, NEW u PROVE Leaves(s, Told(s, u))
  BY UserCodeLeaves, SameLeaves DEF Told

LEMMA SettleBudgetLeaves == ASSUME NEW s \in Spines PROVE Leaves(s, SettleBudget(s))
  BY ThrowStops, SameLeaves DEF SettleBudget, Leaves

LEMMA RecordLeaves == ASSUME NEW s \in Spines, NEW u PROVE Leaves(s, Record(s, u))
<1>1. CASE ~u.fails \/ s.deferred \/ Threw(s)
  BY <1>1, SameLeaves DEF Record
<1>2. CASE ~(~u.fails \/ s.deferred \/ Threw(s))
  <2> DEFINE r == [s EXCEPT !.violations = @ + 1]
  <2> DEFINE t == UserCode(r, u)
  <2>1. Record(s, u) \in {t, [t EXCEPT !.deferred = TRUE], Throw(t, "budget")}
    BY <1>2 DEF Record
  <2>2. Leaves(s, r) /\ Onward(s, r)
    BY AgreeLeaves, SetMoves
  <2> HIDE DEF r
  <2>3. r \in Spines
    BY <2>2 DEF Onward, Moves
  <2>4. Leaves(r, t) /\ Onward(r, t)
    BY <2>3, UserCodeLeaves, UserCodeKeeps
  <2> HIDE DEF t
  <2>5. t \in Spines
    BY <2>4 DEF Onward, Moves
  <2>6. Leaves(t, [t EXCEPT !.deferred = TRUE]) /\ Leaves(t, Throw(t, "budget"))
    BY <2>5, AgreeLeaves, ThrowStops DEF Leaves
  <2>7. Leaves(s, t)
    BY <2>2, <2>4, LeavesThen
  <2>8. Leaves(s, [t EXCEPT !.deferred = TRUE]) /\ Leaves(s, Throw(t, "budget"))
    BY <2>6, <2>7, LeavesThen, Zenon
  <2>9. QED
    BY <2>1, <2>7, <2>8
<1>3. QED
  BY <1>1, <1>2

(* A dropped value: what is counted of it, and its end. *)
LEMMA DiscardSet ==
  ASSUME NEW s \in Spines, NEW x \in DiscardType
  PROVE  LET t == [s EXCEPT !.discard = x] IN
         /\ t \in Spines /\ t.discard = x /\ t.frames = s.frames /\ t.opaque = s.opaque
         /\ t.limit = s.limit /\ t.disposed = s.disposed /\ t.thrown = s.thrown
<1> DEFINE t == [s EXCEPT !.discard = x]
<1>1. t \in Spines
  BY SetFields
<1>2. t.discard = x /\ \A g \in Fields \ {"discard"} : t[g] = s[g]
  BY SetReads DEF Fields
<1> HIDE DEF t
<1>3. /\ t.frames = s.frames /\ t.opaque = s.opaque /\ t.limit = s.limit
      /\ t.disposed = s.disposed /\ t.thrown = s.thrown
  BY <1>2 DEF Fields
<1>4. QED
  BY <1>1, <1>2, <1>3 DEF t

LEMMA NestSet ==
  ASSUME NEW s \in Spines, NEW n \in Int, NEW t, t = [s EXCEPT !.discard.nest = n]
  PROVE  /\ t \in Spines /\ t.discard = [s.discard EXCEPT !.nest = n]
         /\ t.discard.nest = n /\ t.discard.start = s.discard.start
         /\ t.discard.depth = s.discard.depth /\ t.discard.valueEnd = s.discard.valueEnd
         /\ t.frames = s.frames /\ t.opaque = s.opaque
         /\ t.limit = s.limit /\ t.disposed = s.disposed /\ t.thrown = s.thrown
<1> DEFINE x == [s.discard EXCEPT !.nest = n]
<1>1. s.discard \in DiscardType
  BY SpineType
<1>2. /\ x \in DiscardType /\ x.nest = n /\ x.start = s.discard.start
      /\ x.depth = s.discard.depth /\ x.valueEnd = s.discard.valueEnd
  BY <1>1 DEF DiscardType
<1>3. t = [s EXCEPT !.discard = x]
  OBVIOUS
<1> HIDE DEF x
<1>4. /\ [s EXCEPT !.discard = x] \in Spines /\ [s EXCEPT !.discard = x].discard = x
      /\ \A f \in {"frames", "opaque", "limit", "disposed", "thrown"} :
           [s EXCEPT !.discard = x][f] = s[f]
  BY <1>2, DiscardSet
<1>5. QED
  BY <1>2, <1>3, <1>4 DEF x

(* A limit is lifted or set. *)
LEMMA LimitIs ==
  ASSUME NEW s \in Spines, NEW x \in LimitType
  PROVE  LET t == [s EXCEPT !.limit = x] IN
         /\ t \in Spines /\ t.limit = x /\ t.frames = s.frames /\ t.opaque = s.opaque
         /\ t.discard = s.discard /\ t.disposed = s.disposed /\ t.thrown = s.thrown
<1> DEFINE t == [s EXCEPT !.limit = x]
<1>1. t \in Spines
  BY SetFields
<1>2. t.limit = x /\ \A g \in Fields \ {"limit"} : t[g] = s[g]
  BY SetReads DEF Fields
<1> HIDE DEF t
<1>3. /\ t.frames = s.frames /\ t.opaque = s.opaque /\ t.discard = s.discard
      /\ t.disposed = s.disposed /\ t.thrown = s.thrown
  BY <1>2 DEF Fields
<1>4. QED
  BY <1>1, <1>2, <1>3 DEF t

LEMMA LimitCleared ==
  ASSUME NEW s \in Spines
  PROVE  LET t == ClearLimit(s)
         IN  /\ t \in Spines /\ t.limit.kind = "none" /\ t.frames = s.frames
             /\ t.opaque = s.opaque /\ t.discard = s.discard
             /\ t.disposed = s.disposed /\ t.thrown = s.thrown
<1>1. NoLimit \in LimitType /\ NoLimit.kind = "none"
  BY Numbers DEF NoLimit, LimitType
<1> DEFINE t == ClearLimit(s)
<1>2. t = [s EXCEPT !.limit = NoLimit]
  BY DEF ClearLimit
<1> HIDE DEF t
<1>3. /\ t \in Spines /\ t.limit = NoLimit /\ t.frames = s.frames /\ t.opaque = s.opaque
      /\ t.discard = s.discard /\ t.disposed = s.disposed /\ t.thrown = s.thrown
  BY <1>1, <1>2, LimitIs
<1>4. QED
  BY <1>1, <1>3 DEF t

LEMMA LimitSet ==
  ASSUME NEW s \in Spines, NEW kind \in {"prefix", "drop"}, NEW at \in Int
  PROVE  LET t == Limit(s, kind, at)
         IN  /\ t \in Spines /\ t.limit.kind = kind /\ t.frames = s.frames
             /\ t.opaque = s.opaque /\ t.discard = s.discard
             /\ t.disposed = s.disposed /\ t.thrown = s.thrown
<1> DEFINE x == [kind |-> kind, at |-> at]
<1>1. x \in LimitType /\ x.kind = kind
  BY DEF LimitType
<1> DEFINE t == Limit(s, kind, at)
<1>2. t = [s EXCEPT !.limit = x]
  BY DEF Limit
<1> HIDE DEF x, t
<1>3. /\ t \in Spines /\ t.limit = x /\ t.frames = s.frames /\ t.opaque = s.opaque
      /\ t.discard = s.discard /\ t.disposed = s.disposed /\ t.thrown = s.thrown
  BY <1>1, <1>2, LimitIs
<1>4. QED
  BY <1>1, <1>3 DEF t

LEMMA DiscardHoldsNothing ==
  ASSUME NEW s \in Spines, NEW place, Holds(s, place), Discards(s), s.frames # <<>>
  PROVE  Top(s).prefix = Infinity
<1>1. Len(s.frames) \in DOMAIN s.frames
  BY SpineType
<1>2. QED
  BY <1>1 DEF Holds, Top

LEMMA Counts ==
  ASSUME NEW a \in Nat, NEW b \in Nat, NEW c \in Nat, NEW d \in Int, a + b + 0 = c + d
  PROVE  a + b + 1 = c + (d + 1) /\ a + b + -1 = c + (d - 1)
  OBVIOUS

LEMMA NoteDropOpenSpans ==
  ASSUME NEW s \in Spines, NEW stack, NEW place, place # "string",
         Spans(s, stack, place, 0)
  PROVE  /\ NoteDropOpen(s) \in Spines
         /\ Spans(NoteDropOpen(s), stack, place, 1)
         /\ NoteDropOpen(s).opaque = s.opaque /\ NoteDropOpen(s).disposed = s.disposed
         /\ NoteDropOpen(s).thrown = s.thrown
<1>1. Len(s.frames) \in Nat /\ s.opaque \in Nat
  BY SpineType
<1>2. CASE DropOpen(s)
  <2> DEFINE n == s.discard.nest + 1
  <2> DEFINE t == [s EXCEPT !.discard.nest = n]
  <2>1. s.discard.nest \in Int /\ s.discard.depth \in Nat
    BY SpineType DEF DiscardType
  <2>2. NoteDropOpen(s) = t /\ n \in Int
    BY <1>2, <2>1 DEF NoteDropOpen
  <2>3. /\ t \in Spines /\ t.discard.nest = n /\ t.discard.start = s.discard.start
        /\ t.discard.depth = s.discard.depth /\ t.discard.valueEnd = s.discard.valueEnd
        /\ t.frames = s.frames /\ t.opaque = s.opaque /\ t.limit = s.limit
        /\ t.disposed = s.disposed /\ t.thrown = s.thrown
    BY <2>2, NestSet
  <2> HIDE DEF t
  <2>4. Kinds(t, stack) /\ Holds(t, place) /\ Armed(t)
    BY <2>3 DEF Spans, Kinds, Holds, Armed, Discards, DropOpen, Top
  <2>a. /\ Len(s.frames) + s.opaque + 0 = s.discard.depth + s.discard.nest
        /\ s.discard.nest >= 0 /\ s.discard.depth \in 1..Len(s.frames)
    BY <1>2 DEF Spans, Drops, DropOpen
  <2>b. /\ t.discard.depth \in 1..Len(t.frames) /\ t.discard.nest >= 0 /\ t.discard.nest # 0
        /\ Len(t.frames) + t.opaque + 1 = t.discard.depth + t.discard.nest
    <3>1. t.discard.depth \in 1..Len(t.frames)
      BY <2>3, <2>a
    <3>2. t.discard.nest = s.discard.nest + 1
      BY <2>3
    <3>3. t.discard.nest >= 0 /\ t.discard.nest # 0
      BY <2>1, <2>a, <3>2
    <3>4. Len(s.frames) + s.opaque + 0 = s.discard.depth + s.discard.nest
      BY <2>a
    <3>5. Len(s.frames) + s.opaque + 1 = s.discard.depth + (s.discard.nest + 1)
      BY <1>1, <2>1, <3>4, Counts
    <3>6. QED
      BY <2>3, <3>1, <3>2, <3>3, <3>5
  <2>c. t.frames[t.discard.depth].kind = "object"
    BY <1>2, <2>3 DEF Spans, Drops, DropOpen
  <2>5. Drops(t, place, 1)
    BY <2>b, <2>c DEF Drops
  <2>6. QED
    BY <2>2, <2>3, <2>4, <2>5 DEF Spans
<1>3. CASE ~DropOpen(s)
  BY <1>3 DEF NoteDropOpen, Spans, Drops
<1>4. QED
  BY <1>2, <1>3

LEMMA EndDroppedSpans ==
  ASSUME NEW s \in Spines, NEW stack, NEW place, Kinds(s, stack), Holds(s, place), Discards(s),
         s.discard.depth \in 1..Len(s.frames), s.frames[s.discard.depth].kind = "object", NEW end \in Nat, end # Infinity, NEW more
  PROVE  Fits(EndDroppedValue(s, end), stack, place, more)
<1> DEFINE x == [s.discard EXCEPT !.valueEnd = end]
<1> DEFINE r == [s EXCEPT !.discard = x]
<1> DEFINE t == ClearLimit(r)
<1>1. s.discard \in DiscardType /\ Len(s.frames) \in Nat
  BY SpineType
<1>2. /\ x \in DiscardType /\ x.valueEnd = end /\ x.start = s.discard.start
      /\ x.depth = s.discard.depth
  BY <1>1 DEF DiscardType
<1>3. EndDroppedValue(s, end) \in {t, Throw(t, "fatal")}
  BY DEF EndDroppedValue
<1> HIDE DEF x
<1>4. r \in Spines /\ r.discard = x /\ r.frames = s.frames /\ r.opaque = s.opaque
  BY <1>2, DiscardSet
<1> HIDE DEF r
<1>5. /\ t \in Spines /\ t.limit.kind = "none" /\ t.frames = s.frames
      /\ t.opaque = s.opaque /\ t.discard = x
  BY <1>4, LimitCleared
<1> HIDE DEF t
<1>6. Discards(t) /\ ~DropOpen(t)
  BY <1>2, <1>5 DEF Discards, DropOpen
<1>7. Kinds(t, stack) /\ Holds(t, place) /\ Drops(t, place, more)
  BY <1>2, <1>5, <1>6 DEF Kinds, Holds, Drops
<1>8. s.frames # <<>> => Top(t).prefix = Infinity
  BY <1>5, <1>6, <1>7, DiscardHoldsNothing
<1>9. Armed(t)
  BY <1>5, <1>6, <1>8 DEF Armed
<1>10. QED
  BY <1>3, <1>5, <1>7, <1>9, ThrowStops DEF Fits, Spans

LEMMA NoteDropCloseSpans ==
  ASSUME NEW s \in Spines, NEW stack, NEW place, place # "string",
         Spans(s, stack, place, 0),
         NEW end \in Nat, end # Infinity
  PROVE  Fits(NoteDropClose(s, end), stack, place, -1)
<1>1. Len(s.frames) \in Nat /\ s.opaque \in Nat
  BY SpineType
<1>2. CASE DropOpen(s)
  <2> DEFINE n == s.discard.nest - 1
  <2> DEFINE t == [s EXCEPT !.discard.nest = n]
  <2>1. s.discard.nest \in Int /\ s.discard.depth \in Nat
    BY SpineType DEF DiscardType
  <2>2. n \in Int
    BY <2>1
  <2>3. NoteDropClose(s, end) = IF t.discard.nest = 0 THEN EndDroppedValue(t, end) ELSE t
    BY <1>2 DEF NoteDropClose
  <2>4. /\ t \in Spines /\ t.discard.nest = n /\ t.discard.start = s.discard.start
        /\ t.discard.depth = s.discard.depth /\ t.discard.valueEnd = s.discard.valueEnd
        /\ t.frames = s.frames /\ t.opaque = s.opaque /\ t.limit = s.limit
    BY <2>2, NestSet
  <2> HIDE DEF t
  <2>5. Kinds(t, stack) /\ Holds(t, place) /\ Armed(t)
    BY <2>4 DEF Spans, Kinds, Holds, Armed, Discards, DropOpen, Top
  <2>6. /\ Discards(t) /\ t.discard.depth \in 1..Len(t.frames)
        /\ t.frames[t.discard.depth].kind = "object"
    BY <1>2, <2>4 DEF Spans, Drops, Discards, DropOpen
  <2>7. CASE t.discard.nest = 0
    BY <2>3, <2>4, <2>5, <2>6, <2>7, EndDroppedSpans
  <2>8. CASE t.discard.nest # 0
    <3>1. /\ Len(s.frames) + s.opaque + 0 = s.discard.depth + s.discard.nest
          /\ s.discard.nest >= 0 /\ s.discard.nest # 0
      BY <1>2 DEF Spans, Drops
    <3>2. /\ t.discard.nest >= 0
          /\ Len(t.frames) + t.opaque + -1 = t.discard.depth + t.discard.nest
      <4>1. t.discard.nest = s.discard.nest - 1
        BY <2>4
      <4>2. t.discard.nest >= 0
        BY <2>1, <3>1, <4>1
      <4>3. Len(s.frames) + s.opaque + -1 = s.discard.depth + (s.discard.nest - 1)
        BY <1>1, <2>1, <3>1, Counts
      <4>4. QED
        BY <2>4, <4>1, <4>2, <4>3
    <3>3. Drops(t, place, -1)
      BY <2>6, <2>8, <3>2 DEF Drops
    <3>4. QED
      BY <2>3, <2>5, <2>8, <3>3 DEF Fits, Spans
  <2>9. QED
    BY <2>7, <2>8
<1>3. CASE ~DropOpen(s)
  BY <1>3 DEF NoteDropClose, Fits, Spans, Drops
<1>4. QED
  BY <1>2, <1>3

(* The innermost frame is replaced. *)
LEMMA SetTopIs ==
  ASSUME NEW s \in Spines, s.frames # <<>>, NEW f \in FrameType
  PROVE  LET t == SetTop(s, f)
         IN  /\ t \in Spines /\ Len(t.frames) = Len(s.frames) /\ t.frames # <<>> /\ Top(t) = f
             /\ \A i \in 1..Len(s.frames) :
                  t.frames[i] = IF i = Len(s.frames) THEN f ELSE s.frames[i]
             /\ t.opaque = s.opaque /\ t.discard = s.discard /\ t.limit = s.limit
             /\ t.disposed = s.disposed /\ t.thrown = s.thrown
<1> DEFINE x == [s.frames EXCEPT ![Len(s.frames)] = f]
<1> DEFINE t == SetTop(s, f)
<1>1. s.frames \in Seq(FrameType)
  BY SpineType
<1>2. Len(s.frames) \in 1..Len(s.frames) /\ Len(s.frames) \in Nat
  BY <1>1
<1>3. /\ x \in Seq(FrameType) /\ Len(x) = Len(s.frames)
      /\ \A i \in 1..Len(s.frames) : x[i] = IF i = Len(s.frames) THEN f ELSE s.frames[i]
  BY <1>1, <1>2, ExceptSeq
<1>4. t = [s EXCEPT !.frames = x]
  BY TopType
<1>5. t \in Spines
  BY TopType
<1> HIDE DEF x, t
<1>6. t.frames = x /\ \A g \in Fields \ {"frames"} : t[g] = s[g]
  <2>1. "frames" \in Fields
    BY DEF Fields
  <2>2. QED
    BY <1>4, <2>1, SetReads
<1>7. /\ t.opaque = s.opaque /\ t.discard = s.discard /\ t.limit = s.limit
      /\ t.disposed = s.disposed /\ t.thrown = s.thrown
  BY <1>6 DEF Fields
<1>8. x # <<>> /\ x[Len(x)] = f
  BY <1>2, <1>3
<1>9. QED
  BY <1>3, <1>5, <1>6, <1>7, <1>8 DEF t, Top

LEMMA TopIsLast ==
  ASSUME NEW s \in Spines, s.frames # <<>>
  PROVE  /\ Len(s.frames) \in DOMAIN s.frames /\ DOMAIN s.frames = 1..Len(s.frames)
         /\ Len(s.frames) \in Nat \ {0} /\ Top(s) = s.frames[Len(s.frames)]
  BY SpineType DEF Top

LEMMA SetTopSpans ==
  ASSUME NEW s \in Spines, s.frames # <<>>, NEW f \in FrameType,
         f.kind = Top(s).kind, f.hooks = Top(s).hooks, f.prefix = Top(s).prefix,
         NEW stack, NEW place, NEW more, Spans(s, stack, place, more)
  PROVE  Spans(SetTop(s, f), stack, place, more)
<1> DEFINE t == SetTop(s, f)
<1> DEFINE n == Len(s.frames)
<1>1. /\ t \in Spines /\ Len(t.frames) = n /\ t.frames # <<>> /\ Top(t) = f
      /\ \A i \in 1..n : t.frames[i] = IF i = n THEN f ELSE s.frames[i]
      /\ t.opaque = s.opaque /\ t.discard = s.discard /\ t.limit = s.limit
  BY SetTopIs
<1> HIDE DEF t
<1>2. DOMAIN t.frames = DOMAIN s.frames /\ DOMAIN s.frames = 1..n /\ Top(s) = s.frames[n]
  <2>1. t.frames # <<>>
    BY <1>1
  <2>2. DOMAIN t.frames = 1..Len(t.frames)
    BY <1>1, <2>1, TopIsLast
  <2>3. QED
    BY <1>1, <2>2, TopIsLast
<1>3. \A i \in DOMAIN s.frames : /\ t.frames[i].kind = s.frames[i].kind
                                 /\ t.frames[i].hooks = s.frames[i].hooks
                                 /\ t.frames[i].prefix = s.frames[i].prefix
  BY <1>1, <1>2
<1>4. (Discards(t) <=> Discards(s)) /\ (DropOpen(t) <=> DropOpen(s))
  BY <1>1 DEF Discards, DropOpen
<1> HIDE DEF n
<1>5. Kinds(t, stack)
  BY <1>1, <1>2, <1>3 DEF Spans, Kinds, n
<1>6. Holds(t, place)
  BY <1>1, <1>2, <1>3, <1>4 DEF Spans, Holds, n
<1>7. Drops(t, place, more)
  BY <1>1, <1>2, <1>3, <1>4 DEF Spans, Drops, n
<1>8. Armed(t)
  BY <1>1, <1>4 DEF Spans, Armed
<1>9. QED
  BY <1>5, <1>6, <1>7, <1>8 DEF Spans, t

LEMMA AddEditLeaves ==
  ASSUME NEW s \in Spines, NEW e \in EditType
  PROVE  AddEdit(s, e) \in Spines /\ Leaves(s, AddEdit(s, e))
<1>1. AddEdit(s, e) = [s EXCEPT !.edits = s.edits \union {e}]
  BY DEF AddEdit
<1>2. QED
  BY <1>1, AgreeLeaves, AddEditOnward DEF Onward, Moves

LEMMA LeavesFields ==
  ASSUME NEW s, NEW t, Leaves(s, t), ~Stopped(t)
  PROVE  t.frames = s.frames /\ t.opaque = s.opaque /\ t.discard = s.discard /\ t.limit = s.limit
  BY DEF Leaves, Agree

(* A value that starts: what the hooks decide of its member. *)
LEMMA KeepMemberSpans ==
  ASSUME NEW s \in Spines, Counted(s), s.frames # <<>>, NEW start \in Nat, NEW top \in FrameType,
         Stopped(s) \/ Top(s) = top,
         NEW d \in Decisions, NEW stack, NEW place, NEW more, Fits(s, stack, place, more)
  PROVE  Fits(KeepMember(s, start, top, d), stack, place, more)
<1>1. CASE Stopped(s)
  <2>1. Onward(s, KeepMember(s, start, top, d))
    BY KeepMemberOnward
  <2>2. QED
    BY <1>1, <2>1, StoppedOn DEF Onward, Fits
<1>2. CASE ~Stopped(s)
  <2> DEFINE comma == Edit(start, start + 1, "none")
  <2> DEFINE name == Edit(top.keyStart, top.keyEnd, "R")
  <2> DEFINE t == IF top.comma /\ OutputKeys(top) = {} THEN AddEdit(s, comma) ELSE s
  <2> DEFINE frame == RecordOutputKey(top, d)
  <2> DEFINE named == SetTop(t, frame)
  <2> DEFINE renamed == AddEdit(named, name)
  <2>1. comma \in EditType /\ name \in EditType
    <3>1. start + 1 \in Nat /\ top.keyStart \in Nat /\ top.keyEnd \in Nat
      BY DEF FrameType
    <3>2. QED
      BY <3>1 DEF Edit, EditType
  <2>2. frame \in FrameType
    BY OutputKeyType
  <2>3. frame.kind = top.kind /\ frame.hooks = top.hooks /\ frame.prefix = top.prefix
    BY DEF RecordOutputKey, FrameType
  <2>4. KeepMember(s, start, top, d)
          \in {Throw(t, "fatal"), SettleBudget(named), SettleBudget(renamed)}
    BY DEF KeepMember
  <2> HIDE DEF comma, name, frame
  <2>5. t \in Spines /\ Leaves(s, t)
    BY <2>1, AddEditLeaves, SameLeaves
  <2> HIDE DEF t
  <2>6. CASE Stopped(t)
    <3>1. Threw(t) \/ t.disposed
      BY <2>6 DEF Stopped
    <3>2. Onward(t, named)
      BY <2>2, <2>5, SetTopOnward
    <3> HIDE DEF named
    <3>3. named \in Spines /\ Stopped(named)
      BY <2>5, <2>6, <3>2, StoppedOn DEF Onward, Moves
    <3>4. renamed \in Spines /\ Stopped(renamed)
      BY <2>1, <3>3, AddEditLeaves DEF Leaves
    <3> HIDE DEF renamed
    <3>5. Stopped(SettleBudget(named)) /\ Stopped(SettleBudget(renamed))
      BY <3>3, <3>4, SettleBudgetLeaves DEF Leaves
    <3>6. QED
      BY <2>4, <2>5, <3>5, ThrowStops DEF Fits
  <2>7. CASE ~Stopped(t)
    <3>1. Fits(t, stack, place, more)
      BY <2>5, LeavesFits
    <3>2. Spans(t, stack, place, more)
      BY <2>7, <3>1 DEF Fits
    <3>3. t.frames = s.frames
      BY <2>5, <2>7, LeavesFields
    <3>4. t.frames # <<>> /\ Top(t) = top
      BY <1>2, <3>3 DEF Top
    <3>5. named \in Spines /\ Spans(named, stack, place, more)
      BY <2>2, <2>3, <2>5, <3>2, <3>4, SetTopSpans, SetTopIs
    <3> HIDE DEF named
    <3>6. renamed \in Spines /\ Leaves(named, renamed)
      BY <2>1, <3>5, AddEditLeaves
    <3> HIDE DEF renamed
    <3>7. Fits(named, stack, place, more) /\ Fits(renamed, stack, place, more)
      <4>1. Fits(named, stack, place, more)
        BY <3>5 DEF Fits
      <4>2. QED
        BY <3>6, <4>1, LeavesFits
    <3>8. Fits(SettleBudget(named), stack, place, more) /\ Fits(SettleBudget(renamed), stack, place, more)
      BY <3>5, <3>6, <3>7, SettleBudgetLeaves, LeavesFits
    <3>9. QED
      BY <2>4, <2>5, <3>8, ThrowStops DEF Fits
  <2>8. QED
    BY <2>6, <2>7
<1>3. QED
  BY <1>1, <1>2

(* Where a value that starts leaves the text: in a string, unless it opens a
   container or is reported whole. *)
Started(value) == IF value.container \/ value.end # Infinity THEN "between" ELSE "string"

Opened(value) == IF value.container THEN 1 ELSE 0

LEMMA DropSpans ==
  ASSUME NEW s \in Spines, NEW start \in Nat, start # Infinity, NEW top \in FrameType,
         NEW value \in ValueType, InObject(s), s.opaque = 0, ~Discards(s),
         NEW stack, Spans(s, stack, "between", Opened(value))
  PROVE  Fits(Drop(s, start, top, value), stack, Started(value), Opened(value))
<1> DEFINE n == Opened(value)
<1> DEFINE x == [start |-> start, depth |-> Len(s.frames), keyStart |-> top.keyStart,
                 valueEnd |-> Infinity, nest |-> n]
<1> DEFINE t == [s EXCEPT !.discard = x]
<1> DEFINE at == top.keyStart + MaxDrop
<1>0. s.frames # <<>> /\ s.frames[Len(s.frames)].kind = "object"
  BY DEF InObject, Top
<1>1. Len(s.frames) \in Nat \ {0} /\ n \in {0, 1} /\ value.end \in Nat /\ value.container \in BOOLEAN
  BY <1>0, TopIsLast DEF Opened, ValueType
<1>2. /\ x \in DiscardType /\ x.start = start /\ x.depth = Len(s.frames) /\ x.valueEnd = Infinity
      /\ x.nest = n
  <2>1. top.keyStart \in Nat /\ Infinity \in Nat /\ n \in Int
    BY <1>1, Numbers DEF FrameType
  <2> HIDE DEF n
  <2>2. QED
    BY <1>1, <2>1 DEF DiscardType
<1>3. Drop(s, start, top, value) =
        IF value.end # Infinity THEN EndDroppedValue(t, value.end)
        ELSE IF MaxDrop = Infinity THEN t
        ELSE IF at <= value.start THEN Throw(t, "fatal")
        ELSE Limit(t, "drop", at)
  BY DEF Drop, Opened
<1> HIDE DEF x
<1>4. /\ t \in Spines /\ t.discard = x /\ t.frames = s.frames /\ t.opaque = s.opaque
      /\ t.limit = s.limit
  BY <1>2, DiscardSet
<1> HIDE DEF t, n
<1>5. /\ Discards(t) /\ DropOpen(t) /\ t.discard.depth \in 1..Len(t.frames)
      /\ t.frames[t.discard.depth].kind = "object"
  BY <1>0, <1>1, <1>2, <1>4 DEF Discards, DropOpen
<1>6. Kinds(t, stack)
  BY <1>4 DEF Spans, Kinds
<1>7. Holds(t, "between") /\ Holds(t, "string")
  <2>1. Len(s.frames) \in Nat /\ DOMAIN s.frames = 1..Len(s.frames)
    BY <1>0, TopIsLast
  <2>2. ASSUME NEW i \in DOMAIN t.frames
        PROVE  /\ t.frames[i].hooks => t.frames[i].kind = "object"
               /\ t.frames[i].prefix = Infinity /\ ~(i > t.discard.depth)
    BY <1>2, <1>4, <2>1 DEF Spans, Holds
  <2>3. QED
    BY <1>5, <2>2 DEF Holds
<1>8. s.limit.kind \notin {"prefix", "drop"}
  <2>1. Top(s).prefix = Infinity
    BY <1>0, TopIsLast DEF Spans, Holds
  <2>2. QED
    BY <2>1 DEF Spans, Armed, DropOpen
<1>9. Top(t).prefix = Infinity
  BY <1>0, <1>4, <1>7, <1>5, DiscardHoldsNothing
<1>10. CASE value.end # Infinity
  <2>1. Fits(EndDroppedValue(t, value.end), stack, "between", n)
    BY <1>1, <1>4, <1>5, <1>6, <1>7, <1>10, EndDroppedSpans
  <2>2. QED
    BY <1>3, <1>10, <2>1 DEF n, Started
<1>11. CASE value.end = Infinity
  <2>1. Len(t.frames) + t.opaque + n = t.discard.depth + t.discard.nest
    BY <1>1, <1>2, <1>4
  <2>2. t.discard.nest >= 0 /\ (t.discard.nest = 0 => Started(value) = "string")
    BY <1>1, <1>2, <1>4, <1>11 DEF n, Opened, Started
  <2>3. Drops(t, Started(value), n)
    BY <1>5, <2>1, <2>2 DEF Drops
  <2>4. Started(value) \in {"between", "string"}
    BY DEF Started
  <2>5. Holds(t, Started(value))
    BY <1>7, <2>4
  <2>6. CASE MaxDrop = Infinity
    <3>1. Armed(t)
      BY <1>4, <1>8, <1>9, <2>6 DEF Armed
    <3>2. QED
      BY <1>3, <1>6, <1>11, <2>3, <2>5, <2>6, <3>1 DEF Fits, Spans, n
  <2>7. CASE MaxDrop # Infinity
    <3> DEFINE r == Limit(t, "drop", at)
    <3>1. at \in Int
      BY Numbers DEF FrameType
    <3> HIDE DEF at
    <3>2. /\ r \in Spines /\ r.limit.kind = "drop" /\ r.frames = t.frames
          /\ r.opaque = t.opaque /\ r.discard = t.discard
      BY <1>4, <3>1, LimitSet
    <3> HIDE DEF r
    <3>3. Kinds(r, stack) /\ Holds(r, Started(value)) /\ Drops(r, Started(value), n)
      BY <1>6, <2>3, <2>5, <3>2 DEF Kinds, Holds, Drops, Discards, DropOpen
    <3>4. Armed(r)
      BY <1>5, <1>9, <2>7, <3>2 DEF Armed, Top, DropOpen, Discards
    <3>5. Fits(r, stack, Started(value), n)
      BY <3>3, <3>4 DEF Fits, Spans
    <3>6. Fits(Throw(t, "fatal"), stack, Started(value), n)
      BY <1>4, ThrowStops DEF Fits
    <3>7. Drop(s, start, top, value) \in {Throw(t, "fatal"), r}
      BY <1>3, <1>11, <2>7 DEF r
    <3>8. QED
      BY <3>5, <3>6, <3>7 DEF n
  <2>8. QED
    BY <2>6, <2>7
<1>12. QED
  BY <1>10, <1>11

LEMMA DecideSpans ==
  ASSUME NEW s \in Spines, Counted(s), NEW value \in ValueType, NEW u, u.decision \in Decisions,
         s.opaque = 0, NEW stack, NEW place, place # "string",
         Context(stack) = "object" => place = "before",
         Spans(s, stack, place, Opened(value))
  PROVE  Fits(DecideMember(s, value, u), stack, Started(value), Opened(value))
<1> DEFINE more == Opened(value)
<1>0. Started(value) \in {"between", "string"}
  BY DEF Started
<1>1. CASE Threw(s)
  BY <1>1 DEF DecideMember, Fits, Stopped
<1>2. CASE ~Threw(s) /\ ~Editable(s)
  <2>1. DecideMember(s, value, u) = s
    BY <1>2 DEF DecideMember
  <2>2. \A i \in DOMAIN s.frames :
          ~(i = Len(s.frames) /\ s.frames[i].hooks /\ ~Discards(s))
    <3>1. SUFFICES ASSUME s.frames # <<>>, Top(s).hooks, ~Discards(s), Len(s.frames) \in DOMAIN s.frames
                   PROVE  FALSE
      <4>1. s.frames = <<>> => DOMAIN s.frames = {}
        OBVIOUS
      <4>2. QED
        BY <4>1 DEF Top
    <3>2. Top(s).kind = "object"
      BY <3>1, TopIsLast DEF Spans, Holds
    <3>3. QED
      BY <1>2, <3>1, <3>2 DEF Editable, InObject
  <2>3. Holds(s, Started(value))
    BY <1>0, <2>2 DEF Spans, Holds
  <2>4. Drops(s, Started(value), more)
    BY DEF Spans, Drops
  <2>5. QED
    BY <2>1, <2>3, <2>4 DEF Fits, Spans
<1>3. CASE ~Threw(s) /\ Editable(s)
  <2> DEFINE top == [Top(s) EXCEPT !.prefix = Infinity]
  <2> DEFINE set == SetTop(s, top)
  <2> DEFINE cleared == ClearLimit(set)
  <2> DEFINE asked == UserCode(cleared, u)
  <2> DEFINE start == Top(s).prefix
  <2> DEFINE n == Len(s.frames)
  <2>1. /\ s.frames # <<>> /\ Top(s).kind = "object" /\ Top(s).hooks /\ ~Discards(s)
        /\ Top(s) \in FrameType /\ n \in Nat \ {0} /\ DOMAIN s.frames = 1..n /\ Top(s) = s.frames[n]
    BY <1>3, TopIsLast, TopType DEF Editable, InObject
  <2>2. /\ top \in FrameType /\ start \in Nat /\ top.kind = Top(s).kind /\ top.hooks = Top(s).hooks
        /\ top.prefix = Infinity
    BY <2>1, Numbers DEF FrameType
  <2>3. start # Infinity
    <3>1. /\ stack \in Seq(Contexts) /\ Len(stack) = n + 0 /\ s.frames[n].kind = stack[n]
      BY <2>1 DEF Spans, Kinds
    <3>2. Context(stack) = "object"
      <4>1. Len(stack) = n /\ stack # <<>>
        BY <2>1, <3>1
      <4>2. QED
        BY <2>1, <3>1, <4>1 DEF Context
    <3>3. QED
      BY <2>1, <3>2 DEF Spans, Holds
  <2>4. u.decision.kind \in {"keep", "drop", "conflict", "rename"}
    BY DEF Decisions
  <2>5. DecideMember(s, value, u)
          = CASE u.decision.kind = "conflict" -> Throw(asked, "fatal")
              [] u.decision.kind = "drop" -> Drop(asked, start, top, value)
              [] u.decision.kind \in {"keep", "rename"} -> KeepMember(asked, start, top, u.decision)
    BY <1>3 DEF DecideMember
  <2> HIDE DEF top, start
  <2>6. /\ set \in Spines /\ Len(set.frames) = n /\ set.frames # <<>> /\ Top(set) = top
        /\ \A i \in 1..n : set.frames[i] = IF i = n THEN top ELSE s.frames[i]
        /\ set.opaque = s.opaque /\ set.discard = s.discard
    BY <2>1, <2>2, SetTopIs
  <2>7. Onward(s, set)
    BY <2>2, SetTopOnward
  <2> HIDE DEF set
  <2>8. /\ cleared \in Spines /\ cleared.limit.kind = "none" /\ cleared.frames = set.frames
        /\ cleared.opaque = s.opaque /\ cleared.discard = s.discard
    BY <2>6, LimitCleared
  <2>9. Onward(set, cleared)
    BY <2>6, ClearLimitOnward DEF Keeps
  <2> HIDE DEF cleared
  <2>10. Counted(cleared)
    BY <2>6, <2>7, <2>8, <2>9, OnwardCounted
  <2>11. DOMAIN cleared.frames = 1..n /\ Len(cleared.frames) = n /\ Top(cleared) = top
    <3>1. cleared.frames # <<>> /\ Len(cleared.frames) = n
      BY <2>6, <2>8
    <3>2. DOMAIN cleared.frames = 1..Len(cleared.frames)
      BY <2>8, <3>1, TopIsLast
    <3>3. QED
      BY <2>6, <2>8, <3>1, <3>2 DEF Top
  <2>12. ~Discards(cleared) /\ ~DropOpen(cleared)
    BY <2>1, <2>8 DEF Discards, DropOpen
  <2>13. Spans(cleared, stack, "between", more)
    <3>1. \A i \in 1..n : /\ cleared.frames[i].kind = s.frames[i].kind
                          /\ cleared.frames[i].hooks = s.frames[i].hooks
                          /\ cleared.frames[i].prefix = Infinity
      <4>1. \A i \in 1..n : i # n => s.frames[i].prefix = Infinity
        BY <2>1 DEF Spans, Holds
      <4>2. ASSUME NEW i \in 1..n
            PROVE  /\ cleared.frames[i].kind = s.frames[i].kind
                   /\ cleared.frames[i].hooks = s.frames[i].hooks
                   /\ cleared.frames[i].prefix = Infinity
        <5>1. cleared.frames[i] = IF i = n THEN top ELSE s.frames[i]
          BY <2>6, <2>8
        <5>2. CASE i = n
          BY <2>1, <2>2, <5>1, <5>2
        <5>3. CASE i # n
          BY <4>1, <5>1, <5>3
        <5>4. QED
          BY <5>2, <5>3
      <4>3. QED
        BY <4>2
    <3> HIDE DEF n
    <3>2. Kinds(cleared, stack)
      BY <2>1, <2>8, <2>11, <3>1 DEF Spans, Kinds, n
    <3>3. Holds(cleared, "between")
      BY <2>1, <2>11, <2>12, <3>1 DEF Spans, Holds
    <3>4. Drops(cleared, "between", more)
      BY <2>12 DEF Drops
    <3>5. Armed(cleared)
      BY <2>2, <2>8, <2>11, <2>12 DEF Armed
    <3>6. QED
      BY <3>2, <3>3, <3>4, <3>5 DEF Spans
  <2>14. Leaves(cleared, asked) /\ Onward(cleared, asked)
    BY <2>8, UserCodeLeaves, UserCodeKeeps
  <2> HIDE DEF asked
  <2>15. asked \in Spines /\ Counted(asked)
    BY <2>8, <2>10, <2>14, OnwardCounted
  <2>16. Fits(asked, stack, "between", more)
    BY <2>13, <2>14, LeavesFits DEF Fits
  <2>17. CASE u.decision.kind = "conflict"
    BY <2>5, <2>15, <2>17, ThrowStops DEF Fits
  <2>18. CASE Stopped(asked)
    <3>1. Onward(asked, DecideMember(s, value, u))
      BY <2>2, <2>4, <2>5, <2>15, ThrowKeeps, DropOnward, KeepMemberOnward DEF Keeps
    <3>2. QED
      BY <2>18, <3>1, StoppedOn DEF Onward, Fits
  <2>19. CASE ~Stopped(asked) /\ u.decision.kind = "drop"
    <3>1. asked.frames = cleared.frames /\ asked.opaque = 0 /\ asked.discard = s.discard
      BY <2>8, <2>14, <2>19, LeavesFields
    <3>2. InObject(asked) /\ ~Discards(asked)
      BY <2>1, <2>2, <2>6, <2>8, <2>11, <3>1 DEF Discards, InObject, Top
    <3>3. Spans(asked, stack, "between", more)
      BY <2>16, <2>19 DEF Fits
    <3>4. Fits(Drop(asked, start, top, value), stack, Started(value), more)
      BY <2>2, <2>3, <2>15, <3>1, <3>2, <3>3, DropSpans
    <3>5. DecideMember(s, value, u) = Drop(asked, start, top, value)
      BY <2>5, <2>19
    <3>6. QED
      BY <3>4, <3>5
  <2>20. CASE ~Stopped(asked) /\ u.decision.kind \in {"keep", "rename"}
    <3>1. asked.frames = cleared.frames /\ asked.discard = cleared.discard /\ asked.opaque = 0
      BY <2>8, <2>14, <2>20, LeavesFields
    <3>2. asked.frames # <<>> /\ Top(asked) = top
      BY <2>6, <2>8, <2>11, <3>1 DEF Top
    <3>3. Spans(asked, stack, "between", more)
      BY <2>16, <2>20 DEF Fits
    <3>4. Spans(asked, stack, Started(value), more)
      <4>1. ~Discards(asked)
        BY <2>12, <3>1 DEF Discards
      <4>2. Holds(asked, Started(value))
        BY <1>0, <3>3, <4>1 DEF Spans, Holds
      <4>3. Drops(asked, Started(value), more)
        BY <4>1 DEF Drops, DropOpen
      <4>4. QED
        BY <3>3, <4>2, <4>3 DEF Spans
    <3>5. Fits(KeepMember(asked, start, top, u.decision), stack, Started(value), more)
      BY <2>2, <2>15, <3>2, <3>4, KeepMemberSpans DEF Fits
    <3>6. DecideMember(s, value, u) = KeepMember(asked, start, top, u.decision)
      BY <2>5, <2>20
    <3>7. QED
      BY <3>5, <3>6
  <2>21. QED
    BY <2>4, <2>17, <2>18, <2>19, <2>20
<1>4. QED
  BY <1>1, <1>2, <1>3

-----------------------------------------------------------------------------
(* The handlers keep the limit on its span. *)
LEMMA Grown ==
  ASSUME NEW stack \in Seq(Contexts), NEW kind \in Contexts
  PROVE  /\ Append(stack, kind) \in Seq(Contexts) /\ Len(Append(stack, kind)) = Len(stack) + 1
         /\ \A i \in 1..Len(stack) : Append(stack, kind)[i] = stack[i]
         /\ Append(stack, kind)[Len(stack) + 1] = kind
  OBVIOUS

LEMMA OpaqueSet ==
  ASSUME NEW s \in Spines, NEW x \in Nat
  PROVE  LET t == [s EXCEPT !.opaque = x]
         IN  /\ t \in Spines /\ t.opaque = x /\ t.frames = s.frames /\ t.discard = s.discard
             /\ t.limit = s.limit /\ t.disposed = s.disposed /\ t.thrown = s.thrown
<1> DEFINE t == [s EXCEPT !.opaque = x]
<1>1. t \in Spines
  BY SetFields
<1>2. t.opaque = x /\ \A g \in Fields \ {"opaque"} : t[g] = s[g]
  BY SetReads DEF Fields
<1> HIDE DEF t
<1>3. /\ t.frames = s.frames /\ t.discard = s.discard /\ t.limit = s.limit
      /\ t.disposed = s.disposed /\ t.thrown = s.thrown
  BY <1>2 DEF Fields
<1>4. QED
  BY <1>1, <1>2, <1>3 DEF t

LEMMA FramesSet ==
  ASSUME NEW s \in Spines, NEW x \in Seq(FrameType)
  PROVE  LET t == [s EXCEPT !.frames = x]
         IN  /\ t \in Spines /\ t.frames = x /\ t.opaque = s.opaque /\ t.discard = s.discard
             /\ t.limit = s.limit /\ t.disposed = s.disposed /\ t.thrown = s.thrown
<1> DEFINE t == [s EXCEPT !.frames = x]
<1>1. t \in Spines
  BY SetFields
<1>0. t = [s EXCEPT !.frames = x]
  OBVIOUS
<1> HIDE DEF t
<1>2. t.frames = x /\ \A g \in Fields \ {"frames"} : t[g] = s[g]
  <2>1. "frames" \in Fields
    BY DEF Fields
  <2>2. QED
    BY <1>0, <2>1, SetReads
<1>3. /\ t.opaque = s.opaque /\ t.discard = s.discard /\ t.limit = s.limit
      /\ t.disposed = s.disposed /\ t.thrown = s.thrown
  BY <1>2 DEF Fields
<1>4. QED
  BY <1>1, <1>2, <1>3 DEF t

(* A container opens within an opaque value, or as one. *)
LEMMA OpaqueOpens ==
  ASSUME NEW s \in Spines, NEW x \in Nat, x = s.opaque + 1, NEW kind \in Contexts,
         NEW stack, NEW place, Spans(s, stack, place, 1), s.opaque > 0 \/ place = "between", place # "string",
         NEW then
  PROVE  Spans([s EXCEPT !.opaque = x], Append(stack, kind), then, 0)
<1> DEFINE t == [s EXCEPT !.opaque = x]
<1>1. /\ t \in Spines /\ t.opaque = x /\ t.frames = s.frames /\ t.discard = s.discard
      /\ t.limit = s.limit
  BY OpaqueSet
<1> HIDE DEF t
<1>2. Len(s.frames) \in Nat /\ s.opaque \in Nat /\ s.frames \in Seq(FrameType) /\ s.discard \in DiscardType
  BY SpineType
<1>3. /\ stack \in Seq(Contexts) /\ Len(stack) = Len(s.frames) + s.opaque
      /\ \A i \in DOMAIN s.frames : s.frames[i].kind = stack[i]
  BY DEF Spans, Kinds
<1>4. Kinds(t, Append(stack, kind))
  <2>1. /\ Append(stack, kind) \in Seq(Contexts) /\ Len(Append(stack, kind)) = Len(stack) + 1
        /\ \A i \in 1..Len(stack) : Append(stack, kind)[i] = stack[i]
    BY <1>3, Grown
  <2>2. \A i \in DOMAIN s.frames : i \in 1..Len(stack)
    <3>1. DOMAIN s.frames = 1..Len(s.frames)
      BY <1>2
    <3>2. \A a \in Nat, b \in Nat : 1..a \subseteq 1..(a + b)
      OBVIOUS
    <3>3. QED
      BY <1>2, <1>3, <3>1, <3>2
  <2>3. Len(stack) + 1 = Len(t.frames) + t.opaque
    <3>1. \A a \in Nat, b \in Nat : a + b + 1 = a + (b + 1)
      OBVIOUS
    <3>2. QED
      BY <1>1, <1>2, <1>3, <3>1
  <2>4. QED
    BY <1>1, <1>3, <2>1, <2>2, <2>3 DEF Kinds
<1>5. Holds(t, then)
  <2>1. ~(s.opaque = 0 /\ place = "before") /\ t.opaque # 0
    BY <1>1, <1>2
  <2>2. QED
    BY <1>1, <2>1 DEF Spans, Holds, Discards
<1>6. Drops(t, then, 0)
  <2>1. DropOpen(s) => /\ s.discard.nest >= 0 /\ s.discard.nest # 0
                       /\ Len(s.frames) + s.opaque + 1 = s.discard.depth + s.discard.nest
    BY DEF Spans, Drops
  <2>2. Len(s.frames) + s.opaque + 1 = Len(s.frames) + x + 0
    BY <1>2
  <2>3. QED
    BY <1>1, <2>1, <2>2 DEF Spans, Drops, Discards, DropOpen
<1>7. Armed(t)
  BY <1>1 DEF Spans, Armed, Top, Discards, DropOpen
<1>8. QED
  BY <1>4, <1>5, <1>6, <1>7 DEF Spans, t

(* A container opens with a frame of its own, whose members are decided or
   not. *)
LEMMA FrameOpens ==
  ASSUME NEW s \in Spines, s.opaque = 0, NEW frame \in FrameType,
         frame.hooks => frame.kind = "object" /\ ~Discards(s),
         frame.prefix # Infinity <=> frame.hooks,
         NEW stack, Spans(s, stack, "between", 1),
         NEW limit \in LimitType,
         limit = s.limit \/ frame.hooks, frame.hooks => limit.kind = "prefix",
         NEW x, x = Append(s.frames, frame), NEW r, r = [s EXCEPT !.frames = x],
         NEW t, t = [r EXCEPT !.limit = limit]
  PROVE  Spans(t, Append(stack, frame.kind), IF frame.kind = "object" THEN "before" ELSE "between", 0)
<1> DEFINE n == Len(s.frames)
<1> DEFINE then == IF frame.kind = "object" THEN "before" ELSE "between"
<1>1. n \in Nat /\ s.frames \in Seq(FrameType) /\ s.discard \in DiscardType /\ DOMAIN s.frames = 1..n
  BY SpineType
<1>2. /\ x \in Seq(FrameType) /\ Len(x) = n + 1 /\ DOMAIN x = 1..(n + 1) /\ x[n + 1] = frame
      /\ \A i \in 1..n : x[i] = s.frames[i]
  BY <1>1
<1>3. r \in Spines /\ r.frames = x /\ r.opaque = s.opaque /\ r.discard = s.discard
  BY <1>2, FramesSet
<1>4. t \in Spines /\ t.frames = x /\ t.opaque = 0 /\ t.discard = s.discard /\ t.limit = limit
  BY <1>3, LimitIs
<1> HIDE DEF n
<1>5. /\ stack \in Seq(Contexts) /\ Len(stack) = n
      /\ \A i \in 1..n : s.frames[i].kind = stack[i]
  BY <1>1 DEF Spans, Kinds, n
<1>6. (Discards(t) <=> Discards(s)) /\ (DropOpen(t) <=> DropOpen(s))
  BY <1>4 DEF Discards, DropOpen
<1>7. frame.kind \in Contexts
  BY DEF FrameType
<1>8. Kinds(t, Append(stack, frame.kind))
  <2>1. /\ Append(stack, frame.kind) \in Seq(Contexts) /\ Len(Append(stack, frame.kind)) = n + 1
        /\ \A i \in 1..n : Append(stack, frame.kind)[i] = stack[i]
        /\ Append(stack, frame.kind)[n + 1] = frame.kind
    BY <1>5, <1>7, Grown
  <2>2. \A i \in 1..(n + 1) : i = n + 1 \/ i \in 1..n
    BY <1>1
  <2>3. n + 1 = Len(x) + 0
    BY <1>1, <1>2
  <2>4. QED
    BY <1>2, <1>4, <1>5, <2>1, <2>2, <2>3 DEF Kinds
<1>9. Holds(t, then)
  <2>1. ASSUME NEW i \in 1..n
        PROVE  /\ x[i].hooks => x[i].kind = "object"
               /\ x[i].prefix = Infinity /\ i # n + 1
               /\ Discards(s) /\ i > s.discard.depth => ~x[i].hooks
    BY <1>1, <1>2 DEF Spans, Holds
  <2>2. ASSUME NEW i \in 1..(n + 1)
        PROVE  /\ x[i].hooks => x[i].kind = "object"
               /\ (x[i].prefix # Infinity)
                    <=> (i = n + 1 /\ x[i].hooks /\ ~Discards(s) /\ then = "before")
               /\ Discards(s) /\ i > s.discard.depth => ~x[i].hooks
    <3>1. CASE i \in 1..n
      BY <2>1, <3>1
    <3>2. CASE i = n + 1
      BY <1>2, <3>2
    <3>3. QED
      BY <1>1, <3>1, <3>2
  <2> HIDE DEF then
  <2>3. QED
    BY <1>2, <1>4, <1>6, <2>2 DEF Holds
<1>10. Drops(t, then, 0)
  <2>1. /\ Discards(s) => s.discard.depth \in 1..n
        /\ DropOpen(s) => /\ s.discard.nest >= 0 /\ s.discard.nest # 0
                          /\ n + 0 + 1 = s.discard.depth + s.discard.nest
    BY DEF Spans, Drops, n
  <2>2. 1..n \subseteq 1..(n + 1) /\ n + 1 + 0 + 0 = n + 0 + 1
    BY <1>1
  <2>3. Discards(s) => x[s.discard.depth].kind = "object"
    BY <1>2, <2>1 DEF Spans, Drops
  <2> HIDE DEF then
  <2>4. Discards(t) => t.discard.depth \in 1..Len(t.frames) /\ t.frames[t.discard.depth].kind = "object"
    BY <1>2, <1>4, <1>6, <2>1, <2>2, <2>3
  <2>5. DropOpen(t) => /\ t.discard.nest >= 0 /\ t.discard.nest # 0
                       /\ Len(t.frames) + t.opaque + 0 = t.discard.depth + t.discard.nest
    BY <1>2, <1>4, <1>6, <2>1, <2>2
  <2>6. QED
    BY <2>4, <2>5 DEF Drops
<1>11. Armed(t)
  <2>1. Top(t) = frame /\ t.frames # <<>>
    BY <1>1, <1>2, <1>4 DEF Top
  <2>2. s.limit.kind # "prefix"
    <3>1. s.frames # <<>> => Top(s).prefix = Infinity
      BY TopIsLast DEF Spans, Holds
    <3>2. QED
      BY <3>1 DEF Spans, Armed
  <2>3. CASE frame.hooks
    BY <1>4, <1>6, <2>1, <2>3 DEF Armed, DropOpen
  <2>4. CASE ~frame.hooks
    BY <1>4, <1>6, <2>1, <2>2, <2>4 DEF Spans, Armed
  <2>5. QED
    BY <2>3, <2>4
<1>12. QED
  BY <1>8, <1>9, <1>10, <1>11 DEF Spans

LEMMA OnStartSpans ==
  ASSUME NEW s \in Spines, Counted(s), ~Stopped(s), NEW kind \in Contexts,
         NEW u, u.decision \in Decisions, u.scoped \in BOOLEAN, s.tok.pos + 1 # Infinity,
         NEW stack, NEW place, place # "string", Context(stack) = "object" => place = "before",
         Spans(s, stack, place, 0)
  PROVE  Fits(OnStart(s, kind, u), Append(stack, kind),
              IF kind = "object" THEN "before" ELSE "between", 0)
<1> DEFINE o == s.tok.pos
<1> DEFINE value == Value(o, Infinity, TRUE)
<1> DEFINE counted == NoteDropOpen(s)
<1> DEFINE decided == DecideMember(counted, value, u)
<1> DEFINE checked == Record(decided, u)
<1> DEFINE hooks == kind = "object" /\ u.scoped /\ ~Discards(checked)
<1> DEFINE frame == Frame(kind, o, hooks, Discards(checked))
<1> DEFINE framed == [checked EXCEPT !.frames = Append(checked.frames, frame)]
<1> DEFINE inner == [counted EXCEPT !.opaque = counted.opaque + 1]
<1> DEFINE opened == [checked EXCEPT !.opaque = 1]
<1> DEFINE at == o + 1 + MaxPrefix
<1> DEFINE limited == Limit(framed, "prefix", at)
<1> DEFINE then == IF kind = "object" THEN "before" ELSE "between"
<1>1. OnStart(s, kind, u) =
        IF s.opaque > 0 THEN inner
        ELSE IF Threw(checked) THEN checked
        ELSE IF u.opaque THEN opened
        ELSE IF hooks THEN limited ELSE framed
  BY DEF OnStart
<1>2. /\ counted \in Spines /\ Spans(counted, stack, place, 1) /\ counted.opaque = s.opaque
      /\ counted.disposed = s.disposed /\ counted.thrown = s.thrown
  BY NoteDropOpenSpans
<1>3. Keeps(s, counted)
  BY NoteDropOpenKeeps
<1> HIDE DEF counted
<1>4. Counted(counted)
  BY <1>3, OnwardCounted DEF Keeps
<1>5. value \in ValueType /\ value.container /\ value.end = Infinity /\ o \in Nat
  BY SpineType, Numbers DEF Value, ValueType
<1>6. s.opaque \in Nat
  BY SpineType
<1> HIDE DEF value, then
<1>7. CASE s.opaque > 0
  <2> DEFINE x == counted.opaque + 1
  <2>1. x \in Nat /\ x = counted.opaque + 1 /\ counted.opaque > 0
    BY <1>2, <1>6, <1>7
  <2>2. inner = [counted EXCEPT !.opaque = x]
    OBVIOUS
  <2> HIDE DEF x, inner
  <2>3. Spans([counted EXCEPT !.opaque = x], Append(stack, kind), then, 0)
    BY <1>2, <2>1, OpaqueOpens
  <2>4. OnStart(s, kind, u) = inner
    BY <1>1, <1>7
  <2>5. QED
    BY <2>2, <2>3, <2>4 DEF Fits, then
<1>8. CASE s.opaque = 0
  <2>1. Opened(value) = 1 /\ Started(value) = "between"
    BY <1>5 DEF Opened, Started
  <2>2. Fits(decided, stack, "between", 1)
    BY <1>2, <1>4, <1>5, <1>8, <2>1, DecideSpans
  <2>3. Keeps(counted, decided)
    BY <1>2, <1>4, <1>5, DecideMemberKeeps
  <2> HIDE DEF decided
  <2>4. decided \in Spines
    BY <2>3 DEF Keeps, Onward, Moves
  <2>5. Leaves(decided, checked) /\ Keeps(decided, checked)
    BY <2>4, RecordLeaves, RecordKeeps DEF Keeps
  <2> HIDE DEF checked
  <2>6. checked \in Spines /\ Fits(checked, stack, "between", 1) /\ Onward(counted, checked)
    BY <1>2, <2>2, <2>3, <2>5, LeavesFits, OnwardThen DEF Keeps, Onward, Moves
  <2>7. frame \in FrameType
    <3>1. o + 1 \in Nat /\ <<>> \in Seq(Byte) /\ {} \in SUBSET Seq(Byte) /\ Infinity \in Nat
      BY <1>5, Numbers
    <3>2. hooks \in BOOLEAN /\ Discards(checked) \in BOOLEAN
      BY DEF Discards
    <3> HIDE DEF hooks
    <3>3. QED
      BY <3>1, <3>2 DEF Frame, FrameType
  <2>8. frame.hooks = hooks /\ frame.kind = kind /\ (frame.prefix # Infinity <=> frame.hooks)
    BY DEF Frame
  <2> DEFINE x == Append(checked.frames, frame)
  <2>9. x \in Seq(FrameType)
    BY <2>6, <2>7, SpineType
  <2>10. framed = [checked EXCEPT !.frames = x]
    OBVIOUS
  <2>11. at \in Int
    BY <1>5, Numbers
  <2> DEFINE limit == [kind |-> "prefix", at |-> at]
  <2>12. limit \in LimitType /\ limit.kind = "prefix"
    BY <2>11 DEF LimitType
  <2>13. limited = [framed EXCEPT !.limit = limit]
    BY DEF Limit
  <2> HIDE DEF x, at, frame, limit, framed, limited
  <2>14. /\ framed \in Spines /\ framed.frames = x /\ framed.opaque = checked.opaque
         /\ framed.discard = checked.discard /\ framed.limit = checked.limit
         /\ framed.disposed = checked.disposed /\ framed.thrown = checked.thrown
    BY <2>6, <2>9, <2>10, FramesSet
  <2>15. limited.disposed = checked.disposed /\ limited.thrown = checked.thrown
    BY <2>12, <2>13, <2>14, LimitIs
  <2>16. /\ opened.disposed = checked.disposed /\ opened.thrown = checked.thrown
    BY <2>6, OpaqueSet
  <2>17. OnStart(s, kind, u) =
           IF Threw(checked) THEN checked ELSE IF u.opaque THEN opened
           ELSE IF hooks THEN limited ELSE framed
    BY <1>1, <1>8
  <2>18. CASE Stopped(checked)
    <3>1. Stopped(opened) /\ Stopped(framed) /\ Stopped(limited)
      BY <2>14, <2>15, <2>16, <2>18 DEF Stopped, Threw
    <3>2. QED
      BY <2>17, <2>18, <3>1 DEF Fits
  <2>19. CASE ~Stopped(checked)
    <3>1. Spans(checked, stack, "between", 1)
      BY <2>6, <2>19 DEF Fits
    <3>2. checked.opaque = 0
      BY <1>2, <1>8, <2>6, <2>19 DEF Onward, Moves, Stopped
    <3>3. CASE u.opaque
      <4>1. 1 \in Nat /\ 1 = checked.opaque + 1
        BY <3>2
      <4>2. Spans(opened, Append(stack, kind), then, 0)
        BY <2>6, <3>1, <4>1, OpaqueOpens
      <4>3. OnStart(s, kind, u) = opened
        BY <2>17, <2>19, <3>3 DEF Stopped
      <4>4. QED
        BY <4>2, <4>3 DEF Fits, then
    <3>4. CASE ~u.opaque
      <4>1. frame.hooks => frame.kind = "object" /\ ~Discards(checked)
        BY <2>8
      <4> DEFINE plain == [framed EXCEPT !.limit = checked.limit]
      <4>0. x = Append(checked.frames, frame)
        BY DEF x
      <4>2. CASE hooks
        <5>1. frame.hooks
          BY <2>8, <4>2
        <5>2. Spans(limited, Append(stack, frame.kind),
                    IF frame.kind = "object" THEN "before" ELSE "between", 0)
          BY <2>6, <2>7, <2>8, <2>10, <2>12, <2>13, <3>1, <3>2, <4>1, <5>1, FrameOpens, <4>0
        <5>3. Spans(limited, Append(stack, kind), then, 0)
          BY <2>8, <5>2 DEF then
        <5>4. OnStart(s, kind, u) = limited
          BY <2>17, <2>19, <3>4, <4>2 DEF Stopped
        <5>5. QED
          BY <5>3, <5>4 DEF Fits, then
      <4>3. CASE ~hooks
        <5>1. ~frame.hooks /\ checked.limit \in LimitType
          BY <2>6, <2>8, <4>3, SpineType
        <5>2. Spans(plain, Append(stack, frame.kind),
                    IF frame.kind = "object" THEN "before" ELSE "between", 0)
          BY <2>6, <2>7, <2>8, <2>10, <3>1, <3>2, <4>1, <5>1, FrameOpens, <4>0
        <5>3. Agree(plain, framed)
          BY <2>14, <5>1, LimitIs DEF Agree
        <5> HIDE DEF plain
        <5>4. Spans(framed, Append(stack, kind), then, 0)
          BY <2>8, <5>2, <5>3, AgreeSpans DEF then
        <5>5. OnStart(s, kind, u) = framed
          BY <2>17, <2>19, <3>4, <4>3 DEF Stopped
        <5>6. QED
          BY <5>4, <5>5 DEF Fits, then
      <4>4. QED
        BY <4>2, <4>3
    <3>5. QED
      BY <3>3, <3>4
  <2>20. QED
    BY <2>18, <2>19
<1>9. QED
  BY <1>6, <1>7, <1>8

(* A container closes. *)
LEMMA Shrunk ==
  ASSUME NEW stack \in Seq(Contexts), stack # <<>>
  PROVE  /\ Pop(stack) \in Seq(Contexts) /\ Len(Pop(stack)) = Len(stack) - 1
         /\ Len(stack) \in Nat \ {0}
         /\ \A i \in 1..(Len(stack) - 1) : Pop(stack)[i] = stack[i]
         /\ Context(stack) = stack[Len(stack)]
<1> DEFINE m == Len(stack) - 1
<1>1. Len(stack) \in Nat \ {0} /\ m \in Nat /\ 1 \in Int
  OBVIOUS
<1>2. stack[Len(stack)] \in Contexts /\ \A i \in 1..m : stack[i] \in Contexts
  BY <1>1
<1>3. Pop(stack) = SubSeq(stack, 1, m)
  BY DEF Pop
<1> HIDE DEF m
<1>4. /\ Len(SubSeq(stack, 1, m)) = IF 1 <= m THEN m - 1 + 1 ELSE 0
      /\ \A i \in 1..(m - 1 + 1) : SubSeq(stack, 1, m)[i] = stack[1 + i - 1]
      /\ SubSeq(stack, 1, m) \in Seq(Contexts)
  BY <1>1, <1>2, SubSeqProperties
<1>5. m - 1 + 1 = m /\ (~(1 <= m) => m = 0) /\ \A i \in 1..m : 1 + i - 1 = i
  BY <1>1
<1>6. Len(Pop(stack)) = m /\ \A i \in 1..m : Pop(stack)[i] = stack[i]
  BY <1>3, <1>4, <1>5
<1>7. QED
  BY <1>1, <1>3, <1>4, <1>6 DEF Context, m

LEMMA OpaqueCloses ==
  ASSUME NEW s \in Spines, s.opaque > 0, NEW x \in Nat, x = s.opaque - 1,
         NEW stack, NEW place, place # "string", Spans(s, stack, place, -1)
  PROVE  Spans([s EXCEPT !.opaque = x], Pop(stack), "between", 0)
<1> DEFINE t == [s EXCEPT !.opaque = x]
<1>1. /\ t \in Spines /\ t.opaque = x /\ t.frames = s.frames /\ t.discard = s.discard
      /\ t.limit = s.limit
  BY OpaqueSet
<1> HIDE DEF t
<1>2. Len(s.frames) \in Nat /\ s.opaque \in Nat /\ DOMAIN s.frames = 1..Len(s.frames)
  BY SpineType
<1>3. /\ stack \in Seq(Contexts) /\ Len(stack) = Len(s.frames) + s.opaque
      /\ \A i \in DOMAIN s.frames : s.frames[i].kind = stack[i]
  BY DEF Spans, Kinds
<1>4. Kinds(t, Pop(stack))
  <2>1. stack # <<>>
    BY <1>2, <1>3
  <2>2. /\ Pop(stack) \in Seq(Contexts) /\ Len(Pop(stack)) = Len(stack) - 1
        /\ \A i \in 1..(Len(stack) - 1) : Pop(stack)[i] = stack[i]
    BY <1>3, <2>1, Shrunk
  <2>3. \A a \in Nat, b \in Nat : b > 0 => 1..a \subseteq 1..(a + b - 1) /\ a + b - 1 = a + (b - 1)
    OBVIOUS
  <2>4. DOMAIN s.frames \subseteq 1..(Len(stack) - 1) /\ Len(stack) - 1 = Len(t.frames) + t.opaque
    <3>1. /\ 1..Len(s.frames) \subseteq 1..(Len(s.frames) + s.opaque - 1)
          /\ Len(s.frames) + s.opaque - 1 = Len(s.frames) + (s.opaque - 1)
      BY <1>2, <2>3
    <3>2. Len(stack) - 1 = Len(s.frames) + s.opaque - 1
      BY <1>2, <1>3
    <3>3. Len(t.frames) + t.opaque = Len(s.frames) + (s.opaque - 1)
      BY <1>1
    <3>4. DOMAIN s.frames \subseteq 1..(Len(stack) - 1)
      BY <1>2, <3>1, <3>2
    <3>5. QED
      BY <3>1, <3>2, <3>3, <3>4
  <2>5. QED
    BY <1>1, <1>3, <2>2, <2>4 DEF Kinds
<1>5. Holds(t, "between")
  BY <1>1, <1>2 DEF Spans, Holds, Discards
<1>6. Drops(t, "between", 0)
  <2>1. DropOpen(s) => /\ s.discard.nest >= 0 /\ s.discard.nest # 0
                       /\ Len(s.frames) + s.opaque + -1 = s.discard.depth + s.discard.nest
    BY DEF Spans, Drops
  <2>2. Len(s.frames) + s.opaque + -1 = Len(s.frames) + x + 0
    BY <1>2
  <2>3. QED
    BY <1>1, <2>1, <2>2 DEF Spans, Drops, Discards, DropOpen
<1>7. Armed(t)
  BY <1>1 DEF Spans, Armed, Top, Discards, DropOpen
<1>8. QED
  BY <1>4, <1>5, <1>6, <1>7 DEF Spans, t

LEMMA OnEndOpaqueSpans ==
  ASSUME NEW s \in Spines, s.opaque > 0, NEW u, NEW stack, NEW place, place # "string",
         Fits(s, stack, place, -1)
  PROVE  Fits(OnEndOpaque(s, u), Pop(stack), "between", 0)
<1> DEFINE x == IF s.opaque > 1 THEN s.opaque - 1 ELSE 0
<1> DEFINE t == [s EXCEPT !.opaque = x]
<1> DEFINE r == Record(t, u)
<1>1. s.opaque \in Nat /\ x \in Nat /\ x = s.opaque - 1
  BY SpineType
<1>2. OnEndOpaque(s, u) = IF s.opaque > 1 THEN t ELSE r
  BY DEF OnEndOpaque
<1> HIDE DEF x
<1>3. t \in Spines /\ t.disposed = s.disposed /\ t.thrown = s.thrown
  BY <1>1, OpaqueSet
<1>4. Fits(t, Pop(stack), "between", 0)
  <2>1. CASE Stopped(s)
    BY <1>3, <2>1 DEF Fits, Stopped, Threw
  <2>2. CASE Spans(s, stack, place, -1)
    <3>1. Spans(t, Pop(stack), "between", 0)
      BY <1>1, <2>2, OpaqueCloses
    <3>2. QED
      BY <3>1 DEF Fits
  <2>3. QED
    BY <2>1, <2>2 DEF Fits
<1> HIDE DEF t
<1>5. Leaves(t, r)
  BY <1>3, RecordLeaves
<1>6. QED
  BY <1>2, <1>4, <1>5, LeavesFits

LEMMA PopIs ==
  ASSUME NEW s \in Spines, s.frames # <<>>, NEW t, t = PopFrame(s)
  PROVE  /\ t \in Spines /\ Len(t.frames) = Len(s.frames) - 1
         /\ DOMAIN t.frames = 1..(Len(s.frames) - 1) /\ DOMAIN t.frames \subseteq DOMAIN s.frames
         /\ \A i \in DOMAIN t.frames : t.frames[i] = s.frames[i]
         /\ t.opaque = s.opaque /\ t.discard = s.discard /\ t.limit = s.limit
         /\ t.disposed = s.disposed /\ t.thrown = s.thrown
<1> DEFINE x == SubSeq(s.frames, 1, Len(s.frames) - 1)
<1>1. s.frames \in Seq(FrameType) /\ Len(s.frames) \in Nat \ {0} /\ DOMAIN s.frames = 1..Len(s.frames)
  BY SpineType
<1>2. /\ x \in Seq(FrameType) /\ Len(x) = Len(s.frames) - 1 /\ DOMAIN x = 1..(Len(s.frames) - 1)
      /\ \A i \in DOMAIN x : x[i] = s.frames[i]
      /\ DOMAIN x \subseteq DOMAIN s.frames
  BY <1>1
<1>3. t = [s EXCEPT !.frames = x]
  BY DEF PopFrame
<1> HIDE DEF x
<1>4. /\ t \in Spines /\ t.frames = x /\ t.opaque = s.opaque /\ t.discard = s.discard
      /\ t.limit = s.limit /\ t.disposed = s.disposed /\ t.thrown = s.thrown
  BY <1>2, <1>3, FramesSet
<1>5. QED
  BY <1>2, <1>4

(* What is left below a frame that closed: no prefix held, and no dropped
   value of the frame's own. *)
LEMMA Below ==
  ASSUME NEW s \in Spines, s.opaque = 0, s.frames # <<>>, NEW stack, NEW place, place # "string",
         Spans(s, stack, place, -1), NEW t \in Spines, Len(t.frames) = Len(s.frames) - 1,
         DOMAIN t.frames = 1..(Len(s.frames) - 1), DOMAIN t.frames \subseteq DOMAIN s.frames,
         \A i \in DOMAIN t.frames : t.frames[i] = s.frames[i], t.opaque = s.opaque,
         (t.discard = s.discard /\ s.discard.depth # Len(s.frames)) \/ ~Discards(t),
         t.limit.kind # "prefix", t.limit = s.limit \/ (t.limit.kind # "drop" /\ ~DropOpen(t)),
         ~Discards(t) => t.limit.kind # "drop"
  PROVE  Spans(t, Pop(stack), "between", 0)
<1> DEFINE n == Len(s.frames)
<1>1. n \in Nat \ {0} /\ DOMAIN s.frames = 1..n /\ s.discard \in DiscardType
  BY TopIsLast, SpineType
<1>2. /\ stack \in Seq(Contexts) /\ Len(stack) = n
      /\ \A i \in 1..n : s.frames[i].kind = stack[i]
  BY <1>1 DEF Spans, Kinds
<1>3. /\ Pop(stack) \in Seq(Contexts) /\ Len(Pop(stack)) = n - 1
      /\ \A i \in 1..(n - 1) : Pop(stack)[i] = stack[i]
  <2>1. stack # <<>>
    BY <1>1, <1>2
  <2>2. QED
    BY <1>2, <2>1, Shrunk
<1> HIDE DEF n
<1>4. Kinds(t, Pop(stack))
  <2>1. Len(t.frames) = n - 1 /\ t.opaque = 0 /\ n - 1 = n - 1 + 0
    BY <1>1 DEF n
  <2>2. \A i \in DOMAIN t.frames : i \in 1..(n - 1) /\ i \in 1..n
    BY <1>1 DEF n
  <2>3. Len(Pop(stack)) = Len(t.frames) + t.opaque
    BY <1>1, <1>3, <2>1
  <2>4. QED
    BY <1>2, <1>3, <2>2, <2>3 DEF Kinds
<1>5. ASSUME NEW i \in DOMAIN t.frames
      PROVE  /\ t.frames[i].hooks => t.frames[i].kind = "object"
             /\ t.frames[i].prefix = Infinity
             /\ Discards(s) /\ i > s.discard.depth => ~t.frames[i].hooks
  <2>1. i \in DOMAIN s.frames /\ t.frames[i] = s.frames[i] /\ i # n
    BY <1>1 DEF n
  <2>2. QED
    BY <2>1 DEF Spans, Holds, n
<1>6. Discards(t) => t.discard = s.discard /\ s.discard.depth # n /\ Discards(s)
  BY DEF Discards, n
<1>7. Holds(t, "between")
  BY <1>5, <1>6 DEF Holds
<1>8. Drops(t, "between", 0)
  <2>1. /\ Discards(s) => s.discard.depth \in 1..n /\ s.frames[s.discard.depth].kind = "object"
        /\ DropOpen(s) => /\ s.discard.nest >= 0 /\ s.discard.nest # 0
                          /\ n + 0 + -1 = s.discard.depth + s.discard.nest
    BY DEF Spans, Drops, n
  <2>2. Discards(t) => s.discard.depth \in 1..(n - 1)
    BY <1>1, <1>6, <2>1
  <2>3. Discards(t) => t.frames[t.discard.depth].kind = "object"
    BY <1>6, <2>1, <2>2 DEF n
  <2>4. n + 0 + -1 = n - 1 + 0 + 0 /\ Len(t.frames) = n - 1 /\ t.opaque = 0
    BY <1>1 DEF n
  <2>5. DropOpen(t) => DropOpen(s)
    BY <1>6 DEF DropOpen
  <2>6. DropOpen(t) => Len(t.frames) + t.opaque + 0 = t.discard.depth + t.discard.nest
    BY <1>6, <2>1, <2>4, <2>5 DEF DropOpen
  <2>7. QED
    BY <1>6, <2>1, <2>2, <2>3, <2>4, <2>5, <2>6 DEF Drops, DropOpen, n
<1>9. Armed(t)
  <2>1. t.frames # <<>> => Top(t).prefix = Infinity
    BY <1>5, TopIsLast
  <2>2. t.limit.kind = "drop" <=> DropOpen(t) /\ MaxDrop # Infinity
    <3>1. CASE Discards(t)
      <4>1. t.discard = s.discard
        BY <1>6, <3>1
      <4>2. DropOpen(t) <=> DropOpen(s)
        BY <4>1 DEF DropOpen, Discards
      <4>3. QED
        BY <4>2 DEF Spans, Armed
    <3>2. CASE ~Discards(t)
      BY <3>2 DEF DropOpen
    <3>3. QED
      BY <3>1, <3>2
  <2>3. QED
    BY <2>1, <2>2 DEF Armed
<1>10. QED
  BY <1>4, <1>7, <1>8, <1>9 DEF Spans

LEMMA EndDiscardIs ==
  ASSUME NEW s \in Spines, NEW o \in Nat, NEW t, t = EndDiscard(s, o)
  PROVE  /\ t \in Spines /\ t.discard = NoDiscard /\ ~Discards(t) /\ t.frames = s.frames
         /\ t.opaque = s.opaque /\ t.limit = s.limit /\ t.disposed = s.disposed
         /\ t.thrown = s.thrown
<1> DEFINE r == [s EXCEPT !.discard = NoDiscard]
<1> DEFINE e == Edit(s.discard.start, o, "none")
<1>1. NoDiscard \in DiscardType /\ NoDiscard.start = Infinity
  BY Numbers DEF NoDiscard, DiscardType
<1>2. s.discard.start \in Nat
  BY SpineType DEF DiscardType
<1>3. e \in EditType
  BY <1>2 DEF Edit, EditType
<1>4. t = AddEdit(r, e)
  BY DEF EndDiscard
<1> HIDE DEF e
<1>5. /\ r \in Spines /\ r.discard = NoDiscard /\ r.frames = s.frames /\ r.opaque = s.opaque
      /\ r.limit = s.limit /\ r.disposed = s.disposed /\ r.thrown = s.thrown
  BY <1>1, DiscardSet
<1> HIDE DEF r
<1> DEFINE x == r.edits \union {e}
<1>6. x \in SUBSET EditType /\ t = [r EXCEPT !.edits = x]
  BY <1>3, <1>4, <1>5, SpineType DEF AddEdit
<1> HIDE DEF x
<1>7. t \in Spines /\ \A g \in Fields \ {"edits"} : t[g] = r[g]
  <2>1. "edits" \in Fields
    BY DEF Fields
  <2>2. \A g \in Fields \ {"edits"} : t[g] = r[g]
    BY <1>5, <1>6, <2>1, SetReads
  <2>3. QED
    BY <1>5, <1>6, <2>2, SetFields
<1>8. QED
  BY <1>1, <1>5, <1>7 DEF Fields, Discards

LEMMA CloseFrameSpans ==
  ASSUME NEW s \in Spines, s.opaque = 0, s.frames # <<>>, NEW o \in Nat,
         NEW stack, NEW place, place # "string", Spans(s, stack, place, -1)
  PROVE  /\ Spans(CloseFrame(s, o), Pop(stack), "between", 0)
         /\ Context(stack) = "array" => PopFrame(s) = CloseFrame(s, o)
<1> DEFINE n == Len(s.frames)
<1> DEFINE r == PopFrame(s)
<1> DEFINE ended == EndDiscard(r, o)
<1> DEFINE cleared == ClearLimit(r)
<1>1. n \in Nat \ {0} /\ n \in DOMAIN s.frames /\ s.discard \in DiscardType /\ Top(s) = s.frames[n]
  BY TopIsLast, SpineType
<1>2. CloseFrame(s, o) = IF Discards(s) /\ s.discard.depth = n THEN ended
                         ELSE IF Top(s).prefix # Infinity THEN cleared ELSE r
  BY DEF CloseFrame
<1>3. /\ r \in Spines /\ Len(r.frames) = n - 1
      /\ DOMAIN r.frames = 1..(n - 1) /\ DOMAIN r.frames \subseteq DOMAIN s.frames
      /\ \A i \in DOMAIN r.frames : r.frames[i] = s.frames[i]
      /\ r.opaque = s.opaque /\ r.discard = s.discard /\ r.limit = s.limit
  BY PopIs
<1> HIDE DEF r, n
<1>4. /\ Top(s).prefix = Infinity => s.limit.kind # "prefix"
      /\ Top(s).prefix # Infinity => ~Discards(s)
      /\ s.limit.kind = "drop" => DropOpen(s)
  BY <1>1 DEF Spans, Armed, Holds
<1>5. CASE Discards(s) /\ s.discard.depth = n
  <2>1. /\ ended \in Spines /\ ~Discards(ended) /\ ended.frames = r.frames
        /\ ended.opaque = r.opaque /\ ended.limit = r.limit
    <3>1. ended = EndDiscard(r, o)
      OBVIOUS
    <3> HIDE DEF ended
    <3>2. QED
      BY <1>3, <3>1, EndDiscardIs
  <2> HIDE DEF ended
  <2>2. ~DropOpen(s)
    <3>1. SUFFICES ASSUME DropOpen(s) PROVE FALSE
      OBVIOUS
    <3>2. s.discard.nest >= 0 /\ n + 0 + -1 = n + s.discard.nest /\ s.discard.nest \in Int
      BY <1>1, <1>5, <3>1 DEF Spans, Drops, n, DiscardType
    <3>3. QED
      BY <1>1, <3>2
  <2>3. Spans(ended, Pop(stack), "between", 0)
    BY <1>3, <1>4, <1>5, <2>1, <2>2, Below DEF n
  <2>4. CloseFrame(s, o) = ended
    BY <1>2, <1>5
  <2>5. Context(stack) # "array"
    <3>1. s.frames[n].kind = "object" /\ s.frames[n].kind = stack[n] /\ Len(stack) = n + 0
      BY <1>1, <1>5 DEF Spans, Drops, Kinds, n
    <3>2. Len(stack) = n
      BY <1>1, <3>1
    <3>3. QED
      BY <3>1, <3>2 DEF Context
  <2>6. QED
    BY <2>3, <2>4, <2>5
<1>6. CASE ~(Discards(s) /\ s.discard.depth = n) /\ Top(s).prefix # Infinity
  <2>1. /\ cleared \in Spines /\ cleared.limit.kind = "none" /\ cleared.frames = r.frames
        /\ cleared.opaque = r.opaque /\ cleared.discard = r.discard
    BY <1>3, LimitCleared
  <2> HIDE DEF cleared
  <2>2. ~Discards(cleared) /\ ~DropOpen(cleared)
    BY <1>3, <1>4, <1>6, <2>1 DEF Discards, DropOpen
  <2>3. cleared.limit.kind # "prefix" /\ cleared.limit.kind # "drop"
    BY <2>1
  <2>4. Spans(cleared, Pop(stack), "between", 0)
    BY <1>3, <2>1, <2>2, <2>3, Below DEF n
  <2>5. CloseFrame(s, o) = cleared
    BY <1>2, <1>6
  <2>6. Context(stack) # "array"
    <3>1. /\ s.frames[n].kind = "object" /\ s.frames[n].kind = stack[n] /\ Len(stack) = n + 0
      BY <1>1, <1>6 DEF Spans, Holds, Kinds, n
    <3>2. Len(stack) = n
      BY <1>1, <3>1
    <3>3. QED
      BY <3>1, <3>2 DEF Context
  <2>7. QED
    BY <2>4, <2>5, <2>6
<1>7. CASE ~(Discards(s) /\ s.discard.depth = n) /\ Top(s).prefix = Infinity
  <2>1. r.limit.kind # "prefix" /\ (~Discards(r) => r.limit.kind # "drop")
    BY <1>3, <1>4, <1>7 DEF Discards, DropOpen
  <2>2. (r.discard = s.discard /\ s.discard.depth # n) \/ ~Discards(r)
    BY <1>3, <1>7 DEF Discards
  <2>3. Spans(r, Pop(stack), "between", 0)
    BY <1>3, <2>1, <2>2, Below DEF n
  <2>4. CloseFrame(s, o) = r
    BY <1>2, <1>7
  <2>5. QED
    BY <2>3, <2>4 DEF r
<1>8. QED
  BY <1>5, <1>6, <1>7

LEMMA ScopeCloseLeaves ==
  ASSUME NEW s \in Spines, NEW outputs, NEW o \in Nat, NEW u
  PROVE  Leaves(s, ScopeClose(s, outputs, o, u)) /\ ScopeClose(s, outputs, o, u) \in Spines
<1> DEFINE t == Told(s, u)
<1> DEFINE a == Edit(o, o, "A")
<1> DEFINE b == Edit(o, o, ",A")
<1>1. a \in EditType /\ b \in EditType
  BY DEF Edit, EditType
<1>2. Leaves(s, t) /\ t \in Spines /\ Leaves(s, s)
  BY ToldLeaves, SameLeaves, ToldKeeps DEF Onward, Moves
<1> DEFINE e == Edit(o, o, IF outputs THEN ",A" ELSE "A")
<1>a. ScopeClose(s, outputs, o, u) = IF Threw(s) THEN s ELSE IF u.appends THEN AddEdit(t, e) ELSE t
  BY DEF ScopeClose
<1>b. e = a \/ e = b
  BY Zenon
<1> HIDE DEF e
<1>3. ScopeClose(s, outputs, o, u) \in {s, t, AddEdit(t, a), AddEdit(t, b)}
  <2> HIDE DEF a, b, t
  <2>1. AddEdit(t, e) = AddEdit(t, a) \/ AddEdit(t, e) = AddEdit(t, b)
    BY <1>b
  <2>2. QED
    BY <1>a, <2>1
<1> HIDE DEF a, b, t
<1>4. /\ Leaves(t, AddEdit(t, a)) /\ Leaves(t, AddEdit(t, b))
      /\ AddEdit(t, a) \in Spines /\ AddEdit(t, b) \in Spines
  BY <1>1, <1>2, AddEditLeaves
<1>5. Leaves(s, AddEdit(t, a)) /\ Leaves(s, AddEdit(t, b))
  BY <1>2, <1>4, LeavesThen
<1>6. QED
  BY <1>2, <1>3, <1>4, <1>5

(* What a close of the text does before its frame or opaque value goes. *)
LEMMA ClosedSpans ==
  ASSUME NEW s \in Spines, ~Stopped(s), s.frames # <<>> \/ s.opaque > 0, NEW end \in Nat, end # Infinity,
         NEW stack, NEW place, place # "string", Spans(s, stack, place, 0),
         NEW closed, closed = NoteDropClose(s, end)
  PROVE  /\ closed \in Spines /\ Fits(closed, stack, place, -1)
         /\ ~Stopped(closed) => closed.opaque = s.opaque /\ (s.opaque = 0 => closed.frames # <<>>)
<1>1. Fits(closed, stack, place, -1)
  BY NoteDropCloseSpans
<1>2. Moves(s, closed, 0, 0)
  BY NoteDropCloseKeeps DEF Keeps, Onward
<1>3. closed \in Spines
  BY <1>2 DEF Moves
<1>4. /\ Len(s.frames) \in Nat /\ s.frames \in Seq(FrameType) /\ s.opaque \in Nat
      /\ Len(closed.frames) \in Nat /\ closed.frames \in Seq(FrameType) /\ closed.opaque \in Nat
  BY <1>3, SpineType
<1>5. ASSUME ~Stopped(closed)
      PROVE  closed.opaque = s.opaque /\ (s.opaque = 0 => closed.frames # <<>>)
  <2>1. Len(closed.frames) = Len(s.frames) + 0 /\ closed.opaque = s.opaque + 0
    BY <1>2, <1>5 DEF Moves, Stopped
  <2>2. s.opaque = 0 => Len(s.frames) > 0
    BY <1>4
  <2>3. Len(closed.frames) = Len(s.frames) /\ closed.opaque = s.opaque
    BY <1>4, <2>1
  <2>4. closed.frames = <<>> => Len(closed.frames) = 0
    OBVIOUS
  <2>5. QED
    BY <2>2, <2>3, <2>4
<1>6. QED
  BY <1>1, <1>3, <1>5

LEMMA OnEndObjectSpans ==
  ASSUME NEW s \in Spines, ~Stopped(s), s.frames # <<>> \/ s.opaque > 0, NEW u,
         s.tok.pos + 1 # Infinity, NEW stack, NEW place, place # "string", Spans(s, stack, place, 0)
  PROVE  Fits(OnEndObject(s, u), Pop(stack), "between", 0)
<1> DEFINE o == s.tok.pos
<1> DEFINE closed == NoteDropClose(s, o + 1)
<1> DEFINE opaque == OnEndOpaque(closed, u)
<1> DEFINE popped == CloseFrame(closed, o)
<1> DEFINE checked == Record(popped, u)
<1> DEFINE scope == ScopeClose(checked, OutputsMembers(Top(s)), o, u)
<1> DEFINE done == SettleBudget(scope)
<1>1. OnEndObject(s, u) = IF Threw(closed) THEN closed ELSE IF s.opaque > 0 THEN opaque ELSE done
  BY DEF OnEndObject
<1>2. o \in Nat /\ o + 1 \in Nat /\ o + 1 # Infinity /\ s.opaque \in Nat
  BY SpineType
<1>3. /\ closed \in Spines /\ Fits(closed, stack, place, -1)
      /\ ~Stopped(closed) => closed.opaque = s.opaque /\ (s.opaque = 0 => closed.frames # <<>>)
  BY <1>2, ClosedSpans
<1> HIDE DEF closed
<1>4. CASE Threw(closed)
  BY <1>1, <1>4 DEF Fits, Stopped
<1>5. CASE ~Threw(closed) /\ s.opaque > 0
  <2>1. OnEndObject(s, u) = opaque
    BY <1>1, <1>5
  <2>2. CASE closed.disposed
    <3>1. Moves(closed, opaque, 0, -1)
      BY <1>3, <2>2, OnEndOpaqueMoves
    <3>2. QED
      BY <2>1, <2>2, <3>1 DEF Moves, Fits, Stopped
  <2>3. CASE ~closed.disposed
    <3>1. closed.opaque > 0
      BY <1>3, <1>5, <2>3 DEF Stopped
    <3>2. QED
      BY <1>3, <2>1, <3>1, OnEndOpaqueSpans
  <2>4. QED
    BY <2>2, <2>3
<1>6. CASE ~Threw(closed) /\ s.opaque = 0
  <2>1. popped \in Spines /\ Fits(popped, Pop(stack), "between", 0)
    <3>1. CASE closed.disposed
      <4>1. Moves(closed, popped, -1, 0)
        BY <1>2, <1>3, <3>1, CloseFrameMoves
      <4>2. QED
        BY <3>1, <4>1 DEF Moves, Fits, Stopped
    <3>2. CASE ~closed.disposed
      <4>1. closed.opaque = 0 /\ closed.frames # <<>> /\ Spans(closed, stack, place, -1)
        BY <1>3, <1>6, <3>2 DEF Stopped, Fits
      <4>2. Moves(closed, popped, -1, 0)
        BY <1>2, <1>3, <4>1, CloseFrameMoves
      <4>3. Spans(popped, Pop(stack), "between", 0)
        BY <1>2, <1>3, <4>1, CloseFrameSpans
      <4>4. QED
        BY <4>2, <4>3 DEF Moves, Fits
    <3>3. QED
      BY <3>1, <3>2
  <2> HIDE DEF popped
  <2>2. Leaves(popped, checked) /\ checked \in Spines
    BY <2>1, RecordLeaves, RecordKeeps DEF Onward, Moves
  <2> HIDE DEF checked
  <2>3. Leaves(checked, scope) /\ scope \in Spines
    BY <1>2, <2>2, ScopeCloseLeaves
  <2> HIDE DEF scope
  <2>4. Leaves(scope, done)
    BY <2>3, SettleBudgetLeaves
  <2> HIDE DEF done
  <2>5. Fits(done, Pop(stack), "between", 0)
    BY <2>1, <2>2, <2>3, <2>4, LeavesFits
  <2>6. OnEndObject(s, u) = done
    BY <1>1, <1>6
  <2>7. QED
    BY <2>5, <2>6
<1>7. QED
  BY <1>2, <1>4, <1>5, <1>6

LEMMA OnEndArraySpans ==
  ASSUME NEW s \in Spines, ~Stopped(s), s.frames # <<>> \/ s.opaque > 0, NEW u,
         s.tok.pos + 1 # Infinity, NEW stack, Context(stack) = "array",
         NEW place, place # "string", Spans(s, stack, place, 0)
  PROVE  Fits(OnEndArray(s, u), Pop(stack), "between", 0)
<1> DEFINE o == s.tok.pos
<1> DEFINE closed == NoteDropClose(s, o + 1)
<1> DEFINE opaque == OnEndOpaque(closed, u)
<1> DEFINE popped == PopFrame(closed)
<1> DEFINE checked == Record(popped, u)
<1> DEFINE done == ScopeClose(checked, OutputsElements(s), o, u)
<1>1. OnEndArray(s, u) = IF Threw(closed) THEN closed ELSE IF s.opaque > 0 THEN opaque ELSE done
  BY DEF OnEndArray
<1>2. o \in Nat /\ o + 1 \in Nat /\ s.opaque \in Nat /\ 0 \in Nat
  BY SpineType
<1>3. /\ closed \in Spines /\ Fits(closed, stack, place, -1)
      /\ ~Stopped(closed) => closed.opaque = s.opaque /\ (s.opaque = 0 => closed.frames # <<>>)
  BY <1>2, ClosedSpans
<1> HIDE DEF closed
<1>4. CASE Threw(closed)
  BY <1>1, <1>4 DEF Fits, Stopped
<1>5. CASE ~Threw(closed) /\ s.opaque > 0
  <2>1. OnEndArray(s, u) = opaque
    BY <1>1, <1>5
  <2>2. CASE closed.disposed
    <3>1. Moves(closed, opaque, 0, -1)
      BY <1>3, <2>2, OnEndOpaqueMoves
    <3>2. QED
      BY <2>1, <2>2, <3>1 DEF Moves, Fits, Stopped
  <2>3. CASE ~closed.disposed
    <3>1. closed.opaque > 0
      BY <1>3, <1>5, <2>3 DEF Stopped
    <3>2. QED
      BY <1>3, <2>1, <3>1, OnEndOpaqueSpans
  <2>4. QED
    BY <2>2, <2>3
<1>6. CASE ~Threw(closed) /\ s.opaque = 0
  <2>1. popped \in Spines /\ Fits(popped, Pop(stack), "between", 0)
    <3>1. CASE closed.disposed
      <4>1. Moves(closed, popped, -1, 0)
        BY <1>3, <3>1, PopFrameMoves
      <4>2. QED
        BY <3>1, <4>1 DEF Moves, Fits, Stopped
    <3>2. CASE ~closed.disposed
      <4>1. closed.opaque = 0 /\ closed.frames # <<>> /\ Spans(closed, stack, place, -1)
        BY <1>3, <1>6, <3>2 DEF Stopped, Fits
      <4>2. Moves(closed, popped, -1, 0)
        BY <1>3, <4>1, PopFrameMoves
      <4>3. Spans(popped, Pop(stack), "between", 0)
        BY <1>2, <1>3, <4>1, CloseFrameSpans
      <4>4. QED
        BY <4>2, <4>3 DEF Moves, Fits
    <3>3. QED
      BY <3>1, <3>2
  <2> HIDE DEF popped
  <2>2. Leaves(popped, checked) /\ checked \in Spines
    BY <2>1, RecordLeaves, RecordKeeps DEF Onward, Moves
  <2> HIDE DEF checked
  <2>3. Leaves(checked, done)
    BY <1>2, <2>2, ScopeCloseLeaves
  <2> HIDE DEF done
  <2>4. Fits(done, Pop(stack), "between", 0)
    BY <2>1, <2>2, <2>3, LeavesFits
  <2>5. OnEndArray(s, u) = done
    BY <1>1, <1>6
  <2>6. QED
    BY <2>4, <2>5
<1>7. QED
  BY <1>2, <1>4, <1>5, <1>6

(* A limit that is set again is still the limit of its span. *)
LEMMA LimitAgain ==
  ASSUME NEW s \in Spines, NEW kind \in {"prefix", "drop"}, NEW at \in Int, s.limit.kind = kind,
         NEW stack, NEW place, NEW more, Spans(s, stack, place, more)
  PROVE  Spans(Limit(s, kind, at), stack, place, more)
<1> DEFINE t == Limit(s, kind, at)
<1>1. /\ t.limit.kind = kind /\ t.frames = s.frames /\ t.opaque = s.opaque /\ t.discard = s.discard
  BY LimitSet
<1> HIDE DEF t
<1>2. (Discards(t) <=> Discards(s)) /\ (DropOpen(t) <=> DropOpen(s))
  BY <1>1 DEF Discards, DropOpen
<1>3. Kinds(t, stack) /\ Holds(t, place)
  BY <1>1, <1>2 DEF Spans, Kinds, Holds
<1>4. Drops(t, place, more) /\ Armed(t)
  BY <1>1, <1>2 DEF Spans, Drops, Armed, Top
<1>5. QED
  BY <1>3, <1>4 DEF Spans, t

(* Where the text stands only matters to the object whose members are
   decided, and to a dropped string. *)
LEMMA PlaceSpans ==
  ASSUME NEW s \in Spines, NEW stack, NEW p, NEW q, NEW more, Spans(s, stack, p, more),
         p # "string" \/ q = "string" \/ ~DropOpen(s) \/ s.discard.nest # 0,
         s.opaque > 0 \/ Discards(s) \/ s.frames = <<>> \/ ~Top(s).hooks \/ (p = "before" <=> q = "before")
  PROVE  Spans(s, stack, q, more)
<1>1. Holds(s, q)
  <2>1. s.opaque \in Nat /\ DOMAIN s.frames = 1..Len(s.frames) /\ s.frames \in Seq(FrameType)
    BY SpineType
  <2>2. s.frames = <<>> => DOMAIN s.frames = {}
    OBVIOUS
  <2>3. ASSUME NEW i \in DOMAIN s.frames
        PROVE  (s.frames[i].prefix # Infinity)
                 <=> (i = Len(s.frames) /\ s.frames[i].hooks /\ ~Discards(s) /\ s.opaque = 0 /\ q = "before")
    <3>1. (s.frames[i].prefix # Infinity)
            <=> (i = Len(s.frames) /\ s.frames[i].hooks /\ ~Discards(s) /\ s.opaque = 0 /\ p = "before")
      BY DEF Spans, Holds
    <3>2. i = Len(s.frames) => s.frames[i] = Top(s)
      BY DEF Top
    <3>3. s.frames # <<>>
      BY <2>2
    <3>4. s.opaque > 0 => s.opaque # 0
      BY <2>1
    <3>5. QED
      BY <3>1, <3>2, <3>3, <3>4
  <2>4. QED
    BY <2>3 DEF Spans, Holds
<1>2. Drops(s, q, more)
  BY DEF Spans, Drops
<1>3. QED
  BY <1>1, <1>2 DEF Spans

LEMMA SetTopFits ==
  ASSUME NEW s \in Spines, NEW t \in Spines, Leaves(s, t), s.frames # <<>>, NEW f \in FrameType,
         f.kind = Top(s).kind, f.hooks = Top(s).hooks, f.prefix = Top(s).prefix,
         NEW stack, NEW place, NEW more, Fits(t, stack, place, more)
  PROVE  Fits(SetTop(t, f), stack, place, more)
<1>1. CASE Stopped(t)
  <2>1. Onward(t, SetTop(t, f))
    BY SetTopOnward
  <2>2. QED
    BY <1>1, <2>1, StoppedOn DEF Onward, Fits
<1>2. CASE ~Stopped(t)
  <2>1. t.frames = s.frames
    BY <1>2, LeavesFields
  <2>2. Top(t) = Top(s) /\ t.frames # <<>> /\ Spans(t, stack, place, more)
    BY <1>2, <2>1 DEF Top, Fits
  <2>3. Spans(SetTop(t, f), stack, place, more)
    BY <2>2, SetTopSpans
  <2>4. QED
    BY <2>3 DEF Fits
<1>3. QED
  BY <1>1, <1>2

LEMMA OnKeySpans ==
  ASSUME NEW s \in Spines, ~Stopped(s), s.frames # <<>> \/ s.opaque > 0, NEW key \in Seq(Byte),
         NEW start \in Nat, NEW u, NEW stack, NEW place, NEW more, Spans(s, stack, place, more)
  PROVE  Fits(OnKey(s, key, start, u), stack, place, more)
<1>1. CASE s.opaque > 0
  BY <1>1 DEF OnKey, Fits
<1>2. CASE ~(s.opaque > 0)
  <2> DEFINE end == s.tok.pos + 1
  <2> DEFINE top == [Top(s) EXCEPT !.keyStart = start, !.keyEnd = end]
  <2> DEFINE later == [top EXCEPT !.key = key, !.count = @ + 1]
  <2> DEFINE at == end + MaxPrefix - (start - top.prefix)
  <2> DEFINE asked == UserCode(s, u)
  <2> DEFINE told == SetTop(asked, top)
  <2> DEFINE limited == Limit(told, "prefix", at)
  <2> DEFINE holding == IF top.prefix = Infinity THEN told ELSE limited
  <2> DEFINE checked == Record(holding, u)
  <2> DEFINE done == SetTop(checked, later)
  <2>1. s.frames # <<>> /\ Top(s) \in FrameType /\ end \in Nat
    BY <1>2, TopType, SpineType
  <2>2. /\ top \in FrameType /\ top.hooks = Top(s).hooks /\ top.kind = Top(s).kind
        /\ top.prefix = Top(s).prefix
    BY <2>1 DEF FrameType
  <2>3. OnKey(s, key, start, u) = IF Threw(checked) THEN checked ELSE done
    BY <1>2 DEF OnKey
  <2> HIDE DEF top
  <2>4. /\ later \in FrameType /\ later.hooks = top.hooks /\ later.kind = top.kind
        /\ later.prefix = top.prefix
    <3>1. top.count + 1 \in Nat
      BY <2>2 DEF FrameType
    <3>2. QED
      BY <2>2, <3>1 DEF FrameType
  <2>5. at \in Int
    <3>1. top.prefix \in Nat
      BY <2>2 DEF FrameType
    <3>2. QED
      BY <2>1, <3>1, Numbers
  <2> HIDE DEF later, at
  <2>6. Onward(s, asked) /\ (~asked.disposed => asked = s)
    BY UserCodeKeeps
  <2> HIDE DEF asked
  <2>7. asked \in Spines
    BY <2>6 DEF Onward, Moves
  <2>8. Onward(asked, told) /\ told \in Spines
    BY <2>2, <2>7, SetTopOnward DEF Onward, Moves
  <2>9. CASE asked.disposed
    <3> HIDE DEF told
    <3>1. Onward(told, holding)
      BY <2>5, <2>8, LimitOnward, OnwardSame DEF Keeps
    <3> HIDE DEF holding
    <3>2. Onward(holding, checked)
      BY <3>1, RecordKeeps DEF Onward, Moves
    <3> HIDE DEF checked
    <3>3. Onward(checked, done)
      BY <2>4, <3>2, SetTopOnward DEF Onward, Moves
    <3> HIDE DEF done
    <3>4. checked.disposed /\ done.disposed
      BY <2>8, <2>9, <3>1, <3>2, <3>3 DEF Onward, Moves
    <3>5. QED
      BY <2>3, <3>4 DEF Fits, Stopped
  <2>10. CASE asked = s
    <3>1. /\ told \in Spines /\ Spans(told, stack, place, more) /\ told.frames # <<>> /\ Top(told) = top
      BY <2>1, <2>2, <2>10, SetTopSpans, SetTopIs
    <3> HIDE DEF told
    <3>2. CASE top.prefix = Infinity
      <4>1. holding = told
        BY <3>2
      <4>2. QED
        <5>1. holding \in Spines /\ Spans(holding, stack, place, more) /\ holding.frames # <<>>
              /\ Top(holding) = top
          BY <3>1, <4>1
        <5> HIDE DEF holding
        <5>2. Leaves(holding, checked) /\ checked \in Spines
          BY <5>1, RecordLeaves, RecordKeeps DEF Onward, Moves
        <5> HIDE DEF checked
        <5>3. Fits(checked, stack, place, more)
          BY <5>1, <5>2, LeavesFits DEF Fits
        <5>4. QED
          BY <2>3, <2>4, <5>1, <5>2, <5>3, SetTopFits
    <3>3. CASE top.prefix # Infinity
      <4>1. holding = limited
        BY <3>3
      <4>2. told.limit.kind = "prefix"
        BY <3>1, <3>3 DEF Spans, Armed
      <4>3. /\ limited \in Spines /\ Spans(limited, stack, place, more) /\ limited.frames = told.frames
        BY <2>5, <3>1, <4>2, LimitAgain, LimitSet
      <4> HIDE DEF limited
      <4>4. holding \in Spines /\ Spans(holding, stack, place, more) /\ holding.frames # <<>>
            /\ Top(holding) = top
        BY <3>1, <4>1, <4>3 DEF Top
      <4> HIDE DEF holding
      <4>5. Leaves(holding, checked) /\ checked \in Spines
        BY <4>4, RecordLeaves, RecordKeeps DEF Onward, Moves
      <4> HIDE DEF checked
      <4>6. Fits(checked, stack, place, more)
        BY <4>4, <4>5, LeavesFits DEF Fits
      <4>7. QED
        BY <2>3, <2>4, <4>4, <4>5, <4>6, SetTopFits
    <3>4. QED
      BY <3>2, <3>3
  <2>11. QED
    BY <2>6, <2>9, <2>10
<1>3. QED
  BY <1>1, <1>2

LEMMA OnMemberCommaSpans ==
  ASSUME NEW s \in Spines, ~Stopped(s), s.frames # <<>> \/ s.opaque > 0, s.tok.pos # Infinity,
         NEW stack, NEW place, place # "string", Spans(s, stack, place, 0)
  PROVE  Fits(OnMemberComma(s), stack, "before", 0)
<1>1. CASE s.opaque > 0 \/ (Discards(s) /\ s.discard.depth # Len(s.frames))
  <2>1. OnMemberComma(s) = s
    BY <1>1 DEF OnMemberComma
  <2>2. Spans(s, stack, "before", 0)
    BY <1>1, PlaceSpans
  <2>3. QED
    BY <2>1, <2>2 DEF Fits
<1>2. CASE ~(s.opaque > 0 \/ (Discards(s) /\ s.discard.depth # Len(s.frames)))
  <2> DEFINE o == s.tok.pos
  <2> DEFINE n == Len(s.frames)
  <2> DEFINE closed == EndDiscard(s, o)
  <2> DEFINE ended == IF Discards(s) THEN closed ELSE s
  <2> DEFINE top == [Top(s) EXCEPT !.prefix = o, !.comma = TRUE]
  <2> DEFINE kept == SetTop(ended, top)
  <2> DEFINE at == o + MaxPrefix
  <2> DEFINE limited == Limit(kept, "prefix", at)
  <2>1. OnMemberComma(s) = IF Top(s).hooks THEN limited ELSE ended
    BY <1>2 DEF OnMemberComma
  <2>2. o \in Nat /\ s.opaque = 0 /\ s.opaque \in Nat /\ o # Infinity
    BY <1>2, SpineType
  <2>3. /\ s.frames # <<>> /\ Top(s) \in FrameType /\ n \in Nat \ {0} /\ DOMAIN s.frames = 1..n
        /\ Top(s) = s.frames[n] /\ n \in DOMAIN s.frames
    BY <1>2, TopIsLast, TopType
  <2>4. /\ top \in FrameType /\ top.kind = Top(s).kind /\ top.hooks = Top(s).hooks /\ top.prefix = o
    BY <2>2, <2>3 DEF FrameType
  <2> HIDE DEF top
  <2>5. at \in Int
    BY <2>2, Numbers
  <2> HIDE DEF at
  <2>6. Discards(s) => ~DropOpen(s)
    <3>1. SUFFICES ASSUME DropOpen(s) PROVE FALSE
      OBVIOUS
    <3>2. /\ s.discard.nest >= 0 /\ n + 0 + 0 = n + s.discard.nest /\ s.discard.nest \in Int
          /\ s.discard.nest # 0
      BY <1>2, <2>2, <3>1, SpineType DEF Spans, Drops, DropOpen, DiscardType
    <3>3. QED
      BY <2>3, <3>2
  <2>7. s.limit.kind # "drop" /\ (Discards(s) => Top(s).prefix = Infinity)
    BY <2>3, <2>6 DEF Spans, Armed, DropOpen, Holds
  <2>8. /\ ended \in Spines /\ ended.frames = s.frames /\ ended.opaque = 0 /\ ~Discards(ended)
        /\ ended.limit = s.limit
    <3>1. closed = EndDiscard(s, o)
      OBVIOUS
    <3> HIDE DEF closed
    <3>2. /\ closed \in Spines /\ ~Discards(closed) /\ closed.frames = s.frames
          /\ closed.opaque = s.opaque /\ closed.limit = s.limit
      BY <2>2, <3>1, EndDiscardIs
    <3>3. QED
      BY <2>2, <3>2
  <2> HIDE DEF ended
  <2>9. \A i \in 1..n : /\ s.frames[i].hooks => s.frames[i].kind = "object"
                        /\ i # n => s.frames[i].prefix = Infinity
    BY <2>3 DEF Spans, Holds
  <2>10. Kinds(ended, stack)
    BY <2>2, <2>8 DEF Spans, Kinds
  <2>11. CASE ~Top(s).hooks
    <3>1. Top(s).prefix = Infinity
      BY <2>3, <2>11 DEF Spans, Holds
    <3>2. Holds(ended, "before")
      BY <2>3, <2>8, <2>9, <2>11, <3>1 DEF Holds
    <3>3. Drops(ended, "before", 0)
      BY <2>8 DEF Drops, DropOpen
    <3>4. Armed(ended)
      <4>1. s.limit.kind # "prefix"
        BY <3>1 DEF Spans, Armed
      <4>2. Top(ended).prefix = Infinity
        BY <2>8, <3>1 DEF Top
      <4>3. QED
        BY <2>7, <2>8, <4>1, <4>2 DEF Armed, DropOpen
    <3>5. OnMemberComma(s) = ended
      BY <2>1, <2>11
    <3>6. QED
      BY <2>10, <3>2, <3>3, <3>4, <3>5 DEF Fits, Spans
  <2>12. CASE Top(s).hooks
    <3>1. /\ kept \in Spines /\ Len(kept.frames) = n /\ kept.frames # <<>> /\ Top(kept) = top
          /\ \A i \in 1..n : kept.frames[i] = IF i = n THEN top ELSE s.frames[i]
          /\ kept.opaque = 0 /\ kept.discard = ended.discard
      BY <2>3, <2>4, <2>8, SetTopIs
    <3> HIDE DEF kept
    <3>2. /\ limited \in Spines /\ limited.limit.kind = "prefix" /\ limited.frames = kept.frames
          /\ limited.opaque = 0 /\ limited.discard = ended.discard
      BY <2>5, <3>1, LimitSet
    <3> HIDE DEF limited
    <3>3. ~Discards(limited) /\ DOMAIN limited.frames = 1..n /\ Len(limited.frames) = n
      <4>1. limited.frames # <<>>
        BY <3>1, <3>2
      <4>2. DOMAIN limited.frames = 1..Len(limited.frames)
        BY <3>2, <4>1, TopIsLast
      <4>3. QED
        BY <2>8, <3>1, <3>2, <4>2 DEF Discards
    <3>4. ASSUME NEW i \in 1..n
          PROVE  /\ limited.frames[i].kind = s.frames[i].kind
                 /\ limited.frames[i].hooks = s.frames[i].hooks
                 /\ limited.frames[i].prefix # Infinity <=> i = n
      <4>1. limited.frames[i] = IF i = n THEN top ELSE s.frames[i]
        BY <3>1, <3>2
      <4>2. CASE i = n
        BY <2>2, <2>3, <2>4, <4>1, <4>2
      <4>3. CASE i # n
        BY <2>9, <4>1, <4>3
      <4>4. QED
        BY <4>2, <4>3
    <3>5. Kinds(limited, stack)
      BY <2>2, <2>3, <3>2, <3>3, <3>4 DEF Spans, Kinds
    <3>6. Holds(limited, "before")
      BY <2>3, <2>9, <2>12, <3>2, <3>3, <3>4 DEF Holds
    <3>7. Drops(limited, "before", 0)
      BY <3>3 DEF Drops, DropOpen
    <3>8. Armed(limited)
      BY <2>2, <2>4, <3>1, <3>2, <3>3 DEF Armed, Top, DropOpen
    <3>9. OnMemberComma(s) = limited
      BY <2>1, <2>12
    <3>10. QED
      BY <3>5, <3>6, <3>7, <3>8, <3>9 DEF Fits, Spans
  <2>13. QED
    BY <2>11, <2>12
<1>3. QED
  BY <1>1, <1>2

(* A scalar value starts, is told of and checked. *)
LEMMA ScalarSpans ==
  ASSUME NEW s \in Spines, Counted(s), NEW value \in ValueType, ~value.container,
         NEW u, u.decision \in Decisions, NEW stack, NEW place, place # "string",
         Context(stack) = "object" => place = "before", Spans(s, stack, place, 0),
         NEW t, t = IF s.opaque > 0 THEN s
                    ELSE Record(IF value.end = Infinity THEN DecideMember(s, value, u)
                                ELSE Told(DecideMember(s, value, u), u), u)
  PROVE  Fits(t, stack, Started(value), 0)
<1>1. Opened(value) = 0 /\ (Started(value) = "string" \/ value.end # Infinity) /\ s.opaque \in Nat
      /\ (Started(value) = "between" => value.end # Infinity) /\ Started(value) # "before"
  BY SpineType DEF Opened, Started
<1>2. CASE s.opaque > 0
  BY <1>1, <1>2, PlaceSpans DEF Fits
<1>3. CASE ~(s.opaque > 0)
  <2> DEFINE decided == DecideMember(s, value, u)
  <2> DEFINE told == Told(decided, u)
  <2> DEFINE checked == Record(decided, u)
  <2> DEFINE settled == Record(told, u)
  <2>1. s.opaque = 0
    BY <1>1, <1>3
  <2>2. Fits(decided, stack, Started(value), 0)
    <3>1. Spans(s, stack, place, Opened(value))
      BY <1>1
    <3>2. Fits(decided, stack, Started(value), Opened(value))
      BY <2>1, <3>1, DecideSpans
    <3>3. QED
      BY <1>1, <3>2
  <2>3. decided \in Spines
    BY DecideMemberKeeps DEF Keeps, Onward, Moves
  <2>4. t = checked \/ t = settled
    BY <1>3
  <2> HIDE DEF decided
  <2>5. Leaves(decided, told) /\ told \in Spines
    BY <2>3, ToldLeaves, ToldKeeps DEF Onward, Moves
  <2> HIDE DEF told
  <2>6. Leaves(decided, checked) /\ Leaves(told, settled)
    BY <2>3, <2>5, RecordLeaves
  <2> HIDE DEF checked, settled
  <2>7. Fits(checked, stack, Started(value), 0) /\ Fits(settled, stack, Started(value), 0)
    BY <2>2, <2>5, <2>6, LeavesFits
  <2>8. QED
    BY <2>4, <2>7
<1>4. QED
  BY <1>2, <1>3

LEMMA OnStringEndSpans ==
  ASSUME NEW s \in Spines, ~Stopped(s), NEW u, s.tok.pos + 1 # Infinity, NEW stack, NEW place, place # "before",
         Spans(s, stack, place, 0)
  PROVE  Fits(OnStringEnd(s, u), stack, "between", 0)
<1> DEFINE ended == EndDroppedValue(s, s.tok.pos + 1)
<1> DEFINE t == IF DropOpen(s) /\ s.discard.nest = 0 THEN ended ELSE s
<1> DEFINE told == Told(t, u)
<1> DEFINE done == Record(told, u)
<1>1. OnStringEnd(s, u) = IF s.opaque > 0 THEN t ELSE done
  BY DEF OnStringEnd
<1>2. s.tok.pos + 1 \in Nat
  BY SpineType
<1>3. t \in Spines /\ Fits(t, stack, "between", 0)
  <2>1. CASE DropOpen(s) /\ s.discard.nest = 0
    <3>1. Holds(s, "between")
      BY DEF Spans, Holds
    <3>2. Fits(ended, stack, "between", 0)
      BY <1>2, <2>1, <3>1, EndDroppedSpans DEF Spans, Drops, DropOpen
    <3>3. ended \in Spines
      BY <1>2, EndDroppedValueOnward DEF Onward, Moves
    <3> HIDE DEF ended
    <3>4. QED
      BY <2>1, <3>2, <3>3
  <2>2. CASE ~(DropOpen(s) /\ s.discard.nest = 0)
    <3>1. Spans(s, stack, "between", 0)
      BY <2>2, PlaceSpans
    <3>2. QED
      BY <2>2, <3>1 DEF Fits
  <2>3. QED
    BY <2>1, <2>2
<1> HIDE DEF t
<1>4. Leaves(t, told) /\ told \in Spines
  BY <1>3, ToldLeaves, ToldKeeps DEF Onward, Moves
<1> HIDE DEF told
<1>5. Leaves(told, done)
  BY <1>4, RecordLeaves
<1> HIDE DEF done
<1>6. Fits(done, stack, "between", 0)
  BY <1>3, <1>4, <1>5, LeavesFits
<1>7. QED
  BY <1>1, <1>3, <1>6

Place(t) == IF BeforeValue(t) THEN "before" ELSE IF ValueString(t) THEN "string" ELSE "between"

LEMMA PlaceIs ==
  ASSUME NEW t
  PROVE  /\ Place(t) # "string" <=> ~ValueString(t)
         /\ Place(t) = "before" <=> BeforeValue(t)
         /\ BetweenTokens(t) => Place(t) = "between"
  BY DEF Place, BeforeValue, ValueString, BetweenTokens

LEMMA StartSpans ==
  ASSUME NEW s \in Spines, Counted(s), ~Stopped(s), s.tok.pos # Infinity,
         NEW r, Follows(s.tok, r), Tells(s.tok, r),
         r.event.type # "number" => s.tok.pos + 1 # Infinity,
         r.event.type \in Starts \cup {"stringStart", "literal", "number"},
         NEW u, Answering(u), Spans(s, s.tok.stack, Place(s.tok), 0)
  PROVE  Fits(Handle(s, r.event, u), r.t.stack, Place(r.t), 0)
<1> DEFINE k == s.tok
<1> DEFINE event == r.event
<1> DEFINE t == Handle(s, event, u)
<1>1. /\ Place(k) # "string" /\ (Context(k.stack) = "object" => Place(k) = "before")
  BY PlaceIs DEF Follows
<1>2. event.start \in Nat /\ k.pos \in Nat /\ k.pos + 1 \in Nat /\ Infinity \in Nat
  BY SpineType, Numbers DEF Tells, Events
<1>3. u.decision \in Decisions /\ u.scoped \in BOOLEAN
  BY DEF Answering
<1>4. ASSUME NEW kind \in Contexts, r.t.stack = Append(k.stack, kind), t = OnStart(s, kind, u),
             Place(r.t) = IF kind = "object" THEN "before" ELSE "between",
             event.type # "number"
      PROVE  Fits(t, r.t.stack, Place(r.t), 0)
  BY <1>1, <1>3, <1>4, OnStartSpans
<1>5. CASE event.type = "startObject"
  <2>1. /\ r.t.stack = Append(k.stack, "object") /\ Place(r.t) = "before" /\ "object" \in Contexts
    BY <1>5, PlaceIs DEF Follows, Contexts
  <2>2. t = OnStart(s, "object", u)
    BY <1>5 DEF Handle
  <2>3. QED
    BY <1>4, <1>5, <2>1, <2>2
<1>6. CASE event.type = "startArray"
  <2>1. /\ r.t.stack = Append(k.stack, "array") /\ Place(r.t) = "between" /\ "array" \in Contexts
    BY <1>6, PlaceIs DEF Follows, Contexts
  <2>2. t = OnStart(s, "array", u)
    BY <1>6 DEF Handle
  <2>3. QED
    BY <1>4, <1>6, <2>1, <2>2
<1>7. ASSUME NEW start \in Nat, NEW end \in Nat,
             t = IF s.opaque > 0 THEN s
                 ELSE Record(IF end = Infinity THEN DecideMember(s, Value(start, end, FALSE), u)
                             ELSE Told(DecideMember(s, Value(start, end, FALSE), u), u), u)
      PROVE  Fits(t, k.stack, IF end = Infinity THEN "string" ELSE "between", 0)
  <2> DEFINE value == Value(start, end, FALSE)
  <2>1. value \in ValueType /\ ~value.container /\ value.end = end
    BY DEF Value, ValueType
  <2> HIDE DEF value, t
  <2>2. t = IF s.opaque > 0 THEN s
            ELSE Record(IF value.end = Infinity THEN DecideMember(s, value, u)
                        ELSE Told(DecideMember(s, value, u), u), u)
    BY <1>7, <2>1 DEF value
  <2>3. Fits(t, k.stack, Started(value), 0)
    BY <1>1, <1>3, <2>1, <2>2, ScalarSpans
  <2>4. Started(value) = IF end = Infinity THEN "string" ELSE "between"
    BY <2>1 DEF Started
  <2>5. QED
    BY <2>3, <2>4
<1>8. event.type \notin Starts => r.t.stack = k.stack
  BY DEF Tells, Ends, Starts
<1>9. CASE event.type = "stringStart"
  <2>1. t = IF s.opaque > 0 THEN s
            ELSE Record(IF Infinity = Infinity THEN DecideMember(s, Value(k.pos, Infinity, FALSE), u)
                        ELSE Told(DecideMember(s, Value(k.pos, Infinity, FALSE), u), u), u)
    BY <1>9 DEF Handle, OnStringStart
  <2>2. Place(r.t) = "string"
    BY <1>9 DEF Follows, Place
  <2> HIDE DEF t
  <2>3. Fits(t, k.stack, "string", 0)
    BY <1>2, <1>7, <2>1
  <2>4. QED
    BY <1>8, <1>9, <2>2, <2>3 DEF Starts, t
<1>10. ASSUME NEW end \in Nat, end # Infinity, t = OnScalar(s, event.start, end, u),
              event.type \in {"number", "literal"}
       PROVE  Fits(t, r.t.stack, Place(r.t), 0)
  <2>1. t = IF s.opaque > 0 THEN s
            ELSE Record(IF end = Infinity THEN DecideMember(s, Value(event.start, end, FALSE), u)
                        ELSE Told(DecideMember(s, Value(event.start, end, FALSE), u), u), u)
    BY <1>10 DEF OnScalar
  <2>2. Place(r.t) = "between"
    BY <1>10, PlaceIs DEF Follows
  <2> HIDE DEF t
  <2>3. Fits(t, k.stack, "between", 0)
    BY <1>2, <1>7, <1>10, <2>1
  <2>4. QED
    BY <1>8, <1>10, <2>2, <2>3 DEF Starts
<1>11. CASE event.type = "number"
  <2>1. t = OnScalar(s, event.start, k.pos, u)
    BY <1>11 DEF Handle
  <2>2. QED
    BY <1>2, <1>10, <1>11, <2>1
<1>12. CASE event.type = "literal"
  <2>1. t = OnScalar(s, event.start, k.pos + 1, u)
    BY <1>12 DEF Handle
  <2>2. QED
    BY <1>2, <1>10, <1>12, <2>1
<1>13. QED
  BY <1>5, <1>6, <1>9, <1>11, <1>12 DEF Starts

(* Every handler leaves the limit on its span, where its event leaves the
   text. *)
LEMMA HandleSpans ==
  ASSUME NEW s \in Spines, Counted(s), ~Stopped(s), s.tok.pos # Infinity,
         NEW r, Follows(s.tok, r), Tells(s.tok, r),
         r.event.type # "number" => s.tok.pos + 1 # Infinity,
         r.event.type \in Ends \cup Within => s.frames # <<>> \/ s.opaque > 0,
         NEW u, Answering(u), Spans(s, s.tok.stack, Place(s.tok), 0)
  PROVE  Fits(Handle(s, r.event, u), r.t.stack, Place(r.t), 0)
<1> DEFINE k == s.tok
<1> DEFINE event == r.event
<1> DEFINE t == Handle(s, event, u)
<1>1. event.key \in Seq(Byte) /\ event.start \in Nat
  BY DEF Tells, Events
<1>2. event.type \in Starts \cup Ends \cup Within
                       \cup {"none", "stringStart", "text", "stringEnd", "number", "literal", "error"}
  BY DEF Tells, Events
<1>3. event.type \notin Starts \cup Ends => r.t.stack = k.stack
  BY DEF Tells
<1>4. CASE event.type \in Starts \cup {"stringStart", "literal", "number"}
  BY <1>4, StartSpans
<1>5. CASE event.type \in Ends
  <2>1. /\ Place(k) # "string" /\ r.t.stack = Pop(k.stack) /\ Place(r.t) = "between"
        /\ event.type = "endArray" => Context(k.stack) = "array"
    BY <1>5, PlaceIs DEF Follows
  <2>2. /\ event.type = "endObject" => t = OnEndObject(s, u)
        /\ event.type = "endArray" => t = OnEndArray(s, u)
    BY DEF Handle
  <2>3. k.pos + 1 # Infinity /\ (s.frames # <<>> \/ s.opaque > 0)
    BY <1>5 DEF Ends
  <2> HIDE DEF t
  <2>4. CASE event.type = "endObject"
    <3>1. Fits(OnEndObject(s, u), Pop(k.stack), "between", 0)
      BY <2>1, <2>3, OnEndObjectSpans
    <3>2. QED
      BY <2>1, <2>2, <2>4, <3>1 DEF t
  <2>5. CASE event.type = "endArray"
    <3>1. Fits(OnEndArray(s, u), Pop(k.stack), "between", 0)
      BY <2>1, <2>3, <2>5, OnEndArraySpans
    <3>2. QED
      BY <2>1, <2>2, <2>5, <3>1 DEF t
  <2>6. QED
    BY <1>5, <2>4, <2>5 DEF Ends
<1>6. CASE event.type = "key"
  <2>1. Place(k) = "before" /\ Place(r.t) = "before" /\ r.t.stack = k.stack
    BY <1>3, <1>6, PlaceIs DEF Follows, Starts, Ends
  <2>2. t = OnKey(s, event.key, event.start, u)
    BY <1>6 DEF Handle
  <2>3. s.frames # <<>> \/ s.opaque > 0
    BY <1>6 DEF Within
  <2>4. Fits(OnKey(s, event.key, event.start, u), k.stack, Place(k), 0)
    BY <1>1, <2>3, OnKeySpans
  <2>5. QED
    BY <2>1, <2>2, <2>4
<1>7. CASE event.type = "memberComma"
  <2>1. Place(k) # "string" /\ Place(r.t) = "before" /\ r.t.stack = k.stack
    BY <1>3, <1>7, PlaceIs DEF Follows, Starts, Ends
  <2>2. t = OnMemberComma(s)
    BY <1>7 DEF Handle
  <2>3. s.frames # <<>> \/ s.opaque > 0
    BY <1>7 DEF Within
  <2>4. Fits(OnMemberComma(s), k.stack, "before", 0)
    BY <2>1, <2>3, OnMemberCommaSpans
  <2>5. QED
    BY <2>1, <2>2, <2>4
<1>8. CASE event.type = "text"
  <2>1. Place(k) = "string" /\ Place(r.t) = "string" /\ r.t.stack = k.stack
    BY <1>3, <1>8 DEF Follows, Starts, Ends, Place
  <2>2. t = IF s.opaque > 0 THEN s ELSE Record(s, u)
    BY <1>8 DEF Handle, OnStringChunk
  <2>3. Fits(s, k.stack, "string", 0)
    BY <2>1 DEF Fits
  <2>4. Leaves(s, Record(s, u))
    BY RecordLeaves
  <2> HIDE DEF t
  <2>5. Fits(t, k.stack, "string", 0)
    BY <2>2, <2>3, <2>4, LeavesFits
  <2>6. QED
    BY <2>1, <2>5 DEF t
<1>9. CASE event.type = "stringEnd"
  <2>1. Place(k) # "before" /\ Place(r.t) = "between" /\ r.t.stack = k.stack
    BY <1>3, <1>9, PlaceIs DEF Follows, Starts, Ends
  <2>2. t = OnStringEnd(s, u)
    BY <1>9 DEF Handle
  <2>3. Fits(OnStringEnd(s, u), k.stack, "between", 0)
    BY <1>9, <2>1, OnStringEndSpans
  <2>4. QED
    BY <2>1, <2>2, <2>3
<1>10. CASE event.type = "error"
  BY <1>10, ThrowStops DEF Handle, Fits
<1>11. CASE event.type = "none"
  <2>1. t = s
    BY <1>11 DEF Handle
  <2>2. r.t.stack = k.stack
    BY <1>3, <1>11 DEF Starts, Ends
  <2>3. /\ Place(r.t) = "string" <=> Place(k) = "string"
        /\ Context(k.stack) = "object" => (Place(k) = "before" <=> Place(r.t) = "before")
    BY <1>11, PlaceIs DEF Follows
  <2>4. s.opaque = 0 /\ s.frames # <<>> /\ Top(s).hooks => Context(k.stack) = "object"
    <3>1. SUFFICES ASSUME s.opaque = 0, s.frames # <<>>, Top(s).hooks PROVE Context(k.stack) = "object"
      OBVIOUS
    <3>2. /\ Len(s.frames) \in DOMAIN s.frames /\ Len(s.frames) \in Nat \ {0}
          /\ Top(s) = s.frames[Len(s.frames)]
      BY <3>1, TopIsLast
    <3>3. Len(k.stack) = Len(s.frames) + 0 /\ k.stack[Len(s.frames)] = "object"
      BY <3>1, <3>2 DEF Spans, Kinds, Holds
    <3>4. Len(k.stack) = Len(s.frames)
      BY <3>2, <3>3
    <3>5. k.stack # <<>>
      BY <3>2, <3>4
    <3>6. QED
      BY <3>3, <3>4, <3>5 DEF Context
  <2>5. s.opaque \in Nat
    BY SpineType
  <2>6. \/ s.opaque > 0 \/ s.frames = <<>> \/ ~Top(s).hooks
        \/ (Place(k) = "before" <=> Place(r.t) = "before")
    BY <2>3, <2>4, <2>5
  <2>7. Spans(s, k.stack, Place(r.t), 0)
    BY <2>3, <2>6, PlaceSpans
  <2>8. QED
    BY <2>1, <2>2, <2>7 DEF Fits
<1>12. QED
  BY <1>2, <1>4, <1>5, <1>6, <1>7, <1>8, <1>9, <1>10, <1>11 DEF Within

LEMMA DeliverSpans ==
  ASSUME NEW s, SpineOK(s), ~Stopped(s), s.tok.pos # Infinity,
         NEW r, Follows(s.tok, r), Tells(s.tok, r), r.t \in Tokenizers,
         r.event.type \notin {"number", "error"} => s.tok.pos + 1 # Infinity,
         NEW u, Answering(u), Spans(s, s.tok.stack, Place(s.tok), 0)
  PROVE  LET t == Deliver(s, r, u) IN Fits(t, t.tok.stack, Place(t.tok), 0)
<1> DEFINE t == Handle(s, r.event, u)
<1> DEFINE read == [t EXCEPT !.tok = r.t]
<1>1. /\ s \in Spines /\ Counted(s) /\ r.event \in Events
      /\ Len(s.tok.stack) = Len(s.frames) + s.opaque
  BY DEF SpineOK, Sized, Tells, Stopped
<1>2. Len(s.frames) \in Nat /\ s.opaque \in Nat /\ s.frames \in Seq(FrameType)
  BY <1>1, SpineType
<1>3. r.event.type \in Ends \cup Within => s.frames # <<>> \/ s.opaque > 0
  BY <1>1, <1>2 DEF Tells
<1>4. Deliver(s, r, u) = IF Threw(t) \/ t.disposed THEN t ELSE read
  BY DEF Deliver
<1>5. Fits(t, r.t.stack, Place(r.t), 0)
  <2>1. CASE r.event.type = "error"
    BY <1>1, <2>1, ThrowStops DEF Handle, Fits
  <2>2. CASE r.event.type # "error"
    BY <1>1, <1>3, <2>2, HandleSpans
  <2>3. QED
    BY <2>1, <2>2
<1>6. t \in Spines
  <2>1. Opens(s, t) \/ Closes(s, t) \/ Onward(s, t)
    BY <1>1, <1>3, HandleMoves
  <2>2. QED
    BY <2>1 DEF Opens, Closes, Onward, Moves
<1> HIDE DEF t
<1>7. CASE Threw(t) \/ t.disposed
  BY <1>4, <1>7 DEF Fits, Stopped
<1>8. CASE ~(Threw(t) \/ t.disposed)
  <2>1. Spans(t, r.t.stack, Place(r.t), 0)
    BY <1>5, <1>8 DEF Fits, Stopped
  <2>2. read.tok = r.t /\ Agree(t, read)
    BY <1>6, SetReads DEF Fields, Agree
  <2>3. Deliver(s, r, u) = read
    BY <1>4, <1>8
  <2> HIDE DEF read
  <2>4. Spans(read, read.tok.stack, Place(read.tok), 0)
    BY <2>1, <2>2, AgreeSpans
  <2>5. QED
    BY <2>3, <2>4 DEF Fits
<1>9. QED
  BY <1>7, <1>8

(* One byte read, or the end of the text in a number, leaves the limit on its
   span. *)
LEMMA StepSpans ==
  ASSUME NEW s, SpineOK(s), ~Stopped(s), s.tok.pos # Infinity, s.tok.pos + 1 # Infinity,
         NEW u, Answering(u), NEW b \in Byte, Spans(s, s.tok.stack, Place(s.tok), 0)
  PROVE  LET t == Step(s, b, u) IN Fits(t, t.tok.stack, Place(t.tok), 0)
<1>1. CASE AtLimit(s, b)
  BY <1>1, ThrowStops DEF Step, Fits, SpineOK
<1>2. CASE ~AtLimit(s, b)
  <2> DEFINE r == Scan(s.tok, b)
  <2>1. Sound(s.tok)
    BY DEF SpineOK, Stopped
  <2>2. Tells(s.tok, r) /\ r.t \in Tokenizers /\ Follows(s.tok, r)
    BY <2>1, ScanTells, ScanSound, ScanFollows DEF Sound
  <2>3. Step(s, b, u) = Deliver(s, r, u)
    BY <1>2 DEF Step
  <2> HIDE DEF r
  <2>4. QED
    BY <2>2, <2>3, DeliverSpans
<1>3. QED
  BY <1>1, <1>2

LEMMA EndStepSpans ==
  ASSUME NEW s, SpineOK(s), ~Stopped(s), s.tok.pos # Infinity, s.tok.state = "number",
         NEW u, Answering(u), Spans(s, s.tok.stack, Place(s.tok), 0)
  PROVE  LET t == EndStep(s, u) IN Fits(t, t.tok.stack, Place(t.tok), 0)
<1> DEFINE r == FinishNumber(s.tok)
<1>1. Sound(s.tok) /\ s.tok \in Tokenizers
  BY DEF SpineOK, Stopped, Sound
<1>2. Tells(s.tok, r) /\ r.t \in Tokenizers /\ Follows(s.tok, r)
  BY <1>1, FinishNumberTells, FinishNumberSound, FinishNumberFollows DEF Sound
<1>3. r.event.type \in {"number", "error"}
  BY DEF FinishNumber, Result, Bad, EventOf
<1>4. EndStep(s, u) = Deliver(s, r, u)
  BY DEF EndStep
<1> HIDE DEF r
<1>5. QED
  BY <1>2, <1>3, <1>4, DeliverSpans

-----------------------------------------------------------------------------
(* What is retained.  The prefix of a member that waits for its hooks, and
   where each event leaves it. *)
Held(s) == s.frames # <<>> /\ Top(s).prefix # Infinity

LEMMA HeldIs ==
  ASSUME NEW s \in Spines, NEW stack, NEW place, NEW more, Spans(s, stack, place, more), Held(s)
  PROVE  /\ Top(s).hooks /\ ~Discards(s) /\ s.opaque = 0 /\ place = "before"
         /\ MemberPrefixStart(s) = Top(s).prefix
  BY TopIsLast DEF Spans, Holds, Held, MemberPrefixStart, InObject

LEMMA NotHeld ==
  ASSUME NEW s \in Spines, NEW stack, NEW place, NEW more, Spans(s, stack, place, more), ~Held(s)
  PROVE  MemberPrefixStart(s) = Infinity
  BY DEF Held, MemberPrefixStart, InObject

LEMMA LimitAt ==
  ASSUME NEW s \in Spines, NEW kind \in {"prefix", "drop"}, NEW at \in Int
  PROVE  Limit(s, kind, at).limit.at = at
  BY DEF Limit, Spines

LEMMA StartHolds ==
  ASSUME NEW s \in Spines, Counted(s), NEW u, Answering(u), NEW kind \in Contexts,
         NEW t, t = OnStart(s, kind, u), ~Stopped(t), t \in Spines,
         NEW stack, NEW place, Spans(t, stack, place, 0), Held(t)
  PROVE  Top(t).prefix = s.tok.pos + 1 /\ ~Top(t).comma /\ t.limit.at = s.tok.pos + 1 + MaxPrefix
<1> DEFINE o == s.tok.pos
<1> DEFINE value == Value(o, Infinity, TRUE)
<1> DEFINE counted == NoteDropOpen(s)
<1> DEFINE decided == DecideMember(counted, value, u)
<1> DEFINE checked == Record(decided, u)
<1> DEFINE hooks == kind = "object" /\ u.scoped /\ ~Discards(checked)
<1> DEFINE frame == Frame(kind, o, hooks, Discards(checked))
<1> DEFINE x == Append(checked.frames, frame)
<1> DEFINE framed == [checked EXCEPT !.frames = x]
<1> DEFINE y == counted.opaque + 1
<1> DEFINE inner == [counted EXCEPT !.opaque = y]
<1> DEFINE opened == [checked EXCEPT !.opaque = 1]
<1> DEFINE at == o + 1 + MaxPrefix
<1> DEFINE limited == Limit(framed, "prefix", at)
<1>1. t = IF s.opaque > 0 THEN inner
          ELSE IF Threw(checked) THEN checked
          ELSE IF u.opaque THEN opened
          ELSE IF hooks THEN limited ELSE framed
  BY DEF OnStart
<1>2. t.opaque = 0 /\ Top(t).hooks
  BY HeldIs
<1>3. Keeps(s, counted)
  BY NoteDropOpenKeeps
<1> HIDE DEF counted
<1>4. counted \in Spines /\ Counted(counted) /\ counted.opaque \in Nat
  BY <1>3, OnwardCounted, SpineType DEF Keeps, Onward, Moves
<1>5. value \in ValueType /\ o \in Nat
  BY SpineType, Numbers DEF Value, ValueType
<1> HIDE DEF value
<1>6. Keeps(counted, decided)
  BY <1>4, <1>5, DecideMemberKeeps DEF Answering
<1> HIDE DEF decided
<1>7. decided \in Spines
  BY <1>6 DEF Keeps, Onward, Moves
<1>8. Onward(decided, checked)
  BY <1>7, RecordKeeps
<1> HIDE DEF checked
<1>9. checked \in Spines
  BY <1>8 DEF Onward, Moves
<1>10. frame \in FrameType /\ frame.hooks = hooks /\ ~frame.comma /\ (hooks => frame.prefix = o + 1)
  <2>1. o + 1 \in Nat /\ <<>> \in Seq(Byte) /\ {} \in SUBSET Seq(Byte) /\ Infinity \in Nat
    BY <1>5, Numbers
  <2>2. hooks \in BOOLEAN /\ Discards(checked) \in BOOLEAN
    BY DEF Discards
  <2> HIDE DEF hooks
  <2>3. QED
    BY <2>1, <2>2 DEF Frame, FrameType
<1>11. x \in Seq(FrameType) /\ x # <<>> /\ x[Len(x)] = frame
  <2>1. checked.frames \in Seq(FrameType)
    BY <1>9, SpineType
  <2> HIDE DEF frame
  <2>2. QED
    BY <1>10, <2>1
<1> HIDE DEF x
<1>12. framed \in Spines /\ framed.frames = x
  BY <1>9, <1>11, FramesSet
<1> HIDE DEF framed, frame
<1>13. at \in Int
  BY <1>5, Numbers
<1>14. limited.frames = x /\ limited.limit.at = at
  BY <1>12, <1>13, LimitSet, LimitAt
<1>15. y \in Nat /\ y # 0 /\ inner.opaque = y
  <2>1. y \in Nat /\ y # 0
    BY <1>4
  <2> HIDE DEF y
  <2>2. QED
    BY <1>4, <2>1, OpaqueSet
<1>16. opened.opaque = 1
  BY <1>9, OpaqueSet
<1> HIDE DEF y, inner, opened, limited
<1>17. ~Threw(checked) \/ t # checked
  BY DEF Stopped
<1>18. (t = limited /\ hooks) \/ (t = framed /\ ~hooks)
  BY <1>1, <1>2, <1>15, <1>16, <1>17
<1>19. t = framed => Top(t).hooks = hooks
  BY <1>10, <1>11, <1>12 DEF Top
<1>20. t = limited /\ hooks
  BY <1>2, <1>18, <1>19
<1>21. Top(t) = frame
  BY <1>11, <1>14, <1>20 DEF Top
<1>22. QED
  BY <1>10, <1>14, <1>20, <1>21

LEMMA KeyHolds ==
  ASSUME NEW s \in Spines, NEW u, NEW key \in Seq(Byte), NEW start \in Nat,
         s.frames # <<>> \/ s.opaque > 0, ~Stopped(s),
         NEW t, t = OnKey(s, key, start, u), ~Stopped(t), t \in Spines,
         NEW stack, NEW place, Spans(t, stack, place, 0), Held(t)
  PROVE  /\ Held(s) /\ Top(t).prefix = Top(s).prefix /\ Top(t).comma = Top(s).comma
         /\ Top(t).keyStart = start /\ Top(t).keyEnd = s.tok.pos + 1
         /\ t.limit.at = s.tok.pos + 1 + MaxPrefix - (start - Top(s).prefix)
<1> DEFINE end == s.tok.pos + 1
<1> DEFINE top == [Top(s) EXCEPT !.keyStart = start, !.keyEnd = end]
<1> DEFINE later == [top EXCEPT !.key = key, !.count = @ + 1]
<1> DEFINE at == end + MaxPrefix - (start - top.prefix)
<1> DEFINE asked == UserCode(s, u)
<1> DEFINE told == SetTop(asked, top)
<1> DEFINE limited == Limit(told, "prefix", at)
<1> DEFINE holding == IF top.prefix = Infinity THEN told ELSE limited
<1> DEFINE checked == Record(holding, u)
<1> DEFINE done == SetTop(checked, later)
<1>1. t = IF s.opaque > 0 THEN s ELSE IF Threw(checked) THEN checked ELSE done
  BY DEF OnKey
<1>2. t.opaque = 0
  BY HeldIs
<1>3. ~(s.opaque > 0) /\ s.frames # <<>>
  BY <1>1, <1>2
<1>4. t = done
  BY <1>1, <1>3 DEF Stopped
<1>5. Top(s) \in FrameType /\ end \in Nat
  BY <1>3, TopType, SpineType
<1>6. /\ top \in FrameType /\ top.prefix = Top(s).prefix /\ top.comma = Top(s).comma
      /\ top.keyStart = start /\ top.keyEnd = end
  BY <1>5 DEF FrameType
<1> HIDE DEF top
<1>7. /\ later \in FrameType /\ later.prefix = top.prefix /\ later.comma = top.comma
      /\ later.keyStart = start /\ later.keyEnd = end
  <2>1. top.count + 1 \in Nat
    BY <1>6 DEF FrameType
  <2>2. QED
    BY <1>6, <2>1 DEF FrameType
<1>8. at \in Int
  <2>1. top.prefix \in Nat
    BY <1>6 DEF FrameType
  <2>2. QED
    BY <1>5, <2>1, Numbers
<1> HIDE DEF later, at
<1>9. Onward(s, asked) /\ (~asked.disposed => asked = s)
  BY UserCodeKeeps
<1> HIDE DEF asked
<1>10. asked \in Spines
  BY <1>9 DEF Onward, Moves
<1>11. Onward(asked, told)
  BY <1>6, <1>10, SetTopOnward
<1>12. told \in Spines
  BY <1>11 DEF Onward, Moves
<1>13. asked = s => told.frames # <<>>
  BY <1>3, <1>6, SetTopIs
<1> HIDE DEF told
<1>14. Onward(told, holding)
  BY <1>8, <1>12, LimitOnward, OnwardSame DEF Keeps
<1>15. top.prefix # Infinity => holding.limit.at = at /\ holding.frames = told.frames
  BY <1>8, <1>12, LimitSet, LimitAt
<1>16. top.prefix = Infinity => holding = told
  OBVIOUS
<1> HIDE DEF holding
<1>17. holding \in Spines
  BY <1>14 DEF Onward, Moves
<1>18. Onward(holding, checked) /\ Leaves(holding, checked)
  BY <1>17, RecordKeeps, RecordLeaves
<1> HIDE DEF checked
<1>19. checked \in Spines
  BY <1>18 DEF Onward, Moves
<1>20. Onward(checked, done)
  BY <1>7, <1>19, SetTopOnward
<1> HIDE DEF done
<1>21. ~Stopped(checked)
  BY <1>4, <1>20, StoppedOn DEF Onward
<1>22. ~asked.disposed
  BY <1>11, <1>14, <1>18, <1>21 DEF Onward, Moves, Stopped
<1>23. checked.frames = told.frames /\ checked.limit = holding.limit /\ told.frames # <<>>
  BY <1>9, <1>13, <1>15, <1>16, <1>18, <1>21, <1>22, LeavesFields
<1>24. Top(done) = later /\ done.limit = checked.limit
  BY <1>7, <1>19, <1>23, SetTopIs DEF done
<1>25. top.prefix # Infinity
  BY <1>4, <1>7, <1>24 DEF Held
<1>26. QED
  BY <1>3, <1>4, <1>6, <1>7, <1>15, <1>23, <1>24, <1>25 DEF Held, at

LEMMA CommaHolds ==
  ASSUME NEW s \in Spines, s.frames # <<>> \/ s.opaque > 0,
         NEW t, t = OnMemberComma(s), t \in Spines,
         NEW stack, NEW place, Spans(t, stack, place, 0), Held(t)
  PROVE  Top(t).prefix = s.tok.pos /\ Top(t).comma /\ t.limit.at = s.tok.pos + MaxPrefix
<1> DEFINE o == s.tok.pos
<1> DEFINE closed == EndDiscard(s, o)
<1> DEFINE ended == IF Discards(s) THEN closed ELSE s
<1> DEFINE top == [Top(s) EXCEPT !.prefix = o, !.comma = TRUE]
<1> DEFINE kept == SetTop(ended, top)
<1> DEFINE at == o + MaxPrefix
<1> DEFINE limited == Limit(kept, "prefix", at)
<1>1. t = IF s.opaque > 0 \/ (Discards(s) /\ s.discard.depth # Len(s.frames)) THEN s
          ELSE IF Top(s).hooks THEN limited ELSE ended
  BY DEF OnMemberComma
<1>2. t.opaque = 0 /\ Top(t).hooks /\ ~Discards(t)
  BY HeldIs
<1>3. o \in Nat
  BY SpineType
<1>4. ended \in Spines /\ ended.frames = s.frames
  <2>1. closed = EndDiscard(s, o)
    OBVIOUS
  <2> HIDE DEF closed
  <2>2. closed \in Spines /\ closed.frames = s.frames
    BY <1>3, <2>1, EndDiscardIs
  <2>3. QED
    BY <2>2
<1>5. s.opaque \in Nat
  BY SpineType
<1> HIDE DEF ended
<1>6. ~(s.opaque > 0 \/ (Discards(s) /\ s.discard.depth # Len(s.frames)))
  BY <1>1, <1>2, <1>5
<1>7. s.frames # <<>>
  BY <1>6
<1>8. t = ended => Top(s).hooks
  BY <1>2, <1>4 DEF Top
<1>9. t = limited
  BY <1>1, <1>6, <1>8
<1>10. Top(s) \in FrameType
  BY <1>7, TopType
<1>11. top \in FrameType /\ top.prefix = o /\ top.comma
  BY <1>3, <1>10 DEF FrameType
<1> HIDE DEF top
<1>12. kept \in Spines /\ Top(kept) = top
  BY <1>4, <1>7, <1>11, SetTopIs
<1> HIDE DEF kept
<1>13. at \in Int
  BY <1>3, Numbers
<1>14. limited.frames = kept.frames /\ limited.limit.at = at
  BY <1>12, <1>13, LimitSet, LimitAt
<1> HIDE DEF limited
<1>15. Top(t) = top
  BY <1>9, <1>12, <1>14 DEF Top
<1>16. QED
  BY <1>9, <1>11, <1>14, <1>15

LEMMA StretchTypes ==
  ASSUME NEW s \in Spines, s.frames # <<>>
  PROVE  /\ Top(s).prefix \in Nat /\ Top(s).keyStart \in Nat /\ Top(s).keyEnd \in Nat
         /\ s.limit.at \in Int /\ MaxPrefix \in Nat
  BY TopType, SpineType, Numbers DEF FrameType, LimitType

SafeLimit(s, n) == IF MemberPrefixStart(s) < n THEN MemberPrefixStart(s) ELSE n

(* Without hooks nothing waits. *)
LEMMA PlainSafe ==
  ASSUME NEW s, SpineOK(s), Plain(s), NEW stack, NEW place, NEW more, Spans(s, stack, place, more),
         NEW n \in Nat, n < Infinity
  PROVE  SafeLimit(s, n) = n
<1>1. s \in Spines /\ Infinity \in Nat
  BY Numbers DEF SpineOK
<1>2. ~Held(s)
  <2>1. SUFFICES ASSUME Held(s) PROVE FALSE
    OBVIOUS
  <2>2. Top(s).hooks
    BY <1>1, <2>1, HeldIs
  <2>3. Len(s.frames) \in DOMAIN s.frames
    BY <1>1, <2>1, TopIsLast DEF Held
  <2>4. QED
    BY <2>2, <2>3 DEF Plain, Top
<1>3. MemberPrefixStart(s) = Infinity
  BY <1>1, <1>2, NotHeld
<1>4. QED
  BY <1>1, <1>3 DEF SafeLimit

-----------------------------------------------------------------------------
(* What becomes of the edits: a stream that is destroyed or fails loses them,
   and of any other event they are left alone but for what follows. *)
Lost(s) == s.disposed \/ s.thrown = "fatal"

SameDrop(s, t) ==
  /\ t.discard.start = s.discard.start /\ t.discard.depth = s.discard.depth
  /\ t.discard.keyStart = s.discard.keyStart

Shows(s, t) ==
  Lost(t) \/ (~Lost(s) /\ t.frames = s.frames /\ t.edits = s.edits /\ SameDrop(s, t))

LEMMA ShowsSame == ASSUME NEW s PROVE Shows(s, s)
  BY DEF Shows, SameDrop

LEMMA ShowsThen == ASSUME NEW s, NEW t, NEW r, Shows(s, t), Shows(t, r) PROVE Shows(s, r)
  BY DEF Shows, SameDrop

LEMMA SetShows ==
  ASSUME NEW s \in Spines, NEW f \in {"tok", "opaque", "limit", "violations", "deferred"}, NEW x
  PROVE  Shows(s, [s EXCEPT ![f] = x])
<1> DEFINE t == [s EXCEPT ![f] = x]
<1>1. f \in Fields /\ \A g \in {"frames", "edits", "discard", "disposed", "thrown"} : g \in Fields \ {f}
  BY DEF Fields
<1>2. \A g \in Fields \ {f} : t[g] = s[g]
  BY <1>1, SetReads
<1> HIDE DEF t
<1>3. /\ t.frames = s.frames /\ t.edits = s.edits /\ t.discard = s.discard
      /\ t.disposed = s.disposed /\ t.thrown = s.thrown
  BY <1>1, <1>2
<1>4. QED
  BY <1>3 DEF Shows, SameDrop, Lost, t

LEMMA ThrowShows ==
  ASSUME NEW s \in Spines, NEW x \in {"budget", "fatal"}, x = "fatal" \/ s.disposed \/ ~Threw(s)
  PROVE  Shows(s, Throw(s, x))
<1> DEFINE t == [s EXCEPT !.thrown = x]
<1>1. t.thrown = x /\ \A g \in Fields \ {"thrown"} : t[g] = s[g]
  BY SetReads DEF Fields
<1>2. Throw(s, x) = t
  BY DEF Throw
<1> HIDE DEF t
<1>3. /\ t.frames = s.frames /\ t.edits = s.edits /\ t.discard = s.discard /\ t.disposed = s.disposed
  BY <1>1 DEF Fields
<1>4. QED
  BY <1>1, <1>2, <1>3 DEF Shows, SameDrop, Lost, Threw

LEMMA UserCodeShows == ASSUME NEW s \in Spines, NEW u PROVE Shows(s, UserCode(s, u))
  BY UserCodeKeeps, ShowsSame DEF Shows, Lost

LEMMA ToldShows == ASSUME NEW s \in Spines, NEW u PROVE Shows(s, Told(s, u))
  BY UserCodeShows, ShowsSame DEF Told

LEMMA SettleBudgetShows == ASSUME NEW s \in Spines PROVE Shows(s, SettleBudget(s))
  BY ThrowShows, ShowsSame DEF SettleBudget

LEMMA RecordShows == ASSUME NEW s \in Spines, NEW u PROVE Shows(s, Record(s, u))
<1>1. CASE ~u.fails \/ s.deferred \/ Threw(s)
  BY <1>1, ShowsSame DEF Record
<1>2. CASE ~(~u.fails \/ s.deferred \/ Threw(s))
  <2> DEFINE r == [s EXCEPT !.violations = @ + 1]
  <2> DEFINE t == UserCode(r, u)
  <2>1. Record(s, u) \in {t, [t EXCEPT !.deferred = TRUE], Throw(t, "budget")}
    BY <1>2 DEF Record
  <2>2. Shows(s, r) /\ Onward(s, r) /\ r.thrown = s.thrown
    <3>1. r = [s EXCEPT !["violations"] = s.violations + 1]
      OBVIOUS
    <3>2. r.thrown = s.thrown
      BY DEF Spines
    <3> HIDE DEF r
    <3>3. QED
      BY <3>1, <3>2, SetShows, SetMoves
  <2> HIDE DEF r
  <2>3. r \in Spines
    BY <2>2 DEF Onward, Moves
  <2>4. Shows(r, t) /\ Onward(r, t) /\ (t.disposed \/ ~Threw(t))
    BY <1>2, <2>2, <2>3, UserCodeShows, UserCodeKeeps DEF Threw
  <2> HIDE DEF t
  <2>5. t \in Spines
    BY <2>4 DEF Onward, Moves
  <2>6. Shows(t, [t EXCEPT !.deferred = TRUE]) /\ Shows(t, Throw(t, "budget"))
    BY <2>4, <2>5, SetShows, ThrowShows
  <2>7. Shows(s, t)
    BY <2>2, <2>4, ShowsThen
  <2>8. Shows(s, [t EXCEPT !.deferred = TRUE]) /\ Shows(s, Throw(t, "budget"))
    BY <2>6, <2>7, ShowsThen, Zenon
  <2>9. QED
    BY <2>1, <2>7, <2>8
<1>3. QED
  BY <1>1, <1>2

LEMMA NestShows ==
  ASSUME NEW s \in Spines, NEW n \in Int, NEW t, t = [s EXCEPT !.discard.nest = n]
  PROVE  Shows(s, t) /\ t \in Spines
<1> DEFINE x == [s.discard EXCEPT !.nest = n]
<1>1. s.discard \in DiscardType
  BY SpineType
<1>2. x \in DiscardType
  BY <1>1 DEF DiscardType
<1>3. t = [s EXCEPT !.discard = x]
  OBVIOUS
<1>a. x.start = s.discard.start /\ x.depth = s.discard.depth
  BY <1>1 DEF DiscardType
<1>b. x.keyStart = s.discard.keyStart
  BY <1>1 DEF DiscardType
<1> HIDE DEF x
<1>4. t.discard = x /\ \A g \in Fields \ {"discard"} : t[g] = s[g]
  <2>1. "discard" \in Fields
    BY DEF Fields
  <2>2. QED
    BY <1>3, <2>1, SetReads
<1>5. t \in Spines
  <2>1. \A y \in DiscardType : [s EXCEPT !.discard = y] \in Spines
    BY SetFields
  <2>2. QED
    BY <1>2, <1>3, <2>1
<1>6. QED
  BY <1>a, <1>b, <1>4, <1>5 DEF Shows, SameDrop, Lost, Fields

LEMMA NoteDropOpenShows ==
  ASSUME NEW s \in Spines PROVE Shows(s, NoteDropOpen(s)) /\ NoteDropOpen(s) \in Spines
<1>1. s.discard.nest + 1 \in Int
  BY SpineType DEF DiscardType
<1>2. QED
  BY <1>1, NestShows, ShowsSame DEF NoteDropOpen

LEMMA EndDroppedShows ==
  ASSUME NEW s \in Spines, NEW end \in Nat
  PROVE  Shows(s, EndDroppedValue(s, end)) /\ EndDroppedValue(s, end) \in Spines
<1> DEFINE x == [s.discard EXCEPT !.valueEnd = end]
<1> DEFINE r == [s EXCEPT !.discard = x]
<1> DEFINE t == ClearLimit(r)
<1>1. s.discard \in DiscardType
  BY SpineType
<1>2. x \in DiscardType /\ x.start = s.discard.start /\ x.depth = s.discard.depth /\ x.keyStart = s.discard.keyStart
  BY <1>1 DEF DiscardType
<1>3. EndDroppedValue(s, end) \in {t, Throw(t, "fatal")}
  BY DEF EndDroppedValue
<1> HIDE DEF x
<1>4. r.discard = x /\ \A g \in Fields \ {"discard"} : r[g] = s[g]
  BY SetReads DEF Fields
<1>a. r \in Spines
  BY <1>2, SetFields
<1> HIDE DEF r
<1>5. Shows(s, r)
  BY <1>2, <1>4 DEF Shows, SameDrop, Lost, Fields
<1>6. Shows(r, t) /\ t \in Spines
  BY <1>a, SetShows, LimitCleared DEF ClearLimit
<1> HIDE DEF t
<1>7. Shows(t, Throw(t, "fatal")) /\ Throw(t, "fatal") \in Spines
  BY <1>6, ThrowShows, ThrowKeeps DEF Keeps, Onward, Moves
<1>8. Shows(s, t)
  BY <1>5, <1>6, ShowsThen
<1>9. QED
  BY <1>3, <1>6, <1>7, <1>8, ShowsThen

LEMMA NoteDropCloseShows ==
  ASSUME NEW s \in Spines, NEW end \in Nat
  PROVE  Shows(s, NoteDropClose(s, end)) /\ NoteDropClose(s, end) \in Spines
<1>1. CASE ~DropOpen(s)
  BY <1>1, ShowsSame DEF NoteDropClose
<1>2. CASE DropOpen(s)
  <2> DEFINE t == [s EXCEPT !.discard.nest = s.discard.nest - 1]
  <2>1. s.discard.nest - 1 \in Int
    BY SpineType DEF DiscardType
  <2>2. Shows(s, t) /\ t \in Spines
    BY <2>1, NestShows
  <2>3. NoteDropClose(s, end) \in {t, EndDroppedValue(t, end)}
    BY <1>2 DEF NoteDropClose
  <2> HIDE DEF t
  <2>4. Shows(t, EndDroppedValue(t, end)) /\ EndDroppedValue(t, end) \in Spines
    BY <2>2, EndDroppedShows
  <2>5. QED
    BY <2>2, <2>3, <2>4, ShowsThen
<1>3. QED
  BY <1>1, <1>2

LEMMA AddEditIs ==
  ASSUME NEW s \in Spines, NEW e \in EditType, NEW t, t = AddEdit(s, e)
  PROVE  /\ t \in Spines /\ t.edits = s.edits \cup {e} /\ t.frames = s.frames
         /\ t.discard = s.discard /\ t.disposed = s.disposed /\ t.thrown = s.thrown
<1> DEFINE x == s.edits \cup {e}
<1>1. x \in SUBSET EditType
  BY SpineType
<1>2. t = [s EXCEPT !.edits = x]
  BY DEF AddEdit
<1> HIDE DEF x
<1>3. t.edits = x /\ \A g \in Fields \ {"edits"} : t[g] = s[g]
  <2>1. "edits" \in Fields
    BY DEF Fields
  <2>2. QED
    BY <1>2, <2>1, SetReads
<1>4. t \in Spines
  BY <1>1, <1>2, SetFields
<1>5. QED
  BY <1>3, <1>4 DEF Fields, x

LEMMA FramesEdits ==
  ASSUME NEW s \in Spines, NEW x \in Seq(FrameType), NEW t, t = [s EXCEPT !.frames = x]
  PROVE  t.edits = s.edits
<1>1. "frames" \in Fields /\ "edits" \in Fields \ {"frames"}
  BY DEF Fields
<1>2. QED
  BY <1>1, SetReads

LEMMA DiscardEdits ==
  ASSUME NEW s \in Spines, NEW x \in DiscardType, NEW t, t = [s EXCEPT !.discard = x]
  PROVE  t.discard = x /\ t.edits = s.edits /\ t.frames = s.frames
<1>1. "discard" \in Fields /\ "edits" \in Fields \ {"discard"} /\ "frames" \in Fields \ {"discard"}
  BY DEF Fields
<1>2. QED
  BY <1>1, SetReads

LEMMA SetTopEdits ==
  ASSUME NEW s \in Spines, s.frames # <<>>, NEW f \in FrameType
  PROVE  SetTop(s, f).edits = s.edits
<1> DEFINE x == [s.frames EXCEPT ![Len(s.frames)] = f]
<1>1. s.frames \in Seq(FrameType) /\ Len(s.frames) \in 1..Len(s.frames)
  BY SpineType
<1>2. x \in Seq(FrameType)
  BY <1>1, ExceptSeq
<1>3. SetTop(s, f) = [s EXCEPT !.frames = x]
  BY TopType
<1> HIDE DEF x
<1>4. QED
  BY <1>2, <1>3, FramesEdits

(* What a member that is kept may add: its new name, and the deletion of a
   comma no member before it keeps. *)
Marks(start, top) ==
  {Edit(top.keyStart, top.keyEnd, "R")} \cup {e \in {Edit(start, start + 1, "none")} : top.comma}

Grew(s, t, more) == s.edits \subseteq t.edits /\ t.edits \subseteq s.edits \cup more

Settled(s, t) == t.frames # <<>> /\ Len(t.frames) = Len(s.frames) /\ Top(t).prefix = Infinity

LEMMA KeepMemberCuts ==
  ASSUME NEW s \in Spines, ~Lost(s), NEW start \in Nat, NEW top \in FrameType, s.frames # <<>>,
         Top(s) = top, top.prefix = Infinity, NEW d \in Decisions,
         NEW r, r = KeepMember(s, start, top, d), ~Lost(r)
  PROVE  Settled(s, r) /\ SameDrop(s, r) /\ Grew(s, r, Marks(start, top))
<1> DEFINE comma == Edit(start, start + 1, "none")
<1> DEFINE name == Edit(top.keyStart, top.keyEnd, "R")
<1> DEFINE t == IF top.comma /\ OutputKeys(top) = {} THEN AddEdit(s, comma) ELSE s
<1> DEFINE frame == RecordOutputKey(top, d)
<1> DEFINE named == SetTop(t, frame)
<1> DEFINE renamed == AddEdit(named, name)
<1>1. comma \in EditType /\ name \in EditType
  <2>1. start + 1 \in Nat /\ top.keyStart \in Nat /\ top.keyEnd \in Nat
    BY DEF FrameType
  <2>2. QED
    BY <2>1 DEF Edit, EditType
<1>2. frame \in FrameType
  BY OutputKeyType
<1>3. frame.prefix = Infinity
  BY DEF RecordOutputKey, FrameType
<1>4. r \in {Throw(t, "fatal"), SettleBudget(named), SettleBudget(renamed)}
  BY DEF KeepMember
<1>a. Marks(start, top) = {name} \cup {e \in {comma} : top.comma}
  BY DEF Marks
<1> HIDE DEF comma, name, frame
<1>5. /\ t \in Spines /\ t.frames = s.frames /\ t.discard = s.discard
      /\ t.edits = s.edits \/ (top.comma /\ t.edits = s.edits \cup {comma})
  <2>1. CASE top.comma /\ OutputKeys(top) = {}
    <3> DEFINE a == AddEdit(s, comma)
    <3>1. a = AddEdit(s, comma)
      OBVIOUS
    <3> HIDE DEF a
    <3>2. a \in Spines /\ a.frames = s.frames /\ a.discard = s.discard /\ a.edits = s.edits \cup {comma}
      BY <1>1, <3>1, AddEditIs
    <3>3. t = a
      BY <2>1, <3>1
    <3>4. QED
      BY <2>1, <3>2, <3>3
  <2>2. CASE ~(top.comma /\ OutputKeys(top) = {})
    BY <2>2
  <2>3. QED
    BY <2>1, <2>2
<1> HIDE DEF t
<1>6. r # Throw(t, "fatal")
  <2>1. Throw(t, "fatal").thrown = "fatal"
    BY <1>5 DEF Throw, Spines
  <2>2. QED
    BY <2>1 DEF Lost
<1>7. /\ named \in Spines /\ Len(named.frames) = Len(s.frames) /\ named.frames # <<>>
      /\ Top(named) = frame /\ named.discard = s.discard /\ named.edits = t.edits
  BY <1>2, <1>5, SetTopIs, SetTopEdits
<1> HIDE DEF named
<1>8. /\ renamed \in Spines /\ renamed.frames = named.frames /\ renamed.discard = s.discard
      /\ renamed.edits = t.edits \cup {name}
  <2> DEFINE a == renamed
  <2>1. a = AddEdit(named, name)
    OBVIOUS
  <2> HIDE DEF a
  <2>2. a \in Spines /\ a.frames = named.frames /\ a.discard = named.discard
        /\ a.edits = named.edits \cup {name}
    BY <1>1, <1>7, <2>1, AddEditIs
  <2>3. QED
    BY <1>7, <2>2 DEF a
<1> HIDE DEF renamed
<1>9. PICK x \in {named, renamed} : r = SettleBudget(x)
  BY <1>4, <1>6
<1>10. x \in Spines /\ x.frames = named.frames /\ x.discard = s.discard
       /\ x.edits \in {t.edits, t.edits \cup {name}}
  BY <1>7, <1>8, <1>9
<1>11. r.frames = x.frames /\ r.edits = x.edits /\ SameDrop(x, r)
  BY <1>9, <1>10, SettleBudgetShows DEF Shows
<1>12. Settled(s, r)
  BY <1>3, <1>7, <1>10, <1>11 DEF Settled, Top
<1>13. SameDrop(s, r)
  BY <1>10, <1>11 DEF SameDrop
<1>14. Grew(s, r, Marks(start, top))
  <2>1. r.edits \in {t.edits, t.edits \cup {name}}
    BY <1>10, <1>11
  <2>2. QED
    BY <1>5, <1>a, <2>1 DEF Grew
<1>15. QED
  BY <1>12, <1>13, <1>14

DropsMember(r, start, keyStart, depth) ==
  r.discard.start = start /\ r.discard.keyStart = keyStart /\ r.discard.depth = depth

LEMMA DropCuts ==
  ASSUME NEW s \in Spines, ~Lost(s), NEW start \in Nat, NEW top \in FrameType, s.frames # <<>>,
         Top(s) = top, top.prefix = Infinity, NEW value \in ValueType,
         NEW r, r = Drop(s, start, top, value), ~Lost(r)
  PROVE  Settled(s, r) /\ r.edits = s.edits /\ DropsMember(r, start, top.keyStart, Len(s.frames))
<1> DEFINE n == IF value.container THEN 1 ELSE 0
<1> DEFINE x == [start |-> start, depth |-> Len(s.frames), keyStart |-> top.keyStart,
                 valueEnd |-> Infinity, nest |-> n]
<1> DEFINE t == [s EXCEPT !.discard = x]
<1> DEFINE at == top.keyStart + MaxDrop
<1>1. n \in Int /\ Len(s.frames) \in Nat /\ value.end \in Nat /\ top.keyStart \in Nat /\ Infinity \in Nat
  <2>1. Len(s.frames) \in Nat
    BY SpineType
  <2>2. QED
    BY <2>1, Numbers DEF ValueType, FrameType
<1> HIDE DEF n
<1>2. x \in DiscardType /\ x.start = start /\ x.depth = Len(s.frames) /\ x.keyStart = top.keyStart
  BY <1>1 DEF DiscardType
<1>3. r = IF value.end # Infinity THEN EndDroppedValue(t, value.end)
          ELSE IF MaxDrop = Infinity THEN t
          ELSE IF at <= value.start THEN Throw(t, "fatal")
          ELSE Limit(t, "drop", at)
  BY DEF Drop, n
<1>a. t = [s EXCEPT !.discard = x]
  OBVIOUS
<1> HIDE DEF x, t
<1>4. t.discard = x /\ t.frames = s.frames /\ t.edits = s.edits
  BY <1>2, <1>a, DiscardEdits
<1>5. t \in Spines
  BY <1>2, <1>a, SetFields
<1>6. t.frames = s.frames /\ t.edits = s.edits
  BY <1>4
<1>7. Shows(t, r)
  <2>1. Shows(t, EndDroppedValue(t, value.end))
    BY <1>1, <1>5, EndDroppedShows
  <2>2. Shows(t, Throw(t, "fatal"))
    BY <1>5, ThrowShows
  <2>3. Shows(t, Limit(t, "drop", at))
    BY <1>5, SetShows DEF Limit
  <2>4. QED
    BY <1>3, <2>1, <2>2, <2>3, ShowsSame
<1>8. r.frames = s.frames /\ r.edits = s.edits /\ SameDrop(t, r)
  BY <1>6, <1>7 DEF Shows
<1>9. QED
  BY <1>2, <1>4, <1>8 DEF Settled, SameDrop, DropsMember, Top

(* The hooks' answer about the member whose value starts. *)
Decided(s, t, does) ==
  /\ Settled(s, t)
  /\ IF does = "drop"
     THEN t.edits = s.edits /\ DropsMember(t, Top(s).prefix, Top(s).keyStart, Len(s.frames))
     ELSE SameDrop(s, t) /\ Grew(s, t, Marks(Top(s).prefix, Top(s)))

LEMMA DecideCuts ==
  ASSUME NEW s \in Spines, Counted(s), ~Stopped(s), Editable(s), NEW value \in ValueType, NEW u, u.decision \in Decisions,
         NEW r, r = DecideMember(s, value, u), ~Lost(r)
  PROVE  Decided(s, r, u.decision.kind)
<1> DEFINE top == [Top(s) EXCEPT !.prefix = Infinity]
<1> DEFINE set == SetTop(s, top)
<1> DEFINE cleared == ClearLimit(set)
<1> DEFINE asked == UserCode(cleared, u)
<1> DEFINE start == Top(s).prefix
<1>1. s.frames # <<>> /\ Top(s) \in FrameType /\ ~Threw(s) /\ ~s.disposed
  BY TopType DEF Editable, InObject, Stopped
<1>2. /\ top \in FrameType /\ start \in Nat /\ top.prefix = Infinity /\ top.keyStart = Top(s).keyStart
      /\ top.keyEnd = Top(s).keyEnd /\ top.comma = Top(s).comma
  BY <1>1, Numbers DEF FrameType
<1>3. u.decision.kind \in {"keep", "drop", "conflict", "rename"}
  BY DEF Decisions
<1>4. r = CASE u.decision.kind = "conflict" -> Throw(asked, "fatal")
            [] u.decision.kind = "drop" -> Drop(asked, start, top, value)
            [] u.decision.kind \in {"keep", "rename"} -> KeepMember(asked, start, top, u.decision)
  BY <1>1 DEF DecideMember
<1>a. Marks(start, top) = Marks(start, Top(s))
  BY <1>2 DEF Marks
<1> HIDE DEF top
<1>5. /\ set \in Spines /\ Len(set.frames) = Len(s.frames) /\ set.frames # <<>> /\ Top(set) = top
      /\ set.discard = s.discard /\ set.disposed = s.disposed /\ set.thrown = s.thrown /\ set.edits = s.edits
  BY <1>1, <1>2, SetTopIs, SetTopEdits
<1>b. Counted(set)
  <2>1. Onward(s, set)
    BY <1>2, SetTopOnward
  <2>2. QED
    BY <1>5, <2>1, OnwardCounted
<1> HIDE DEF set
<1>6. Shows(set, cleared) /\ cleared \in Spines /\ cleared.thrown = "none"
  <2>1. set.thrown = "none"
    BY <1>1, <1>5 DEF Threw
  <2>2. cleared \in Spines /\ cleared.thrown = set.thrown
    BY <1>5, LimitCleared
  <2>3. Shows(set, cleared)
    BY <1>5, SetShows DEF ClearLimit
  <2>4. QED
    BY <2>1, <2>2, <2>3
<1>c. Counted(cleared)
  BY <1>b, <1>5, <1>6, ClearLimitOnward, OnwardCounted DEF Keeps
<1> HIDE DEF cleared
<1>7. /\ Shows(cleared, asked) /\ Onward(cleared, asked) /\ asked \in Spines
      /\ ~asked.disposed => asked = cleared
  BY <1>6, UserCodeShows, UserCodeKeeps DEF Onward, Moves
<1>d. Counted(asked)
  BY <1>c, <1>6, <1>7, OnwardCounted
<1> HIDE DEF asked
<1>8. Shows(set, asked)
  BY <1>6, <1>7, ShowsThen
<1>9. CASE Lost(asked)
  <2>1. asked.disposed
    BY <1>6, <1>7, <1>9 DEF Lost
  <2>2. Onward(asked, r)
    <3>1. Onward(asked, Throw(asked, "fatal"))
      BY <1>7, ThrowKeeps DEF Keeps
    <3>2. Onward(asked, Drop(asked, start, top, value))
      BY <1>2, <1>7, <1>d, DropOnward
    <3>3. Onward(asked, KeepMember(asked, start, top, u.decision))
      BY <1>2, <1>7, <1>d, KeepMemberOnward
    <3>4. QED
      BY <1>3, <1>4, <3>1, <3>2, <3>3
  <2>3. QED
    BY <2>1, <2>2 DEF Onward, Moves, Lost
<1>10. CASE ~Lost(asked)
  <2>1. /\ asked.frames = set.frames /\ asked.edits = s.edits /\ SameDrop(s, asked)
        /\ Top(asked) = top /\ asked.frames # <<>> /\ Len(asked.frames) = Len(s.frames)
    BY <1>5, <1>8, <1>10 DEF Shows, SameDrop, Top
  <2>2. CASE u.decision.kind = "conflict"
    <3>1. r.thrown = "fatal"
      BY <1>4, <1>7, <2>2 DEF Throw, Spines
    <3>2. QED
      BY <3>1 DEF Lost
  <2>3. CASE u.decision.kind = "drop"
    <3>1. r = Drop(asked, start, top, value)
      BY <1>4, <2>3
    <3>2. Settled(asked, r) /\ r.edits = asked.edits /\ DropsMember(r, start, top.keyStart, Len(asked.frames))
      BY <1>2, <1>7, <1>10, <2>1, <3>1, DropCuts
    <3>3. QED
      BY <1>2, <2>1, <2>3, <3>2 DEF Decided, Settled
  <2>4. CASE u.decision.kind \in {"keep", "rename"}
    <3>1. r = KeepMember(asked, start, top, u.decision)
      BY <1>4, <2>4
    <3>2. Settled(asked, r) /\ SameDrop(asked, r) /\ Grew(asked, r, Marks(start, top))
      BY <1>2, <1>7, <1>10, <2>1, <3>1, KeepMemberCuts
    <3>3. SameDrop(s, r)
      BY <2>1, <3>2 DEF SameDrop
    <3>4. QED
      BY <1>a, <2>1, <2>4, <3>2, <3>3 DEF Decided, Settled, Grew
  <2>5. QED
    BY <1>3, <2>2, <2>3, <2>4
<1>11. QED
  BY <1>9, <1>10

LEMMA HeldEditable ==
  ASSUME NEW s \in Spines, NEW stack, NEW place, NEW more, Spans(s, stack, place, more), Held(s)
  PROVE  Editable(s) /\ s.opaque = 0
<1>1. /\ Top(s).hooks /\ ~Discards(s) /\ s.opaque = 0 /\ MemberPrefixStart(s) = Top(s).prefix
  BY HeldIs
<1>2. InObject(s)
  BY <1>1 DEF Held, MemberPrefixStart
<1>3. QED
  BY <1>1, <1>2 DEF Editable

Like(s, t) == t.edits = s.edits /\ SameDrop(s, t)

(* A value starts: the edits of its member, when the hooks decide it. *)
Begins(s, t, does) ==
  IF s.opaque = 0 /\ Editable(s)
  THEN IF does = "drop"
       THEN t.edits = s.edits /\ DropsMember(t, Top(s).prefix, Top(s).keyStart, Len(s.frames))
       ELSE SameDrop(s, t) /\ Grew(s, t, Marks(Top(s).prefix, Top(s)))
  ELSE Like(s, t)

LEMMA BeginsLike ==
  ASSUME NEW s, NEW t, NEW does, NEW r, Begins(s, t, does), Like(t, r) PROVE Begins(s, r, does)
  BY DEF Begins, Like, SameDrop, DropsMember, Grew

LEMMA DecideBegins ==
  ASSUME NEW s \in Spines, Counted(s), ~Stopped(s), s.opaque = 0, NEW value \in ValueType,
         NEW u, u.decision \in Decisions, NEW stack, NEW place, NEW more, Spans(s, stack, place, more),
         NEW x \in Spines, Shows(s, x), ~Lost(x), x = s \/ Discards(s),
         NEW r, r = DecideMember(x, value, u), ~Lost(r)
  PROVE  Begins(s, r, u.decision.kind) /\ ~Held(r)
<1>1. CASE Editable(s)
  <2>1. x = s
    BY <1>1 DEF Editable
  <2>2. Decided(s, r, u.decision.kind)
    BY <1>1, <2>1, DecideCuts
  <2>3. QED
    BY <1>1, <2>2 DEF Decided, Begins, Settled, Held
<1>2. CASE ~Editable(s)
  <2>1. x.frames = s.frames /\ Like(s, x)
    BY DEF Shows, Like
  <2>2. ~Editable(x)
    BY <1>2, <2>1 DEF Editable, InObject, Top, Discards, Like, SameDrop
  <2>3. r = x
    BY <2>2 DEF DecideMember
  <2>4. ~Held(s)
    BY <1>2, HeldEditable
  <2>5. QED
    BY <1>2, <2>1, <2>3, <2>4 DEF Begins, Held, Top
<1>3. QED
  BY <1>1, <1>2

LEMMA ShowsLike ==
  ASSUME NEW s, NEW t, Shows(s, t), ~Lost(t)
  PROVE  ~Lost(s) /\ Like(s, t) /\ t.frames = s.frames /\ (Held(t) <=> Held(s)) /\ (Discards(t) <=> Discards(s))
  BY DEF Shows, Like, SameDrop, Held, Top, Discards

(* onStartObject and onStartArray. *)
LEMMA OnStartBegins ==
  ASSUME NEW s \in Spines, Counted(s), ~Stopped(s), NEW kind \in Contexts,
         NEW u, u.decision \in Decisions, NEW stack, NEW place, place # "string", Spans(s, stack, place, 0),
         NEW r, r = OnStart(s, kind, u), ~Lost(r)
  PROVE  /\ Begins(s, r, u.decision.kind)
         /\ Held(r) => kind = "object" /\ Top(r).prefix = s.tok.pos + 1 /\ ~Discards(r)
<1> DEFINE o == s.tok.pos
<1> DEFINE value == Value(o, Infinity, TRUE)
<1> DEFINE counted == NoteDropOpen(s)
<1> DEFINE decided == DecideMember(counted, value, u)
<1> DEFINE checked == Record(decided, u)
<1> DEFINE hooks == kind = "object" /\ u.scoped /\ ~Discards(checked)
<1> DEFINE frame == Frame(kind, o, hooks, Discards(checked))
<1> DEFINE framed == [checked EXCEPT !.frames = Append(checked.frames, frame)]
<1> DEFINE inner == [counted EXCEPT !.opaque = counted.opaque + 1]
<1> DEFINE opened == [checked EXCEPT !.opaque = 1]
<1> DEFINE at == o + 1 + MaxPrefix
<1> DEFINE limited == Limit(framed, "prefix", at)
<1>1. r = IF s.opaque > 0 THEN inner
          ELSE IF Threw(checked) THEN checked
          ELSE IF u.opaque THEN opened
          ELSE IF hooks THEN limited ELSE framed
  BY DEF OnStart
<1>2. /\ counted \in Spines /\ counted.disposed = s.disposed /\ counted.thrown = s.thrown
      /\ Shows(s, counted) /\ (counted = s \/ Discards(s))
  BY NoteDropOpenSpans, NoteDropOpenShows DEF NoteDropOpen, DropOpen
<1>3. ~Lost(counted) /\ ~Lost(s)
  BY <1>2 DEF Lost, Stopped, Threw
<1>4. Counted(counted)
  BY <1>2, NoteDropOpenKeeps, OnwardCounted DEF Keeps
<1> HIDE DEF counted
<1>5. value \in ValueType /\ o \in Nat /\ s.opaque \in Nat
  BY SpineType, Numbers DEF Value, ValueType
<1> HIDE DEF value
<1>6. CASE s.opaque > 0
  <2>1. r = inner /\ Shows(counted, inner)
    BY <1>1, <1>2, <1>6, SetShows
  <2>2. Shows(s, r)
    BY <1>2, <2>1, ShowsThen
  <2>3. Like(s, r) /\ (Held(r) <=> Held(s))
    BY <2>2, ShowsLike
  <2>4. ~Held(s)
    BY <1>6, HeldEditable
  <2>5. QED
    BY <1>6, <2>3, <2>4 DEF Begins
<1>7. CASE s.opaque = 0
  <2>1. decided \in Spines
    BY <1>2, <1>4, <1>5, DecideMemberKeeps DEF Keeps, Onward, Moves
  <2>2. ~Lost(decided) => Begins(s, decided, u.decision.kind) /\ ~Held(decided)
    BY <1>2, <1>3, <1>5, <1>7, DecideBegins
  <2> HIDE DEF decided
  <2>3. Shows(decided, checked) /\ checked \in Spines
    BY <2>1, RecordShows, RecordKeeps DEF Onward, Moves
  <2> HIDE DEF checked
  <2>4. ~Lost(checked) => Begins(s, checked, u.decision.kind) /\ ~Held(checked)
    BY <2>2, <2>3, ShowsLike, BeginsLike
  <2>5. frame \in FrameType /\ frame.prefix = (IF hooks THEN o + 1 ELSE Infinity)
    <3>1. o + 1 \in Nat /\ <<>> \in Seq(Byte) /\ {} \in SUBSET Seq(Byte) /\ Infinity \in Nat
      BY <1>5, Numbers
    <3>2. hooks \in BOOLEAN /\ Discards(checked) \in BOOLEAN
      BY DEF Discards
    <3> HIDE DEF hooks
    <3>3. QED
      BY <3>1, <3>2 DEF Frame, FrameType
  <2> DEFINE x == Append(checked.frames, frame)
  <2>6. x \in Seq(FrameType) /\ x # <<>> /\ x[Len(x)] = frame
    BY <2>3, <2>5, SpineType
  <2>7. framed = [checked EXCEPT !.frames = x]
    OBVIOUS
  <2>8. at \in Int
    BY <1>5, Numbers
  <2> HIDE DEF x, frame, framed, at
  <2>9. /\ framed \in Spines /\ framed.frames = x /\ framed.discard = checked.discard
        /\ framed.disposed = checked.disposed /\ framed.thrown = checked.thrown
        /\ framed.edits = checked.edits
    BY <2>3, <2>6, <2>7, FramesSet, FramesEdits
  <2>10. Shows(checked, opened) /\ Shows(framed, limited)
    BY <2>3, <2>9, SetShows DEF Limit
  <2> HIDE DEF opened, limited
  <2>11. r \in {checked, opened, limited, framed}
    BY <1>1, <1>7
  <2>12. CASE r = checked \/ r = opened
    <3>1. Shows(checked, r)
      BY <2>10, <2>12, ShowsSame
    <3>2. QED
      BY <2>4, <3>1, ShowsLike, BeginsLike
  <2>13. CASE ~(r = checked \/ r = opened)
    <3>1. r = (IF hooks THEN limited ELSE framed)
      BY <1>1, <1>7, <2>13
    <3>2. Shows(framed, r)
      BY <2>10, <3>1, ShowsSame
    <3>3. ~Lost(framed) /\ Like(framed, r) /\ r.frames = x /\ (Discards(r) <=> Discards(framed))
      BY <2>9, <3>2, ShowsLike
    <3>4. ~Lost(checked) /\ Like(checked, r) /\ (Discards(r) <=> Discards(checked))
      BY <2>9, <3>3 DEF Lost, Like, SameDrop, Discards
    <3>5. Begins(s, r, u.decision.kind)
      BY <2>4, <3>4, BeginsLike
    <3>6. Top(r) = frame
      BY <2>6, <3>3 DEF Top
    <3>7. Held(r) => hooks
      BY <2>5, <3>6 DEF Held
    <3>8. QED
      BY <2>5, <3>4, <3>5, <3>6, <3>7
  <2>14. QED
    BY <2>12, <2>13
<1>8. QED
  BY <1>5, <1>6, <1>7

(* onStringStart, onNumber, onBoolean and onNull. *)
LEMMA ScalarBegins ==
  ASSUME NEW s \in Spines, Counted(s), ~Stopped(s), NEW value \in ValueType,
         NEW u, u.decision \in Decisions, NEW stack, NEW place, Spans(s, stack, place, 0),
         NEW r, r = IF s.opaque > 0 THEN s
                    ELSE Record(IF value.end = Infinity THEN DecideMember(s, value, u)
                                ELSE Told(DecideMember(s, value, u), u), u),
         ~Lost(r)
  PROVE  Begins(s, r, u.decision.kind) /\ ~Held(r)
<1>1. CASE s.opaque > 0
  BY <1>1, HeldEditable DEF Begins, Like, SameDrop
<1>2. CASE ~(s.opaque > 0)
  <2> DEFINE decided == DecideMember(s, value, u)
  <2> DEFINE told == Told(decided, u)
  <2> DEFINE checked == Record(decided, u)
  <2> DEFINE settled == Record(told, u)
  <2>1. s.opaque = 0
    BY <1>2, SpineType
  <2>2. decided \in Spines
    BY DecideMemberKeeps DEF Keeps, Onward, Moves
  <2>3. ~Lost(decided) => Begins(s, decided, u.decision.kind) /\ ~Held(decided)
    <3>1. Shows(s, s) /\ ~Lost(s)
      BY ShowsSame DEF Lost, Stopped, Threw
    <3>2. QED
      BY <2>1, <3>1, DecideBegins
  <2>4. r = checked \/ r = settled
    BY <1>2
  <2> HIDE DEF decided
  <2>5. Shows(decided, told) /\ told \in Spines
    BY <2>2, ToldShows, ToldKeeps DEF Onward, Moves
  <2> HIDE DEF told
  <2>6. Shows(decided, checked) /\ Shows(told, settled)
    BY <2>2, <2>5, RecordShows
  <2> HIDE DEF checked, settled
  <2>7. Shows(decided, r)
    BY <2>4, <2>5, <2>6, ShowsThen
  <2>8. QED
    BY <2>3, <2>7, ShowsLike, BeginsLike
<1>3. QED
  BY <1>1, <1>2

(* onKey. *)
LEMMA OnKeyLike ==
  ASSUME NEW s \in Spines, ~Stopped(s), s.frames # <<>> \/ s.opaque > 0, NEW key \in Seq(Byte),
         NEW start \in Nat, NEW u, NEW r, r = OnKey(s, key, start, u), ~Lost(r)
  PROVE  Like(s, r) /\ (Held(r) => Held(s) /\ Top(r).prefix = Top(s).prefix)
<1>1. CASE s.opaque > 0
  BY <1>1 DEF OnKey, Like, SameDrop
<1>2. CASE ~(s.opaque > 0)
  <2> DEFINE end == s.tok.pos + 1
  <2> DEFINE top == [Top(s) EXCEPT !.keyStart = start, !.keyEnd = end]
  <2> DEFINE later == [top EXCEPT !.key = key, !.count = @ + 1]
  <2> DEFINE at == end + MaxPrefix - (start - top.prefix)
  <2> DEFINE asked == UserCode(s, u)
  <2> DEFINE told == SetTop(asked, top)
  <2> DEFINE limited == Limit(told, "prefix", at)
  <2> DEFINE holding == IF top.prefix = Infinity THEN told ELSE limited
  <2> DEFINE checked == Record(holding, u)
  <2> DEFINE done == SetTop(checked, later)
  <2>1. s.frames # <<>> /\ Top(s) \in FrameType /\ end \in Nat
    BY <1>2, TopType, SpineType
  <2>2. top \in FrameType /\ top.prefix = Top(s).prefix
    BY <2>1 DEF FrameType
  <2>3. r = IF Threw(checked) THEN checked ELSE done
    BY <1>2 DEF OnKey
  <2> HIDE DEF top
  <2>4. later \in FrameType /\ later.prefix = top.prefix
    <3>1. top.count + 1 \in Nat
      BY <2>2 DEF FrameType
    <3>2. QED
      BY <2>2, <3>1 DEF FrameType
  <2>5. at \in Int
    <3>1. top.prefix \in Nat
      BY <2>2 DEF FrameType
    <3>2. QED
      BY <2>1, <3>1, Numbers
  <2> HIDE DEF later, at
  <2>6. Onward(s, asked) /\ (~asked.disposed => asked = s)
    BY UserCodeKeeps
  <2> HIDE DEF asked
  <2>7. asked \in Spines
    BY <2>6 DEF Onward, Moves
  <2>8. Onward(asked, told) /\ told \in Spines
    BY <2>2, <2>7, SetTopOnward DEF Onward, Moves
  <2>9. CASE asked.disposed
    <3> HIDE DEF told
    <3>1. Onward(told, holding)
      BY <2>5, <2>8, LimitOnward, OnwardSame DEF Keeps
    <3> HIDE DEF holding
    <3>2. Onward(holding, checked)
      BY <3>1, RecordKeeps DEF Onward, Moves
    <3> HIDE DEF checked
    <3>3. Onward(checked, done)
      BY <2>4, <3>2, SetTopOnward DEF Onward, Moves
    <3> HIDE DEF done
    <3>4. checked.disposed /\ done.disposed
      BY <2>8, <2>9, <3>1, <3>2, <3>3 DEF Onward, Moves
    <3>5. QED
      BY <2>3, <3>4 DEF Lost
  <2>10. CASE asked = s
    <3>1. /\ told \in Spines /\ told.frames # <<>> /\ Top(told) = top /\ told.discard = s.discard
          /\ told.edits = s.edits
      BY <2>1, <2>2, <2>10, SetTopIs, SetTopEdits
    <3> HIDE DEF told
    <3>2. Shows(told, holding) /\ holding \in Spines
      <4>1. Shows(told, limited) /\ limited \in Spines
        BY <2>5, <3>1, SetShows, LimitSet DEF Limit
      <4>2. QED
        BY <3>1, <4>1, ShowsSame
    <3> HIDE DEF holding
    <3>3. Shows(holding, checked) /\ checked \in Spines
      BY <3>2, RecordShows, RecordKeeps DEF Onward, Moves
    <3> HIDE DEF checked
    <3>4. Shows(told, checked)
      BY <3>2, <3>3, ShowsThen
    <3>5. ~Lost(checked) => /\ Like(s, checked) /\ checked.frames # <<>> /\ Top(checked) = top
      <4>1. ~Lost(checked) => Like(told, checked) /\ checked.frames = told.frames
        BY <3>4, ShowsLike
      <4>2. QED
        BY <3>1, <4>1 DEF Like, SameDrop, Top
    <3>6. CASE r = checked
      BY <2>2, <3>1, <3>5, <3>6, <2>1 DEF Held
    <3>7. CASE r = done
      <4>1. CASE checked.frames = <<>>
        <5>1. r = checked
          BY <3>7, <4>1 DEF SetTop
        <5>2. QED
          BY <3>6, <5>1
      <4>2. CASE checked.frames # <<>>
        <5>1. /\ done.discard = checked.discard /\ done.disposed = checked.disposed
              /\ done.thrown = checked.thrown /\ Top(done) = later /\ done.edits = checked.edits
          BY <2>4, <3>3, <4>2, SetTopIs, SetTopEdits
        <5>2. ~Lost(checked)
          BY <3>7, <5>1 DEF Lost
        <5>3. QED
          BY <2>1, <2>2, <2>4, <3>5, <3>7, <5>1, <5>2 DEF Held, Like, SameDrop
      <4>3. QED
        BY <4>1, <4>2
    <3>8. QED
      BY <2>3, <3>6, <3>7
  <2>11. QED
    BY <2>6, <2>9, <2>10
<1>3. QED
  BY <1>1, <1>2

(* A dropped member ends: what is deleted runs from its prefix to the byte. *)
EndsDrop(s, t, o, more) ==
  /\ Discards(s) /\ ~Discards(t) /\ s.opaque = 0 /\ s.discard.depth = Len(s.frames)
  /\ Edit(s.discard.start, o, "none") \in t.edits
  /\ Grew(s, t, {Edit(s.discard.start, o, "none")} \cup more)

LEMMA EndDiscardEdits ==
  ASSUME NEW s \in Spines, NEW o \in Nat, NEW t, t = EndDiscard(s, o)
  PROVE  t.edits = s.edits \cup {Edit(s.discard.start, o, "none")}
<1> DEFINE r == [s EXCEPT !.discard = NoDiscard]
<1> DEFINE e == Edit(s.discard.start, o, "none")
<1>1. NoDiscard \in DiscardType
  BY Numbers DEF NoDiscard, DiscardType
<1>2. s.discard.start \in Nat
  BY SpineType DEF DiscardType
<1>3. e \in EditType
  BY <1>2 DEF Edit, EditType
<1>4. t = AddEdit(r, e)
  BY DEF EndDiscard
<1> HIDE DEF e
<1>5. r \in Spines /\ r.edits = s.edits
  BY <1>1, DiscardSet, DiscardEdits
<1> HIDE DEF r
<1>6. QED
  BY <1>3, <1>4, <1>5, AddEditIs DEF e

(* onMemberComma. *)
LEMMA OnCommaEnds ==
  ASSUME NEW s \in Spines, ~Stopped(s), s.frames # <<>> \/ s.opaque > 0,
         NEW stack, NEW place, Spans(s, stack, place, 0), NEW r, r = OnMemberComma(s)
  PROVE  /\ Like(s, r) \/ EndsDrop(s, r, s.tok.pos, {})
         /\ Held(r) => Top(r).prefix = s.tok.pos /\ ~Discards(r)
<1> DEFINE o == s.tok.pos
<1> DEFINE ended == IF Discards(s) THEN EndDiscard(s, o) ELSE s
<1> DEFINE top == [Top(s) EXCEPT !.prefix = o, !.comma = TRUE]
<1> DEFINE holding == SetTop(ended, top)
<1>1. o \in Nat /\ s.opaque \in Nat /\ Infinity \in Nat
  BY SpineType, Numbers
<1>2. Held(s) => ~Discards(s) /\ s.opaque = 0 /\ Top(s).hooks
  BY HeldIs
<1>3. CASE s.opaque > 0 \/ (Discards(s) /\ s.discard.depth # Len(s.frames))
  <2>1. r = s
    BY <1>3 DEF OnMemberComma
  <2>2. QED
    BY <1>1, <1>2, <1>3, <2>1 DEF Like, SameDrop
<1>4. CASE ~(s.opaque > 0 \/ (Discards(s) /\ s.discard.depth # Len(s.frames)))
  <2>1. s.frames # <<>> /\ s.opaque = 0 /\ Top(s) \in FrameType
    <3>1. ~(s.opaque > 0)
      BY <1>4
    <3>2. s.opaque = 0 /\ s.frames # <<>>
      BY <1>1, <3>1
    <3>3. QED
      BY <3>2, TopType
  <2>2. r = IF Top(s).hooks THEN Limit(holding, "prefix", o + MaxPrefix) ELSE ended
    BY <1>4 DEF OnMemberComma
  <2>3. top \in FrameType /\ top.prefix = o
    BY <1>1, <2>1 DEF FrameType
  <2> HIDE DEF top
  <2>4. /\ ended \in Spines /\ ended.frames = s.frames /\ ~Discards(ended)
        /\ ended.disposed = s.disposed /\ ended.thrown = s.thrown
        /\ Like(s, ended) \/ EndsDrop(s, ended, o, {})
    <3>1. CASE ~Discards(s)
      BY <3>1 DEF Like, SameDrop
    <3>2. CASE Discards(s)
      <4> DEFINE a == EndDiscard(s, o)
      <4>1. a = EndDiscard(s, o)
        OBVIOUS
      <4> HIDE DEF a
      <4>a. o \in Nat
        BY <1>1
      <4>b. /\ a \in Spines /\ a.frames = s.frames /\ ~Discards(a)
            /\ a.disposed = s.disposed /\ a.thrown = s.thrown
        BY <4>1, <4>a, EndDiscardIs
      <4>c. a.edits = s.edits \cup {Edit(s.discard.start, o, "none")}
        BY <4>1, <4>a, EndDiscardEdits
      <4>2. /\ a \in Spines /\ a.frames = s.frames /\ ~Discards(a)
            /\ a.disposed = s.disposed /\ a.thrown = s.thrown
            /\ a.edits = s.edits \cup {Edit(s.discard.start, o, "none")}
        BY <4>b, <4>c
      <4>3. ended = a
        BY <3>2, <4>1
      <4>4. EndsDrop(s, a, o, {})
        BY <1>4, <2>1, <3>2, <4>2 DEF EndsDrop, Grew
      <4>5. QED
        BY <4>2, <4>3, <4>4
    <3>3. QED
      BY <3>1, <3>2
  <2> HIDE DEF ended
  <2>5. CASE ~Top(s).hooks
    <3>1. r = ended
      BY <2>2, <2>5
    <3>2. ~Held(r)
      BY <1>2, <2>4, <2>5, <3>1 DEF Held, Top
    <3>3. QED
      BY <2>4, <3>1, <3>2
  <2>6. CASE Top(s).hooks
    <3>1. /\ holding \in Spines /\ Top(holding) = top /\ holding.discard = ended.discard
          /\ holding.edits = ended.edits /\ holding.disposed = s.disposed /\ holding.thrown = s.thrown
      BY <2>1, <2>3, <2>4, SetTopIs, SetTopEdits
    <3> HIDE DEF holding
    <3> DEFINE at == o + MaxPrefix
    <3>2. at \in Int
      BY <1>1, Numbers
    <3>3. r = Limit(holding, "prefix", at)
      BY <2>2, <2>6
    <3> HIDE DEF at
    <3>a. "prefix" \in {"prefix", "drop"}
      OBVIOUS
    <3> DEFINE lim == Limit(holding, "prefix", at)
    <3>b. /\ lim.frames = holding.frames /\ lim.discard = holding.discard
          /\ lim.disposed = holding.disposed /\ lim.thrown = holding.thrown
      <4>1. holding \in Spines
        BY <3>1
      <4>2. QED
        BY <4>1, <3>2, LimitSet
    <3>4. /\ r.frames = holding.frames /\ r.discard = holding.discard
          /\ r.disposed = holding.disposed /\ r.thrown = holding.thrown
      BY <3>3, <3>b
    <3>5. Shows(holding, r)
      <4> DEFINE x == [kind |-> "prefix", at |-> at]
      <4>1. r = [holding EXCEPT !.limit = x]
        BY <3>3 DEF Limit
      <4> HIDE DEF x
      <4>2. "limit" \in {"tok", "opaque", "limit", "violations", "deferred"}
        OBVIOUS
      <4>3. holding \in Spines
        BY <3>1
      <4>4. Shows(holding, [holding EXCEPT !["limit"] = x])
        BY <4>2, <4>3, SetShows
      <4>5. QED
        BY <4>1, <4>4
    <3>6. ~Lost(r)
      BY <3>1, <3>4 DEF Lost, Stopped, Threw
    <3>7. r.edits = ended.edits /\ r.discard = ended.discard /\ Top(r).prefix = o
      BY <2>3, <3>1, <3>4, <3>5, <3>6 DEF Shows, Top
    <3>8. QED
      BY <2>4, <3>7 DEF Like, SameDrop, EndsDrop, Grew, Discards
  <2>7. QED
    BY <2>5, <2>6
<1>5. QED
  BY <1>3, <1>4

(* What an event leaves of the edits but for members it appends at o. *)
Added(o) == {Edit(o, o, "A"), Edit(o, o, ",A")}

Gains(s, t, more) ==
  Lost(t) \/ (~Lost(s) /\ t.frames = s.frames /\ SameDrop(s, t) /\ Grew(s, t, more))

LEMMA GainsThen ==
  ASSUME NEW s, NEW t, NEW r, NEW more, Gains(s, t, more), Gains(t, r, more) PROVE Gains(s, r, more)
  BY DEF Gains, SameDrop, Grew

LEMMA ShowsGains == ASSUME NEW s, NEW t, NEW more, Shows(s, t) PROVE Gains(s, t, more)
  BY DEF Shows, Gains, Grew

LEMMA AddEditGains ==
  ASSUME NEW s \in Spines, NEW e \in EditType, NEW more, e \in more
  PROVE  Gains(s, AddEdit(s, e), more) /\ AddEdit(s, e) \in Spines
<1> DEFINE t == AddEdit(s, e)
<1>1. t = AddEdit(s, e)
  OBVIOUS
<1> HIDE DEF t
<1>2. /\ t \in Spines /\ t.edits = s.edits \cup {e} /\ t.frames = s.frames
      /\ t.discard = s.discard /\ t.disposed = s.disposed /\ t.thrown = s.thrown
  BY <1>1, AddEditIs
<1>3. QED
  BY <1>2 DEF Gains, Grew, SameDrop, Lost, t

LEMMA ScopeCloseGains ==
  ASSUME NEW s \in Spines, NEW outputs, NEW o \in Nat, NEW u
  PROVE  \E a \in Added(o) : Gains(s, ScopeClose(s, outputs, o, u), {a})
<1> DEFINE t == Told(s, u)
<1> DEFINE e == Edit(o, o, IF outputs THEN ",A" ELSE "A")
<1>1. ScopeClose(s, outputs, o, u) = IF Threw(s) THEN s ELSE IF u.appends THEN AddEdit(t, e) ELSE t
  BY DEF ScopeClose
<1>2. e = Edit(o, o, "A") \/ e = Edit(o, o, ",A")
  BY Zenon
<1>3. e \in EditType /\ e \in Added(o)
  <2>1. Edit(o, o, "A") \in EditType /\ Edit(o, o, ",A") \in EditType
    BY DEF Edit, EditType
  <2> HIDE DEF e
  <2>2. QED
    BY <1>2, <2>1 DEF Added
<1> HIDE DEF e
<1>4. Gains(s, t, {e}) /\ t \in Spines
  BY ToldShows, ToldKeeps, ShowsGains DEF Onward, Moves
<1> HIDE DEF t
<1>5. Gains(t, AddEdit(t, e), {e})
  BY <1>3, <1>4, AddEditGains
<1>6. Gains(s, AddEdit(t, e), {e}) /\ Gains(s, s, {e})
  BY <1>4, <1>5, GainsThen, ShowsSame, ShowsGains
<1>7. Gains(s, ScopeClose(s, outputs, o, u), {e})
  BY <1>1, <1>4, <1>6
<1>8. QED
  BY <1>3, <1>7

LEMMA EndDroppedStops ==
  ASSUME NEW s \in Spines, NEW end \in Nat, NEW t, t = EndDroppedValue(s, end)
  PROVE  t.disposed = s.disposed /\ t.thrown \in {s.thrown, "fatal"}
<1> DEFINE x == [s.discard EXCEPT !.valueEnd = end]
<1> DEFINE r == [s EXCEPT !.discard = x]
<1> DEFINE c == ClearLimit(r)
<1>1. s.discard \in DiscardType
  BY SpineType
<1>2. x \in DiscardType
  BY <1>1 DEF DiscardType
<1>3. t \in {c, Throw(c, "fatal")}
  BY DEF EndDroppedValue
<1> HIDE DEF x
<1>4. r \in Spines /\ r.disposed = s.disposed /\ r.thrown = s.thrown
  BY <1>2, DiscardSet
<1> HIDE DEF r
<1>5. c \in Spines /\ c.disposed = s.disposed /\ c.thrown = s.thrown
  BY <1>4, LimitCleared
<1> HIDE DEF c
<1>6. Throw(c, "fatal").disposed = c.disposed /\ Throw(c, "fatal").thrown = "fatal"
  BY <1>5 DEF Throw, Spines
<1>7. QED
  BY <1>3, <1>5, <1>6

LEMMA NoteDropCloseStops ==
  ASSUME NEW s \in Spines, NEW end \in Nat, NEW t, t = NoteDropClose(s, end)
  PROVE  t.disposed = s.disposed /\ t.thrown \in {s.thrown, "fatal"}
<1>1. CASE ~DropOpen(s)
  BY <1>1 DEF NoteDropClose
<1>2. CASE DropOpen(s)
  <2>1. PICK n \in Int : n = s.discard.nest - 1
    BY SpineType DEF DiscardType
  <2>a. PICK r : r = [s EXCEPT !.discard.nest = n]
    OBVIOUS
  <2>2. t \in {r, EndDroppedValue(r, end)}
    BY <1>2, <2>1, <2>a DEF NoteDropClose
  <2>b. r \in Spines
    BY <2>a, NestSet
  <2>c. r.disposed = s.disposed
    BY <2>a, NestSet
  <2>d. r.thrown = s.thrown
    BY <2>a, NestSet
  <2>3. r \in Spines /\ r.disposed = s.disposed /\ r.thrown = s.thrown
    BY <2>b, <2>c, <2>d
  <2>4. QED
    BY <2>2, <2>3, EndDroppedStops
<1>3. QED
  BY <1>1, <1>2

LEMMA PopShows ==
  ASSUME NEW s \in Spines, s.frames # <<>>, NEW t, t = PopFrame(s)
  PROVE  t.edits = s.edits
<1> DEFINE x == SubSeq(s.frames, 1, Len(s.frames) - 1)
<1>1. s.frames \in Seq(FrameType)
  BY SpineType
<1>2. x \in Seq(FrameType) /\ t = [s EXCEPT !.frames = x]
  BY <1>1 DEF PopFrame
<1> HIDE DEF x
<1>3. QED
  BY <1>2, FramesEdits

LEMMA CloseFrameEnds ==
  ASSUME NEW s \in Spines, s.opaque = 0, s.frames # <<>>, NEW o \in Nat, NEW t, t = CloseFrame(s, o)
  PROVE  /\ Like(s, t) \/ EndsDrop(s, t, o, {})
         /\ t.disposed = s.disposed /\ t.thrown = s.thrown
<1> DEFINE r == PopFrame(s)
<1>1. /\ r \in Spines /\ r.discard = s.discard /\ r.disposed = s.disposed /\ r.thrown = s.thrown
      /\ r.edits = s.edits
  BY PopIs, PopShows
<1>2. t = IF Discards(s) /\ s.discard.depth = Len(s.frames) THEN EndDiscard(r, o)
          ELSE IF Top(s).prefix # Infinity THEN ClearLimit(r) ELSE r
  BY DEF CloseFrame
<1> HIDE DEF r
<1>3. CASE Discards(s) /\ s.discard.depth = Len(s.frames)
  <2>1. t = EndDiscard(r, o)
    BY <1>2, <1>3
  <2>2. ~Discards(t) /\ t.disposed = s.disposed /\ t.thrown = s.thrown
    BY <1>1, <2>1, EndDiscardIs
  <2>3. t.edits = s.edits \cup {Edit(s.discard.start, o, "none")}
    BY <1>1, <2>1, EndDiscardEdits
  <2>4. QED
    BY <1>3, <2>2, <2>3 DEF EndsDrop, Grew
<1>4. CASE ~(Discards(s) /\ s.discard.depth = Len(s.frames)) /\ Top(s).prefix # Infinity
  <2>1. t = ClearLimit(r)
    BY <1>2, <1>4
  <2>2. t.discard = s.discard /\ t.disposed = s.disposed /\ t.thrown = s.thrown
    BY <1>1, <2>1, LimitCleared
  <2>3. t.edits = r.edits
    <3>1. "limit" \in Fields /\ "edits" \in Fields \ {"limit"}
      BY DEF Fields
    <3>2. QED
      BY <1>1, <2>1, <3>1, SetReads DEF ClearLimit
  <2>4. QED
    BY <1>1, <2>2, <2>3 DEF Like, SameDrop
<1>5. CASE ~(Discards(s) /\ s.discard.depth = Len(s.frames)) /\ ~(Top(s).prefix # Infinity)
  BY <1>1, <1>2, <1>5 DEF Like, SameDrop
<1>6. QED
  BY <1>3, <1>4, <1>5

(* A container that closes appends at most, and an object ends at most one drop. *)
Appends(s, t, o) == SameDrop(s, t) /\ \E a \in Added(o) : Grew(s, t, {a})

Finishes(s, t, o) ==
  \E a \in Added(o) : \/ SameDrop(s, t) /\ Grew(s, t, {a})
                      \/ EndsDrop(s, t, o, {a})

LEMMA OnEndOpaqueShows ==
  ASSUME NEW s \in Spines, s.opaque > 0, NEW u PROVE Shows(s, OnEndOpaque(s, u))
<1> DEFINE x == IF s.opaque > 1 THEN s.opaque - 1 ELSE 0
<1> DEFINE t == [s EXCEPT !.opaque = x]
<1> DEFINE r == Record(t, u)
<1>1. s.opaque \in Nat /\ x \in Nat
  BY SpineType
<1>2. OnEndOpaque(s, u) = IF s.opaque > 1 THEN t ELSE r
  BY DEF OnEndOpaque
<1> HIDE DEF x
<1>3. t \in Spines /\ Shows(s, t)
  BY <1>1, OpaqueSet, SetShows
<1> HIDE DEF t
<1>4. Shows(t, r)
  BY <1>3, RecordShows
<1>5. QED
  BY <1>2, <1>3, <1>4, ShowsThen

LEMMA OnEndObjectFinishes ==
  ASSUME NEW s \in Spines, ~Stopped(s), s.frames # <<>> \/ s.opaque > 0, NEW u,
         s.tok.pos + 1 # Infinity, NEW stack, NEW place, place # "string", Spans(s, stack, place, 0),
         NEW r, r = OnEndObject(s, u), ~Lost(r)
  PROVE  Finishes(s, r, s.tok.pos) /\ ~Held(r)
<1> DEFINE o == s.tok.pos
<1> DEFINE closed == NoteDropClose(s, o + 1)
<1> DEFINE opaque == OnEndOpaque(closed, u)
<1> DEFINE popped == CloseFrame(closed, o)
<1> DEFINE checked == Record(popped, u)
<1> DEFINE scope == ScopeClose(checked, OutputsMembers(Top(s)), o, u)
<1> DEFINE done == SettleBudget(scope)
<1>1. r = IF Threw(closed) THEN closed ELSE IF s.opaque > 0 THEN opaque ELSE done
  BY DEF OnEndObject
<1>2. o \in Nat /\ o + 1 \in Nat /\ o + 1 # Infinity /\ s.opaque \in Nat
  BY SpineType
<1>3. /\ closed \in Spines /\ Fits(closed, stack, place, -1) /\ Shows(s, closed)
      /\ ~Stopped(closed) => closed.opaque = s.opaque /\ (s.opaque = 0 => closed.frames # <<>>)
      /\ closed.disposed = s.disposed /\ closed.thrown \in {s.thrown, "fatal"}
  <2>1. closed = NoteDropClose(s, o + 1)
    OBVIOUS
  <2> HIDE DEF closed
  <2>2. /\ closed \in Spines /\ Fits(closed, stack, place, -1)
        /\ ~Stopped(closed) => closed.opaque = s.opaque /\ (s.opaque = 0 => closed.frames # <<>>)
    BY <1>2, <2>1, ClosedSpans
  <2>3. Shows(s, closed)
    BY <1>2, <2>1, NoteDropCloseShows
  <2>4. closed.disposed = s.disposed /\ closed.thrown \in {s.thrown, "fatal"}
    BY <1>2, <2>1, NoteDropCloseStops
  <2>5. QED
    BY <2>2, <2>3, <2>4
<1> HIDE DEF closed
<1>4. ~Threw(closed) /\ ~Stopped(closed)
  BY <1>1, <1>3 DEF Stopped, Threw, Lost
<1>5. Like(s, closed) /\ closed.frames = s.frames /\ (Held(closed) <=> Held(s)) /\ (Discards(closed) <=> Discards(s))
  <2>1. ~Lost(closed)
    BY <1>4 DEF Stopped, Threw, Lost
  <2>2. QED
    BY <1>3, <2>1, ShowsLike
<1>6. CASE s.opaque > 0
  <2>1. r = opaque /\ closed.opaque > 0
    BY <1>1, <1>3, <1>4, <1>6
  <2>2. Shows(closed, r)
    BY <1>3, <2>1, OnEndOpaqueShows
  <2>3. Like(closed, r) /\ (Held(r) <=> Held(closed))
    BY <2>2, ShowsLike
  <2>4. ~Held(s)
    BY <1>6, HeldEditable
  <2>5. QED
    BY <1>5, <2>3, <2>4 DEF Finishes, Like, SameDrop, Grew, Added
<1>7. CASE s.opaque = 0
  <2>1. /\ Like(closed, popped) \/ EndsDrop(closed, popped, o, {})
        /\ popped.disposed = closed.disposed /\ popped.thrown = closed.thrown
        /\ Spans(popped, Pop(stack), "between", 0) /\ popped \in Spines
    <3>1. closed.opaque = 0 /\ closed.frames # <<>> /\ Spans(closed, stack, place, -1)
      BY <1>3, <1>4, <1>7 DEF Fits
    <3>2. Spans(popped, Pop(stack), "between", 0)
      BY <1>2, <1>3, <3>1, CloseFrameSpans
    <3>3. popped \in Spines
      BY <1>2, <1>3, <3>1, CloseFrameMoves DEF Moves
    <3>4. QED
      BY <1>2, <1>3, <3>1, <3>2, <3>3, CloseFrameEnds
  <2> HIDE DEF popped
  <2>2. Shows(popped, checked) /\ checked \in Spines
    BY <2>1, RecordShows, RecordKeeps DEF Onward, Moves
  <2> HIDE DEF checked
  <2>a. scope \in Spines /\ \E a \in Added(o) : Gains(checked, scope, {a})
    BY <1>2, <2>2, ScopeCloseGains, ScopeCloseLeaves
  <2>3. PICK a \in Added(o) : Gains(checked, scope, {a})
    BY <2>a
  <2> HIDE DEF scope
  <2>4. Gains(scope, done, {a})
    BY <2>a, SettleBudgetShows, ShowsGains
  <2>5. r = done
    BY <1>1, <1>2, <1>4, <1>7
  <2> HIDE DEF done
  <2>6. Gains(popped, r, {a})
    <3>1. Gains(popped, checked, {a})
      BY <2>2, ShowsGains
    <3>2. Gains(popped, scope, {a})
      BY <2>3, <3>1, GainsThen
    <3>3. QED
      BY <2>4, <2>5, <3>2, GainsThen
  <2>7. r.frames = popped.frames /\ SameDrop(popped, r) /\ Grew(popped, r, {a})
    BY <2>6 DEF Gains
  <2>8. ~Held(popped)
    BY <2>1, HeldIs
  <2>9. ~Held(r)
    BY <2>7, <2>8 DEF Held, Top
  <2>10. CASE Like(closed, popped)
    BY <1>5, <2>7, <2>9, <2>10 DEF Finishes, Like, SameDrop, Grew
  <2>11. CASE EndsDrop(closed, popped, o, {})
    <3>1. Discards(s) /\ ~Discards(r) /\ s.discard.start = closed.discard.start
      BY <1>5, <2>7, <2>11 DEF EndsDrop, Like, SameDrop, Discards
    <3>2. s.discard.depth = Len(s.frames)
      BY <1>5, <2>11 DEF EndsDrop, Like, SameDrop
    <3>3. Grew(s, r, {Edit(s.discard.start, o, "none")} \cup {a})
      BY <1>5, <2>7, <2>11, <3>1 DEF EndsDrop, Like, Grew
    <3>4. Edit(s.discard.start, o, "none") \in r.edits
      BY <2>7, <2>11, <3>1 DEF EndsDrop, Grew
    <3>5. QED
      BY <1>7, <2>9, <3>1, <3>2, <3>3, <3>4 DEF Finishes, EndsDrop
  <2>12. QED
    BY <2>1, <2>10, <2>11
<1>8. QED
  BY <1>2, <1>6, <1>7

LEMMA OnEndArrayFinishes ==
  ASSUME NEW s \in Spines, ~Stopped(s), s.frames # <<>> \/ s.opaque > 0, NEW u,
         s.tok.pos + 1 # Infinity, NEW stack, Context(stack) = "array", NEW place, place # "string", Spans(s, stack, place, 0),
         NEW r, r = OnEndArray(s, u), ~Lost(r)
  PROVE  Appends(s, r, s.tok.pos) /\ ~Held(r)
<1> DEFINE o == s.tok.pos
<1> DEFINE closed == NoteDropClose(s, o + 1)
<1> DEFINE opaque == OnEndOpaque(closed, u)
<1> DEFINE popped == PopFrame(closed)
<1> DEFINE checked == Record(popped, u)
<1> DEFINE done == ScopeClose(checked, OutputsElements(s), o, u)
<1>1. r = IF Threw(closed) THEN closed ELSE IF s.opaque > 0 THEN opaque ELSE done
  BY DEF OnEndArray
<1>2. o \in Nat /\ o + 1 \in Nat /\ o + 1 # Infinity /\ s.opaque \in Nat
  BY SpineType
<1>3. /\ closed \in Spines /\ Fits(closed, stack, place, -1) /\ Shows(s, closed)
      /\ ~Stopped(closed) => closed.opaque = s.opaque /\ (s.opaque = 0 => closed.frames # <<>>)
      /\ closed.disposed = s.disposed /\ closed.thrown \in {s.thrown, "fatal"}
  <2>1. closed = NoteDropClose(s, o + 1)
    OBVIOUS
  <2> HIDE DEF closed
  <2>2. /\ closed \in Spines /\ Fits(closed, stack, place, -1)
        /\ ~Stopped(closed) => closed.opaque = s.opaque /\ (s.opaque = 0 => closed.frames # <<>>)
    BY <1>2, <2>1, ClosedSpans
  <2>3. Shows(s, closed)
    BY <1>2, <2>1, NoteDropCloseShows
  <2>4. closed.disposed = s.disposed /\ closed.thrown \in {s.thrown, "fatal"}
    BY <1>2, <2>1, NoteDropCloseStops
  <2>5. QED
    BY <2>2, <2>3, <2>4
<1> HIDE DEF closed
<1>4. ~Threw(closed) /\ ~Stopped(closed)
  BY <1>1, <1>3 DEF Stopped, Threw, Lost
<1>5. Like(s, closed) /\ closed.frames = s.frames /\ (Held(closed) <=> Held(s))
  <2>1. ~Lost(closed)
    BY <1>4 DEF Stopped, Threw, Lost
  <2>2. QED
    BY <1>3, <2>1, ShowsLike
<1>6. CASE s.opaque > 0
  <2>1. r = opaque /\ closed.opaque > 0
    BY <1>1, <1>3, <1>4, <1>6
  <2>2. Shows(closed, r)
    BY <1>3, <2>1, OnEndOpaqueShows
  <2>3. Like(closed, r) /\ (Held(r) <=> Held(closed))
    BY <2>2, ShowsLike
  <2>4. ~Held(s)
    BY <1>6, HeldEditable
  <2>5. QED
    BY <1>5, <2>3, <2>4 DEF Appends, Like, SameDrop, Grew, Added
<1>7. CASE s.opaque = 0
  <2>0. closed.opaque = 0 /\ closed.frames # <<>> /\ Spans(closed, stack, place, -1)
    BY <1>3, <1>4, <1>7 DEF Fits
  <2>1. Spans(popped, Pop(stack), "between", 0)
    <3>1. CloseFrame(closed, o) = popped /\ Spans(CloseFrame(closed, o), Pop(stack), "between", 0)
      BY <1>2, <1>3, <2>0, CloseFrameSpans
    <3>2. QED
      BY <3>1
  <2>2. popped \in Spines /\ popped.discard = closed.discard /\ popped.edits = closed.edits
    BY <1>3, <2>0, PopIs, PopShows
  <2> HIDE DEF popped
  <2>3. Shows(popped, checked) /\ checked \in Spines
    BY <2>2, RecordShows, RecordKeeps DEF Onward, Moves
  <2> HIDE DEF checked
  <2>4. \E a \in Added(o) : Gains(checked, done, {a})
    BY <1>2, <2>3, ScopeCloseGains
  <2>5. r = done
    BY <1>1, <1>2, <1>4, <1>7
  <2> HIDE DEF done
  <2>6. PICK a \in Added(o) : Gains(checked, done, {a})
    BY <2>4
  <2>7. Gains(popped, r, {a})
    <3>1. Gains(popped, checked, {a})
      BY <2>3, ShowsGains
    <3>2. QED
      BY <2>5, <2>6, <3>1, GainsThen
  <2>8. r.frames = popped.frames /\ SameDrop(popped, r) /\ Grew(popped, r, {a})
    BY <2>7 DEF Gains
  <2>9. ~Held(popped)
    BY <2>1, <2>2, HeldIs
  <2>10. ~Held(r)
    BY <2>8, <2>9 DEF Held, Top
  <2>11. SameDrop(s, r) /\ Grew(s, r, {a})
    BY <1>5, <2>2, <2>8 DEF Like, SameDrop, Grew
  <2>12. QED
    BY <2>10, <2>11 DEF Appends
<1>8. QED
  BY <1>2, <1>6, <1>7

(* The pending edits lie in what was read and start apart from each other, from
   the prefix that waits and from the member that is being dropped. *)
LiesIn(e, lim) == e.start < lim /\ e.start <= e.end /\ e.end <= lim

Apart(edits) == \A e, f \in edits : e.start = f.start => e = f

Beside(s) == Held(s) => ~Discards(s) /\ \A e \in s.edits : e.end <= Top(s).prefix /\ e.start < Top(s).prefix

Aside(s, lim) == Discards(s) => s.discard.start < lim /\ \A e \in s.edits : e.start # s.discard.start

Cut(s, lim) ==
  /\ \A e \in s.edits : LiesIn(e, lim)
  /\ Apart(s.edits) /\ IsFiniteSet(s.edits)
  /\ Beside(s) /\ Aside(s, lim)

LEMMA CutWider ==
  ASSUME NEW s \in Spines, NEW lim \in Nat, Cut(s, lim), NEW more \in Nat, lim <= more
  PROVE  Cut(s, more)
<1>1. \A e \in s.edits : e.start \in Nat /\ e.end \in Nat
  BY SpineType DEF EditType
<1>2. s.discard.start \in Nat
  BY SpineType DEF DiscardType
<1>3. \A e \in s.edits : LiesIn(e, more)
  BY <1>1 DEF Cut, LiesIn
<1>4. Aside(s, more)
  BY <1>2 DEF Cut, Aside
<1>5. QED
  BY <1>3, <1>4 DEF Cut

(* Edits that are added start where none did. *)
Settles(edits, z, lim) == LiesIn(z, lim) /\ \A e \in edits : e.start # z.start \/ e = z

Joins(s, t, x, y, lim) ==
  /\ t.edits \subseteq s.edits \cup {x, y}
  /\ \A z \in {x, y} : z \in t.edits => Settles(s.edits, z, lim)
  /\ x \in t.edits /\ y \in t.edits /\ x.start = y.start => x = y

LEMMA EditsMore ==
  ASSUME NEW s \in Spines, NEW t \in Spines, NEW o \in Nat, NEW lim \in Nat, o <= lim, Cut(s, o),
         NEW x, NEW y, Joins(s, t, x, y, lim)
  PROVE  (\A e \in t.edits : LiesIn(e, lim)) /\ Apart(t.edits) /\ IsFiniteSet(t.edits)
<1>0. /\ t.edits \subseteq s.edits \cup {x, y}
      /\ \A z \in {x, y} :
           z \in t.edits => LiesIn(z, lim) /\ \A e \in s.edits : e.start # z.start \/ e = z
      /\ x \in t.edits /\ y \in t.edits /\ x.start = y.start => x = y
  BY DEF Joins, Settles
<1>1. \A e \in s.edits : LiesIn(e, lim)
  BY CutWider DEF Cut
<1>2. \A e \in t.edits : LiesIn(e, lim)
  BY <1>0, <1>1
<1>3. Apart(t.edits)
  <2>1. SUFFICES ASSUME NEW e \in t.edits, NEW f \in t.edits, e.start = f.start PROVE e = f
    BY DEF Apart
  <2>2. CASE e \in s.edits /\ f \in s.edits
    BY <2>1, <2>2 DEF Cut, Apart
  <2>3. CASE e \in {x, y} /\ f \in s.edits
    BY <1>0, <2>1, <2>3
  <2>4. CASE f \in {x, y} /\ e \in s.edits
    BY <1>0, <2>1, <2>4
  <2>5. CASE e \in {x, y} /\ f \in {x, y}
    BY <1>0, <2>1, <2>5
  <2>6. e \in s.edits \cup {x, y} /\ f \in s.edits \cup {x, y}
    BY <1>0
  <2>7. QED
    BY <2>2, <2>3, <2>4, <2>5, <2>6
<1>4. IsFiniteSet(t.edits)
  <2>1. IsFiniteSet(s.edits)
    BY DEF Cut
  <2>2. IsFiniteSet((s.edits \cup {x}) \cup {y})
    BY <2>1, FS_AddElement
  <2>3. t.edits \in SUBSET ((s.edits \cup {x}) \cup {y})
    BY <1>0
  <2>4. QED
    BY <2>2, <2>3, FS_Subset
<1>5. QED
  BY <1>2, <1>3, <1>4

(* Where the member that waits has its prefix and its key, when its value starts. *)
Waits(s) ==
  /\ Held(s)
  /\ LET p == Top(s).prefix
         ks == Top(s).keyStart
         ke == Top(s).keyEnd
     IN  /\ p <= ks /\ ks < ke /\ ke <= s.tok.pos
         /\ Top(s).comma => p < ks

LEMMA BeginsCut ==
  ASSUME NEW s \in Spines, NEW t \in Spines, NEW o \in Nat, o = s.tok.pos, Cut(s, o), NEW does,
         s.opaque = 0, Editable(s), Waits(s), Begins(s, t, does)
  PROVE  /\ (\A e \in t.edits : LiesIn(e, o)) /\ Apart(t.edits) /\ IsFiniteSet(t.edits)
         /\ Aside(t, o)
<1> DEFINE p == Top(s).prefix
<1> DEFINE ks == Top(s).keyStart
<1> DEFINE ke == Top(s).keyEnd
<1> DEFINE name == Edit(ks, ke, "R")
<1> DEFINE comma == Edit(p, p + 1, "none")
<1>1. /\ p \in Nat /\ ks \in Nat /\ ke \in Nat /\ Held(s) /\ p <= ks /\ ks < ke /\ ke <= o
      /\ Top(s).comma => p < ks
  BY StretchTypes DEF Held, Waits
<1>2. \A e \in s.edits : e.start \in Nat /\ e.start < p
  BY <1>1, SpineType DEF EditType, Cut, Beside
<1>3. name.start = ks /\ name.end = ke /\ comma.start = p /\ comma.end = p + 1
  BY DEF Edit
<1>4. Marks(p, Top(s)) = {name} \cup {e \in {comma} : Top(s).comma}
  BY DEF Marks
<1> HIDE DEF name, comma
<1>5. CASE does = "drop"
  <2>1. t.edits = s.edits /\ DropsMember(t, p, ks, Len(s.frames))
    BY <1>5 DEF Begins
  <2>2. t.discard.start = p
    BY <2>1 DEF DropsMember
  <2> HIDE DEF p, ks, ke
  <2>3. p < o /\ \A e \in s.edits : e.start # p
    BY <1>1, <1>2
  <2>4. Aside(t, o)
    BY <2>1, <2>2, <2>3 DEF Aside
  <2>5. QED
    BY <2>1, <2>4 DEF Cut
<1>6. CASE does # "drop"
  <2>1. SameDrop(s, t) /\ t.edits \subseteq s.edits \cup Marks(p, Top(s)) /\ ~Discards(s)
    BY <1>6 DEF Begins, Grew, Editable
  <2>2. ~Discards(t)
    BY <2>1 DEF SameDrop, Discards
  <2>3. comma \in t.edits => Top(s).comma \/ comma = name \/ comma \in s.edits
    BY <1>4, <2>1
  <2>4. t.edits \subseteq s.edits \cup {name, comma}
    BY <1>4, <2>1
  <2>5. comma \notin s.edits /\ comma # name
    <3>1. comma.start = p /\ name.end = ke /\ name.start = ks /\ comma.end = p + 1
      BY <1>3
    <3>2. comma \notin s.edits
      BY <1>1, <1>2, <3>1
    <3>3. comma = name => p = ks /\ p + 1 = ke
      BY <3>1
    <3>4. comma.bytes = "none" /\ name.bytes = "R"
      BY DEF comma, name, Edit
    <3>5. QED
      BY <3>2, <3>4
  <2> HIDE DEF p, ks, ke
  <2>6. LiesIn(name, o) /\ (Top(s).comma => LiesIn(comma, o) /\ p # ks)
    BY <1>1, <1>3 DEF LiesIn
  <2>7. \A e \in s.edits : e.start # name.start /\ e.start # comma.start
    BY <1>1, <1>2, <1>3
  <2>8. name \in t.edits /\ comma \in t.edits /\ name.start = comma.start => name = comma
    BY <1>3, <2>3, <2>5, <2>6
  <2>9. \A z \in {name, comma} : z \in t.edits => Settles(s.edits, z, o)
    BY <2>3, <2>5, <2>6, <2>7 DEF Settles
  <2>a. Joins(s, t, name, comma, o)
    BY <2>4, <2>8, <2>9 DEF Joins
  <2>10. o <= o
    OBVIOUS
  <2>11. (\A e \in t.edits : LiesIn(e, o)) /\ Apart(t.edits) /\ IsFiniteSet(t.edits)
    BY <2>10, <2>a, EditsMore
  <2>12. QED
    BY <2>2, <2>11 DEF Aside
<1>7. QED
  BY <1>5, <1>6

(* A member that is dropped ends, and a hook appends one at o, at most. *)
LEMMA EndsCut ==
  ASSUME NEW s \in Spines, NEW t \in Spines, NEW o \in Nat, Cut(s, o), NEW a \in Added(o),
         NEW more \in SUBSET {a},
         \/ SameDrop(s, t) /\ Grew(s, t, more)
         \/ EndsDrop(s, t, o, more)
  PROVE  /\ (\A e \in t.edits : LiesIn(e, o + 1)) /\ Apart(t.edits) /\ IsFiniteSet(t.edits)
         /\ Aside(t, o + 1)
         /\ \A e \in t.edits : e.end <= o /\ e.start <= o /\ (more = {} => e.start < o)
<1> DEFINE at == s.discard.start
<1> DEFINE gone == Edit(at, o, "none")
<1>1. a.start = o /\ a.end = o /\ at \in Nat /\ o <= o + 1 /\ o + 1 \in Nat
  <2>1. a = Edit(o, o, "A") \/ a = Edit(o, o, ",A")
    BY DEF Added
  <2>a. \A x : Edit(o, o, x).start = o /\ Edit(o, o, x).end = o
    BY DEF Edit
  <2>2. a.start = o /\ a.end = o
    BY <2>1, <2>a
  <2>3. at \in Nat
    BY SpineType DEF DiscardType
  <2>4. QED
    BY <2>2, <2>3
<1>2. \A e \in s.edits : e.start \in Nat /\ e.end \in Nat /\ e.start < o /\ e.end <= o
  BY SpineType DEF EditType, Cut, LiesIn
<1>3. gone.start = at /\ gone.end = o
  BY DEF Edit
<1>4. LiesIn(a, o + 1) /\ \A e \in s.edits : e.start # a.start
  BY <1>1, <1>2 DEF LiesIn
<1> HIDE DEF gone
<1>5. CASE SameDrop(s, t) /\ Grew(s, t, more)
  <2>1. t.edits \subseteq s.edits \cup {a, a} /\ t.discard.start = at /\ t.edits \subseteq s.edits \cup more
    BY <1>5 DEF Grew, SameDrop
  <2>2. Joins(s, t, a, a, o + 1)
    BY <1>4, <2>1 DEF Joins, Settles
  <2>3. (\A e \in t.edits : LiesIn(e, o + 1)) /\ Apart(t.edits) /\ IsFiniteSet(t.edits)
    BY <1>1, <2>2, EditsMore
  <2>4. Aside(t, o + 1)
    <3>1. SUFFICES ASSUME Discards(t) PROVE at < o + 1 /\ \A e \in t.edits : e.start # at
      BY <2>1 DEF Aside
    <3>2. Discards(s)
      BY <2>1, <3>1 DEF Discards
    <3>3. at < o /\ \A e \in s.edits : e.start # at
      BY <3>2 DEF Cut, Aside
    <3> HIDE DEF at
    <3>4. a.start # at /\ at < o + 1
      BY <1>1, <3>3
    <3>5. QED
      BY <2>1, <3>3, <3>4
  <2>5. \A e \in t.edits : e.end <= o /\ e.start <= o /\ (more = {} => e.start < o)
    BY <1>1, <1>2, <2>1
  <2>6. QED
    BY <2>3, <2>4, <2>5
<1>6. CASE EndsDrop(s, t, o, more)
  <2>1. Discards(s) /\ ~Discards(t) /\ t.edits \subseteq s.edits \cup {gone, a}
        /\ t.edits \subseteq s.edits \cup ({gone} \cup more)
    BY <1>6 DEF EndsDrop, Grew, gone
  <2>2. at < o /\ \A e \in s.edits : e.start # at
    BY <2>1 DEF Cut, Aside
  <2> HIDE DEF at
  <2>3. LiesIn(gone, o + 1) /\ gone.start # a.start
    BY <1>1, <1>3, <2>2 DEF LiesIn
  <2>4. \A z \in {gone, a} : z \in t.edits => Settles(s.edits, z, o + 1)
    BY <1>3, <1>4, <2>2, <2>3 DEF Settles
  <2>a. Joins(s, t, gone, a, o + 1)
    BY <2>1, <2>3, <2>4 DEF Joins
  <2>5. (\A e \in t.edits : LiesIn(e, o + 1)) /\ Apart(t.edits) /\ IsFiniteSet(t.edits)
    BY <1>1, <2>a, EditsMore
  <2>6. \A e \in t.edits : e.end <= o /\ e.start <= o /\ (more = {} => e.start < o)
    BY <1>1, <1>2, <1>3, <2>1, <2>2
  <2>7. QED
    BY <2>1, <2>5, <2>6 DEF Aside
<1>7. QED
  BY <1>5, <1>6

LEMMA LikeCut ==
  ASSUME NEW s \in Spines, NEW t \in Spines, NEW o \in Nat, Cut(s, o), Like(s, t)
  PROVE  /\ (\A e \in t.edits : LiesIn(e, o)) /\ Apart(t.edits) /\ IsFiniteSet(t.edits)
         /\ Aside(t, o)
  BY DEF Cut, Like, SameDrop, Aside, Discards

(* Fewer edits, of which none is needed behind from. *)
LEMMA FewerCut ==
  ASSUME NEW s, NEW t, NEW lim, Cut(s, lim), t.frames = s.frames, t.discard = s.discard,
         t.edits \in SUBSET s.edits
  PROVE  Cut(t, lim)
<1>1. IsFiniteSet(t.edits) /\ Apart(t.edits)
  BY FS_Subset DEF Cut, Apart
<1>2. QED
  BY <1>1 DEF Cut, Beside, Aside, Held, Top, Discards
=============================================================================
