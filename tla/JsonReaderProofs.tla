-------------------------- MODULE JsonReaderProofs --------------------------
(***************************************************************************)
(* The tokenizer's state, and where in the text its events lie, for every  *)
(* alphabet, every cap and every text.                                     *)
(***************************************************************************)
EXTENDS JsonReader, MemberEditsProofs

Inv ==
  /\ text \in Seq(Byte)
  /\ Sound(tok)
  /\ tok.pos <= Len(text)

LEMMA Initial == Init => Inv
<1>1. SUFFICES ASSUME Init PROVE Inv
  OBVIOUS
<1>2. <<>> \in Seq(Byte) /\ <<>> \in Seq(Contexts) /\ "value" \in States
  BY DEF States
<1>3. TokenizerInit \in Tokenizers
  BY <1>2 DEF TokenizerInit, Tokenizers
<1>4. Matches(TokenizerInit) /\ Bounded(TokenizerInit)
  BY DEF TokenizerInit, Matches, Bounded, ObjectState, ArrayState
<1>5. TokenizerInit.pos = 0
  BY DEF TokenizerInit
<1>6. QED
  BY <1>1, <1>2, <1>3, <1>4, <1>5 DEF Init, Inv, Sound

LEMMA Inductive == Inv /\ [Next]_vars => Inv'
<1>1. SUFFICES ASSUME Inv, [Next]_vars PROVE Inv'
  OBVIOUS
<1>2. tok.pos \in Nat /\ Len(text) \in Nat /\ tok \in Tokenizers
  BY <1>1 DEF Inv, Sound, Tokenizers
<1>3. CASE Turn
  <2> DEFINE b == text[tok.pos + 1]
  <2>1. b \in Byte
    BY <1>1, <1>2, <1>3 DEF Turn, Inv
  <2>2. CASE tok' = tok
    BY <1>1, <1>3, <2>2 DEF Turn, Inv
  <2>3. CASE tok' = Scan(tok, b).t
    <3>1. Sound(Scan(tok, b).t)
      BY <1>1, <2>1, ScanSound DEF Inv
    <3>2. Scan(tok, b).t.pos \in {tok.pos, tok.pos + 1}
      BY <1>2, ScanAdvances
    <3> HIDE DEF b
    <3>3. tok.pos < Len(text) /\ text' = text
      BY <1>3 DEF Turn
    <3>4. tok'.pos <= Len(text)
      BY <1>2, <2>3, <3>2, <3>3
    <3>5. QED
      BY <1>1, <2>3, <3>1, <3>3, <3>4 DEF Inv
  <2>4. QED
    BY <1>3, <2>2, <2>3 DEF Turn
<1>4. ASSUME NEW b \in Byte, Feed(b)
      PROVE  Inv'
  BY <1>1, <1>2, <1>4 DEF Feed, Inv
<1>5. CASE UNCHANGED vars
  BY <1>1, <1>5 DEF vars, Inv
<1>6. QED
  BY <1>1, <1>3, <1>4, <1>5 DEF Next

(* For every alphabet, caps and text, the tokenizer is Sound at every position. *)
THEOREM Soundness == Spec => []Inv
  BY Initial, Inductive, PTL DEF Spec

(* For every alphabet, caps and text, the parser's state and its stack of
   open containers never disagree. *)
THEOREM StateAndStack == Spec => []StateMatchesStack
<1>1. Inv => StateMatchesStack
  BY DEF Inv, Sound, Matches, ObjectState, ArrayState, StateMatchesStack
<1>2. QED
  BY <1>1, Soundness, PTL

(* For every alphabet, caps and text, a key or a number being read holds no
   more bytes than its cap: maxKeyBytes and maxNumberBytes bound the memory
   of a token from its first byte to its last. *)
THEOREM TokenMemory == Spec => []TokensBounded
<1>1. Inv => TokensBounded
  BY DEF Inv, Sound, Bounded, TokensBounded
<1>2. QED
  BY <1>1, Soundness, PTL

-----------------------------------------------------------------------------
(* Where the events stand in the text.  A token being read is the text from
   where it started to where the tokenizer stands; a key and a number are
   compared byte by byte, since the text only ever grows. *)
Copies(buf, start) == \A i \in 1..Len(buf) : buf[i] = text[start + 1 + i]
Digits(from, until) == \A j \in from + 1..until : text[j] \in NumberByte

Reads(t) ==
  /\ t.state = "string" => t.start < t.pos /\ text[t.start + 1] = "Q" /\ (t.isKey => Copies(t.buf, t.start))
  /\ t.state = "number" => t.start <= t.pos /\ Digits(t.start, t.pos)

(* An event of the text, at the offset it was reported at. *)
Located(e, at) ==
  /\ e.start \in Nat /\ at \in Nat /\ at <= Len(text)
  /\ e.type \in {"key", "stringEnd"} => /\ e.start < at /\ at < Len(text)
                                        /\ text[e.start + 1] = "Q" /\ text[at + 1] = "Q"
  /\ e.type = "key" => e.key \in Seq(Byte) /\ e.start + Len(e.key) + 1 = at /\ Copies(e.key, e.start)
  /\ e.type = "number" => Digits(e.start, at)

Spelled == {"key", "stringEnd", "number"}
Tokens == {"string", "number"}

LEMMA ElsewhereLocated ==
  ASSUME NEW at \in Nat, at <= Len(text), NEW e, e.start \in Nat, e.type \notin Spelled
  PROVE  Located(e, at)
  BY DEF Located, Spelled

LEMMA FinishNumberLocated ==
  ASSUME text \in Seq(Byte), NEW t, Sound(t), t.pos <= Len(text), Reads(t), t.state = "number",
         FinishNumber(t).event.type # "error"
  PROVE  Reads(FinishNumber(t).t) /\ Located(FinishNumber(t).event, t.pos)
<1> DEFINE u == [t EXCEPT !.state = AfterValue(t.stack), !.buf = <<>>]
<1>1. t \in Tokenizers /\ t.pos \in Nat /\ t.start \in Nat /\ t.stack \in Seq(Contexts)
  BY DEF Sound, Tokenizers
<1>2. FinishNumber(t) = Result(EventOf("number", <<>>, t.start), u)
  BY DEF FinishNumber, Bad, Result, EventOf
<1>3. u.state \notin Tokens
  BY <1>1, AfterValueSound DEF Tokenizers, Tokens
<1> HIDE DEF u
<1>4. Digits(t.start, t.pos)
  BY DEF Reads
<1>5. QED
  BY <1>1, <1>2, <1>3, <1>4 DEF Result, EventOf, Reads, Located, Tokens

LEMMA InNumberLocated ==
  ASSUME text \in Seq(Byte), NEW t, Sound(t), t.pos < Len(text), Reads(t), t.state = "number",
         NEW b, b = text[t.pos + 1], InNumber(t, b).event.type # "error"
  PROVE  Reads(InNumber(t, b).t) /\ Located(InNumber(t, b).event, t.pos)
<1>1. t \in Tokenizers /\ t.pos \in Nat /\ t.start \in Nat /\ Len(text) \in Nat
  BY DEF Sound, Tokenizers
<1>2. CASE b \notin NumberByte
  BY <1>1, <1>2, FinishNumberLocated DEF InNumber
<1>3. CASE b \in NumberByte
  <2> DEFINE s == Skip(t, "number")
  <2> DEFINE u == [s EXCEPT !.buf = Append(s.buf, b)]
  <2>1. InNumber(t, b) = Result(NoEvent, u)
    BY <1>3 DEF InNumber, Bad, Result, EventOf
  <2>2. s \in Tokenizers /\ s.state = "number" /\ s.pos = t.pos + 1 /\ s.start = t.start
    BY <1>1, SkipSound DEF States
  <2> HIDE DEF s
  <2>3. u.state = "number" /\ u.pos = t.pos + 1 /\ u.start = t.start
    BY <2>2 DEF Tokenizers
  <2> HIDE DEF u
  <2>4. t.start <= t.pos /\ Digits(t.start, t.pos)
    BY DEF Reads
  <2>5. Digits(t.start, t.pos + 1)
    BY <1>1, <1>3, <2>4 DEF Digits
  <2>6. Reads(u)
    BY <1>1, <2>3, <2>4, <2>5 DEF Reads
  <2>7. Located(NoEvent, t.pos)
    BY <1>1, ElsewhereLocated DEF NoEvent, Spelled
  <2>8. QED
    BY <2>1, <2>6, <2>7 DEF Result
<1>4. QED
  BY <1>2, <1>3

LEMMA InStringLocated ==
  ASSUME text \in Seq(Byte), NEW t, Sound(t), t.pos < Len(text), Reads(t), t.state = "string",
         NEW b, b = text[t.pos + 1], InString(t, b).event.type # "error"
  PROVE  Reads(InString(t, b).t) /\ Located(InString(t, b).event, t.pos)
<1>1. /\ t \in Tokenizers /\ t.pos \in Nat /\ t.start \in Nat /\ Len(text) \in Nat
      /\ t.buf \in Seq(Byte) /\ t.stack \in Seq(Contexts) /\ Len(t.buf) \in Nat
  BY DEF Sound, Tokenizers
<1>2. /\ t.start < t.pos /\ text[t.start + 1] = "Q"
      /\ t.isKey => Copies(t.buf, t.start) /\ t.start + Len(t.buf) + 1 = t.pos
  BY DEF Reads, Sound, Bounded
<1>3. b \in Byte
  BY <1>1
<1>4. CASE b # "Q"
  <2> DEFINE s == Skip(t, "string")
  <2> DEFINE u == [s EXCEPT !.buf = IF t.isKey THEN Append(s.buf, b) ELSE s.buf]
  <2>1. InString(t, b) = Result(EventOf(IF t.isKey THEN "none" ELSE "text", <<>>, t.pos), u)
    BY <1>4 DEF InString, Bad, Result, EventOf
  <2>2. /\ s \in Tokenizers /\ s.state = "string" /\ s.pos = t.pos + 1 /\ s.start = t.start
        /\ s.isKey = t.isKey /\ s.buf = t.buf
    BY <1>1, SkipSound DEF States
  <2> HIDE DEF s
  <2>3. /\ u.state = "string" /\ u.pos = t.pos + 1 /\ u.start = t.start /\ u.isKey = t.isKey
        /\ t.isKey => u.buf = Append(t.buf, b)
    BY <2>2 DEF Tokenizers
  <2> HIDE DEF u
  <2>4. t.isKey => Copies(Append(t.buf, b), t.start)
    <3> SUFFICES ASSUME t.isKey, NEW i \in 1..Len(Append(t.buf, b))
                 PROVE  Append(t.buf, b)[i] = text[t.start + 1 + i]
      BY DEF Copies
    <3>1. /\ i \in 1..Len(t.buf) => Append(t.buf, b)[i] = t.buf[i]
          /\ i \notin 1..Len(t.buf) => i = Len(t.buf) + 1 /\ Append(t.buf, b)[i] = b
      BY <1>1, <1>3
    <3>2. t.start + 1 + (Len(t.buf) + 1) = t.pos + 1
      BY <1>1, <1>2
    <3>3. QED
      BY <1>2, <3>1, <3>2 DEF Copies
  <2>5. Reads(u)
    <3>1. t.start < t.pos + 1
      BY <1>1, <1>2
    <3>2. u.isKey => Copies(u.buf, u.start)
      BY <2>3, <2>4
    <3>3. QED
      BY <1>2, <2>3, <3>1, <3>2 DEF Reads
  <2>6. Located(EventOf(IF t.isKey THEN "none" ELSE "text", <<>>, t.pos), t.pos)
    BY <1>1, ElsewhereLocated DEF EventOf, Spelled
  <2>7. QED
    BY <2>1, <2>5, <2>6 DEF Result
<1>5. CASE b = "Q" /\ t.isKey
  <2>1. InString(t, b) = Result(EventOf("key", t.buf, t.start), Skip(t, "colon"))
    BY <1>5 DEF InString, Bad, Result, EventOf
  <2>2. Skip(t, "colon").state = "colon"
    BY <1>1, SkipSound DEF States
  <2>3. Located(EventOf("key", t.buf, t.start), t.pos)
    BY <1>1, <1>2, <1>5 DEF Located, EventOf
  <2>4. QED
    BY <2>1, <2>2, <2>3 DEF Result, Reads
<1>6. CASE b = "Q" /\ ~t.isKey
  <2>1. InString(t, b) = Result(EventOf("stringEnd", <<>>, t.start), Skip(t, AfterValue(t.stack)))
    BY <1>6 DEF InString, Bad, Result, EventOf
  <2>2. AfterValue(t.stack) \in States \ Tokens
    BY <1>1, AfterValueSound DEF States, Tokens
  <2>3. Skip(t, AfterValue(t.stack)).state \notin Tokens
    BY <1>1, <2>2, SkipSound
  <2>4. Located(EventOf("stringEnd", <<>>, t.start), t.pos)
    BY <1>1, <1>2, <1>6 DEF Located, EventOf
  <2>5. QED
    BY <2>1, <2>3, <2>4 DEF Result, Reads, Tokens
<1>7. QED
  BY <1>4, <1>5, <1>6

(* A quote or the first byte of a number starts a token where it stands. *)
LEMMA BeginStringLocated ==
  ASSUME text \in Seq(Byte), NEW t, Sound(t), t.pos < Len(text), text[t.pos + 1] = "Q",
         NEW isKey \in BOOLEAN, BeginString(t, isKey).event.type # "error"
  PROVE  Reads(BeginString(t, isKey).t) /\ Located(BeginString(t, isKey).event, t.pos)
<1> DEFINE s == Skip(t, "string")
<1> DEFINE u == [s EXCEPT !.isKey = isKey, !.start = t.pos, !.buf = <<>>]
<1>1. t \in Tokenizers /\ t.pos \in Nat /\ Len(text) \in Nat
  BY DEF Sound, Tokenizers
<1>2. BeginString(t, isKey) = Result(EventOf(IF isKey THEN "none" ELSE "stringStart", <<>>, t.pos), u)
  BY DEF BeginString, Bad, Result, EventOf
<1>3. s \in Tokenizers /\ s.state = "string" /\ s.pos = t.pos + 1
  BY <1>1, SkipSound DEF States
<1> HIDE DEF s
<1>4. u.state = "string" /\ u.pos = t.pos + 1 /\ u.start = t.pos /\ u.buf = <<>>
  BY <1>3 DEF Tokenizers
<1> HIDE DEF u
<1>5. Copies(<<>>, t.pos)
  BY DEF Copies
<1>6. Reads(u)
  BY <1>1, <1>4, <1>5 DEF Reads
<1>7. Located(EventOf(IF isKey THEN "none" ELSE "stringStart", <<>>, t.pos), t.pos)
  BY <1>1, ElsewhereLocated DEF EventOf, Spelled
<1>8. QED
  BY <1>2, <1>6, <1>7 DEF Result

LEMMA CloseLocated ==
  ASSUME NEW t, Sound(t), t.pos < Len(text), Len(text) \in Nat, Context(t.stack) # "none",
         NEW type, type \notin Spelled
  PROVE  Reads(Close(t, type).t) /\ Located(Close(t, type).event, t.pos)
<1> DEFINE stack == Pop(t.stack)
<1> DEFINE s == Skip(t, AfterValue(stack))
<1> DEFINE u == [s EXCEPT !.stack = stack]
<1>1. t \in Tokenizers /\ t.pos \in Nat /\ stack \in Seq(Contexts)
  BY PopType DEF Sound, Tokenizers
<1>2. Close(t, type) = Result(EventOf(type, <<>>, t.pos), u)
  BY DEF Close
<1>3. AfterValue(stack) \in States \ Tokens
  BY <1>1, AfterValueSound DEF States, Tokens
<1> HIDE DEF stack
<1>4. s \in Tokenizers /\ s.state \notin Tokens
  BY <1>1, <1>3, SkipSound
<1> HIDE DEF s
<1>5. u.state \notin Tokens
  BY <1>4 DEF Tokenizers
<1> HIDE DEF u
<1>6. Located(EventOf(type, <<>>, t.pos), t.pos)
  BY <1>1, ElsewhereLocated DEF EventOf
<1>7. QED
  BY <1>2, <1>5, <1>6 DEF Result, Reads, Tokens

LEMMA QuietLocated ==
  ASSUME NEW t, Sound(t), t.pos < Len(text), Len(text) \in Nat, NEW state \in States \ Tokens,
         NEW event, event.start \in Nat, event.type \notin Spelled
  PROVE  /\ Reads(Result(event, Skip(t, state)).t)
         /\ Located(Result(event, Skip(t, state)).event, t.pos)
<1>1. t \in Tokenizers /\ t.pos \in Nat
  BY DEF Sound, Tokenizers
<1>2. Skip(t, state).state \notin Tokens
  BY <1>1, SkipSound
<1>3. Located(event, t.pos)
  BY <1>1, ElsewhereLocated
<1>4. QED
  BY <1>2, <1>3 DEF Result, Reads, Tokens

LEMMA OpenLocated ==
  ASSUME NEW t, Sound(t), t.pos < Len(text), Len(text) \in Nat, NEW type, type \notin Spelled,
         NEW context, NEW state \in States \ Tokens
  PROVE  Reads(Open(t, type, context, state).t) /\ Located(Open(t, type, context, state).event, t.pos)
<1> DEFINE s == Skip(t, state)
<1> DEFINE u == [s EXCEPT !.stack = Append(@, context)]
<1>1. t \in Tokenizers /\ t.pos \in Nat
  BY DEF Sound, Tokenizers
<1>2. Open(t, type, context, state) = Result(EventOf(type, <<>>, t.pos), u)
  BY DEF Open
<1>3. s \in Tokenizers /\ s.state \notin Tokens
  BY <1>1, SkipSound
<1> HIDE DEF s
<1>4. u.state \notin Tokens
  BY <1>3 DEF Tokenizers
<1> HIDE DEF u
<1>5. Located(EventOf(type, <<>>, t.pos), t.pos)
  BY <1>1, ElsewhereLocated DEF EventOf
<1>6. QED
  BY <1>2, <1>4, <1>5 DEF Result, Reads, Tokens

LEMMA BeginValueLocated ==
  ASSUME text \in Seq(Byte), NEW t, Sound(t), t.pos < Len(text), NEW b, b = text[t.pos + 1],
         BeginValue(t, b).event.type # "error"
  PROVE  Reads(BeginValue(t, b).t) /\ Located(BeginValue(t, b).event, t.pos)
<1>1. /\ t \in Tokenizers /\ t.pos \in Nat /\ Len(text) \in Nat /\ t.stack \in Seq(Contexts)
  BY DEF Sound, Tokenizers
<1>2. CASE b = "{"
  <2>1. BeginValue(t, b) = Open(t, "startObject", "object", "keyOrEndObject")
    BY <1>2 DEF BeginValue, NumberByte
  <2>2. QED
    BY <1>1, <2>1, OpenLocated DEF States, Tokens, Spelled
<1>3. CASE b = "["
  <2>1. BeginValue(t, b) = Open(t, "startArray", "array", "valueOrEndArray")
    BY <1>3 DEF BeginValue, NumberByte
  <2>2. QED
    BY <1>1, <2>1, OpenLocated DEF States, Tokens, Spelled
<1>4. CASE b = "Q"
  <2>1. BeginValue(t, b) = BeginString(t, FALSE)
    BY <1>4 DEF BeginValue, NumberByte
  <2>2. QED
    BY <1>4, <2>1, BeginStringLocated
<1>5. CASE b = "t"
  <2>1. BeginValue(t, b) = Result(EventOf("literal", <<>>, t.pos), Skip(t, AfterValue(t.stack)))
    BY <1>5 DEF BeginValue, NumberByte
  <2>2. AfterValue(t.stack) \in States \ Tokens
    BY <1>1, AfterValueSound DEF States, Tokens
  <2>3. /\ EventOf("literal", <<>>, t.pos).start \in Nat
        /\ EventOf("literal", <<>>, t.pos).type \notin Spelled
    BY <1>1 DEF EventOf, Spelled
  <2>4. QED
    BY <1>1, <2>1, <2>2, <2>3, QuietLocated
<1>6. CASE b \in NumberByte
  <2> DEFINE u == [t EXCEPT !.state = "number", !.start = t.pos, !.buf = <<>>]
  <2>1. BeginValue(t, b) = Result(NoEvent, u)
    BY <1>6 DEF BeginValue, NumberByte
  <2>2. u.state = "number" /\ u.start = t.pos /\ u.pos = t.pos
    BY <1>1 DEF Tokenizers
  <2> HIDE DEF u
  <2>3. Digits(t.pos, t.pos)
    BY <1>1 DEF Digits
  <2>4. Located(NoEvent, t.pos)
    BY <1>1, ElsewhereLocated DEF NoEvent, Spelled
  <2>5. QED
    BY <1>1, <2>1, <2>2, <2>3, <2>4 DEF Result, Reads
<1>7. CASE b \notin {"{", "[", "Q", "t"} \cup NumberByte
  BY <1>7 DEF BeginValue, Bad, Result, EventOf
<1>8. QED
  BY <1>2, <1>3, <1>4, <1>5, <1>6, <1>7

(* One turn: the token being read is still the text's, and what it reports is
   where it says. *)
LEMMA ScanLocated ==
  ASSUME text \in Seq(Byte), NEW t, Sound(t), t.pos < Len(text), Reads(t),
         NEW b, b = text[t.pos + 1], Scan(t, b).event.type # "error"
  PROVE  Reads(Scan(t, b).t) /\ Located(Scan(t, b).event, t.pos)
<1>1. /\ t \in Tokenizers /\ t.pos \in Nat /\ Len(text) \in Nat /\ t.state \in States
      /\ Matches(t)
  BY DEF Sound, Tokenizers
<1>2. ASSUME NEW state \in States \ Tokens, NEW event, event.start \in Nat, event.type \notin Spelled,
             Scan(t, b) = Result(event, Skip(t, state))
      PROVE  Reads(Scan(t, b).t) /\ Located(Scan(t, b).event, t.pos)
  BY <1>1, <1>2, QuietLocated
<1>3. NoEvent.start \in Nat /\ NoEvent.type \notin Spelled
  BY DEF NoEvent, Spelled
<1>4. CASE t.state = "string"
  BY <1>4, InStringLocated DEF Scan
<1>5. CASE t.state = "number"
  BY <1>5, InNumberLocated DEF Scan
<1>6. CASE t.state \notin Tokens /\ b = "w"
  <2>1. Scan(t, b) = Result(NoEvent, Skip(t, t.state))
    BY <1>6 DEF Scan, Tokens
  <2>2. QED
    BY <1>1, <1>2, <1>3, <1>6, <2>1
<1>7. CASE t.state = "value" /\ b # "w"
  BY <1>7, BeginValueLocated DEF Scan
<1>8. CASE t.state = "valueOrEndArray" /\ b # "w" /\ b # "]"
  BY <1>8, BeginValueLocated DEF Scan
<1>9. CASE \/ t.state \in {"valueOrEndArray", "commaOrEndArray"} /\ b = "]"
           \/ t.state \in {"keyOrEndObject", "commaOrEndObject"} /\ b = "}"
  <2>1. Context(t.stack) # "none"
    BY <1>1, <1>9 DEF Matches, ObjectState, ArrayState
  <2>2. Scan(t, b) \in {Close(t, "endArray"), Close(t, "endObject")}
    BY <1>9 DEF Scan
  <2>3. "endArray" \notin Spelled /\ "endObject" \notin Spelled
    BY DEF Spelled
  <2>4. QED
    BY <1>1, <2>1, <2>2, <2>3, CloseLocated
<1>10. CASE t.state \in {"key", "keyOrEndObject"} /\ b = "Q"
  BY <1>10, BeginStringLocated DEF Scan
<1>11. CASE \/ t.state = "colon" /\ b = ":"
            \/ t.state = "commaOrEndArray" /\ b = ","
  <2>1. Scan(t, b) = Result(NoEvent, Skip(t, "value"))
    BY <1>11 DEF Scan
  <2>2. QED
    BY <1>2, <1>3, <2>1 DEF States, Tokens
<1>12. CASE t.state = "commaOrEndObject" /\ b = ","
  <2> DEFINE event == EventOf("memberComma", <<>>, t.pos)
  <2>1. Scan(t, b) = Result(event, Skip(t, "key"))
    BY <1>12 DEF Scan
  <2>2. event.start \in Nat /\ event.type \notin Spelled
    BY <1>1 DEF EventOf, Spelled
  <2> HIDE DEF event
  <2>3. QED
    BY <1>2, <2>1, <2>2 DEF States, Tokens
<1>13. CASE /\ t.state \notin Tokens \cup {"value", "valueOrEndArray"} /\ b # "w"
            /\ t.state = "colon" => b # ":"
            /\ t.state = "commaOrEndArray" => b \notin {",", "]"}
            /\ t.state = "commaOrEndObject" => b \notin {",", "}"}
            /\ t.state \in {"key", "keyOrEndObject"} => b # "Q"
            /\ t.state = "keyOrEndObject" => b # "}"
  BY <1>13 DEF Scan, Tokens, Bad, Result, EventOf
<1>14. QED
  BY <1>4, <1>5, <1>6, <1>7, <1>8, <1>9, <1>10, <1>11, <1>12, <1>13 DEF Tokens

(* What was reported so far, in order. *)
Traced ==
  /\ Reads(tok)
  /\ Len(events) \in Nat /\ DOMAIN events = 1..Len(events)
  /\ \A i \in DOMAIN events :
       /\ Located(events[i].event, events[i].at) /\ events[i].at <= tok.pos
       /\ i > 1 => events[i - 1].at <= events[i].at

(* The text only grows, so what was located stays where it was. *)
LEMMA FeedKeeps ==
  ASSUME Inv, Traced, NEW b \in Byte, Feed(b)
  PROVE  Traced'
<1>1. /\ text \in Seq(Byte) /\ Len(text) \in Nat /\ text' = Append(text, b) /\ tok' = tok /\ events' = events
  BY DEF Inv, Feed
<1>2. /\ Len(text') = Len(text) + 1
      /\ \A i \in 1..Len(text) : text'[i] = text[i]
  BY <1>1
<1>3. tok \in Tokenizers /\ tok.pos \in Nat /\ tok.start \in Nat /\ tok.buf \in Seq(Byte) /\ tok.pos <= Len(text)
  BY DEF Inv, Sound, Tokenizers
<1>4. \A start, until \in Nat : until <= Len(text) =>
        (Digits(start, until) => \A j \in start + 1..until : text'[j] \in NumberByte)
  BY <1>1, <1>2 DEF Digits
<1>5. \A start \in Nat, buf \in Seq(Byte) : start + Len(buf) + 1 <= Len(text) =>
        (Copies(buf, start) => \A i \in 1..Len(buf) : buf[i] = text'[start + 1 + i])
  <2> SUFFICES ASSUME NEW start \in Nat, NEW buf \in Seq(Byte), start + Len(buf) + 1 <= Len(text),
                      Copies(buf, start), NEW i \in 1..Len(buf)
               PROVE  buf[i] = text'[start + 1 + i]
    OBVIOUS
  <2>1. Len(buf) \in Nat
    OBVIOUS
  <2>2. start + 1 + i \in 1..Len(text)
    BY <1>1, <2>1
  <2>3. QED
    BY <1>2, <2>2 DEF Copies
<1>6. Reads(tok)'
  <2>1. tok.state = "string" => tok.start + 1 \in 1..Len(text)
    BY <1>1, <1>3 DEF Traced, Reads
  <2>2. tok.state = "string" /\ tok.isKey => tok.start + Len(tok.buf) + 1 <= Len(text)
    BY <1>3 DEF Inv, Sound, Bounded
  <2>3. Reads(tok)
    BY DEF Traced
  <2>4. ASSUME tok.state = "string"
        PROVE  /\ tok.start < tok.pos /\ text'[tok.start + 1] = "Q"
               /\ tok.isKey => \A i \in 1..Len(tok.buf) : tok.buf[i] = text'[tok.start + 1 + i]
    <3>1. tok.start < tok.pos /\ text[tok.start + 1] = "Q" /\ (tok.isKey => Copies(tok.buf, tok.start))
      BY <2>3, <2>4 DEF Reads
    <3>2. text'[tok.start + 1] = "Q"
      BY <1>2, <2>1, <2>4, <3>1
    <3>3. tok.isKey => \A i \in 1..Len(tok.buf) : tok.buf[i] = text'[tok.start + 1 + i]
      BY <1>3, <1>5, <2>2, <2>4, <3>1
    <3>4. QED
      BY <3>1, <3>2, <3>3
  <2>5. ASSUME tok.state = "number"
        PROVE  tok.start <= tok.pos /\ \A j \in tok.start + 1..tok.pos : text'[j] \in NumberByte
    <3>1. tok.start <= tok.pos /\ Digits(tok.start, tok.pos)
      BY <2>3, <2>5 DEF Reads
    <3>2. QED
      BY <1>3, <1>4, <3>1
  <2>6. QED
    BY <1>1, <2>4, <2>5 DEF Reads, Copies, Digits
<1>7. ASSUME NEW e, NEW at, Located(e, at) PROVE Located(e, at)'
  <2>1. e.start \in Nat /\ at \in Nat /\ at <= Len(text) /\ at <= Len(text')
    BY <1>1, <1>2, <1>7 DEF Located
  <2>2. e.type \in {"key", "stringEnd"} => e.start + 1 \in 1..Len(text) /\ at + 1 \in 1..Len(text)
    BY <1>1, <1>7, <2>1 DEF Located
  <2>3. e.type \in {"key", "stringEnd"} => /\ e.start < at /\ at < Len(text')
                                           /\ text'[e.start + 1] = "Q" /\ text'[at + 1] = "Q"
    BY <1>1, <1>2, <1>7, <2>1, <2>2 DEF Located
  <2>4. e.type = "key" => /\ e.key \in Seq(Byte) /\ e.start + Len(e.key) + 1 = at
                          /\ \A i \in 1..Len(e.key) : e.key[i] = text'[e.start + 1 + i]
    BY <1>5, <1>7, <2>1 DEF Located
  <2>5. e.type = "number" => \A j \in e.start + 1..at : text'[j] \in NumberByte
    BY <1>4, <1>7, <2>1 DEF Located
  <2>6. QED
    BY <2>1, <2>3, <2>4, <2>5 DEF Located, Copies, Digits
<1>8. QED
  BY <1>1, <1>6, <1>7 DEF Traced

LEMMA TurnKeeps ==
  ASSUME Inv, Traced, Turn
  PROVE  Traced'
<1> DEFINE b == text[tok.pos + 1]
<1> DEFINE r == Scan(tok, b)
<1> DEFINE item == [event |-> r.event, at |-> tok.pos]
<1>1. text' = text /\ text \in Seq(Byte) /\ Sound(tok) /\ tok.pos < Len(text) /\ tok.pos \in Nat
  BY DEF Inv, Turn, Sound, Tokenizers
<1>2. \A e, at : Located(e, at)' <=> Located(e, at)
  BY <1>1 DEF Located, Copies, Digits
<1>3. CASE r.event.type = "error"
  <2>1. tok' = tok /\ events' = events
    BY <1>3 DEF Turn
  <2>2. Reads(tok)'
    BY <1>1, <2>1 DEF Traced, Reads, Copies, Digits
  <2>3. QED
    BY <1>2, <2>1, <2>2 DEF Traced
<1>4. CASE r.event.type # "error"
  <2>1. Reads(r.t) /\ Located(r.event, tok.pos)
    BY <1>1, <1>4, ScanLocated DEF Traced
  <2>2. r.t.pos \in {tok.pos, tok.pos + 1}
    BY <1>1, ScanAdvances DEF Sound
  <2>3. tok' = r.t /\ events' \in {events, Append(events, item)}
    BY <1>4 DEF Turn
  <2> HIDE DEF r
  <2>4. tok.pos <= tok'.pos
    BY <1>1, <2>2, <2>3
  <2>5. Reads(tok)'
    BY <1>1, <2>1, <2>3 DEF Reads, Copies, Digits
  <2>6. \A i \in DOMAIN events : events[i].at \in Nat /\ events[i].at <= tok'.pos
    BY <1>1, <2>2, <2>3 DEF Traced, Located
  <2>7. CASE events' = events
    BY <1>2, <2>5, <2>6, <2>7 DEF Traced
  <2>8. CASE events' = Append(events, item)
    <3>1. item.event = r.event /\ item.at = tok.pos
      OBVIOUS
    <3> HIDE DEF item
    <3>2. Len(events) \in Nat /\ DOMAIN events = 1..Len(events)
      BY DEF Traced
    <3>3. /\ Len(events') = Len(events) + 1 /\ DOMAIN events' = 1..Len(events) + 1
          /\ \A i \in 1..Len(events) : events'[i] = events[i]
          /\ events'[Len(events) + 1] = item
      BY <2>8, <3>2
    <3>4. ASSUME NEW i \in DOMAIN events'
          PROVE  /\ Located(events'[i].event, events'[i].at) /\ events'[i].at <= tok'.pos
                 /\ i > 1 => events'[i - 1].at <= events'[i].at
      <4>1. CASE i \in 1..Len(events)
        <5>1. i > 1 => i - 1 \in 1..Len(events)
          BY <3>2, <4>1
        <5>2. QED
          BY <2>6, <3>2, <3>3, <4>1, <5>1 DEF Traced
      <4>2. CASE i = Len(events) + 1
        <5>1. i > 1 => i - 1 \in 1..Len(events) /\ i - 1 = Len(events)
          BY <3>2, <4>2
        <5>2. i > 1 => events'[i - 1].at <= tok.pos
          BY <3>2, <3>3, <5>1 DEF Traced
        <5>3. QED
          BY <2>1, <2>4, <3>1, <3>3, <4>2, <5>2
      <4>3. QED
        BY <3>2, <3>3, <4>1, <4>2
    <3>5. Len(events') \in Nat /\ DOMAIN events' = 1..Len(events')
      BY <3>2, <3>3
    <3>6. QED
      BY <1>2, <2>5, <3>4, <3>5 DEF Traced
  <2>9. QED
    BY <2>3, <2>7, <2>8
<1>5. QED
  BY <1>3, <1>4

LEMMA TracedInitial == Init => Traced
  BY DEF Init, TokenizerInit, Traced, Reads

LEMMA TracedInductive == Inv /\ Traced /\ [Next]_vars => Traced'
<1> SUFFICES ASSUME Inv, Traced, [Next]_vars PROVE Traced'
  OBVIOUS
<1>1. CASE UNCHANGED vars
  BY <1>1 DEF vars, Traced, Reads, Located, Copies, Digits
<1>2. QED
  BY <1>1, TurnKeeps, FeedKeeps DEF Next

(* For every alphabet, caps and text: every key the handler receives is the
   text between its quotes, every string and number is where its event says,
   and no event is reported out of order, however the bytes arrive. *)
THEOREM EventsInTextAlways == Spec => []EventsInText
<1>1. Inv /\ Traced => EventsInText
  <2> SUFFICES ASSUME Inv, Traced, NEW i \in DOMAIN events
               PROVE  LET e == events[i].event
                          at == events[i].at
                      IN  /\ i > 1 => events[i - 1].at <= at
                          /\ e.type \in {"key", "stringEnd"}
                               => text[e.start + 1] = "Q" /\ text[at + 1] = "Q" /\ e.start < at
                          /\ e.type = "key" => e.key = SubSeq(text, e.start + 2, at)
                          /\ e.type = "number" => \A j \in e.start + 1..at : text[j] \in NumberByte
    BY DEF EventsInText
  <2> DEFINE e == events[i].event
  <2> DEFINE at == events[i].at
  <2>1. Located(e, at) /\ (i > 1 => events[i - 1].at <= at)
    BY DEF Traced
  <2> HIDE DEF e, at
  <2>2. e.type = "key" => e.key = SubSeq(text, e.start + 2, at)
    <3> SUFFICES ASSUME e.type = "key" PROVE e.key = SubSeq(text, e.start + 2, at)
      OBVIOUS
    <3> DEFINE m == e.start + 2
    <3>1. /\ e.start \in Nat /\ at \in Nat /\ at < Len(text) /\ e.key \in Seq(Byte) /\ e.start < at
          /\ e.start + Len(e.key) + 1 = at /\ Copies(e.key, e.start) /\ text \in Seq(Byte)
      BY <2>1 DEF Located, Inv
    <3>2. Len(e.key) \in Nat /\ Len(text) \in Nat
      BY <3>1
    <3>3. m \in Int /\ at \in Int /\ (\A j \in m..at : text[j] \in Byte)
      BY <3>1, <3>2
    <3>4. (IF m <= at THEN at - m + 1 ELSE 0) = Len(e.key) /\ at - m + 1 = Len(e.key)
      BY <3>1, <3>2
    <3>5. \A j \in 1..Len(e.key) : m + j - 1 = e.start + 1 + j
      BY <3>1, <3>2
    <3> HIDE DEF m
    <3>6. /\ SubSeq(text, m, at) \in Seq(Byte)
          /\ Len(SubSeq(text, m, at)) = Len(e.key)
          /\ \A j \in 1..Len(e.key) : SubSeq(text, m, at)[j] = text[m + j - 1]
      BY <3>3, <3>4, SubSeqProperties
    <3>7. \A j \in 1..Len(e.key) : SubSeq(text, m, at)[j] = e.key[j]
      BY <3>1, <3>5, <3>6 DEF Copies
    <3>8. e.key = SubSeq(text, m, at)
      BY <3>1, <3>6, <3>7, SeqEqual
    <3>9. QED
      BY <3>8 DEF m
  <2>3. QED
    BY <2>1, <2>2 DEF Located, Digits, e, at
<1>2. QED
  BY <1>1, Soundness, TracedInitial, TracedInductive, PTL DEF Spec
=============================================================================
