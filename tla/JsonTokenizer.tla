---------------------------- MODULE JsonTokenizer ----------------------------
(***************************************************************************)
(* The resumable JSON tokenizer (tokenizer/tokenizer.ts), one byte of      *)
(* input at a time.  Its state is one record t and Scan gives, for the     *)
(* byte at t.pos, the event the handler receives and the next state: the   *)
(* record is all that survives from one chunk to the next, so a byte is    *)
(* read the same way wherever the input was cut.                           *)
(*                                                                         *)
(* A byte is the punctuation it stands for, "w" whitespace, "Q" a quote,   *)
(* "n" a digit, "-" a sign and "t" a whole literal; any other byte is      *)
(* string text, and an error outside a string.  UTF-8 decoding, escapes    *)
(* and the spelling of numbers and literals are abstracted.                *)
(***************************************************************************)
EXTENDS Integers, Sequences

CONSTANTS
  Byte,           \* the bytes an input may hold
  MaxKeyBytes,    \* options.maxKeyBytes, above every offset when unset
  MaxNumberBytes  \* options.maxNumberBytes, above every offset when unset

ASSUME TokenizerAssumption == MaxKeyBytes \in Nat /\ MaxNumberBytes \in Nat

NumberByte == {"n", "-"}
Contexts == {"object", "array"}

TokenizerInit ==
  [pos |-> 0, state |-> "value", stack |-> <<>>, isKey |-> FALSE, start |-> 0, buf |-> <<>>]

(* Events carry what the handler is told beyond the offset: the key read,
   or where the token that ends here started. *)
NoEvent == [type |-> "none", key |-> <<>>, start |-> 0]
EventOf(type, key, start) == [type |-> type, key |-> key, start |-> start]
Result(event, t) == [event |-> event, t |-> t]
Bad(t) == Result(EventOf("error", <<>>, t.pos), t)

-----------------------------------------------------------------------------
(* afterValue, closeObject and closeArray. *)

Context(stack) == IF stack = <<>> THEN "none" ELSE stack[Len(stack)]

AfterValue(stack) ==
  CASE Context(stack) = "none"   -> "end"
    [] Context(stack) = "array"  -> "commaOrEndArray"
    [] Context(stack) = "object" -> "commaOrEndObject"

Pop(stack) == SubSeq(stack, 1, Len(stack) - 1)

Skip(t, state) == [t EXCEPT !.state = state, !.pos = @ + 1]

Close(t, type) ==
  Result(EventOf(type, <<>>, t.pos),
         [Skip(t, AfterValue(Pop(t.stack))) EXCEPT !.stack = Pop(t.stack)])

Open(t, type, context, state) ==
  Result(EventOf(type, <<>>, t.pos), [Skip(t, state) EXCEPT !.stack = Append(@, context)])

(* Mutant: the bytes of the previous key are still in the buffer. *)
BeginStringUnreset(t, isKey) ==
  IF isKey /\ MaxKeyBytes = 0 THEN Bad(t)
  ELSE Result(EventOf(IF isKey THEN "none" ELSE "stringStart", <<>>, t.pos),
              [Skip(t, "string") EXCEPT !.isKey = isKey, !.start = t.pos])

(* beginString: a quote where a key or a value may start. *)
BeginString(t, isKey) ==
  IF isKey /\ MaxKeyBytes = 0 THEN Bad(t)
  ELSE Result(EventOf(IF isKey THEN "none" ELSE "stringStart", <<>>, t.pos),
              [Skip(t, "string") EXCEPT !.isKey = isKey, !.start = t.pos, !.buf = <<>>])

(* beginValue; a number starts without consuming its first byte. *)
BeginValue(t, b) ==
  CASE b = "{" -> Open(t, "startObject", "object", "keyOrEndObject")
    [] b = "[" -> Open(t, "startArray", "array", "valueOrEndArray")
    [] b = "Q" -> BeginString(t, FALSE)
    [] b = "t" -> Result(EventOf("literal", <<>>, t.pos), Skip(t, AfterValue(t.stack)))
    [] b \in NumberByte ->
         Result(NoEvent, [t EXCEPT !.state = "number", !.start = t.pos, !.buf = <<>>])
    [] OTHER -> Bad(t)

(* scanStringBody and finishString. *)
InString(t, b) ==
  IF t.isKey /\ t.pos - t.start >= MaxKeyBytes THEN Bad(t)
  ELSE IF b # "Q"
  THEN Result(EventOf(IF t.isKey THEN "none" ELSE "text", <<>>, t.pos),
              [Skip(t, "string") EXCEPT !.buf = IF t.isKey THEN Append(@, b) ELSE @])
  ELSE IF t.isKey THEN Result(EventOf("key", t.buf, t.start), Skip(t, "colon"))
  ELSE Result(EventOf("stringEnd", <<>>, t.start), Skip(t, AfterValue(t.stack)))

(* Mutant: a sign alone is a number. *)
NumberOkSignAlone(buf) == \A i \in 2..Len(buf) : buf[i] = "n"

(* checkNumber: a sign only in front, and at least one digit. *)
NumberOk(buf) ==
  \E first \in {1, 2} : /\ first <= Len(buf)
                        /\ first = 2 => buf[1] = "-"
                        /\ \A i \in first..Len(buf) : buf[i] = "n"

FinishNumber(t) ==
  IF ~NumberOk(t.buf) THEN Bad(t)
  ELSE Result(EventOf("number", <<>>, t.start), [t EXCEPT !.state = AfterValue(t.stack), !.buf = <<>>])

(* stepNumber: the byte that ends a number is read again. *)
InNumber(t, b) ==
  IF b \notin NumberByte THEN FinishNumber(t)
  ELSE IF t.pos - t.start >= MaxNumberBytes THEN Bad(t)
  ELSE Result(NoEvent, [Skip(t, "number") EXCEPT !.buf = Append(@, b)])

-----------------------------------------------------------------------------
(* write, one turn of its loop. *)

Scan(t, b) ==
  CASE t.state = "string" -> InString(t, b)
    [] t.state = "number" -> InNumber(t, b)
    [] t.state \notin {"string", "number"} /\ b = "w" -> Result(NoEvent, Skip(t, t.state))
    [] t.state = "value" /\ b # "w" -> BeginValue(t, b)
    [] t.state = "valueOrEndArray" /\ b # "w" ->
         IF b = "]" THEN Close(t, "endArray") ELSE BeginValue(t, b)
    [] t.state = "keyOrEndObject" /\ b = "}" -> Close(t, "endObject")
    [] t.state \in {"key", "keyOrEndObject"} /\ b = "Q" -> BeginString(t, TRUE)
    [] t.state = "colon" /\ b = ":" -> Result(NoEvent, Skip(t, "value"))
    [] t.state = "commaOrEndArray" /\ b = "," -> Result(NoEvent, Skip(t, "value"))
    [] t.state = "commaOrEndArray" /\ b = "]" -> Close(t, "endArray")
    [] t.state = "commaOrEndObject" /\ b = "," ->
         Result(EventOf("memberComma", <<>>, t.pos), Skip(t, "key"))
    [] t.state = "commaOrEndObject" /\ b = "}" -> Close(t, "endObject")
    [] OTHER -> Bad(t)

(* end: what is left over when the input stops, once a number in progress
   has been finished.  TRUE when the text read is one whole value. *)
EndsCleanly(t) == t.state = "end"
=============================================================================
