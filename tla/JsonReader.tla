----------------------------- MODULE JsonReader -----------------------------
(***************************************************************************)
(* The tokenizer at work: a source appends any byte to the text, the       *)
(* tokenizer reads it, and the events it reports are kept.                 *)
(***************************************************************************)
EXTENDS JsonTokenizer, FiniteSets

CONSTANTS
  MaxLength,  \* bounds of the texts explored: their bytes,
  MaxQuoted,  \* the bytes of their strings
  MaxSpace    \* and their whitespace

VARIABLES
  text,    \* the bytes written so far
  tok,     \* the tokenizer
  events,  \* the events reported, each with the offset it was reported at
  refused  \* a JsonParseError, KeyLimitError or NumberLimitError was thrown

vars == <<text, tok, events, refused>>

Quoted(i) == text[i] # "Q" /\ Cardinality({j \in 1..i : text[j] = "Q"}) % 2 = 1
InBounds ==
  /\ Len(text) <= MaxLength
  /\ Cardinality({i \in DOMAIN text : Quoted(i)}) <= MaxQuoted
  /\ Cardinality({i \in DOMAIN text : text[i] = "w"}) <= MaxSpace

Init == text = <<>> /\ tok = TokenizerInit /\ events = <<>> /\ refused = FALSE

(* The source sends one more byte once the tokenizer has read the others. *)
Feed(b) ==
  /\ tok.pos = Len(text) /\ ~refused
  /\ text' = Append(text, b)
  /\ InBounds'
  /\ UNCHANGED <<tok, events, refused>>

(* One turn of the write loop. *)
Turn ==
  /\ tok.pos < Len(text) /\ ~refused
  /\ LET r == Scan(tok, text[tok.pos + 1])
     IN  IF r.event.type = "error"
         THEN refused' = TRUE /\ UNCHANGED <<tok, events>>
         ELSE /\ tok' = r.t
              /\ events' = IF r.event.type = "none" THEN events
                           ELSE Append(events, [event |-> r.event, at |-> tok.pos])
              /\ UNCHANGED refused
  /\ UNCHANGED text

Next == Turn \/ \E b \in Byte : Feed(b)
Spec == Init /\ [][Next]_vars

-----------------------------------------------------------------------------
(* Every key the handler receives is the text between its quotes, every token
   reported is where it says, and nothing is reported twice or late. *)
EventsInText ==
  \A i \in DOMAIN events :
    LET e == events[i].event
        at == events[i].at
    IN  /\ i > 1 => events[i - 1].at <= at
        /\ e.type \in {"key", "stringEnd"} => text[e.start + 1] = "Q" /\ text[at + 1] = "Q" /\ e.start < at
        /\ e.type = "key" => e.key = SubSeq(text, e.start + 2, at)
        /\ e.type = "number" => \A j \in e.start + 1..at : text[j] \in NumberByte

(* The parser's state and its stack of open containers agree: they never
   disagree on whether a key, an element or a separator may come next. *)
StateMatchesStack ==
  /\ tok.state \in {"keyOrEndObject", "key", "colon", "commaOrEndObject"} => Context(tok.stack) = "object"
  /\ tok.state \in {"valueOrEndArray", "commaOrEndArray"} => Context(tok.stack) = "array"
  /\ tok.state = "end" => tok.stack = <<>>
  /\ tok.state = "string" /\ tok.isKey => Context(tok.stack) = "object"
  /\ tok.pos <= Len(text)

(* A key or a number being read never holds more bytes than its cap allows:
   the byte past the cap is refused before it is kept. *)
TokensBounded ==
  /\ tok.state = "string" /\ tok.isKey => Len(tok.buf) < MaxKeyBytes
  /\ tok.state = "number" => Len(tok.buf) <= MaxNumberBytes
=============================================================================
