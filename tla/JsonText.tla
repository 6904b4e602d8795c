------------------------------ MODULE JsonText ------------------------------
(***************************************************************************)
(* The tokenizer against the JSON grammar, stated over the text alone.     *)
(***************************************************************************)
EXTENDS JsonReader

-----------------------------------------------------------------------------
(* The grammar: each operator gives the offsets where its phrase, started  *)
(* at i, may end, and Cut when the text stops inside it.                   *)

Cut == -1
Then(ends, Rest(_)) == UNION {IF e = Cut THEN {Cut} ELSE Rest(e) : e \in ends}

Token(i, b) == IF i = Len(text) THEN {Cut} ELSE IF text[i + 1] = b THEN {i + 1} ELSE {}
Space(i) == {j \in i..Len(text) : \A k \in i + 1..j : text[k] = "w"}

(* A capped token is refused at its first byte past the cap, not before. *)
Capped(i, cap, ends) ==
  {e \in ends : IF e = Cut THEN Len(text) - i <= cap ELSE e - i <= cap}

String(i, cap) ==
  LET Body(j) == {k \in j..Len(text) : \A m \in j + 1..k : text[m] # "Q"}
  IN  IF i < Len(text) /\ cap = 0 THEN {}
      ELSE Capped(i, cap, Then(Token(i, "Q"), LAMBDA j : Then(Body(j), LAMBDA k : Token(k, "Q"))))

Digits(i) == {j \in i..Len(text) : \A k \in i + 1..j : text[k] = "n"}
Number(i) ==
  Capped(i, MaxNumberBytes, Then({i} \cup Token(i, "-"), LAMBDA j : Then(Token(j, "n"), Digits)))

RECURSIVE Phrase(_), Elements(_), Fields(_)
Phrase(i) ==
  Token(i, "t") \cup String(i, MaxLength + 1) \cup Number(i)
    \cup Then(Token(i, "["), LAMBDA j : Then(Space(j), LAMBDA k : Token(k, "]")) \cup Elements(j))
    \cup Then(Token(i, "{"), LAMBDA j : Then(Space(j), LAMBDA k : Token(k, "}")) \cup Fields(j))
Spaced(i, Rest(_)) == Then(Space(i), Rest)
Elements(i) ==
  Spaced(i, LAMBDA a : Then(Phrase(a), LAMBDA e :
    Spaced(e, LAMBDA c : Token(c, "]") \cup Then(Token(c, ","), Elements))))
Fields(i) ==
  Spaced(i, LAMBDA a : Then(String(a, MaxKeyBytes), LAMBDA k :
    Spaced(k, LAMBDA c : Then(Token(c, ":"), LAMBDA v :
      Spaced(v, LAMBDA w : Then(Phrase(w), LAMBDA e :
        Spaced(e, LAMBDA d : Token(d, "}") \cup Then(Token(d, ","), Fields))))))))

Ends == Spaced(0, LAMBDA i : Then(Phrase(i), Space))
Complete == Len(text) \in Ends
Viable == Complete \/ Cut \in Ends

-----------------------------------------------------------------------------
(* What is left when the input stops: a number in progress is finished. *)
Stopped == IF tok.state = "number" THEN FinishNumber(tok) ELSE Result(NoEvent, tok)
Accepts == Stopped.event.type # "error" /\ EndsCleanly(Stopped.t)

(* The tokenizer accepts exactly the JSON texts, and refuses a text at the
   first byte that no JSON text has there; the caps on keys and numbers
   count to the byte. *)
ReadsJson ==
  /\ refused => ~Viable
  /\ tok.pos = Len(text) /\ ~refused =>
       /\ Accepts = Complete
       /\ tok.state # "number" => Viable
=============================================================================
