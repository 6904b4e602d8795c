----------------------------- MODULE FetchBody -----------------------------
(***************************************************************************)
(* readBody (validator/src/from-fetch.ts): the body of a Fetch message is   *)
(* read through a counter that fails the stream past a byte limit, by       *)
(* platform code (text, formData, arrayBuffer) that is awaited and may      *)
(* meet that failure, replace it or swallow it.  Several messages may be    *)
(* read at a time; each has a read of its own.                              *)
(***************************************************************************)
EXTENDS Integers, FiniteSets

CONSTANTS
  Infinity,  \* Number.POSITIVE_INFINITY
  Chunks     \* the sizes of the chunks a message may come in

(* What a message is parsed as.  The size its sender declared is -1 when there
   is no Content-Length that is a number; without a body stream its size is 0. *)
Media == {"json", "multipart", "other"}

Bodyless == {"GET", "HEAD"}

(* A read: size is what the body holds, seen what came through the counter,
   over the count that passed the limit, taken what the parser was given. *)
NewRead(media, size) == [media |-> media, size |-> size, seen |-> 0, taken |-> 0, over |-> 0]

(* Refused before it is read. *)
DeclaredTooLarge(declared, limit) == limit # Infinity /\ declared > limit

Counts(limit) == limit # Infinity

(* The counter's transform. *)
Transformed(r, n, limit) ==
  LET seen == r.seen + n
  IN  IF Counts(limit) /\ seen > limit THEN [r EXCEPT !.seen = seen, !.over = seen]
      ELSE [r EXCEPT !.seen = seen, !.taken = seen]

(* What the parser makes of the end of its input: of a whole body a value, or
   an error when it is malformed; of a stream that failed, an error of its
   own or, when it swallows the failure, a value.  text() and arrayBuffer()
   pass a failure on, formData's are all taken for malformed bodies. *)
ParserOutcomes(r, failed) ==
  IF ~failed THEN {"value"} \union (IF r.media = "other" THEN {} ELSE {"malformed"})
  ELSE {"value", IF r.media = "multipart" THEN "malformed" ELSE "failed"}

(* Mutant: the counter is only asked when the parser failed. *)
SettledByError(r, outcome) ==
  IF r.over > 0 /\ outcome # "value" THEN "too-large" ELSE outcome

(* The size takes precedence over what the parser says. *)
Settled(r, outcome) == IF r.over > 0 THEN "too-large" ELSE outcome
=============================================================================
