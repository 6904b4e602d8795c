---------------------------- MODULE OpenRegions ----------------------------
(***************************************************************************)
(* What the spines rely on SpanLimits for: each of them may hold one open  *)
(* region at a time, and the tokenizer is told the earliest limit of those *)
(* that are open, or none.                                                 *)
(***************************************************************************)
EXTENDS Integers, Functions

CONSTANTS Owners, Offsets, Infinity

VARIABLES
  open,  \* the limit of each open region, by its owner
  told   \* the tokenizer's span limit

vars == <<open, told>>

Earliest(at) ==
  IF DOMAIN open' = {} THEN at = Infinity
  ELSE at \in Range(open') /\ \A o \in DOMAIN open' : at <= open'[o]

Init == open = [o \in {} |-> Infinity] /\ told = Infinity

Open(owner, at) ==
  /\ owner \notin DOMAIN open
  /\ open' = [o \in DOMAIN open \cup {owner} |-> IF o = owner THEN at ELSE open[o]]
  /\ Earliest(told')

Close(owner) ==
  /\ open' = Restrict(open, DOMAIN open \ {owner})
  /\ Earliest(told')

Next == \E owner \in Owners : Close(owner) \/ \E at \in Offsets : Open(owner, at)

Spec == Init /\ [][Next]_vars
=============================================================================
