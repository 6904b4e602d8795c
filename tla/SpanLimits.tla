----------------------------- MODULE SpanLimits -----------------------------
(***************************************************************************)
(* The open regions maxBufferedBytes bounds (class SpanLimits of           *)
(* spine/spine.ts), shared by a root spine and its branch sub-spines: two  *)
(* parallel arrays of owners and limits, filled at the end and emptied by  *)
(* swapping the last entry in, and the earliest limit as the tokenizer was *)
(* last told.                                                              *)
(***************************************************************************)
EXTENDS Integers, Sequences

CONSTANT Infinity  \* Number.POSITIVE_INFINITY: above every offset

ASSUME InfinityAssumption == Infinity \in Nat

NoSpans == [owners |-> <<>>, limits |-> <<>>, applied |-> Infinity]

OpenSpan(r, owner, at) ==
  [owners  |-> Append(r.owners, owner),
   limits  |-> Append(r.limits, at),
   applied |-> IF at < r.applied THEN at ELSE r.applied]

Entries(r, owner) == {i \in DOMAIN r.owners : r.owners[i] = owner}

(* Entry i leaves, the last one takes its place. *)
SwapOut(s, i) == SubSeq([s EXCEPT ![i] = s[Len(s)]], 1, Len(s) - 1)

IsEarliest(at, limits) ==
  IF limits = {} THEN at = Infinity
  ELSE at \in limits /\ \A other \in limits : at <= other

LimitsIn(s) == {s[i] : i \in DOMAIN s}
Earliest(limits) == CHOOSE at \in limits \cup {Infinity} : IsEarliest(at, limits)

LastEntry(r, owner) == CHOOSE n \in Entries(r, owner) : \A m \in Entries(r, owner) : m <= n

(* Mutant: the limits close up where the owners swap. *)
CloseSpanCrossed(r, owner) ==
  IF Entries(r, owner) = {} THEN r
  ELSE LET i == LastEntry(r, owner)
           limits == SubSeq(r.limits, 1, i - 1) \o SubSeq(r.limits, i + 1, Len(r.limits))
       IN  [owners |-> SwapOut(r.owners, i), limits |-> limits, applied |-> Earliest(LimitsIn(limits))]

(* The last entry of the owner goes; one without a region is no error. *)
CloseSpan(r, owner) ==
  IF Entries(r, owner) = {} THEN r
  ELSE LET i == LastEntry(r, owner)
           limits == SwapOut(r.limits, i)
       IN  [owners  |-> SwapOut(r.owners, i),
            limits  |-> limits,
            applied |-> IF r.limits[i] # r.applied THEN r.applied ELSE Earliest(LimitsIn(limits))]
=============================================================================
