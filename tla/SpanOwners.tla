----------------------------- MODULE SpanOwners -----------------------------
(***************************************************************************)
(* SpanLimits as its owners drive it: a spine opens a region only when it  *)
(* holds none (an island or a held string ends before the next begins),    *)
(* and closes its own, whether or not it holds one, when a TEE tears its   *)
(* branches down.                                                          *)
(***************************************************************************)
EXTENDS SpanLimits

CONSTANTS
  Owners,  \* spines
  Offsets  \* the limits regions are opened with, below Infinity

ASSUME OffsetsAssumption == \A at \in Offsets : at \in Nat /\ at < Infinity

VARIABLE regions

Open(owner, at) ==
  /\ Entries(regions, owner) = {}
  /\ regions' = OpenSpan(regions, owner, at)

Close(owner) == regions' = CloseSpan(regions, owner)

Init == regions = NoSpans

Next == \E owner \in Owners : Close(owner) \/ \E at \in Offsets : Open(owner, at)

Spec == Init /\ [][Next]_regions

-----------------------------------------------------------------------------
(* The two arrays stay parallel, no spine is listed twice, and what the
   tokenizer was told is the earliest limit among the open regions: a limit
   left behind would refuse input no region holds, a limit lost would let a
   region grow past its cap. *)
Paired ==
  /\ Len(regions.owners) = Len(regions.limits)
  /\ \A i, j \in DOMAIN regions.owners : regions.owners[i] = regions.owners[j] => i = j
  /\ IsEarliest(regions.applied, LimitsIn(regions.limits))

(* The regions by owner. *)
LimitOf(owner) == regions.limits[CHOOSE i \in DOMAIN regions.owners : regions.owners[i] = owner]
OpenNow == [owner \in LimitsIn(regions.owners) |-> LimitOf(owner)]

Regions == INSTANCE OpenRegions WITH open <- OpenNow, told <- regions.applied

(* The arrays implement the map from spines to regions: the swap on removal
   never loses or hands over another spine's region. *)
ImplementsOpenRegions == Regions!Spec
=============================================================================
