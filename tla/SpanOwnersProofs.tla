-------------------------- MODULE SpanOwnersProofs --------------------------
(***************************************************************************)
(* The shared span limit for any number of spines and any limits.          *)
(***************************************************************************)
EXTENDS SpanOwners, WellFoundedInduction, SequenceTheorems, TLAPS

LEMMA LeastMember ==
  ASSUME NEW T, T \subseteq Nat, T # {}
  PROVE  \E x \in T : \A y \in T : x <= y
<1> DEFINE Less == OpToRel(<, Nat)
<1>1. \A x, y \in Nat : x < y => <<x, y>> \in Less
  BY DEF OpToRel
<1>2. IsWellFoundedOn(Less, Nat)
  BY NatLessThanWellFounded DEF OpToRel
<1> HIDE DEF Less
<1>3. PICK x \in T : \A y \in T : ~(<<y, x>> \in Less)
  BY <1>2, WFMin
<1>4. \A y \in T : ~(y < x)
  BY <1>1, <1>3
<1>5. QED
  BY <1>4

LEMMA EarliestIsEarliest ==
  ASSUME NEW limits, limits \subseteq Nat
  PROVE  IsEarliest(Earliest(limits), limits)
<1>1. CASE limits = {}
  <2>1. IsEarliest(Infinity, limits)
    BY <1>1 DEF IsEarliest
  <2>2. QED
    BY <2>1 DEF Earliest
<1>2. CASE limits # {}
  <2>1. PICK x \in limits : \A y \in limits : x <= y
    BY <1>2, LeastMember
  <2>2. IsEarliest(x, limits)
    BY <1>2, <2>1 DEF IsEarliest
  <2>3. QED
    BY <2>2 DEF Earliest
<1>3. QED
  BY <1>1, <1>2

-----------------------------------------------------------------------------
Typed == regions \in [owners  : Seq(Owners),
                      limits  : Seq(Offsets),
                      applied : Offsets \cup {Infinity}]

Inv == Typed /\ Paired

LEMMA SwappedOut ==
  ASSUME NEW S, NEW s \in Seq(S), NEW i \in 1..Len(s)
  PROVE  /\ SwapOut(s, i) \in Seq(S)
         /\ Len(SwapOut(s, i)) = Len(s) - 1
         /\ \A j \in 1..(Len(s) - 1) : SwapOut(s, i)[j] = IF j = i THEN s[Len(s)] ELSE s[j]
<1> DEFINE t == [s EXCEPT ![i] = s[Len(s)]]
<1>1. t \in Seq(S) /\ Len(t) = Len(s)
  OBVIOUS
<1>2. \A j \in 1..Len(s) : t[j] = IF j = i THEN s[Len(s)] ELSE s[j]
  OBVIOUS
<1>3. \A j \in 1..(Len(s) - 1) : t[j] \in S
  BY <1>2
<1>4. Len(s) - 1 \in Int /\ 1 \in Int
  OBVIOUS
<1> HIDE DEF t
<1>5. /\ SubSeq(t, 1, Len(s) - 1) \in Seq(S)
      /\ Len(SubSeq(t, 1, Len(s) - 1)) = IF 1 <= Len(s) - 1 THEN Len(s) - 1 - 1 + 1 ELSE 0
      /\ \A j \in 1..(Len(s) - 1 - 1 + 1) : SubSeq(t, 1, Len(s) - 1)[j] = t[1 + j - 1]
  BY <1>3, <1>4, SubSeqProperties
<1>6. SwapOut(s, i) = SubSeq(t, 1, Len(s) - 1)
  BY <1>1 DEF SwapOut, t
<1>7. \A j \in 1..(Len(s) - 1) : SwapOut(s, i)[j] = t[j]
  BY <1>5, <1>6
<1>8. Len(SwapOut(s, i)) = Len(s) - 1
  <2>1. Len(s) \in Nat /\ Len(s) >= 1
    OBVIOUS
  <2>2. CASE Len(s) = 1
    <3>1. ~(1 <= Len(s) - 1) /\ Len(s) - 1 = 0
      BY <2>2
    <3>2. Len(SubSeq(t, 1, Len(s) - 1)) = 0
      BY <1>5, <3>1
    <3>3. QED
      BY <1>6, <3>1, <3>2
  <2>3. CASE Len(s) > 1
    <3>1. 1 <= Len(s) - 1 /\ Len(s) - 1 - 1 + 1 = Len(s) - 1
      BY <2>1, <2>3
    <3>2. Len(SubSeq(t, 1, Len(s) - 1)) = Len(s) - 1
      BY <1>5, <3>1
    <3>3. QED
      BY <1>6, <3>2
  <2>4. Len(s) = 1 \/ Len(s) > 1
    <3>1. \A n \in Nat : n >= 1 => n = 1 \/ n > 1
      OBVIOUS
    <3>2. QED
      BY <2>1, <3>1, Zenon
  <2>5. QED
    BY <2>2, <2>3, <2>4, Zenon
<1>9. QED
  BY <1>2, <1>5, <1>6, <1>7, <1>8

(* A spine without a region gets the last entry; the others keep theirs. *)
LEMMA OpenKeeps ==
  ASSUME Inv, NEW owner \in Owners, NEW at \in Offsets, Open(owner, at)
  PROVE  /\ Inv'
         /\ LimitsIn(regions.owners)' = LimitsIn(regions.owners) \cup {owner}
         /\ \A i \in DOMAIN regions.owners :
              /\ i \in DOMAIN regions'.owners
              /\ regions'.owners[i] = regions.owners[i]
              /\ regions'.limits[i] = regions.limits[i]
         /\ Len(regions.owners) + 1 \in DOMAIN regions'.owners
         /\ regions'.owners[Len(regions.owners) + 1] = owner
         /\ regions'.limits[Len(regions.owners) + 1] = at
<1> DEFINE os == regions.owners
           ls == regions.limits
           n == Len(os) + 1
<1>1. /\ os \in Seq(Owners)
      /\ ls \in Seq(Offsets)
      /\ regions.applied \in Offsets \cup {Infinity}
      /\ Len(ls) = Len(os)
      /\ DOMAIN os = 1..Len(os)
      /\ DOMAIN ls = 1..Len(os)
  BY DEF Inv, Typed, Paired
<1>2. /\ regions'.owners = Append(os, owner)
      /\ regions'.limits = Append(ls, at)
      /\ regions'.applied = IF at < regions.applied THEN at ELSE regions.applied
  BY DEF Open, OpenSpan
<1>3. /\ Append(os, owner) \in Seq(Owners)
      /\ Len(Append(os, owner)) = n
      /\ DOMAIN Append(os, owner) = 1..n
      /\ Append(os, owner)[n] = owner
      /\ \A i \in 1..Len(os) : Append(os, owner)[i] = os[i]
  BY <1>1
<1>4. /\ Append(ls, at) \in Seq(Offsets)
      /\ Len(Append(ls, at)) = n
      /\ DOMAIN Append(ls, at) = 1..n
      /\ Append(ls, at)[n] = at
      /\ \A i \in 1..Len(os) : Append(ls, at)[i] = ls[i]
  BY <1>1
<1>5. Typed'
  <2>1. regions' = [owners |-> Append(os, owner), limits |-> Append(ls, at),
                    applied |-> IF at < regions.applied THEN at ELSE regions.applied]
    BY DEF Open, OpenSpan
  <2>2. QED
    BY <1>1, <1>3, <1>4, <2>1 DEF Typed
<1>6. \A i \in 1..Len(os) : os[i] # owner
  BY <1>1 DEF Open, Entries
<1>7. \A i, j \in 1..Len(os) : os[i] = os[j] => i = j
  BY <1>1 DEF Inv, Paired
<1>8. \A i, j \in DOMAIN regions'.owners : regions'.owners[i] = regions'.owners[j] => i = j
  <2> SUFFICES ASSUME NEW i \in 1..n, NEW j \in 1..n, Append(os, owner)[i] = Append(os, owner)[j]
               PROVE  i = j
    BY <1>2, <1>3
  <2>1. CASE i = n
    BY <1>1, <1>3, <1>6, <2>1
  <2>2. CASE j = n
    BY <1>1, <1>3, <1>6, <2>2
  <2>3. CASE i # n /\ j # n
    BY <1>1, <1>3, <1>7, <2>3
  <2>4. QED
    BY <2>1, <2>2, <2>3
<1>9. LimitsIn(regions.limits)' = LimitsIn(ls) \cup {at}
  <2>1. \A i \in 1..n : i \in 1..Len(os) \/ i = n
    BY <1>1
  <2>2. \A i \in 1..Len(os) : i \in 1..n
    BY <1>1
  <2>3. n \in 1..n
    BY <1>1
  <2>4. QED
    BY <1>1, <1>2, <1>4, <2>1, <2>2, <2>3 DEF LimitsIn
<1>10. LimitsIn(regions.owners)' = LimitsIn(os) \cup {owner}
  <2>1. \A i \in 1..n : i \in 1..Len(os) \/ i = n
    BY <1>1
  <2>2. \A i \in 1..Len(os) : i \in 1..n
    BY <1>1
  <2>3. n \in 1..n
    BY <1>1
  <2>4. QED
    BY <1>1, <1>2, <1>3, <2>1, <2>2, <2>3 DEF LimitsIn
<1>11. LimitsIn(ls) \subseteq Offsets
  BY <1>1 DEF LimitsIn
<1>12. IsEarliest(regions.applied, LimitsIn(ls))
  BY DEF Inv, Paired
<1>13. IsEarliest(regions.applied, LimitsIn(regions.limits))'
  <2>1. IsEarliest(regions'.applied, LimitsIn(ls) \cup {at})
    <3>1. CASE LimitsIn(ls) = {}
      BY <1>2, <1>12, <3>1, OffsetsAssumption DEF IsEarliest
    <3>2. CASE LimitsIn(ls) # {}
      <4>1. /\ regions.applied \in LimitsIn(ls)
            /\ \A other \in LimitsIn(ls) : regions.applied <= other
        BY <1>12, <3>2 DEF IsEarliest
      <4>2. \A x \in Offsets : x \in Nat
        BY OffsetsAssumption
      <4>3. QED
        BY <1>2, <1>11, <4>1, <4>2 DEF IsEarliest
    <3>3. QED
      BY <3>1, <3>2
  <2>2. QED
    BY <1>9, <2>1
<1>14. Paired'
  BY <1>2, <1>3, <1>4, <1>8, <1>13 DEF Paired
<1>15. n \in 1..n /\ \A i \in 1..Len(os) : i \in 1..n
  BY <1>1
<1>16. QED
  BY <1>1, <1>2, <1>3, <1>4, <1>5, <1>10, <1>14, <1>15 DEF Inv

(* A spine gives up its own region only. *)
LEMMA CloseKeeps ==
  ASSUME Inv, NEW owner \in Owners, Close(owner)
  PROVE  /\ Inv'
         /\ LimitsIn(regions.owners)' = LimitsIn(regions.owners) \ {owner}
         /\ \A j \in DOMAIN regions'.owners : \E i \in DOMAIN regions.owners :
              /\ regions'.owners[j] = regions.owners[i]
              /\ regions'.limits[j] = regions.limits[i]
<1> DEFINE os == regions.owners
           ls == regions.limits
           os2 == regions'.owners
           ls2 == regions'.limits
<1>1. /\ os \in Seq(Owners)
      /\ ls \in Seq(Offsets)
      /\ regions.applied \in Offsets \cup {Infinity}
      /\ Len(ls) = Len(os)
      /\ DOMAIN os = 1..Len(os)
      /\ DOMAIN ls = 1..Len(os)
      /\ Len(os) \in Nat
  BY DEF Inv, Typed, Paired
<1>2. CASE Entries(regions, owner) = {}
  <2>1. regions' = regions
    BY <1>2 DEF Close, CloseSpan
  <2>2. \A i \in 1..Len(os) : os[i] # owner
    BY <1>1, <1>2 DEF Entries
  <2>3. owner \notin LimitsIn(os)
    BY <1>1, <2>2 DEF LimitsIn
  <2>4. Inv'
    BY <2>1 DEF Inv, Typed, Paired
  <2>5. QED
    BY <2>1, <2>3, <2>4
<1>3. CASE Entries(regions, owner) # {}
  <2>1. PICK k \in 1..Len(os) : os[k] = owner
    BY <1>1, <1>3 DEF Entries
  <2>2. \A i, j \in 1..Len(os) : os[i] = os[j] => i = j
    BY <1>1 DEF Inv, Paired
  <2>3. Entries(regions, owner) = {k}
    BY <1>1, <2>1, <2>2 DEF Entries
  <2>4. (CHOOSE n \in {k} : \A m \in {k} : m <= n) = k
    <3>1. \A m \in {k} : m <= k
      BY <1>1
    <3>2. QED
      BY <3>1
  <2>5. regions' = [owners  |-> SwapOut(os, k),
                    limits  |-> SwapOut(ls, k),
                    applied |-> IF ls[k] # regions.applied THEN regions.applied
                                ELSE Earliest(LimitsIn(SwapOut(ls, k)))]
    BY <1>3, <2>3, <2>4 DEF Close, CloseSpan, LastEntry
  <2>6. os2 = SwapOut(os, k) /\ ls2 = SwapOut(ls, k)
    BY <2>5
  <2> DEFINE last == Len(os)
             From(j) == IF j = k THEN last ELSE j
  <2>7. /\ os2 \in Seq(Owners)
        /\ Len(os2) = last - 1
        /\ \A j \in 1..(last - 1) : os2[j] = os[From(j)]
    <3>1. /\ SwapOut(os, k) \in Seq(Owners)
          /\ Len(SwapOut(os, k)) = Len(os) - 1
          /\ \A j \in 1..(Len(os) - 1) : SwapOut(os, k)[j] = IF j = k THEN os[Len(os)] ELSE os[j]
      BY <1>1, SwappedOut
    <3>2. QED
      BY <1>1, <2>6, <3>1
  <2>8. /\ ls2 \in Seq(Offsets)
        /\ Len(ls2) = last - 1
        /\ \A j \in 1..(last - 1) : ls2[j] = ls[From(j)]
    <3>1. k \in 1..Len(ls)
      BY <1>1
    <3>2. /\ SwapOut(ls, k) \in Seq(Offsets)
          /\ Len(SwapOut(ls, k)) = Len(ls) - 1
          /\ \A j \in 1..(Len(ls) - 1) : SwapOut(ls, k)[j] = IF j = k THEN ls[Len(ls)] ELSE ls[j]
      BY <1>1, <3>1, SwappedOut
    <3>3. QED
      BY <1>1, <2>6, <3>2
  <2>9. /\ last \in Nat /\ k \in 1..last
        /\ \A j \in 1..(last - 1) : From(j) \in 1..last /\ From(j) # k
        /\ \A i, j \in 1..(last - 1) : From(i) = From(j) => i = j
        /\ \A i \in 1..last : i # k => \E j \in 1..(last - 1) : From(j) = i
    <3>1. last \in Nat /\ k \in 1..last
      BY <1>1
    <3>2. ASSUME NEW i \in 1..last, i # k
          PROVE  \E j \in 1..(last - 1) : From(j) = i
      <4>1. CASE i = last
        <5>1. k \in 1..(last - 1) /\ From(k) = i
          BY <3>1, <3>2, <4>1
        <5>2. QED
          BY <5>1
      <4>2. CASE i # last
        <5>1. i \in 1..(last - 1) /\ From(i) = i
          BY <3>1, <3>2, <4>2
        <5>2. QED
          BY <5>1
      <4>3. QED
        BY <4>1, <4>2
    <3>3. \A j \in 1..(last - 1) : From(j) \in 1..last /\ From(j) # k
      BY <3>1
    <3>4. \A i, j \in 1..(last - 1) : From(i) = From(j) => i = j
      BY <3>1
    <3>5. QED
      BY <3>1, <3>2, <3>3, <3>4
  <2>10. DOMAIN os2 = 1..(last - 1) /\ DOMAIN ls2 = 1..(last - 1)
    BY <2>7, <2>8
  <2> HIDE DEF last, From
  <2>11. \A j \in DOMAIN os2 : \E i \in DOMAIN os : os2[j] = os[i] /\ ls2[j] = ls[i]
    BY <1>1, <2>7, <2>8, <2>9, <2>10 DEF last
  <2>12. LimitsIn(os2) = LimitsIn(os) \ {owner}
    <3>1. ASSUME NEW o \in LimitsIn(os2) PROVE o \in LimitsIn(os) /\ o # owner
      <4>1. PICK j \in 1..(last - 1) : o = os2[j]
        BY <2>10 DEF LimitsIn
      <4>2. o = os[From(j)] /\ From(j) \in 1..last /\ From(j) # k
        BY <2>7, <2>9, <4>1
      <4>3. QED
        BY <1>1, <2>1, <2>2, <4>2 DEF LimitsIn, last
    <3>2. ASSUME NEW o \in LimitsIn(os), o # owner PROVE o \in LimitsIn(os2)
      <4>1. PICK i \in 1..last : o = os[i]
        BY <1>1 DEF LimitsIn, last
      <4>2. i # k
        BY <2>1, <3>2, <4>1
      <4>3. PICK j \in 1..(last - 1) : From(j) = i
        BY <2>9, <4>2
      <4>4. o = os2[j]
        BY <2>7, <4>1, <4>3
      <4>5. QED
        BY <2>10, <4>4 DEF LimitsIn
    <3>3. QED
      BY <3>1, <3>2
  <2>13. ASSUME NEW i \in DOMAIN os2, NEW j \in DOMAIN os2, os2[i] = os2[j]
         PROVE  i = j
    <3>1. os[From(i)] = os[From(j)]
      BY <2>7, <2>10, <2>13
    <3>2. From(i) = From(j)
      BY <2>2, <2>9, <2>10, <3>1 DEF last
    <3>3. QED
      BY <2>9, <2>10, <3>2
  <2>14. LimitsIn(ls2) \subseteq LimitsIn(ls) /\ LimitsIn(ls) \subseteq Offsets
    <3>1. \A j \in 1..(last - 1) : ls2[j] = ls[From(j)] /\ From(j) \in 1..last
      BY <2>8, <2>9
    <3>2. DOMAIN ls = 1..last
      BY <1>1 DEF last
    <3>3. LimitsIn(ls2) \subseteq LimitsIn(ls)
      BY <2>10, <3>1, <3>2 DEF LimitsIn
    <3>4. LimitsIn(ls) \subseteq Offsets
      BY <1>1 DEF LimitsIn
    <3>5. QED
      BY <3>3, <3>4
  <2>15. regions'.applied \in Offsets \cup {Infinity} /\ IsEarliest(regions'.applied, LimitsIn(ls2))
    <3>1. CASE ls[k] # regions.applied
      <4>1. regions'.applied = regions.applied
        BY <2>5, <3>1
      <4>2. IsEarliest(regions.applied, LimitsIn(ls)) /\ ls[k] \in LimitsIn(ls)
        BY <1>1 DEF Inv, Paired, LimitsIn
      <4>3. /\ regions.applied \in LimitsIn(ls)
            /\ \A other \in LimitsIn(ls) : regions.applied <= other
        BY <4>2 DEF IsEarliest
      <4>4. PICK i \in 1..last : ls[i] = regions.applied
        BY <1>1, <4>3 DEF LimitsIn, last
      <4>5. i # k
        BY <3>1, <4>4
      <4>6. PICK j \in 1..(last - 1) : From(j) = i
        BY <2>9, <4>5
      <4>7. ls2[j] = regions.applied
        BY <2>8, <4>4, <4>6
      <4>8. regions.applied \in LimitsIn(ls2)
        BY <2>10, <4>7 DEF LimitsIn
      <4>9. QED
        BY <1>1, <2>14, <4>1, <4>3, <4>8 DEF IsEarliest
    <3>2. CASE ls[k] = regions.applied
      <4>1. regions'.applied = Earliest(LimitsIn(ls2))
        BY <2>5, <2>6, <3>2
      <4>2. LimitsIn(ls2) \subseteq Nat
        BY <2>14, OffsetsAssumption
      <4>3. IsEarliest(regions'.applied, LimitsIn(ls2))
        BY <4>1, <4>2, EarliestIsEarliest
      <4>4. regions'.applied \in Offsets \cup {Infinity}
        BY <2>14, <4>3 DEF IsEarliest
      <4>5. QED
        BY <4>3, <4>4
    <3>3. QED
      BY <3>1, <3>2
  <2>16. Typed'
    <3>1. regions' = [owners |-> os2, limits |-> ls2, applied |-> regions'.applied]
      BY <2>5
    <3>2. QED
      BY <2>7, <2>8, <2>15, <3>1 DEF Typed
  <2>17. Paired'
    BY <2>7, <2>8, <2>13, <2>15 DEF Paired
  <2>18. QED
    BY <2>11, <2>12, <2>16, <2>17 DEF Inv
<1>4. QED
  BY <1>2, <1>3

(* The two arrays stay parallel and the tokenizer knows the earliest limit
   of the open regions, whatever the order spines open and close them in. *)
THEOREM PairedAlways == Spec => []Paired
<1>1. Init => Inv
  <2> SUFFICES ASSUME Init PROVE Inv
    OBVIOUS
  <2>1. <<>> \in Seq(Owners) /\ <<>> \in Seq(Offsets)
    OBVIOUS
  <2>2. Typed
    BY <2>1 DEF Init, NoSpans, Typed
  <2>3. LimitsIn(<<>>) = {}
    BY DEF LimitsIn
  <2>4. Paired
    BY <2>3 DEF Init, NoSpans, Paired, IsEarliest
  <2>5. QED
    BY <2>2, <2>4 DEF Inv
<1>2. Inv /\ [Next]_regions => Inv'
  <2> SUFFICES ASSUME Inv, [Next]_regions PROVE Inv'
    OBVIOUS
  <2>1. CASE \E owner \in Owners : Close(owner)
    BY <2>1, CloseKeeps
  <2>2. CASE \E owner \in Owners, at \in Offsets : Open(owner, at)
    BY <2>2, OpenKeeps
  <2>3. CASE UNCHANGED regions
    BY <2>3 DEF Inv, Typed, Paired
  <2>4. QED
    BY <2>1, <2>2, <2>3 DEF Next
<1>3. Inv => Paired
  BY DEF Inv
<1>4. QED
  BY <1>1, <1>2, <1>3, PTL DEF Spec

-----------------------------------------------------------------------------
(* Under Inv the map from spines to regions reads the arrays entry by entry. *)
LEMMA OpenNowReads ==
  ASSUME Inv
  PROVE  /\ DOMAIN OpenNow = LimitsIn(regions.owners)
         /\ \A i \in DOMAIN regions.owners : OpenNow[regions.owners[i]] = regions.limits[i]
         /\ \A o \in DOMAIN OpenNow : \E i \in DOMAIN regions.owners : regions.owners[i] = o
<1>1. ASSUME NEW i \in DOMAIN regions.owners
      PROVE  OpenNow[regions.owners[i]] = regions.limits[i]
  <2> DEFINE o == regions.owners[i]
             j == CHOOSE k \in DOMAIN regions.owners : regions.owners[k] = o
  <2>1. j \in DOMAIN regions.owners /\ regions.owners[j] = o
    BY <1>1
  <2>2. j = i
    BY <1>1, <2>1 DEF Inv, Paired
  <2>3. o \in LimitsIn(regions.owners)
    BY <1>1 DEF LimitsIn
  <2>4. OpenNow[o] = LimitOf(o)
    BY <2>3 DEF OpenNow
  <2>5. LimitOf(o) = regions.limits[j]
    BY DEF LimitOf
  <2>6. QED
    BY <2>2, <2>4, <2>5
<1>2. DOMAIN OpenNow = LimitsIn(regions.owners)
  BY DEF OpenNow
<1>3. \A o \in DOMAIN OpenNow : \E i \in DOMAIN regions.owners : regions.owners[i] = o
  BY <1>2 DEF LimitsIn
<1>4. QED
  BY <1>1, <1>2, <1>3

(* What the tokenizer is told is the earliest limit of the map. *)
LEMMA ToldEarliest ==
  ASSUME Inv
  PROVE  IF DOMAIN OpenNow = {} THEN regions.applied = Infinity
         ELSE /\ \E o \in DOMAIN OpenNow : regions.applied = OpenNow[o]
              /\ \A o \in DOMAIN OpenNow : regions.applied <= OpenNow[o]
<1>1. /\ DOMAIN regions.owners = DOMAIN regions.limits
      /\ IsEarliest(regions.applied, LimitsIn(regions.limits))
  BY DEF Inv, Typed, Paired
<1>2. CASE DOMAIN regions.owners = {}
  BY <1>1, <1>2, OpenNowReads DEF IsEarliest, LimitsIn
<1>3. CASE DOMAIN regions.owners # {}
  <2>1. PICK i \in DOMAIN regions.owners : TRUE
    BY <1>3
  <2>2. DOMAIN OpenNow # {} /\ LimitsIn(regions.limits) # {}
    <3>1. regions.owners[i] \in DOMAIN OpenNow
      <4>1. DOMAIN OpenNow = LimitsIn(regions.owners)
        BY OpenNowReads
      <4>2. regions.owners[i] \in LimitsIn(regions.owners)
        BY <2>1 DEF LimitsIn
      <4>3. QED
        BY <4>1, <4>2
    <3>2. regions.limits[i] \in LimitsIn(regions.limits)
      BY <1>1, <2>1 DEF LimitsIn
    <3>3. QED
      BY <3>1, <3>2
  <2>3. /\ regions.applied \in LimitsIn(regions.limits)
        /\ \A other \in LimitsIn(regions.limits) : regions.applied <= other
    BY <1>1, <2>2 DEF IsEarliest
  <2>4. \E o \in DOMAIN OpenNow : regions.applied = OpenNow[o]
    <3>1. PICK k \in DOMAIN regions.owners : regions.applied = regions.limits[k]
      BY <1>1, <2>3 DEF LimitsIn
    <3>2. regions.owners[k] \in DOMAIN OpenNow /\ OpenNow[regions.owners[k]] = regions.limits[k]
      BY OpenNowReads DEF LimitsIn
    <3>3. QED
      BY <3>1, <3>2
  <2>5. ASSUME NEW o \in DOMAIN OpenNow PROVE regions.applied <= OpenNow[o]
    <3>1. PICK k \in DOMAIN regions.owners : regions.owners[k] = o
      BY OpenNowReads
    <3>2. OpenNow[o] = regions.limits[k]
      BY <3>1, OpenNowReads
    <3>3. regions.limits[k] \in LimitsIn(regions.limits)
      BY <1>1 DEF LimitsIn
    <3>4. QED
      BY <2>3, <3>2, <3>3
  <2>6. QED
    BY <2>2, <2>4, <2>5
<1>4. QED
  BY <1>2, <1>3

LEMMA ToldEarliestNext ==
  ASSUME Inv'
  PROVE  Regions!Earliest(regions'.applied)
<1>1. (IF DOMAIN OpenNow = {} THEN regions.applied = Infinity
       ELSE /\ \E o \in DOMAIN OpenNow : regions.applied = OpenNow[o]
            /\ \A o \in DOMAIN OpenNow : regions.applied <= OpenNow[o])'
  BY ToldEarliest, PTL
<1>2. QED
  BY <1>1 DEF Regions!Earliest, Regions!Range

LEMMA OpenNowReadsNext ==
  ASSUME Inv'
  PROVE  /\ DOMAIN OpenNow' = LimitsIn(regions'.owners)
         /\ \A i \in DOMAIN regions'.owners : OpenNow'[regions'.owners[i]] = regions'.limits[i]
         /\ \A o \in DOMAIN OpenNow' : \E i \in DOMAIN regions'.owners : regions'.owners[i] = o
<1>1. (/\ DOMAIN OpenNow = LimitsIn(regions.owners)
       /\ \A i \in DOMAIN regions.owners : OpenNow[regions.owners[i]] = regions.limits[i]
       /\ \A o \in DOMAIN OpenNow : \E i \in DOMAIN regions.owners : regions.owners[i] = o)'
  BY OpenNowReads, PTL
<1>2. LimitsIn(regions.owners)' = LimitsIn(regions'.owners)
  BY DEF LimitsIn
<1>3. QED
  BY <1>1, <1>2

LEMMA OpenMaps ==
  ASSUME Inv, NEW owner \in Owners, NEW at \in Offsets, Open(owner, at)
  PROVE  Regions!Open(owner, at)
<1> DEFINE Opened == [o \in DOMAIN OpenNow \cup {owner} |-> IF o = owner THEN at ELSE OpenNow[o]]
<1>1. Inv'
  BY OpenKeeps
<1>2. LimitsIn(regions.owners)' = LimitsIn(regions'.owners)
  BY DEF LimitsIn
<1>3. DOMAIN OpenNow' = DOMAIN OpenNow \cup {owner}
  BY <1>1, <1>2, OpenKeeps, OpenNowReads, OpenNowReadsNext
<1>4. owner \notin DOMAIN OpenNow
  BY OpenNowReads DEF Open, Entries
<1>5. ASSUME NEW o \in DOMAIN OpenNow' PROVE OpenNow'[o] = Opened[o]
  <2>1. CASE o = owner
    <3>1. OpenNow'[owner] = at
      BY <1>1, OpenKeeps, OpenNowReadsNext
    <3>2. QED
      BY <1>3, <2>1, <3>1
  <2>2. CASE o # owner
    <3>1. PICK i \in DOMAIN regions.owners : regions.owners[i] = o
      BY <1>3, <1>5, <2>2, OpenNowReads
    <3>2. /\ i \in DOMAIN regions'.owners
          /\ regions'.owners[i] = regions.owners[i]
          /\ regions'.limits[i] = regions.limits[i]
      BY OpenKeeps
    <3>3. OpenNow'[regions'.owners[i]] = regions'.limits[i]
      BY <1>1, <3>2, OpenNowReadsNext
    <3>4. OpenNow[regions.owners[i]] = regions.limits[i]
      BY OpenNowReads
    <3>5. QED
      BY <1>3, <1>5, <2>2, <3>1, <3>2, <3>3, <3>4
  <2>3. QED
    BY <2>1, <2>2
<1>6. OpenNow' = Opened
  <2>1. OpenNow' = [o \in DOMAIN OpenNow' |-> OpenNow'[o]]
    BY DEF OpenNow
  <2>2. QED
    BY <1>3, <1>5, <2>1
<1>7. Regions!Earliest(regions'.applied)
  BY <1>1, ToldEarliestNext
<1>8. QED
  BY <1>4, <1>6, <1>7 DEF Regions!Open

LEMMA CloseMaps ==
  ASSUME Inv, NEW owner \in Owners, Close(owner)
  PROVE  Regions!Close(owner)
<1> DEFINE Left == [o \in DOMAIN OpenNow \ {owner} |-> OpenNow[o]]
<1>1. Inv'
  BY CloseKeeps
<1>2. LimitsIn(regions.owners)' = LimitsIn(regions'.owners)
  BY DEF LimitsIn
<1>3. DOMAIN OpenNow' = DOMAIN OpenNow \ {owner}
  BY <1>1, <1>2, CloseKeeps, OpenNowReads, OpenNowReadsNext
<1>4. ASSUME NEW o \in DOMAIN OpenNow' PROVE OpenNow'[o] = Left[o]
  <2>1. PICK j \in DOMAIN regions'.owners : regions'.owners[j] = o
    BY <1>1, <1>4, OpenNowReadsNext
  <2>2. PICK i \in DOMAIN regions.owners : /\ regions'.owners[j] = regions.owners[i]
                                            /\ regions'.limits[j] = regions.limits[i]
    BY <2>1, CloseKeeps
  <2>3. OpenNow'[o] = regions'.limits[j]
    BY <1>1, <2>1, OpenNowReadsNext
  <2>4. OpenNow[o] = regions.limits[i]
    BY <2>1, <2>2, OpenNowReads
  <2>5. QED
    BY <1>3, <1>4, <2>2, <2>3, <2>4
<1>5. OpenNow' = Left
  <2>1. OpenNow' = [o \in DOMAIN OpenNow' |-> OpenNow'[o]]
    BY DEF OpenNow
  <2>2. QED
    BY <1>3, <1>4, <2>1
<1>6. Regions!Earliest(regions'.applied)
  BY <1>1, ToldEarliestNext
<1>7. QED
  BY <1>5, <1>6 DEF Regions!Close, Regions!Restrict

(* The arrays implement the map from spines to their open regions: a step of
   the code is a step of the map. *)
THEOREM Refinement == Spec => ImplementsOpenRegions
<1>1. Init => Inv
  <2>1. <<>> \in Seq(Owners) /\ <<>> \in Seq(Offsets)
    OBVIOUS
  <2>2. LimitsIn(<<>>) = {}
    BY DEF LimitsIn
  <2>3. QED
    BY <2>1, <2>2 DEF Init, Inv, NoSpans, Typed, Paired, IsEarliest
<1>2. Init => Regions!Init
  <2> SUFFICES ASSUME Init PROVE Regions!Init
    OBVIOUS
  <2>1. LimitsIn(regions.owners) = {}
    BY DEF Init, NoSpans, LimitsIn
  <2>2. OpenNow = [o \in {} |-> Infinity]
    BY <2>1 DEF OpenNow
  <2>3. QED
    BY <2>2 DEF Init, NoSpans, Regions!Init
<1>3. Inv /\ [Next]_regions => Inv'
  BY CloseKeeps, OpenKeeps DEF Next, Inv, Typed, Paired
<1>4. Inv /\ [Next]_regions => [Regions!Next]_Regions!vars
  <2> SUFFICES ASSUME Inv, [Next]_regions PROVE [Regions!Next]_Regions!vars
    OBVIOUS
  <2>1. CASE \E owner \in Owners : Close(owner)
    BY <2>1, CloseMaps DEF Regions!Next
  <2>2. CASE \E owner \in Owners, at \in Offsets : Open(owner, at)
    BY <2>2, OpenMaps DEF Regions!Next
  <2>3. CASE UNCHANGED regions
    BY <2>3 DEF Regions!vars, OpenNow, LimitOf, LimitsIn
  <2>4. QED
    BY <2>1, <2>2, <2>3 DEF Next
<1>5. QED
  BY <1>1, <1>2, <1>3, <1>4, PTL DEF Spec, ImplementsOpenRegions, Regions!Spec
=============================================================================
