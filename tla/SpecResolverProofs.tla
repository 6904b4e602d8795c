-------------------------- MODULE SpecResolverProofs --------------------------
(***************************************************************************)
(* What SpecResolver reads and what it gives out, for all documents, links, *)
(* modes and tables: each key is read once, no name or place is given to    *)
(* two, and every reference of the result leads somewhere.                  *)
(***************************************************************************)
EXTENDS SpecResolver, FiniteSetTheorems, SequenceTheorems, WellFoundedInduction, TLAPS

LEMMA WorldStays == ASSUME [Next]_vars PROVE world' = world
<1>1. ASSUME EnterNode PROVE world' = world
  BY <1>1 DEF EnterNode, FollowSchemaRef, StitchRepeated, InlineRef, LeaveRef, FailRef, StitchLocal,
              CopyNode, ReadTarget, Fail, walked
<1>2. ASSUME NEW t, Hoist(t) \/ FailHoist(t) PROVE world' = world
  BY <1>2 DEF Hoist, FailHoist, Fail, ReadTarget, walked
<1>3. ASSUME NEW k, Stitch(k) \/ SkipStitch(k) \/ FailStitch(k) PROVE world' = world
  BY <1>3 DEF Stitch, SkipStitch, FailStitch, Fail, ReadTarget, walked
<1>4. ASSUME WalkChild \/ LeaveNode \/ WalkDone \/ HoistDone \/ HoistsDone \/ StitchDone \/ StitchesDone
      PROVE  world' = world
  BY <1>4 DEF WalkChild, LeaveNode, WalkDone, HoistDone, HoistsDone, StitchDone, StitchesDone, walked
<1>5. QED
  BY <1>1, <1>2, <1>3, <1>4 DEF Next, vars

-----------------------------------------------------------------------------
(* Reading.  What was read is kept, as a document or as a hole for the whole
   file, and is listed; what is claimed is listed before it is read. *)
Kept(d) == d \in docs \/ KnownMissing(d)

Reading ==
  /\ reads \in [ReaderKeys -> {0, 1}]
  /\ \A d \in ReaderKeys : reads[d] = 1 => Kept(d) /\ d \in sources
  /\ \A t \in targets : t[1] \in sources

(* A step reads at most one target, which is listed then or was before. *)
Reads(t) == ReadTarget(t) /\ t[1] \in sources' /\ sources \subseteq sources'

Quiet ==
  UNCHANGED <<docs, reads, holes>> /\ sources \subseteq sources'

LEMMA EnterReads ==
  ASSUME EnterNode
  PROVE  /\ Quiet \/ \E t : Reads(t)
         /\ targets' = targets \/ \E t : targets' = targets \union {t} /\ t[1] \in sources'
<1>1. CASE FollowSchemaRef
  BY <1>1 DEF FollowSchemaRef, Claim, hoists, walked, Quiet
<1>2. CASE StitchRepeated \/ StitchLocal \/ CopyNode
  BY <1>2 DEF StitchRepeated, StitchLocal, CopyNode, hoists, walked, Quiet
<1>3. CASE InlineRef
  BY <1>3 DEF InlineRef, hoists, Reads
<1>4. CASE LeaveRef
  BY <1>4 DEF LeaveRef, hoists, Reads
<1>5. CASE FailRef
  BY <1>5 DEF FailRef, Fail, hoists, Reads
<1>6. QED
  BY <1>1, <1>2, <1>3, <1>4, <1>5 DEF EnterNode

LEMMA StepReads ==
  ASSUME [Next]_vars, Reading
  PROVE  /\ Quiet \/ \E t : Reads(t)
         /\ targets' = targets \/ \E t : targets' = targets \union {t} /\ t[1] \in sources'
<1>1. ASSUME NEW t \in targets, Hoist(t) PROVE Reads(t) /\ targets' = targets
  BY <1>1 DEF Hoist, Reads, Reading
<1>2. ASSUME NEW t, FailHoist(t) PROVE Reads(t) /\ targets' = targets
  BY <1>2 DEF FailHoist, Fail, Reads, hoists
<1>3. ASSUME NEW k, Stitch(k) PROVE Reads(StitchTarget(k)) /\ targets' = targets
  BY <1>3 DEF Stitch, Reads, hoists, StitchTarget
<1>4. ASSUME NEW k, FailStitch(k) PROVE Reads(StitchTarget(k)) /\ targets' = targets
  BY <1>4 DEF FailStitch, Fail, Reads, hoists
<1>5. ASSUME NEW k, SkipStitch(k) PROVE Quiet /\ targets' = targets
  BY <1>5 DEF SkipStitch, Quiet, walked, hoists
<1>6. ASSUME WalkChild \/ LeaveNode \/ WalkDone \/ HoistDone \/ HoistsDone \/ StitchDone \/ StitchesDone
             \/ UNCHANGED vars
      PROVE  Quiet /\ targets' = targets
  BY <1>6 DEF WalkChild, LeaveNode, WalkDone, HoistDone, HoistsDone, StitchDone, StitchesDone, walked,
              hoists, vars, Quiet
<1>7. QED
  BY <1>1, <1>2, <1>3, <1>4, <1>5, <1>6, EnterReads DEF Next

(* The first reading of a key is the only one: the reader is asked only
   for what is not kept, and what it was asked for is kept. *)
LEMMA ReadsOnce ==
  ASSUME Reading, NEW t, Reads(t), world' = world
  PROVE  /\ reads' \in [ReaderKeys -> {0, 1}]
         /\ \A d \in ReaderKeys : reads'[d] = 1 => Kept(d)' /\ d \in sources'
<1>1. reads' = IF Kept(t[1]) THEN reads ELSE [reads EXCEPT ![t[1]] = @ + 1]
  BY DEF Reads, ReadTarget, ReadDoc, Kept
<1>2. \A d \in ReaderKeys : Kept(d) => Kept(d)'
  BY DEF Reads, ReadTarget, Kept, KnownMissing
<1>3. Kept(t[1])'
  <2>1. CASE Readable(t)
    BY <2>1 DEF Reads, ReadTarget, Kept
  <2>2. CASE ~Readable(t)
    BY <2>2 DEF Reads, ReadTarget, Kept, KnownMissing, Exists, HoleOf
  <2>3. QED
    BY <2>1, <2>2
<1>4. CASE Kept(t[1])
  BY <1>1, <1>2, <1>4 DEF Reading, Reads
<1>5. CASE ~Kept(t[1])
  <2>1. t[1] \in ReaderKeys => reads[t[1]] = 0
    BY <1>5 DEF Reading
  <2>2. reads' = [reads EXCEPT ![t[1]] = @ + 1]
    BY <1>1, <1>5
  <2>3. reads' \in [ReaderKeys -> {0, 1}]
    <3>1. reads' = [d \in ReaderKeys |-> IF d = t[1] THEN reads[t[1]] + 1 ELSE reads[d]]
      BY <2>2 DEF Reading
    <3>2. \A d \in ReaderKeys : reads'[d] \in {0, 1}
      BY <2>1, <3>1 DEF Reading
    <3>3. QED
      BY <3>1, <3>2
  <2>4. \A d \in ReaderKeys : d # t[1] => reads'[d] = reads[d]
    BY <2>2 DEF Reading
  <2>5. QED
    BY <1>2, <1>3, <2>3, <2>4 DEF Reading, Reads
<1>6. QED
  BY <1>4, <1>5

LEMMA ReadingNext == Reading /\ [Next]_vars => Reading'
<1>1. SUFFICES ASSUME Reading, [Next]_vars PROVE Reading'
  OBVIOUS
<1>2. world' = world
  BY <1>1, WorldStays
<1>3. ReaderKeys' = ReaderKeys
  BY <1>2 DEF ReaderKeys
<1>4. sources \subseteq sources'
  BY <1>1, StepReads DEF Quiet, Reads
<1>5. \A t \in targets' : t[1] \in sources'
  BY <1>1, <1>4, StepReads DEF Reading
<1>6. CASE Quiet
  BY <1>1, <1>4, <1>5, <1>6, <1>3 DEF Quiet, Reading, Kept, KnownMissing
<1>7. CASE \E t : Reads(t)
  BY <1>1, <1>2, <1>5, <1>7, <1>3, ReadsOnce DEF Reading
<1>8. QED
  BY <1>1, <1>6, <1>7, StepReads

(* One reading per key of the reader, for all documents: also of one that
   cannot be read, that the walk, the hoists and the stitches all ask for
   (readDoc).  The entry has two keys when its spelling is not its identity. *)
THEOREM ReadOnceAlways == Spec => []ReadOnce
<1>1. Init => Reading
  <2>1. SUFFICES ASSUME Init PROVE Reading
    OBVIOUS
  <2>2. /\ reads = [d \in ReaderKeys |-> IF d = world.entry THEN 1 ELSE 0]
        /\ docs = {world.entry} /\ sources = {world.entry} /\ targets = {}
    BY <2>1 DEF Init
  <2>3. reads \in [ReaderKeys -> {0, 1}]
    BY <2>2
  <2>4. \A d \in ReaderKeys : reads[d] = 1 => d = world.entry
    BY <2>2
  <2>5. QED
    BY <2>2, <2>3, <2>4 DEF Reading, Kept
<1>2. Reading => ReadOnce
  BY DEF Reading, ReadOnce
<1>3. QED
  BY <1>1, <1>2, ReadingNext, PTL DEF Spec

-----------------------------------------------------------------------------
(* Numbers.  The least of a set of naturals is one of them, and of more
   numbered names than are taken one is free. *)
LEMMA LeastOf ==
  ASSUME NEW S \in SUBSET Nat, S # {}
  PROVE  \E n \in S : \A m \in S : n <= m
<1>1. PICK n \in S : \A m \in S : <<m, n>> \notin OpToRel(<, Nat)
  BY NatLessThanWellFounded, WFMin
<1>2. ASSUME NEW j \in Nat, NEW k \in Nat, <<k, j>> \notin OpToRel(<, Nat) PROVE j <= k
  BY <1>2 DEF OpToRel
<1>3. QED
  BY <1>1, <1>2

LEMMA OneIsFree ==
  ASSUME NEW T, IsFiniteSet(T), NEW low \in Nat, NEW high \in Nat, high - low >= Cardinality(T),
         NEW f, f = [n \in low .. high |-> f[n]],
         \A m, n \in low .. high : f[m] = f[n] => m = n
  PROVE  \E n \in low .. high : f[n] \notin T
<1>1. SUFFICES ASSUME \A n \in low .. high : f[n] \in T PROVE FALSE
  OBVIOUS
<1>2. f \in [low .. high -> T]
  BY <1>1
<1>3. Cardinality(T) \in Nat
  BY FS_CardinalityType
<1>4. IsFiniteSet(low .. high) /\ Cardinality(low .. high) = high - low + 1
  BY <1>3, FS_Interval
<1>5. Cardinality(T) < Cardinality(low .. high)
  BY <1>3, <1>4
<1>6. QED
  BY <1>2, <1>4, <1>5, FS_PigeonHole

-----------------------------------------------------------------------------
(* Names. *)

(* The suffix is widened until the name is free. *)
LEMMA NewNameIsFree ==
  ASSUME NEW t, NEW taken, IsFiniteSet(taken)
  PROVE  NewName(t, taken) \notin taken
<1>1. CASE Derived[t] \notin taken \/ <<Derived[t][1], Hashes[t]>> \notin taken
  BY <1>1 DEF NewName
<1>2. CASE Derived[t] \in taken /\ <<Derived[t][1], Hashes[t]>> \in taken
  <2> DEFINE high == Cardinality(taken) + 2
  <2> DEFINE f == [n \in 2 .. high |-> Widened(t, n)]
  <2> DEFINE free == {n \in 2 .. high : Widened(t, n) \notin taken}
  <2>1. Cardinality(taken) \in Nat
    BY FS_CardinalityType
  <2>2. \A m, n \in 2 .. high : f[m] = f[n] => m = n
    BY DEF Widened
  <2>3. \E n \in 2 .. high : f[n] \notin taken
    <3>1. f = [n \in 2 .. high |-> f[n]]
      OBVIOUS
    <3>2. high \in Nat /\ high - 2 >= Cardinality(taken)
      BY <2>1
    <3>3. QED
      BY <2>2, <3>1, <3>2, OneIsFree
  <2>4. free # {} /\ free \in SUBSET Nat
    BY <2>1, <2>3
  <2>5. PICK n \in free : \A m \in free : n <= m
    BY <2>4, LeastOf
  <2>6. /\ n \in 2 .. high /\ Widened(t, n) \notin taken
        /\ \A m \in 2 .. n - 1 : Widened(t, m) \in taken
    BY <2>1, <2>5
  <2>7. QED
    BY <1>2, <2>6 DEF NewName
<1>3. QED
  BY <1>1, <1>2

(* Names are given once, and only finitely many are taken. *)
Naming ==
  /\ NamesOwn
  /\ names = [t \in DOMAIN names |-> names[t]]
  /\ IsFiniteSet(Taken(names))

LEMMA NameForKeeps ==
  ASSUME Naming, NEW t, names' = NameFor(names, t), world' = world
  PROVE  Naming'
<1>1. CASE t \in DOMAIN names
  BY <1>1 DEF NameFor, Naming, NamesOwn, BoundSlots, SlotTarget, Taken
<1>2. CASE t \notin DOMAIN names
  <2> DEFINE new == NewName(t, Taken(names))
  <2>1. new \notin Taken(names)
    BY NewNameIsFree DEF Naming
  <2>2. names' = [u \in DOMAIN names \union {t} |-> IF u = t THEN new ELSE names[u]]
    BY <1>2 DEF NameFor
  <2>3. Taken(names') = Taken(names) \union {new}
    BY <1>2, <2>2 DEF Taken
  <2>4. IsFiniteSet(Taken(names'))
    BY <2>3, FS_AddElement DEF Naming
  <2>5. /\ DOMAIN names' = DOMAIN names \union {t} /\ names'[t] = new
        /\ \A u \in DOMAIN names : names'[u] = names[u]
    BY <1>2, <2>2
  <2>6. \A u \in DOMAIN names : names[u] # new
    BY <2>1 DEF Taken
  <2>7. new \notin DOMAIN Slots
    BY <2>1 DEF Taken
  <2>8. NamesOwn'
    BY <2>5, <2>6, <2>7 DEF Naming, NamesOwn, BoundSlots, SlotTarget
  <2>9. Taken(names)' = Taken(names')
    BY DEF Taken
  <2>10. QED
    BY <2>2, <2>4, <2>5, <2>8, <2>9 DEF Naming
<1>3. QED
  BY <1>1, <1>2

LEMMA StepNames ==
  ASSUME [Next]_vars PROVE names' = names \/ \E t : names' = NameFor(names, t)
<1>1. ASSUME EnterNode PROVE names' = names \/ \E t : names' = NameFor(names, t)
  BY <1>1 DEF EnterNode, FollowSchemaRef, Claim, StitchRepeated, InlineRef, LeaveRef, FailRef,
              StitchLocal, CopyNode, Fail, hoists
<1>2. ASSUME NEW t, Hoist(t) \/ FailHoist(t) PROVE names' = names
  BY <1>2 DEF Hoist, FailHoist, Fail, hoists
<1>3. ASSUME NEW k, Stitch(k) \/ SkipStitch(k) \/ FailStitch(k) PROVE names' = names
  BY <1>3 DEF Stitch, SkipStitch, FailStitch, Fail, hoists
<1>4. ASSUME WalkChild \/ LeaveNode \/ WalkDone \/ HoistDone \/ HoistsDone \/ StitchDone \/ StitchesDone
             \/ UNCHANGED vars
      PROVE  names' = names
  BY <1>4 DEF WalkChild, LeaveNode, WalkDone, HoistDone, HoistsDone, StitchDone, StitchesDone, hoists, vars
<1>5. QED
  BY <1>1, <1>2, <1>3, <1>4 DEF Next

LEMMA NamingNext == Naming /\ [Next]_vars => Naming'
<1>1. SUFFICES ASSUME Naming, [Next]_vars PROVE Naming'
  OBVIOUS
<1>2. world' = world
  BY <1>1, WorldStays
<1>3. CASE names' = names
  BY <1>1, <1>2, <1>3 DEF Naming, NamesOwn, BoundSlots, SlotTarget, Taken
<1>4. CASE \E t : names' = NameFor(names, t)
  BY <1>1, <1>2, <1>4, NameForKeeps
<1>5. QED
  BY <1>1, <1>3, <1>4, StepNames

(* The author's own slots come first: each names what it refers to. *)
LEMMA NamingInit == Init => Naming
<1>1. SUFFICES ASSUME Init PROVE Naming
  OBVIOUS
<1>2. PICK f : /\ names = f
               /\ f \in [{SlotTarget(world, s) : s \in BoundSlots(world)} -> BoundSlots(world)]
               /\ \A t \in DOMAIN f : SlotTarget(world, f[t]) = t
  BY <1>1 DEF Init, Bindings
<1>3. BoundSlots(world) \subseteq DOMAIN Slots
  BY DEF BoundSlots
<1>4. Taken(names) = DOMAIN Slots
  BY <1>2, <1>3 DEF Taken
<1>5. NamesOwn
  BY <1>2 DEF NamesOwn
<1>6. names = [t \in DOMAIN names |-> names[t]]
  BY <1>2
<1>7. QED
  BY <1>4, <1>5, <1>6, ResolverAssumption DEF Naming

(* Whatever names suggest themselves and however suffixes collide, each hoisted
   schema gets a component of its own, and none of the author's is replaced
   but by what its own $ref names (HoistNames). *)
THEOREM NamesOwnAlways == Spec => []NamesOwn
<1>1. Naming => NamesOwn
  BY DEF Naming
<1>2. QED
  BY <1>1, NamingInit, NamingNext, PTL DEF Spec

-----------------------------------------------------------------------------
(* Places. *)

IsMount(m) == m \in Seq(Range(m)) \ {<<>>}

(* A place of one token overlaps only with those that begin with the token. *)
LEMMA OverlapsAtFirst ==
  ASSUME NEW x, NEW p, IsMount(p), IsPrefix(p, <<x>>) \/ IsPrefix(<<x>>, p)
  PROVE  p[1] = x
<1>1. p \in Seq(Range(p)) /\ Len(p) \in Nat /\ Len(p) >= 1
  BY DEF IsMount
<1>2. <<x>> \in Seq({x}) /\ Len(<<x>>) = 1 /\ <<x>>[1] = x
  OBVIOUS
<1>3. SubSeq(p, 1, 1)[1] = p[1] /\ SubSeq(<<x>>, 1, 1)[1] = x
  BY <1>1, <1>2, SubSeqProperties
<1>4. CASE IsPrefix(p, <<x>>)
  BY <1>1, <1>2, <1>3, <1>4 DEF IsPrefix
<1>5. CASE IsPrefix(<<x>>, p)
  BY <1>1, <1>2, <1>3, <1>5 DEF IsPrefix
<1>6. QED
  BY <1>4, <1>5

(* A fragment is put where it came from, or numbered until nothing is there. *)
LEMMA MountForIsFree ==
  ASSUME NEW k, NEW taken, IsFiniteSet(taken), \A p \in taken : IsMount(p)
  PROVE  ~Overlaps(MountFor(k, taken), taken)
<1> DEFINE plain == PlainMount(<<k.doc, k.at>>)
<1>1. CASE ~Overlaps(plain, taken)
  BY <1>1 DEF MountFor
<1>2. CASE Overlaps(plain, taken)
  <2> DEFINE high == Cardinality(taken) + 1
  <2> DEFINE token(n) == <<k.doc, k.at, k.kind, n>>
  <2> DEFINE f == [n \in 1 .. high |-> token(n)]
  <2> DEFINE firsts == {p[1] : p \in taken}
  <2> DEFINE free == {n \in 1 .. high : ~Overlaps(OwnMount(k, n), taken)}
  <2>1. Cardinality(taken) \in Nat
    BY FS_CardinalityType
  <2>2. IsFiniteSet(firsts) /\ Cardinality(firsts) <= Cardinality(taken)
    <3> DEFINE g == [p \in taken |-> p[1]]
    <3>1. g \in Surjection(taken, firsts)
      BY DEF Surjection
    <3>2. QED
      BY <3>1, FS_Surjection
  <2>3. \E n \in 1 .. high : f[n] \notin firsts
    <3>1. f = [n \in 1 .. high |-> f[n]] /\ \A m, n \in 1 .. high : f[m] = f[n] => m = n
      OBVIOUS
    <3>2. Cardinality(firsts) \in Nat
      BY <2>2, FS_CardinalityType
    <3>3. high \in Nat /\ high - 1 >= Cardinality(firsts)
      BY <2>1, <2>2, <3>2
    <3>4. QED
      BY <2>2, <3>1, <3>3, OneIsFree
  <2>4. ASSUME NEW n \in 1 .. high, token(n) \notin firsts PROVE ~Overlaps(OwnMount(k, n), taken)
    BY <2>4, OverlapsAtFirst DEF Overlaps, OwnMount
  <2>5. free # {} /\ free \in SUBSET Nat
    <3>1. PICK n \in 1 .. high : token(n) \notin firsts
      BY <2>3
    <3>2. n \in free
      BY <2>4, <3>1
    <3>3. 1 .. high \subseteq Nat
      BY <2>1
    <3>4. QED
      BY <3>2, <3>3
  <2>6. PICK n \in free : \A m \in free : n <= m
    BY <2>5, LeastOf
  <2>7. MountFor(k, taken) = OwnMount(k, CHOOSE i \in free : \A m \in free : i <= m)
    BY <1>2 DEF MountFor
  <2>8. (CHOOSE i \in free : \A m \in free : i <= m) \in free
    BY <2>6
  <2>9. QED
    BY <2>7, <2>8
<1>3. QED
  BY <1>1, <1>2

LEMMA OfItsRange == ASSUME NEW S, NEW s \in Seq(S) PROVE s \in Seq(Range(s))
  BY DEF Range

LEMMA MountForIsMount ==
  ASSUME NEW k, k.at \in Seq(STRING), NEW taken PROVE IsMount(MountFor(k, taken))
<1>1. ASSUME NEW m, NEW S, m \in Seq(S), m # <<>> PROVE IsMount(m)
  BY <1>1, OfItsRange DEF IsMount
<1>2. ASSUME NEW x PROVE IsMount(<<x>>)
  <2>1. <<x>> \in Seq({x}) /\ <<x>> # <<>>
    OBVIOUS
  <2>2. QED
    BY <1>1, <2>1
<1>3. ASSUME NEW x PROVE IsMount(<<x>> \o k.at)
  <2> DEFINE S == {x} \union STRING
  <2>1. <<x>> \in Seq(S) /\ k.at \in Seq(S) /\ Len(<<x>>) = 1 /\ Len(k.at) \in Nat
    OBVIOUS
  <2>2. <<x>> \o k.at \in Seq(S) /\ Len(<<x>> \o k.at) = 1 + Len(k.at)
    BY <2>1, ConcatProperties
  <2>3. <<x>> \o k.at # <<>>
    BY <2>1, <2>2
  <2>4. QED
    BY <1>1, <2>2, <2>3
<1>4. QED
  BY <1>2, <1>3 DEF MountFor, PlainMount, OwnMount

(* Places never overlap, and only finitely many are taken. *)
Mounting ==
  /\ world \in Worlds
  /\ MountsOwn
  /\ mounts = [k \in DOMAIN mounts |-> mounts[k]]
  /\ IsFiniteSet(TakenMounts(mounts))
  /\ \A p \in TakenMounts(mounts) : IsMount(p)

LEMMA ReservedKeeps ==
  ASSUME Mounting, NEW k, k.at \in Seq(STRING), mounts' = Reserved(mounts, k), world' = world
  PROVE  Mounting'
<1>1. CASE k \in DOMAIN mounts
  BY <1>1 DEF Reserved, Mounting, MountsOwn, TakenMounts
<1>2. CASE k \notin DOMAIN mounts
  <2> DEFINE new == MountFor(k, TakenMounts(mounts))
  <2>1. ~Overlaps(new, TakenMounts(mounts)) /\ IsMount(new)
    BY MountForIsFree, MountForIsMount DEF Mounting
  <2>2. mounts' = [j \in DOMAIN mounts \union {k} |-> IF j = k THEN new ELSE mounts[j]]
    BY <1>2 DEF Reserved
  <2>3. TakenMounts(mounts)' = TakenMounts(mounts) \union {new}
    BY <1>2, <2>2 DEF TakenMounts
  <2>4. IsFiniteSet(TakenMounts(mounts)') /\ \A p \in TakenMounts(mounts)' : IsMount(p)
    BY <2>1, <2>3, FS_AddElement DEF Mounting
  <2>5. /\ DOMAIN mounts' = DOMAIN mounts \union {k} /\ mounts'[k] = new
        /\ \A j \in DOMAIN mounts : mounts'[j] = mounts[j] /\ j # k
    BY <1>2, <2>2
  <2>6. \A p \in TakenMounts(mounts) : ~IsPrefix(p, new) /\ ~IsPrefix(new, p)
    BY <2>1 DEF Overlaps
  <2>7. \A j \in DOMAIN mounts : mounts[j] \in TakenMounts(mounts)
    BY DEF TakenMounts
  <2>8. world.mounts \subseteq TakenMounts(mounts)
    BY DEF TakenMounts
  <2>9. ASSUME NEW j \in DOMAIN mounts', NEW i \in DOMAIN mounts' \ {j}
        PROVE  ~IsPrefix(mounts'[i], mounts'[j]) /\ ~IsPrefix(mounts'[j], mounts'[i])
    <3>1. CASE j = k
      BY <2>5, <2>6, <2>7, <3>1
    <3>2. CASE i = k
      BY <2>5, <2>6, <2>7, <3>2
    <3>3. CASE i # k /\ j # k
      BY <2>5, <3>3 DEF Mounting, MountsOwn, Overlaps
    <3>4. QED
      BY <3>1, <3>2, <3>3
  <2>10. ASSUME NEW j \in DOMAIN mounts', NEW p \in world.mounts
         PROVE  ~IsPrefix(p, mounts'[j]) /\ ~IsPrefix(mounts'[j], p)
    <3>1. CASE j = k
      BY <2>5, <2>6, <2>8, <3>1
    <3>2. CASE j # k
      BY <2>5, <3>2 DEF Mounting, MountsOwn, Overlaps
    <3>3. QED
      BY <3>1, <3>2
  <2>11. MountsOwn'
    BY <2>9, <2>10 DEF MountsOwn, Overlaps
  <2>12. QED
    BY <2>2, <2>4, <2>5, <2>11 DEF Mounting
<1>3. QED
  BY <1>1, <1>2

LEMMA StepMounts ==
  ASSUME [Next]_vars, world \in Worlds
  PROVE  mounts' = mounts \/ \E k : k.at \in Seq(STRING) /\ mounts' = Reserved(mounts, k)
<1>1. ASSUME HasRef(Top) PROVE Link.at \in Seq(STRING)
  BY <1>1, ResolverAssumption DEF HasRef, Link, WorldOK, Links
<1>2. CASE StitchRepeated
  BY <1>1, <1>2 DEF StitchRepeated, External, QueueStitch, StitchKey, Target
<1>3. CASE StitchLocal
  BY <1>1, <1>3 DEF StitchLocal, QueueStitch, StitchKey
<1>4. ASSUME FollowSchemaRef \/ InlineRef \/ LeaveRef \/ FailRef \/ CopyNode PROVE mounts' = mounts
  BY <1>4 DEF FollowSchemaRef, InlineRef, LeaveRef, FailRef, CopyNode, Fail
<1>5. ASSUME NEW t, Hoist(t) \/ FailHoist(t) PROVE mounts' = mounts
  BY <1>5 DEF Hoist, FailHoist, Fail
<1>6. ASSUME NEW k, Stitch(k) \/ SkipStitch(k) \/ FailStitch(k) PROVE mounts' = mounts
  BY <1>6 DEF Stitch, SkipStitch, FailStitch, Fail
<1>7. ASSUME WalkChild \/ LeaveNode \/ WalkDone \/ HoistDone \/ HoistsDone \/ StitchDone \/ StitchesDone
             \/ UNCHANGED vars
      PROVE  mounts' = mounts
  BY <1>7 DEF WalkChild, LeaveNode, WalkDone, HoistDone, HoistsDone, StitchDone, StitchesDone, vars
<1>8. QED
  BY <1>2, <1>3, <1>4, <1>5, <1>6, <1>7 DEF Next, EnterNode

LEMMA MountingNext == Mounting /\ [Next]_vars => Mounting'
<1>1. SUFFICES ASSUME Mounting, [Next]_vars PROVE Mounting'
  OBVIOUS
<1>2. world' = world
  BY <1>1, WorldStays
<1>3. CASE mounts' = mounts
  BY <1>1, <1>2, <1>3 DEF Mounting, MountsOwn, TakenMounts
<1>4. CASE \E k : k.at \in Seq(STRING) /\ mounts' = Reserved(mounts, k)
  BY <1>1, <1>2, <1>4, ReservedKeeps
<1>5. QED
  BY <1>1, <1>3, <1>4, StepMounts DEF Mounting

(* Whatever fragments are asked for, inside one another, as several kinds, or
   where the author wrote something, no place overlaps with another
   (StitchedExternals). *)
THEOREM MountsOwnAlways == Spec => []MountsOwn
<1>1. Init => Mounting
  <2>1. SUFFICES ASSUME Init PROVE Mounting
    OBVIOUS
  <2>2. mounts = <<>> /\ world \in Worlds
    BY <2>1 DEF Init
  <2>3. DOMAIN mounts = {}
    BY <2>2
  <2>4. TakenMounts(mounts) = world.mounts
    BY <2>3 DEF TakenMounts
  <2>5. IsFiniteSet(world.mounts) /\ \A m \in world.mounts : IsMount(m)
    BY <2>2, ResolverAssumption DEF WorldOK, IsMount
  <2>6. QED
    BY <2>2, <2>3, <2>4, <2>5 DEF Mounting, MountsOwn
<1>2. Mounting => MountsOwn
  BY DEF Mounting
<1>3. QED
  BY <1>1, <1>2, MountingNext, PTL DEF Spec

-----------------------------------------------------------------------------
(* Where references lead. *)

LEMMA QueueGrows ==
  ASSUME NEW q, q \in Seq(Range(q)), NEW x
  PROVE  Append(q, x) \in Seq(Range(Append(q, x))) /\ Range(Append(q, x)) = Range(q) \union {x}
<1>1. q \in Seq(Range(q) \union {x}) /\ Len(q) \in Nat
  BY DEF Range
<1>2. /\ Append(q, x) \in Seq(Range(q) \union {x}) /\ Len(Append(q, x)) = Len(q) + 1
      /\ \A i \in 1 .. Len(q) : Append(q, x)[i] = q[i]
      /\ Append(q, x)[Len(q) + 1] = x
  BY <1>1
<1>3. DOMAIN q = 1 .. Len(q) /\ DOMAIN Append(q, x) = 1 .. (Len(q) + 1)
  BY <1>1, <1>2
<1>4. Range(Append(q, x)) = Range(q) \union {x}
  <2>1. ASSUME NEW y \in Range(Append(q, x)) PROVE y \in Range(q) \union {x}
    BY <1>1, <1>2, <1>3, <2>1 DEF Range
  <2>2. ASSUME NEW y \in Range(q) PROVE y \in Range(Append(q, x))
    BY <1>1, <1>2, <1>3, <2>2 DEF Range
  <2>3. x \in Range(Append(q, x))
    BY <1>1, <1>2, <1>3 DEF Range
  <2>4. QED
    BY <2>1, <2>2, <2>3
<1>5. QED
  BY <1>2, <1>4

LEMMA QueueShrinks ==
  ASSUME NEW q, q \in Seq(Range(q)), q # <<>>
  PROVE  Tail(q) \in Seq(Range(Tail(q))) /\ Range(q) \subseteq Range(Tail(q)) \union {Head(q)}
<1>1. Len(q) \in Nat /\ Len(q) >= 1 /\ DOMAIN q = 1 .. Len(q) /\ Head(q) = q[1]
  OBVIOUS
<1>2. /\ Tail(q) \in Seq(Range(q)) /\ Len(Tail(q)) = Len(q) - 1
      /\ \A i \in 1 .. Len(q) - 1 : Tail(q)[i] = q[i + 1]
  BY <1>1
<1>3. DOMAIN Tail(q) = 1 .. Len(q) - 1
  BY <1>2
<1>4. Tail(q) \in Seq(Range(Tail(q)))
  BY <1>2, OfItsRange
<1>5. ASSUME NEW i \in 2 .. Len(q) PROVE q[i] \in Range(Tail(q))
  <2>1. i - 1 \in 1 .. Len(q) - 1 /\ Tail(q)[i - 1] = q[i]
    BY <1>1, <1>2
  <2>2. QED
    BY <1>3, <2>1 DEF Range
<1>6. ASSUME NEW y \in Range(q) PROVE y \in Range(Tail(q)) \union {Head(q)}
  <2>1. PICK i \in 1 .. Len(q) : y = q[i]
    BY <1>1 DEF Range
  <2>2. i = 1 \/ i \in 2 .. Len(q)
    BY <1>1
  <2>3. QED
    BY <1>1, <1>5, <2>1, <2>2
<1>7. QED
  BY <1>4, <1>6

LEMMA Enqueued ==
  ASSUME NEW q, q \in Seq(Range(q)), NEW x
  PROVE  Enqueue(q, x) \in Seq(Range(Enqueue(q, x))) /\ Range(Enqueue(q, x)) = Range(q) \union {x}
  BY QueueGrows DEF Enqueue

(* What was claimed waits or was hoisted, and a name that is missing is that
   of a hole. *)
Claims ==
  /\ hoistQ \in Seq(Range(hoistQ))
  /\ targets \subseteq DOMAIN names
  /\ missing \subseteq {names[t] : t \in DOMAIN names}
  /\ \A t \in targets : t \in Range(hoistQ) \/ names[t] \in hoisted
  /\ \A t \in DOMAIN names : names[t] \in missing => HoleOf(t) \in holes

(* A fragment that was asked for waits, is walked, has its place, or was found
   to be a hole. *)
Reached(k) ==
  \/ k \in Range(stitchQ) \/ k \in placed \/ HoleOf(StitchTarget(k)) \in holes
  \/ phase \in {"stitches", "failed"} /\ current = <<k>>

Leads(r) ==
  \/ r.how = "entry"
  \/ r.how = "hoist" /\ r.to \in targets
  \/ r.how = "stitch" /\ Reached(r.to)
  \/ r.how = "left" /\ HoleOf(r.to) \in holes

Tracked == stitchQ \in Seq(Range(stitchQ)) /\ \A r \in refs : Leads(r)

Halted == phase = "done" => hoistQ = <<>> /\ stitchQ = <<>> /\ current = <<>> /\ stack = <<>>

LEMMA HaltedNext == Halted /\ [Next]_vars => Halted'
<1>1. SUFFICES ASSUME Halted, [Next]_vars PROVE Halted'
  OBVIOUS
<1>2. ASSUME EnterNode PROVE Halted'
  <2>1. phase # "done"
    BY <1>1, <1>2 DEF EnterNode, Walking, Halted
  <2>2. phase' \in {phase, "failed"}
    BY <1>2 DEF EnterNode, FollowSchemaRef, StitchRepeated, InlineRef, LeaveRef, FailRef, StitchLocal,
                CopyNode, Fail
  <2>3. QED
    BY <2>1, <2>2 DEF Halted
<1>3. ASSUME NEW t, Hoist(t) \/ FailHoist(t) PROVE Halted'
  BY <1>3 DEF Hoist, FailHoist, NextHoist, Fail, Halted
<1>4. ASSUME NEW k, Stitch(k) \/ SkipStitch(k) \/ FailStitch(k) PROVE Halted'
  BY <1>4 DEF Stitch, SkipStitch, FailStitch, NextStitch, Fail, Halted
<1>5. ASSUME WalkChild \/ LeaveNode PROVE Halted'
  BY <1>1, <1>5 DEF WalkChild, LeaveNode, Walking, Halted
<1>6. ASSUME WalkDone \/ HoistDone \/ HoistsDone \/ StitchDone PROVE Halted'
  BY <1>6 DEF WalkDone, HoistDone, HoistsDone, StitchDone, Halted
<1>7. ASSUME StitchesDone PROVE Halted'
  BY <1>7 DEF StitchesDone, Drained, Walking, Halted, hoists, drained
<1>8. ASSUME UNCHANGED vars PROVE Halted'
  BY <1>1, <1>8 DEF vars, Halted
<1>9. QED
  BY <1>1, <1>2, <1>3, <1>4, <1>5, <1>6, <1>7, <1>8 DEF Next

LEMMA HolesStay ==
  ASSUME [Next]_vars PROVE holes \subseteq holes' /\ \A t : HoleOf(t)' = HoleOf(t)
<1>1. holes \subseteq holes'
  <2>1. ASSUME EnterNode PROVE holes \subseteq holes'
    BY <2>1 DEF EnterNode, FollowSchemaRef, StitchRepeated, InlineRef, LeaveRef, FailRef, StitchLocal,
                CopyNode, ReadTarget, Fail, walked
  <2>2. ASSUME NEW t, Hoist(t) \/ FailHoist(t) PROVE holes \subseteq holes'
    BY <2>2 DEF Hoist, FailHoist, Fail, ReadTarget
  <2>3. ASSUME NEW k, Stitch(k) \/ SkipStitch(k) \/ FailStitch(k) PROVE holes \subseteq holes'
    BY <2>3 DEF Stitch, SkipStitch, FailStitch, Fail, ReadTarget, walked
  <2>4. ASSUME WalkChild \/ LeaveNode \/ WalkDone \/ HoistDone \/ HoistsDone \/ StitchDone
               \/ StitchesDone \/ UNCHANGED vars
        PROVE  holes \subseteq holes'
    BY <2>4 DEF WalkChild, LeaveNode, WalkDone, HoistDone, HoistsDone, StitchDone, StitchesDone, walked, vars
  <2>5. QED
    BY <2>1, <2>2, <2>3, <2>4 DEF Next
<1>2. world' = world
  BY WorldStays
<1>3. QED
  BY <1>1, <1>2 DEF HoleOf, Readable

LEMMA ClaimKeeps ==
  ASSUME Claims, Naming, NEW t, Claim(t), UNCHANGED <<hoisted, missing>>,
         holes \subseteq holes', \A u : HoleOf(u)' = HoleOf(u)
  PROVE  Claims'
<1>1. names' = NameFor(names, t) /\ targets' = targets \union {t}
  BY DEF Claim
<1>2. hoistQ' \in Seq(Range(hoistQ')) /\ Range(hoistQ) \union {u \in {t} : t \notin targets} \subseteq Range(hoistQ')
  <2>1. CASE t \in targets
    BY <2>1 DEF Claim, Claims
  <2>2. CASE t \notin targets
    BY <2>2, QueueGrows DEF Claim, Claims
  <2>3. QED
    BY <2>1, <2>2
<1>3. /\ DOMAIN names' = DOMAIN names \union {t}
      /\ \A u \in DOMAIN names : names'[u] = names[u]
  BY <1>1 DEF NameFor
<1>4. t \notin DOMAIN names => names'[t] \notin Taken(names)
  BY <1>1, NewNameIsFree DEF NameFor, Naming
<1>5. t \notin DOMAIN names => names'[t] \notin missing
  BY <1>4 DEF Claims, Taken
<1>6. targets' \subseteq DOMAIN names'
  BY <1>1, <1>3 DEF Claims
<1>7. \A u \in targets' : u \in Range(hoistQ') \/ names'[u] \in hoisted'
  BY <1>1, <1>2, <1>3 DEF Claims
<1>8. missing' \subseteq {names'[u] : u \in DOMAIN names'}
  BY <1>3 DEF Claims
<1>9. \A u \in DOMAIN names' : names'[u] \in missing' => HoleOf(u) \in holes'
  BY <1>3, <1>5 DEF Claims
<1>10. QED
  BY <1>2, <1>6, <1>7, <1>8, <1>9 DEF Claims, Range

LEMMA HoistKeeps ==
  ASSUME Claims, Naming, NEW t \in targets, Hoist(t),
         holes \subseteq holes', \A u : HoleOf(u)' = HoleOf(u)
  PROVE  Claims'
<1>1. /\ hoistQ # <<>> /\ t = Head(hoistQ) /\ hoistQ' = Tail(hoistQ)
      /\ hoisted' = hoisted \union {names[t]}
      /\ UNCHANGED <<names, targets>>
  BY DEF Hoist, NextHoist
<1>2. hoistQ' \in Seq(Range(hoistQ')) /\ Range(hoistQ) \subseteq Range(hoistQ') \union {t}
  BY <1>1, QueueShrinks DEF Claims
<1>3. \A u \in targets' : u \in Range(hoistQ') \/ names'[u] \in hoisted'
  BY <1>1, <1>2 DEF Claims
<1>4. missing' \subseteq missing \union {names[t]} /\ (missing' # missing => HoleOf(t) \in holes')
  BY DEF Hoist, ReadTarget
<1>5. t \in DOMAIN names
  BY DEF Claims
<1>6. ASSUME NEW u \in DOMAIN names, names[u] \in missing' PROVE HoleOf(u) \in holes'
  <2>1. CASE names[u] \in missing
    BY <2>1 DEF Claims
  <2>2. CASE names[u] \notin missing
    BY <1>4, <1>5, <1>6, <2>2 DEF Naming, NamesOwn
  <2>3. QED
    BY <2>1, <2>2
<1>7. QED
  BY <1>1, <1>2, <1>3, <1>4, <1>5, <1>6 DEF Claims, Range

LEMMA ClaimsNext == Claims /\ Naming /\ [Next]_vars => Claims'
<1>1. SUFFICES ASSUME Claims, Naming, [Next]_vars PROVE Claims'
  OBVIOUS
<1>2. holes \subseteq holes' /\ \A t : HoleOf(t)' = HoleOf(t)
  BY <1>1, HolesStay
<1>3. ASSUME UNCHANGED <<hoistQ, targets, names, missing, hoisted>> PROVE Claims'
  BY <1>1, <1>2, <1>3 DEF Claims, Range
<1>4. ASSUME FollowSchemaRef PROVE Claims'
  <2>1. UNCHANGED <<hoisted, missing>>
    BY <1>4 DEF FollowSchemaRef, drained
  <2>2. CASE UNCHANGED hoists
    BY <1>3, <2>1, <2>2 DEF hoists
  <2>3. CASE \E t : Claim(t)
    BY <1>1, <1>2, <2>1, <2>3, ClaimKeeps
  <2>4. QED
    BY <1>4, <2>2, <2>3 DEF FollowSchemaRef
<1>5. ASSUME EnterNode, ~FollowSchemaRef PROVE Claims'
  BY <1>3, <1>5 DEF EnterNode, StitchRepeated, InlineRef, LeaveRef, FailRef, StitchLocal, CopyNode, Fail,
                    hoists, drained
<1>6. ASSUME NEW t \in targets, Hoist(t) PROVE Claims'
  BY <1>1, <1>2, <1>6, HoistKeeps
<1>7. ASSUME NEW t, FailHoist(t) PROVE Claims'
  BY <1>3, <1>7 DEF FailHoist, Fail, hoists, drained
<1>8. ASSUME NEW k, Stitch(k) \/ SkipStitch(k) \/ FailStitch(k) PROVE Claims'
  BY <1>3, <1>8 DEF Stitch, SkipStitch, FailStitch, Fail, hoists, drained
<1>9. ASSUME WalkChild \/ LeaveNode \/ WalkDone \/ HoistDone \/ HoistsDone \/ StitchDone \/ StitchesDone
             \/ UNCHANGED vars
      PROVE  Claims'
  BY <1>3, <1>9 DEF WalkChild, LeaveNode, WalkDone, HoistDone, HoistsDone, StitchDone, StitchesDone, hoists,
                    drained, vars
<1>10. QED
  BY <1>1, <1>4, <1>5, <1>6, <1>7, <1>8, <1>9 DEF Next

LEMMA LeadsStay ==
  ASSUME NEW r, Leads(r), targets \subseteq targets', holes \subseteq holes', \A t : HoleOf(t)' = HoleOf(t),
         \A k : Reached(k) => Reached(k)'
  PROVE  Leads(r)'
  BY DEF Leads

LEMMA ReachedStays ==
  ASSUME NEW k, Reached(k), Range(stitchQ) \subseteq Range(stitchQ'), placed \subseteq placed',
         holes \subseteq holes', \A t : HoleOf(t)' = HoleOf(t),
         (phase \in {"stitches", "failed"} /\ current = <<k>>) => Reached(k)'
  PROVE  Reached(k)'
  BY DEF Reached, StitchTarget

(* A stitch that is asked for is reached. *)
LEMMA QueuedIsReached ==
  ASSUME NEW k, QueueStitch(k), UNCHANGED placed, stitchQ \in Seq(Range(stitchQ))
  PROVE  /\ stitchQ' \in Seq(Range(stitchQ')) /\ Range(stitchQ) \subseteq Range(stitchQ')
         /\ Reached(k)'
<1>1. CASE Placed(k)
  BY <1>1 DEF QueueStitch, Placed, Reached
<1>2. CASE ~Placed(k)
  BY <1>2, Enqueued DEF QueueStitch, Reached
<1>3. QED
  BY <1>1, <1>2

(* References written before lead where they led, new ones somewhere. *)
LEMMA TrackedKeeps ==
  ASSUME Tracked, targets \subseteq targets', holes \subseteq holes', \A t : HoleOf(t)' = HoleOf(t),
         stitchQ' \in Seq(Range(stitchQ')),
         Range(stitchQ) \subseteq Range(stitchQ'), placed \subseteq placed',
         \A k : (phase \in {"stitches", "failed"} /\ current = <<k>>) => Reached(k)',
         \A r \in refs' : r \in refs \/ Leads(r)'
  PROVE  Tracked'
<1>1. \A k : Reached(k) => Reached(k)'
  BY ReachedStays
<1>2. \A r \in refs : Leads(r)'
  BY <1>1, LeadsStay DEF Tracked
<1>3. QED
  BY <1>2 DEF Tracked, Range

(* A step that leaves the stitches alone, but may end a walk, fail, or write a
   reference that leads somewhere. *)
LEMMA TrackedBeside ==
  ASSUME Tracked, targets \subseteq targets', holes \subseteq holes', \A t : HoleOf(t)' = HoleOf(t),
         UNCHANGED <<stitchQ, placed>>,
         \/ UNCHANGED <<phase, current>>
         \/ UNCHANGED current /\ phase' = "failed"
         \/ current = <<>>
         \/ phase \in {"walk", "hoists"},
         \A r \in refs' : r \in refs \/ Leads(r)'
  PROVE  Tracked'
<1>1. \A k : (phase \in {"stitches", "failed"} /\ current = <<k>>) => Reached(k)'
  BY DEF Reached
<1>2. stitchQ' \in Seq(Range(stitchQ')) /\ Range(stitchQ') = Range(stitchQ)
  BY DEF Tracked, Range
<1>3. QED
  BY <1>1, <1>2, TrackedKeeps

LEMMA TargetsStay == ASSUME [Next]_vars PROVE targets \subseteq targets'
<1>1. ASSUME EnterNode PROVE targets \subseteq targets'
  BY <1>1 DEF EnterNode, FollowSchemaRef, Claim, StitchRepeated, InlineRef, LeaveRef, FailRef, StitchLocal,
              CopyNode, Fail, hoists
<1>2. ASSUME NEW t, Hoist(t) \/ FailHoist(t) PROVE targets' = targets
  BY <1>2 DEF Hoist, FailHoist, Fail, hoists
<1>3. ASSUME NEW k, Stitch(k) \/ SkipStitch(k) \/ FailStitch(k) PROVE targets' = targets
  BY <1>3 DEF Stitch, SkipStitch, FailStitch, Fail, hoists
<1>4. ASSUME WalkChild \/ LeaveNode \/ WalkDone \/ HoistDone \/ HoistsDone \/ StitchDone \/ StitchesDone
             \/ UNCHANGED vars
      PROVE  targets' = targets
  BY <1>4 DEF WalkChild, LeaveNode, WalkDone, HoistDone, HoistsDone, StitchDone, StitchesDone, hoists, vars
<1>5. QED
  BY <1>1, <1>2, <1>3, <1>4 DEF Next

(* A fragment leaves the queue for its walk, or because it is placed or a
   hole. *)
LEMMA QueueLeft ==
  ASSUME Tracked, NEW k, NextStitch(k), stitchQ' = Tail(stitchQ), Reached(k)',
         UNCHANGED <<placed, refs>>, targets \subseteq targets', holes \subseteq holes',
         \A t : HoleOf(t)' = HoleOf(t)
  PROVE  Tracked'
<1>1. /\ stitchQ' \in Seq(Range(stitchQ'))
      /\ Range(stitchQ) \subseteq Range(stitchQ') \union {k}
  BY QueueShrinks DEF Tracked, NextStitch
<1>2. ASSUME NEW j, Reached(j) PROVE Reached(j)'
  <2>1. CASE j = k
    BY <2>1
  <2>2. CASE j # k
    BY <1>1, <1>2, <2>2 DEF Reached, NextStitch, StitchTarget, Range
  <2>3. QED
    BY <2>1, <2>2
<1>3. \A r \in refs : Leads(r)'
  BY <1>2, LeadsStay DEF Tracked
<1>4. QED
  BY <1>1, <1>3 DEF Tracked, Range

LEMMA TrackedNext == Tracked /\ [Next]_vars => Tracked'
<1>1. SUFFICES ASSUME Tracked, [Next]_vars PROVE Tracked'
  OBVIOUS
<1>2. /\ holes \subseteq holes' /\ \A t : HoleOf(t)' = HoleOf(t)
      /\ targets \subseteq targets'
  BY <1>1, HolesStay, TargetsStay
<1>3. ASSUME FollowSchemaRef PROVE Tracked'
  <2>1. UNCHANGED <<stitchQ, placed, phase, current>>
    BY <1>3 DEF FollowSchemaRef, drained
  <2>2. PICK t : \/ refs' = refs \union {Ref(Top, "entry", t)}
                 \/ refs' = refs \union {Ref(Top, "hoist", t)} /\ targets' = targets \union {t}
    BY <1>3 DEF FollowSchemaRef, Claim
  <2>3. \A r \in refs' : \/ r \in refs
                         \/ r.how = "entry"
                         \/ r.how = "hoist" /\ r.to \in targets'
    BY <2>2 DEF Ref
  <2>4. \A r \in refs' : r \in refs \/ Leads(r)'
    BY <2>3 DEF Leads
  <2>5. QED
    BY <1>1, <1>2, <2>1, <2>4, TrackedBeside
<1>4. ASSUME NEW k, QueueStitch(k), UNCHANGED <<phase, drained>>,
             \A r \in refs' : r \in refs \/ (r.how = "stitch" /\ r.to = k)
      PROVE  Tracked'
  <2>1. UNCHANGED <<placed, current, phase>>
    BY <1>4 DEF drained
  <2>2. /\ stitchQ' \in Seq(Range(stitchQ')) /\ Range(stitchQ) \subseteq Range(stitchQ')
        /\ Reached(k)'
    BY <1>1, <1>4, <2>1, QueuedIsReached DEF Tracked
  <2>3. \A j : (phase \in {"stitches", "failed"} /\ current = <<j>>) => Reached(j)'
    BY <2>1 DEF Reached
  <2>4. \A r \in refs' : r \in refs \/ Leads(r)'
    BY <1>4, <2>2 DEF Leads
  <2>5. QED
    BY <1>1, <1>2, <2>1, <2>2, <2>3, <2>4, TrackedKeeps
<1>5. ASSUME StitchRepeated PROVE Tracked'
  <2>1. \A r \in refs' : r \in refs \/ (r.how = "stitch" /\ r.to = StitchKey(Target, Top.kind))
    BY <1>5 DEF StitchRepeated, Ref
  <2>2. QED
    BY <1>4, <1>5, <2>1 DEF StitchRepeated
<1>6. ASSUME StitchLocal PROVE Tracked'
  <2>1. PICK k : QueueStitch(k) /\ refs' = refs \union {Ref(Top, "stitch", k)}
    BY <1>6 DEF StitchLocal
  <2>2. \A r \in refs' : r \in refs \/ (r.how = "stitch" /\ r.to = k)
    BY <2>1 DEF Ref
  <2>3. QED
    BY <1>4, <1>6, <2>1, <2>2 DEF StitchLocal
<1>7. ASSUME LeaveRef PROVE Tracked'
  <2>1. UNCHANGED <<stitchQ, placed, phase, current>>
    BY <1>7 DEF LeaveRef, drained
  <2>2. HoleOf(Target) \in holes'
    BY <1>7 DEF LeaveRef, ReadTarget
  <2>3. \A r \in refs' : r \in refs \/ (r.how = "left" /\ r.to = Target)
    BY <1>7 DEF LeaveRef, Ref
  <2>4. \A r \in refs' : r \in refs \/ Leads(r)'
    <3>1. ASSUME NEW r, r.how = "left", r.to = Target PROVE Leads(r)'
      BY <1>2, <2>2, <3>1 DEF Leads
    <3>2. QED
      BY <2>3, <3>1
  <2>5. QED
    BY <1>1, <1>2, <2>1, <2>4, TrackedBeside
<1>8. ASSUME InlineRef \/ CopyNode \/ WalkChild \/ LeaveNode \/ UNCHANGED vars PROVE Tracked'
  <2>1. UNCHANGED <<stitchQ, placed, phase, current, refs>>
    BY <1>8 DEF InlineRef, CopyNode, WalkChild, LeaveNode, vars, drained
  <2>2. QED
    BY <1>1, <1>2, <2>1, TrackedBeside
<1>9. ASSUME NEW t, Fail(t) PROVE Tracked'
  <2>1. UNCHANGED <<stitchQ, placed, current, refs>> /\ phase' = "failed"
    BY <1>9 DEF Fail, drained
  <2>2. QED
    BY <1>1, <1>2, <2>1, TrackedBeside
<1>10. ASSUME (\E t : Hoist(t)) \/ HoistDone \/ WalkDone \/ HoistsDone PROVE Tracked'
  <2>1. UNCHANGED <<stitchQ, placed, refs>> /\ phase \in {"walk", "hoists"}
    BY <1>10 DEF Hoist, NextHoist, HoistDone, WalkDone, HoistsDone, drained
  <2>2. QED
    BY <1>1, <1>2, <2>1, TrackedBeside
<1>11. ASSUME StitchesDone PROVE Tracked'
  <2>1. UNCHANGED <<stitchQ, placed, refs>> /\ current = <<>>
    BY <1>11 DEF StitchesDone, drained
  <2>2. QED
    BY <1>1, <1>2, <2>1, TrackedBeside
<1>12. ASSUME NEW k, Stitch(k) PROVE Tracked'
  <2>1. Reached(k)'
    <3>1. CASE Exists(StitchTarget(k))
      BY <1>12, <3>1 DEF Stitch, NextStitch, Reached
    <3>2. CASE ~Exists(StitchTarget(k))
      <4>1. HoleOf(StitchTarget(k)) \in holes'
        BY <1>12, <3>2 DEF Stitch, ReadTarget
      <4>2. QED
        BY <1>2, <4>1 DEF Reached, StitchTarget
    <3>3. QED
      BY <3>1, <3>2
  <2>2. NextStitch(k) /\ stitchQ' = Tail(stitchQ) /\ UNCHANGED <<placed, refs>>
    BY <1>12 DEF Stitch
  <2>3. QED
    BY <1>1, <1>2, <2>1, <2>2, QueueLeft
<1>13. ASSUME NEW k, SkipStitch(k) PROVE Tracked'
  <2>1. NextStitch(k) /\ stitchQ' = Tail(stitchQ) /\ UNCHANGED <<placed, refs>> /\ Reached(k)'
    BY <1>13 DEF SkipStitch, Placed, drained, Reached
  <2>2. QED
    BY <1>1, <1>2, <2>1, QueueLeft
<1>14. ASSUME StitchDone PROVE Tracked'
  <2>1. UNCHANGED <<stitchQ, refs>> /\ placed' = placed \union {current[1]}
    BY <1>14 DEF StitchDone
  <2>2. \A k : current = <<k>> => Reached(k)'
    BY <2>1 DEF Reached
  <2>3. stitchQ' \in Seq(Range(stitchQ')) /\ Range(stitchQ') = Range(stitchQ)
    BY <1>1, <2>1 DEF Tracked, Range
  <2>4. QED
    BY <1>1, <1>2, <2>1, <2>2, <2>3, TrackedKeeps
<1>15. ASSUME EnterNode PROVE Tracked'
  BY <1>3, <1>5, <1>6, <1>7, <1>8, <1>9, <1>15 DEF EnterNode, FailRef
<1>16. QED
  BY <1>1, <1>8, <1>9, <1>10, <1>11, <1>12, <1>13, <1>14, <1>15 DEF Next, FailHoist, FailStitch

(* What is left when the drains are done leads somewhere. *)
LEMMA DrainedIsClosed ==
  ASSUME Claims, Tracked, Halted PROVE Closed
<1>1. SUFFICES ASSUME phase = "done", NEW r \in refs
      PROVE  \/ r.how = "entry"
             \/ r.how = "hoist" /\ (names[r.to] \in Components \/ HoleOf(r.to) \in holes)
             \/ r.how = "stitch" /\ (r.to \in placed \/ HoleOf(StitchTarget(r.to)) \in holes)
             \/ r.how = "left" /\ HoleOf(r.to) \in holes
  BY DEF Closed
<1>2. hoistQ = <<>> /\ stitchQ = <<>>
  BY <1>1 DEF Halted
<1>3. Range(hoistQ) = {} /\ Range(stitchQ) = {}
  BY <1>2 DEF Range
<1>4. Leads(r)
  BY <1>1 DEF Tracked
<1>5. CASE r.how = "hoist" /\ r.to \in targets
  <2>1. names[r.to] \in hoisted /\ r.to \in DOMAIN names
    BY <1>3, <1>5 DEF Claims
  <2>2. QED
    BY <1>5, <2>1 DEF Claims, Components
<1>6. CASE r.how = "stitch" /\ Reached(r.to)
  BY <1>1, <1>3, <1>6 DEF Reached
<1>7. QED
  BY <1>4, <1>5, <1>6 DEF Leads

(* Every reference of the result leads to the component or the place its
   target was given, or to a recorded hole: hoists and stitches that walks
   find in one another's drains are all drained (resolver.ts, the drain
   loop). *)
THEOREM ClosedAlways == Spec => []Closed
<1>1. Init => Claims /\ Tracked /\ Halted
  <2>1. SUFFICES ASSUME Init PROVE Claims /\ Tracked /\ Halted
    OBVIOUS
  <2>2. /\ phase = "walk" /\ hoistQ = <<>> /\ stitchQ = <<>> /\ targets = {}
        /\ missing = {} /\ refs = {}
    BY <2>1 DEF Init
  <2>3. hoistQ \in Seq(Range(hoistQ)) /\ stitchQ \in Seq(Range(stitchQ))
    BY <2>2
  <2>4. QED
    BY <2>2, <2>3 DEF Claims, Tracked, Halted
<1>2. Claims /\ Tracked /\ Halted => Closed
  BY DrainedIsClosed
<1>3. QED
  BY <1>1, <1>2, NamingInit, NamingNext, ClaimsNext, TrackedNext, HaltedNext, PTL DEF Spec

-----------------------------------------------------------------------------
(* Mappings.  What is claimed is a node of a document that is not the entry,
   or the whole entry; what is written as a hoist is claimed, and what is
   written as a node of the entry never is. *)
Branches ==
  /\ \A t \in targets : t[1] # "" /\ ~IntoEntry(t)
  /\ \A r \in refs : /\ r.how = "hoist" => r.to \in targets
                     /\ r.how = "entry" => IntoEntry(r.to)

(* A reference in a schema is the only step that claims. *)
LEMMA BranchWritten ==
  ASSUME world \in Worlds, FollowSchemaRef
  PROVE  \E t : /\ t[1] # ""
                /\ \/ /\ IntoEntry(t) /\ targets' = targets
                      /\ \A r \in refs' : r \in refs \/ (r.how = "entry" /\ r.to = t)
                   \/ /\ ~IntoEntry(t) /\ targets' = targets \union {t}
                      /\ \A r \in refs' : r \in refs \/ (r.how = "hoist" /\ r.to = t)
<1> DEFINE t == RefTarget(Top)
<1>1. t[1] # ""
  <2>1. Link.local => Top.source # ""
    BY DEF FollowSchemaRef
  <2>2. Link.doc \in DOMAIN Docs
    <3>1. Top.node \in DOMAIN world.links
      BY DEF FollowSchemaRef, HasRef
    <3>2. Link \in Links
      BY <3>1, ResolverAssumption DEF WorldOK, Link
    <3>3. QED
      BY <3>2 DEF Links
  <2>3. Link.doc # ""
    BY <2>2, ResolverAssumption
  <2>4. QED
    BY <2>1, <2>3 DEF RefTarget
<1> HIDE DEF t
<1>2. \/ /\ IntoEntry(t)
         /\ refs' = refs \union {Ref(Top, "entry", t)}
         /\ UNCHANGED hoists
      \/ /\ ~IntoEntry(t)
         /\ refs' = refs \union {Ref(Top, "hoist", t)}
         /\ Claim(t)
  BY DEF FollowSchemaRef, t
<1>3. CASE IntoEntry(t)
  <2>1. targets' = targets /\ refs' = refs \union {Ref(Top, "entry", t)}
    BY <1>2, <1>3 DEF hoists
  <2>2. \A r \in refs' : r \in refs \/ (r.how = "entry" /\ r.to = t)
    BY <2>1 DEF Ref
  <2>3. QED
    BY <1>1, <1>3, <2>1, <2>2
<1>4. CASE ~IntoEntry(t)
  <2>1. targets' = targets \union {t} /\ refs' = refs \union {Ref(Top, "hoist", t)}
    BY <1>2, <1>4 DEF Claim
  <2>2. \A r \in refs' : r \in refs \/ (r.how = "hoist" /\ r.to = t)
    BY <2>1 DEF Ref
  <2>3. QED
    BY <1>1, <1>4, <2>1, <2>2
<1>5. QED
  BY <1>3, <1>4

LEMMA BranchesNext == world \in Worlds /\ Branches /\ [Next]_vars => Branches'
<1>1. SUFFICES ASSUME world \in Worlds, Branches, [Next]_vars PROVE Branches'
  OBVIOUS
<1>2. CASE FollowSchemaRef
  BY <1>1, <1>2, BranchWritten DEF Branches, IntoEntry
<1>3. ASSUME targets' = targets,
             \A r \in refs' : r \in refs \/ r.how \in {"stitch", "left"}
      PROVE  Branches'
  BY <1>1, <1>3 DEF Branches, IntoEntry
<1>4. CASE StitchRepeated \/ StitchLocal \/ LeaveRef
  <2>1. ASSUME NEW how \in {"stitch", "left"}, NEW to, refs' = refs \union {Ref(Top, how, to)}
        PROVE  \A r \in refs' : r \in refs \/ r.how \in {"stitch", "left"}
    BY <2>1 DEF Ref
  <2>2. targets' = targets
    BY <1>4 DEF StitchRepeated, StitchLocal, LeaveRef, hoists
  <2>3. \E how \in {"stitch", "left"} : \E to : refs' = refs \union {Ref(Top, how, to)}
    BY <1>4 DEF StitchRepeated, StitchLocal, LeaveRef
  <2>4. QED
    BY <1>3, <2>1, <2>2, <2>3
<1>5. CASE InlineRef \/ FailRef \/ CopyNode
  BY <1>3, <1>5 DEF InlineRef, FailRef, Fail, CopyNode, hoists
<1>6. ASSUME NEW t, Hoist(t) \/ FailHoist(t) PROVE Branches'
  BY <1>3, <1>6 DEF Hoist, FailHoist, Fail, hoists
<1>7. ASSUME NEW k, Stitch(k) \/ SkipStitch(k) \/ FailStitch(k) PROVE Branches'
  BY <1>3, <1>7 DEF Stitch, SkipStitch, FailStitch, Fail, hoists
<1>8. CASE WalkChild \/ LeaveNode \/ WalkDone \/ HoistDone \/ HoistsDone \/ StitchDone \/ StitchesDone
             \/ UNCHANGED vars
  BY <1>3, <1>8 DEF WalkChild, LeaveNode, WalkDone, HoistDone, HoistsDone, StitchDone, StitchesDone, hoists, vars
<1>9. QED
  BY <1>1, <1>2, <1>4, <1>5, <1>6, <1>7, <1>8 DEF Next, EnterNode

(* A mapping is rewritten exactly when the branch beside it that names the same
   schema is, wherever the discriminator was written, for all documents and
   links, however late the target is claimed and whatever else is claimed
   (mappingSites, fixUpDiscriminatorMappings). *)
THEOREM MappingFollowsAlways == Spec => []MappingFollows
<1>1. Init => world \in Worlds /\ Branches
  BY DEF Init, Branches
<1>2. world \in Worlds /\ [Next]_vars => (world \in Worlds)'
  BY WorldStays
<1>3. Branches => MappingFollows
  <2>1. SUFFICES ASSUME Branches, NEW m \in maps, NEW r \in refs, r.how \in {"entry", "hoist"},
                        r.source = m[2], r.to = MappingTarget(m[1], m[2])
                 PROVE  r.how = "hoist" <=> Rewrites(m[1], m[2])
    BY DEF MappingFollows, Branch
  <2>2. CASE r.how = "hoist"
    <3>1. r.to \in targets /\ r.to[1] # ""
      BY <2>1, <2>2 DEF Branches
    <3>2. ASSUME world.maps[m[1]].local PROVE m[2] # ""
      <4>1. r.to = <<m[2], world.maps[m[1]].at>>
        BY <2>1, <3>2 DEF MappingTarget
      <4>2. \A x, y : <<x, y>>[1] = x
        OBVIOUS
      <4>3. r.to[1] = m[2]
        BY <4>1, <4>2, Zenon
      <4>4. QED
        BY <3>1, <4>3
    <3>3. QED
      BY <2>1, <2>2, <3>1, <3>2 DEF Rewrites
  <2>3. CASE r.how = "entry"
    BY <2>1, <2>3 DEF Branches, Rewrites
  <2>4. QED
    BY <2>1, <2>2, <2>3
<1>4. QED
  BY <1>1, <1>2, <1>3, BranchesNext, PTL DEF Spec
=============================================================================
