---------------------------- MODULE SpecResolver ----------------------------
(***************************************************************************)
(* resolveSpec (spec/src/resolver.ts) and its mirror resolveSpecSync: a     *)
(* document spread over files becomes one document.  The walk inlines an    *)
(* external reference of a non-schema position; a schema position, and a    *)
(* reference the walk cannot inline, get an address of their own: a         *)
(* component (a hoist) or a place under the root extension (a stitch),      *)
(* whose content is walked later and may need more of both.                 *)
(*                                                                         *)
(* A document is a tree of nodes addressed by tokens; each node may hold a  *)
(* $ref and, in a schema, a discriminator with one mapping value.  What a   *)
(* run is about is chosen first: the links, the files that cannot be read,  *)
(* and the mode.  Left out: provenance, inlinedComponents, and anchors      *)
(* ("#name"), which the code treats as pointers.                            *)
(***************************************************************************)
EXTENDS Integers, Sequences, FiniteSets, SequencesExt

CONSTANTS
  Entry,      \* the entry document, by its identity (entryIdentity)
  Docs,       \* document, by the key references resolve to |-> addresses of its nodes
  Worlds,     \* what the documents hold, see World
  Positions,  \* <<kind, token>> |-> kind of the child: the specification's table
  RefKinds,   \* non-schema kinds whose $ref is a reference
  Slots,      \* name |-> node of the entry's components.schemas
  Derived,    \* target |-> name it suggests
  Hashes      \* target |-> suffix for a name that is taken

Nodes == UNION {{<<d, a>> : a \in Docs[d]} : d \in DOMAIN Docs}
NoNode == <<"", <<>>>>

(* local: written "#...", doc then is the document it is written in. *)
Links == [local : BOOLEAN, doc : DOMAIN Docs, at : Seq(STRING)]

(* entry: the key the caller gave for the entry, which is what it is read and
   kept under: its identity, or a spelling that references never resolve to,
   such as "./E".  links: node |-> $ref; maps: schema node |-> mapping value of its
   discriminator; discards: OpenAPI 3.0, where siblings of a schema's $ref
   are ignored; record: onUnresolved; mounts: the places the author's own
   root extension takes. *)
WorldOK(w) ==
  /\ DOMAIN w.links \subseteq Nodes /\ DOMAIN w.maps \subseteq Nodes
  /\ \A n \in DOMAIN w.links : w.links[n] \in Links /\ (w.links[n].local => w.links[n].doc = n[1])
  /\ w.entry = Entry \/ w.entry \notin DOMAIN Docs
  /\ w.unreadable \subseteq DOMAIN Docs \ {w.entry}
  /\ w.discards \in BOOLEAN /\ w.record \in BOOLEAN
  /\ IsFiniteSet(w.mounts) /\ \A m \in w.mounts : m \in Seq(Range(m)) \ {<<>>}

ASSUME ResolverAssumption ==
  /\ Entry \in DOMAIN Docs /\ "" \notin DOMAIN Docs
  /\ \A w \in Worlds : WorldOK(w)
  /\ \A s, t \in DOMAIN Slots : Slots[s] = Slots[t] => s = t
  /\ IsFiniteSet(DOMAIN Slots)

VARIABLES
  world,     \* fixed
  phase,     \* "walk", "hoists", "stitches", "done" or "failed"
  stack,     \* the nodes the walk is inside of, below
  current,   \* the hoist or stitch being walked, by its target or key
  docs,      \* keys of the documents read
  reads,     \* key |-> calls of the reader
  sources,   \* keys listed as the document's sources
  visiting,  \* targets being inlined
  names,     \* target |-> component name (HoistNames.byTarget)
  targets,   \* targets claimed
  hoistQ, hoisted, missing,
  mounts,    \* stitch key |-> its place (StitchedExternals)
  stitchQ, placed,
  holes,     \* what references named in vain: a node, or the root for a file
  refs,      \* the references written: what a node became, and in which walk
  maps       \* discriminators met

walked == <<world, docs, reads, holes>>
hoists == <<names, targets, hoistQ>>
drained == <<hoisted, missing, placed, current>>
vars == <<world, phase, stack, current, docs, reads, sources, visiting, names, targets,
          hoistQ, hoisted, missing, mounts, stitchQ, placed, holes, refs, maps>>

(* A frame: source is the document whose content this is, "" in the entry's
   own walk; stitching the document of the stitch around it, if any; fresh:
   the node itself is still to be looked at; todo: its keys still to be
   walked; key: what to take out of visiting on the way out. *)
Frame(node, kind, source, stitching, key) ==
  [node |-> node, kind |-> kind, source |-> source, stitching |-> stitching,
   fresh |-> TRUE, todo |-> {}, key |-> key]

Top == stack[Len(stack)]
Walking == stack # <<>>

Keys(n) == {t \in UNION {{a[i] : i \in DOMAIN a} : a \in Docs[n[1]]} :
              Append(n[2], t) \in Docs[n[1]]}

(* walkChild: the kind of a child. *)
ChildKind(kind, token) ==
  IF <<kind, token>> \in DOMAIN Positions THEN Positions[<<kind, token>>] ELSE "unknown"

(* refSiblingIsDiscarded, for every key. *)
Discarded(f) ==
  world.discards /\ f.kind = "schema" /\ f.node \in DOMAIN world.links

Todo(f) == IF Discarded(f) THEN {} ELSE Keys(f.node)

(* On to the keys of the node. *)
ToKeys == [stack EXCEPT ![Len(stack)].fresh = FALSE, ![Len(stack)].todo = Todo(Top)]
Out == SubSeq(stack, 1, Len(stack) - 1)

HasRef(f) == f.node \in DOMAIN world.links /\ (f.kind = "schema" \/ f.kind \in RefKinds)
Link == world.links[Top.node]

-----------------------------------------------------------------------------
(* HoistNames. *)

(* Mutant: a name the author took is taken again. *)
TakenByHoists(ns) == {ns[t] : t \in DOMAIN ns}

Taken(ns) == {ns[t] : t \in DOMAIN ns} \union DOMAIN Slots

Widened(t, n) == <<Derived[t][1], Hashes[t], n>>

NewName(t, taken) ==
  IF Derived[t] \notin taken THEN Derived[t]
  ELSE IF <<Derived[t][1], Hashes[t]>> \notin taken THEN <<Derived[t][1], Hashes[t]>>
  ELSE Widened(t, CHOOSE n \in 2 .. Cardinality(taken) + 2 :
                    /\ Widened(t, n) \notin taken
                    /\ \A m \in 2 .. n - 1 : Widened(t, m) \in taken)

NameFor(ns, t) ==
  IF t \in DOMAIN ns THEN ns
  ELSE [u \in DOMAIN ns \union {t} |-> IF u = t THEN NewName(t, Taken(ns)) ELSE ns[u]]

(* Component slots that are nothing but an external $ref name their target;
   of two slots for a target the first wins, whichever that is. *)
BoundSlots(w) ==
  {s \in DOMAIN Slots : /\ Slots[s] \in DOMAIN w.links /\ ~w.links[Slots[s]].local
                        /\ Slots[s] \notin DOMAIN w.maps /\ Keys(Slots[s]) = {}}

SlotTarget(w, s) == <<w.links[Slots[s]].doc, w.links[Slots[s]].at>>

Bindings(w) ==
  {f \in [{SlotTarget(w, s) : s \in BoundSlots(w)} -> BoundSlots(w)] :
     \A t \in DOMAIN f : SlotTarget(w, f[t]) = t}

-----------------------------------------------------------------------------
(* StitchedExternals: a place is a path of tokens. *)

PlainMount(t) == <<<<t[1], <<>>, "", 0>>>> \o t[2]
OwnMount(k, n) == <<<<k.doc, k.at, k.kind, n>>>>

(* Mutant: only a place inside another one overlaps with it. *)
OverlapsInside(m, taken) == \E p \in taken : IsPrefix(p, m)

Overlaps(m, taken) == \E p \in taken : IsPrefix(p, m) \/ IsPrefix(m, p)

MountFor(k, taken) ==
  LET plain == PlainMount(<<k.doc, k.at>>)
      free == {n \in 1 .. Cardinality(taken) + 1 : ~Overlaps(OwnMount(k, n), taken)}
  IN  IF ~Overlaps(plain, taken) THEN plain
      ELSE OwnMount(k, CHOOSE n \in free : \A m \in free : n <= m)

TakenMounts(ms) == {ms[k] : k \in DOMAIN ms} \union world.mounts

Reserved(ms, k) ==
  IF k \in DOMAIN ms THEN ms
  ELSE [j \in DOMAIN ms \union {k} |-> IF j = k THEN MountFor(k, TakenMounts(ms)) ELSE ms[j]]

Enqueue(q, x) == IF x \in Range(q) THEN q ELSE Append(q, x)

StitchKey(t, kind) == [doc |-> t[1], at |-> t[2], kind |-> kind]

(* Mutant: a fragment that has its place is walked for it again. *)
PlacedNever(k) == FALSE

Placed(k) == k \in placed

QueueStitch(k) ==
  /\ mounts' = Reserved(mounts, k)
  /\ stitchQ' = IF Placed(k) THEN stitchQ ELSE Enqueue(stitchQ, k)

-----------------------------------------------------------------------------
(* Reading. *)

Ref(f, how, to) == [node |-> f.node, source |-> f.source, how |-> how, to |-> to]

ReaderKeys == DOMAIN Docs \union {world.entry}

(* Mutant: a file that could not be read is tried again. *)
KnownMissingNever(d) == FALSE

KnownMissing(d) == <<d, <<>>>> \in holes

(* readDoc and readFragment of a target, which exists, is recorded as a hole
   or fails the resolution. *)
ReadDoc(d) ==
  reads' = IF d \in docs \/ KnownMissing(d) THEN reads ELSE [reads EXCEPT ![d] = @ + 1]

Readable(t) == t[1] \notin world.unreadable
Exists(t) == Readable(t) /\ t[2] \in Docs[t[1]]
HoleOf(t) == IF Readable(t) THEN t ELSE <<t[1], <<>>>>

ReadTarget(t) ==
  /\ ReadDoc(t[1])
  /\ docs' = IF Readable(t) THEN docs \union {t[1]} ELSE docs
  /\ holes' = IF Exists(t) THEN holes ELSE holes \union {HoleOf(t)}
  /\ UNCHANGED world

Fail(t) ==
  /\ ~Exists(t) /\ ~world.record
  /\ ReadTarget(t)
  /\ phase' = "failed" /\ sources' = sources \union {t[1]}
  /\ stack' = <<>>
  /\ UNCHANGED <<visiting, hoists, drained, mounts, stitchQ, refs, maps>>

-----------------------------------------------------------------------------
(* The walk. *)

Met(f) ==
  IF f.kind = "schema" /\ f.node \in DOMAIN world.maps
  THEN maps \union {<<f.node, f.source>>} ELSE maps

(* A reference in a schema: the target keeps a name, unless it is a node of
   the entry, which has an address already. *)
RefTarget(f) == IF Link.local THEN <<f.source, Link.at>> ELSE <<Link.doc, Link.at>>
IntoEntry(t) == t[1] = Entry /\ t[2] # <<>>

Claim(t) ==
  /\ targets' = targets \union {t}
  /\ hoistQ' = IF t \in targets THEN hoistQ ELSE Append(hoistQ, t)
  /\ sources' = sources \union {t[1]}
  /\ names' = NameFor(names, t)

FollowSchemaRef ==
  /\ Top.kind = "schema" /\ HasRef(Top) /\ (~Link.local \/ Top.source # "")
  /\ LET t == RefTarget(Top) IN
     \/ /\ IntoEntry(t)
        /\ refs' = refs \union {Ref(Top, "entry", t)}
        /\ UNCHANGED <<hoists, sources>>
     \/ /\ ~IntoEntry(t)
        /\ refs' = refs \union {Ref(Top, "hoist", t)}
        /\ Claim(t)
  /\ stack' = ToKeys /\ maps' = Met(Top)
  /\ UNCHANGED <<walked, phase, visiting, drained, mounts, stitchQ>>

External(f) == f.kind # "schema" /\ HasRef(f) /\ ~Link.local
Target == <<Link.doc, Link.at>>

Repeated(t) == t \in visiting

(* A target the walk is inside of, or a node of the document being stitched,
   is not inlined; what is written beside such a $ref is dropped. *)
StitchRepeated ==
  /\ External(Top)
  /\ Top.stitching = Target[1] \/ Repeated(Target)
  /\ QueueStitch(StitchKey(Target, Top.kind))
  /\ refs' = refs \union {Ref(Top, "stitch", StitchKey(Target, Top.kind))}
  /\ stack' = Out
  /\ visiting' = visiting \ {Top.key}
  /\ UNCHANGED <<walked, phase, sources, hoists, drained, maps>>

Inlines == External(Top) /\ Top.stitching # Target[1] /\ ~Repeated(Target)

(* Inlined: the target is walked in place, then the keys beside the $ref. *)
InlineRef ==
  /\ Inlines /\ Exists(Target)
  /\ ReadTarget(Target)
  /\ sources' = sources \union {Target[1]}
  /\ visiting' = visiting \union {Target}
  /\ stack' = Append(ToKeys, Frame(Target, Top.kind, Target[1], Top.stitching, Target))
  /\ UNCHANGED <<phase, hoists, drained, mounts, stitchQ, refs, maps>>

(* The reference stays, as a hole. *)
LeaveRef ==
  /\ Inlines /\ ~Exists(Target) /\ world.record
  /\ ReadTarget(Target)
  /\ sources' = sources \union {Target[1]}
  /\ refs' = refs \union {Ref(Top, "left", Target)}
  /\ stack' = ToKeys
  /\ UNCHANGED <<phase, visiting, hoists, drained, mounts, stitchQ, maps>>

FailRef == Inlines /\ Fail(Target)

(* "#..." in content of another document. *)
StitchLocal ==
  /\ Top.kind # "schema" /\ HasRef(Top) /\ Link.local /\ Top.source \notin {"", Entry}
  /\ LET k == StitchKey(<<Top.source, Link.at>>, Top.kind) IN
     /\ QueueStitch(k)
     /\ refs' = refs \union {Ref(Top, "stitch", k)}
  /\ stack' = ToKeys
  /\ UNCHANGED <<walked, phase, sources, visiting, hoists, drained, maps>>

(* Anything else is copied, a $ref included. *)
CopyNode ==
  /\ ~External(Top)
  /\ HasRef(Top) => /\ Link.local
                    /\ Top.source = "" \/ (Top.source = Entry /\ Top.kind # "schema")
  /\ stack' = ToKeys /\ maps' = Met(Top)
  /\ UNCHANGED <<walked, phase, sources, visiting, hoists, drained, mounts, stitchQ, refs>>

EnterNode ==
  /\ Walking /\ Top.fresh
  /\ \/ FollowSchemaRef \/ StitchRepeated \/ InlineRef \/ LeaveRef \/ FailRef
     \/ StitchLocal \/ CopyNode

WalkChild ==
  /\ Walking /\ ~Top.fresh
  /\ \E t \in Top.todo :
       stack' = Append([stack EXCEPT ![Len(stack)].todo = @ \ {t}],
                       Frame(<<Top.node[1], Append(Top.node[2], t)>>, ChildKind(Top.kind, t),
                             Top.source, Top.stitching, NoNode))
  /\ UNCHANGED <<walked, phase, sources, visiting, hoists, drained, mounts, stitchQ, refs, maps>>

LeaveNode ==
  /\ Walking /\ ~Top.fresh /\ Top.todo = {}
  /\ stack' = Out
  /\ visiting' = visiting \ {Top.key}
  /\ UNCHANGED <<walked, phase, sources, hoists, drained, mounts, stitchQ, refs, maps>>

-----------------------------------------------------------------------------
(* The drains. *)

WalkDone ==
  /\ phase = "walk" /\ ~Walking
  /\ phase' = "hoists"
  /\ UNCHANGED <<walked, stack, sources, visiting, hoists, drained, mounts, stitchQ, refs, maps>>

(* Two targets never share a name, so no hoist finds its own taken. *)
NextHoist(t) ==
  /\ phase = "hoists" /\ ~Walking /\ current = <<>> /\ hoistQ # <<>> /\ t = Head(hoistQ)

Hoist(t) ==
  /\ NextHoist(t)
  /\ hoistQ' = Tail(hoistQ)
  /\ names[t] \notin hoisted
  /\ Exists(t) \/ world.record
  /\ ReadTarget(t)
  /\ hoisted' = hoisted \union {names[t]}
  /\ \/ /\ Exists(t)
        /\ current' = <<t>>
        /\ stack' = <<Frame(t, "schema", t[1], "", NoNode)>>
        /\ UNCHANGED missing
     \/ /\ ~Exists(t)
        /\ missing' = missing \union {names[t]}
        /\ UNCHANGED <<current, stack>>
  /\ UNCHANGED <<phase, sources, visiting, names, targets, mounts, stitchQ, placed, refs, maps>>

FailHoist(t) == NextHoist(t) /\ names[t] \notin hoisted /\ Fail(t)

HoistDone ==
  /\ phase = "hoists" /\ ~Walking /\ current # <<>>
  /\ current' = <<>>
  /\ UNCHANGED <<walked, phase, stack, sources, visiting, hoists, hoisted, missing, placed,
                 mounts, stitchQ, refs, maps>>

HoistsDone ==
  /\ phase = "hoists" /\ ~Walking /\ current = <<>> /\ hoistQ = <<>>
  /\ phase' = "stitches"
  /\ UNCHANGED <<walked, stack, sources, visiting, hoists, drained, mounts, stitchQ, refs, maps>>

StitchTarget(k) == <<k.doc, k.at>>

NextStitch(k) ==
  /\ phase = "stitches" /\ ~Walking /\ current = <<>> /\ stitchQ # <<>> /\ k = Head(stitchQ)

(* Between walks nothing is being inlined: that visiting is saved, cleared
   and restored around this one makes no difference. *)
Stitch(k) ==
  /\ NextStitch(k)
  /\ stitchQ' = Tail(stitchQ)
  /\ ~Placed(k)
  /\ Exists(StitchTarget(k)) \/ world.record
  /\ ReadTarget(StitchTarget(k))
  /\ sources' = sources \union {k.doc}
  /\ \/ /\ Exists(StitchTarget(k))
        /\ current' = <<k>>
        /\ stack' = <<Frame(StitchTarget(k), k.kind, k.doc, k.doc, NoNode)>>
     \/ /\ ~Exists(StitchTarget(k))
        /\ UNCHANGED <<current, stack>>
  /\ UNCHANGED <<phase, visiting, hoists, hoisted, missing, mounts, placed, refs, maps>>

(* It was asked for again while it was walked. *)
SkipStitch(k) ==
  /\ NextStitch(k) /\ Placed(k)
  /\ stitchQ' = Tail(stitchQ)
  /\ UNCHANGED <<walked, phase, stack, sources, visiting, hoists, drained, mounts, refs, maps>>

FailStitch(k) == NextStitch(k) /\ ~Placed(k) /\ Fail(StitchTarget(k))

StitchDone ==
  /\ phase = "stitches" /\ ~Walking /\ current # <<>>
  /\ placed' = placed \union {current[1]}
  /\ current' = <<>>
  /\ UNCHANGED <<walked, phase, stack, sources, visiting, hoists, hoisted, missing,
                 mounts, stitchQ, refs, maps>>

(* Mutant: each queue is drained once. *)
DrainedOnce == "done"

Drained == IF hoistQ = <<>> THEN "done" ELSE "hoists"

StitchesDone ==
  /\ phase = "stitches" /\ ~Walking /\ current = <<>> /\ stitchQ = <<>>
  /\ phase' = Drained
  /\ UNCHANGED <<walked, stack, sources, visiting, hoists, drained, mounts, stitchQ, refs, maps>>

(* The merge: missing components are left out. *)
Components == hoisted \ missing

(* fixUpDiscriminatorMappings: a value that names a claimed target is given
   its name; s is where the discriminator was written. *)
MappingTarget(n, s) ==
  IF world.maps[n].local THEN <<s, world.maps[n].at>>
  ELSE <<world.maps[n].doc, world.maps[n].at>>

(* Mutant: a value is left alone unless it names another file. *)
RewritesExternal(n, s) == ~world.maps[n].local /\ MappingTarget(n, s) \in targets

Rewrites(n, s) ==
  (world.maps[n].local => s # "") /\ MappingTarget(n, s) \in targets

-----------------------------------------------------------------------------
Init ==
  /\ world \in Worlds /\ phase = "walk"
  /\ stack = <<Frame(<<Entry, <<>>>>, "document", "", "", NoNode)>>
  /\ current = <<>>
  /\ docs = {world.entry}
  /\ reads = [d \in ReaderKeys |-> IF d = world.entry THEN 1 ELSE 0]
  /\ sources = {world.entry} /\ visiting = {}
  /\ names \in Bindings(world) /\ targets = {}
  /\ hoistQ = <<>> /\ hoisted = {} /\ missing = {}
  /\ mounts = <<>> /\ stitchQ = <<>> /\ placed = {}
  /\ holes = {} /\ refs = {} /\ maps = {}

Next ==
  \/ EnterNode \/ WalkChild \/ LeaveNode
  \/ WalkDone \/ HoistDone \/ HoistsDone \/ StitchDone \/ StitchesDone
  \/ \E t \in targets : Hoist(t) \/ FailHoist(t)
  \/ \E k \in DOMAIN mounts : Stitch(k) \/ SkipStitch(k) \/ FailStitch(k)

Spec == Init /\ [][Next]_vars /\ WF_vars(Next)

-----------------------------------------------------------------------------
(* Every reference of the result leads somewhere: to the component or the
   place its target was given, or to a recorded hole.  The drains stop only
   when neither can find more for the other. *)
Closed ==
  phase = "done" => \A r \in refs :
    \/ r.how = "entry"
    \/ r.how = "hoist" /\ (names[r.to] \in Components \/ HoleOf(r.to) \in holes)
    \/ r.how = "stitch" /\ (r.to \in placed \/ HoleOf(StitchTarget(r.to)) \in holes)
    \/ r.how = "left" /\ HoleOf(r.to) \in holes

(* Each hoisted schema has a component of its own, and none of the author's
   is replaced but by what its own $ref names. *)
NamesOwn ==
  /\ \A s, t \in DOMAIN names : names[s] = names[t] => s = t
  /\ \A t \in DOMAIN names :
       names[t] \in DOMAIN Slots => names[t] \in BoundSlots(world) /\ SlotTarget(world, names[t]) = t

(* Stitched fragments never lie inside one another, though the nodes they
   come from may, nor inside what the author wrote there: each is walked as
   the kind of object its reference expects. *)
MountsOwn ==
  \A k \in DOMAIN mounts :
    ~Overlaps(mounts[k], {mounts[j] : j \in DOMAIN mounts \ {k}} \union world.mounts)

(* One reading per key, however many references name it, also of a document
   that cannot be read; and every key asked for is listed.  A document has one
   key, but for an entry whose spelling is not its identity: a reference that
   is inlined or hoisted whole reads it again under its identity, once. *)
ReadOnce ==
  \A d \in ReaderKeys : reads[d] <= 1 /\ (reads[d] = 1 => d \in sources)

(* A mapping that names the same schema as its branch still does when the
   branch has been renamed, however late its target was claimed, and is left
   alone when the branch has not.  A branch is a reference in a schema: what
   else is written below the node is inlined, stitched or left. *)
Branch(r, n) == r.how \in {"entry", "hoist"} /\ r.node \in {<<n[1], Append(n[2], t)>> : t \in Keys(n)}

MappingFollows ==
  phase = "done" =>
    \A m \in maps : \A r \in refs :
      Branch(r, m[1]) /\ r.source = m[2] /\ r.to = MappingTarget(m[1], m[2])
      => (r.how = "hoist" <=> Rewrites(m[1], m[2]))

(* The walk and the drains end, on documents that refer to one another in
   circles too; and only the mode that throws gives up. *)
Resolves == <>(phase = "done" \/ (phase = "failed" /\ ~world.record))
=============================================================================
