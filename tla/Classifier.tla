----------------------------- MODULE Classifier -----------------------------
(***************************************************************************)
(* Which schemas of a document can be streamed (classifier/classify.ts):   *)
(* a schema is as hard as its own keywords and all it couples with on the  *)
(* same value, through composition, contains and references.  References   *)
(* go in circles, so the strategies are a least fixed point, by sweeps.    *)
(*                                                                         *)
(* A schema is [keys, compose, contains, refs, items, defs, longest]: what *)
(* its keywords are; the branches of each composition keyword; the schema  *)
(* of contains, if any; what $ref and $dynamicRef lead to, "missing" when  *)
(* nothing; the schema of its elements and members, or "none"; what it     *)
(* only defines; and its longest candidate string, -1 when there is none.  *)
(* A boolean schema has no keywords.                                       *)
(***************************************************************************)
EXTENDS Integers, SequencesExt, TLC

CONSTANTS
  Document,      \* schema -> its record
  Parity,        \* options.parity: anyOf and oneOf are left to the in-memory engine
  EnforceBounds  \* options.enforceBounds

(* "complex": enum or const with an object or array; "buffer":
   dependentSchemas, discriminator, or dependencies with a schema; "custom"
   and "unknown": keywords of the application and of nobody; "reject":
   unevaluated*; "unbounded": a dimension to warn of. *)
Keywords == {"complex", "buffer", "custom", "unknown", "reject", "unbounded",
             "unique", "format", "pattern", "equal"}
Compositions == {"allOf", "anyOf", "oneOf", "not", "if"}

Whole == {"complex", "buffer", "custom"}

Rank == [stream |-> 0, tee |-> 1, buffer |-> 2]
Join(a, b) == IF Rank[a] >= Rank[b] THEN a ELSE b

BranchesOf(s) == FlattenSeq([i \in DOMAIN s.compose |-> s.compose[i].branches])

-----------------------------------------------------------------------------
(* walkSubschemas: a schema and what it contains. *)
RECURSIVE Tree(_)
Tree(n) ==
  LET s == Document[n]
      inside == BranchesOf(s) \o s.contains \o s.defs \o (IF s.items = "none" THEN <<>> ELSE <<s.items>>)
  IN  <<n>> \o FlattenSeq([i \in DOMAIN inside |-> Tree(inside[i])])

RefsIn(nodes) == FlattenSeq([i \in DOMAIN nodes |-> Document[nodes[i]].refs])

(* What references lead to is collected too, with the references in it. *)
RECURSIVE Collect(_, _)
Collect(nodes, i) ==
  LET refs == RefsIn(nodes)
      known == ToSet(nodes)
  IN  IF i > Len(refs) THEN nodes
      ELSE IF refs[i] \in known \cup {"missing"} THEN Collect(nodes, i + 1)
      ELSE Collect(nodes \o SelectSeq(Tree(refs[i]), LAMBDA m : m \notin known), i + 1)

Unstreamable(s) == s.keys \cap {"reject", "unknown"} # {} \/ "missing" \in ToSet(s.refs)

(* ClassifierError, before any byte is read. *)
Fails(nodes) ==
  \E n \in ToSet(nodes) : Unstreamable(Document[n]) \/ (EnforceBounds /\ "unbounded" \in Document[n].keys)

-----------------------------------------------------------------------------
(* What a schema's own keywords ask for, and what it couples with. *)
Base(s) ==
  LET parity == Parity /\ \E i \in DOMAIN s.compose : s.compose[i].key \in {"anyOf", "oneOf"}
  IN  IF s.keys \cap Whole # {} \/ parity THEN "buffer"
      ELSE IF s.compose # <<>> THEN "tee" ELSE "stream"

Successors(s) == ToSet(s.contains \o BranchesOf(s) \o s.refs) \ {"missing"}

(* Nodes never collected are taken for "stream". *)
Lookup(strategies, n) == IF n \in DOMAIN strategies THEN strategies[n] ELSE "stream"

Joined(strategies, n) ==
  LET coupled == {Lookup(strategies, m) : m \in Successors(Document[n])}
  IN  CHOOSE top \in coupled \cup {Base(Document[n])} :
        \A other \in coupled \cup {Base(Document[n])} : Join(top, other) = top

(* One pass over the nodes, in the order they were collected. *)
RECURSIVE Sweep(_, _)
Sweep(nodes, strategies) ==
  IF nodes = <<>> THEN strategies
  ELSE Sweep(Tail(nodes), (Head(nodes) :> Joined(strategies, Head(nodes))) @@ strategies)

(* Mutant: one pass is thought enough. *)
SettleOnce(nodes, strategies) == Sweep(nodes, strategies)

RECURSIVE Settle(_, _)
Settle(nodes, strategies) ==
  LET next == Sweep(nodes, strategies)
  IN  IF next = strategies THEN next ELSE Settle(nodes, next)

Failed == <<>>

(* A strategy for each node collected. *)
Classify(root) ==
  LET nodes == Collect(Tree(root), 1)
  IN  IF Fails(nodes) THEN Failed ELSE Settle(nodes, [n \in ToSet(nodes) |-> Base(Document[n])])
=============================================================================
