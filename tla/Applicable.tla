----------------------------- MODULE Applicable -----------------------------
(***************************************************************************)
(* What applies to a value and how a spine handles it (spine/spine.ts,     *)
(* schemasForValue to beginTee), for a document and the strategies of its  *)
(* classification.  What applies is a node: a list of schemas, each a      *)
(* schema of the document, or what is its own apart from composition and   *)
(* references.  Names of members and positions of elements are abstracted. *)
(***************************************************************************)
EXTENDS Classifier

Schema(n) == [at |-> n, own |-> FALSE]
OwnOf(s) == [s EXCEPT !.own = TRUE]
KeysOf(s) == Document[s.at].keys
Some(app, keys) == \E i \in DOMAIN app : KeysOf(app[i]) \cap keys # {}

(* Behind a schema, what its references lead to, each once. *)
RECURSIVE ExpandFrom(_, _)
ExpandFrom(names, i) ==
  IF i > Len(names) THEN names
  ELSE LET fresh == SelectSeq(Document[names[i]].refs, LAMBDA n : n \notin ToSet(Tail(names)) \cup {"missing"})
       IN  ExpandFrom(SubSeq(names, 1, i) \o fresh \o SubSeq(names, i + 1, Len(names)), i + 1)

Expand(s) ==
  IF s.own THEN <<s>>
  ELSE LET names == ExpandFrom(<<s.at>>, 1) IN [i \in DOMAIN names |-> Schema(names[i])]

-----------------------------------------------------------------------------
(* computeKind: an own schema is not in the classification. *)
KindOf(strategies, s) ==
  IF \/ ~s.own /\ Lookup(strategies, s.at) = "buffer"
     \/ KeysOf(s) \cap {"complex", "buffer", "unique", "format"} # {}
     \/ Document[s.at].contains # <<>>
  THEN "buffer"
  ELSE IF ~s.own /\ Document[s.at].compose # <<>> THEN "tee" ELSE "stream"

(* needsIsland and needsTee: one schema that must wait makes all wait. *)
NeedOf(strategies, app) ==
  LET kinds == {KindOf(strategies, app[i]) : i \in DOMAIN app}
  IN  IF "buffer" \in kinds THEN "buffer" ELSE IF "tee" \in kinds THEN "tee" ELSE "stream"

(* Why the text of a string is needed: for more than to compare it, or to
   compare it with candidates none of which is longer than LongestOf. *)
TextOf(strategies, app) ==
  IF NeedOf(strategies, app) = "buffer" \/ Some(app, {"pattern"}) THEN "whole"
  ELSE IF Some(app, {"equal"}) THEN "equal" ELSE "none"

LongestOf(app) ==
  LET candidates == {Document[app[i].at].longest : i \in DOMAIN app} \cup {-1}
  IN  CHOOSE longest \in candidates : \A other \in candidates : other <= longest

(* collectObjectValue, collectArrayElement. *)
ItemsOf(app) ==
  LET inner == SelectSeq(app, LAMBDA s : Document[s.at].items # "none")
  IN  FlattenSeq([i \in DOMAIN inner |-> Expand(Schema(Document[inner[i].at].items))])

Branches(s, key) ==
  IF s.own THEN <<>>
  ELSE LET of == SelectSeq(Document[s.at].compose, LAMBDA c : c.key = key)
       IN  FlattenSeq([i \in DOMAIN of |-> [j \in DOMAIN of[i].branches |-> Schema(of[i].branches[j])]])

(* beginTee: what is required, then the branches of each other keyword. *)
SubSchemas(app) ==
  LET required == [i \in DOMAIN app |-> <<OwnOf(app[i])>> \o Branches(app[i], "allOf")]
      BranchesOfAll(key) == FlattenSeq([i \in DOMAIN app |-> Branches(app[i], key)])
  IN  FlattenSeq(required) \o BranchesOfAll("anyOf") \o BranchesOfAll("oneOf")
        \o BranchesOfAll("not") \o BranchesOfAll("if")

-----------------------------------------------------------------------------
(* What a spine is told of a node. *)
HandlingOf(strategies, app) ==
  LET subs == SubSchemas(app)
  IN  [need     |-> NeedOf(strategies, app),
       unique   |-> Some(app, {"unique"}),
       text     |-> TextOf(strategies, app),
       longest  |-> LongestOf(app),
       items    |-> ItemsOf(app),
       branches |-> IF NeedOf(strategies, app) # "tee" THEN <<>>
                    ELSE [i \in DOMAIN subs |-> Expand(subs[i])]]

(* The nodes of a stream validated against one of these. *)
RECURSIVE Reached(_, _)
Reached(strategies, nodes) ==
  LET next == UNION {{ItemsOf(n)} \cup ToSet(HandlingOf(strategies, n).branches) : n \in nodes}
  IN  IF next \subseteq nodes THEN nodes ELSE Reached(strategies, nodes \cup next)

Handlings(strategies, node) ==
  [n \in Reached(strategies, {node}) |-> HandlingOf(strategies, n)]
=============================================================================
