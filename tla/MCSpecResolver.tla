--------------------------- MODULE MCSpecResolver ---------------------------
(* An entry and two files.  The entry's operation and its component schema
   refer into the files; the files refer to themselves, to each other and
   back into the entry, as operations, as schemas, as whole documents and as
   fragments inside one another; one fragment does not exist.  The entry is given
   by its identity, or spelt otherwise. *)
EXTENDS SpecResolver, TLC

MCDocs ==
  [E |-> {<<>>, <<"slot">>, <<"kept">>, <<"op">>, <<"op", "schema">>},
   A |-> {<<>>, <<"op">>, <<"op", "op">>, <<"also">>, <<"schema">>, <<"schema", "items">>},
   B |-> {<<>>, <<"op">>, <<"op", "schema">>, <<"schema">>}]

MCPositions ==
  [p \in {<<"document", "slot">>, <<"document", "kept">>, <<"document", "op">>,
          <<"operation", "op">>, <<"operation", "also">>,
          <<"operation", "schema">>, <<"operation", "slot">>, <<"schema", "items">>} |->
     IF p[2] \in {"op", "also"} THEN "operation" ELSE "schema"]

MCSlots == (<<"schema">> :> <<"E", <<"slot">>>>) @@ (<<"items">> :> <<"E", <<"kept">>>>)

Ext(d, a) == [local |-> FALSE, doc |-> d, at |-> a]
Loc(d, a) == [local |-> TRUE, doc |-> d, at |-> a]

MCLinks ==
  {(<<"E", <<"slot">>>> :> slot) @@ (<<"E", <<"op">>>> :> op) @@
   (<<"E", <<"op", "schema">>>> :> schema) @@ (<<"A", <<"op", "op">>>> :> aop) @@
   (<<"A", <<"schema", "items">>>> :> items) @@ (<<"B", <<"op">>>> :> bop) @@
   (<<"B", <<"op", "schema">>>> :> bschema) @@ (<<"A", <<"also">>>> :> Loc("A", <<>>)) :
     slot \in {Ext("A", <<"schema">>), Ext("B", <<"schema">>)},
     op \in {Ext("A", <<"op">>), Ext("B", <<"op">>), Ext("A", <<>>)},
     schema \in {Loc("E", <<"slot">>), Ext("A", <<"schema">>)},
     aop \in {Loc("A", <<"op">>), Loc("A", <<"none">>), Loc("A", <<>>), Ext("B", <<>>),
              Ext("E", <<"op">>)},
     items \in {Loc("A", <<"schema">>), Ext("B", <<"schema">>), Ext("E", <<"slot">>)},
     bop \in {Ext("A", <<"op">>), Ext("B", <<"none">>)},
     bschema \in {Loc("B", <<"schema">>), Ext("A", <<"schema", "items">>)}}

Mode(lost, keep, ignore, own) ==
  [entry |-> "E", unreadable |-> lost, record |-> keep, discards |-> ignore, mounts |-> own]

Modes ==
  {Mode({}, TRUE, FALSE, {}), Mode({}, FALSE, TRUE, {PlainMount(<<"A", <<>>>>)}),
   Mode({"A"}, TRUE, FALSE, {}), Mode({"B"}, TRUE, TRUE, {PlainMount(<<"A", <<>>>>)}),
   Mode({"B"}, FALSE, FALSE, {})}

World(l, m) ==
  [links |-> l, maps |-> <<"A", <<"schema">>>> :> l[<<"A", <<"schema", "items">>>>],
   entry |-> m.entry, unreadable |-> m.unreadable, record |-> m.record,
   discards |-> m.discards, mounts |-> m.mounts]

(* Spelt so that references to it are read under another key, which the reader
   may not know. *)
Respelt ==
  {[Mode(lost, TRUE, FALSE, {}) EXCEPT !.entry = "./E"] : lost \in {{}, {"E"}}}

IntoE == {l \in MCLinks : l[<<"A", <<"op", "op">>>>] = Ext("E", <<"op">>)}

MCWorlds ==
  {World(l, m) : l \in MCLinks, m \in Modes} \union {World(l, m) : l \in IntoE, m \in Respelt}

MCTargets ==
  {<<d, a>> : d \in DOMAIN MCDocs, a \in UNION {MCDocs[d] : d \in DOMAIN MCDocs} \union {<<"none">>}}

MCDerived ==
  [t \in MCTargets |-> IF t[2] = <<>> THEN <<t[1]>> ELSE <<t[2][Len(t[2])]>>]

(* Suffixes that collide. *)
MCHashes == [t \in MCTargets |-> "h"]
=============================================================================
