-------------------------- MODULE MCBufferedRegions --------------------------
(* Schemas that hold values in every way, alone, side by side in the
   branches of a TEE, and in a TEE within a TEE; references in a circle that
   meets an object constant; and schemas that cannot be streamed. *)
EXTENDS BufferedRegions

Plain == [keys |-> {}, compose |-> <<>>, contains |-> <<>>, refs |-> <<>>, items |-> "none",
        defs |-> <<>>, longest |-> -1]

With(keys) == [Plain EXCEPT !.keys = keys]
Compose(key, branches) == [Plain EXCEPT !.compose = <<[key |-> key, branches |-> branches]>>]
Items(n) == [Plain EXCEPT !.items = n]
Ref(n) == [Plain EXCEPT !.refs = <<n>>]

MCDocument ==
  [any     |-> Plain,
   island  |-> [Plain EXCEPT !.contains = <<"any">>],
   unique  |-> With({"unique"}),
   pattern |-> With({"pattern"}),
   object  |-> With({"complex"}),
   equal   |-> [With({"equal"}) EXCEPT !.longest = 1],
   never   |-> With({"equal"}),
   strings |-> Items("pattern"),
   inner   |-> Compose("allOf", <<"pattern", "strings">>),
   outer   |-> Compose("anyOf", <<"island", "inner">>),
   rows    |-> Items("toOuter"),
   toOuter |-> Ref("outer"),
   choice  |-> Compose("oneOf", <<"equal", "never", "unique">>),
   choices |-> Items("choice"),
   \* A circle of references; at its far end, an object constant.
   circle  |-> Ref("A"),
   A       |-> Compose("allOf", <<"toB">>),
   toB     |-> Ref("B"),
   B       |-> [Plain EXCEPT !.compose = <<[key |-> "allOf", branches |-> <<"toA">>],
                                         [key |-> "oneOf", branches |-> <<"object", "any">>]>>],
   toA     |-> Ref("A"),
   \* The elements wait, their array does not.
   objects |-> [Items("object") EXCEPT !.defs = <<"any">>],
   \* What fails is two references away.
   hidden  |-> Ref("toGone"),
   toGone  |-> Ref("gone"),
   gone    |-> With({"reject"}),
   dangles |-> Ref("missing"),
   bounds  |-> With({"pattern", "unbounded"})]

MCRoots == {"rows", "choices", "outer", "unique", "circle", "objects", "hidden", "dangles", "bounds"}
=============================================================================
