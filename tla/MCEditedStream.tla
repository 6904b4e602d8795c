--------------------------- MODULE MCEditedStream ---------------------------
(* Documents for model checking EditedStream: every byte class, scalars,   *)
(* arrays and objects as member values, objects inside arrays, duplicate   *)
(* keys, punctuation inside a string, whitespace on every side of a key,   *)
(* a text that is not JSON and one that is cut short.                      *)
EXTENDS EditedStream

\* {"a":1,"b":{"a":","},"a":t}
Nested == <<"{", "Q","a","Q",":","n", ",", "Q","b","Q",":","{","Q","a","Q",":","Q",",","Q","}", ",",
            "Q","a","Q",":","t", "}">>

\* { "a":"" , "b" :[{},1]}
Spaced == <<"{","w", "Q","a","Q",":","Q","Q","w", ",","w", "Q","b","Q","w",":","[","{","}",",","n","]", "}">>

\* [{"a":12,"b":"" ,"a":{}}]
Listed == <<"[","{", "Q","a","Q",":","n","n", ",", "Q","b","Q",":","Q","Q","w", ",", "Q","a","Q",":","{","}",
            "}","]">>

\* {"b":[],"a":[1]}
Arrays == <<"{", "Q","b","Q",":","[","]", ",", "Q","a","Q",":","[","n","]", "}">>

\* {"b":[1!]}
Broken == <<"{", "Q","b","Q",":","[","n","x","]", "}">>

\* {"a":1,"b":{
Cut == <<"{", "Q","a","Q",":","n", ",", "Q","b","Q",":","{">>

\* 12
Bare == <<"n", "n">>

\* A digit and more whitespace than the largest total allows.
Padded == <<"n">> \o [i \in 1..28 |-> "w"]

MCDocs == {Nested, Spaced, Listed, Arrays, Broken, Cut, Bare, Padded}
MCBytes == {"{", "}", "[", "]", ",", ":", "w", "Q", "n", "-", "t", "a", "b", "x"}
MCNames == {<<"a">>, <<"b">>}
=============================================================================
