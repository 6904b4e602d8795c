---------------------------- MODULE MCStringScan ----------------------------
(* Strings of up to two pieces, and longer ones whose pieces meet: characters
   of every width, every way to break one off or get one wrong, escapes, the
   halves of a pair, control characters, strings left open. *)
EXTENDS StringScan, SequencesExt

Plain == <<65>>
Two == <<195, 169>>
Three == <<226, 130, 172>>
Four == <<240, 159, 152, 128>>
NewLine == <<92, 110>>
HighHalf == <<92, 117, 100, 56, 51, 100>>
LowHalf == <<92, 117, 100, 101, 48, 48>>
BrokenOff == {<<195>>, <<226, 130>>, <<240>>, <<240, 159, 152>>}
IllFormedPieces == {<<128>>, <<224, 128>>, <<237, 160>>, <<240, 128>>, <<244, 144, 128>>, <<245>>, <<193>>}
NoEscape == {<<92, 120>>, <<92, 117, 48, 71>>}
Tab == <<9>>

Pieces == {Plain, Two, Three, Four, NewLine, HighHalf, LowHalf, Tab} \union BrokenOff \union IllFormedPieces

Longer ==
  {<<HighHalf, p, LowHalf>> : p \in BrokenOff \union {Plain, NewLine, <<>>, <<128>>}}
  \union {<<Plain, p, Plain, q>> : p, q \in {Two, Four} \union BrokenOff}
  \union {<<Three, p>> : p \in NoEscape}

Bodies(sequences) == {FlattenSeq(ps) \o <<34>> : ps \in sequences} \union Pieces

Pairs == Bodies({<<>>} \union {<<p>> : p \in Pieces} \union (Pieces \X Pieces) \union Longer)
Few == Bodies({<<p>> : p \in Pieces} \union Longer)

String(body, key, strict, keyCap, byteLimit) ==
  [body |-> body, key |-> key, strict |-> strict, keyCap |-> keyCap, byteLimit |-> byteLimit]

MCStrings ==
  {String(b, FALSE, strict, Infinity, 4) : b \in Few, strict \in BOOLEAN}
  \union {String(b, FALSE, strict, Infinity, Infinity) : b \in Pairs, strict \in BOOLEAN}
  \union {String(b, TRUE, strict, cap, Infinity) : b \in Pairs, strict \in BOOLEAN, cap \in {1, 5, Infinity}}
  \union {String(b, TRUE, TRUE, 6, 4) : b \in Few}
=============================================================================
