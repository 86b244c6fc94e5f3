---------------------------- MODULE MCExtraction ----------------------------
(* Eleven characters, cut at five; half the limit is two. *)
EXTENDS ExtractionEngine, FiniteSets
ChainChoices == {<<"gemini", "other", "groq">>, <<"groq">>, <<"other">>}
Slices(first, last, limit) ==
  [i \in 1..((last - first + limit) \div limit) |->
     [first |-> first + (i - 1) * limit,
      last  |-> IF first + i * limit - 1 < last THEN first + i * limit - 1 ELSE last]]
CutAtFive == Slices(1, 11, 5)
InTwos == [s \in [first : 1..Size, last : 1..Size] |-> Slices(s.first, s.last, 2)]
=============================================================================
