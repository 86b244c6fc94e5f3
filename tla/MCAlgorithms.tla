---------------------------- MODULE MCAlgorithms ----------------------------
(* The inputs of Algorithms for TLC. *)
EXTENDS Algorithms

-----------------------------------------------------------------------------
(* Texts of up to four words: short ones, one that fits into a chunk alone *)
(* only, one that is too long.                                             *)
Width(cut) == IF cut = 2 THEN 2 ELSE 1

Spread(t, word) ==
  LET start == IF t = <<>> THEN 0 ELSE Last(t).at + Width(word.cut)
  IN t \o [k \in 1..word.len |-> [at |-> start + k, cut |-> IF k = 1 THEN word.cut ELSE 0]]

MCTexts ==
  {FoldLeft(Spread, <<>>, words) :
     words \in UNION {{w \in [1..n -> [len : {1, 3, 7}, cut : 1..5]] : w[1].cut = 5} : n \in 1..4}}

Flag(b)    == [type |-> "flag", content |-> b]
Number(n)  == [type |-> "number", content |-> n]
Text(l, t) == [type |-> "text", length |-> l, content |-> t]
List(s)    == [type |-> "list", content |-> s]

(* What three chunks may give at a path: any value, or an object with what *)
(* stands below; the types may differ from chunk to chunk.                 *)
MCAbove == [path \in {"field", "field.stars", "field.stars.sum"} |->
  CASE path = "field"       -> {}
    [] path = "field.stars" -> {"field"}
    [] OTHER                -> {"field", "field.stars"}]

Leaves == {None, Number(0), Number(1), Number(-2), Text(1, "a"), Text(1, "b"), Text(2, "cc"),
           List({1}), List({1, 2}), Flag(TRUE), Flag(FALSE)}

Nested3(top, middle, bottom) ==
  [path \in DOMAIN MCAbove |->
     CASE path = "field" -> top [] path = "field.stars" -> middle [] OTHER -> bottom]

MCCandidates ==
  [1..3 -> {Nested3(leaf, None, None) : leaf \in Leaves}
           \cup {Nested3(Object, leaf, None) : leaf \in Leaves}
           \cup {Nested3(Object, Object, leaf) : leaf \in {None, Number(1), Number(-2), Text(1, "a")}}]

(* Names both languages normalize alike, and one with a letter that is not *)
(* ASCII.                                                                  *)
Spelled(norm, n) == [norm |-> norm, normTS |-> norm, spelling |-> n]
Acme    == Spelled(<<"acme">>, 1)
AcmeInc == Spelled(<<"acme">>, 2)
AcmeLab == Spelled(<<"acme", "lab">>, 1)
AcmeBio == Spelled(<<"acme", "bio">>, 1)
Bio     == Spelled(<<"bio">>, 1)
Lab     == Spelled(<<"lab">>, 1)
Inc     == Spelled(<<>>, 1)
Zero    == Spelled(<<"0">>, 1)
PiZero  == [norm |-> <<"pi0">>, normTS |-> <<"0">>, spelling |-> 1]

MCQueries ==
  [name : {Acme, AcmeInc, AcmeLab, AcmeBio, Bio, Lab, Inc, Zero, PiZero},
   domain : {NoDomain, "acme.com"}, domainTS : {NoDomain, "acme.com"}]

Entities(id, names, aliases, normalized) ==
  [id : {id}, name : names, aliases : {{}} \cup {{a} : a \in aliases},
   normalized : {{}} \cup {{n} : n \in normalized}, domains : {{}, {"acme.com"}}]
MCSeeds ==
  {seed \in {<<e, f>> : e \in Entities("e", {Acme, AcmeLab, Lab}, {AcmeInc, AcmeBio, Inc}, {<<"acme">>, <<"bio">>}),
                        f \in Entities("f", {Acme, AcmeLab, AcmeBio}, {Acme, AcmeInc, PiZero}, {<<"acme">>})}
           \cup {<<e, f, g>> : e \in Entities("e", {Acme, Lab}, {AcmeBio}, {}),
                               f \in Entities("f", {AcmeLab, AcmeBio}, {AcmeInc}, {}),
                               g \in Entities("g", {AcmeLab, Inc}, {AcmeInc, AcmeBio}, {})}
     : WellFormed(seed)}

Unreadable == [type |-> "other"]
At(n)      == [type |-> "date", at |-> n]
Ago(n)     == [type |-> "ago", hours |-> n]
Figures(days, years, hours) ==
  [type : {"numeric"}, first : days, second : days, year : years, hour : hours]
MCFigures == Figures({0, 1, 2, 4, 12, 13, 28, 29, 30, 31}, {0, 1900, 2023, 2024}, {0, 24})

Node(published, modified) == [published |-> published, modified |-> modified]
MCPages ==
  [nodes : {<<>>, <<Node(Unreadable, At(1))>>, <<Node(Unreadable, At(1)), Node(At(2), Unreadable)>>},
   allow_modified : BOOLEAN,
   feed : {Unreadable, At(3)},
   meta : {<<>>, <<Unreadable, At(4)>>},
   time : [datetime : {Unreadable, At(5)}, text : {Unreadable, Ago(1), At(6)}],
   selected : [datetime : {Unreadable, At(7)},
               text : {Unreadable, Ago(2), At(8)} \cup Figures({3, 5}, {2024}, {0})],
   url : {Unreadable} \cup Figures({2, 30}, {2024}, {0}),
   sitemap : {Unreadable, At(10)}]
=============================================================================
