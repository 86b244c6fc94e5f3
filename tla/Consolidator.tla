---------------------------- MODULE Consolidator ----------------------------
(***************************************************************************)
(* How the objects extracted from the chunks of a document become one:     *)
(* isLowInformation, resolveValue, mergeObjects and consolidateCandidates  *)
(* of extraction_engine/src/engine/consolidator.ts.                        *)
(*                                                                         *)
(* Objects merge key by key, however deep: an object is the function from  *)
(* the paths of keys to what stands at their ends, where Object says only  *)
(* that more keys follow; the items of a list are the set of their keys,   *)
(* and None is everything without information: a missing key, null, a      *)
(* blank string, an empty list or object.  The schemas leave objects open  *)
(* (additionalProperties), so two chunks may give values of two types at   *)
(* one path.                                                               *)
(***************************************************************************)
EXTENDS Integers, Sequences

CONSTANTS
  Paths,           \* the paths of keys that may be given
  Above,           \* those each of them leads through
  Strings,         \* what texts say
  ListItems,       \* what stands in lists
  CandidateLists   \* what consolidateCandidates may be called with

None == [type |-> "none"]

Object == [type |-> "object"]

Value ==
  {None, Object} \cup [type : {"number"}, content : Int]
                 \cup [type : {"text"}, length : Nat, content : Strings]
                 \cup [type : {"list"}, content : SUBSET ListItems]
                 \cup [type : {"flag"}, content : BOOLEAN]

(* A key stands below objects only.                                        *)
IsTree(object) ==
  /\ object \in [Paths -> Value]
  /\ \A path \in Paths : object[path] # None =>
       \A above \in Above[path] : object[above] = Object

ASSUME ConsolidatorAssumption ==
  /\ Above \in [Paths -> SUBSET Paths]
  /\ \A path \in Paths : \A above \in Above[path] : Above[above] \subseteq Above[path]
  /\ \A list \in CandidateLists : list \in Seq({object \in [Paths -> Value] : IsTree(object)})

VARIABLES
  candidates,  \* the objects, in the order of the document
  merged,      \* the objects merged so far
  taken        \* how many these are
mergeVars == <<candidates, merged, taken>>

-----------------------------------------------------------------------------

isLowInformation(val) == val = None

(* Faulty variant: an empty value of a later chunk replaces a full one.    *)
KeepsExistingNever(existing, incoming) == FALSE

KeepsExisting(existing, incoming) == isLowInformation(incoming)

(* typeof, for which a list is an object.                                  *)
Kind(value) == IF value.type \in {"list", "object"} THEN "container" ELSE value.type

(* Two values that say something: both together, or the one that says      *)
(* more; for anything else, and for two kinds, the later one.  A list and  *)
(* an object become an object, with the items under their numbers, below   *)
(* which no path of Paths leads.                                           *)
Richer(existing, incoming) ==
  LET Both(type) == existing.type = type /\ incoming.type = type
  IN CASE Both("list")   -> [existing EXCEPT !.content = @ \cup incoming.content]
       [] Both("number") -> IF incoming.content > existing.content THEN incoming ELSE existing
       [] Both("text")   -> IF incoming.length > existing.length THEN incoming ELSE existing
       [] Kind(existing) = Kind(incoming) /\ Object \in {existing, incoming} -> Object
       [] OTHER          -> incoming

resolveValue(existing, incoming) ==
  IF KeepsExisting(existing, incoming) THEN existing
  ELSE IF isLowInformation(existing) THEN incoming
  ELSE Richer(existing, incoming)

(* The incoming value takes the place of the existing one, and of all that *)
(* stands below it.                                                        *)
Replaced(existing, incoming) ==
  ~isLowInformation(existing) /\ ~isLowInformation(incoming) /\ Kind(existing) # Kind(incoming)

mergeObjects(target, source) ==
  [path \in Paths |->
     IF \E above \in Above[path] : Replaced(target[above], source[above]) THEN source[path]
     ELSE resolveValue(target[path], source[path])]

(* The call raises when there is no candidate.                             *)
MergeInit ==
  /\ merged = IF candidates = <<>> THEN [path \in Paths |-> None] ELSE candidates[1]
  /\ taken = IF candidates = <<>> THEN 0 ELSE 1

(* consolidateCandidates, in the order of the document.                    *)
Merge ==
  /\ taken < Len(candidates)
  /\ merged' = mergeObjects(merged, candidates[taken + 1])
  /\ taken' = taken + 1
  /\ UNCHANGED candidates

-----------------------------------------------------------------------------
(* Properties *)

(* The candidates whose value at the path stands among the first n: no     *)
(* later one gave a value of another kind there or above.                  *)
Standing(path, n) ==
  {i \in 1..n :
     /\ candidates[i][path] # None
     /\ \A j \in i..n : \A p \in Above[path] \cup {path} :
          ~Replaced(candidates[i][p], candidates[j][p])}

Given(path, n) == [i \in Standing(path, n) |-> candidates[i][path]]

(* The greatest number, the first of the longest texts, all the items, the *)
(* last flag; an object if any of the containers is one.                   *)
IsRichest(value, given) ==
  IF DOMAIN given = {} THEN value = None
  ELSE /\ \A i \in DOMAIN given : Kind(given[i]) = Kind(value)
       /\ CASE value.type = "number" ->
                 /\ \E i \in DOMAIN given : value = given[i]
                 /\ \A i \in DOMAIN given : given[i].content <= value.content
            [] value.type = "text" ->
                 \E i \in DOMAIN given :
                   /\ value = given[i]
                   /\ \A j \in DOMAIN given : /\ given[j].length <= value.length
                                              /\ j < i => given[j].length < value.length
            [] value.type = "list" ->
                 /\ \A i \in DOMAIN given : given[i].type = "list"
                 /\ value.content = UNION {given[i].content : i \in DOMAIN given}
            [] value.type = "object" ->
                 \E i \in DOMAIN given : given[i] = Object
            [] OTHER ->
                 \E i \in DOMAIN given : value = given[i] /\ \A j \in DOMAIN given : j <= i

(* consolidateCandidates: at the end of every path stands the richest of   *)
(* the values the chunks gave there, however the chunks are ordered and    *)
(* whatever they gave elsewhere; a value is lost only to a later one of    *)
(* another kind, at its own path or above it.                              *)
MergedIsRichest ==
  \A path \in Paths : IsRichest(merged[path], Given(path, taken))

(* What the loop relies on.                                                *)
MergeTypeOK ==
  /\ candidates \in Seq({object \in [Paths -> Value] : IsTree(object)})
  /\ taken \in 0..Len(candidates)
  /\ candidates # <<>> => taken > 0
  /\ merged \in [Paths -> Value]

ConsolidatorInv == MergeTypeOK /\ MergedIsRichest
=============================================================================
