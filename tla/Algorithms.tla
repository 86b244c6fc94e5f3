----------------------------- MODULE Algorithms -----------------------------
(***************************************************************************)
(* The algorithms that neither wait nor share anything, each called once:  *)
(* the chunker and the consolidator step by step, the entity resolvers and *)
(* the date parser in one step, with everything that may be asked of them. *)
(***************************************************************************)
EXTENDS Chunker, Consolidator, EntityResolver, DateParser, SequencesExt

CONSTANTS
  Seeds,         \* seed files of the entity resolvers
  Queries,       \* what resolve is asked about each
  ShownFigures,  \* figures parse_ambiguous_numeric is shown
  Pages,         \* pages extract_date is given
  Clocks,        \* when a page may be read
  Locales        \* the locale its source may be configured with

IsSeedFile(seed) ==
  /\ seed \in Seq(Range(seed)) /\ seed # <<>>
  /\ WellFormed(seed)
  /\ \A i \in DOMAIN seed : \A name \in Names(seed[i]) : IsName(name)

IsPage(page) == page.nodes \in Seq(Range(page.nodes)) /\ page.meta \in Seq(Range(page.meta))

ASSUME AlgorithmsAssumption ==
  /\ \A seed \in Seeds : IsSeedFile(seed)
  /\ \A query \in Queries : IsName(query.name)
  /\ \A page \in Pages : IsPage(page)
  /\ Clocks # {} /\ Locales # {}

VARIABLES
  call,    \* the arguments of the other calls
  result   \* what they returned, in a sequence that is empty before
callVars == <<call, result>>
vars == <<cutVars, mergeVars, callVars>>

NoCall == [none |-> TRUE]

Init ==
  /\ \/ text \in Texts /\ candidates = <<>> /\ call = NoCall
     \/ text = <<>> /\ candidates \in CandidateLists /\ call = NoCall
     \/ /\ text = <<>> /\ candidates = <<>>
        /\ call \in [seed : Seeds] \cup [shown : ShownFigures] \cup [page : Pages]
  /\ CutInit
  /\ MergeInit
  /\ result = <<>>

Calls(kind) == kind \in DOMAIN call /\ result = <<>> /\ UNCHANGED call

Resolve ==
  /\ Calls("seed")
  /\ result' = <<[query \in Queries |-> resolve(call.seed, query)]>>

Read ==
  /\ Calls("shown")
  /\ result' = <<[locale \in Locales |-> parse_ambiguous_numeric(call.shown, locale)]>>

Date ==
  /\ Calls("page")
  /\ result' = <<{extract_date(call.page, clock, locale) : clock \in Clocks, locale \in Locales}>>

Next ==
  \/ Cut /\ UNCHANGED <<mergeVars, callVars>>
  \/ Merge /\ UNCHANGED <<cutVars, callVars>>
  \/ (Resolve \/ Read \/ Date) /\ UNCHANGED <<cutVars, mergeVars>>

Spec == Init /\ [][Next]_vars

Returned(kind) == kind \in DOMAIN call /\ result # <<>>

-----------------------------------------------------------------------------
(* Properties *)

(* resolve: the order of the entities in the seed file makes no difference.*)
SeedOrderIrrelevant ==
  Returned("seed") =>
    \A order \in Bijection(DOMAIN call.seed, DOMAIN call.seed) : \A query \in Queries :
      result[1][query] = resolve([i \in DOMAIN call.seed |-> call.seed[order[i]]], query)

(* resolve: Python and TypeScript give a query that they read alike the    *)
(* same answer by the same tier.  Of the seed the repository ships, that   *)
(* leaves out the stored normalized alias wb, which only Python finds, and *)
(* the alias with a Greek pi, which becomes 0 in TypeScript and is found   *)
(* there under that name.                                                  *)
LanguagesAgree ==
  Returned("seed") =>
    \A query \in Queries :
      ReadAlike(call.seed, query) => result[1][query] = resolveTS(call.seed, query)

(* resolve: an entity that is added to the seed never sends a query from   *)
(* one of the others to another.                                           *)
NoRedirect ==
  Returned("seed") =>
    \A query \in Queries :
      NotRedirected(resolve(Front(call.seed), query), result[1][query], Last(call.seed))

(* parse_ambiguous_numeric: the locale of a source only decides where the  *)
(* figures are a date both ways, at every boundary of the calendar.        *)
LocalesAgree ==
  Returned("shown") =>
    \/ \A locale, other \in Locales : result[1][locale] = result[1][other]
    \/ MonthFirst(call.shown) # <<>> /\ DayFirst(call.shown) # <<>>

(* extract_date: an item with a date in a standard form looks neither      *)
(* younger nor older from one run to the next, nor with another locale,    *)
(* unless the first time tag of the page has no such date and shows its    *)
(* age in words: these are read before the element the source is           *)
(* configured with, its datetime attribute included (date_parser.py:345    *)
(* and 374), although relative dates are to come after both.               *)
MarkupSettles ==
  Returned("page") /\ Settled(call.page) =>
    \E date \in result[1] : date # <<>> /\ result[1] = {date}

(* What the results are results of.                                        *)
CallsInv ==
  /\ DOMAIN call \in {{"none"}, {"seed"}, {"shown"}, {"page"}}
  /\ "seed" \in DOMAIN call => IsSeedFile(call.seed)
  /\ "page" \in DOMAIN call => IsPage(call.page)
  /\ Returned("seed") => result[1] = [query \in Queries |-> resolve(call.seed, query)]
  /\ Returned("shown") =>
       result[1] = [locale \in Locales |-> parse_ambiguous_numeric(call.shown, locale)]
  /\ Returned("page") =>
       result[1] = {extract_date(call.page, clock, locale) : clock \in Clocks, locale \in Locales}

AlgorithmsInv == ChunkerInv /\ Finer /\ ConsolidatorInv /\ CallsInv
=============================================================================
