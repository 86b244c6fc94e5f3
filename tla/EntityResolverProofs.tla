------------------------ MODULE EntityResolverProofs ------------------------
(***************************************************************************)
(* What the two entity resolvers promise for every seed and every query:   *)
(* that they agree where they read alike, that the order of the seed makes *)
(* no difference, and that one entity more redirects nobody.               *)
(***************************************************************************)
EXTENDS EntityResolver, FiniteSetTheorems, TLAPS

Norm == Seq(STRING)

(* What resolve looks at in a name and in an entity.                       *)
IsSeed(seed) == \A i \in DOMAIN seed : \A name \in Names(seed[i]) : IsName(name)

-----------------------------------------------------------------------------
(* The two languages *)

LEMMA TokensFinite ==
  ASSUME NEW norm \in Norm
  PROVE  IsFiniteSet(Tokens(norm)) /\ IsFiniteSet(Significant(norm))
  <1>1. DOMAIN norm = 1..Len(norm) /\ Len(norm) \in Nat
    BY DEF Norm
  <1>2. IsFiniteSet(DOMAIN norm)
    BY <1>1, FS_Interval
  <1>3. IsFiniteSet(Tokens(norm))
    <2>1. norm \in [DOMAIN norm -> Tokens(norm)]
      BY DEF Norm, Tokens
    <2>2. norm \in Surjection(DOMAIN norm, Tokens(norm))
      BY <2>1 DEF Surjection, Tokens
    <2> QED
      BY <1>2, <2>2, FS_Surjection
  <1>4. Significant(norm) \subseteq Tokens(norm)
    BY DEF Significant
  <1> QED
    BY <1>3, <1>4, FS_Subset

(* Counting the tokens and looking them up is comparing the sets: no       *)
(* significant token of the query is a stopword among the tokens.          *)
LEMMA SimilarAlike ==
  ASSUME NEW norm \in Norm, NEW other \in Norm
  PROVE  SimilarTS(norm, other) <=> Similar(norm, other)
  <1>1. Significant(norm) \subseteq Tokens(other) <=> Significant(norm) \subseteq Significant(other)
    BY DEF Significant
  <1>2. ASSUME Significant(norm) \subseteq Significant(other),
               Cardinality(Significant(norm)) = Cardinality(Significant(other))
        PROVE  Significant(norm) = Significant(other)
    BY <1>2, TokensFinite, FS_Subset
  <1> QED
    BY <1>1, <1>2 DEF Similar, SimilarTS

(* What the query is compared with, it is compared with alike.             *)
LEMMA ComparedAlike ==
  ASSUME NEW seed, NEW query, IsSeed(seed), ReadAlike(seed, query), IsName(query.name),
         NEW i \in DOMAIN seed, NEW name \in Names(seed[i])
  PROVE  /\ (query.name.norm # <<>> /\ query.name.norm = name.norm) <=>
               (query.name.normTS # <<>> /\ query.name.normTS = name.normTS)
         /\ Similar(query.name.norm, name.norm) <=> SimilarTS(query.name.normTS, name.normTS)
  <1> DEFINE norm == query.name.norm
  <1>1. /\ norm \in Norm /\ query.name.normTS = norm
        /\ name.norm \in Norm /\ name.normTS \in Norm
    BY DEF IsSeed, IsName, Norm, ReadAlike
  <1>2. Similar(norm, name.normTS) <=> SimilarTS(norm, name.normTS)
    BY <1>1, SimilarAlike
  <1>3. name.norm = name.normTS \/ Tokens(norm) \cap (Tokens(name.norm) \cup Tokens(name.normTS)) = {}
    BY DEF ReadAlike
  <1> HIDE DEF norm
  <1>4. CASE name.norm = name.normTS
    BY <1>1, <1>2, <1>4 DEF norm
  <1>5. CASE Tokens(norm) \cap (Tokens(name.norm) \cup Tokens(name.normTS)) = {}
    <2>1. ASSUME NEW other \in {name.norm, name.normTS}
          PROVE  ~(norm # <<>> /\ norm = other) /\ ~Similar(norm, other)
      <3>1. norm # <<>> => Tokens(norm) # {}
        <4>1. norm # <<>> => 1 \in DOMAIN norm
          BY <1>1 DEF Norm
        <4> QED
          BY <4>1 DEF Tokens
      <3>2. Tokens(norm) \cap Tokens(other) = {}
        BY <1>5
      <3>3. ~(norm # <<>> /\ norm = other)
        BY <3>1, <3>2
      <3>4. ~Similar(norm, other)
        BY <3>2 DEF Similar, Significant
      <3> QED
        BY <3>3, <3>4
    <2> QED
      BY <1>1, <1>2, <2>1 DEF norm
  <1> QED
    BY <1>3, <1>4, <1>5

(* Determinism across the languages: the Python and the TypeScript         *)
(* resolver, which normalize names, read aliases and compare tokens in     *)
(* different ways, give a query that they read alike the same answer by    *)
(* the same tier, for every seed.                                          *)
THEOREM TwinsAgree ==
  ASSUME NEW seed, NEW query, IsSeed(seed), ReadAlike(seed, query), IsName(query.name)
  PROVE  resolve(seed, query) = resolveTS(seed, query)
  <1>1. \A i \in DOMAIN seed : \A name \in Names(seed[i]) :
          /\ (query.name.norm # <<>> /\ query.name.norm = name.norm) <=>
                (query.name.normTS # <<>> /\ query.name.normTS = name.normTS)
          /\ Similar(query.name.norm, name.norm) <=> SimilarTS(query.name.normTS, name.normTS)
    BY ComparedAlike
  <1>2. OfficialDomain(seed, query) = OfficialDomainTS(seed, query)
    BY DEF OfficialDomain, OfficialDomainTS, ReadAlike
  <1>3. NormalizedCanonicalName(seed, query) = NormalizedCanonicalNameTS(seed, query)
    <2>1. \A i \in DOMAIN seed :
            (query.name.norm # <<>> /\ query.name.norm = seed[i].name.norm) <=>
              (query.name.normTS # <<>> /\ query.name.normTS = seed[i].name.normTS)
      BY <1>1 DEF Names
    <2>2. {i \in DOMAIN seed : query.name.norm # <<>> /\ query.name.norm = seed[i].name.norm}
            = {i \in DOMAIN seed :
                 query.name.normTS # <<>> /\ query.name.normTS = seed[i].name.normTS}
      BY <2>1
    <2> QED
      BY <2>2 DEF NormalizedCanonicalName, NormalizedCanonicalNameTS
  <1>4. NormalizedAlias(seed, query) = NormalizedAliasTS(seed, query)
    <2>1. ASSUME NEW i \in DOMAIN seed
          PROVE  (/\ query.name.norm # <<>>
                  /\ query.name.norm \in Normalized(seed[i]) \cup seed[i].normalized)
                   <=> (query.name.normTS # <<>> /\ query.name.normTS \in NormalizedTS(seed[i]))
      <3>1. query.name.norm \in Normalized(seed[i]) \cup seed[i].normalized
              <=> query.name.norm \in Normalized(seed[i])
        BY DEF ReadAlike
      <3>2. seed[i].aliases \subseteq Names(seed[i])
        BY DEF Names
      <3> QED
        BY <1>1, <3>1, <3>2 DEF Normalized, NormalizedTS
    <2>2. {i \in DOMAIN seed :
             /\ query.name.norm # <<>>
             /\ query.name.norm \in Normalized(seed[i]) \cup seed[i].normalized}
            = {i \in DOMAIN seed :
                 query.name.normTS # <<>> /\ query.name.normTS \in NormalizedTS(seed[i])}
      BY <2>1
    <2> QED
      BY <2>2 DEF NormalizedAlias, NormalizedAliasTS
  <1>5. TokenMatch(seed, query) = TokenMatchTS(seed, query)
    <2>1. {i \in DOMAIN seed : \E name \in Names(seed[i]) : Similar(query.name.norm, name.norm)}
            = {i \in DOMAIN seed :
                 \E name \in Names(seed[i]) : SimilarTS(query.name.normTS, name.normTS)}
      BY <1>1
    <2> QED
      BY <2>1 DEF TokenMatch, TokenMatchTS
  <1> QED
    BY <1>2, <1>3, <1>4, <1>5 DEF resolve, resolveTS, Tiers, TiersTS

-----------------------------------------------------------------------------
(* The order of the seed *)

Entities(seed) == {seed[i] : i \in DOMAIN seed}

(* An index that keeps the last entity keeps the only one.                 *)
LEMMA OneOwner ==
  ASSUME NEW seed, NEW places \in SUBSET DOMAIN seed,
         DOMAIN seed \subseteq Nat,
         \A i, j \in places : i = j
  PROVE  LastOwner(seed, places) = Owners(seed, places)
  <1>1. {j \in places : \A k \in places : k <= j} = places
    OBVIOUS
  <1> QED
    BY <1>1 DEF LastOwner, Owners

(* What is found by a key, as long as at most one entity has it, depends   *)
(* on the set of the entities only.                                        *)
LEMMA DomainAlike ==
  ASSUME NEW seed, NEW query, DOMAIN seed \subseteq Nat, WellFormed(seed)
  PROVE  OfficialDomain(seed, query) =
           {entity.id : entity \in {e \in Entities(seed) :
              query.domain # NoDomain /\ query.domain \in e.domains}}
  <1> DEFINE places == {i \in DOMAIN seed :
                          query.domain # NoDomain /\ query.domain \in seed[i].domains}
  <1>1. \A i, j \in places : i = j
    BY DEF WellFormed
  <1>2. LastOwner(seed, places) = Owners(seed, places)
    <2> HIDE DEF places
    <2>1. places \in SUBSET DOMAIN seed
      BY DEF places
    <2> QED
      BY <1>1, <2>1, OneOwner
  <1>3. Owners(seed, places) = {entity.id : entity \in {e \in Entities(seed) :
              query.domain # NoDomain /\ query.domain \in e.domains}}
    BY DEF Owners, Entities
  <1> QED
    BY <1>2, <1>3 DEF OfficialDomain

LEMMA CanonicalAlike ==
  ASSUME NEW seed, NEW query, DOMAIN seed \subseteq Nat, WellFormed(seed)
  PROVE  ExactCanonicalName(seed, query) =
           {entity.id : entity \in {e \in Entities(seed) : query.name = e.name}}
  <1> DEFINE places == {i \in DOMAIN seed : query.name = seed[i].name}
  <1>1. \A i, j \in places : i = j
    BY DEF WellFormed
  <1>2. LastOwner(seed, places) = Owners(seed, places)
    <2> HIDE DEF places
    <2>1. places \in SUBSET DOMAIN seed
      BY DEF places
    <2> QED
      BY <1>1, <2>1, OneOwner
  <1>3. Owners(seed, places) =
          {entity.id : entity \in {e \in Entities(seed) : query.name = e.name}}
    BY DEF Owners, Entities
  <1> QED
    BY <1>2, <1>3 DEF ExactCanonicalName

LEMMA NormalizedAlike ==
  ASSUME NEW seed, NEW query, DOMAIN seed \subseteq Nat, WellFormed(seed)
  PROVE  NormalizedCanonicalName(seed, query) =
           {entity.id : entity \in {e \in Entities(seed) :
              query.name.norm # <<>> /\ query.name.norm = e.name.norm}}
  <1> DEFINE places == {i \in DOMAIN seed :
                          query.name.norm # <<>> /\ query.name.norm = seed[i].name.norm}
  <1>1. \A i, j \in places : i = j
    BY DEF WellFormed
  <1>2. LastOwner(seed, places) = Owners(seed, places)
    <2> HIDE DEF places
    <2>1. places \in SUBSET DOMAIN seed
      BY DEF places
    <2> QED
      BY <1>1, <2>1, OneOwner
  <1>3. Owners(seed, places) = {entity.id : entity \in {e \in Entities(seed) :
              query.name.norm # <<>> /\ query.name.norm = e.name.norm}}
    BY DEF Owners, Entities
  <1> QED
    BY <1>2, <1>3 DEF NormalizedCanonicalName

(* The alias indexes keep every entity, well-formed seed or not.           *)
LEMMA AliasesAlike ==
  ASSUME NEW seed, NEW query
  PROVE  /\ ExactAlias(seed, query) =
              {entity.id : entity \in {e \in Entities(seed) : query.name \in e.aliases}}
         /\ NormalizedAlias(seed, query) =
              {entity.id : entity \in {e \in Entities(seed) :
                 /\ query.name.norm # <<>>
                 /\ query.name.norm \in Normalized(e) \cup e.normalized}}
         /\ TokenMatch(seed, query) =
              {entity.id : entity \in {e \in Entities(seed) :
                 \E name \in Names(e) : Similar(query.name.norm, name.norm)}}
  BY DEF ExactAlias, NormalizedAlias, TokenMatch, Owners, Entities

(* The seed is a set of entities: two well-formed seed files with the same *)
(* entities, in whatever order, give the same answer by the same tier.     *)
THEOREM OrderIrrelevant ==
  ASSUME NEW seed, NEW other, NEW query,
         DOMAIN seed \subseteq Nat, DOMAIN other \subseteq Nat,
         WellFormed(seed), WellFormed(other),
         Entities(seed) = Entities(other)
  PROVE  resolve(seed, query) = resolve(other, query)
  <1>1. OfficialDomain(seed, query) = OfficialDomain(other, query)
    BY DomainAlike
  <1>2. ExactCanonicalName(seed, query) = ExactCanonicalName(other, query)
    BY CanonicalAlike
  <1>3. NormalizedCanonicalName(seed, query) = NormalizedCanonicalName(other, query)
    BY NormalizedAlike
  <1>4. /\ ExactAlias(seed, query) = ExactAlias(other, query)
        /\ NormalizedAlias(seed, query) = NormalizedAlias(other, query)
        /\ TokenMatch(seed, query) = TokenMatch(other, query)
    BY AliasesAlike
  <1>5. Tiers(seed, query) = Tiers(other, query)
    BY <1>1, <1>2, <1>3, <1>4 DEF Tiers
  <1> QED
    BY <1>5 DEF resolve

-----------------------------------------------------------------------------
(* One entity more                                                         *)

(* Every set of natural numbers has a least element: the intervals up to   *)
(* its elements have a smallest one.                                       *)
LEMMA LeastElement ==
  ASSUME NEW S \in SUBSET Nat, S # {}
  PROVE  \E m \in S : \A n \in S : m <= n
  <1> DEFINE Upto == {1..n : n \in S}
  <1>1. Upto \subseteq FiniteSubsetsOf(Nat) /\ Upto # {}
    <2>1. \A n \in S : 1..n \in SUBSET Nat /\ IsFiniteSet(1..n)
      BY FS_Interval
    <2> QED
      BY <2>1 DEF FiniteSubsetsOf
  <1> HIDE DEF Upto
  <1>2. PICK I \in Upto : \A J \in Upto : <<J, I>> \notin StrictSubsetOrdering(Nat)
    BY <1>1, FS_StrictSubsetOrderingWellFounded, WFMin
  <1>3. PICK m \in S : I = 1..m
    BY DEF Upto
  <1>4. ASSUME NEW n \in S, n < m
        PROVE  FALSE
    <2>1. 1..n \in Upto
      BY DEF Upto
    <2>2. 1..n \subseteq 1..m /\ 1..n # 1..m /\ 1..n \in SUBSET Nat /\ 1..m \in SUBSET Nat
      <3>1. m \in 1..m /\ m \notin 1..n
        BY <1>4
      <3> QED
        BY <1>4, <3>1
    <2>3. <<1..n, 1..m>> \in StrictSubsetOrdering(Nat)
      BY <2>2 DEF StrictSubsetOrdering
    <2> QED
      BY <1>2, <1>3, <2>1, <2>3
  <1>5. \A n \in S : m <= n
    BY <1>4
  <1> QED
    BY <1>5

(* The first tier that finds something decides.                            *)
LEMMA DecisionAt ==
  ASSUME NEW tiers, DOMAIN tiers \subseteq Nat,
         NEW t \in DOMAIN tiers, tiers[t] # {},
         \A u \in DOMAIN tiers : u < t => tiers[u] = {}
  PROVE  /\ Decision(tiers).tier = t
         /\ \A id : tiers[t] = {id} => Decision(tiers) = [entity |-> id, tier |-> t]
         /\ ~(\E id \in tiers[t] : tiers[t] = {id}) =>
              Decision(tiers) = [entity |-> Nothing, tier |-> t]
  <1> DEFINE found == {u \in DOMAIN tiers : tiers[u] # {}}
             first == CHOOSE u \in found : \A v \in found : u <= v
  <1>1. t \in found /\ \A v \in found : t <= v /\ v \in Nat
    OBVIOUS
  <1>2. \A u \in found : (\A v \in found : u <= v) => u = t
    BY <1>1
  <1> HIDE DEF found
  <1>3. first = t
    BY <1>1, <1>2
  <1> HIDE DEF first
  <1>4. Decision(tiers) =
          CASE found = {} -> [entity |-> Nothing, tier |-> 0]
            [] found # {} /\ \E id \in tiers[first] : tiers[first] = {id} ->
                 [entity |-> CHOOSE id \in tiers[first] : TRUE, tier |-> first]
            [] OTHER -> [entity |-> Nothing, tier |-> first]
    BY DEF Decision, found, first
  <1>5. CASE \E id \in tiers[t] : tiers[t] = {id}
    <2>1. Decision(tiers) = [entity |-> CHOOSE id \in tiers[t] : TRUE, tier |-> t]
      BY <1>1, <1>3, <1>4, <1>5
    <2>2. \A id : tiers[t] = {id} => (CHOOSE x \in tiers[t] : TRUE) = id
      OBVIOUS
    <2> QED
      BY <1>5, <2>1, <2>2
  <1>6. CASE ~(\E id \in tiers[t] : tiers[t] = {id})
    <2>1. Decision(tiers) = [entity |-> Nothing, tier |-> t]
      BY <1>1, <1>3, <1>4, <1>6
    <2> QED
      BY <1>6, <2>1
  <1> QED
    BY <1>5, <1>6

LEMMA DecisionNone ==
  ASSUME NEW tiers, \A t \in DOMAIN tiers : tiers[t] = {}
  PROVE  Decision(tiers) = [entity |-> Nothing, tier |-> 0]
  BY DEF Decision

(* Tiers that find one entity more, if anything: no answer turns from one  *)
(* of the others to another.                                               *)
LEMMA OneMoreEntity ==
  ASSUME NEW tiers, NEW more, NEW entity,
         DOMAIN tiers \subseteq Nat, DOMAIN more = DOMAIN tiers,
         \A t \in DOMAIN tiers : more[t] = tiers[t] \/ more[t] = tiers[t] \cup {entity.id},
         \A t \in DOMAIN tiers : entity.id \notin tiers[t]
  PROVE  NotRedirected(Decision(tiers), Decision(more), entity)
  <1> DEFINE found == {t \in DOMAIN tiers : tiers[t] # {}}
             later == {t \in DOMAIN tiers : more[t] # {}}
  <1>1. CASE later = {}
    <2>1. \A t \in DOMAIN tiers : more[t] = {} /\ tiers[t] = {}
      BY <1>1
    <2> QED
      BY <2>1, DecisionNone DEF NotRedirected
  <1>2. CASE later # {}
    <2>1. PICK a \in later : \A t \in later : a <= t
      <3>1. later \in SUBSET Nat
        OBVIOUS
      <3> HIDE DEF later
      <3> QED
        BY <1>2, <3>1, LeastElement
    <2>2. a \in DOMAIN tiers /\ a \in Nat /\ more[a] # {} /\ \A u \in DOMAIN tiers : u < a => more[u] = {}
      BY <2>1
    <2>3. \A u \in DOMAIN tiers : u < a => tiers[u] = {}
      BY <2>2
    <2>4. CASE tiers[a] = {}
      <3>1. more[a] = {entity.id}
        BY <2>2, <2>4
      <3>2. Decision(more) = [entity |-> entity.id, tier |-> a]
        BY <2>2, <3>1, DecisionAt
      <3>3. Decision(tiers).tier = 0 \/ a < Decision(tiers).tier
        <4>1. CASE found = {}
          <5>1. \A t \in DOMAIN tiers : tiers[t] = {}
            BY <4>1
          <5> QED
            BY <5>1, DecisionNone
        <4>2. CASE found # {}
          <5>1. PICK b \in found : \A t \in found : b <= t
            <6>1. found \in SUBSET Nat
              OBVIOUS
            <6> HIDE DEF found
            <6> QED
              BY <4>2, <6>1, LeastElement
          <5>2. b \in DOMAIN tiers /\ b \in Nat /\ tiers[b] # {} /\ \A u \in DOMAIN tiers : u < b => tiers[u] = {}
            BY <5>1
          <5>3. Decision(tiers).tier = b
            BY <5>2, DecisionAt
          <5>4. a < b
            BY <2>2, <2>3, <2>4, <5>2
          <5> QED
            BY <5>3, <5>4
        <4> QED
          BY <4>1, <4>2
      <3> QED
        BY <3>2, <3>3 DEF NotRedirected
    <2>5. CASE tiers[a] # {} /\ more[a] = tiers[a]
      <3>1. CASE \E id \in tiers[a] : tiers[a] = {id}
        BY <2>2, <2>3, <2>5, <3>1, DecisionAt DEF NotRedirected
      <3>2. CASE ~(\E id \in tiers[a] : tiers[a] = {id})
        BY <2>2, <2>3, <2>5, <3>2, DecisionAt DEF NotRedirected
      <3> QED
        BY <3>1, <3>2
    <2>6. CASE tiers[a] # {} /\ more[a] = tiers[a] \cup {entity.id}
      <3>1. ~(\E id \in more[a] : more[a] = {id})
        BY <2>2, <2>6
      <3>2. Decision(more) = [entity |-> Nothing, tier |-> a]
        BY <2>2, <3>1, DecisionAt
      <3>3. Decision(tiers).tier = a
        BY <2>2, <2>3, <2>6, DecisionAt
      <3> QED
        BY <3>2, <3>3 DEF NotRedirected
    <2> QED
      BY <2>2, <2>4, <2>5, <2>6
  <1> QED
    BY <1>1, <1>2

(* What a tier looks for in an entity, and that it finds what has it.      *)
Matches(t, e, query) ==
  CASE t = 1 -> query.domain # NoDomain /\ query.domain \in e.domains
    [] t = 2 -> query.name = e.name
    [] t = 3 -> query.name \in e.aliases
    [] t = 4 -> query.name.norm # <<>> /\ query.name.norm = e.name.norm
    [] t = 5 -> /\ query.name.norm # <<>>
                /\ query.name.norm \in Normalized(e) \cup e.normalized
    [] t = 6 -> \E name \in Names(e) : Similar(query.name.norm, name.norm)

LEMMA TiersMatch ==
  ASSUME NEW seed, NEW query, DOMAIN seed \subseteq Nat, WellFormed(seed), NEW t \in 1..6
  PROVE  Tiers(seed, query)[t]
           = {entity.id : entity \in {e \in Entities(seed) : Matches(t, e, query)}}
  <1>1. t = 1 \/ t = 2 \/ t = 3 \/ t = 4 \/ t = 5 \/ t = 6
    OBVIOUS
  <1>2. CASE t = 1
    BY <1>2, DomainAlike DEF Tiers, Matches
  <1>3. CASE t = 2
    BY <1>3, CanonicalAlike DEF Tiers, Matches
  <1>4. CASE t = 3
    BY <1>4, AliasesAlike DEF Tiers, Matches
  <1>5. CASE t = 4
    BY <1>5, NormalizedAlike DEF Tiers, Matches
  <1>6. CASE t = 5
    BY <1>6, AliasesAlike DEF Tiers, Matches
  <1>7. CASE t = 6
    BY <1>7, AliasesAlike DEF Tiers, Matches
  <1> QED
    BY <1>1, <1>2, <1>3, <1>4, <1>5, <1>6, <1>7

(* Coverage may grow: an entity that is added to a well-formed seed never  *)
(* sends a query from one of the other entities to another.                *)
THEOREM NobodyRedirected ==
  ASSUME NEW seed, NEW front, NEW query, NEW n \in Nat \ {0},
         DOMAIN seed = 1..n, DOMAIN front = 1..(n - 1),
         \A i \in 1..(n - 1) : front[i] = seed[i],
         WellFormed(seed)
  PROVE  NotRedirected(resolve(front, query), resolve(seed, query), seed[n])
  <1> DEFINE tiers == Tiers(front, query)
             more  == Tiers(seed, query)
  <1>1. /\ DOMAIN seed \subseteq Nat /\ DOMAIN front \subseteq Nat
        /\ n \in DOMAIN seed /\ WellFormed(front)
    BY DEF WellFormed
  <1>2. Entities(seed) = Entities(front) \cup {seed[n]}
    <2>1. 1..n = 1..(n - 1) \cup {n}
      OBVIOUS
    <2> QED
      BY <2>1 DEF Entities
  <1>3. \A e \in Entities(front) : e.id # seed[n].id
    <2>1. \A i \in 1..(n - 1) : i \in 1..n /\ i # n
      OBVIOUS
    <2> QED
      BY <1>1, <2>1 DEF Entities, WellFormed
  <1>4. ASSUME NEW t \in 1..6
        PROVE  /\ more[t] = tiers[t] \/ more[t] = tiers[t] \cup {seed[n].id}
               /\ seed[n].id \notin tiers[t]
    <2>1. tiers[t] = {entity.id : entity \in {e \in Entities(front) : Matches(t, e, query)}}
      BY <1>1, TiersMatch
    <2>2. more[t] = {entity.id : entity \in {e \in Entities(seed) : Matches(t, e, query)}}
      BY <1>1, TiersMatch
    <2> HIDE DEF tiers, more
    <2>3. seed[n].id \notin tiers[t]
      BY <1>3, <2>1
    <2>4. CASE Matches(t, seed[n], query)
      <3>1. more[t] = tiers[t] \cup {seed[n].id}
        BY <1>2, <2>1, <2>2, <2>4
      <3> QED
        BY <2>3, <3>1
    <2>5. CASE ~Matches(t, seed[n], query)
      <3>1. {e \in Entities(seed) : Matches(t, e, query)} = {e \in Entities(front) : Matches(t, e, query)}
        BY <1>2, <2>5
      <3> QED
        BY <2>1, <2>2, <2>3, <3>1
    <2> QED
      BY <2>4, <2>5
  <1>5. DOMAIN tiers = 1..6 /\ DOMAIN more = 1..6
    BY DEF Tiers
  <1> HIDE DEF tiers, more
  <1>6. NotRedirected(Decision(tiers), Decision(more), seed[n])
    BY <1>4, <1>5, OneMoreEntity
  <1> QED
    BY <1>6 DEF resolve, tiers, more
=============================================================================
