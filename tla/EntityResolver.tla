--------------------------- MODULE EntityResolver ---------------------------
(***************************************************************************)
(* Entity resolution in tiers: DeterministicEntityResolver in Python       *)
(* (crawler/entity_resolution/resolver.py) and its twin in TypeScript      *)
(* (extraction_engine/src/entity_resolution/resolver.ts).                  *)
(*                                                                         *)
(* A name, in lower case, is a record of the tokens that                   *)
(* normalize_entity_name leaves of it in Python (norm) and                 *)
(* normalizeEntityName in TypeScript (normTS), and its spelling.  The two  *)
(* differ where a letter is not ASCII: \w keeps it in Python              *)
(* (normalizer.py:91) and not in TypeScript (normalizer.ts:45).  A name    *)
(* that is stored normalized is such a sequence of tokens.  A query also   *)
(* has the domain that each language makes of what it is given; the        *)
(* domains of the entities are plain host names, the same in both.  A seed *)
(* is a sequence of entities.                                              *)
(***************************************************************************)
EXTENDS Integers, Sequences, FiniteSets

CONSTANTS
  Stopwords,   \* GENERIC_AI_STOPWORDS
  NoDomain,    \* no domain, or none that normalize_domain understands
  Nothing      \* no entity

Tokens(norm) == {norm[i] : i \in DOMAIN norm}
Significant(norm) == Tokens(norm) \ Stopwords

-----------------------------------------------------------------------------
(* The indexes: the entities found by a key, given where in the seed it is *)

(* Faulty variant: the first entity with the alias keeps it for itself.    *)
OwnersFirst(seed, places) == {seed[i].id : i \in {j \in places : \A k \in places : j <= k}}

(* Alias indexes: every entity with the key.                               *)
Owners(seed, places) == {seed[i].id : i \in places}

(* The other indexes: the last entity with the key overwrites the others.  *)
LastOwner(seed, places) == {seed[i].id : i \in {j \in places : \A k \in places : k <= j}}

-----------------------------------------------------------------------------
(* The tiers: the entities each finds for a query *)

OfficialDomain(seed, query) ==
  LastOwner(seed, {i \in DOMAIN seed :
                     query.domain # NoDomain /\ query.domain \in seed[i].domains})

OfficialDomainTS(seed, query) ==
  LastOwner(seed, {i \in DOMAIN seed :
                     query.domainTS # NoDomain /\ query.domainTS \in seed[i].domains})

ExactCanonicalName(seed, query) ==
  LastOwner(seed, {i \in DOMAIN seed : query.name = seed[i].name})

ExactAlias(seed, query) ==
  Owners(seed, {i \in DOMAIN seed : query.name \in seed[i].aliases})

NormalizedCanonicalName(seed, query) ==
  LastOwner(seed, {i \in DOMAIN seed :
                     query.name.norm # <<>> /\ query.name.norm = seed[i].name.norm})

NormalizedCanonicalNameTS(seed, query) ==
  LastOwner(seed, {i \in DOMAIN seed :
                     query.name.normTS # <<>> /\ query.name.normTS = seed[i].name.normTS})

Normalized(entity)   == {alias.norm : alias \in entity.aliases}
NormalizedTS(entity) == {alias.normTS : alias \in entity.aliases}

(* Python looks among the stored normalized aliases, too.                  *)
NormalizedAlias(seed, query) ==
  Owners(seed, {i \in DOMAIN seed :
                  /\ query.name.norm # <<>>
                  /\ query.name.norm \in Normalized(seed[i]) \cup seed[i].normalized})

NormalizedAliasTS(seed, query) ==
  Owners(seed, {i \in DOMAIN seed :
                  query.name.normTS # <<>> /\ query.name.normTS \in NormalizedTS(seed[i])})

(* The significant tokens are the same, and there are some.                *)
Similar(norm, other) == Significant(norm) # {} /\ Significant(norm) = Significant(other)

(* Faulty variant: it is enough that the tokens of the query are there.    *)
SimilarTSLoosely(norm, other) ==
  Significant(norm) # {} /\ Significant(norm) \subseteq Tokens(other)

(* There are as many, and those of the query are among the tokens.         *)
SimilarTS(norm, other) ==
  /\ Significant(norm) # {}
  /\ Cardinality(Significant(norm)) = Cardinality(Significant(other))
  /\ Significant(norm) \subseteq Tokens(other)

Names(entity) == {entity.name} \cup entity.aliases

TokenMatch(seed, query) ==
  Owners(seed, {i \in DOMAIN seed :
                  \E name \in Names(seed[i]) : Similar(query.name.norm, name.norm)})

TokenMatchTS(seed, query) ==
  Owners(seed, {i \in DOMAIN seed :
                  \E name \in Names(seed[i]) : SimilarTS(query.name.normTS, name.normTS)})

Tiers(seed, query) ==
  <<OfficialDomain(seed, query), ExactCanonicalName(seed, query), ExactAlias(seed, query),
    NormalizedCanonicalName(seed, query), NormalizedAlias(seed, query), TokenMatch(seed, query)>>

TiersTS(seed, query) ==
  <<OfficialDomainTS(seed, query), ExactCanonicalName(seed, query), ExactAlias(seed, query),
    NormalizedCanonicalNameTS(seed, query), NormalizedAliasTS(seed, query), TokenMatchTS(seed, query)>>

-----------------------------------------------------------------------------

(* Faulty variant: a tier that finds several entities is passed over.      *)
DecisionPassingOver(tiers) ==
  LET unique == {t \in DOMAIN tiers : \E id \in tiers[t] : tiers[t] = {id}}
      first == CHOOSE t \in unique : \A u \in unique : t <= u
  IN IF unique = {} THEN [entity |-> Nothing, tier |-> 0]
     ELSE [entity |-> CHOOSE id \in tiers[first] : TRUE, tier |-> first]

(* The first tier that finds something decides: one entity is the answer,  *)
(* several are none.                                                       *)
Decision(tiers) ==
  LET found == {t \in DOMAIN tiers : tiers[t] # {}}
      first == CHOOSE t \in found : \A u \in found : t <= u
  IN CASE found = {} -> [entity |-> Nothing, tier |-> 0]
       [] found # {} /\ \E id \in tiers[first] : tiers[first] = {id} ->
            [entity |-> CHOOSE id \in tiers[first] : TRUE, tier |-> first]
       [] OTHER -> [entity |-> Nothing, tier |-> first]

resolve(seed, query)   == Decision(Tiers(seed, query))
resolveTS(seed, query) == Decision(TiersTS(seed, query))

-----------------------------------------------------------------------------
(* Properties *)

IsName(name) == name.norm \in Seq(STRING) /\ name.normTS \in Seq(STRING)

(* Of two entities none has a domain or the normalized canonical name of   *)
(* the other.                                                              *)
WellFormed(seed) ==
  \A i, j \in DOMAIN seed :
    i # j => /\ seed[i].id # seed[j].id
             /\ seed[i].domains \cap seed[j].domains = {}
             /\ seed[i].name.norm # seed[j].name.norm

(* The two languages read the query alike, and what they do not read alike *)
(* in the seed has nothing to do with it: a name they normalize            *)
(* differently has none of its tokens, and what Python alone reads, a      *)
(* stored normalized alias, is that of a verified one.                     *)
ReadAlike(seed, query) ==
  /\ query.name.norm = query.name.normTS /\ query.domain = query.domainTS
  /\ \A i \in DOMAIN seed :
       /\ \A name \in Names(seed[i]) :
            \/ name.norm = name.normTS
            \/ Tokens(query.name.norm) \cap (Tokens(name.norm) \cup Tokens(name.normTS)) = {}
       /\ query.name.norm \in seed[i].normalized => query.name.norm \in Normalized(seed[i])

(* An answer that an entity more in the seed may turn into another: the    *)
(* answer stays, becomes that entity by an earlier tier (or the only one), *)
(* or is lost to an ambiguity at the same tier.                            *)
NotRedirected(before, after, entity) ==
  \/ after = before
  \/ after.entity = Nothing /\ after.tier = before.tier
  \/ after.entity = entity.id /\ (before.tier = 0 \/ after.tier < before.tier)
=============================================================================
