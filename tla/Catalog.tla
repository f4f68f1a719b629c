------------------------------ MODULE Catalog ------------------------------
(***************************************************************************)
(* The model catalog of one provider (catalog/catalog.ts) and the choice   *)
(* of a model from it (helpers/select-model.ts).  An entry is found by its *)
(* slug, by an exact name in the alias index, or by a name that normalizes *)
(* to one of its own; the indexes only grow.  A name is a base and a       *)
(* spelling of it, and normalizeId forgets the spelling.                   *)
(***************************************************************************)
EXTENDS Integers, Sequences, FiniteSets, SequencesExt

CONSTANTS
  MgData,        \* sequences of entries that may be loaded: [name, id, aliases, gone, active, shutdown, price, version]
  MgNames,       \* names callers use: [base, spelling]
  MgPrices,      \* price bounds of a query
  MgLoads,       \* bound: loads
  MgEnd          \* bound: the last day

ASSUME MgAssumption == MgLoads \in Nat /\ MgEnd \in Nat
(* A model measured as unavailable ships inactive (ModelInfo.unavailable). *)
ASSUME MgShapes ==
  \A data \in MgData :
    data \in Seq(ToSet(data)) /\ \A k \in 1 .. Len(data) : data[k].gone => ~data[k].active

VARIABLES
  mgModels,      \* slug -> entry
  mgAlias,       \* aliasIndex: name -> slug
  mgNorm,        \* normIndex: base -> slug
  mgClaimed,     \* <<name, slug>>: every name an entry was ever given
  mgLoads, mgDay

mgVars == <<mgModels, mgAlias, mgNorm, mgClaimed, mgLoads, mgDay>>

-----------------------------------------------------------------------------
MgEmpty == [x \in {} |-> x]
MgInit ==
  /\ mgModels = MgEmpty /\ mgAlias = MgEmpty /\ mgNorm = MgEmpty
  /\ mgClaimed = {} /\ mgLoads = 0 /\ mgDay = 0

MgWith(f, keys, v) == [k \in DOMAIN f \cup keys |-> IF k \in keys THEN v ELSE f[k]]
MgNormalize(name) == name.base
(* The names that find an entry: the provider's own id and the aliases.    *)
MgOwnNames(e) == e.aliases
MgOtherNames(e) == e.id \cup e.aliases
(* set: the entry under its slug; its other names to the alias index,      *)
(* except those that are slugs; all of them to the normalized index,       *)
(* except what another name took first.                                    *)
MgSetEntry(c, e) ==
  LET models == MgWith(c.models, {e.name}, e)
      all    == {e.name} \cup MgOtherNames(e)
  IN  [models  |-> models,
       alias   |-> MgWith(c.alias, MgOtherNames(e) \ DOMAIN models, e.name),
       norm    |-> MgWith(c.norm, {MgNormalize(n) : n \in all} \ DOMAIN c.norm, e.name)]

(* load: the entries of the data, set one after the other.                 *)
MgAfter(data) ==
  LET after[n \in 0 .. Len(data)] ==
        IF n = 0 THEN [models |-> mgModels, alias |-> mgAlias, norm |-> mgNorm] ELSE MgSetEntry(after[n - 1], data[n])
  IN  after
MgGiven(e) == ({e.name} \cup e.id \cup e.aliases) \X {e.name}
MgLoad(data) ==
  /\ mgLoads < MgLoads /\ mgLoads' = mgLoads + 1
  /\ LET c == MgAfter(data)[Len(data)] IN
     mgModels' = c.models /\ mgAlias' = c.alias /\ mgNorm' = c.norm
  /\ mgClaimed' = mgClaimed \cup UNION {MgGiven(data[k]) : k \in 1 .. Len(data)}
  /\ UNCHANGED mgDay
MgTomorrow ==
  /\ mgDay < MgEnd /\ mgDay' = mgDay + 1 /\ UNCHANGED <<mgModels, mgAlias, mgNorm, mgClaimed, mgLoads>>
MgNext == MgTomorrow \/ \E data \in MgData : MgLoad(data)

-----------------------------------------------------------------------------
(* get: the slug, the alias, the normalized name; {} is null.              *)
MgGet(name) ==
  IF name \in DOMAIN mgModels THEN {mgModels[name]}
  ELSE IF name \in DOMAIN mgAlias THEN {mgModels[mgAlias[name]]}
  ELSE IF MgNormalize(name) \in DOMAIN mgNorm THEN {mgModels[mgNorm[MgNormalize(name)]]} ELSE {}
(* resolveModelId: a slug is replaced by the provider's id, an exact other *)
(* name goes out as written, a near name becomes the id or the slug.       *)
MgIdOf(e) == IF e.id # {} THEN CHOOSE n \in e.id : TRUE ELSE e.name
MgResolve(name) ==
  IF name \in DOMAIN mgModels THEN MgIdOf(mgModels[name])
  ELSE IF name \in DOMAIN mgAlias THEN name
  ELSE IF MgNormalize(name) \in DOMAIN mgNorm THEN MgIdOf(mgModels[mgNorm[MgNormalize(name)]]) ELSE name

MgPastShutdown(e) == \E d \in e.shutdown : d < mgDay
MgUnavailable(name) == \E e \in MgGet(name) : e.gone \/ MgPastShutdown(e)
(* refuseCall: an unavailable model is refused, unless its caller wrote an *)
(* exact other name of it.                                                 *)
MgRefused(name) == MgUnavailable(name) /\ ~(name \notin DOMAIN mgModels /\ name \in DOMAIN mgAlias)
(* The refusal names the provider's id as the way to ask for it anyway.    *)
MgHint(name) == IF MgRefused(name) THEN UNION {e.id : e \in MgGet(name)} \ {name} ELSE {}

(* selectModels: without a filter on active, neither the inactive nor the  *)
(* past their shutdown; cheapest first, then the newest.                   *)
MgAnyShutdown(e, activeFilter) == activeFilter \/ e.active
MgOffered(e, activeFilter) == activeFilter \/ (e.active /\ ~MgPastShutdown(e))
MgMatches(e, price) == e.price <= price
MgCandidates(price, activeFilter) ==
  {e \in {mgModels[n] : n \in DOMAIN mgModels} : MgOffered(e, activeFilter) /\ MgMatches(e, price)}
MgBefore(e, f) == e.price < f.price \/ (e.price = f.price /\ e.version > f.version)
MgBest(price, activeFilter) ==
  LET all == MgCandidates(price, activeFilter) IN {e \in all : \A f \in all : ~MgBefore(f, e)}

-----------------------------------------------------------------------------
MgTypeOK ==
  /\ \A n \in DOMAIN mgModels : mgModels[n].name = n
  /\ \A n \in DOMAIN mgAlias : mgAlias[n] \in DOMAIN mgModels
  /\ \A b \in DOMAIN mgNorm : mgNorm[b] \in DOMAIN mgModels

MgUnshared(n) == \A p, q \in mgClaimed : (p[1] = n /\ q[1] = n) => p[2] = q[2]
(* As long as no two entries were given the same name, the name that goes  *)
(* to the provider finds in the catalog the entry that was asked for: what *)
(* is priced and checked is what is called.                                *)
MgCalledIsPriced ==
  \A n \in MgNames :
    (\A m \in {n, MgResolve(n)} \cup UNION {e.id : e \in MgGet(n)} : MgUnshared(m)) => MgGet(MgResolve(n)) = MgGet(n)
(* An unavailable model goes out only under a name its caller wrote        *)
(* himself, and following a refusal's hint leads past the refusal, unless  *)
(* the id it names is a slug as well.                                      *)
MgRefusalHolds ==
  \A n \in MgNames :
    /\ (MgUnavailable(n) /\ ~MgRefused(n)) => MgResolve(n) = n
    /\ \A hint \in MgHint(n) : hint \notin DOMAIN mgModels => ~MgRefused(hint)
(* The model a selection recommends can be called.                         *)
MgPicksAreCallable ==
  \A price \in MgPrices : \A e \in MgBest(price, FALSE) : ~MgRefused(e.name)

MgFaithful == MgCalledIsPriced /\ MgRefusalHolds /\ MgPicksAreCallable
=============================================================================
