----------------------------- MODULE PriceRules -----------------------------
(***************************************************************************)
(* How the workbench turns the quotations of a provider into its price     *)
(* list (normalizers.ts: order, derived tiers, keys) and how it finds a    *)
(* selected quotation again in a newer list (priceOptions.ts).             *)
(*                                                                         *)
(* A raw quotation is a record [id, provider, price, stock, tier, meta]:   *)
(* meta says that the source has tier metadata, readable (tier) or not.    *)
(* Prices are small numbers; Absent stands for undefined.                  *)
(***************************************************************************)
EXTENDS Naturals, FiniteSets, Sequences

CONSTANTS
    Quotes,       \* the raw quotations a list is made of
    MaxQuotes     \* bound: length of a list

ASSUME PriceRulesAssumption ==
    \A q \in Quotes : q.price \in Nat /\ q.stock \in Nat /\ q.meta \in BOOLEAN

Absent == 999
NoTier == "none"
TierOrder == [none |-> 0, Bronze |-> 1, Silver |-> 2, Gold |-> 3]
Lists == UNION {[1..n -> Quotes] : n \in 0..MaxQuotes}

\* isAvailablePrice and isSelectablePrice.
Available(q) == q.price # Absent /\ (q.stock = Absent \/ q.stock > 0)
-----------------------------------------------------------------------------
\* The order of normalizePrices: by price, unpriced last, otherwise as they came.
Before(s, i, j) ==
    \/ s[i].price < s[j].price
    \/ s[i].price = s[j].price /\ i < j
Position(s, i) == 1 + Cardinality({j \in DOMAIN s : Before(s, j, i)})
Sorted(s) ==
    [n \in DOMAIN s |->
        LET i == CHOOSE i \in DOMAIN s : Position(s, i) = n IN
        [value |-> s[i].id, index |-> i, provider |-> s[i].provider, price |-> s[i].price,
         stock |-> s[i].stock, tier |-> s[i].tier, meta |-> s[i].meta]]

\* Mutant: the lower third starts one price late.
DerivedTierLate(index, count) ==
    IF count < 2 THEN "Bronze"
    ELSE IF index = count - 1 THEN "Gold"
    ELSE <<"Bronze", "Silver", "Gold">>[((count - index) * 3) \div (count + 1) + 1]

\* derivedPriceTier: the index-th of `count` different prices, from 0.
DerivedTier(index, count) ==
    IF count < 2 \/ index = 0 THEN "Bronze"
    ELSE IF count = 2 \/ index = count - 1 THEN "Gold"
    ELSE <<"Bronze", "Silver", "Gold">>[(index * 3) \div count + 1]

\* deriveMissingPriceTiers.
Derivable(q) == q.tier = NoTier /\ ~q.meta /\ Available(q)
Tiered(s) ==
    LET different == {q.price : q \in {s[i] : i \in {k \in DOMAIN s : Available(s[k])}}}
        rank(p) == Cardinality({x \in different : x < p})
    IN  [i \in DOMAIN s |->
            [value |-> s[i].value, index |-> s[i].index, provider |-> s[i].provider,
             price |-> s[i].price, stock |-> s[i].stock, derived |-> Derivable(s[i]),
             tier |-> IF Derivable(s[i])
                        THEN DerivedTier(rank(s[i].price), Cardinality(different))
                        ELSE s[i].tier]]

NormalizePrices(s) == Tiered(Sorted(s))
-----------------------------------------------------------------------------
\* Mutant: a quotation of the same identifier will do.
SameById(a, b) == a.value = b.value

\* hasSameOfferDetails.
SameDetails(a, b) ==
    a.provider = b.provider /\ a.price = b.price /\ (a.derived \/ b.derived \/ a.tier = b.tier)

\* findRefreshedPrice: the positions of `next` it may return, none or one.
Refreshed(previous, next) ==
    LET same == {i \in DOMAIN next : Available(next[i]) /\ SameDetails(next[i], previous)}
        exact == {i \in same : next[i].value = previous.value}
    IN  IF exact # {} THEN {i \in exact : \A j \in exact : i <= j}
        ELSE IF Cardinality(same) = 1 THEN same ELSE {}
-----------------------------------------------------------------------------
(* Properties *)

Shown == [s \in Lists |-> NormalizePrices(s)]
Selected(s) == {p \in {Shown[s][i] : i \in DOMAIN s} : Available(p)}

\* Refreshing the prices, or restoring a selection that was saved with its price
\* (the priceSnapshot of a draft; one without is found by its exact key and not
\* claimed here), never changes what is paid to whom, and keeps the selection for
\* as long as the provider still quotes it, however the list was reordered,
\* extended or re-tiered meanwhile.
RefreshKeepsOffer ==
    \A old, new \in Lists : \A p \in Selected(old) :
        LET next == Shown[new]
            found == Refreshed(p, next)
        IN  /\ \A i \in found : next[i].provider = p.provider /\ next[i].price = p.price
            /\ (\E i \in DOMAIN new : old[p.index] = new[i]) => found # {}

\* Among prices whose tier the source does not say, a dearer one never has a
\* lower tier, the cheapest is Bronze, and the dearest of several is Gold.
TiersFollowPrices ==
    \A count \in 1..12 :
        /\ DerivedTier(0, count) = "Bronze"
        /\ count > 1 => DerivedTier(count - 1, count) = "Gold"
        /\ \A i \in 1..(count - 1) :
              TierOrder[DerivedTier(i - 1, count)] <= TierOrder[DerivedTier(i, count)]
=============================================================================
