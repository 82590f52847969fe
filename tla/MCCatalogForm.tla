--------------------------- MODULE MCCatalogForm ---------------------------
(* Instances of CatalogForm for TLC: the server kept no draft yet, or one     *)
(* that selects an offer.                                                     *)
EXTENDS CatalogForm, PriceRules

CONSTANTS p1, p2, s1, s2, n1, o1, o2

MCDrafts ==
    {[provider |-> p1, service |-> None, country |-> None, offer |-> None],
     [provider |-> p1, service |-> s1, country |-> n1, offer |-> o1],
     [provider |-> p2, service |-> s2, country |-> n1, offer |-> o1]}

\* Two identifiers that may change their price, run out or come back, and beside
\* them another provider, a stated tier, one that cannot be read, and no price.
Quote(i, v, p, k) ==
    [id |-> i, provider |-> v, price |-> p, stock |-> k, tier |-> NoTier, meta |-> FALSE]
MCQuotes ==
    {Quote(i, "x", p, k) : i \in {"a", "b"}, p \in {1, 2}, k \in {0, 1}}
    \cup {Quote("a", "y", 1, Absent), Quote("b", "x", Absent, 1),
          [Quote("a", "x", 1, 1) EXCEPT !.tier = "Gold"],
          [Quote("b", "x", 1, 1) EXCEPT !.meta = TRUE]}

\* Prices on show have been through rules that find a selection again without
\* changing whom it pays what, and that tier them by price (PriceRules).
PricesAreSound == prices # Blank => RefreshKeepsOffer /\ TiersFollowPrices
=============================================================================
