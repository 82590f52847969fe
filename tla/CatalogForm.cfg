CONSTANTS
    p1 = p1
    p2 = p2
    s1 = s1
    s2 = s2
    n1 = n1
    o1 = o1
    o2 = o2
    Providers = {p1, p2}
    Services = {s1, s2}
    Countries = {n1}
    Offers = {o1}
    Drafts <- MCDrafts
    None = None
    MaxActions = 2
    MaxFaults = 1
    MaxLate = 1
    Quotes <- MCQuotes
    MaxQuotes = 2
SPECIFICATION FairSpec
INVARIANTS
    OfferIsCurrent
    FormIsHonest
    PricesAreSound
PROPERTIES
    CatalogSettles
CHECK_DEADLOCK FALSE
