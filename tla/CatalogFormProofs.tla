-------------------------- MODULE CatalogFormProofs --------------------------
(***************************************************************************)
(* Proofs about CatalogForm for any providers, services, countries, offers *)
(* and bounds: what the form shows is what was asked for, its flags are    *)
(* those of the requests that are out, and an order carries an offer of    *)
(* the selection it is for.  At the end, the rules that the prices on show *)
(* went through (PriceRules), for lists of any length.                     *)
(***************************************************************************)
EXTENDS MCCatalogForm, FiniteSetTheorems, WellFoundedInduction, TLAPS

\* The counters that the handler of a request asks about again.
Held(at) ==
    IF at = "settings" THEN {"settings"}
    ELSE IF at = "services" THEN {"restore", "services"}
    ELSE IF at = "countries" THEN {"restore", "action", "countries"}
    ELSE IF at = "prices" THEN {"restore", "action", "prices"} ELSE {}
Where == \A c \in calls : c.fresh \subseteq Held(c.at)

\* A counter has not moved for one call at most: whoever reads it moves it.
Unique == \A c, d \in calls : \A k \in Counters : (k \in c.fresh /\ k \in d.fresh) => c = d

\* A restore that awaits its services has given every other request up, and one
\* that awaits its countries is given up with them.
First == \A c, d \in calls : ("services" \in c.fresh /\ c # d) => d.fresh \subseteq {"settings"}
Second == \A c \in calls : (c.at = "countries" /\ "restore" \in c.fresh) => "countries" \in c.fresh
Fresh == Where /\ Unique /\ First /\ Second

\* A request that counts shows its flag; the flag has such a request, of the
\* provider on show.
Flagged(cs, k, b) == \A c \in cs : k \in c.fresh => b
Waited(cs, k, b, p) == b => \E c \in cs : k \in c.fresh /\ c.draft.provider = p
Flags ==
    /\ Flagged(calls, "settings", settingsLoading) /\ Flagged(calls, "services", servicesLoading)
    /\ Flagged(calls, "countries", countriesLoading) /\ Flagged(calls, "prices", pricesLoading)
Waits ==
    /\ Waited(calls, "settings", settingsLoading, form.provider)
    /\ Waited(calls, "services", servicesLoading, form.provider)
    /\ Waited(calls, "countries", countriesLoading, form.provider)
    /\ Waited(calls, "prices", pricesLoading, form.provider)

\* The lists behind the one that is asked for are empty.
BehindServices ==
    \A c \in calls : "services" \in c.fresh =>
        countries = Blank /\ prices = Blank /\ c.draft.provider \in configured
BehindCountries ==
    \A c \in calls : "countries" \in c.fresh =>
        /\ c.draft.provider \in configured
        /\ c.draft.provider = form.provider =>
              /\ countries = Blank /\ prices = Blank /\ form.country = None
              /\ \A d \in calls : "prices" \notin d.fresh

\* The prices are those of the selection, or no order can be sent: the provider
\* is not configured, or the page still waits to restore its draft.
PricesBelong == prices # Blank => prices.of = PricesOf(form)
MountWaits ==
    \E c \in calls : c.op = "mount" /\ c.at = "dashboard" /\ c.draft.provider = form.provider
Offered == PricesBelong \/ ~Ready \/ MountWaits

FormInv ==
    /\ TypeOK /\ Fresh /\ Flags /\ (stranded \/ Waits) /\ BehindServices /\ BehindCountries
    /\ ListsBelong /\ Offered
-----------------------------------------------------------------------------
(* Calls *)

\* What is left of a call when counters have moved.
Aged(d, K) == [d EXCEPT !.fresh = @ \ K]

LEMMA Ages ==
    ASSUME NEW d \in Calls, NEW K
    PROVE  /\ Aged(d, K) \in Calls /\ Aged(d, K).op = d.op /\ Aged(d, K).at = d.at
           /\ Aged(d, K).draft = d.draft /\ Aged(d, K).fresh = d.fresh \ K
  BY DEF Aged, Calls

LEMMA NotAged ==
    ASSUME NEW cs, cs \subseteq Calls
    PROVE  Moved(cs, {}) = cs
  <1>1. ASSUME NEW d \in cs PROVE [d EXCEPT !.fresh = @ \ {}] = d
    BY DEF Calls
  <1> QED BY <1>1 DEF Moved

LEMMA Movings ==
    ASSUME NEW cs, NEW K
    PROVE  /\ \A d \in cs : Aged(d, K) \in Moved(cs, K)
           /\ \A e \in Moved(cs, K) : \E d \in cs : e = Aged(d, K)
  BY DEF Moved, Aged

\* The counters that a step may move.
Moves == SUBSET Counters

\* The new call of an Await.
Awaiting(c, at, draft, counters, held) ==
    [c EXCEPT !.at = at, !.draft = draft, !.fresh = (@ \cup counters) \cap held]

LEMMA AwaitingIs ==
    ASSUME NEW c \in Calls, NEW at \in Awaits, NEW draft \in Forms,
           NEW counters \in Moves, NEW held
    PROVE  /\ Awaiting(c, at, draft, counters, held) \in Calls
           /\ Awaiting(c, at, draft, counters, held).op = c.op
           /\ Awaiting(c, at, draft, counters, held).at = at
           /\ Awaiting(c, at, draft, counters, held).draft = draft
           /\ Awaiting(c, at, draft, counters, held).fresh = (c.fresh \cup counters) \cap held
  BY DEF Awaiting, Calls, Moves

LEMMA MovedTypes ==
    ASSUME NEW cs, cs \subseteq Calls, NEW K
    PROVE  Moved(cs, K) \subseteq Calls
  BY Movings, Ages

\* Every counter has one call still, after some have moved and a call came or none.
LEMMA FreshTurns ==
    ASSUME calls \subseteq Calls, Fresh, NEW rest, rest \subseteq calls,
           NEW K \in SUBSET Counters, NEW new, new \subseteq Calls,
           \A m, n \in new : m = n,
           calls' = Moved(rest, K) \cup new,
           \A n \in new :
              /\ n.fresh \subseteq Held(n.at)
              /\ \A d \in rest : \A k \in n.fresh : k \in d.fresh => k \in K
              /\ "services" \in n.fresh => Counters \ {"settings"} \subseteq K
              /\ (\E d \in rest : "services" \in d.fresh /\ "services" \notin K)
                    => n.fresh \subseteq {"settings"}
              /\ (n.at = "countries" /\ "restore" \in n.fresh) => "countries" \in n.fresh,
           ("countries" \in K /\ "restore" \notin K) => \A d \in rest : "restore" \notin d.fresh
    PROVE  Fresh'
  <1>0. Where /\ Unique /\ First /\ Second
    BY DEF Fresh
  <1>1. ASSUME NEW e \in calls', e \notin new
        PROVE  \E d \in rest : /\ e = Aged(d, K) /\ e.at = d.at /\ e.fresh = d.fresh \ K
                               /\ d \in calls
    BY <1>1, Movings, Ages
  <1>2. Where'
    <2>1. ASSUME NEW e \in calls' PROVE e.fresh \subseteq Held(e.at)
      <3>1. CASE e \notin new
        BY <1>0, <1>1, <3>1 DEF Where
      <3> QED BY <3>1
    <2> QED BY <2>1 DEF Where
  <1>3. Unique'
    <2>1. ASSUME NEW e \in calls', NEW f \in calls', NEW k \in Counters, k \in e.fresh, k \in f.fresh
          PROVE  e = f
      <3>1. CASE e \notin new /\ f \notin new
        BY <1>0, <1>1, <2>1, <3>1 DEF Unique
      <3>2. CASE e \in new /\ f \notin new
        BY <1>1, <2>1, <3>2
      <3>3. CASE e \notin new /\ f \in new
        BY <1>1, <2>1, <3>3
      <3> QED BY <3>1, <3>2, <3>3
    <2> QED BY <2>1 DEF Unique
  <1>4. First'
    <2>1. ASSUME NEW e \in calls', NEW f \in calls', "services" \in e.fresh, e # f
          PROVE  f.fresh \subseteq {"settings"}
      <3>1. CASE e \notin new /\ f \notin new
        <4>1. PICK d \in rest : e = Aged(d, K) /\ e.fresh = d.fresh \ K /\ d \in calls
          BY <1>1, <3>1
        <4>2. PICK g \in rest : f = Aged(g, K) /\ f.fresh = g.fresh \ K /\ g \in calls
          BY <1>1, <3>1
        <4>3. d # g /\ "services" \in d.fresh
          BY <2>1, <4>1, <4>2
        <4>4. g.fresh \subseteq {"settings"}
          BY <1>0, <4>1, <4>2, <4>3 DEF First
        <4> QED BY <4>2, <4>4
      <3>2. CASE e \notin new /\ f \in new
        BY <1>1, <2>1, <3>2
      <3>3. CASE e \in new /\ f \notin new
        <4>1. PICK g \in rest : f.fresh = g.fresh \ K /\ g \in calls
          BY <1>1, <3>3
        <4>2. g.fresh \subseteq Counters /\ Counters \ {"settings"} \subseteq K
          BY <2>1, <3>3, <4>1 DEF Calls
        <4> QED BY <4>1, <4>2
      <3> QED BY <2>1, <3>1, <3>2, <3>3
    <2> QED BY <2>1 DEF First
  <1>5. Second'
    <2>1. ASSUME NEW e \in calls', e.at = "countries", "restore" \in e.fresh
          PROVE  "countries" \in e.fresh
      <3>1. CASE e \notin new
        BY <1>0, <1>1, <2>1, <3>1 DEF Second
      <3> QED BY <2>1, <3>1
    <2> QED BY <2>1 DEF Second
  <1> QED BY <1>2, <1>3, <1>4, <1>5 DEF Fresh
-----------------------------------------------------------------------------
(* Flags *)

\* A flag stays while the request that counts is out.
LEMMA FlagStays ==
    ASSUME NEW cs, cs \subseteq Calls, NEW rest, rest \subseteq cs, NEW K, NEW new, NEW k, k \notin K,
           \A n \in new : k \notin n.fresh,
           NEW b, NEW p, \A d \in cs : d \in rest \/ ~(k \in d.fresh /\ d.draft.provider = p)
    PROVE  /\ Flagged(cs, k, b) => Flagged(Moved(rest, K) \cup new, k, b)
           /\ Waited(cs, k, b, p) => Waited(Moved(rest, K) \cup new, k, b, p)
  <1>1. ASSUME Flagged(cs, k, b) PROVE Flagged(Moved(rest, K) \cup new, k, b)
    <2>1. ASSUME NEW e \in Moved(rest, K) \cup new, k \in e.fresh PROVE b
      <3>1. PICK d \in rest : e = Aged(d, K)
        BY <2>1, Movings
      <3>2. d \in cs /\ k \in d.fresh
        BY <2>1, <3>1, Ages
      <3> QED BY <1>1, <3>2 DEF Flagged
    <2> QED BY <2>1 DEF Flagged
  <1>2. ASSUME Waited(cs, k, b, p), b
        PROVE  \E e \in Moved(rest, K) \cup new : k \in e.fresh /\ e.draft.provider = p
    <2>1. PICK d \in cs : k \in d.fresh /\ d.draft.provider = p
      BY <1>2 DEF Waited
    <2>2. d \in rest
      BY <2>1
    <2>3. Aged(d, K).draft = d.draft /\ k \in Aged(d, K).fresh /\ Aged(d, K) \in Moved(rest, K)
      BY <2>1, <2>2, Movings, Ages
    <2> QED BY <2>1, <2>3
  <1> QED BY <1>1, <1>2 DEF Waited

\* It ends with the request, or when the request is given up.
LEMMA FlagEnds ==
    ASSUME NEW rest, rest \subseteq Calls, NEW K, NEW new, NEW k, NEW p,
           \A n \in new : k \notin n.fresh,
           \A d \in rest : k \in d.fresh => k \in K
    PROVE  /\ Flagged(Moved(rest, K) \cup new, k, FALSE)
           /\ Waited(Moved(rest, K) \cup new, k, FALSE, p)
  <1>1. ASSUME NEW e \in Moved(rest, K) \cup new PROVE k \notin e.fresh
    <2>1. CASE e \in Moved(rest, K)
      <3>1. PICK d \in rest : e = Aged(d, K)
        BY <2>1, Movings
      <3> QED BY <3>1, Ages
    <2> QED BY <2>1
  <1> QED BY <1>1 DEF Flagged, Waited

\* It is set with a new request.
LEMMA FlagSet ==
    ASSUME NEW cs, NEW k, NEW p, \E n \in cs : k \in n.fresh /\ n.draft.provider = p
    PROVE  Flagged(cs, k, TRUE) /\ Waited(cs, k, TRUE, p)
  BY DEF Flagged, Waited
-----------------------------------------------------------------------------
(* What the parts of a handler do *)

LEMMA AwaitIs ==
    ASSUME calls \subseteq Calls, NEW c \in Calls, NEW at \in Awaits, NEW draft \in Forms,
           NEW counters \in Moves, NEW held, Await(c, at, draft, counters, held)
    PROVE  /\ calls' = Moved(calls \ {c}, counters) \cup {Awaiting(c, at, draft, counters, held)}
           /\ calls' \subseteq Calls
  <1>1. calls' = Moved(calls \ {c}, counters) \cup {Awaiting(c, at, draft, counters, held)}
    BY DEF Await, Awaiting
  <1>2. Awaiting(c, at, draft, counters, held) \in Calls
    BY AwaitingIs
  <1>3. Moved(calls \ {c}, counters) \subseteq Calls
    BY MovedTypes
  <1> QED BY <1>1, <1>2, <1>3

LEMMA Names ==
    /\ "settings" \in Awaits /\ "dashboard" \in Awaits /\ "put" \in Awaits
    /\ "services" \in Awaits /\ "countries" \in Awaits /\ "prices" \in Awaits
    /\ "settings" \in Counters /\ "services" \in Counters /\ "countries" \in Counters
    /\ "prices" \in Counters /\ "restore" \in Counters /\ "action" \in Counters
  BY DEF Awaits, Counters

RestoreMoves == {"restore", "action", "countries", "prices", "services"}

\* The new call of a handler that goes on.
RestoreCall(c, draft, n) ==
    /\ calls' = Moved(calls \ {c}, RestoreMoves) \cup {n}
    /\ n.at = "services" /\ n.draft = draft /\ n.fresh = {"restore", "services"}
CountriesCall(c, counters, n) ==
    /\ calls' = Moved(calls \ {c}, counters \cup {"countries", "prices"}) \cup {n}
    /\ n.at = "countries" /\ n.draft = c.draft
    /\ n.fresh = (c.fresh \cup counters \cup {"countries"}) \cap {"restore", "action", "countries"}
PricesCall(c, counters, n) ==
    /\ calls' = Moved(calls \ {c}, counters \cup {"prices"}) \cup {n}
    /\ n.at = "prices" /\ n.draft = c.draft
    /\ n.fresh = (c.fresh \cup counters \cup {"prices"}) \cap {"restore", "action", "prices"}
SettingsCall(c, n) ==
    /\ calls' = Moved(calls \ {c}, {"settings"}) \cup {n}
    /\ n.at = "settings" /\ n.draft = c.draft /\ n.fresh = {"settings"}

LEMMA SettingsIs ==
    ASSUME calls \subseteq Calls, NEW c \in Calls, AskSettings(c)
    PROVE  /\ calls' \subseteq Calls /\ settingsLoading' = TRUE
           /\ \E n \in Calls : SettingsCall(c, n)
  <1> DEFINE n == Awaiting(c, "settings", c.draft, {"settings"}, {"settings"})
  <1>1. Await(c, "settings", c.draft, {"settings"}, {"settings"}) /\ settingsLoading' = TRUE
    BY DEF AskSettings
  <1>2. c.draft \in Forms /\ "settings" \in Awaits /\ {"settings"} \in Moves
    BY Names DEF Calls, Moves
  <1>3. /\ n \in Calls /\ n.op = c.op /\ n.at = "settings" /\ n.draft = c.draft
        /\ n.fresh = (c.fresh \cup {"settings"}) \cap {"settings"}
    BY <1>2, AwaitingIs
  <1>4. calls' = Moved(calls \ {c}, {"settings"}) \cup {n} /\ calls' \subseteq Calls
    BY <1>1, <1>2, AwaitIs
  <1> HIDE DEF n
  <1>5. n.fresh = {"settings"}
    BY <1>3
  <1>6. SettingsCall(c, n)
    BY <1>3, <1>4, <1>5 DEF SettingsCall
  <1> QED BY <1>1, <1>3, <1>4, <1>6

LEMMA RestoreIs ==
    ASSUME calls \subseteq Calls, NEW c \in Calls, NEW draft \in Forms, AskRestore(c, draft)
    PROVE  /\ calls' \subseteq Calls /\ form' = draft
           /\ catalogReady' = FALSE /\ servicesLoading' = TRUE
           /\ countriesLoading' = FALSE /\ pricesLoading' = FALSE
           /\ countries' = Blank /\ prices' = Blank /\ services' = services /\ saving' = saving
           /\ \E n \in Calls : RestoreCall(c, draft, n)
  <1> DEFINE n == Awaiting(c, "services", draft, RestoreMoves, {"restore", "services"})
  <1>1. Await(c, "services", draft, RestoreMoves, {"restore", "services"})
    BY DEF AskRestore, RestoreMoves
  <1>2. "services" \in Awaits /\ RestoreMoves \in Moves
    BY Names DEF RestoreMoves, Moves
  <1>3. /\ n \in Calls /\ n.at = "services" /\ n.draft = draft
        /\ n.fresh = (c.fresh \cup RestoreMoves) \cap {"restore", "services"}
    BY <1>2, AwaitingIs
  <1>4. calls' = Moved(calls \ {c}, RestoreMoves) \cup {n} /\ calls' \subseteq Calls
    BY <1>1, <1>2, AwaitIs
  <1> HIDE DEF n
  <1>5. n.fresh = {"restore", "services"}
    BY <1>3 DEF RestoreMoves
  <1>6. /\ form' = draft /\ catalogReady' = FALSE /\ servicesLoading' = TRUE
        /\ countriesLoading' = FALSE /\ pricesLoading' = FALSE
        /\ countries' = Blank /\ prices' = Blank /\ services' = services /\ saving' = saving
    BY DEF AskRestore
  <1>7. RestoreCall(c, draft, n)
    BY <1>3, <1>4, <1>5 DEF RestoreCall
  <1> QED BY <1>3, <1>4, <1>6, <1>7

LEMMA CountriesIs ==
    ASSUME calls \subseteq Calls, NEW c \in Calls, NEW f \in Forms, NEW counters \in Moves,
           AskCountries(c, f, counters)
    PROVE  /\ calls' \subseteq Calls /\ form' \in Forms
           /\ form'.provider = f.provider /\ form'.service = f.service /\ form'.country = None
           /\ countriesLoading' = TRUE /\ pricesLoading' = FALSE
           /\ countries' = Blank /\ prices' = Blank
           /\ \E n \in Calls : CountriesCall(c, counters, n)
  <1> DEFINE K == counters \cup {"countries", "prices"}
  <1> DEFINE n == Awaiting(c, "countries", c.draft, K, {"restore", "action", "countries"})
  <1>1. Await(c, "countries", c.draft, K, {"restore", "action", "countries"})
    BY DEF AskCountries
  <1>2. c.draft \in Forms /\ "countries" \in Awaits /\ K \in Moves
    BY Names DEF Calls, Moves
  <1> HIDE DEF K
  <1>3. /\ n \in Calls /\ n.op = c.op /\ n.at = "countries" /\ n.draft = c.draft
        /\ n.fresh = (c.fresh \cup K) \cap {"restore", "action", "countries"}
    BY <1>2, AwaitingIs
  <1>4. calls' = Moved(calls \ {c}, K) \cup {n} /\ calls' \subseteq Calls
    BY <1>1, <1>2, AwaitIs
  <1> HIDE DEF n
  <1>5. n.fresh = (c.fresh \cup counters \cup {"countries"})
                     \cap {"restore", "action", "countries"}
    BY <1>3 DEF K
  <1>6. /\ form' \in Forms
        /\ form'.provider = f.provider /\ form'.service = f.service /\ form'.country = None
    BY DEF AskCountries, Forms, Choice
  <1>7. /\ countriesLoading' = TRUE /\ pricesLoading' = FALSE
        /\ countries' = Blank /\ prices' = Blank
    BY DEF AskCountries
  <1>8. CountriesCall(c, counters, n)
    BY <1>3, <1>4, <1>5 DEF K, CountriesCall
  <1> QED BY <1>3, <1>4, <1>6, <1>7, <1>8

LEMMA PricesIs ==
    ASSUME calls \subseteq Calls, NEW c \in Calls, NEW counters \in Moves,
           AskPrices(c, counters)
    PROVE  /\ calls' \subseteq Calls /\ pricesLoading' = TRUE
           /\ \E n \in Calls : PricesCall(c, counters, n)
  <1> DEFINE K == counters \cup {"prices"}
  <1> DEFINE n == Awaiting(c, "prices", c.draft, K, {"restore", "action", "prices"})
  <1>1. Await(c, "prices", c.draft, K, {"restore", "action", "prices"})
    BY DEF AskPrices
  <1>2. c.draft \in Forms /\ "prices" \in Awaits /\ K \in Moves
    BY Names DEF Calls, Moves
  <1> HIDE DEF K
  <1>3. /\ n \in Calls /\ n.op = c.op /\ n.at = "prices" /\ n.draft = c.draft
        /\ n.fresh = (c.fresh \cup K) \cap {"restore", "action", "prices"}
    BY <1>2, AwaitingIs
  <1>4. calls' = Moved(calls \ {c}, K) \cup {n} /\ calls' \subseteq Calls
    BY <1>1, <1>2, AwaitIs
  <1> HIDE DEF n
  <1>5. n.fresh = (c.fresh \cup counters \cup {"prices"}) \cap {"restore", "action", "prices"}
    BY <1>3 DEF K
  <1>6. pricesLoading' = TRUE
    BY DEF AskPrices
  <1>7. PricesCall(c, counters, n)
    BY <1>3, <1>4, <1>5 DEF K, PricesCall
  <1> QED BY <1>3, <1>4, <1>6, <1>7

LEMMA CallIs ==
    ASSUME NEW op \in Operations, NEW draft \in Forms, NEW at \in Awaits,
           NEW fresh \in Moves
    PROVE  /\ Call(op, draft) \in Calls /\ Call(op, draft).fresh = {} /\ Call(op, draft).op = op
           /\ Call(op, draft).draft = draft
           /\ [Call(op, draft) EXCEPT !.fresh = fresh] \in Calls
           /\ [Call(op, draft) EXCEPT !.at = at] \in Calls
  BY Names DEF Call, Calls, Awaits, Moves

\* A call returns, and takes its counters with it.
LEMMA ReturnIs ==
    ASSUME calls \subseteq Calls, saving \in BOOLEAN, NEW c, Return(c)
    PROVE  /\ calls' = Moved(calls \ {c}, {}) \cup {} /\ calls' \subseteq Calls /\ saving' \in BOOLEAN
  BY NotAged DEF Return
-----------------------------------------------------------------------------
(* Types *)

LEMMA BlankIs ==
    /\ Blank \in List(Services) /\ Blank \in List(Countries) /\ Blank \in List(Offers)
    /\ Blank.items = {}
  BY DEF Blank, List, Choice

LEMMA ListIs ==
    ASSUME NEW f \in Forms, NEW S, NEW items \in SUBSET S
    PROVE  /\ [of |-> ServicesOf(f), items |-> items] \in List(S)
           /\ [of |-> CountriesOf(f), items |-> items] \in List(S)
           /\ [of |-> PricesOf(f), items |-> items] \in List(S)
  BY DEF List, ServicesOf, CountriesOf, PricesOf, Forms, Choice

PageTypes ==
    /\ form \in Forms /\ catalogReady \in BOOLEAN /\ saving \in BOOLEAN
    /\ servicesLoading \in BOOLEAN /\ countriesLoading \in BOOLEAN /\ pricesLoading \in BOOLEAN
    /\ services \in List(Services) /\ countries \in List(Countries) /\ prices \in List(Offers)
    /\ calls \subseteq Calls
OtherTypes ==
    /\ keyed \subseteq Providers /\ configured \subseteq keyed
    /\ settingsLoading \in BOOLEAN /\ stranded \in BOOLEAN
    /\ actions \in 0..MaxActions /\ faults \in 0..MaxFaults /\ lates \in 0..MaxLate

LEMMA TypeParts == TypeOK <=> (PageTypes /\ OtherTypes)
  BY DEF TypeOK, PageTypes, OtherTypes

LEMMA BoundTypes ==
    ASSUME TypeOK,
           \/ UNCHANGED boundVars
           \/ Act
           \/ (lates < MaxLate /\ lates' = lates + 1 /\ UNCHANGED <<actions, faults>>)
           \/ (faults < MaxFaults /\ faults' = faults + 1 /\ UNCHANGED <<actions, lates>>)
    PROVE  actions' \in 0..MaxActions /\ faults' \in 0..MaxFaults /\ lates' \in 0..MaxLate
  <1>1. /\ MaxActions \in Nat /\ MaxFaults \in Nat /\ MaxLate \in Nat
        /\ actions \in 0..MaxActions /\ faults \in 0..MaxFaults /\ lates \in 0..MaxLate
    BY CatalogAssumption DEF TypeOK
  <1> QED BY <1>1 DEF boundVars, Act

LEMMA RestoreTypes ==
    ASSUME TypeOK, NEW c \in Calls, NEW draft \in Forms, AskRestore(c, draft)
    PROVE  PageTypes'
  <1>1. calls \subseteq Calls /\ services \in List(Services) /\ saving \in BOOLEAN
    BY DEF TypeOK
  <1> QED BY <1>1, RestoreIs, BlankIs DEF PageTypes
-----------------------------------------------------------------------------
LEMMA TypesTurn ==
    ASSUME PageTypes', OtherTypes'
    PROVE  TypeOK'
  <1>1. (PageTypes /\ OtherTypes => TypeOK)'
    BY TypeParts, PTL
  <1> QED BY <1>1

LEMMA CountriesTypes ==
    ASSUME TypeOK, NEW c \in Calls, NEW f \in Forms, NEW counters \in Moves,
           AskCountries(c, f, counters)
    PROVE  /\ form' \in Forms /\ countriesLoading' \in BOOLEAN /\ pricesLoading' \in BOOLEAN
           /\ countries' \in List(Countries) /\ prices' \in List(Offers) /\ calls' \subseteq Calls
  <1>1. calls \subseteq Calls
    BY DEF TypeOK
  <1> QED BY <1>1, CountriesIs, BlankIs

LEMMA PricesTypes ==
    ASSUME TypeOK, NEW c \in Calls, NEW counters \in Moves, AskPrices(c, counters)
    PROVE  pricesLoading' \in BOOLEAN /\ calls' \subseteq Calls
  <1>1. calls \subseteq Calls
    BY DEF TypeOK
  <1> QED BY <1>1, PricesIs

LEMMA MovingTypes ==
    ASSUME TypeOK, NEW K, NEW new \in SUBSET Calls
    PROVE  /\ Moved(calls, K) \cup new \subseteq Calls
           /\ \A c : Moved(calls \ {c}, K) \cup new \subseteq Calls
  <1>1. calls \subseteq Calls /\ \A c : calls \ {c} \subseteq Calls
    BY DEF TypeOK
  <1> QED BY <1>1, MovedTypes

LEMMA PickTypes ==
    ASSUME TypeOK,
           \/ \E p \in Providers : PickProvider(p)
           \/ \E o \in Choice(Offers) : PickOffer(o)
           \/ Save
    PROVE  TypeOK'
  <1>0. PageTypes /\ OtherTypes
    BY TypeParts
  <1>1. ASSUME NEW p \in Providers, PickProvider(p) PROVE TypeOK'
    <2> DEFINE f == [provider |-> p, service |-> None, country |-> None, offer |-> None]
    <2> DEFINE n == [Call("provider", f) EXCEPT !.fresh = {"settings"}]
    <2>1. f \in Forms
      BY DEF Forms, Choice
    <2>2. n \in Calls
      <3>1. "provider" \in Operations /\ "settings" \in Awaits /\ {"settings"} \in Moves
        BY Names DEF Operations, Moves
      <3> QED BY <2>1, <3>1, CallIs
    <2>3. calls' = Moved(calls, Counters) \cup {n} /\ form' = f
      BY <1>1 DEF PickProvider
    <2>4. actions' \in 0..MaxActions /\ faults' \in 0..MaxFaults /\ lates' \in 0..MaxLate
      BY <1>1, BoundTypes DEF PickProvider
    <2> HIDE DEF f, n
    <2>5. calls' \subseteq Calls /\ form' \in Forms
      BY <2>1, <2>2, <2>3, MovingTypes
    <2>6. PageTypes'
      BY <1>0, <1>1, <2>5, BlankIs DEF PageTypes, PickProvider
    <2>7. OtherTypes'
      BY <1>0, <1>1, <2>4 DEF OtherTypes, PickProvider
    <2> QED BY <2>6, <2>7, TypesTurn
  <1>2. ASSUME NEW o \in Choice(Offers), PickOffer(o) PROVE TypeOK'
    <2>1. form' \in Forms
      BY <1>0, <1>2 DEF PickOffer, PageTypes, Forms
    <2>2. calls' \subseteq Calls
      <3>1. Moved(calls, {"restore", "action"}) \cup {} \subseteq Calls
        BY MovingTypes
      <3> QED BY <1>2, <3>1 DEF PickOffer
    <2>4. actions' \in 0..MaxActions /\ faults' \in 0..MaxFaults /\ lates' \in 0..MaxLate
      BY <1>2, BoundTypes DEF PickOffer
    <2>6. PageTypes'
      BY <1>0, <1>2, <2>1, <2>2 DEF PageTypes, PickOffer, flagVars, listVars
    <2>7. OtherTypes'
      BY <1>0, <1>2, <2>4 DEF OtherTypes, PickOffer, flagVars
    <2> QED BY <2>6, <2>7, TypesTurn
  <1>3. ASSUME Save PROVE TypeOK'
    <2>1. [Call("save", form) EXCEPT !.at = "put"] \in Calls
      <3>1. "save" \in Operations /\ "put" \in Awaits /\ {} \in Moves /\ form \in Forms
        BY <1>0, Names DEF Operations, Moves, PageTypes
      <3> QED BY <3>1, CallIs
    <2>2. calls' \subseteq Calls
      BY <1>0, <1>3, <2>1 DEF Save, PageTypes
    <2>4. actions' \in 0..MaxActions /\ faults' \in 0..MaxFaults /\ lates' \in 0..MaxLate
      BY <1>3, BoundTypes DEF Save
    <2>6. PageTypes'
      BY <1>0, <1>3, <2>2 DEF PageTypes, Save, flagVars, listVars
    <2>7. OtherTypes'
      BY <1>0, <1>3, <2>4 DEF OtherTypes, Save, flagVars
    <2> QED BY <2>6, <2>7, TypesTurn
  <1> QED BY <1>1, <1>2, <1>3

LEMMA ChoiceTypes ==
    ASSUME TypeOK,
           \/ \E s \in Choice(Services) : PickService(s)
           \/ \E n \in Choice(Countries) : PickCountry(n)
           \/ Refresh
    PROVE  TypeOK'
  <1>0. PageTypes /\ OtherTypes
    BY TypeParts
  <1>1. ASSUME NEW s \in Choice(Services), PickService(s) PROVE TypeOK'
    <2> DEFINE f == [form EXCEPT !.service = s]
    <2>1. f \in Forms /\ [f EXCEPT !.country = None, !.offer = None] \in Forms
      BY <1>0 DEF Forms, Choice, PageTypes
    <2>2. Call("service", f) \in Calls
      <3>1. "service" \in Operations /\ "put" \in Awaits /\ {} \in Moves
        BY Names DEF Operations, Moves
      <3> HIDE DEF f
      <3> QED BY <2>1, <3>1, CallIs
    <2>3. \/ AskCountries(Call("service", f), f, {"restore", "action"}) /\ catalogReady' = FALSE
          \/ /\ form' = [f EXCEPT !.country = None, !.offer = None]
             /\ calls' = Moved(calls, {"restore", "action", "countries", "prices"})
             /\ countries' = Blank /\ prices' = Blank
             /\ countriesLoading' = FALSE /\ pricesLoading' = FALSE /\ catalogReady' = TRUE
      BY <1>1 DEF PickService
    <2> HIDE DEF f
    <2>4. /\ form' \in Forms /\ countriesLoading' \in BOOLEAN /\ pricesLoading' \in BOOLEAN
          /\ countries' \in List(Countries) /\ prices' \in List(Offers) /\ calls' \subseteq Calls
          /\ catalogReady' \in BOOLEAN
      <3>1. CASE AskCountries(Call("service", f), f, {"restore", "action"}) /\ catalogReady' = FALSE
        <4>1. {"restore", "action"} \in Moves
          BY Names DEF Moves
        <4> QED BY <2>1, <2>2, <3>1, <4>1, CountriesTypes
      <3>2. CASE calls' = Moved(calls, {"restore", "action", "countries", "prices"})
        <4>1. Moved(calls, {"restore", "action", "countries", "prices"}) \cup {} \subseteq Calls
          BY MovingTypes
        <4>2. calls' \subseteq Calls
          BY <3>2, <4>1
        <4> QED BY <2>1, <2>3, <4>2, <3>1, BlankIs
      <3> QED BY <2>3, <3>1, <3>2
    <2>5. actions' \in 0..MaxActions /\ faults' \in 0..MaxFaults /\ lates' \in 0..MaxLate
      BY <1>1, BoundTypes DEF PickService
    <2>6. PageTypes'
      BY <1>0, <1>1, <2>4 DEF PageTypes, PickService
    <2>7. OtherTypes'
      BY <1>0, <1>1, <2>5 DEF OtherTypes, PickService
    <2> QED BY <2>6, <2>7, TypesTurn
  <1>2. ASSUME NEW n \in Choice(Countries), PickCountry(n) PROVE TypeOK'
    <2> DEFINE f == [form EXCEPT !.country = n, !.offer = None]
    <2>1. f \in Forms
      BY <1>0 DEF Forms, Choice, PageTypes
    <2>2. Call("country", f) \in Calls
      <3>1. "country" \in Operations /\ "put" \in Awaits /\ {} \in Moves
        BY Names DEF Operations, Moves
      <3> HIDE DEF f
      <3> QED BY <2>1, <3>1, CallIs
    <2>3. /\ form' = f /\ prices' = Blank
          /\ \/ AskPrices(Call("country", f), {"restore", "action"}) /\ catalogReady' = FALSE
             \/ /\ calls' = Moved(calls, {"restore", "action", "prices"})
                /\ pricesLoading' = FALSE /\ catalogReady' = TRUE
      BY <1>2 DEF PickCountry
    <2> HIDE DEF f
    <2>4. /\ form' \in Forms /\ pricesLoading' \in BOOLEAN /\ prices' \in List(Offers)
          /\ calls' \subseteq Calls /\ catalogReady' \in BOOLEAN
      <3>1. CASE AskPrices(Call("country", f), {"restore", "action"}) /\ catalogReady' = FALSE
        <4>1. {"restore", "action"} \in Moves
          BY Names DEF Moves
        <4> QED BY <2>1, <2>2, <2>3, <3>1, <4>1, PricesTypes, BlankIs
      <3>2. CASE /\ calls' = Moved(calls, {"restore", "action", "prices"})
                 /\ pricesLoading' = FALSE /\ catalogReady' = TRUE
        <4>1. Moved(calls, {"restore", "action", "prices"}) \cup {} \subseteq Calls
          BY MovingTypes
        <4>2. calls' \subseteq Calls
          BY <3>2, <4>1
        <4> QED BY <2>1, <2>3, <4>2, <3>2, BlankIs
      <3> QED BY <2>3, <3>1, <3>2
    <2>5. actions' \in 0..MaxActions /\ faults' \in 0..MaxFaults /\ lates' \in 0..MaxLate
      BY <1>2, BoundTypes DEF PickCountry
    <2>6. PageTypes'
      BY <1>0, <1>2, <2>4 DEF PageTypes, PickCountry
    <2>7. OtherTypes'
      BY <1>0, <1>2, <2>5 DEF OtherTypes, PickCountry
    <2> QED BY <2>6, <2>7, TypesTurn
  <1>3. ASSUME Refresh PROVE TypeOK'
    <2>1. AskPrices(Call("refresh", form), {"action"}) /\ catalogReady' = FALSE
      BY <1>3 DEF Refresh
    <2>2. {"action"} \in Moves /\ "refresh" \in Operations /\ "put" \in Awaits /\ {} \in Moves
      BY Names DEF Moves, Operations
    <2>3. form \in Forms
      BY <1>0 DEF PageTypes
    <2>4. Call("refresh", form) \in Calls
      BY <2>2, <2>3, CallIs
    <2>5. pricesLoading' \in BOOLEAN /\ calls' \subseteq Calls
      BY <2>1, <2>2, <2>4, PricesTypes
    <2>6. actions' \in 0..MaxActions /\ faults' \in 0..MaxFaults /\ lates' \in 0..MaxLate
      BY <1>3, BoundTypes DEF Refresh
    <2>7. PageTypes'
      BY <1>0, <1>3, <2>1, <2>5 DEF PageTypes, Refresh, listVars
    <2>8. OtherTypes'
      BY <1>0, <1>3, <2>6 DEF OtherTypes, Refresh
    <2> QED BY <2>7, <2>8, TypesTurn
  <1> QED BY <1>1, <1>2, <1>3

LEMMA LateTypes ==
    ASSUME TypeOK, NEW draft \in Drafts, Late(draft)
    PROVE  TypeOK'
  <1>0. PageTypes /\ OtherTypes /\ draft \in Forms
    BY TypeParts, CatalogAssumption
  <1>1. actions' \in 0..MaxActions /\ faults' \in 0..MaxFaults /\ lates' \in 0..MaxLate
    BY BoundTypes DEF Late
  <1>2. OtherTypes'
    <2>1. stranded' \in BOOLEAN
      BY DEF Late
    <2> QED BY <1>0, <1>1, <2>1 DEF OtherTypes, Late
  <1>3. PageTypes'
    <2>1. CASE AskRestore(Call("late", draft), draft)
      <3>1. "late" \in Operations /\ "put" \in Awaits /\ {} \in Moves
        BY Names DEF Operations, Moves
      <3>2. Call("late", draft) \in Calls
        BY <1>0, <3>1, CallIs
      <3> QED BY <1>0, <2>1, <3>2, RestoreTypes
    <2>2. CASE draft \in Forms /\ form' = draft
               /\ UNCHANGED <<calls, saving, catalogReady, servicesLoading, countriesLoading,
                              pricesLoading, listVars>>
      BY <1>0, <2>2 DEF PageTypes, listVars
    <2> QED BY <1>0, <2>1, <2>2 DEF Late
  <1> QED BY <1>2, <1>3, TypesTurn
-----------------------------------------------------------------------------
\* A handler that goes on, and one that returns.
LEMMA AwaitTypes ==
    ASSUME TypeOK, NEW c \in Calls, NEW at \in Awaits, NEW draft \in Forms,
           NEW counters \in Moves, NEW held, Await(c, at, draft, counters, held)
    PROVE  calls' \subseteq Calls
  <1>1. calls \subseteq Calls
    BY DEF TypeOK
  <1> QED BY <1>1, AwaitIs

LEMMA ReturnTypes ==
    ASSUME TypeOK, NEW c, Return(c)
    PROVE  calls' \subseteq Calls /\ saving' \in BOOLEAN
  BY DEF TypeOK, Return

LEMMA DroppedTypes ==
    ASSUME TypeOK, NEW c, Dropped(c)
    PROVE  PageTypes'
  <1>1. Moved(calls \ {c}, GivenUp(c)) \cup {} \subseteq Calls
    BY MovingTypes
  <1>2. calls' \subseteq Calls /\ saving' \in BOOLEAN /\ catalogReady' \in BOOLEAN
    BY <1>1 DEF Dropped, TypeOK
  <1>3. PageTypes
    BY TypeParts
  <1> QED BY <1>2, <1>3 DEF Dropped, PageTypes, listVars

\* Only the selections, the lists and the flags of the lists: what a catalog
\* answer leaves alone.
LEMMA AnswerTypes ==
    ASSUME TypeOK, UNCHANGED <<keyed, configured, settingsLoading, stranded>>,
           UNCHANGED boundVars \/ (faults < MaxFaults /\ faults' = faults + 1 /\ UNCHANGED <<actions, lates>>)
    PROVE  OtherTypes'
  <1>0. PageTypes /\ OtherTypes
    BY TypeParts
  <1>1. actions' \in 0..MaxActions /\ faults' \in 0..MaxFaults /\ lates' \in 0..MaxLate
    BY BoundTypes
  <1> QED BY <1>0, <1>1 DEF OtherTypes

LEMMA PutTypes ==
    ASSUME TypeOK, NEW c \in calls, PutAnswered(c) \/ PutFails(c)
    PROVE  TypeOK'
  <1>0. PageTypes /\ OtherTypes /\ c \in Calls
    BY TypeParts DEF PageTypes
  <1>1. actions' \in 0..MaxActions /\ faults' \in 0..MaxFaults /\ lates' \in 0..MaxLate
    BY BoundTypes DEF PutAnswered, PutFails
  <1>2. /\ keyed' \subseteq Providers /\ configured' \subseteq keyed' /\ stranded' \in BOOLEAN
    <2>1. c.draft.provider \in Providers
      BY <1>0 DEF Calls, Forms
    <2> QED BY <1>0, <2>1 DEF OtherTypes, PutAnswered, PutFails
  <1>3. calls' \subseteq Calls /\ saving' \in BOOLEAN /\ settingsLoading' \in BOOLEAN
    <2>1. CASE AskSettings(c) /\ UNCHANGED saving
      <3>1. calls \subseteq Calls
        BY DEF TypeOK
      <3> QED BY <1>0, <2>1, <3>1, SettingsIs DEF PageTypes
    <2>2. CASE Return(c) /\ UNCHANGED settingsLoading
      BY <1>0, <2>2, ReturnTypes DEF OtherTypes
    <2> QED BY <2>1, <2>2 DEF PutAnswered, PutFails
  <1>4. PageTypes'
    BY <1>0, <1>3 DEF PageTypes, PutAnswered, PutFails, catalogVars, listVars
  <1>5. OtherTypes'
    BY <1>1, <1>2, <1>3 DEF OtherTypes
  <1> QED BY <1>4, <1>5, TypesTurn

LEMMA AfterSettingsTypes ==
    ASSUME TypeOK, NEW c \in Calls, AfterSettings(c)
    PROVE  PageTypes'
  <1>0. PageTypes /\ c.draft \in Forms /\ form \in Forms
    BY TypeParts DEF PageTypes, Calls
  <1>1. CASE Await(c, "dashboard", c.draft, {}, {}) /\ UNCHANGED <<catalogVars, saving>>
    <2>1. "dashboard" \in Awaits /\ {} \in Moves
      BY Names DEF Moves
    <2>2. calls' \subseteq Calls
      BY <1>0, <1>1, <2>1, AwaitTypes
    <2> QED BY <1>0, <1>1, <2>2 DEF PageTypes, catalogVars, listVars
  <1>2. CASE Return(c) /\ UNCHANGED catalogVars
    <2>1. calls' \subseteq Calls /\ saving' \in BOOLEAN
      BY <1>2, ReturnTypes
    <2> QED BY <1>0, <1>2, <2>1 DEF PageTypes, catalogVars, listVars
  <1>3. CASE AskRestore(c, form) \/ AskRestore(c, c.draft)
    BY <1>0, <1>3, RestoreTypes
  <1>4. CASE Dropped(c)
    BY <1>4, DroppedTypes
  <1> QED BY <1>1, <1>2, <1>3, <1>4 DEF AfterSettings

LEMMA SettingsTypes ==
    ASSUME TypeOK, NEW c \in calls, SettingsAnswered(c) \/ SettingsFail(c) \/ Mounted(c)
    PROVE  TypeOK'
  <1>0. PageTypes /\ OtherTypes /\ c \in Calls /\ c.draft \in Forms
    BY TypeParts DEF PageTypes, Calls
  <1>1. actions' \in 0..MaxActions /\ faults' \in 0..MaxFaults /\ lates' \in 0..MaxLate
    BY BoundTypes DEF SettingsAnswered, SettingsFail, Mounted, Answered, Fails
  <1>2. /\ keyed' \subseteq Providers /\ configured' \subseteq keyed' /\ stranded' \in BOOLEAN
        /\ settingsLoading' \in BOOLEAN
    <2>1. c.draft.provider \in Providers
      BY <1>0 DEF Forms
    <2>2. CASE SettingsAnswered(c)
      BY <1>0, <2>1, <2>2 DEF OtherTypes, SettingsAnswered, Answered
    <2>3. CASE SettingsFail(c)
      BY <1>0, <2>3 DEF OtherTypes, SettingsFail, Fails
    <2>4. CASE Mounted(c)
      BY <1>0, <2>4 DEF OtherTypes, Mounted, Answered
    <2> QED BY <2>2, <2>3, <2>4
  <1>3. PageTypes'
    <2>1. CASE AfterSettings(c)
      BY <1>0, <2>1, AfterSettingsTypes
    <2>2. CASE Mounted(c)
      <3>1. CASE AskRestore(c, c.draft)
        BY <1>0, <3>1, RestoreTypes
      <3>2. CASE Return(c) /\ UNCHANGED catalogVars
        <4>1. calls' \subseteq Calls /\ saving' \in BOOLEAN
          BY <3>2, ReturnTypes
        <4> QED BY <1>0, <3>2, <4>1 DEF PageTypes, catalogVars, listVars
      <3>3. CASE Dropped(c)
        BY <3>3, DroppedTypes
      <3> QED BY <2>2, <3>1, <3>2, <3>3 DEF Mounted
    <2> QED BY <2>1, <2>2 DEF SettingsAnswered, SettingsFail
  <1>4. OtherTypes'
    BY <1>1, <1>2 DEF OtherTypes
  <1> QED BY <1>3, <1>4, TypesTurn

LEMMA FinishTypes ==
    ASSUME TypeOK, NEW c, NEW r \in BOOLEAN, Finish(c, r)
    PROVE  calls' \subseteq Calls /\ saving' \in BOOLEAN /\ catalogReady' \in BOOLEAN
  BY ReturnTypes DEF Finish

LEMMA ServicesTypes ==
    ASSUME TypeOK, NEW c \in calls,
           (\E items \in SUBSET Services : ServicesAnswered(c, items)) \/ ServicesFail(c)
    PROVE  TypeOK'
  <1>0. PageTypes /\ OtherTypes /\ c \in Calls /\ c.draft \in Forms
    BY TypeParts DEF PageTypes, Calls
  <1>1. ASSUME Return(c) /\ UNCHANGED catalogVars PROVE PageTypes'
    <2>1. calls' \subseteq Calls /\ saving' \in BOOLEAN
      BY <1>1, ReturnTypes
    <2>2. /\ form' = form /\ servicesLoading' = servicesLoading
          /\ countriesLoading' = countriesLoading /\ pricesLoading' = pricesLoading
          /\ catalogReady' = catalogReady /\ services' = services /\ countries' = countries
          /\ prices' = prices
      BY <1>1 DEF catalogVars, listVars
    <2> QED BY <1>0, <2>1, <2>2 DEF PageTypes
  <1>2. ASSUME NEW items \in SUBSET Services, Holds(c, "services"), ServicesAnswered(c, items)
        PROVE  PageTypes'
    <2>1. services' \in List(Services) /\ servicesLoading' \in BOOLEAN
      <3>1. services' = [of |-> ServicesOf(c.draft), items |-> items] /\ servicesLoading' = FALSE
        BY <1>2 DEF ServicesAnswered
      <3>2. [of |-> ServicesOf(c.draft), items |-> items] \in List(Services)
        BY <1>0 DEF List, ServicesOf, Forms, Choice
      <3> QED BY <3>1, <3>2
    <2>2. CASE AskCountries(c, [form EXCEPT !.service = c.draft.service], {})
                 /\ UNCHANGED <<catalogReady, saving>>
      <3>1. {} \in Moves /\ [form EXCEPT !.service = c.draft.service] \in Forms
        BY <1>0 DEF Moves, PageTypes, Forms
      <3>2. /\ form' \in Forms /\ countriesLoading' \in BOOLEAN /\ pricesLoading' \in BOOLEAN
            /\ countries' \in List(Countries) /\ prices' \in List(Offers) /\ calls' \subseteq Calls
        BY <1>0, <2>2, <3>1, CountriesTypes
      <3> QED BY <1>0, <2>1, <2>2, <3>2 DEF PageTypes
    <2>3. CASE /\ form' = [form EXCEPT !.service = None, !.country = None, !.offer = None]
               /\ Finish(c, TRUE)
               /\ UNCHANGED <<countriesLoading, pricesLoading, countries, prices>>
      <3>1. form' \in Forms
        BY <1>0, <2>3 DEF PageTypes, Forms, Choice
      <3>2. calls' \subseteq Calls /\ saving' \in BOOLEAN /\ catalogReady' \in BOOLEAN
        BY <2>3, FinishTypes
      <3> QED BY <1>0, <2>1, <2>3, <3>1, <3>2 DEF PageTypes
    <2> QED BY <1>2, <2>2, <2>3 DEF ServicesAnswered
  <1>3. ASSUME Holds(c, "services"), ServicesFail(c)
        PROVE  PageTypes'
    <2>1. Finish(c, FALSE)
      BY <1>3 DEF ServicesFail
    <2>2. calls' \subseteq Calls /\ saving' \in BOOLEAN /\ catalogReady' \in BOOLEAN
      BY <2>1, FinishTypes
    <2>3. /\ services' = Blank /\ servicesLoading' = FALSE /\ form' = c.draft
          /\ UNCHANGED <<countriesLoading, pricesLoading, countries, prices>>
      BY <1>3 DEF ServicesFail
    <2> QED BY <1>0, <2>2, <2>3, BlankIs DEF PageTypes
  <1>4. PageTypes'
    <2>1. ASSUME NEW items \in SUBSET Services, ServicesAnswered(c, items) PROVE PageTypes'
      <3>1. Holds(c, "services") \/ (Return(c) /\ UNCHANGED catalogVars)
        BY <2>1 DEF ServicesAnswered
      <3> QED BY <1>1, <1>2, <2>1, <3>1
    <2>2. ASSUME ServicesFail(c) PROVE PageTypes'
      <3>1. Holds(c, "services") \/ (Return(c) /\ UNCHANGED catalogVars)
        BY <2>2 DEF ServicesFail
      <3> QED BY <1>1, <1>3, <2>2, <3>1
    <2> QED BY <2>1, <2>2
  <1>5. OtherTypes'
    BY AnswerTypes DEF ServicesAnswered, ServicesFail, Answered, Fails
  <1> QED BY <1>4, <1>5, TypesTurn

LEMMA CountriesAnswerTypes ==
    ASSUME TypeOK, NEW c \in calls,
           (\E items \in SUBSET Countries : CountriesAnswered(c, items)) \/ CountriesFail(c)
    PROVE  TypeOK'
  <1>0. PageTypes /\ OtherTypes /\ c \in Calls /\ c.draft \in Forms
    BY TypeParts DEF PageTypes, Calls
  <1>1. /\ countriesLoading' \in BOOLEAN /\ countries' \in List(Countries)
        /\ servicesLoading' = servicesLoading /\ services' = services
    <2>1. ASSUME NEW items \in SUBSET Countries
          PROVE  [of |-> CountriesOf(c.draft), items |-> items] \in List(Countries)
      BY <1>0 DEF List, CountriesOf, Forms, Choice
    <2>2. CASE CountriesFail(c)
      BY <1>0, <2>2 DEF CountriesFail, PageTypes
    <2>3. ASSUME NEW items \in SUBSET Countries, CountriesAnswered(c, items)
          PROVE  /\ countriesLoading' \in BOOLEAN /\ countries' \in List(Countries)
                 /\ servicesLoading' = servicesLoading /\ services' = services
      BY <1>0, <2>1, <2>3 DEF CountriesAnswered, PageTypes
    <2> QED BY <2>2, <2>3
  <1>2. \E loaded \in BOOLEAN : AfterCountries(c, loaded)
    BY DEF CountriesAnswered, CountriesFail, CurrentCountries, Holds
  <1>3. /\ form' \in Forms /\ pricesLoading' \in BOOLEAN /\ prices' \in List(Offers)
        /\ calls' \subseteq Calls /\ saving' \in BOOLEAN /\ catalogReady' \in BOOLEAN
    <2>1. PICK loaded \in BOOLEAN : AfterCountries(c, loaded)
      BY <1>2
    <2>2. /\ form \in Forms /\ pricesLoading \in BOOLEAN /\ prices \in List(Offers)
          /\ saving \in BOOLEAN /\ catalogReady \in BOOLEAN
      BY <1>0 DEF PageTypes
    <2>3. CASE AfterAction(c, loaded)
      <3>1. Return(c) /\ form' = form /\ pricesLoading' = pricesLoading /\ prices' = prices
        BY <2>3 DEF AfterAction
      <3>2. catalogReady' \in BOOLEAN
        BY <2>2, <2>3 DEF AfterAction
      <3> QED BY <2>2, <3>1, <3>2, ReturnTypes
    <2>4. CASE Return(c) /\ UNCHANGED <<form, catalogReady, pricesLoading, prices>>
      BY <2>2, <2>4, ReturnTypes
    <2>5. CASE /\ form' = [form EXCEPT !.country = c.draft.country, !.offer = c.draft.offer]
               /\ Finish(c, FALSE) /\ UNCHANGED <<pricesLoading, prices>>
      <3>1. form' \in Forms
        BY <1>0, <2>2, <2>5 DEF Forms
      <3> QED BY <2>2, <2>5, <3>1, FinishTypes
    <2>6. CASE /\ form' = [form EXCEPT !.country = c.draft.country, !.offer = None]
               /\ AskPrices(c, {}) /\ prices' = Blank /\ UNCHANGED <<catalogReady, saving>>
      <3>1. form' \in Forms
        BY <1>0, <2>2, <2>6 DEF Forms, Choice
      <3>2. {} \in Moves
        BY DEF Moves
      <3> QED BY <1>0, <2>2, <2>6, <3>1, <3>2, PricesTypes, BlankIs
    <2>7. CASE /\ form' = [form EXCEPT !.country = None]
               /\ Finish(c, TRUE) /\ UNCHANGED <<pricesLoading, prices>>
      <3>1. form' \in Forms
        BY <2>2, <2>7 DEF Forms, Choice
      <3> QED BY <2>2, <2>7, <3>1, FinishTypes
    <2> QED BY <2>1, <2>3, <2>4, <2>5, <2>6, <2>7 DEF AfterCountries
  <1>4. PageTypes'
    BY <1>0, <1>1, <1>3 DEF PageTypes
  <1>5. OtherTypes'
    BY AnswerTypes DEF CountriesAnswered, CountriesFail, Answered, Fails
  <1> QED BY <1>4, <1>5, TypesTurn

LEMMA PricesAnswerTypes ==
    ASSUME TypeOK, NEW c \in calls,
           (\E items \in SUBSET Offers : PricesAnswered(c, items)) \/ PricesFail(c)
    PROVE  TypeOK'
  <1>0. PageTypes /\ OtherTypes /\ c \in Calls /\ c.draft \in Forms
    BY TypeParts DEF PageTypes, Calls
  <1>1. /\ pricesLoading' \in BOOLEAN /\ prices' \in List(Offers)
        /\ servicesLoading' = servicesLoading /\ services' = services
        /\ countriesLoading' = countriesLoading /\ countries' = countries
    <2>1. ASSUME NEW items \in SUBSET Offers
          PROVE  [of |-> PricesOf(c.draft), items |-> items] \in List(Offers)
      BY <1>0 DEF List, PricesOf, Forms, Choice
    <2>2. CASE PricesFail(c)
      BY <1>0, <2>2 DEF PricesFail, PageTypes, listVars
    <2>3. ASSUME NEW items \in SUBSET Offers, PricesAnswered(c, items)
          PROVE  /\ pricesLoading' \in BOOLEAN /\ prices' \in List(Offers)
                 /\ servicesLoading' = servicesLoading /\ services' = services
                 /\ countriesLoading' = countriesLoading /\ countries' = countries
      BY <1>0, <2>1, <2>3 DEF PricesAnswered, PageTypes
    <2> QED BY <2>2, <2>3
  <1>2. \E loaded \in BOOLEAN : AfterPrices(c, loaded)
    BY DEF PricesAnswered, PricesFail, CurrentPrices, Holds
  <1>3. /\ form' \in Forms /\ calls' \subseteq Calls /\ saving' \in BOOLEAN
        /\ catalogReady' \in BOOLEAN
    <2>1. PICK loaded \in BOOLEAN : AfterPrices(c, loaded)
      BY <1>2
    <2>2. form \in Forms /\ catalogReady \in BOOLEAN
      BY <1>0 DEF PageTypes
    <2>3. calls' \subseteq Calls /\ saving' \in BOOLEAN
      BY <2>1, ReturnTypes DEF AfterPrices
    <2>4. catalogReady' \in BOOLEAN
      BY <2>1, <2>2 DEF AfterPrices
    <2>5. prices'.items \subseteq Offers
      BY <1>1 DEF List
    <2>6. c.draft.offer \in Choice(Offers)
      BY <1>0 DEF Forms
    <2>7. \/ form' = form
          \/ form' = [form EXCEPT !.offer = Found(c.draft.offer, prices.items \cap prices'.items)]
          \/ form' = [form EXCEPT !.offer = Found(c.draft.offer, prices'.items)]
          \/ form' = [form EXCEPT !.offer = c.draft.offer]
      BY <2>1 DEF AfterPrices
    <2>8. \A S : Found(c.draft.offer, S) \in Choice(Offers)
      BY <2>6 DEF Found, Choice
    <2>9. form' \in Forms
      <3>1. \E o \in Choice(Offers) : form' = form \/ form' = [form EXCEPT !.offer = o]
        BY <2>6, <2>7, <2>8
      <3> QED BY <2>2, <3>1 DEF Forms
    <2> QED BY <2>3, <2>4, <2>9
  <1>4. PageTypes'
    BY <1>0, <1>1, <1>3 DEF PageTypes
  <1>5. OtherTypes'
    BY AnswerTypes DEF PricesAnswered, PricesFail, Answered, Fails, listVars
  <1> QED BY <1>4, <1>5, TypesTurn

LEMMA TypeStep ==
    ASSUME TypeOK, [Next]_vars
    PROVE  TypeOK'
  <1>1. ASSUME NEW c \in calls, Answer(c) PROVE TypeOK'
    BY <1>1, PutTypes, SettingsTypes, ServicesTypes, CountriesAnswerTypes, PricesAnswerTypes
       DEF Answer
  <1>2. ASSUME NEW c \in calls, Fault(c) PROVE TypeOK'
    BY <1>2, PutTypes, SettingsTypes, ServicesTypes, CountriesAnswerTypes, PricesAnswerTypes
       DEF Fault
  <1>3. CASE User
    BY <1>3, PickTypes, ChoiceTypes DEF User
  <1>4. CASE \E d \in Drafts : Late(d)
    BY <1>4, LateTypes
  <1>5. CASE UNCHANGED vars
    <2>1. UNCHANGED <<PageTypes, OtherTypes>>
      BY <1>5 DEF vars, PageTypes, OtherTypes, flagVars, listVars, boundVars
    <2> QED BY <2>1, TypeParts, TypesTurn
  <1> QED BY <1>1, <1>2, <1>3, <1>4, <1>5 DEF Next
-----------------------------------------------------------------------------
(* How the invariant goes over a step *)

\* Some calls are left, some counters have moved, and a call may be new.
Turn(rest, K, new) ==
    rest \subseteq calls /\ K \in Moves /\ new \subseteq Calls /\ calls' = Moved(rest, K) \cup new

\* A step leaves one call for a counter, if its new call asks about those that it moved.
Mover(rest, K, new) ==
    /\ \A m, n \in new : m = n
    /\ \A n \in new :
         /\ n.fresh \subseteq Held(n.at)
         /\ \A d \in rest : \A k \in n.fresh : k \in d.fresh => k \in K
         /\ "services" \in n.fresh => Counters \ {"settings"} \subseteq K
         /\ (\E d \in rest : "services" \in d.fresh /\ "services" \notin K)
               => n.fresh \subseteq {"settings"}
         /\ (n.at = "countries" /\ "restore" \in n.fresh) => "countries" \in n.fresh
    /\ ("countries" \in K /\ "restore" \notin K) => \A d \in rest : "restore" \notin d.fresh

LEMMA FreshGoes ==
    ASSUME TypeOK, Fresh, NEW rest, NEW K, NEW new, Turn(rest, K, new), Mover(rest, K, new)
    PROVE  Fresh'
  <1>1. calls \subseteq Calls /\ K \in SUBSET Counters
    BY DEF TypeOK, Turn, Moves
  <1> QED BY <1>1, FreshTurns DEF Turn, Mover

\* A flag stays, ends or begins with the request that counts.
Stays(rest, K, new, k, b, b2) ==
    /\ b2 = b /\ k \notin K /\ \A n \in new : k \notin n.fresh
    /\ \A d \in calls \ rest : k \in d.fresh => d.draft.provider # form.provider
Ends(rest, K, new, k, b2) ==
    b2 = FALSE /\ (\A n \in new : k \notin n.fresh) /\ \A d \in rest : k \in d.fresh => k \in K
Begins(new, k, b2) ==
    b2 = TRUE /\ \E n \in new : k \in n.fresh /\ n.draft.provider = form'.provider
Goes(rest, K, new, k, b, b2) ==
    Stays(rest, K, new, k, b, b2) \/ Ends(rest, K, new, k, b2) \/ Begins(new, k, b2)

LEMMA FlagGoes ==
    ASSUME TypeOK, NEW rest, NEW K, NEW new, Turn(rest, K, new),
           NEW k, NEW b, NEW b2, Goes(rest, K, new, k, b, b2), Flagged(calls, k, b)
    PROVE  /\ Flagged(calls', k, b2)
           /\ (Waited(calls, k, b, form.provider) /\ form'.provider = form.provider)
                 => Waited(calls', k, b2, form'.provider)
           /\ ~Stays(rest, K, new, k, b, b2) => Waited(calls', k, b2, form'.provider)
  <1>1. calls \subseteq Calls /\ rest \subseteq calls /\ rest \subseteq Calls
        /\ calls' = Moved(rest, K) \cup new
    BY DEF TypeOK, Turn
  <1>2. CASE Stays(rest, K, new, k, b, b2)
    <2>1. /\ k \notin K /\ \A n \in new : k \notin n.fresh
          /\ \A d \in calls : d \in rest \/ ~(k \in d.fresh /\ d.draft.provider = form.provider)
      BY <1>2 DEF Stays
    <2>2. /\ Flagged(Moved(rest, K) \cup new, k, b)
          /\ Waited(calls, k, b, form.provider)
                => Waited(Moved(rest, K) \cup new, k, b, form.provider)
      <3>1. DEFINE p == form.provider
      <3> HIDE DEF p
      <3>2. \A d \in calls : d \in rest \/ ~(k \in d.fresh /\ d.draft.provider = p)
        BY <2>1 DEF p
      <3>3. /\ Flagged(calls, k, b) => Flagged(Moved(rest, K) \cup new, k, b)
            /\ Waited(calls, k, b, p) => Waited(Moved(rest, K) \cup new, k, b, p)
        BY <1>1, <2>1, <3>2, FlagStays
      <3> QED BY <3>3 DEF p
    <2>3. b2 = b
      BY <1>2 DEF Stays
    <2> QED BY <1>1, <1>2, <2>2, <2>3
  <1>3. CASE Ends(rest, K, new, k, b2)
    <2>1. /\ \A n \in new : k \notin n.fresh
          /\ \A d \in rest : k \in d.fresh => k \in K
      BY <1>3 DEF Ends
    <2>2. /\ Flagged(Moved(rest, K) \cup new, k, FALSE)
          /\ \A p : Waited(Moved(rest, K) \cup new, k, FALSE, p)
      BY <1>1, <2>1, FlagEnds
    <2>3. b2 = FALSE
      BY <1>3 DEF Ends
    <2> QED BY <1>1, <2>2, <2>3
  <1>4. CASE Begins(new, k, b2)
    <2>1. \E n \in calls' : k \in n.fresh /\ n.draft.provider = form'.provider
      BY <1>1, <1>4 DEF Begins
    <2>2. Flagged(calls', k, TRUE) /\ Waited(calls', k, TRUE, form'.provider)
      BY <2>1 DEF Flagged, Waited
    <2>3. b2 = TRUE
      BY <1>4 DEF Begins
    <2> QED BY <2>2, <2>3
  <1> QED BY <1>2, <1>3, <1>4 DEF Goes

\* All flags of a step.
AllGo(rest, K, new) ==
    /\ Goes(rest, K, new, "settings", settingsLoading, settingsLoading')
    /\ Goes(rest, K, new, "services", servicesLoading, servicesLoading')
    /\ Goes(rest, K, new, "countries", countriesLoading, countriesLoading')
    /\ Goes(rest, K, new, "prices", pricesLoading, pricesLoading')

LEMMA FlagsGo ==
    ASSUME TypeOK, Flags, stranded \/ Waits, NEW rest, NEW K, NEW new, Turn(rest, K, new),
           AllGo(rest, K, new),
           stranded' \/ (stranded' = stranded /\ form'.provider = form.provider)
    PROVE  Flags' /\ (stranded' \/ Waits')
  <1>1. /\ Flagged(calls', "settings", settingsLoading')
        /\ Flagged(calls', "services", servicesLoading')
        /\ Flagged(calls', "countries", countriesLoading')
        /\ Flagged(calls', "prices", pricesLoading')
    BY FlagGoes DEF Flags, AllGo
  <1>2. ASSUME ~stranded'
        PROVE  /\ Waited(calls', "settings", settingsLoading', form'.provider)
               /\ Waited(calls', "services", servicesLoading', form'.provider)
               /\ Waited(calls', "countries", countriesLoading', form'.provider)
               /\ Waited(calls', "prices", pricesLoading', form'.provider)
    <2>1. Waits /\ form'.provider = form.provider
      BY <1>2
    <2> QED BY <2>1, FlagGoes DEF Flags, AllGo, Waits
  <1>3. Flags'
    BY <1>1 DEF Flags
  <1>4. ~stranded' => Waits'
    BY <1>2 DEF Waits
  <1> QED BY <1>3, <1>4
-----------------------------------------------------------------------------
\* What is empty behind a request stays so while the request counts.
NothingBehind == countries = Blank /\ prices = Blank
ServicesMind(rest, K, new) ==
    /\ \A d \in rest : ("services" \in d.fresh /\ "services" \notin K) =>
          (NothingBehind => NothingBehind')
    /\ \A n \in new : "services" \in n.fresh => NothingBehind' /\ n.draft.provider \in configured'

NoPrices(cs) == \A d \in cs : "prices" \notin d.fresh
Unpicked == NothingBehind /\ form.country = None
CountriesMind(rest, K, new) ==
    /\ \A d \in rest : ("countries" \in d.fresh /\ "countries" \notin K
                          /\ d.draft.provider \in configured /\ d.draft.provider = form'.provider) =>
          /\ form'.provider = form.provider
          /\ (Unpicked /\ NoPrices(calls)) => (Unpicked' /\ NoPrices(new))
    /\ \A n \in new : "countries" \in n.fresh =>
          /\ n.draft.provider \in configured'
          /\ n.draft.provider = form'.provider => Unpicked' /\ "prices" \in K /\ NoPrices(new)

LEMMA ServicesBehind ==
    ASSUME TypeOK, BehindServices, configured \subseteq configured',
           NEW rest, NEW K, NEW new, Turn(rest, K, new), ServicesMind(rest, K, new)
    PROVE  BehindServices'
  <1>1. calls \subseteq Calls /\ rest \subseteq calls /\ calls' = Moved(rest, K) \cup new
    BY DEF TypeOK, Turn
  <1>2. ASSUME NEW e \in calls', "services" \in e.fresh
        PROVE  NothingBehind' /\ e.draft.provider \in configured'
    <2>1. CASE e \in new
      BY <1>2, <2>1 DEF ServicesMind
    <2>2. CASE e \in Moved(rest, K)
      <3>1. PICK d \in rest : e = Aged(d, K)
        BY <2>2, Movings
      <3>2. d \in calls /\ d \in Calls /\ e.draft = d.draft /\ e.fresh = d.fresh \ K
        BY <1>1, <3>1, Ages
      <3>3. "services" \in d.fresh /\ "services" \notin K
        BY <1>2, <3>2
      <3>4. NothingBehind /\ d.draft.provider \in configured
        BY <3>2, <3>3 DEF BehindServices, NothingBehind
      <3> QED BY <3>1, <3>2, <3>3, <3>4 DEF ServicesMind
    <2> QED BY <1>1, <1>2, <2>1, <2>2
  <1> QED BY <1>2 DEF BehindServices, NothingBehind

LEMMA CountriesBehind ==
    ASSUME TypeOK, BehindCountries, configured \subseteq configured',
           NEW rest, NEW K, NEW new, Turn(rest, K, new), CountriesMind(rest, K, new)
    PROVE  BehindCountries'
  <1>1. calls \subseteq Calls /\ rest \subseteq calls /\ calls' = Moved(rest, K) \cup new
    BY DEF TypeOK, Turn
  <1>2. ASSUME NEW d \in rest
        PROVE  /\ d \in calls /\ Aged(d, K).draft = d.draft
               /\ Aged(d, K).fresh = d.fresh \ K
    BY <1>1, Ages
  <1>3. ASSUME NoPrices(calls) \/ "prices" \in K, NoPrices(new)
        PROVE  NoPrices(calls')
    <2>1. ASSUME NEW e \in Moved(rest, K) PROVE "prices" \notin e.fresh
      <3>1. PICK d \in rest : e = Aged(d, K)
        BY <2>1, Movings
      <3> QED BY <1>2, <1>3, <3>1 DEF NoPrices
    <2> QED BY <1>1, <1>3, <2>1 DEF NoPrices
  <1>4. ASSUME NEW e \in calls', "countries" \in e.fresh
        PROVE  /\ e.draft.provider \in configured'
               /\ e.draft.provider = form'.provider => Unpicked' /\ NoPrices(calls')
    <2>1. CASE e \in new
      BY <1>3, <1>4, <2>1 DEF CountriesMind
    <2>2. CASE e \in Moved(rest, K)
      <3>1. PICK d \in rest : e = Aged(d, K)
        BY <2>2, Movings
      <3>2. d \in calls /\ e.draft = d.draft /\ "countries" \in d.fresh /\ "countries" \notin K
        BY <1>2, <1>4, <3>1
      <3>3. /\ d.draft.provider \in configured
            /\ d.draft.provider = form.provider => Unpicked /\ NoPrices(calls)
        BY <3>2 DEF BehindCountries, Unpicked, NothingBehind, NoPrices
      <3>4. ASSUME d.draft.provider = form'.provider PROVE Unpicked' /\ NoPrices(calls')
        <4>1. form'.provider = form.provider /\ (Unpicked /\ NoPrices(calls) => Unpicked' /\ NoPrices(new))
          BY <3>2, <3>3, <3>4 DEF CountriesMind
        <4> QED BY <1>3, <3>3, <3>4, <4>1
      <3> QED BY <3>2, <3>3, <3>4
    <2> QED BY <1>1, <1>4, <2>1, <2>2
  <1> QED BY <1>4 DEF BehindCountries, Unpicked, NothingBehind, NoPrices

\* The whole invariant.
LEMMA FormGoes ==
    ASSUME FormInv, TypeOK', configured \subseteq configured', NEW rest, NEW K, NEW new,
           Turn(rest, K, new), Mover(rest, K, new), AllGo(rest, K, new),
           stranded' \/ (stranded' = stranded /\ form'.provider = form.provider),
           ServicesMind(rest, K, new), CountriesMind(rest, K, new), ListsBelong', Offered'
    PROVE  FormInv'
  <1>1. TypeOK /\ Fresh /\ Flags /\ (stranded \/ Waits) /\ BehindServices /\ BehindCountries
    BY DEF FormInv
  <1>2. Fresh'
    BY <1>1, FreshGoes
  <1>3. Flags' /\ (stranded' \/ Waits')
    BY <1>1, FlagsGo
  <1>4. BehindServices'
    BY <1>1, ServicesBehind
  <1>5. BehindCountries'
    BY <1>1, CountriesBehind
  <1> QED BY <1>2, <1>3, <1>4, <1>5 DEF FormInv

\* A mount that is not done stays, unless it goes on.
LEMMA MountStays ==
    ASSUME TypeOK, MountWaits, NEW rest, NEW K, NEW new, Turn(rest, K, new),
           form'.provider = form.provider,
           \A d \in calls \ rest : d.op = "mount" /\ d.at = "dashboard"
                                      => d.draft.provider # form.provider
    PROVE  MountWaits'
  <1>1. calls \subseteq Calls /\ rest \subseteq calls /\ calls' = Moved(rest, K) \cup new
    BY DEF TypeOK, Turn
  <1>2. PICK d \in calls : d.op = "mount" /\ d.at = "dashboard" /\ d.draft.provider = form.provider
    BY DEF MountWaits
  <1>3. d \in rest /\ d \in Calls
    BY <1>1, <1>2
  <1>4. /\ Aged(d, K) \in calls' /\ Aged(d, K).op = "mount" /\ Aged(d, K).at = "dashboard"
        /\ Aged(d, K).draft = d.draft
    BY <1>1, <1>2, <1>3, Ages, Movings
  <1> QED BY <1>2, <1>4 DEF MountWaits

\* Prices that stay are offered as before.
LEMMA OfferStays ==
    ASSUME FormInv, NEW rest, NEW K, NEW new, Turn(rest, K, new),
           PricesBelong => PricesBelong', configured' = configured,
           form'.provider = form.provider,
           \A d \in calls \ rest : d.op = "mount" /\ d.at = "dashboard"
                                      => d.draft.provider # form.provider
    PROVE  Offered'
  <1>1. TypeOK /\ Offered
    BY DEF FormInv
  <1>2. CASE MountWaits
    BY <1>1, <1>2, MountStays DEF Offered
  <1> QED BY <1>1, <1>2 DEF Offered, Ready
-----------------------------------------------------------------------------
(* The steps of the user *)

LEMMA FormParts ==
    ASSUME FormInv
    PROVE  /\ TypeOK /\ Fresh /\ Flags /\ (stranded \/ Waits) /\ BehindServices /\ BehindCountries
           /\ ListsBelong /\ Offered
           /\ Where /\ Unique /\ First /\ Second
           /\ calls \subseteq Calls /\ form \in Forms
  BY DEF FormInv, Fresh, TypeOK

\* No call is new: the counters that move are given up.
LEMMA MoverNone ==
    ASSUME NEW rest, NEW K, "countries" \notin K \/ "restore" \in K
    PROVE  Mover(rest, K, {})
  BY DEF Mover

\* A flag whose request is not touched, and one whose request is given up.
LEMMA FlagRests ==
    ASSUME NEW rest, NEW K, NEW new, NEW k, NEW b, NEW b2, \A n \in new : k \notin n.fresh,
           \A d \in calls \ rest : k \notin d.fresh,
           (b2 = b /\ k \notin K) \/ (b2 = FALSE /\ k \in K)
    PROVE  Goes(rest, K, new, k, b, b2)
  BY DEF Goes, Stays, Ends

LEMMA SaveKeeps ==
    ASSUME FormInv, TypeOK', Save
    PROVE  FormInv'
  <1> DEFINE n == [Call("save", form) EXCEPT !.at = "put"]
  <1>0. /\ TypeOK /\ calls \subseteq Calls /\ ListsBelong
    BY FormParts
  <1>1. n \in Calls /\ n.fresh = {} /\ n.at = "put"
    <2>1. n.fresh = {} /\ n.at = "put"
      BY DEF Call
    <2>2. "save" \in Operations /\ "put" \in Awaits /\ {} \in Moves /\ form \in Forms
      BY Names, FormParts DEF Operations, Moves
    <2> QED BY <2>1, <2>2, CallIs
  <1>2. calls' = calls \cup {n}
    BY DEF Save
  <1> HIDE DEF n
  <1>3. Turn(calls, {}, {n})
    <2>1. {} \in Moves
      BY DEF Moves
    <2> QED BY <1>0, <1>1, <1>2, <2>1, NotAged DEF Turn
  <1>4. Mover(calls, {}, {n})
    BY <1>1 DEF Mover
  <1>5. AllGo(calls, {}, {n})
    BY <1>1, FlagRests DEF AllGo, Save, flagVars
  <1>6. ServicesMind(calls, {}, {n})
    BY <1>1 DEF ServicesMind, Save, listVars, NothingBehind
  <1>7. CountriesMind(calls, {}, {n})
    BY <1>1 DEF CountriesMind, Save, listVars, NothingBehind, Unpicked, NoPrices
  <1>8. ListsBelong'
    BY <1>0 DEF Save, listVars, ListsBelong, ServicesOf, CountriesOf, PricesOf
  <1>9. Offered'
    <2>1. PricesBelong => PricesBelong'
      BY DEF Save, listVars, PricesBelong, PricesOf
    <2>2. configured' = configured /\ form'.provider = form.provider
      BY DEF Save
    <2> QED BY <1>3, <2>1, <2>2, OfferStays
  <1>10. configured \subseteq configured' /\ stranded' = stranded /\ form'.provider = form.provider
    BY DEF Save
  <1> QED BY <1>3, <1>4, <1>5, <1>6, <1>7, <1>8, <1>9, <1>10, FormGoes

LEMMA PickOfferKeeps ==
    ASSUME FormInv, TypeOK', NEW o \in Choice(Offers), PickOffer(o)
    PROVE  FormInv'
  <1> DEFINE K == {"restore", "action"}
  <1>0. /\ TypeOK /\ calls \subseteq Calls /\ ListsBelong /\ form \in Forms
    BY FormParts
  <1>1. Turn(calls, K, {})
    BY Names DEF Turn, PickOffer, Moves
  <1>2. Mover(calls, K, {})
    BY MoverNone
  <1>3. AllGo(calls, K, {})
    BY FlagRests DEF AllGo, PickOffer, flagVars
  <1>4. /\ form'.provider = form.provider /\ form'.service = form.service
        /\ form'.country = form.country
    BY <1>0 DEF PickOffer, Forms
  <1>5. ServicesMind(calls, K, {})
    BY DEF ServicesMind, PickOffer, listVars, NothingBehind
  <1>6. CountriesMind(calls, K, {})
    BY <1>4 DEF CountriesMind, PickOffer, listVars, NothingBehind, Unpicked, NoPrices
  <1>7. ListsBelong'
    BY <1>0, <1>4 DEF PickOffer, listVars, ListsBelong, ServicesOf, CountriesOf, PricesOf
  <1>8. Offered'
    <2>1. PricesBelong => PricesBelong'
      BY <1>4 DEF PickOffer, listVars, PricesBelong, PricesOf
    <2>2. configured' = configured
      BY DEF PickOffer
    <2> QED BY <1>1, <1>4, <2>1, <2>2, OfferStays
  <1>9. configured \subseteq configured' /\ stranded' = stranded
    BY DEF PickOffer
  <1> QED BY <1>1, <1>2, <1>3, <1>4, <1>5, <1>6, <1>7, <1>8, <1>9, FormGoes

LEMMA PickProviderKeeps ==
    ASSUME FormInv, TypeOK', NEW p \in Providers, PickProvider(p)
    PROVE  FormInv'
  <1> DEFINE f == [provider |-> p, service |-> None, country |-> None, offer |-> None]
  <1> DEFINE n == [Call("provider", f) EXCEPT !.fresh = {"settings"}]
  <1>0. /\ TypeOK /\ calls \subseteq Calls /\ Flags
    BY FormParts
  <1>1. /\ n.fresh = {"settings"} /\ n.at = "settings" /\ n.draft.provider = p /\ n \in Calls
        /\ form'.provider = p
    <2>1. n.fresh = {"settings"} /\ n.at = "settings" /\ n.draft.provider = p /\ n.draft = f
      BY DEF Call
    <2>2. /\ "provider" \in Operations /\ "put" \in Awaits /\ {"settings"} \in Moves /\ f \in Forms
          /\ f.provider = p
      BY Names DEF Operations, Moves, Forms, Choice
    <2>3. form' = f
      BY DEF PickProvider
    <2> HIDE DEF f
    <2>4. n \in Calls
      BY <2>2, CallIs
    <2> QED BY <2>1, <2>2, <2>3, <2>4
  <1>2. calls' = Moved(calls, Counters) \cup {n}
    BY DEF PickProvider
  <1> HIDE DEF f, n
  <1>3. Turn(calls, Counters, {n})
    BY <1>1, <1>2 DEF Turn, Moves
  <1>4. Mover(calls, Counters, {n})
    BY <1>1 DEF Mover, Held, Counters
  <1>5. /\ Begins({n}, "settings", settingsLoading')
        /\ Ends(calls, Counters, {n}, "services", servicesLoading')
        /\ Ends(calls, Counters, {n}, "countries", countriesLoading')
        /\ Ends(calls, Counters, {n}, "prices", pricesLoading')
    BY <1>1, Names DEF PickProvider, Begins, Ends
  <1>6. AllGo(calls, Counters, {n})
    BY <1>5 DEF AllGo, Goes
  <1>7. Flags' /\ Waits'
    <2>1. \A k \in Counters : \A b, b2 : ~Stays(calls, Counters, {n}, k, b, b2)
      BY DEF Stays
    <2>2. /\ Flagged(calls', "settings", settingsLoading')
          /\ Flagged(calls', "services", servicesLoading')
          /\ Flagged(calls', "countries", countriesLoading')
          /\ Flagged(calls', "prices", pricesLoading')
      BY <1>0, <1>3, <1>6, FlagGoes DEF AllGo, Flags
    <2>3. /\ Waited(calls', "settings", settingsLoading', form'.provider)
          /\ Waited(calls', "services", servicesLoading', form'.provider)
          /\ Waited(calls', "countries", countriesLoading', form'.provider)
          /\ Waited(calls', "prices", pricesLoading', form'.provider)
      BY <1>0, <1>3, <1>6, <2>1, Names, FlagGoes DEF AllGo, Flags
    <2> QED BY <2>2, <2>3 DEF Flags, Waits
  <1>8. countries' = Blank /\ prices' = Blank /\ services' = Blank /\ configured' = configured
    BY DEF PickProvider
  <1>9. Fresh'
    BY <1>0, <1>3, <1>4, FormParts, FreshGoes
  <1>10. BehindServices'
    <2>1. ServicesMind(calls, Counters, {n})
      BY <1>1, Names DEF ServicesMind
    <2> QED BY <1>3, <1>8, <2>1, FormParts, ServicesBehind
  <1>11. BehindCountries'
    <2>1. CountriesMind(calls, Counters, {n})
      BY <1>1, Names DEF CountriesMind
    <2> QED BY <1>3, <1>8, <2>1, FormParts, CountriesBehind
  <1>12. ListsBelong' /\ Offered'
    BY <1>8 DEF ListsBelong, Offered, PricesBelong
  <1> QED BY <1>7, <1>9, <1>10, <1>11, <1>12 DEF FormInv
-----------------------------------------------------------------------------
\* The selects are disabled while services load, so no request for them counts.
LEMMA NoServices ==
    ASSUME FormInv, ~servicesLoading
    PROVE  \A d \in calls : "services" \notin d.fresh
  BY FormParts DEF Flags, Flagged

LEMMA PickServiceKeeps ==
    ASSUME FormInv, TypeOK', NEW s \in Choice(Services), PickService(s)
    PROVE  FormInv'
  <1> DEFINE f == [form EXCEPT !.service = s]
  <1> DEFINE c == Call("service", f)
  <1>0. /\ TypeOK /\ calls \subseteq Calls /\ ListsBelong /\ form \in Forms
    BY FormParts
  <1>1. \A d \in calls : "services" \notin d.fresh
    BY NoServices DEF PickService, CanPickService
  <1>2. f \in Forms /\ f.provider = form.provider /\ form.provider \in configured
    BY <1>0 DEF Forms, PickService, CanPickService, Ready
  <1>3. c \in Calls /\ c.fresh = {} /\ c.draft = f
    <2>1. "service" \in Operations /\ "put" \in Awaits /\ {} \in Moves
      BY Names DEF Operations, Moves
    <2> HIDE DEF f
    <2> QED BY <1>2, <2>1, CallIs
  <1>4. /\ configured' = configured /\ stranded' = stranded /\ services' = services
        /\ settingsLoading' = settingsLoading /\ servicesLoading' = servicesLoading
    BY DEF PickService
  <1>5. \/ AskCountries(c, f, {"restore", "action"})
        \/ /\ form' = [f EXCEPT !.country = None, !.offer = None]
           /\ calls' = Moved(calls, {"restore", "action", "countries", "prices"})
           /\ countries' = Blank /\ prices' = Blank
           /\ countriesLoading' = FALSE /\ pricesLoading' = FALSE
    BY DEF PickService
  <1> HIDE DEF f, c
  <1> DEFINE K == {"restore", "action", "countries", "prices"}
  <1>6. K \in Moves
    BY Names DEF Moves
  <1>7. CASE AskCountries(c, f, {"restore", "action"})
    <2>0. {"restore", "action"} \in Moves
      BY Names DEF Moves
    <2>1. /\ form'.provider = f.provider /\ countriesLoading' = TRUE /\ pricesLoading' = FALSE
          /\ countries' = Blank /\ prices' = Blank /\ form'.country = None
      BY <1>0, <1>2, <1>3, <1>7, <2>0, CountriesIs
    <2>2. PICK n \in Calls : CountriesCall(c, {"restore", "action"}, n)
      BY <1>0, <1>2, <1>3, <1>7, <2>0, CountriesIs
    <2>3. /\ n.fresh = {"restore", "action", "countries"} /\ n.at = "countries"
          /\ n.draft = c.draft
      BY <1>3, <2>2 DEF CountriesCall
    <2>4. {"restore", "action"} \cup {"countries", "prices"} = K
      OBVIOUS
    <2> DEFINE rest == calls \ {c}
    <2>5. Turn(rest, K, {n})
      BY <1>6, <2>2, <2>4 DEF Turn, CountriesCall
    <2>6. Mover(rest, K, {n})
      BY <1>1, <2>3 DEF Mover, Held
    <2>7. \A d \in calls \ rest : d.fresh = {}
      BY <1>3
    <2>8. /\ Goes(rest, K, {n}, "settings", settingsLoading, settingsLoading')
          /\ Goes(rest, K, {n}, "services", servicesLoading, servicesLoading')
          /\ Goes(rest, K, {n}, "prices", pricesLoading, pricesLoading')
      BY <1>4, <2>1, <2>3, <2>7 DEF Goes, Stays, Ends
    <2>9. Begins({n}, "countries", countriesLoading')
      BY <1>3, <2>1, <2>3 DEF Begins
    <2>10. AllGo(rest, K, {n})
      BY <2>8, <2>9 DEF AllGo, Goes
    <2>11. ServicesMind(rest, K, {n})
      BY <1>1, <2>3 DEF ServicesMind
    <2>12. CountriesMind(rest, K, {n})
      BY <1>2, <1>3, <1>4, <2>1, <2>2, <2>3
         DEF CountriesMind, Unpicked, NothingBehind, NoPrices
    <2>13. ListsBelong' /\ Offered'
      BY <1>0, <1>2, <1>4, <2>1 DEF ListsBelong, ServicesOf, Offered, PricesBelong
    <2> HIDE DEF K, rest
    <2> QED BY <1>2, <1>4, <2>1, <2>5, <2>6, <2>10, <2>11, <2>12, <2>13, FormGoes
  <1>8. CASE /\ form' = [f EXCEPT !.country = None, !.offer = None]
             /\ calls' = Moved(calls, {"restore", "action", "countries", "prices"})
             /\ countries' = Blank /\ prices' = Blank
             /\ countriesLoading' = FALSE /\ pricesLoading' = FALSE
    <2>1. form'.provider = f.provider
      BY <1>2, <1>8 DEF Forms
    <2>2. Turn(calls, K, {})
      BY <1>6, <1>8 DEF Turn
    <2>3. Mover(calls, K, {})
      BY MoverNone
    <2>4. AllGo(calls, K, {})
      BY <1>4, <1>8, FlagRests DEF AllGo
    <2>5. ServicesMind(calls, K, {})
      BY <1>1 DEF ServicesMind
    <2>6. CountriesMind(calls, K, {})
      BY DEF CountriesMind
    <2>7. ListsBelong' /\ Offered'
      BY <1>0, <1>2, <1>4, <1>8, <2>1 DEF ListsBelong, ServicesOf, Offered, PricesBelong
    <2> HIDE DEF K
    <2> QED BY <1>2, <1>4, <2>1, <2>2, <2>3, <2>4, <2>5, <2>6, <2>7, FormGoes
  <1> QED BY <1>5, <1>7, <1>8

\* A country can be picked only when the countries are there.
LEMMA NoCountries ==
    ASSUME FormInv, form.country # None \/ countries # Blank
    PROVE  \A d \in calls : "countries" \in d.fresh => d.draft.provider # form.provider
  BY FormParts DEF BehindCountries

LEMMA PickCountryKeeps ==
    ASSUME FormInv, TypeOK', NEW s \in Choice(Countries), PickCountry(s)
    PROVE  FormInv'
  <1> DEFINE f == [form EXCEPT !.country = s, !.offer = None]
  <1> DEFINE c == Call("country", f)
  <1>0. /\ TypeOK /\ calls \subseteq Calls /\ ListsBelong /\ form \in Forms
    BY FormParts
  <1>1. \A d \in calls : "services" \notin d.fresh
    BY NoServices DEF PickCountry, CanPickCountry
  <1>2. f \in Forms /\ f.provider = form.provider /\ f.service = form.service
    BY <1>0 DEF Forms, Choice
  <1>3. c \in Calls /\ c.fresh = {} /\ c.draft = f
    <2>1. "country" \in Operations /\ "put" \in Awaits /\ {} \in Moves
      BY Names DEF Operations, Moves
    <2> HIDE DEF f
    <2> QED BY <1>2, <2>1, CallIs
  <1>4. /\ configured' = configured /\ stranded' = stranded /\ services' = services
        /\ countries' = countries /\ form' = f /\ prices' = Blank
        /\ settingsLoading' = settingsLoading /\ servicesLoading' = servicesLoading
        /\ countriesLoading' = countriesLoading
    BY DEF PickCountry
  <1>5. \/ AskPrices(c, {"restore", "action"})
        \/ /\ calls' = Moved(calls, {"restore", "action", "prices"})
           /\ pricesLoading' = FALSE
    BY DEF PickCountry
  <1>6. \A d \in calls : "countries" \in d.fresh => d.draft.provider # form.provider
    <2>1. form.country # None \/ countries # Blank
      BY BlankIs DEF PickCountry
    <2> QED BY <2>1, NoCountries
  <1> HIDE DEF f, c
  <1> DEFINE K == {"restore", "action", "prices"}
  <1>7. K \in Moves
    BY Names DEF Moves
  <1>8. ListsBelong' /\ Offered'
    BY <1>0, <1>2, <1>4 DEF ListsBelong, ServicesOf, CountriesOf, Offered, PricesBelong
  <1>9. CASE AskPrices(c, {"restore", "action"})
    <2>0. {"restore", "action"} \in Moves
      BY Names DEF Moves
    <2>1. pricesLoading' = TRUE
      BY <1>0, <1>3, <1>9, <2>0, PricesIs
    <2>2. PICK n \in Calls : PricesCall(c, {"restore", "action"}, n)
      BY <1>0, <1>3, <1>9, <2>0, PricesIs
    <2>3. /\ n.fresh = {"restore", "action", "prices"} /\ n.at = "prices" /\ n.draft = c.draft
      BY <1>3, <2>2 DEF PricesCall
    <2>4. {"restore", "action"} \cup {"prices"} = K
      OBVIOUS
    <2> DEFINE rest == calls \ {c}
    <2>5. Turn(rest, K, {n})
      BY <1>7, <2>2, <2>4 DEF Turn, PricesCall
    <2>6. Mover(rest, K, {n})
      BY <1>1, <2>3 DEF Mover, Held
    <2>7. \A d \in calls \ rest : d.fresh = {}
      BY <1>3
    <2>8. /\ Goes(rest, K, {n}, "settings", settingsLoading, settingsLoading')
          /\ Goes(rest, K, {n}, "services", servicesLoading, servicesLoading')
          /\ Goes(rest, K, {n}, "countries", countriesLoading, countriesLoading')
      BY <1>4, <2>1, <2>3, <2>7 DEF Goes, Stays, Ends
    <2>9. Begins({n}, "prices", pricesLoading')
      BY <1>3, <1>4, <2>1, <2>3 DEF Begins
    <2>10. AllGo(rest, K, {n})
      BY <2>8, <2>9 DEF AllGo, Goes
    <2>11. ServicesMind(rest, K, {n})
      BY <1>1, <2>3 DEF ServicesMind
    <2>12. CountriesMind(rest, K, {n})
      BY <1>2, <1>4, <1>6, <2>3 DEF CountriesMind
    <2> HIDE DEF K, rest
    <2> QED BY <1>2, <1>4, <1>8, <2>5, <2>6, <2>10, <2>11, <2>12, FormGoes
  <1>10. CASE calls' = Moved(calls, {"restore", "action", "prices"}) /\ pricesLoading' = FALSE
    <2>2. Turn(calls, K, {})
      BY <1>7, <1>10 DEF Turn
    <2>3. Mover(calls, K, {})
      BY MoverNone
    <2>4. AllGo(calls, K, {})
      BY <1>4, <1>10, FlagRests DEF AllGo
    <2>5. ServicesMind(calls, K, {})
      BY <1>1 DEF ServicesMind
    <2>6. CountriesMind(calls, K, {})
      BY <1>2, <1>4, <1>6 DEF CountriesMind
    <2> HIDE DEF K
    <2> QED BY <1>2, <1>4, <1>8, <2>2, <2>3, <2>4, <2>5, <2>6, FormGoes
  <1> QED BY <1>5, <1>9, <1>10

LEMMA RefreshKeeps ==
    ASSUME FormInv, TypeOK', Refresh
    PROVE  FormInv'
  <1> DEFINE c == Call("refresh", form)
  <1>0. /\ TypeOK /\ calls \subseteq Calls /\ ListsBelong /\ form \in Forms
    BY FormParts
  <1>1. \A d \in calls : "services" \notin d.fresh
    BY NoServices DEF Refresh, CanPickOffer
  <1>3. c \in Calls /\ c.fresh = {} /\ c.draft = form
    <2>1. "refresh" \in Operations /\ "put" \in Awaits /\ {} \in Moves
      BY Names DEF Operations, Moves
    <2> QED BY <1>0, <2>1, CallIs
  <1>4. /\ configured' = configured /\ stranded' = stranded /\ services' = services
        /\ countries' = countries /\ form' = form /\ prices' = prices
        /\ settingsLoading' = settingsLoading /\ servicesLoading' = servicesLoading
        /\ countriesLoading' = countriesLoading
    BY DEF Refresh, listVars
  <1>5. AskPrices(c, {"action"})
    BY DEF Refresh
  <1>6. \A d \in calls : "countries" \in d.fresh => d.draft.provider # form.provider
    BY NoCountries DEF Refresh, CanPickOffer
  <1> HIDE DEF c
  <1> DEFINE K == {"action", "prices"}
  <1>7. K \in Moves /\ {"action"} \in Moves
    BY Names DEF Moves
  <1>9. pricesLoading' = TRUE
    BY <1>0, <1>3, <1>5, <1>7, PricesIs
  <1>10. PICK n \in Calls : PricesCall(c, {"action"}, n)
    BY <1>0, <1>3, <1>5, <1>7, PricesIs
  <1>11. /\ n.fresh = {"action", "prices"} /\ {"action"} \cup {"prices"} = K
         /\ n.at = "prices" /\ n.draft = c.draft
    BY <1>3, <1>10 DEF PricesCall
  <1> DEFINE rest == calls \ {c}
  <1>12. Turn(rest, K, {n})
    BY <1>7, <1>10, <1>11 DEF Turn, PricesCall
  <1>13. Mover(rest, K, {n})
    BY <1>1, <1>11 DEF Mover, Held
  <1>14. \A d \in calls \ rest : d.fresh = {}
    BY <1>3
  <1>15. /\ Goes(rest, K, {n}, "settings", settingsLoading, settingsLoading')
         /\ Goes(rest, K, {n}, "services", servicesLoading, servicesLoading')
         /\ Goes(rest, K, {n}, "countries", countriesLoading, countriesLoading')
    BY <1>4, <1>11, <1>14 DEF Goes, Stays, Ends
  <1>16. Begins({n}, "prices", pricesLoading')
    BY <1>3, <1>4, <1>9, <1>11 DEF Begins
  <1>17. AllGo(rest, K, {n})
    BY <1>15, <1>16 DEF AllGo, Goes
  <1>18. ServicesMind(rest, K, {n})
    BY <1>1, <1>11 DEF ServicesMind
  <1>19. CountriesMind(rest, K, {n})
    BY <1>4, <1>6, <1>11 DEF CountriesMind
  <1>20. ListsBelong'
    BY <1>0, <1>4 DEF ListsBelong, ServicesOf, CountriesOf, PricesOf
  <1>21. Offered'
    <2>1. PricesBelong => PricesBelong'
      BY <1>4 DEF PricesBelong, PricesOf
    <2>2. c.at = "settings" /\ c.op = "refresh"
      BY DEF c, Call
    <2> HIDE DEF K
    <2> QED BY <1>4, <1>12, <2>1, <2>2, OfferStays
  <1> HIDE DEF K, rest
  <1> QED BY <1>4, <1>12, <1>13, <1>17, <1>18, <1>19, <1>20, <1>21, FormGoes
-----------------------------------------------------------------------------
(* Late drafts, the key and the settings *)

\* A restore takes over every list and selection.
LEMMA RestoreKeeps ==
    ASSUME FormInv, TypeOK', NEW c \in Calls, NEW draft \in Forms, AskRestore(c, draft),
           configured \subseteq configured', draft.provider \in configured',
           \A n : "settings" \notin n.fresh =>
              Goes(calls \ {c}, RestoreMoves, {n}, "settings", settingsLoading, settingsLoading'),
           stranded' \/ (stranded' = stranded /\ draft.provider = form.provider)
    PROVE  FormInv'
  <1>0. /\ TypeOK /\ calls \subseteq Calls /\ ListsBelong
    BY FormParts
  <1>1. /\ form' = draft /\ servicesLoading' = TRUE
        /\ countriesLoading' = FALSE /\ pricesLoading' = FALSE
        /\ countries' = Blank /\ prices' = Blank /\ services' = services
    BY <1>0, RestoreIs
  <1>2. PICK n \in Calls : RestoreCall(c, draft, n)
    BY <1>0, RestoreIs
  <1>3. n.fresh = {"restore", "services"} /\ n.at = "services" /\ n.draft = draft
    BY <1>2 DEF RestoreCall
  <1> DEFINE rest == calls \ {c}
  <1>4. Turn(rest, RestoreMoves, {n})
    BY <1>2, Names DEF Turn, RestoreCall, RestoreMoves, Moves
  <1>5. Mover(rest, RestoreMoves, {n})
    BY <1>3 DEF Mover, Held, RestoreMoves, Counters
  <1>6. Goes(rest, RestoreMoves, {n}, "settings", settingsLoading, settingsLoading')
    BY <1>3
  <1>7. Begins({n}, "services", servicesLoading')
    BY <1>1, <1>3 DEF Begins
  <1>8. /\ Ends(rest, RestoreMoves, {n}, "countries", countriesLoading')
        /\ Ends(rest, RestoreMoves, {n}, "prices", pricesLoading')
    BY <1>1, <1>3 DEF Ends, RestoreMoves
  <1>9. AllGo(rest, RestoreMoves, {n})
    BY <1>6, <1>7, <1>8 DEF AllGo, Goes
  <1>10. ServicesMind(rest, RestoreMoves, {n})
    BY <1>1, <1>3 DEF ServicesMind, RestoreMoves, NothingBehind
  <1>11. CountriesMind(rest, RestoreMoves, {n})
    BY <1>3 DEF CountriesMind, RestoreMoves
  <1>12. ListsBelong' /\ Offered'
    BY <1>0, <1>1 DEF ListsBelong, ServicesOf, Offered, PricesBelong
  <1>13. stranded' \/ (stranded' = stranded /\ form'.provider = form.provider)
    BY <1>1
  <1> HIDE DEF rest
  <1> QED BY <1>4, <1>5, <1>9, <1>10, <1>11, <1>12, <1>13, FormGoes

LEMMA LateKeeps ==
    ASSUME FormInv, TypeOK', NEW draft \in Drafts, Late(draft)
    PROVE  FormInv'
  <1>0. /\ TypeOK /\ calls \subseteq Calls /\ stranded \in BOOLEAN /\ draft \in Forms
    BY FormParts, CatalogAssumption DEF TypeOK
  <1>1. stranded' \/ (stranded' = stranded /\ draft.provider = form.provider /\ Ready)
    BY <1>0 DEF Late
  <1>2. configured' = configured /\ settingsLoading' = settingsLoading
    BY DEF Late
  <1>3. CASE draft.provider \in configured /\ AskRestore(Call("late", draft), draft)
    <2>1. "late" \in Operations /\ "put" \in Awaits /\ {} \in Moves
      BY Names DEF Operations, Moves
    <2>2. Call("late", draft) \in Calls /\ Call("late", draft).fresh = {}
      BY <1>0, <2>1, CallIs
    <2> DEFINE c == Call("late", draft)
    <2> HIDE DEF c
    <2>3. c \in Calls /\ c.fresh = {} /\ AskRestore(c, draft)
      BY <1>3, <2>2 DEF c
    <2>4. \A n : "settings" \notin n.fresh =>
             Goes(calls \ {c}, RestoreMoves, {n}, "settings", settingsLoading, settingsLoading')
      BY <1>2, <2>3 DEF Goes, Stays, RestoreMoves
    <2> QED BY <1>0, <1>1, <1>2, <1>3, <2>3, <2>4, RestoreKeeps
  <1>4. CASE /\ draft.provider \notin configured /\ form' = draft
             /\ UNCHANGED <<calls, saving, catalogReady, servicesLoading, countriesLoading,
                            pricesLoading, listVars>>
    <2>1. Turn(calls, {}, {})
      BY <1>0, <1>4, NotAged DEF Turn, Moves
    <2>2. Mover(calls, {}, {})
      BY MoverNone
    <2>3. AllGo(calls, {}, {})
      BY <1>2, <1>4, FlagRests DEF AllGo
    <2>4. ServicesMind(calls, {}, {})
      BY <1>4 DEF ServicesMind, NothingBehind, listVars
    <2>5. CountriesMind(calls, {}, {})
      BY <1>4 DEF CountriesMind
    <2>6. draft.provider = form.provider => ~Ready
      BY <1>4 DEF Ready
    <2>7. stranded'
      BY <1>1, <2>6
    <2>8. ListsBelong' /\ Offered'
      BY <1>2, <1>4, <2>7 DEF ListsBelong, Offered, Ready
    <2> QED BY <1>2, <2>1, <2>2, <2>3, <2>4, <2>5, <2>7, <2>8, FormGoes
  <1> QED BY <1>3, <1>4 DEF Late

\* A flag when a call returns: it ends if the call counts.
Quiet(K, new, k) == k \in Counters /\ k \notin K /\ \A n \in new : k \notin n.fresh
Returned(c, k, b, b2) == (Holds(c, k) /\ b2 = FALSE) \/ (~Holds(c, k) /\ b2 = b)

LEMMA FlagReturns ==
    ASSUME Unique, NEW c \in calls, NEW K, NEW new, NEW k, NEW b, NEW b2,
           Quiet(K, new, k), Returned(c, k, b, b2)
    PROVE  Goes(calls \ {c}, K, new, k, b, b2)
  <1> USE DEF Quiet, Returned
  <1>1. CASE Holds(c, k)
    <2>1. b2 = FALSE
      BY <1>1
    <2>2. \A d \in calls \ {c} : k \notin d.fresh
      BY <1>1 DEF Holds, Unique
    <2> QED BY <2>1, <2>2 DEF Goes, Ends
  <1>2. CASE ~Holds(c, k)
    <2>1. b2 = b
      BY <1>2
    <2>2. \A d \in calls \ (calls \ {c}) : d = c
      OBVIOUS
    <2> QED BY <1>2, <2>1, <2>2 DEF Goes, Stays, Holds
  <1> QED BY <1>1, <1>2

\* A call that asked nothing about the lists leaves, or goes on with nothing.
LEMMA PlainKeeps ==
    ASSUME FormInv, TypeOK', NEW c \in calls, c.fresh \subseteq {"settings"},
           NEW K, K = {} \/ K = {"restore", "action"}, NEW new, \A m, n \in new : m = n,
           \A n \in new : n.fresh = {}, Turn(calls \ {c}, K, new),
           UNCHANGED catalogVars \/
              UNCHANGED <<form, servicesLoading, countriesLoading, pricesLoading, listVars>>,
           configured \subseteq configured', stranded' = stranded,
           settingsLoading' = (settingsLoading /\ ~Holds(c, "settings")), Offered'
    PROVE  FormInv'
  <1>0. /\ TypeOK /\ calls \subseteq Calls /\ ListsBelong /\ Unique
    BY FormParts
  <1>1. /\ form' = form /\ services' = services /\ countries' = countries /\ prices' = prices
        /\ servicesLoading' = servicesLoading /\ countriesLoading' = countriesLoading
        /\ pricesLoading' = pricesLoading
    BY DEF catalogVars, listVars
  <1> DEFINE rest == calls \ {c}
  <1>2. Mover(rest, K, new)
    BY DEF Mover
  <1>3. "settings" \notin K /\ "services" \notin K /\ "countries" \notin K /\ "prices" \notin K
    OBVIOUS
  <1>4. Goes(rest, K, new, "settings", settingsLoading, settingsLoading')
    <2>1. settingsLoading \in BOOLEAN
      BY <1>0 DEF TypeOK
    <2>2. Quiet(K, new, "settings")
      BY <1>3, Names DEF Quiet
    <2>3. Returned(c, "settings", settingsLoading, settingsLoading')
      BY <2>1 DEF Returned
    <2> QED BY <1>0, <2>2, <2>3, FlagReturns
  <1>5. \A d \in calls \ rest : d.fresh \subseteq {"settings"}
    OBVIOUS
  <1>6. /\ Goes(rest, K, new, "services", servicesLoading, servicesLoading')
        /\ Goes(rest, K, new, "countries", countriesLoading, countriesLoading')
        /\ Goes(rest, K, new, "prices", pricesLoading, pricesLoading')
    BY <1>1, <1>3, <1>5 DEF Goes, Stays
  <1>7. AllGo(rest, K, new)
    BY <1>4, <1>6 DEF AllGo
  <1>8. ServicesMind(rest, K, new)
    BY <1>1 DEF ServicesMind, NothingBehind
  <1>9. CountriesMind(rest, K, new)
    BY <1>1 DEF CountriesMind, Unpicked, NothingBehind, NoPrices
  <1>10. ListsBelong'
    BY <1>0, <1>1 DEF ListsBelong, ServicesOf, CountriesOf, PricesOf
  <1> HIDE DEF rest
  <1>11. Turn(rest, K, new)
    BY DEF rest
  <1> QED BY <1>1, <1>2, <1>7, <1>8, <1>9, <1>10, <1>11, FormGoes
-----------------------------------------------------------------------------
\* A handler returns that asked nothing about the lists.
LEMMA PlainReturns ==
    ASSUME FormInv, TypeOK', NEW c \in calls, c.fresh \subseteq {"settings"}, Return(c),
           c.op # "mount" \/ c.at # "dashboard" \/ c.draft.provider # form.provider,
           UNCHANGED catalogVars, configured' = configured, stranded' = stranded,
           settingsLoading' = (settingsLoading /\ ~Holds(c, "settings"))
    PROVE  FormInv'
  <1>0. /\ TypeOK /\ calls \subseteq Calls
    BY FormParts
  <1>1. Turn(calls \ {c}, {}, {})
    BY <1>0, NotAged DEF Turn, Moves, Return
  <1>2. form' = form /\ prices' = prices
    BY DEF catalogVars, listVars
  <1>3. Offered'
    <2>1. PricesBelong => PricesBelong'
      BY <1>2 DEF PricesBelong, PricesOf
    <2>2. \A d \in calls \ (calls \ {c}) : d.op = "mount" /\ d.at = "dashboard"
                                               => d.draft.provider # form.provider
      OBVIOUS
    <2> QED BY <1>1, <1>2, <2>1, <2>2, OfferStays
  <1>4. \A m, n \in {} : m = n
    OBVIOUS
  <1>5. \A n \in {} : n.fresh = {}
    OBVIOUS
  <1>6. {} = {} \/ {} = {"restore", "action"}
    OBVIOUS
  <1> DEFINE none == {}
  <1>7. /\ Turn(calls \ {c}, none, none) /\ (\A m, n \in none : m = n)
        /\ (\A n \in none : n.fresh = {}) /\ (none = {} \/ none = {"restore", "action"})
    BY <1>1
  <1> HIDE DEF none
  <1> QED BY <1>3, <1>7, PlainKeeps

\* The provider is not configured: nothing can be ordered, whether a restore is
\* given up or not.
LEMMA DroppedKeeps ==
    ASSUME FormInv, TypeOK', NEW c \in calls, c.fresh \subseteq {"settings"}, Dropped(c), ~Ready',
           configured \subseteq configured', stranded' = stranded,
           settingsLoading' = (settingsLoading /\ ~Holds(c, "settings"))
    PROVE  FormInv'
  <1> DEFINE none == {}
  <1> DEFINE K == GivenUp(c)
  <1>1. Turn(calls \ {c}, K, none)
    <2>1. K \in Moves
      BY Names DEF Moves, GivenUp
    <2>2. calls' = Moved(calls \ {c}, K)
      BY DEF Dropped
    <2> HIDE DEF K
    <2> QED BY <2>1, <2>2 DEF Turn
  <1>2. UNCHANGED <<form, servicesLoading, countriesLoading, pricesLoading, listVars>>
    BY DEF Dropped
  <1>3. Offered'
    BY DEF Offered
  <1>4. /\ (\A m, n \in none : m = n) /\ (\A n \in none : n.fresh = {})
        /\ (K = {} \/ K = {"restore", "action"})
    BY DEF GivenUp
  <1> HIDE DEF none, K
  <1> QED BY <1>1, <1>2, <1>3, <1>4, PlainKeeps

LEMMA PutKeeps ==
    ASSUME FormInv, TypeOK', NEW c \in calls, PutAnswered(c) \/ PutFails(c)
    PROVE  FormInv'
  <1>0. /\ TypeOK /\ calls \subseteq Calls /\ ListsBelong /\ c \in Calls
        /\ settingsLoading \in BOOLEAN
    BY FormParts DEF TypeOK
  <1>1. c.at = "put" /\ c.fresh = {}
    <2>1. c.at = "put"
      BY DEF PutAnswered, PutFails
    <2>2. Held("put") = {}
      BY DEF Held
    <2> QED BY <2>1, <2>2, FormParts DEF Where
  <1>2. UNCHANGED catalogVars /\ configured' = configured /\ stranded' = stranded
    BY DEF PutAnswered, PutFails
  <1>3. CASE Return(c) /\ settingsLoading' = settingsLoading
    <2>1. ~Holds(c, "settings") /\ c.fresh \subseteq {"settings"}
      BY <1>1 DEF Holds
    <2>2. settingsLoading' = (settingsLoading /\ ~Holds(c, "settings"))
      BY <1>0, <1>3, <2>1
    <2> QED BY <1>1, <1>2, <1>3, <2>1, <2>2, PlainReturns
  <1>4. CASE c.draft.provider = form.provider /\ AskSettings(c)
    <2>1. settingsLoading' = TRUE
      BY <1>0, <1>4, SettingsIs
    <2>2. PICK n \in Calls : SettingsCall(c, n)
      BY <1>0, <1>4, SettingsIs
    <2>3. n.fresh = {"settings"} /\ n.at = "settings" /\ n.draft = c.draft
      BY <2>2 DEF SettingsCall
    <2> DEFINE rest == calls \ {c}
    <2> DEFINE K == {"settings"}
    <2>4. Turn(rest, K, {n})
      BY <2>2, Names DEF Turn, SettingsCall, Moves
    <2>5. Mover(rest, K, {n})
      BY <2>3 DEF Mover, Held
    <2>6. /\ form' = form /\ services' = services /\ countries' = countries /\ prices' = prices
          /\ servicesLoading' = servicesLoading /\ countriesLoading' = countriesLoading
          /\ pricesLoading' = pricesLoading
      BY <1>2 DEF catalogVars, listVars
    <2>7. Begins({n}, "settings", settingsLoading')
      BY <1>4, <2>1, <2>3, <2>6 DEF Begins
    <2>8. \A d \in calls \ rest : d.fresh = {} /\ d.at = "put"
      BY <1>1
    <2>9. /\ Goes(rest, K, {n}, "services", servicesLoading, servicesLoading')
          /\ Goes(rest, K, {n}, "countries", countriesLoading, countriesLoading')
          /\ Goes(rest, K, {n}, "prices", pricesLoading, pricesLoading')
      BY <2>3, <2>6, <2>8 DEF Goes, Stays
    <2>10. AllGo(rest, K, {n})
      BY <2>7, <2>9 DEF AllGo, Goes
    <2>11. ServicesMind(rest, K, {n})
      BY <2>3, <2>6 DEF ServicesMind, NothingBehind
    <2>12. CountriesMind(rest, K, {n})
      BY <2>3, <2>6 DEF CountriesMind, Unpicked, NothingBehind, NoPrices
    <2>13. ListsBelong'
      BY <1>0, <1>2, <2>6 DEF ListsBelong, ServicesOf, CountriesOf, PricesOf
    <2> HIDE DEF rest, K
    <2>14. Offered'
      <3>1. PricesBelong => PricesBelong'
        BY <2>6 DEF PricesBelong, PricesOf
      <3> QED BY <1>2, <2>4, <2>6, <2>8, <3>1, OfferStays
    <2> QED BY <1>2, <2>4, <2>5, <2>6, <2>10, <2>11, <2>12, <2>13, <2>14, FormGoes
  <1> QED BY <1>3, <1>4 DEF PutAnswered, PutFails

\* After the settings: the page goes on to the dashboard, or to the restore, or
\* the handler ends.  Only an answer that counts changes what is configured.
LEMMA AfterSettingsKeeps ==
    ASSUME FormInv, TypeOK', NEW c \in calls, c.at = "settings", AfterSettings(c),
           configured \subseteq configured', configured' = configured \/ Holds(c, "settings"),
           stranded' = stranded, settingsLoading' = (settingsLoading /\ ~Holds(c, "settings"))
    PROVE  FormInv'
  <1>0. /\ TypeOK /\ calls \subseteq Calls /\ c \in Calls /\ c.draft \in Forms /\ form \in Forms
        /\ settingsLoading \in BOOLEAN
    BY FormParts DEF TypeOK, Calls
  <1>1. c.fresh \subseteq {"settings"}
    <2>1. Held("settings") = {"settings"}
      BY DEF Held
    <2> QED BY <2>1, FormParts DEF Where
  <1>2. CASE c.op = "mount" /\ Await(c, "dashboard", c.draft, {}, {}) /\ UNCHANGED catalogVars
    <2> DEFINE n == Awaiting(c, "dashboard", c.draft, {}, {})
    <2>1. "dashboard" \in Awaits /\ {} \in Moves
      BY Names DEF Moves
    <2>2. /\ n \in Calls /\ n.op = c.op /\ n.at = "dashboard" /\ n.draft = c.draft
          /\ n.fresh = (c.fresh \cup {}) \cap {}
      BY <1>0, <2>1, AwaitingIs
    <2>3. calls' = Moved(calls \ {c}, {}) \cup {n}
      BY <1>0, <1>2, <2>1, AwaitIs
    <2> HIDE DEF n
    <2> DEFINE none == {}
    <2> DEFINE new == {n}
    <2>4. Turn(calls \ {c}, none, new)
      BY <2>1, <2>2, <2>3 DEF Turn
    <2>5. form' = form /\ prices' = prices
      BY <1>2 DEF catalogVars, listVars
    <2>6. Offered'
      <3>1. CASE Holds(c, "settings")
        <4>1. n \in calls' /\ n.draft.provider = form'.provider
          BY <2>2, <2>3, <2>5, <3>1 DEF Holds
        <4> QED BY <1>2, <2>2, <4>1 DEF Offered, MountWaits
      <3>2. CASE configured' = configured
        <4>1. PricesBelong => PricesBelong'
          BY <2>5 DEF PricesBelong, PricesOf
        <4>2. \A d \in calls \ (calls \ {c}) : d.op = "mount" /\ d.at = "dashboard"
                                                   => d.draft.provider # form.provider
          OBVIOUS
        <4> HIDE DEF none, new
        <4> QED BY <2>4, <2>5, <3>2, <4>1, <4>2, OfferStays
      <3> QED BY <3>1, <3>2
    <2>7. /\ (\A m, k \in new : m = k) /\ (\A k \in new : k.fresh = {})
          /\ (none = {} \/ none = {"restore", "action"})
      BY <2>2
    <2> HIDE DEF none, new
    <2> QED BY <1>1, <1>2, <2>4, <2>6, <2>7, PlainKeeps
  <1>3. CASE c.draft.provider # form.provider /\ Return(c) /\ UNCHANGED catalogVars
    <2>1. configured' = configured
      BY <1>3 DEF Holds
    <2> QED BY <1>1, <1>3, <2>1, PlainReturns
  <1>4. CASE /\ c.draft.provider = form.provider /\ form.provider \in configured'
             /\ AskRestore(c, form) \/ AskRestore(c, c.draft)
    <2>1. \A n : "settings" \notin n.fresh =>
             Goes(calls \ {c}, RestoreMoves, {n}, "settings", settingsLoading, settingsLoading')
      <3>1. ASSUME NEW n, "settings" \notin n.fresh
            PROVE  Goes(calls \ {c}, RestoreMoves, {n}, "settings", settingsLoading, settingsLoading')
        <4>1. Quiet(RestoreMoves, {n}, "settings")
          BY <3>1, Names DEF Quiet, RestoreMoves
        <4>2. Returned(c, "settings", settingsLoading, settingsLoading')
          BY <1>0 DEF Returned
        <4> QED BY <4>1, <4>2, FormParts, FlagReturns
      <3> QED BY <3>1
    <2>2. CASE AskRestore(c, form)
      BY <1>0, <1>4, <2>1, <2>2, RestoreKeeps
    <2>3. CASE AskRestore(c, c.draft)
      <3>1. c.draft.provider \in configured'
        BY <1>4
      <3> QED BY <1>0, <1>4, <2>1, <2>3, <3>1, RestoreKeeps
    <2> QED BY <1>4, <2>2, <2>3
  <1>5. CASE form.provider \notin configured' /\ Dropped(c)
    <2>1. ~Ready'
      BY <1>5 DEF Ready, Dropped
    <2> QED BY <1>1, <1>5, <2>1, DroppedKeeps
  <1> QED BY <1>2, <1>3, <1>4, <1>5 DEF AfterSettings

LEMMA SettingsKeeps ==
    ASSUME FormInv, TypeOK', NEW c \in calls, SettingsAnswered(c) \/ SettingsFail(c)
    PROVE  FormInv'
  <1>0. /\ c.at = "settings" /\ AfterSettings(c) /\ stranded' = stranded
        /\ settingsLoading \in BOOLEAN /\ configured \subseteq keyed
    BY FormParts DEF SettingsAnswered, SettingsFail, Answered, Fails, TypeOK
  <1>1. CASE SettingsAnswered(c)
    <2>1. settingsLoading' = (settingsLoading /\ ~Holds(c, "settings"))
      BY <1>0, <1>1 DEF SettingsAnswered
    <2>2. configured \subseteq configured' /\ (configured' = configured \/ Holds(c, "settings"))
      BY <1>0, <1>1 DEF SettingsAnswered
    <2> QED BY <1>0, <2>1, <2>2, AfterSettingsKeeps
  <1>2. CASE SettingsFail(c)
    <2>1. /\ settingsLoading' = (settingsLoading /\ ~Holds(c, "settings"))
          /\ configured' = configured
      BY <1>2 DEF SettingsFail
    <2> QED BY <1>0, <2>1, AfterSettingsKeeps
  <1> QED BY <1>1, <1>2

LEMMA MountedKeeps ==
    ASSUME FormInv, TypeOK', NEW c \in calls, Mounted(c)
    PROVE  FormInv'
  <1>0. /\ TypeOK /\ c \in Calls /\ c.draft \in Forms /\ settingsLoading \in BOOLEAN
    BY FormParts DEF TypeOK, Calls
  <1>1. c.at = "dashboard" /\ c.fresh = {}
    <2>1. c.at = "dashboard" /\ Held("dashboard") = {}
      BY DEF Mounted, Held
    <2> QED BY <2>1, FormParts DEF Where
  <1>2. configured' = configured /\ settingsLoading' = settingsLoading /\ stranded' = stranded
    BY DEF Mounted, Answered
  <1>3. ~Holds(c, "settings") /\ settingsLoading' = (settingsLoading /\ ~Holds(c, "settings"))
    BY <1>0, <1>1, <1>2 DEF Holds
  <1>4. CASE Ready /\ c.draft.provider = form.provider /\ AskRestore(c, c.draft)
    <2>1. ASSUME NEW n, "settings" \notin n.fresh
          PROVE  Goes(calls \ {c}, RestoreMoves, {n}, "settings", settingsLoading, settingsLoading')
      BY <1>1, <1>2, <2>1 DEF Goes, Stays, RestoreMoves
    <2>2. c.draft.provider \in configured'
      BY <1>2, <1>4 DEF Ready
    <2> QED BY <1>0, <1>2, <1>4, <2>1, <2>2, RestoreKeeps
  <1>5. CASE c.draft.provider # form.provider /\ Return(c) /\ UNCHANGED catalogVars
    BY <1>1, <1>2, <1>3, <1>5, PlainReturns
  <1>6. CASE ~Ready /\ Dropped(c)
    <2>1. ~Ready'
      BY <1>2, <1>6 DEF Ready, Dropped
    <2> QED BY <1>1, <1>2, <1>3, <1>6, <2>1, DroppedKeeps
  <1> QED BY <1>4, <1>5, <1>6 DEF Mounted
-----------------------------------------------------------------------------
(* Services, countries and prices *)

\* The handler of a list returns.
LEMMA ListReturns ==
    ASSUME FormInv, TypeOK', NEW c \in calls, c.at # "dashboard", Return(c),
           Returned(c, "settings", settingsLoading, settingsLoading'),
           Returned(c, "services", servicesLoading, servicesLoading'),
           Returned(c, "countries", countriesLoading, countriesLoading'),
           Returned(c, "prices", pricesLoading, pricesLoading'),
           configured' = configured, stranded' = stranded, form'.provider = form.provider,
           ServicesMind(calls \ {c}, {}, {}), CountriesMind(calls \ {c}, {}, {}),
           ListsBelong', PricesBelong => PricesBelong'
    PROVE  FormInv'
  <1>0. /\ TypeOK /\ calls \subseteq Calls /\ Unique
    BY FormParts
  <1> DEFINE none == {}
  <1> DEFINE rest == calls \ {c}
  <1>1. Turn(rest, none, none)
    BY <1>0, NotAged DEF Turn, Moves, Return
  <1>2. /\ Quiet(none, none, "settings") /\ Quiet(none, none, "services")
        /\ Quiet(none, none, "countries") /\ Quiet(none, none, "prices")
    BY Names DEF Quiet
  <1>3. Mover(rest, none, none)
    BY DEF Mover
  <1>4. \A d \in calls \ rest : d.op = "mount" /\ d.at = "dashboard"
                                    => d.draft.provider # form.provider
    OBVIOUS
  <1>5. ServicesMind(rest, none, none) /\ CountriesMind(rest, none, none)
    OBVIOUS
  <1> HIDE DEF none
  <1>6. AllGo(rest, none, none)
    BY <1>0, <1>2, FlagReturns DEF AllGo
  <1> HIDE DEF rest
  <1>7. Offered'
    BY <1>1, <1>4, OfferStays
  <1> QED BY <1>1, <1>3, <1>5, <1>6, <1>7, FormGoes

\* What a handler holds at a list.
LEMMA HeldAt ==
    ASSUME FormInv, NEW c \in calls
    PROVE  /\ c.at = "services" => c.fresh \subseteq {"restore", "services"}
           /\ c.at = "countries" => c.fresh \subseteq {"restore", "action", "countries"}
           /\ c.at = "prices" => c.fresh \subseteq {"restore", "action", "prices"}
  <1>1. /\ Held("services") = {"restore", "services"}
        /\ Held("countries") = {"restore", "action", "countries"}
        /\ Held("prices") = {"restore", "action", "prices"}
    BY DEF Held
  <1>2. c.fresh \subseteq Held(c.at)
    BY FormParts DEF Where
  <1> QED BY <1>1, <1>2

LEMMA FlagTypes ==
    ASSUME TypeOK
    PROVE  /\ settingsLoading \in BOOLEAN /\ servicesLoading \in BOOLEAN
           /\ countriesLoading \in BOOLEAN /\ pricesLoading \in BOOLEAN
  BY DEF TypeOK

LEMMA ServicesKeeps ==
    ASSUME FormInv, TypeOK', NEW c \in calls,
           (\E items \in SUBSET Services : ServicesAnswered(c, items)) \/ ServicesFail(c)
    PROVE  FormInv'
  <1>0. /\ TypeOK /\ calls \subseteq Calls /\ c \in Calls /\ c.draft \in Forms /\ form \in Forms
        /\ ListsBelong /\ Unique /\ First /\ BehindServices
    BY FormParts DEF Calls
  <1>1. /\ c.at = "services" /\ c.fresh \subseteq {"restore", "services"}
        /\ configured' = configured /\ settingsLoading' = settingsLoading /\ stranded' = stranded
    BY HeldAt DEF ServicesAnswered, ServicesFail, Answered, Fails
  <1>2. ~Holds(c, "settings") /\ ~Holds(c, "countries") /\ ~Holds(c, "prices")
    BY <1>1 DEF Holds
  <1>3. CASE ~Holds(c, "services") /\ Return(c) /\ UNCHANGED catalogVars
    <2>1. /\ form' = form /\ services' = services /\ countries' = countries /\ prices' = prices
          /\ servicesLoading' = servicesLoading /\ countriesLoading' = countriesLoading
          /\ pricesLoading' = pricesLoading
      BY <1>3 DEF catalogVars, listVars
    <2>2. /\ Returned(c, "settings", settingsLoading, settingsLoading')
          /\ Returned(c, "services", servicesLoading, servicesLoading')
          /\ Returned(c, "countries", countriesLoading, countriesLoading')
          /\ Returned(c, "prices", pricesLoading, pricesLoading')
      BY <1>1, <1>2, <1>3, <2>1 DEF Returned
    <2>3. ServicesMind(calls \ {c}, {}, {}) /\ CountriesMind(calls \ {c}, {}, {})
      BY <2>1 DEF ServicesMind, CountriesMind, Unpicked, NothingBehind, NoPrices
    <2>4. ListsBelong' /\ (PricesBelong => PricesBelong')
      BY <1>0, <1>1, <2>1 DEF ListsBelong, PricesBelong, ServicesOf, CountriesOf, PricesOf
    <2> QED BY <1>1, <1>3, <2>1, <2>2, <2>3, <2>4, ListReturns
  <1>4. ASSUME Holds(c, "services")
        PROVE  /\ c.draft.provider = form.provider /\ c.draft.provider \in configured
               /\ countries = Blank /\ prices = Blank
               /\ \A d \in calls \ {c} : d.fresh \subseteq {"settings"}
    BY <1>0, <1>4 DEF Holds, BehindServices, First
  <1>5. ASSUME Holds(c, "services"), Return(c), servicesLoading' = FALSE,
               UNCHANGED <<countriesLoading, pricesLoading, countries, prices>>,
               form'.provider = form.provider,
               services' = Blank \/ services'.of = ServicesOf(c.draft)
        PROVE  FormInv'
    <2>1. /\ c.draft.provider = form.provider /\ countries' = Blank /\ prices' = Blank
          /\ \A d \in calls \ {c} : d.fresh \subseteq {"settings"}
      BY <1>4, <1>5
    <2>2. /\ Returned(c, "settings", settingsLoading, settingsLoading')
          /\ Returned(c, "services", servicesLoading, servicesLoading')
          /\ Returned(c, "countries", countriesLoading, countriesLoading')
          /\ Returned(c, "prices", pricesLoading, pricesLoading')
      BY <1>1, <1>2, <1>5 DEF Returned
    <2>3. ServicesMind(calls \ {c}, {}, {}) /\ CountriesMind(calls \ {c}, {}, {})
      BY <2>1 DEF ServicesMind, CountriesMind
    <2>4. ListsBelong' /\ (PricesBelong => PricesBelong')
      BY <1>5, <2>1 DEF ListsBelong, PricesBelong, ServicesOf
    <2> QED BY <1>1, <1>5, <2>2, <2>3, <2>4, ListReturns
  <1>6. ASSUME NEW items \in SUBSET Services, ServicesAnswered(c, items), Holds(c, "services")
        PROVE  FormInv'
    <2>1. services'.of = ServicesOf(c.draft) /\ servicesLoading' = FALSE
      <3>1. /\ services' = [of |-> ServicesOf(c.draft), items |-> items]
            /\ servicesLoading' = FALSE
        BY <1>6 DEF ServicesAnswered
      <3> QED BY <3>1
    <2>2. CASE /\ form' = [form EXCEPT !.service = None, !.country = None, !.offer = None]
               /\ Finish(c, TRUE)
               /\ UNCHANGED <<countriesLoading, pricesLoading, countries, prices>>
      <3>1. form'.provider = form.provider
        BY <1>0, <2>2 DEF Forms
      <3> QED BY <1>5, <1>6, <2>1, <2>2, <3>1 DEF Finish
    <2>3. CASE AskCountries(c, [form EXCEPT !.service = c.draft.service], {})
      <3> DEFINE f == [form EXCEPT !.service = c.draft.service]
      <3>1. f \in Forms /\ f.provider = form.provider /\ {} \in Moves
        BY <1>0 DEF Forms, Moves
      <3> HIDE DEF f
      <3>2. AskCountries(c, f, {})
        BY <2>3 DEF f
      <3>3. /\ form'.provider = f.provider /\ form'.country = None
            /\ countriesLoading' = TRUE /\ pricesLoading' = FALSE
            /\ countries' = Blank /\ prices' = Blank
        BY <1>0, <3>1, <3>2, CountriesIs
      <3>4. PICK n \in Calls : CountriesCall(c, {}, n)
        BY <1>0, <3>1, <3>2, CountriesIs
      <3>5. /\ n.at = "countries" /\ n.draft = c.draft
            /\ n.fresh = (c.fresh \cap {"restore"}) \cup {"countries"}
        BY <1>1, <3>4 DEF CountriesCall
      <3> DEFINE K == {"countries", "prices"}
      <3> DEFINE rest == calls \ {c}
      <3>6. Turn(rest, K, {n})
        <4>1. {} \cup {"countries", "prices"} = K /\ K \in Moves
          BY Names DEF Moves
        <4> QED BY <3>4, <4>1 DEF CountriesCall, Turn
      <3>7. /\ c.draft.provider = form.provider /\ c.draft.provider \in configured
            /\ \A d \in rest : d.fresh \subseteq {"settings"}
        BY <1>4, <1>6
      <3>8. Mover(rest, K, {n})
        BY <3>5, <3>7 DEF Mover, Held
      <3>9. /\ Goes(rest, K, {n}, "settings", settingsLoading, settingsLoading')
            /\ Ends(rest, K, {n}, "services", servicesLoading')
            /\ Begins({n}, "countries", countriesLoading')
            /\ Ends(rest, K, {n}, "prices", pricesLoading')
        <4>1. Goes(rest, K, {n}, "settings", settingsLoading, settingsLoading')
          BY <1>1, <3>5 DEF Goes, Stays
        <4>2. Ends(rest, K, {n}, "services", servicesLoading')
          BY <2>1, <3>5, <3>7 DEF Ends
        <4>3. Begins({n}, "countries", countriesLoading')
          BY <3>1, <3>3, <3>5, <3>7 DEF Begins
        <4>4. Ends(rest, K, {n}, "prices", pricesLoading')
          BY <3>3, <3>5, <3>7 DEF Ends
        <4> QED BY <4>1, <4>2, <4>3, <4>4
      <3>10. AllGo(rest, K, {n})
        BY <3>9 DEF AllGo, Goes
      <3>11. ServicesMind(rest, K, {n})
        BY <3>5, <3>7 DEF ServicesMind
      <3>12. CountriesMind(rest, K, {n})
        BY <1>1, <3>3, <3>5, <3>7 DEF CountriesMind, Unpicked, NothingBehind, NoPrices
      <3>13. ListsBelong' /\ Offered'
        BY <2>1, <3>1, <3>3, <3>7 DEF ListsBelong, ServicesOf, Offered, PricesBelong
      <3> HIDE DEF K, rest
      <3> QED BY <1>1, <3>1, <3>3, <3>6, <3>8, <3>10, <3>11, <3>12, <3>13, FormGoes
    <2> QED BY <1>6, <2>2, <2>3 DEF ServicesAnswered
  <1>7. ASSUME ServicesFail(c), Holds(c, "services")
        PROVE  FormInv'
    <2>1. form'.provider = form.provider
      BY <1>4, <1>7 DEF ServicesFail
    <2> QED BY <1>5, <1>7, <2>1 DEF ServicesFail, Finish
  <1>8. ASSUME NEW items \in SUBSET Services, ServicesAnswered(c, items) PROVE FormInv'
    <2>1. Holds(c, "services") \/ (~Holds(c, "services") /\ Return(c) /\ UNCHANGED catalogVars)
      BY <1>8 DEF ServicesAnswered
    <2> QED BY <1>3, <1>6, <1>8, <2>1
  <1>9. ASSUME ServicesFail(c) PROVE FormInv'
    <2>1. Holds(c, "services") \/ (~Holds(c, "services") /\ Return(c) /\ UNCHANGED catalogVars)
      BY <1>9 DEF ServicesFail
    <2> QED BY <1>3, <1>7, <1>9, <2>1
  <1> QED BY <1>8, <1>9
-----------------------------------------------------------------------------
\* What the answer for the countries finds: if the handler still holds the
\* counter, no other request for services or countries counts.
LEMMA CountriesAlone ==
    ASSUME FormInv, NEW c \in calls, c.at = "countries", "countries" \in c.fresh
    PROVE  \A d \in calls \ {c} : "services" \notin d.fresh /\ "countries" \notin d.fresh
  BY FormParts DEF Unique, First, Counters

LEMMA CountriesKeeps ==
    ASSUME FormInv, TypeOK', NEW c \in calls,
           (\E items \in SUBSET Countries : CountriesAnswered(c, items)) \/ CountriesFail(c)
    PROVE  FormInv'
  <1>0. /\ TypeOK /\ calls \subseteq Calls /\ c \in Calls /\ c.draft \in Forms /\ form \in Forms
        /\ ListsBelong /\ Unique /\ First /\ Second /\ BehindCountries
    BY FormParts DEF Calls
  <1>1. /\ c.at = "countries" /\ c.fresh \subseteq {"restore", "action", "countries"}
        /\ configured' = configured /\ settingsLoading' = settingsLoading /\ stranded' = stranded
        /\ servicesLoading' = servicesLoading /\ services' = services
        /\ countriesLoading' = (countriesLoading /\ ~Holds(c, "countries"))
    <2>1. c.at = "countries"
      BY DEF CountriesAnswered, CountriesFail
    <2> QED BY <2>1, HeldAt DEF CountriesAnswered, CountriesFail, Answered, Fails
  <1>2. ~Holds(c, "settings") /\ ~Holds(c, "services") /\ ~Holds(c, "prices")
    BY <1>1 DEF Holds
  <1>3. \/ countries' = countries
        \/ /\ Holds(c, "countries") /\ c.draft.service = form.service
           /\ countries'.of = CountriesOf(c.draft)
    <2>1. ASSUME NEW items \in SUBSET Countries, CountriesAnswered(c, items)
          PROVE  countries' = countries \/
                 (CurrentCountries(c) /\ countries' = [of |-> CountriesOf(c.draft), items |-> items])
      BY <2>1 DEF CountriesAnswered
    <2>2. ASSUME CountriesFail(c) PROVE countries' = countries
      BY <2>2 DEF CountriesFail
    <2>3. ASSUME NEW items \in SUBSET Countries, CountriesAnswered(c, items)
          PROVE  \/ countries' = countries
                 \/ /\ Holds(c, "countries") /\ c.draft.service = form.service
                    /\ countries'.of = CountriesOf(c.draft)
      BY <2>1, <2>3 DEF CurrentCountries
    <2> QED BY <2>2, <2>3
  <1>4. PICK loaded : AfterCountries(c, loaded)
    BY DEF CountriesAnswered, CountriesFail
  <1>5. /\ Returned(c, "settings", settingsLoading, settingsLoading')
        /\ Returned(c, "services", servicesLoading, servicesLoading')
        /\ Returned(c, "countries", countriesLoading, countriesLoading')
    <2>1. countriesLoading \in BOOLEAN
      BY <1>0, FlagTypes
    <2> QED BY <1>1, <1>2, <2>1 DEF Returned
  <1>6. ASSUME Holds(c, "restore") \/ Holds(c, "countries")
        PROVE  /\ "countries" \in c.fresh /\ c.draft.provider = form.provider
               /\ countries = Blank /\ prices = Blank
               /\ \A d \in calls \ {c} : "services" \notin d.fresh /\ "countries" \notin d.fresh
               /\ \A d \in calls : "prices" \notin d.fresh
               /\ c.draft.provider \in configured
    <2>1. "countries" \in c.fresh /\ c.draft.provider = form.provider
      BY <1>0, <1>1, <1>6 DEF Holds, Second
    <2> QED BY <1>0, <1>1, <2>1, CountriesAlone DEF BehindCountries
  \* The handler ends.
  <1>7. ASSUME Return(c), prices' = prices, pricesLoading' = pricesLoading,
               form' = form \/ (/\ Holds(c, "restore") /\ form'.provider = form.provider
                                /\ form'.service = form.service)
        PROVE  FormInv'
    <2>1. form'.provider = form.provider /\ form'.service = form.service
      BY <1>7
    <2>2. (form' # form \/ countries' # countries) =>
             /\ c.draft.provider = form.provider /\ countries = Blank /\ prices = Blank
             /\ \A d \in calls \ {c} : "services" \notin d.fresh /\ "countries" \notin d.fresh
      BY <1>3, <1>6, <1>7
    <2>3. ServicesMind(calls \ {c}, {}, {})
      BY <1>7, <2>2 DEF ServicesMind, NothingBehind
    <2>4. CountriesMind(calls \ {c}, {}, {})
      BY <1>7, <2>2 DEF CountriesMind, Unpicked, NothingBehind, NoPrices
    <2>5. countries' # Blank /\ ~stranded => countries'.of = CountriesOf(form')
      <3>1. CASE countries' = countries
        BY <1>0, <2>1, <3>1 DEF ListsBelong, CountriesOf
      <3>2. CASE countries' # countries
        <4>1. c.draft.service = form.service /\ countries'.of = CountriesOf(c.draft)
              /\ c.draft.provider = form.provider
          BY <1>3, <2>2, <3>2
        <4> QED BY <2>1, <4>1 DEF CountriesOf
      <3> QED BY <3>1, <3>2
    <2>6. prices # Blank => form' = form
      BY <2>2
    <2>7. ListsBelong'
      BY <1>0, <1>1, <1>7, <2>1, <2>5, <2>6 DEF ListsBelong, ServicesOf, PricesOf
    <2>8. PricesBelong => PricesBelong'
      BY <1>7, <2>6 DEF PricesBelong, PricesOf
    <2>9. Returned(c, "prices", pricesLoading, pricesLoading') /\ c.at # "dashboard"
      BY <1>1, <1>2, <1>7 DEF Returned
    <2> QED BY <1>1, <1>5, <1>7, <2>1, <2>3, <2>4, <2>7, <2>8, <2>9, ListReturns
  \* A restore goes on to the prices.
  <1>8. ASSUME Holds(c, "restore"), AskPrices(c, {}), prices' = Blank,
               form' = [form EXCEPT !.country = c.draft.country, !.offer = None]
        PROVE  FormInv'
    <2>0. form'.provider = form.provider /\ form'.service = form.service
      BY <1>0, <1>8 DEF Forms
    <2>1. {} \in Moves
      BY DEF Moves
    <2>2. pricesLoading' = TRUE
      BY <1>0, <1>8, <2>1, PricesIs
    <2>3. PICK n \in Calls : PricesCall(c, {}, n)
      BY <1>0, <1>8, <2>1, PricesIs
    <2>4. /\ n.at = "prices" /\ n.draft = c.draft
          /\ n.fresh = (c.fresh \cap {"restore", "action"}) \cup {"prices"}
      BY <1>1, <2>3 DEF PricesCall
    <2>5. /\ "countries" \in c.fresh /\ c.draft.provider = form.provider /\ countries = Blank
          /\ \A d \in calls \ {c} : "services" \notin d.fresh /\ "countries" \notin d.fresh
      BY <1>6, <1>8
    <2> DEFINE K == {"prices"}
    <2> DEFINE rest == calls \ {c}
    <2>6. Turn(rest, K, {n})
      <3>1. {} \cup {"prices"} = K /\ K \in Moves
        BY Names DEF Moves
      <3> QED BY <2>3, <3>1 DEF PricesCall, Turn
    <2>7. \A d \in rest : \A k \in {"restore", "action"} : k \in c.fresh => k \notin d.fresh
      BY <1>0, Names DEF Unique
    <2>8. Mover(rest, K, {n})
      BY <2>4, <2>5, <2>7 DEF Mover, Held
    <2>9. /\ Goes(rest, K, {n}, "settings", settingsLoading, settingsLoading')
          /\ Goes(rest, K, {n}, "services", servicesLoading, servicesLoading')
          /\ Goes(rest, K, {n}, "countries", countriesLoading, countriesLoading')
      <3>1. /\ Quiet(K, {n}, "settings") /\ Quiet(K, {n}, "services") /\ Quiet(K, {n}, "countries")
        BY <2>4, Names DEF Quiet
      <3> HIDE DEF K
      <3> QED BY <1>0, <1>5, <3>1, FlagReturns
    <2>10. Begins({n}, "prices", pricesLoading')
      BY <2>0, <2>2, <2>4, <2>5 DEF Begins
    <2>11. AllGo(rest, K, {n})
      BY <2>9, <2>10 DEF AllGo, Goes
    <2>12. ServicesMind(rest, K, {n})
      BY <2>4, <2>5 DEF ServicesMind
    <2>13. CountriesMind(rest, K, {n})
      BY <2>4, <2>5 DEF CountriesMind
    <2>14. countries' # Blank => countries'.of = CountriesOf(form')
      BY <1>3, <2>0, <2>5 DEF CountriesOf
    <2>15. ListsBelong' /\ Offered'
      BY <1>0, <1>1, <1>8, <2>0, <2>14 DEF ListsBelong, ServicesOf, Offered, PricesBelong
    <2> HIDE DEF K, rest
    <2> QED BY <1>1, <2>0, <2>6, <2>8, <2>11, <2>12, <2>13, <2>15, FormGoes
  <1>9. \/ Return(c) /\ prices' = prices /\ pricesLoading' = pricesLoading /\ form' = form
        \/ /\ Return(c) /\ prices' = prices /\ pricesLoading' = pricesLoading /\ Holds(c, "restore")
           /\ \/ form' = [form EXCEPT !.country = c.draft.country, !.offer = c.draft.offer]
              \/ form' = [form EXCEPT !.country = None]
        \/ /\ Holds(c, "restore") /\ AskPrices(c, {}) /\ prices' = Blank
           /\ form' = [form EXCEPT !.country = c.draft.country, !.offer = None]
    BY <1>4 DEF AfterCountries, AfterAction, Finish
  <1>10. ASSUME \/ form' = [form EXCEPT !.country = c.draft.country, !.offer = c.draft.offer]
                \/ form' = [form EXCEPT !.country = None]
         PROVE  form'.provider = form.provider /\ form'.service = form.service
    BY <1>0, <1>10 DEF Forms
  <1> QED BY <1>7, <1>8, <1>9, <1>10
-----------------------------------------------------------------------------
LEMMA PricesKeeps ==
    ASSUME FormInv, TypeOK', NEW c \in calls,
           (\E items \in SUBSET Offers : PricesAnswered(c, items)) \/ PricesFail(c)
    PROVE  FormInv'
  <1>0. /\ TypeOK /\ calls \subseteq Calls /\ c \in Calls /\ c.draft \in Forms /\ form \in Forms
        /\ ListsBelong /\ Unique /\ First /\ BehindCountries
    BY FormParts DEF Calls
  <1>1. /\ c.at = "prices" /\ c.fresh \subseteq {"restore", "action", "prices"}
        /\ configured' = configured /\ settingsLoading' = settingsLoading /\ stranded' = stranded
        /\ servicesLoading' = servicesLoading /\ services' = services
        /\ countriesLoading' = countriesLoading /\ countries' = countries
        /\ pricesLoading' = (pricesLoading /\ ~Holds(c, "prices"))
    <2>1. c.at = "prices"
      BY DEF PricesAnswered, PricesFail
    <2> QED BY <2>1, HeldAt DEF PricesAnswered, PricesFail, Answered, Fails, listVars
  <1>2. ~Holds(c, "settings") /\ ~Holds(c, "services") /\ ~Holds(c, "countries")
    BY <1>1 DEF Holds
  <1>3. \/ prices' = prices
        \/ /\ Holds(c, "prices") /\ prices'.of = PricesOf(form)
    <2>1. ASSUME NEW items \in SUBSET Offers, PricesAnswered(c, items)
          PROVE  prices' = prices \/
                 (CurrentPrices(c) /\ prices' = [of |-> PricesOf(c.draft), items |-> items])
      BY <2>1 DEF PricesAnswered
    <2>2. ASSUME PricesFail(c) PROVE prices' = prices
      BY <2>2 DEF PricesFail, listVars
    <2>3. ASSUME NEW items \in SUBSET Offers, PricesAnswered(c, items)
          PROVE  prices' = prices \/ (Holds(c, "prices") /\ prices'.of = PricesOf(form))
      <3>1. CurrentPrices(c) => Holds(c, "prices") /\ PricesOf(c.draft) = PricesOf(form)
        BY DEF CurrentPrices, Holds, PricesOf
      <3> QED BY <2>1, <2>3, <3>1
    <2> QED BY <2>2, <2>3
  <1>4. PICK loaded : AfterPrices(c, loaded)
    BY DEF PricesAnswered, PricesFail
  <1>5. Return(c)
    BY <1>4 DEF AfterPrices
  \* Only the offer of the form changes.
  <1>6. PricesOf(form') = PricesOf(form) /\ CountriesOf(form') = CountriesOf(form)
        /\ ServicesOf(form') = ServicesOf(form)
        /\ form'.provider = form.provider /\ form'.country = form.country
    <2>1. form' = form \/ \E o : form' = [form EXCEPT !.offer = o]
      BY <1>4 DEF AfterPrices
    <2>2. /\ form'.provider = form.provider /\ form'.service = form.service
          /\ form'.country = form.country
      BY <1>0, <2>1 DEF Forms
    <2> QED BY <2>2 DEF PricesOf, CountriesOf, ServicesOf
  <1>7. /\ Returned(c, "settings", settingsLoading, settingsLoading')
        /\ Returned(c, "services", servicesLoading, servicesLoading')
        /\ Returned(c, "countries", countriesLoading, countriesLoading')
        /\ Returned(c, "prices", pricesLoading, pricesLoading')
    <2>1. pricesLoading \in BOOLEAN
      BY <1>0, FlagTypes
    <2> QED BY <1>1, <1>2, <2>1 DEF Returned
  \* Prices that are taken have no request for services or countries before them.
  <1>8. ASSUME Holds(c, "prices")
        PROVE  /\ \A d \in calls : "services" \notin d.fresh
               /\ ~NoPrices(calls)
    BY <1>0, <1>1, <1>8 DEF Holds, First, NoPrices
  <1>9. ServicesMind(calls \ {c}, {}, {})
    BY <1>1, <1>3, <1>8 DEF ServicesMind, NothingBehind
  <1>10. CountriesMind(calls \ {c}, {}, {})
    BY <1>1, <1>3, <1>6, <1>8 DEF CountriesMind, Unpicked, NothingBehind, NoPrices
  <1>11. prices' # Blank => prices'.of = PricesOf(form') \/ prices' = prices
    BY <1>3, <1>6
  <1>12. ListsBelong'
    BY <1>0, <1>1, <1>6, <1>11 DEF ListsBelong
  <1>13. PricesBelong => PricesBelong'
    BY <1>6, <1>11 DEF PricesBelong
  <1> QED BY <1>1, <1>5, <1>6, <1>7, <1>9, <1>10, <1>12, <1>13, ListReturns
-----------------------------------------------------------------------------
(* The theorems *)

LEMMA FormInit ==
    ASSUME Init
    PROVE  FormInv
  <1> DEFINE c == [Call("mount", form) EXCEPT !.fresh = {"settings"}]
  <1>1. form \in Forms /\ configured = {} /\ settingsLoading = TRUE /\ saving = FALSE
    BY CatalogAssumption DEF Init
  <1>2. /\ c \in Calls /\ c.at = "settings" /\ c.draft = form /\ c.fresh = {"settings"}
    BY <1>1, Names DEF Call, Calls, Operations
  <1>3. calls = {c}
    BY DEF Init
  <1>4. services = Blank /\ countries = Blank /\ prices = Blank
    BY DEF Init
  <1>5. /\ servicesLoading = FALSE /\ countriesLoading = FALSE /\ pricesLoading = FALSE
    BY DEF Init
  <1> HIDE DEF c
  <1>6. TypeOK
    <2>1. PageTypes
      BY <1>1, <1>2, <1>3, <1>4, <1>5, BlankIs DEF Init, PageTypes
    <2>2. OtherTypes
      <3>1. 0 \in 0..MaxActions /\ 0 \in 0..MaxFaults /\ 0 \in 0..MaxLate
        BY CatalogAssumption
      <3>2. /\ keyed \subseteq Providers /\ configured \subseteq keyed
            /\ settingsLoading \in BOOLEAN /\ stranded \in BOOLEAN
        BY DEF Init
      <3>3. actions = 0 /\ faults = 0 /\ lates = 0
        BY DEF Init
      <3> QED BY <3>1, <3>2, <3>3 DEF OtherTypes
    <2> QED BY <2>1, <2>2, TypeParts
  <1>7. Fresh
    BY <1>2, <1>3 DEF Fresh, Where, Held, Unique, First, Second
  <1>8. Flags /\ Waits
    BY <1>1, <1>2, <1>3, <1>5 DEF Flags, Waits, Flagged, Waited
  <1>9. BehindServices /\ BehindCountries
    BY <1>2, <1>3 DEF BehindServices, BehindCountries
  <1>10. ListsBelong /\ Offered
    BY <1>4 DEF ListsBelong, Offered, PricesBelong
  <1> QED BY <1>6, <1>7, <1>8, <1>9, <1>10 DEF FormInv

LEMMA FormStep ==
    ASSUME FormInv, [Next]_vars
    PROVE  FormInv'
  <1>0. TypeOK'
    BY FormParts, TypeStep
  <1>1. ASSUME NEW c \in calls, Answer(c) PROVE FormInv'
    BY <1>0, <1>1, PutKeeps, SettingsKeeps, MountedKeeps, ServicesKeeps, CountriesKeeps, PricesKeeps
       DEF Answer
  <1>2. ASSUME NEW c \in calls, Fault(c) PROVE FormInv'
    BY <1>0, <1>2, PutKeeps, SettingsKeeps, ServicesKeeps, CountriesKeeps, PricesKeeps
       DEF Fault
  <1>3. CASE User
    BY <1>0, <1>3, PickProviderKeeps, PickServiceKeeps, PickCountryKeeps, PickOfferKeeps,
       RefreshKeeps, SaveKeeps DEF User
  <1>4. CASE \E d \in Drafts : Late(d)
    BY <1>0, <1>4, LateKeeps
  <1>5. CASE UNCHANGED vars
    <2>1. UNCHANGED <<form, configured, settingsLoading, servicesLoading, countriesLoading,
                      pricesLoading, services, countries, prices, calls, stranded>>
      BY <1>5 DEF vars, flagVars, listVars
    <2>2. /\ Fresh' = Fresh /\ Flags' = Flags /\ Waits' = Waits
          /\ BehindServices' = BehindServices /\ BehindCountries' = BehindCountries
          /\ ListsBelong' = ListsBelong /\ Offered' = Offered
      BY <2>1 DEF Fresh, Where, Unique, First, Second, Flags, Waits, Flagged, Waited,
         BehindServices, BehindCountries, ListsBelong, Offered, PricesBelong, Ready, MountWaits
    <2> QED BY <1>0, <2>1, <2>2 DEF FormInv
  <1> QED BY <1>1, <1>2, <1>3, <1>4, <1>5 DEF Next

\* FormInv is inductive: it holds of every state the page reaches.
THEOREM FormInvariant == Spec => []FormInv
  <1>1. Init => FormInv
    BY FormInit
  <1>2. FormInv /\ [Next]_vars => FormInv'
    BY FormStep
  <1> QED BY <1>1, <1>2, PTL DEF Spec

\* Every variable of the page has its type, whatever is picked and whatever comes back.
THEOREM FormTypes == Spec => []TypeOK
  <1>1. FormInv => TypeOK
    BY DEF FormInv
  <1> QED BY <1>1, FormInvariant, PTL

\* A counter of a request is held at that request alone.
LEMMA HeldAlone ==
    ASSUME FormInv, NEW c \in calls
    PROVE  /\ "settings" \in c.fresh => c.at = "settings"
           /\ "services" \in c.fresh => c.at = "services"
           /\ "countries" \in c.fresh => c.at = "countries"
           /\ "prices" \in c.fresh => c.at = "prices"
  <1>1. c.fresh \subseteq Held(c.at)
    BY FormParts DEF Where
  <1> QED BY <1>1 DEF Held

\* A flag is that of the request that counts.
LEMMA FlagIsLoads ==
    ASSUME NEW k, NEW b \in BOOLEAN, Flagged(calls, k, b), Waited(calls, k, b, form.provider),
           \A c \in calls : k \in c.fresh => c.at = k
    PROVE  b <=> Loads(k)
  BY DEF Flagged, Waited, Loads, Holds

\* What is shown belongs to what is selected, and each list shows that it is
\* loading exactly while the request that will fill it is out (App.vue).
THEOREM FormShowsWhatItAsked == Spec => []FormIsHonest
  <1>1. ASSUME FormInv PROVE FormIsHonest
    <2>1. ListsBelong /\ Flags /\ (stranded \/ Waits) /\ TypeOK
      BY <1>1, FormParts
    <2>2. ASSUME ~stranded
          PROVE  /\ settingsLoading <=> Loads("settings")
                 /\ servicesLoading <=> Loads("services")
                 /\ countriesLoading <=> Loads("countries")
                 /\ pricesLoading <=> Loads("prices")
      <3>1. /\ settingsLoading \in BOOLEAN /\ servicesLoading \in BOOLEAN
            /\ countriesLoading \in BOOLEAN /\ pricesLoading \in BOOLEAN
        BY <2>1, FlagTypes
      <3>2. Flags /\ Waits
        BY <2>1, <2>2
      <3>3. \A c \in calls :
              /\ "settings" \in c.fresh => c.at = "settings"
              /\ "services" \in c.fresh => c.at = "services"
              /\ "countries" \in c.fresh => c.at = "countries"
              /\ "prices" \in c.fresh => c.at = "prices"
        BY <1>1, HeldAlone
      <3>4. settingsLoading <=> Loads("settings")
        BY <3>1, <3>2, <3>3, FlagIsLoads DEF Flags, Waits
      <3>5. servicesLoading <=> Loads("services")
        BY <3>1, <3>2, <3>3, FlagIsLoads DEF Flags, Waits
      <3>6. countriesLoading <=> Loads("countries")
        BY <3>1, <3>2, <3>3, FlagIsLoads DEF Flags, Waits
      <3>7. pricesLoading <=> Loads("prices")
        BY <3>1, <3>2, <3>3, FlagIsLoads DEF Flags, Waits
      <3> QED BY <3>4, <3>5, <3>6, <3>7
    <2> QED BY <2>1, <2>2 DEF FormIsHonest, LoadingIsReal
  <1> QED BY <1>1, FormInvariant, PTL

\* An order that can be sent carries a quotation of the provider, service and
\* country on show (startBatch), also after a late draft replaced them.
THEOREM OrderCarriesItsQuotation == Spec => []OfferIsCurrent
  <1>1. ASSUME FormInv PROVE OfferIsCurrent
    <2>1. ASSUME CanStart PROVE prices.of = PricesOf(form)
      <3>1. Offered
        BY <1>1, FormParts
      <3>2. Ready /\ ~MountWaits
        BY <2>1 DEF CanStart, MountWaits
      <3>3. prices # Blank
        BY <2>1 DEF CanStart, Blank
      <3> QED BY <3>1, <3>2, <3>3 DEF Offered, PricesBelong
    <2> QED BY <2>1 DEF OfferIsCurrent
  <1> QED BY <1>1, FormInvariant, PTL
-----------------------------------------------------------------------------
(* The rules that the prices on show went through *)

LEMMA ListsAre ==
    ASSUME NEW s \in Lists
    PROVE  \E n \in Nat : /\ DOMAIN s = 1..n /\ IsFiniteSet(DOMAIN s) /\ Cardinality(DOMAIN s) = n
                          /\ \A i \in DOMAIN s : s[i] \in Quotes /\ s[i].price \in Nat
  <1>1. PICK n \in 0..MaxQuotes : s \in [1..n -> Quotes]
    BY DEF Lists
  <1>2. n \in Nat /\ DOMAIN s = 1..n
    BY <1>1
  <1>3. 1 \in Int /\ n \in Int
    BY <1>2
  <1>4. IsFiniteSet(1..n) /\ Cardinality(1..n) = IF 1 > n THEN 0 ELSE n - 1 + 1
    BY <1>3, FS_Interval, Zenon
  <1>5. Cardinality(1..n) = n
    BY <1>2, <1>4
  <1>6. \A i \in DOMAIN s : s[i] \in Quotes /\ s[i].price \in Nat
    BY <1>1, PriceRulesAssumption
  <1> QED BY <1>2, <1>4, <1>5, <1>6

\* Every quotation has a position of its own.
Ahead(s, i) == {j \in DOMAIN s : Before(s, j, i)}

LEMMA AheadIs ==
    ASSUME NEW s \in Lists, NEW i \in DOMAIN s
    PROVE  /\ IsFiniteSet(Ahead(s, i)) /\ Cardinality(Ahead(s, i)) \in Nat
           /\ Position(s, i) \in DOMAIN s
           /\ \A j \in DOMAIN s : Position(s, j) = Position(s, i) => j = i
  <1>1. PICK n \in Nat :
           /\ DOMAIN s = 1..n /\ IsFiniteSet(DOMAIN s) /\ Cardinality(DOMAIN s) = n
           /\ \A j \in DOMAIN s : s[j].price \in Nat
    BY ListsAre
  <1>2. ASSUME NEW k \in DOMAIN s
        PROVE  /\ IsFiniteSet(Ahead(s, k)) /\ Cardinality(Ahead(s, k)) \in Nat
               /\ Position(s, k) = 1 + Cardinality(Ahead(s, k))
    <2>1. Ahead(s, k) \subseteq DOMAIN s
      BY DEF Ahead
    <2>2. IsFiniteSet(Ahead(s, k))
      BY <1>1, <2>1, FS_Subset
    <2>3. Cardinality(Ahead(s, k)) \in Nat
      BY <2>2, FS_CardinalityType
    <2> QED BY <2>2, <2>3 DEF Position, Ahead
  <1>3. ASSUME NEW S, NEW T, IsFiniteSet(T), S \subseteq T, S # T
        PROVE  Cardinality(S) < Cardinality(T)
    <2>1. IsFiniteSet(S) /\ Cardinality(S) <= Cardinality(T)
          /\ (Cardinality(S) = Cardinality(T) => S = T)
      BY <1>3, FS_Subset
    <2>2. Cardinality(S) \in Nat /\ Cardinality(T) \in Nat
      BY <1>3, <2>1, FS_CardinalityType
    <2> QED BY <1>3, <2>1, <2>2
  <1>4. Position(s, i) \in DOMAIN s
    <2>1. i \notin Ahead(s, i) /\ Ahead(s, i) \subseteq DOMAIN s /\ Ahead(s, i) # DOMAIN s
      BY <1>1 DEF Ahead, Before
    <2>2. Cardinality(Ahead(s, i)) < n
      BY <1>1, <1>3, <2>1
    <2> QED BY <1>1, <1>2, <2>2
  <1>5. ASSUME NEW j \in DOMAIN s, NEW k \in DOMAIN s, Before(s, j, k)
        PROVE  Position(s, j) < Position(s, k)
    <2>1. j \in Nat /\ k \in Nat /\ s[j].price \in Nat /\ s[k].price \in Nat
      BY <1>1
    <2>2. Ahead(s, j) \subseteq Ahead(s, k)
      <3>1. ASSUME NEW l \in DOMAIN s, Before(s, l, j) PROVE Before(s, l, k)
        <4>1. l \in Nat /\ s[l].price \in Nat
          BY <1>1
        <4> QED BY <1>5, <2>1, <3>1, <4>1 DEF Before
      <3> QED BY <3>1 DEF Ahead
    <2>3. j \in Ahead(s, k) /\ j \notin Ahead(s, j)
      BY <1>5, <2>1 DEF Ahead, Before
    <2>4. Cardinality(Ahead(s, j)) < Cardinality(Ahead(s, k))
      BY <1>2, <1>3, <2>2, <2>3
    <2> QED BY <1>2, <2>4
  <1>6. ASSUME NEW j \in DOMAIN s, j # i PROVE Before(s, j, i) \/ Before(s, i, j)
    <2>1. j \in Nat /\ i \in Nat /\ s[j].price \in Nat /\ s[i].price \in Nat
      BY <1>1
    <2> QED BY <1>6, <2>1 DEF Before
  <1>7. ASSUME NEW j \in DOMAIN s, Position(s, j) = Position(s, i) PROVE j = i
    <2>1. Position(s, j) \in Nat /\ Position(s, i) \in Nat
      BY <1>2
    <2> QED BY <1>5, <1>6, <1>7, <2>1
  <1> QED BY <1>2, <1>4, <1>7

\* What an entry of the list keeps of its quotation.
Listed(e, q) ==
    /\ e.value = q.id /\ e.provider = q.provider /\ e.price = q.price /\ e.stock = q.stock
    /\ e.derived = Derivable(q) /\ (~Derivable(q) => e.tier = q.tier)
At(s, n) == CHOOSE i \in DOMAIN s : Position(s, i) = n

LEMMA ShownIs ==
    ASSUME NEW s \in Lists, NEW n \in DOMAIN s
    PROVE  /\ DOMAIN Shown[s] = DOMAIN s
           /\ Listed(Shown[s][n], s[At(s, n)]) /\ Shown[s][n].index = At(s, n)
  <1> DEFINE sorted == Sorted(s)
  <1> DEFINE q == s[At(s, n)]
  <1> DEFINE i == At(s, n)
  <1>1. Shown[s] = Tiered(sorted)
    BY DEF Shown, NormalizePrices
  <1>2. DOMAIN sorted = DOMAIN s
        /\ sorted[n] = [value |-> q.id, index |-> i, provider |-> q.provider, price |-> q.price,
                        stock |-> q.stock, tier |-> q.tier, meta |-> q.meta]
    BY DEF Sorted, At
  <1> HIDE DEF q, i, sorted
  <1>3. /\ sorted[n].value = q.id /\ sorted[n].index = i /\ sorted[n].provider = q.provider
        /\ sorted[n].price = q.price /\ sorted[n].stock = q.stock /\ sorted[n].tier = q.tier
        /\ sorted[n].meta = q.meta
    BY <1>2
  <1> DEFINE derived == Derivable(sorted[n])
  <1>4. DOMAIN Tiered(sorted) = DOMAIN sorted
    BY DEF Tiered
  <1>5. \E tier : Tiered(sorted)[n] =
            [value |-> sorted[n].value, index |-> sorted[n].index, provider |-> sorted[n].provider,
             price |-> sorted[n].price, stock |-> sorted[n].stock, derived |-> derived,
             tier |-> IF derived THEN tier ELSE sorted[n].tier]
    BY <1>2 DEF Tiered
  <1>6. derived = Derivable(q)
    BY <1>3 DEF Derivable, Available
  <1> HIDE DEF derived
  <1>7. PICK tier : Tiered(sorted)[n] =
            [value |-> sorted[n].value, index |-> sorted[n].index, provider |-> sorted[n].provider,
             price |-> sorted[n].price, stock |-> sorted[n].stock, derived |-> derived,
             tier |-> IF derived THEN tier ELSE sorted[n].tier]
    BY <1>5
  <1> DEFINE e == Tiered(sorted)[n]
  <1>8. /\ e.value = sorted[n].value /\ e.index = sorted[n].index
        /\ e.provider = sorted[n].provider /\ e.price = sorted[n].price
        /\ e.stock = sorted[n].stock /\ e.derived = derived
        /\ e.tier = IF derived THEN tier ELSE sorted[n].tier
    BY <1>7
  <1> HIDE DEF e
  <1>9. Listed(e, q) /\ e.index = i
    BY <1>3, <1>6, <1>8 DEF Listed
  <1> QED BY <1>1, <1>2, <1>4, <1>9 DEF e, q, i

LEMMA FoundAgain ==
    ASSUME NEW old \in Lists, NEW new \in Lists, NEW p \in Selected(old)
    PROVE  LET next == Shown[new]
               found == Refreshed(p, next)
           IN  /\ \A i \in found : next[i].provider = p.provider /\ next[i].price = p.price
               /\ (\E i \in DOMAIN new : old[p.index] = new[i]) => found # {}
  <1> DEFINE next == Shown[new]
  <1> DEFINE same == {i \in DOMAIN next : Available(next[i]) /\ SameDetails(next[i], p)}
  <1> DEFINE exact == {i \in same : next[i].value = p.value}
  <1> DEFINE first == {i \in exact : \A j \in exact : i <= j}
  <1> DEFINE found == Refreshed(p, next)
  <1>1. found = IF exact # {} THEN first ELSE IF Cardinality(same) = 1 THEN same ELSE {}
    BY DEF Refreshed
  <1>2. \A i \in same : next[i].provider = p.provider /\ next[i].price = p.price
    BY DEF SameDetails
  <1>3. exact \subseteq same /\ first \subseteq exact
    OBVIOUS
  <1>4. ASSUME NEW i \in DOMAIN new, old[p.index] = new[i]
        PROVE  exact # {}
    <2>1. PICK k \in DOMAIN old : p = Shown[old][k]
      BY DEF Selected
    <2>2. Available(p)
      BY DEF Selected
    <2> DEFINE q == new[i]
    <2>3. Listed(p, old[At(old, k)]) /\ p.index = At(old, k)
      BY <2>1, ShownIs
    <2>4. Listed(p, q)
      BY <1>4, <2>3
    <2> DEFINE n == Position(new, i)
    <2>5. n \in DOMAIN new
      BY AheadIs
    <2>6. At(new, n) = i
      <3>1. \A j \in DOMAIN new : Position(new, j) = n => j = i
        BY AheadIs
      <3> QED BY <3>1 DEF At
    <2> HIDE DEF n
    <2>7. DOMAIN next = DOMAIN new /\ Listed(next[n], q)
      BY <2>5, <2>6, ShownIs
    <2> HIDE DEF next, q
    <2>8. Available(next[n])
      BY <2>2, <2>4, <2>7 DEF Available, Listed
    <2>9. SameDetails(next[n], p) /\ next[n].value = p.value
      BY <2>4, <2>7 DEF SameDetails, Listed
    <2>10. n \in exact
      BY <2>5, <2>7, <2>8, <2>9
    <2> QED BY <2>10
  <1>5. exact # {} => first # {}
    <2>1. DOMAIN next \subseteq Nat
      <3>1. PICK n \in Nat : DOMAIN new = 1..n
        BY ListsAre
      <3>2. DOMAIN next = DOMAIN new
        BY DEF Shown, NormalizePrices, Tiered, Sorted
      <3> QED BY <3>1, <3>2
    <2>2. exact \subseteq Nat
      BY <2>1
    <2> HIDE DEF exact
    <2>3. ASSUME exact # {} PROVE \E i \in exact : \A j \in exact : i <= j
      <3>1. PICK m \in exact : \A y \in exact : ~(<<y, m>> \in OpToRel(<, Nat))
        BY <2>2, <2>3, NatLessThanWellFounded, WFMin, Zenon
      <3>2. \A y \in exact : ~(y < m)
        BY <2>2, <3>1 DEF OpToRel
      <3> QED BY <2>2, <3>2
    <2> QED BY <2>3
  <1> HIDE DEF next, same, exact, first, found
  <1>6. \A i \in found : next[i].provider = p.provider /\ next[i].price = p.price
    BY <1>1, <1>2, <1>3
  <1>7. (\E i \in DOMAIN new : old[p.index] = new[i]) => found # {}
    BY <1>1, <1>4, <1>5
  <1> QED BY <1>6, <1>7 DEF found, next

LEMMA OffersAreKept == RefreshKeepsOffer
  BY FoundAgain DEF RefreshKeepsOffer

LEMMA Thirds ==
    ASSUME NEW index \in Nat, NEW count \in Nat, index < count, count > 0
    PROVE  (index * 3) \div count \in 0..2
  <1> DEFINE d == (index * 3) \div count
  <1>1. d \in Nat /\ count * d <= index * 3
    OBVIOUS
  <1> HIDE DEF d
  <1>2. d >= 3 => count * d >= count * 3
    BY <1>1
  <1>3. d < 3
    BY <1>1, <1>2
  <1>4. d \in 0..2
    BY <1>1, <1>3
  <1> QED BY <1>4 DEF d

LEMMA ThirdsGrow ==
    ASSUME NEW a \in Nat, NEW b \in Nat, a <= b, NEW count \in Nat, count > 0
    PROVE  (a * 3) \div count <= (b * 3) \div count
  <1> DEFINE d == (a * 3) \div count
  <1> DEFINE e == (b * 3) \div count
  <1>1. d \in Nat /\ e \in Nat /\ count * d <= a * 3 /\ b * 3 < count * e + count
    OBVIOUS
  <1> HIDE DEF d, e
  <1>2. e + 1 <= d => count * (e + 1) <= count * d
    BY <1>1
  <1>3. count * (e + 1) = count * e + count
    BY <1>1
  <1>4. d <= e
    BY <1>1, <1>2, <1>3
  <1> QED BY <1>4 DEF d, e

\* The tiers by number.
TierNo(index, count) ==
    IF count < 2 \/ index = 0 THEN 0
    ELSE IF count = 2 \/ index = count - 1 THEN 2 ELSE (index * 3) \div count

LEMMA TierIs ==
    ASSUME NEW index \in Nat, NEW count \in Nat, index < count
    PROVE  /\ TierNo(index, count) \in 0..2
           /\ DerivedTier(index, count) = <<"Bronze", "Silver", "Gold">>[TierNo(index, count) + 1]
           /\ TierOrder[DerivedTier(index, count)] = TierNo(index, count) + 1
  <1>1. TierNo(index, count) \in 0..2
    <2>1. (index * 3) \div count \in 0..2
      BY Thirds
    <2> QED BY <2>1 DEF TierNo
  <1>2. DerivedTier(index, count) = <<"Bronze", "Silver", "Gold">>[TierNo(index, count) + 1]
    BY DEF DerivedTier, TierNo
  <1>3. /\ TierOrder["Bronze"] = 1 /\ TierOrder["Silver"] = 2 /\ TierOrder["Gold"] = 3
    BY DEF TierOrder
  <1>4. TierOrder[DerivedTier(index, count)] = TierNo(index, count) + 1
    <2>1. CASE TierNo(index, count) = 0
      <3>1. DerivedTier(index, count) = "Bronze"
        BY <1>2, <2>1
      <3> QED BY <1>3, <2>1, <3>1
    <2>2. CASE TierNo(index, count) = 1
      <3>1. DerivedTier(index, count) = "Silver"
        BY <1>2, <2>2
      <3> QED BY <1>3, <2>2, <3>1
    <2>3. CASE TierNo(index, count) = 2
      <3>1. DerivedTier(index, count) = "Gold"
        BY <1>2, <2>3
      <3> QED BY <1>3, <2>3, <3>1
    <2> QED BY <1>1, <2>1, <2>2, <2>3
  <1> QED BY <1>1, <1>2, <1>4

LEMMA TiersGrow == TiersFollowPrices
  <1> SUFFICES ASSUME NEW count \in 1..12
               PROVE  /\ DerivedTier(0, count) = "Bronze"
                      /\ count > 1 => DerivedTier(count - 1, count) = "Gold"
                      /\ \A i \in 1..(count - 1) :
                            TierOrder[DerivedTier(i - 1, count)] <= TierOrder[DerivedTier(i, count)]
    BY DEF TiersFollowPrices
  <1>1. DerivedTier(0, count) = "Bronze"
    BY DEF DerivedTier
  <1>2. count > 1 => DerivedTier(count - 1, count) = "Gold"
    BY DEF DerivedTier
  <1>3. ASSUME NEW i \in 1..(count - 1)
        PROVE  TierOrder[DerivedTier(i - 1, count)] <= TierOrder[DerivedTier(i, count)]
    <2>1. i \in Nat /\ i - 1 \in Nat /\ i < count /\ i - 1 < count /\ count \in Nat /\ count > 1
          /\ i > 0
      OBVIOUS
    <2>2. ((i - 1) * 3) \div count <= (i * 3) \div count
      BY <2>1, ThirdsGrow
    <2>3. /\ TierNo(i - 1, count) \in 0..2 /\ TierNo(i, count) \in 0..2
          /\ TierOrder[DerivedTier(i - 1, count)] = TierNo(i - 1, count) + 1
          /\ TierOrder[DerivedTier(i, count)] = TierNo(i, count) + 1
      BY <2>1, TierIs
    <2>4. TierNo(i - 1, count) <= TierNo(i, count)
      BY <2>1, <2>2, <2>3 DEF TierNo
    <2> QED BY <2>3, <2>4
  <1> QED BY <1>1, <1>2, <1>3

\* A refresh, or the restore of a selection saved with its price, never changes what
\* is paid to whom and keeps a selection that is still quoted, for any quotations and
\* lists of any length; derived tiers follow the prices.
THEOREM PricesWereSound == Spec => []PricesAreSound
  <1>1. PricesAreSound
    BY OffersAreKept, TiersGrow DEF PricesAreSound
  <1> QED BY <1>1, PTL
=============================================================================
