---------------------------- MODULE CatalogForm ----------------------------
(***************************************************************************)
(* The workbench page's provider settings and its service, country and     *)
(* price lists (App.vue): every handler that loads one of them, the        *)
(* restore of a saved form (services, then countries, then prices), and    *)
(* the answers, which come back in any order.                              *)
(*                                                                         *)
(* A handler runs to its next await in one step.  What it resumes with is  *)
(* a call: its operation, the request it awaits, what it captured, and     *)
(* `fresh`, the version counters that have not moved since it read them.   *)
(* Advancing a counter takes it out of every call's `fresh`.               *)
(*                                                                         *)
(* A list carries the selection it was asked for.  An offer is named by    *)
(* its quotation; PriceRules has how one is found again in a new list.     *)
(***************************************************************************)
EXTENDS Naturals, FiniteSets

CONSTANTS
    Providers, Services, Countries, Offers,
    Drafts,        \* forms the server may have kept
    None,          \* nothing selected, or no list
    MaxActions,    \* bound: what the user changes or asks for
    MaxFaults,     \* bound: requests that fail
    MaxLate        \* bound: drafts read after the page was mounted

Counters == {"settings", "services", "countries", "prices", "restore", "action"}
Operations == {"mount", "late", "save", "provider", "service", "country", "refresh"}
Awaits == {"settings", "dashboard", "put", "services", "countries", "prices"}
Choice(S) == S \cup {None}
Forms == [provider : Providers, service : Choice(Services), country : Choice(Countries),
          offer : Choice(Offers)]
List(S) == [of : Choice(Providers) \X Choice(Services) \X Choice(Countries), items : SUBSET S]
Calls == [op : Operations, at : Awaits, draft : Forms, fresh : SUBSET Counters]

ASSUME CatalogAssumption ==
    /\ None \notin Providers \cup Services \cup Countries \cup Offers
    /\ Drafts \subseteq Forms
    /\ MaxActions \in Nat /\ MaxFaults \in Nat /\ MaxLate \in Nat

VARIABLES
    form,            \* smsProvider, service, country and priceKey
    keyed,           \* providers whose API key the server has
    configured,      \* providers whose settings say so on this page
    settingsLoading, saving,
    servicesLoading, countriesLoading, pricesLoading,
    catalogReady,
    services, countries, prices,
    calls,           \* handlers that await an answer
    stranded,        \* a late draft replaced the selections under the lists
    actions, faults, lates

flagVars == <<settingsLoading, servicesLoading, countriesLoading, pricesLoading>>
listVars == <<services, countries, prices>>
boundVars == <<actions, faults, lates>>
catalogVars == <<form, servicesLoading, countriesLoading, pricesLoading, catalogReady,
                 listVars>>
vars == <<form, keyed, configured, flagVars, saving, catalogReady, listVars, calls,
          stranded, boundVars>>

TypeOK ==
    /\ form \in Forms
    /\ keyed \subseteq Providers /\ configured \subseteq keyed
    /\ settingsLoading \in BOOLEAN /\ saving \in BOOLEAN /\ catalogReady \in BOOLEAN
    /\ servicesLoading \in BOOLEAN /\ countriesLoading \in BOOLEAN
    /\ pricesLoading \in BOOLEAN /\ stranded \in BOOLEAN
    /\ services \in List(Services) /\ countries \in List(Countries)
    /\ prices \in List(Offers)
    /\ calls \subseteq Calls
    /\ actions \in 0..MaxActions /\ faults \in 0..MaxFaults /\ lates \in 0..MaxLate

Ready == form.provider \in configured            \* settingsReady
Blank == [of |-> <<None, None, None>>, items |-> {}]
ServicesOf(f) == <<f.provider, None, None>>
CountriesOf(f) == <<f.provider, f.service, None>>
PricesOf(f) == <<f.provider, f.service, f.country>>
-----------------------------------------------------------------------------
\* The other calls, after `counters` have moved.
Moved(cs, counters) == {[c EXCEPT !.fresh = @ \ counters] : c \in cs}

\* `c` goes on to await `at` with `draft`, having moved `counters`; it will ask
\* whether those of `held` have moved again.
Await(c, at, draft, counters, held) ==
    calls' = Moved(calls \ {c}, counters)
               \cup {[c EXCEPT !.at = at, !.draft = draft,
                              !.fresh = (@ \cup counters) \cap held]}

\* `c` returns; saveSettings ends with settingsSaving = false.
Return(c) ==
    /\ calls' = calls \ {c}
    /\ saving' = (saving /\ c.op # "save")

Call(op, draft) == [op |-> op, at |-> "settings", draft |-> draft, fresh |-> {}]

\* loadSettings, up to its request.
AskSettings(c) ==
    /\ Await(c, "settings", c.draft, {"settings"}, {"settings"})
    /\ settingsLoading' = TRUE

\* resetPrices, and the request of loadPrices.
AskPrices(c, counters) ==
    /\ Await(c, "prices", c.draft, counters \cup {"prices"}, {"restore", "action", "prices"})
    /\ pricesLoading' = TRUE

\* loadCountriesForCurrentService, up to its request, for the form f.
AskCountries(c, f, counters) ==
    /\ form' = [f EXCEPT !.country = None, !.offer = None]
    /\ countries' = Blank /\ prices' = Blank
    /\ countriesLoading' = TRUE /\ pricesLoading' = FALSE
    /\ Await(c, "countries", c.draft, counters \cup {"countries", "prices"},
             {"restore", "action", "countries"})

\* restoreBatchFormCatalog, up to its request for the services.
AskRestore(c, draft) ==
    /\ form' = draft
    /\ Await(c, "services", draft, {"restore", "action", "countries", "prices", "services"},
             {"restore", "services"})
    /\ catalogReady' = FALSE /\ servicesLoading' = TRUE
    /\ countriesLoading' = FALSE /\ pricesLoading' = FALSE
    /\ countries' = Blank /\ prices' = Blank
    /\ UNCHANGED <<services, saving>>

\* The provider is not configured.  onMounted and saveSettings give up a restore
\* too (cancelBatchFormCatalogRestore), handleSMSProviderChange does not.
GivenUp(c) == IF c.op = "provider" THEN {} ELSE {"restore", "action"}
Dropped(c) ==
    /\ calls' = Moved(calls \ {c}, GivenUp(c))
    /\ saving' = (saving /\ c.op # "save")
    /\ catalogReady' = FALSE
    /\ UNCHANGED <<form, servicesLoading, countriesLoading, pricesLoading, listVars>>
-----------------------------------------------------------------------------
\* The page after its first read of the draft (DraftSync has that read, and the
\* reads that come late), when the settings of its provider are asked for.
Init ==
    /\ form \in Drafts
    /\ keyed \in SUBSET Providers /\ configured = {}
    /\ settingsLoading = TRUE /\ saving = FALSE /\ catalogReady = FALSE
    /\ servicesLoading = FALSE /\ countriesLoading = FALSE /\ pricesLoading = FALSE
    /\ services = Blank /\ countries = Blank /\ prices = Blank
    /\ calls = {[Call("mount", form) EXCEPT !.fresh = {"settings"}]}
    /\ stranded = FALSE /\ actions = 0 /\ faults = 0 /\ lates = 0

Act == actions < MaxActions /\ actions' = actions + 1 /\ UNCHANGED <<faults, lates>>

\* Mutant: the flags of the requests that are given up stay.
PickProviderKeepsFlags(p) ==
    /\ Act /\ ~saving /\ p # form.provider
    /\ LET f == [provider |-> p, service |-> None, country |-> None, offer |-> None] IN
       /\ form' = f
       /\ calls' = Moved(calls, Counters)
                     \cup {[Call("provider", f) EXCEPT !.fresh = {"settings"}]}
    /\ settingsLoading' = TRUE /\ catalogReady' = FALSE
    /\ services' = Blank /\ countries' = Blank /\ prices' = Blank
    /\ stranded' = FALSE
    /\ UNCHANGED <<keyed, configured, saving, servicesLoading, countriesLoading,
                   pricesLoading>>

\* handleSMSProviderChange: every request in flight is given up, every list and
\* selection dropped, and the provider's settings are asked for.
PickProvider(p) ==
    /\ Act /\ ~saving /\ p # form.provider
    /\ LET f == [provider |-> p, service |-> None, country |-> None, offer |-> None] IN
       /\ form' = f
       /\ calls' = Moved(calls, Counters)
                     \cup {[Call("provider", f) EXCEPT !.fresh = {"settings"}]}
    /\ settingsLoading' = TRUE
    /\ servicesLoading' = FALSE /\ countriesLoading' = FALSE /\ pricesLoading' = FALSE
    /\ catalogReady' = FALSE
    /\ services' = Blank /\ countries' = Blank /\ prices' = Blank
    /\ stranded' = FALSE
    /\ UNCHANGED <<keyed, configured, saving>>

\* The selects and the button are disabled in these states.
CanPickService == Ready /\ ~saving /\ ~servicesLoading
CanPickCountry == form.service # None /\ ~saving /\ ~servicesLoading
CanPickOffer == form.country # None /\ ~saving /\ ~servicesLoading /\ ~pricesLoading

\* handleServiceChange.
PickService(s) ==
    /\ Act /\ CanPickService /\ s # form.service
    /\ LET f == [form EXCEPT !.service = s] IN
       \/ /\ s \in services.items
          /\ AskCountries(Call("service", f), f, {"restore", "action"})
          /\ catalogReady' = FALSE
       \/ /\ s = None
          /\ form' = [f EXCEPT !.country = None, !.offer = None]
          /\ calls' = Moved(calls, {"restore", "action", "countries", "prices"})
          /\ countries' = Blank /\ prices' = Blank
          /\ countriesLoading' = FALSE /\ pricesLoading' = FALSE
          /\ catalogReady' = TRUE
    /\ UNCHANGED <<keyed, configured, settingsLoading, saving, servicesLoading, services,
                   stranded>>

\* Mutant: the old prices stay until the new ones are there.
PickCountryKeepsPrices(n) ==
    /\ Act /\ CanPickCountry /\ n # form.country
    /\ LET f == [form EXCEPT !.country = n, !.offer = None] IN
       /\ form' = f /\ UNCHANGED prices
       /\ \/ /\ n \in countries.items
             /\ AskPrices(Call("country", f), {"restore", "action"})
             /\ catalogReady' = FALSE
          \/ /\ n = None
             /\ calls' = Moved(calls, {"restore", "action", "prices"})
             /\ pricesLoading' = FALSE /\ catalogReady' = TRUE
    /\ UNCHANGED <<keyed, configured, settingsLoading, saving, servicesLoading,
                   countriesLoading, services, countries, stranded>>

\* handleCountryChange.
PickCountry(n) ==
    /\ Act /\ CanPickCountry /\ n # form.country
    /\ LET f == [form EXCEPT !.country = n, !.offer = None] IN
       /\ form' = f /\ prices' = Blank
       /\ \/ /\ n \in countries.items
             /\ AskPrices(Call("country", f), {"restore", "action"})
             /\ catalogReady' = FALSE
          \/ /\ n = None
             /\ calls' = Moved(calls, {"restore", "action", "prices"})
             /\ pricesLoading' = FALSE /\ catalogReady' = TRUE
    /\ UNCHANGED <<keyed, configured, settingsLoading, saving, servicesLoading,
                   countriesLoading, services, countries, stranded>>

\* handlePriceChange, for any offer of the list (those out of stock are disabled).
PickOffer(o) ==
    /\ Act /\ CanPickOffer /\ o # form.offer /\ o \in Choice(prices.items)
    /\ form' = [form EXCEPT !.offer = o]
    /\ calls' = Moved(calls, {"restore", "action"})
    /\ UNCHANGED <<keyed, configured, flagVars, saving, catalogReady, listVars, stranded>>

\* refreshPrices; `draft` holds the selection to find again.
Refresh ==
    /\ Act /\ CanPickOffer
    /\ catalogReady' = FALSE
    /\ AskPrices(Call("refresh", form), {"action"})
    /\ UNCHANGED <<form, keyed, configured, settingsLoading, saving, servicesLoading,
                   countriesLoading, listVars, stranded>>

\* saveSettings: the API key goes to the server.
Save ==
    /\ Act /\ ~saving /\ saving' = TRUE
    /\ calls' = calls \cup {[Call("save", form) EXCEPT !.at = "put"]}
    /\ UNCHANGED <<form, keyed, configured, flagVars, catalogReady, listVars, stranded>>

\* The draft is read late (scheduleBatchDraftLoadRetry): it replaces the form,
\* its provider included, and the catalog follows if that one is configured.
Late(draft) ==
    /\ lates < MaxLate /\ lates' = lates + 1 /\ UNCHANGED <<actions, faults>>
    /\ stranded' = (stranded \/ draft.provider # form.provider \/ ~Ready)
    /\ \/ draft.provider \in configured /\ AskRestore(Call("late", draft), draft)
       \/ /\ draft.provider \notin configured /\ form' = draft
          /\ UNCHANGED <<calls, saving, catalogReady, servicesLoading, countriesLoading,
                         pricesLoading, listVars>>
    /\ UNCHANGED <<keyed, configured, settingsLoading>>
-----------------------------------------------------------------------------
\* An answer is taken if the counter of its request has not moved and the form
\* still selects what it was asked for.
Holds(c, counter) == counter \in c.fresh /\ c.draft.provider = form.provider
CurrentCountries(c) == Holds(c, "countries") /\ c.draft.service = form.service
\* Mutant: any answer of the provider will do.
ProviderPrices(c) == c.draft.provider = form.provider
CurrentPrices(c) ==
    Holds(c, "prices") /\ c.draft.service = form.service /\ c.draft.country = form.country

Answered == UNCHANGED <<keyed, stranded, boundVars>>
Fails == faults < MaxFaults /\ faults' = faults + 1 /\ UNCHANGED <<keyed, stranded, actions, lates>>

\* saveSettings goes on to read the settings back.
PutAnswered(c) ==
    /\ c.at = "put" /\ keyed' = keyed \cup {c.draft.provider}
    /\ \/ c.draft.provider = form.provider /\ AskSettings(c) /\ UNCHANGED saving
       \/ c.draft.provider # form.provider /\ Return(c) /\ UNCHANGED settingsLoading
    /\ UNCHANGED <<catalogVars, configured, stranded, boundVars>>
PutFails(c) ==
    /\ c.at = "put" /\ faults < MaxFaults /\ faults' = faults + 1
    /\ keyed' \in {keyed, keyed \cup {c.draft.provider}}
    /\ Return(c)
    /\ UNCHANGED <<catalogVars, configured, settingsLoading, stranded, actions, lates>>

\* What follows loadSettings: the rest of onMounted, or the restore.
AfterSettings(c) ==
    \/ /\ c.op = "mount" /\ Await(c, "dashboard", c.draft, {}, {})
       /\ UNCHANGED <<catalogVars, saving>>
    \/ /\ c.op # "mount" /\ c.draft.provider # form.provider
       /\ Return(c) /\ UNCHANGED catalogVars
    \/ /\ c.op # "mount" /\ c.draft.provider = form.provider
       /\ IF form.provider \in configured'
            THEN AskRestore(c, IF c.op = "save" THEN form ELSE c.draft)
            ELSE Dropped(c)

\* Only the current request writes the settings, whatever follows.
SettingsAnswered(c) ==
    /\ c.at = "settings" /\ Answered
    /\ LET p == c.draft.provider IN
       \/ /\ Holds(c, "settings") /\ settingsLoading' = FALSE
          /\ configured' = IF p \in keyed THEN configured \cup {p} ELSE configured \ {p}
       \/ ~Holds(c, "settings") /\ UNCHANGED <<configured, settingsLoading>>
    /\ AfterSettings(c)
SettingsFail(c) ==
    /\ c.at = "settings" /\ Fails
    /\ settingsLoading' = (settingsLoading /\ ~Holds(c, "settings"))
    /\ UNCHANGED configured
    /\ AfterSettings(c)

\* onMounted after the dashboard: the startup draft is restored.
Mounted(c) ==
    /\ c.at = "dashboard" /\ Answered
    /\ \/ Ready /\ c.draft.provider = form.provider /\ AskRestore(c, c.draft)
       \/ Ready /\ c.draft.provider # form.provider /\ Return(c) /\ UNCHANGED catalogVars
       \/ ~Ready /\ Dropped(c)
    /\ UNCHANGED <<configured, settingsLoading>>
-----------------------------------------------------------------------------
\* Mutant: a restore that ends early leaves the catalog as it is.
FinishEarly(c, ready) == Return(c) /\ UNCHANGED catalogReady
\* finishBatchFormCatalogRestore.
Finish(c, ready) == Return(c) /\ catalogReady' = ready

\* loadServices, then the draft's service if it is still offered.
ServicesAnswered(c, items) ==
    /\ c.at = "services" /\ Answered
    /\ \/ ~Holds(c, "services") /\ Return(c) /\ UNCHANGED catalogVars
       \/ /\ Holds(c, "services")
          /\ services' = [of |-> ServicesOf(c.draft), items |-> items]
          /\ servicesLoading' = FALSE
          /\ \/ /\ c.draft.service \in items
                /\ AskCountries(c, [form EXCEPT !.service = c.draft.service], {})
                /\ UNCHANGED <<catalogReady, saving>>
             \/ /\ c.draft.service \notin items
                /\ form' = [form EXCEPT !.service = None, !.country = None, !.offer = None]
                /\ Finish(c, TRUE)
                /\ UNCHANGED <<countriesLoading, pricesLoading, countries, prices>>
    /\ UNCHANGED <<configured, settingsLoading>>
ServicesFail(c) ==
    /\ c.at = "services" /\ Fails
    /\ \/ ~Holds(c, "services") /\ Return(c) /\ UNCHANGED catalogVars
       \/ /\ Holds(c, "services") /\ services' = Blank /\ servicesLoading' = FALSE
          /\ form' = c.draft /\ Finish(c, FALSE)
          /\ UNCHANGED <<countriesLoading, pricesLoading, countries, prices>>
    /\ UNCHANGED <<configured, settingsLoading>>

\* What follows loadCountriesForCurrentService.  `loaded` is what it returned.
Restoring(c) == c.op \notin {"service", "country", "refresh"}
AfterAction(c, loaded) ==
    /\ Return(c)
    /\ catalogReady' = IF Holds(c, "action") THEN loaded ELSE catalogReady
    /\ UNCHANGED <<form, pricesLoading, prices>>
AfterCountries(c, loaded) ==
    \/ c.op = "service" /\ AfterAction(c, loaded)
    \/ /\ Restoring(c) /\ ~Holds(c, "restore")
       /\ Return(c) /\ UNCHANGED <<form, catalogReady, pricesLoading, prices>>
    \/ /\ Restoring(c) /\ Holds(c, "restore") /\ ~loaded
       /\ form' = [form EXCEPT !.country = c.draft.country, !.offer = c.draft.offer]
       /\ Finish(c, FALSE) /\ UNCHANGED <<pricesLoading, prices>>
    \/ /\ Restoring(c) /\ Holds(c, "restore") /\ loaded
       /\ \/ /\ c.draft.country \in countries'.items
             /\ form' = [form EXCEPT !.country = c.draft.country, !.offer = None]
             /\ AskPrices(c, {}) /\ prices' = Blank
             /\ UNCHANGED <<catalogReady, saving>>
          \/ /\ c.draft.country \notin countries'.items
             /\ form' = [form EXCEPT !.country = None]
             /\ Finish(c, TRUE) /\ UNCHANGED <<pricesLoading, prices>>

CountriesAnswered(c, items) ==
    /\ c.at = "countries" /\ Answered
    /\ countriesLoading' = (countriesLoading /\ ~Holds(c, "countries"))
    /\ countries' = IF CurrentCountries(c) THEN [of |-> CountriesOf(c.draft), items |-> items]
                                           ELSE countries
    /\ AfterCountries(c, CurrentCountries(c))
    /\ UNCHANGED <<configured, settingsLoading, servicesLoading, services>>
CountriesFail(c) ==
    /\ c.at = "countries" /\ Fails
    /\ countriesLoading' = (countriesLoading /\ ~Holds(c, "countries"))
    /\ AfterCountries(c, FALSE)
    /\ UNCHANGED <<configured, settingsLoading, servicesLoading, services, countries>>

\* What follows loadPrices: refreshPrices finds its selection again or drops
\* it, and the restore selects the draft's offer if it is still there (by its
\* quotation, or by its exact key alone if the draft has no snapshot of its price).
Found(o, items) == IF o \in items THEN o ELSE None
AfterPrices(c, loaded) ==
    /\ \/ /\ c.op = "country" /\ form' = form
          /\ catalogReady' = IF Holds(c, "action") THEN loaded ELSE catalogReady
       \/ /\ c.op = "refresh"
          /\ form' = IF loaded /\ c.draft.offer # None
                       THEN [form EXCEPT !.offer =
                                 Found(c.draft.offer, prices.items \cap prices'.items)]
                       ELSE form
          /\ catalogReady' = IF Holds(c, "action") /\ CountriesOf(c.draft) = CountriesOf(form)
                                  /\ c.draft.country = form.country
                               THEN loaded ELSE catalogReady
       \/ /\ Restoring(c) /\ ~Holds(c, "restore") /\ UNCHANGED <<form, catalogReady>>
       \/ /\ Restoring(c) /\ Holds(c, "restore")
          /\ form' = [form EXCEPT !.offer = IF loaded THEN Found(c.draft.offer, prices'.items)
                                                      ELSE c.draft.offer]
          /\ catalogReady' = loaded
    /\ Return(c)

PricesAnswered(c, items) ==
    /\ c.at = "prices" /\ Answered
    /\ pricesLoading' = (pricesLoading /\ ~Holds(c, "prices"))
    /\ prices' = IF CurrentPrices(c) THEN [of |-> PricesOf(c.draft), items |-> items] ELSE prices
    /\ AfterPrices(c, CurrentPrices(c))
    /\ UNCHANGED <<configured, settingsLoading, servicesLoading, countriesLoading, services,
                   countries>>
PricesFail(c) ==
    /\ c.at = "prices" /\ Fails
    /\ pricesLoading' = (pricesLoading /\ ~Holds(c, "prices"))
    /\ AfterPrices(c, FALSE)
    /\ UNCHANGED <<configured, settingsLoading, servicesLoading, countriesLoading, listVars>>
-----------------------------------------------------------------------------
User ==
    \/ \E p \in Providers : PickProvider(p)
    \/ \E s \in Choice(Services) : PickService(s)
    \/ \E n \in Choice(Countries) : PickCountry(n)
    \/ \E o \in Choice(Offers) : PickOffer(o)
    \/ Refresh \/ Save
Answer(c) ==
    \/ PutAnswered(c) \/ SettingsAnswered(c) \/ Mounted(c)
    \/ \E items \in SUBSET Services : ServicesAnswered(c, items)
    \/ \E items \in SUBSET Countries : CountriesAnswered(c, items)
    \/ \E items \in SUBSET Offers : PricesAnswered(c, items)
Fault(c) ==
    \/ PutFails(c) \/ SettingsFail(c) \/ ServicesFail(c) \/ CountriesFail(c) \/ PricesFail(c)

Next ==
    \/ User
    \/ \E d \in Drafts : Late(d)
    \/ \E c \in calls : Answer(c) \/ Fault(c)

Spec == Init /\ [][Next]_vars
\* Every request is answered or fails.
FairSpec == Spec /\ WF_vars(\E c \in calls : Answer(c))
-----------------------------------------------------------------------------
(* Properties *)

\* startBatch goes ahead, apart from the batch that may be running.
\* activeBatchLoading lasts until onMounted has its dashboard.
CanStart ==
    /\ \A c \in calls : c.op # "mount" \/ c.at \notin {"settings", "dashboard"}
    /\ Ready /\ ~saving /\ ~servicesLoading /\ catalogReady /\ ~pricesLoading
    /\ form.service # None /\ form.country # None
    /\ form.offer \in prices.items

\* An order carries a quotation of the provider, service and country it is for:
\* whatever was picked, refreshed, restored or read late, and in whatever order
\* the lists came back.
OfferIsCurrent == CanStart => prices.of = PricesOf(form)

\* Countries and prices on show belong to what is selected, and services to the
\* provider, unless a late draft replaced the selections under them.
ListsBelong ==
    stranded \/ ( /\ services # Blank => services.of = ServicesOf(form)
                  /\ countries # Blank => countries.of = CountriesOf(form)
                  /\ prices # Blank => prices.of = PricesOf(form) )

\* A list shows that it is loading exactly while the request that will fill it
\* is out: no flag outlives its request, and no request that counts is hidden.
Loads(counter) == \E c \in calls : c.at = counter /\ Holds(c, counter)
LoadingIsReal ==
    stranded \/ ( /\ settingsLoading <=> Loads("settings")
                  /\ servicesLoading <=> Loads("services")
                  /\ countriesLoading <=> Loads("countries")
                  /\ pricesLoading <=> Loads("prices") )

\* What the form shows is what was asked for, and it waits only for what is out.
FormIsHonest == ListsBelong /\ LoadingIsReal

\* When the user stops and every request is answered, the catalog of a
\* configured provider is ready and settingsSaving is over: no restore is left
\* half done by the handlers that interrupt one another.
CatalogSettles ==
    <>[](/\ calls = {} /\ ~saving
         /\ (Ready /\ faults = 0 /\ ~stranded) => catalogReady)
=============================================================================
