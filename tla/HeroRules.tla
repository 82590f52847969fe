------------------------------ MODULE HeroRules ------------------------------
(***************************************************************************)
(* What the /hero-sms page works out by itself and the server works out    *)
(* again: the buttons of a task, whose refund window closes while the page *)
(* looks at an older answer, and the offer that belongs to what the form   *)
(* asks for.                                                               *)
(***************************************************************************)
EXTENDS Naturals, FiniteSets, FiniteSetsExt

CONSTANTS
    MaxTime,        \* bound: instants, 1..MaxTime
    RefundWindow,   \* cfg.RefundWindow
    HeroCountries,
    HeroHours       \* rental durations on sale

Unset == 9999                 \* durationHours === undefined

ASSUME HeroRulesAssumption ==
    MaxTime \in Nat /\ RefundWindow \in Nat /\ IsFiniteSet(HeroCountries)
    /\ HeroHours \subseteq Nat \ {0, Unset} /\ IsFiniteSet(HeroHours)

Instants == 1..MaxTime
NoTime == 0
Earlier(a, b) == IF a < b THEN a ELSE b
-----------------------------------------------------------------------------
(* The refund of a task *)

\* Mutant: the window of a number does not end with the number.
RefundableAlways(bought, expires) == bought + RefundWindow
\* processPurchase.
RefundableUntil(bought, expires) == Earlier(bought + RefundWindow, expires)

NumberTerminal == {"stopped", "refunded", "settled", "expired"}   \* HeroSMSTaskStatus.Terminal
\* A task without a number keeps the token of a purchase that may still have bought one.
Unbought ==
    {t \in [number : {FALSE}, token : BOOLEAN, refund : {""}, until : {NoTime},
            expires : {NoTime}, messages : {0}, stop : BOOLEAN,
            status : {"waiting_number", "purchasing", "purchase_unknown", "stopped"}] :
        /\ t.status = "waiting_number" => ~t.token
        /\ t.status \in {"purchasing", "purchase_unknown"} => t.token}
BoughtTasks(status, refunds) ==
    {[number |-> TRUE, token |-> TRUE, refund |-> refund, until |-> RefundableUntil(1, expires),
      expires |-> expires, messages |-> messages, stop |-> stop, status |-> status] :
         refund \in refunds, expires \in Instants, messages \in {0, 1}, stop \in BOOLEAN}
\* The tasks of HeroTask's model: a message makes an active number unavailable for refund.
NumberTasks ==
    Unbought
    \cup {t \in BoughtTasks("active", {"refundable", "unavailable"}) :
              t.messages > 0 => t.refund = "unavailable"}
    \cup BoughtTasks("settling", {"requested", "unavailable"})
    \cup BoughtTasks("refunded", {"refunded"}) \cup BoughtTasks("settled", {"settled"})
    \cup BoughtTasks("expired", {"unavailable", "settled"})

\* newHeroSMSTaskView at the instant `at`.
NumberView(t, at) ==
    LET expired == t.expires # NoTime /\ t.expires <= at
        running == t.status \notin NumberTerminal /\ ~expired
        refundable == /\ t.number /\ t.refund = "refundable" /\ t.messages = 0
                      /\ t.until # NoTime /\ at < t.until /\ running
        endable == running /\ ~t.stop /\ t.status # "settling" IN
    [task |-> t, running |-> running, refundable |-> refundable,
     start |-> t.status = "stopped" /\ ~t.number /\ ~t.token,
     stop |-> endable /\ ~t.number,
     cancel |-> endable /\ t.number /\ refundable,
     settle |-> endable /\ t.number /\ ~refundable]

\* Mutant: the last instant of the window still counts.
PassedLate(end, at) == end < at
\* heroSmsCountdown.
Passed(end, at) == end <= at
\* heroSmsRefundCountdown.
RefundEligible(v, at) ==
    /\ v.task.number /\ v.task.messages = 0 /\ v.refundable
    /\ v.task.refund \notin {"requested", "refunded", "settled", "unavailable"}
    /\ v.task.until # NoTime => ~Passed(v.task.until, at)
\* The buttons of HeroSmsNumberTask.
ButtonsOf(v, at) ==
    (IF v.start THEN {"start"} ELSE {}) \cup (IF v.stop THEN {"stop"} ELSE {})
    \cup (IF v.cancel /\ RefundEligible(v, at) THEN {"cancel"} ELSE {})
    \cup (IF v.settle THEN {"settle"} ELSE {})

\* PrepareHeroSMSTaskSettlementOwned: what ending the number now asks for.
Refunds(t, at) ==
    /\ t.status = "active" /\ t.messages = 0 /\ t.refund = "refundable"
    /\ t.until # NoTime /\ t.until > at /\ (t.expires = NoTime \/ t.expires > at)

\* restartHeroSMSTaskSQL.
Restarts(t) == t.status = "stopped" /\ ~t.number /\ ~t.token

\* However long the page has shown a task that did not change since, it offers a
\* refund exactly while the server would still ask for one, an end without refund
\* only when it would not, and a new start if the server takes it; when the answer
\* is new, a task that runs has exactly one way to end.
RefundAgrees ==
    \A t \in NumberTasks : \A at \in Instants : \A later \in at..MaxTime :
        LET v == NumberView(t, at) IN
        /\ ("cancel" \in ButtonsOf(v, later)) = (v.cancel /\ Refunds(t, later))
        /\ "settle" \in ButtonsOf(v, later) => ~Refunds(t, later)
        /\ ("start" \in ButtonsOf(v, later)) = Restarts(t)
        /\ (v.running /\ ~t.stop /\ t.status # "settling") => Cardinality(ButtonsOf(v, at)) = 1
-----------------------------------------------------------------------------
(* The offer of a selection *)

AnyType == ""                 \* verificationType === ''
Types == {"sms", "call"}
Offer(country, type, hours) == [country |-> country, type |-> type, hours |-> hours]
Rentals == {Offer(c, "sms", h) : c \in HeroCountries, h \in HeroHours}

\* exactHeroSMSOfferRequests.  One without stock comes back all the same.
Exact(country, type, hours) ==
    IF hours \notin {0, Unset} THEN {Offer(country, "sms", hours)}
    ELSE {Offer(country, t, 0) : t \in IF type = AnyType THEN Types ELSE {type}}
\* getCatalog for a country, as normalizeHeroSmsCatalog reads it.
Catalog(rentals, country, type, hours) ==
    LET kept == IF type = "call" THEN {} ELSE rentals IN
    [offers |-> kept \cup Exact(country, type, hours),
     durations |-> {o.hours : o \in kept}]

\* Mutant: the offers of every country count.
FilteredByType(catalog, form) == {o \in catalog.offers : o.type = form.type}
\* filteredOffers.
Filtered(catalog, form) ==
    {o \in catalog.offers : o.country = form.country /\ o.type = form.type}
\* durationOptions, with heroSmsDurationChoices; they are sorted.
DurationOptions(catalog, form) ==
    LET offers == Filtered(catalog, form) IN
    IF form.type = "call" THEN {0}
    ELSE IF offers = {} THEN catalog.durations ELSE {o.hours : o \in offers}
\* ensureSelection.
EnsureSelection(catalog, form) ==
    LET typed == [form EXCEPT !.type = IF @ = AnyType THEN "sms" ELSE @]
        options == DurationOptions(catalog, typed) IN
    [typed EXCEPT !.hours = IF options = {} THEN Unset
                            ELSE IF @ \in options THEN @ ELSE Min(options)]
\* matchingOffer.
Matching(catalog, form) ==
    {o \in Filtered(catalog, form) : form.hours = Unset \/ o.hours = form.hours}
\* The request of createTasks.
Asked(form) == Offer(form.country, form.type, IF form.hours = Unset THEN 0 ELSE form.hours)

\* loadCatalog by onCountryChange, onVerificationChange and onDurationChange.
Load(rentals, form) ==
    LET catalog == Catalog(rentals, form.country, form.type, form.hours) IN
    [catalog |-> catalog, form |-> EnsureSelection(catalog, form)]
HeroForm(country, type, hours) == [country |-> country, type |-> type, hours |-> hours]
ShowsWhatItBuys(page) == Matching(page.catalog, page.form) = {Asked(page.form)}

\* Whatever is rented out where, once the catalogue is there for a country, then
\* a way to verify, then a duration of those on offer, the pick stands and the
\* price and stock on show are those of the very thing Start will buy.
OfferIsBought ==
    \A rentals \in SUBSET Rentals : \A c \in HeroCountries :
        LET first == Load(rentals, HeroForm(c, AnyType, Unset)) IN
        /\ ShowsWhatItBuys(first)
        /\ \A type \in Types :
              LET second == Load(rentals, HeroForm(c, type, Unset)) IN
              /\ second.form.type = type /\ ShowsWhatItBuys(second)
              /\ \A hours \in DurationOptions(second.catalog, second.form) :
                    LET third == Load(rentals, HeroForm(c, type, hours)) IN
                    third.form = HeroForm(c, type, hours) /\ ShowsWhatItBuys(third)
=============================================================================
