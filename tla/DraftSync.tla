----------------------------- MODULE DraftSync -----------------------------
(***************************************************************************)
(* The workbench page's batch form and its copy on the server (App.vue):   *)
(* the draft read when the page opens and read again until it has been     *)
(* read once, the edits saved after a quiet half second, one PUT at a time *)
(* with a retry timer, the keepalive PUT of a page that is going away, and *)
(* the link to /hero-sms, which waits for the save.                        *)
(*                                                                         *)
(* The page is single-threaded: an edit, a timer, an answer, 'online' or   *)
(* 'pagehide' runs with all its continuations up to the next await as one  *)
(* step.  A draft is named by its signature, what normalizeBatchForm makes *)
(* of the form.  Edit is every change of a watched field, by the user or   *)
(* by the catalog.  A page that is gone does not come back; opening the    *)
(* workbench again is a new page on the same server.                       *)
(*                                                                         *)
(* A PUT whose answer does not come may have been applied, or may still be *)
(* under way: such PUTs, and those of closed pages, are `detached`.        *)
(***************************************************************************)
EXTENDS Naturals, FiniteSets

CONSTANTS
    Forms,       \* contents of the form
    Drafts,      \* the normalised ones, which is what the server keeps
    Normal,      \* normalizeBatchForm, on Forms
    Default,     \* DEFAULT_BATCH_FORM
    NoDraft,
    Asked,       \* a GET the server has not read for yet
    MaxEdits,    \* bound: changes of the form
    MaxFaults,   \* bound: requests that fail
    MaxOnlines,  \* bound: 'online' events
    MaxPages,    \* bound: pages opened
    MaxReloads   \* bound: GETs of one page after its first

ASSUME DraftAssumption ==
    /\ Drafts \subseteq Forms /\ Default \in Drafts
    /\ Normal \in [Forms -> Drafts]
    /\ \A d \in Drafts : Normal[d] = d
    /\ NoDraft \notin Forms /\ Asked \notin Forms /\ NoDraft # Asked
ASSUME DraftBounds ==
    /\ MaxEdits \in Nat /\ MaxFaults \in Nat /\ MaxOnlines \in Nat
    /\ MaxPages \in Nat \ {0} /\ MaxReloads \in Nat

Loads == 0..MaxReloads      \* 0 is the GET of onMounted
OneDraft == Drafts \cup {NoDraft}

VARIABLES
    page,        \* "open" or "closed"
    mount,       \* onMounted: "draft", "rest" (settings, batches, catalog), "done"
    form,        \* the batch form and smsProvider
    ready,       \* batchDraftPersistenceReady
    debounce,    \* batchDraftSaveTimer
    retryTimer,  \* batchDraftSaveRetryTimer
    loadTimer,   \* batchDraftLoadRetryTimer
    persisted,   \* lastPersistedBatchDraftSignature
    queued,      \* lastQueuedBatchDraftSignature
    pending,     \* pendingBatchDraft
    sending,     \* the draft of the PUT in flight (batchDraftSaveInFlight)
    applied,     \* the server has stored it
    load,        \* the GETs in flight
    leaving,     \* heroSmsNavigationPending: "no", "waiting", then "assigned"
    stored,      \* the draft on the server
    detached,    \* PUTs no page waits for, not yet applied
    foreign,     \* one of them was applied since this page last read or stored it
    reloaded,    \* a GET was answered when the draft had been read already
    entered,     \* drafts that came from a form the server's draft was read into
    edits, faults, onlines, pages

saveVars == <<retryTimer, persisted, queued, pending, sending, applied>>
timerVars == <<debounce, loadTimer>>
serverVars == <<stored, detached, foreign>>
boundVars == <<edits, faults, onlines, pages>>
vars == <<page, mount, form, ready, timerVars, saveVars, load, leaving,
          serverVars, reloaded, entered, boundVars>>

Open == page = "open"
\* currentBatchFormDraft, by its signature.
FormDraft == Normal[form]

TypeOK ==
    /\ page \in {"open", "closed"} /\ mount \in {"draft", "rest", "done"}
    /\ form \in Forms
    /\ ready \in BOOLEAN /\ debounce \in BOOLEAN /\ applied \in BOOLEAN
    /\ retryTimer \in BOOLEAN /\ loadTimer \in BOOLEAN
    /\ persisted \in OneDraft /\ queued \in OneDraft
    /\ pending \in OneDraft /\ sending \in OneDraft
    /\ load \in [Loads -> Drafts \cup {NoDraft, Asked}]
    /\ leaving \in {"no", "waiting", "assigned"}
    /\ stored \in Drafts /\ detached \subseteq Drafts
    /\ foreign \in BOOLEAN /\ reloaded \in BOOLEAN /\ entered \subseteq Drafts
    /\ edits \in 0..MaxEdits /\ faults \in 0..MaxFaults
    /\ onlines \in 0..MaxOnlines /\ pages \in 0..MaxPages
-----------------------------------------------------------------------------
\* A new page asks for the draft; nothing is saved before it has been read.
Fresh ==
    /\ page = "open" /\ mount = "draft" /\ form = Default /\ ready = FALSE
    /\ debounce = FALSE /\ retryTimer = FALSE /\ loadTimer = FALSE
    /\ persisted = NoDraft /\ queued = NoDraft
    /\ pending = NoDraft /\ sending = NoDraft /\ applied = FALSE
    /\ load = [l \in Loads |-> IF l = 0 THEN Asked ELSE NoDraft]
    /\ leaving = "no" /\ foreign = FALSE /\ reloaded = FALSE

Init ==
    /\ Fresh
    /\ stored \in Drafts /\ detached = {} /\ entered = {stored}
    /\ edits = 0 /\ faults = 0 /\ onlines = 0 /\ pages = 1

\* The same, as the next state of a page opened again.
Opened ==
    /\ page' = "open" /\ mount' = "draft" /\ form' = Default /\ ready' = FALSE
    /\ debounce' = FALSE /\ retryTimer' = FALSE /\ loadTimer' = FALSE
    /\ persisted' = NoDraft /\ queued' = NoDraft
    /\ pending' = NoDraft /\ sending' = NoDraft /\ applied' = FALSE
    /\ load' = [l \in Loads |-> IF l = 0 THEN Asked ELSE NoDraft]
    /\ leaving' = "no" /\ foreign' = FALSE /\ reloaded' = FALSE

\* flushBatchDraftSave, with `draft` pending: joins the PUT in flight, or
\* starts one in place of the retry timer.
Flush(draft) ==
    \/ (~ready \/ sending # NoDraft) /\ UNCHANGED <<sending, applied, retryTimer>>
    \/ ready /\ sending = NoDraft
       /\ sending' = draft /\ applied' = FALSE /\ retryTimer' = FALSE

IsPersisted(draft) == draft = persisted /\ pending = NoDraft
IsQueued(draft) == draft = queued /\ pending # NoDraft

\* Mutant: the signature alone decides, whatever is waiting to be saved.
EnqueueBySignature(draft) ==
    \/ draft \in {persisted, queued} /\ UNCHANGED saveVars
    \/ /\ draft \notin {persisted, queued}
       /\ queued' = draft /\ pending' = draft /\ Flush(draft) /\ UNCHANGED persisted

\* enqueueBatchDraftSave.
Enqueue(draft) ==
    \/ IsPersisted(draft) /\ UNCHANGED saveVars
    \/ IsQueued(draft) /\ Flush(pending) /\ UNCHANGED <<persisted, queued, pending>>
    \/ /\ ~IsPersisted(draft) /\ ~IsQueued(draft)
       /\ queued' = draft /\ pending' = draft /\ Flush(draft) /\ UNCHANGED persisted

\* Mutant: a page may save what it never read.
ScheduleAlways == debounce' = TRUE

\* scheduleBatchDraftSave.
Schedule == debounce' = (debounce \/ ready)
-----------------------------------------------------------------------------
\* A watched field changes.
Edit(f) ==
    /\ Open /\ edits < MaxEdits /\ f # form
    /\ form' = f /\ edits' = edits + 1 /\ Schedule
    /\ entered' = IF ready THEN entered \cup {Normal[f]} ELSE entered
    /\ UNCHANGED <<page, mount, ready, loadTimer, saveVars, load, leaving,
                   serverVars, reloaded, faults, onlines, pages>>

\* Half a second without another edit.
Debounced ==
    /\ Open /\ debounce /\ debounce' = FALSE
    /\ Enqueue(FormDraft)
    /\ UNCHANGED <<page, mount, form, ready, loadTimer, load, leaving, serverVars,
                   reloaded, entered, boundVars>>

RetrySave ==
    /\ Open /\ retryTimer /\ pending # NoDraft
    /\ Flush(pending) /\ retryTimer' = FALSE
    /\ UNCHANGED <<page, mount, form, ready, timerVars, persisted, queued, pending,
                   load, leaving, serverVars, reloaded, entered, boundVars>>

\* PUT /api/settings/batch-draft reaches the database.
Store ==
    /\ sending # NoDraft /\ ~applied
    /\ stored' = sending /\ applied' = TRUE /\ foreign' = FALSE
    /\ UNCHANGED <<page, mount, form, ready, timerVars, retryTimer, persisted, queued,
                   pending, sending, load, leaving, detached, reloaded, entered,
                   boundVars>>

\* Mutant: what was queued meanwhile is taken for saved.
SavedAll ==
    /\ Open /\ sending # NoDraft /\ applied
    /\ persisted' = sending /\ pending' = NoDraft /\ queued' = sending /\ sending' = NoDraft
    /\ leaving' = IF leaving = "waiting" THEN "assigned" ELSE leaving
    /\ applied' = FALSE
    /\ UNCHANGED <<page, mount, form, ready, timerVars, retryTimer, load, serverVars,
                   reloaded, entered, boundVars>>

\* Mutant: the newest draft is taken for the one that was sent.
SavedNewest ==
    /\ Open /\ sending # NoDraft /\ applied
    /\ persisted' = pending /\ pending' = NoDraft /\ queued' = pending /\ sending' = NoDraft
    /\ leaving' = IF leaving = "waiting" THEN "assigned" ELSE leaving
    /\ applied' = FALSE
    /\ UNCHANGED <<page, mount, form, ready, timerVars, retryTimer, load, serverVars,
                   reloaded, entered, boundVars>>

\* The PUT succeeded.  What was queued meanwhile goes out at once; otherwise
\* a navigation that waits for the queue goes ahead.
Saved ==
    /\ Open /\ sending # NoDraft /\ applied
    /\ LET rest == IF pending = sending THEN NoDraft ELSE pending IN
       /\ persisted' = sending /\ pending' = rest
       /\ queued' = (IF rest = NoDraft THEN sending ELSE rest)
       /\ sending' = rest
       /\ leaving' = IF leaving = "waiting" /\ rest = NoDraft THEN "assigned" ELSE leaving
    /\ applied' = FALSE
    /\ UNCHANGED <<page, mount, form, ready, timerVars, retryTimer, load, serverVars,
                   reloaded, entered, boundVars>>

\* No answer, or an error: the draft stays pending, a navigation is given up,
\* and the server may have stored the draft or still be about to.
SaveFails ==
    /\ Open /\ sending # NoDraft /\ faults < MaxFaults
    /\ faults' = faults + 1
    /\ sending' = NoDraft /\ applied' = FALSE
    /\ retryTimer' = TRUE
    /\ leaving' = IF leaving = "waiting" THEN "no" ELSE leaving
    /\ detached' = detached \/ (~applied /\ detached' = detached \cup {sending})
    /\ UNCHANGED <<page, mount, form, ready, timerVars, persisted, queued, pending,
                   load, stored, foreign, reloaded, entered, edits, onlines, pages>>
-----------------------------------------------------------------------------
\* scheduleBatchDraftLoadRetry.
ScheduleLoad == loadTimer' = (loadTimer \/ ~ready)

\* GET /api/settings/batch-draft is read from the database.
Read(l) ==
    /\ load[l] = Asked /\ load' = [load EXCEPT ![l] = stored]
    /\ UNCHANGED <<page, mount, form, ready, timerVars, saveVars, leaving, serverVars,
                   reloaded, entered, boundVars>>

\* activateBatchDraftPersistence: the form becomes the draft.
Activate(d) ==
    /\ form' = d /\ persisted' = d /\ queued' = d
    /\ ready' = TRUE /\ debounce' = TRUE
    /\ reloaded' = (reloaded \/ ready) /\ foreign' = (foreign \/ stored # d)
    /\ UNCHANGED <<retryTimer, pending, sending, applied>>

Loaded(l) ==
    /\ Open /\ load[l] \in Drafts
    /\ Activate(load[l]) /\ load' = [load EXCEPT ![l] = NoDraft]
    /\ mount' = IF l = 0 THEN "rest" ELSE mount
    /\ UNCHANGED <<page, loadTimer, leaving, stored, detached, entered, boundVars>>

\* A retried read that fails asks for another; the first one leaves that to
\* the end of onMounted.
LoadFails(l) ==
    /\ Open /\ load[l] # NoDraft /\ faults < MaxFaults /\ faults' = faults + 1
    /\ load' = [load EXCEPT ![l] = NoDraft]
    /\ \/ l = 0 /\ mount' = "rest" /\ UNCHANGED loadTimer
       \/ l # 0 /\ UNCHANGED mount /\ ScheduleLoad
    /\ UNCHANGED <<page, form, ready, debounce, saveVars, leaving, serverVars, reloaded,
                   entered, edits, onlines, pages>>

RetryLoad(l) ==
    /\ Open /\ loadTimer /\ loadTimer' = FALSE
    /\ l # 0 /\ load[l] = NoDraft /\ load' = [load EXCEPT ![l] = Asked]
    /\ UNCHANGED <<page, mount, form, ready, debounce, saveVars, leaving, serverVars,
                   reloaded, entered, boundVars>>

\* The rest of onMounted.  A page whose first read failed reads again.
Mounted ==
    /\ Open /\ mount = "rest" /\ mount' = "done" /\ ScheduleLoad
    /\ UNCHANGED <<page, form, ready, debounce, saveVars, load, leaving, serverVars,
                   reloaded, entered, boundVars>>

\* handleBrowserOnline.
Online ==
    /\ Open /\ onlines < MaxOnlines /\ onlines' = onlines + 1
    /\ ScheduleLoad
    /\ \/ pending = NoDraft /\ UNCHANGED saveVars
       \/ pending # NoDraft /\ Flush(pending) /\ UNCHANGED <<persisted, queued, pending>>
    /\ UNCHANGED <<page, mount, form, ready, debounce, load, leaving, serverVars, reloaded,
                   entered, edits, faults, pages>>
-----------------------------------------------------------------------------
\* Mutant: nobody waits for the save.
OpenHeroSmsAtOnce ==
    /\ Open /\ leaving = "no" /\ debounce' = FALSE
    /\ UNCHANGED saveVars /\ leaving' = "assigned"
    /\ UNCHANGED <<page, mount, form, ready, loadTimer, load, serverVars, reloaded,
                   entered, boundVars>>

\* openHeroSmsPage: the form is queued first; with nothing left to save the
\* browser is sent on at once.
OpenHeroSms ==
    /\ Open /\ leaving = "no" /\ debounce' = FALSE
    /\ \/ ready /\ Enqueue(FormDraft)
       \/ ~ready /\ UNCHANGED saveVars
    /\ leaving' = IF pending' = NoDraft THEN "assigned" ELSE "waiting"
    /\ UNCHANGED <<page, mount, form, ready, loadTimer, load, serverVars, reloaded,
                   entered, boundVars>>

\* What the keepalive PUT of a closing page carries: the form, unless it is
\* saved or an ordinary PUT is in flight.
LastWord ==
    IF ~ready \/ sending # NoDraft \/ IsPersisted(FormDraft) THEN {}
    ELSE IF IsQueued(FormDraft) THEN {pending} ELSE {FormDraft}

\* 'pagehide': the tab closes, reloads, or follows an assigned location.
PageHide ==
    /\ Open /\ page' = "closed"
    /\ \/ detached' = detached \cup LastWord
       \/ ~applied /\ detached' = (detached \cup LastWord \cup {sending}) \ {NoDraft}
    /\ debounce' = FALSE /\ loadTimer' = FALSE /\ retryTimer' = FALSE
    /\ sending' = NoDraft /\ applied' = FALSE
    /\ load' = [l \in Loads |-> NoDraft]
    /\ UNCHANGED <<mount, form, ready, persisted, queued, pending, leaving, stored,
                   foreign, reloaded, entered, boundVars>>

\* The workbench is opened again.
Reopen ==
    /\ ~Open /\ pages < MaxPages /\ pages' = pages + 1
    /\ Opened
    /\ UNCHANGED <<stored, detached, entered, edits, faults, onlines>>

\* A PUT no page waits for is stored after all.
StoreDetached(d) ==
    /\ d \in detached /\ detached' = detached \ {d}
    /\ stored' = d /\ foreign' = (foreign \/ ready)
    /\ UNCHANGED <<page, mount, form, ready, timerVars, saveVars, load, leaving, reloaded,
                   entered, boundVars>>
-----------------------------------------------------------------------------
User == \/ \E f \in Forms : Edit(f)
        \/ OpenHeroSms \/ PageHide \/ Reopen
Page == Debounced \/ RetrySave \/ Saved \/ Mounted \/ Online
        \/ \E l \in Loads : Loaded(l) \/ RetryLoad(l)
Server == Store \/ (\E l \in Loads : Read(l)) \/ (\E d \in Drafts : StoreDetached(d))
Fault == SaveFails \/ \E l \in Loads : LoadFails(l)

Next == User \/ Page \/ Server \/ Fault

Spec == Init /\ [][Next]_vars

\* Timers fire, a request is answered or fails, onMounted goes on.
Fairness ==
    /\ WF_vars(Debounced) /\ WF_vars(RetrySave) /\ WF_vars(Store) /\ WF_vars(Saved)
    /\ WF_vars(Mounted)
    /\ \A l \in Loads : WF_vars(Read(l)) /\ WF_vars(Loaded(l))
    /\ WF_vars(\E l \in Loads : RetryLoad(l))
FairSpec == Spec /\ Fairness
-----------------------------------------------------------------------------
(* Properties *)

\* What the page saved last, or is about to.
Last == IF pending = NoDraft THEN persisted ELSE pending

\* No edit is forgotten: on a page that has read the draft, a form that is not
\* the one last saved or waiting to be saved has its half second running, and
\* what waits is in flight or has its retry timer, whatever was edited, saved,
\* refused or requested by 'online' and by the /hero-sms link in between.
NothingForgotten ==
    (Open /\ ready) =>
        /\ reloaded \/ debounce \/ FormDraft = Last
        /\ pending # NoDraft => sending # NoDraft \/ retryTimer

\* What the page takes for saved is on the server, unless a PUT that no page
\* waits for was stored after it.
PersistedIsStored ==
    (Open /\ ready /\ pending = NoDraft /\ ~foreign) => stored = persisted

\* The server only ever holds a draft it held before or a form that was edited
\* after it had been read: a page that could not read the draft, however often
\* it retries, edits, closes and goes to /hero-sms, never writes its defaults
\* over it.
OnlyLoadedFormsStored == stored \in entered /\ detached \subseteq entered

\* The link to /hero-sms is followed only when the form is on the server, or
\* was edited again while the page waited, or another page's PUT came last.
LeavesSaved ==
    [][ (ready /\ leaving # "assigned" /\ leaving' = "assigned")
          => debounce' \/ foreign' \/ reloaded' \/ stored' = Normal[form'] ]_vars

\* A page that stays open reads the draft in the end, and what it shows ends up
\* on the server, through failures, retries and reloads of the draft.
DraftSettles ==
    <>[](Open => ready /\ (foreign \/ reloaded \/ stored = FormDraft))

\* README.md:87: the complete draft is restored after a reload.  With nothing
\* lost on the network, the server ends up with the form the page was left with.
DraftSurvivesClose ==
    (~Open /\ ready /\ detached = {} /\ faults = 0) => stored = FormDraft
=============================================================================
