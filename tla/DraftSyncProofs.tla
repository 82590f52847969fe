-------------------------- MODULE DraftSyncProofs --------------------------
(***************************************************************************)
(* Proofs about DraftSync for any forms, faults, pages and edits: what the *)
(* page has not saved is on its way, and the server's draft always stems   *)
(* from a form that was read from it.                                      *)
(***************************************************************************)
EXTENDS DraftSync, TLAPS

\* What waits is in flight or has its timer, and only on a page that is ready.
Waiting ==
    /\ ~ready => pending = NoDraft /\ sending = NoDraft /\ ~retryTimer /\ ~debounce
    /\ ~Open => sending = NoDraft
    /\ sending # NoDraft => pending # NoDraft /\ ~retryTimer
    /\ applied => sending # NoDraft
    /\ (Open /\ pending # NoDraft) => sending # NoDraft \/ retryTimer
\* The signature queued last is that of what waits, or else of what is saved.
Queued ==
    /\ ready => persisted \in Drafts /\ queued \in Drafts
    /\ (ready /\ ~reloaded) => queued = Last
    /\ (Open /\ ready) => reloaded \/ debounce \/ FormDraft = Last
\* The server has what the page takes for saved, or another page's PUT.
Kept ==
    /\ (applied /\ ~foreign) => stored = sending
    /\ PersistedIsStored
\* Every draft anywhere comes from a form the server's draft was read into.
Sourced ==
    /\ stored \in entered /\ detached \subseteq entered
    /\ pending \in entered \cup {NoDraft} /\ sending \in entered \cup {NoDraft}
    /\ \A l \in Loads : load[l] \in entered \cup {NoDraft, Asked}
    /\ ready => FormDraft \in entered

IInv == TypeOK /\ Waiting /\ Queued /\ Kept /\ Sourced
-----------------------------------------------------------------------------
(* The constants *)

LEMMA Names == /\ NoDraft \notin Drafts /\ Asked \notin Drafts /\ NoDraft # Asked
               /\ Drafts \subseteq Forms /\ Default \in Drafts
               /\ \A f \in Forms : Normal[f] \in Drafts
               /\ \A d \in Drafts : Normal[d] = d
  BY DraftAssumption

LEMMA Initially == Init => IInv
  <1> SUFFICES ASSUME Init PROVE IInv
    OBVIOUS
  <1>0. 0 \in Loads /\ \A l \in Loads : load[l] \in {Asked, NoDraft}
    BY DraftBounds DEF Init, Fresh, Loads
  <1>a. load = [l \in Loads |-> IF l = 0 THEN Asked ELSE NoDraft]
    BY DEF Init, Fresh
  <1>b. load \in [Loads -> Drafts \cup {NoDraft, Asked}]
    BY <1>a
  <1>c. /\ page = "open" /\ mount = "draft" /\ form = Default /\ leaving = "no"
        /\ persisted = NoDraft /\ queued = NoDraft /\ pending = NoDraft /\ sending = NoDraft
        /\ stored \in Drafts /\ detached = {} /\ entered = {stored}
        /\ edits = 0 /\ faults = 0 /\ onlines = 0 /\ pages = 1
    BY DEF Init, Fresh
  <1>d. /\ ready \in BOOLEAN /\ debounce \in BOOLEAN /\ applied \in BOOLEAN
        /\ retryTimer \in BOOLEAN /\ loadTimer \in BOOLEAN
        /\ foreign \in BOOLEAN /\ reloaded \in BOOLEAN
    BY DEF Init, Fresh
  <1>e. edits \in 0..MaxEdits /\ faults \in 0..MaxFaults /\ onlines \in 0..MaxOnlines /\ pages \in 0..MaxPages
    BY <1>c, DraftBounds
  <1>1. TypeOK
    BY <1>b, <1>c, <1>d, <1>e, Names DEF TypeOK, OneDraft
  <1>2. Waiting
    BY DEF Init, Fresh, Waiting, Open
  <1>3. Queued
    BY DEF Init, Fresh, Queued
  <1>4. Kept
    BY DEF Init, Fresh, Kept, PersistedIsStored
  <1>5. Sourced
    BY <1>0 DEF Init, Fresh, Sourced
  <1> QED BY <1>1, <1>2, <1>3, <1>4, <1>5 DEF IInv
-----------------------------------------------------------------------------
(* Saving *)

\* Queueing a draft of the page: it is the last one, and it is on its way.
LEMMA Enqueueing ==
    ASSUME IInv, Open, ready, NEW d \in entered, Enqueue(d),
           UNCHANGED <<page, ready, foreign, reloaded, stored>>
    PROVE  /\ retryTimer' \in BOOLEAN /\ applied' \in BOOLEAN
           /\ persisted' = persisted /\ queued' \in Drafts
           /\ pending' \in entered \cup {NoDraft} /\ sending' \in entered \cup {NoDraft}
           /\ sending' # NoDraft => pending' # NoDraft /\ ~retryTimer'
           /\ applied' => sending' # NoDraft
           /\ pending' # NoDraft => sending' # NoDraft \/ retryTimer'
           /\ ~reloaded => queued' = Last' /\ d = Last'
           /\ (applied' /\ ~foreign) => stored = sending'
           /\ pending' = NoDraft => pending = NoDraft
  <1>0. d \in Drafts /\ d # NoDraft /\ entered \subseteq Drafts /\ NoDraft \notin Drafts
    BY Names DEF IInv, TypeOK
  <1>1. /\ retryTimer \in BOOLEAN /\ applied \in BOOLEAN
        /\ queued \in Drafts
        /\ pending \in entered \cup {NoDraft} /\ sending \in entered \cup {NoDraft}
        /\ sending # NoDraft => pending # NoDraft /\ ~retryTimer
        /\ applied => sending # NoDraft
        /\ pending # NoDraft => sending # NoDraft \/ retryTimer
        /\ ~reloaded => queued = Last
        /\ (applied /\ ~foreign) => stored = sending
    BY DEF IInv, TypeOK, Waiting, Queued, Kept, Sourced
  <1>2. CASE IsPersisted(d) /\ UNCHANGED saveVars
    <2>1. UNCHANGED <<retryTimer, persisted, queued, pending, sending, applied>> /\ Last' = Last
      BY <1>2 DEF saveVars, Last
    <2>2. d = Last
      BY <1>2 DEF IsPersisted, Last
    <2> QED BY <1>1, <2>1, <2>2
  <1>3. CASE IsQueued(d) /\ Flush(pending) /\ UNCHANGED <<persisted, queued, pending>>
    <2>1. Last' = Last /\ Last = pending /\ d = queued /\ pending # NoDraft
      BY <1>3 DEF IsQueued, Last
    <2>2. CASE sending # NoDraft /\ UNCHANGED <<sending, applied, retryTimer>>
      BY <1>1, <1>3, <2>1, <2>2
    <2>3. CASE sending' = pending /\ applied' = FALSE /\ retryTimer' = FALSE
      BY <1>1, <1>3, <2>1, <2>3
    <2> QED BY <1>3, <2>2, <2>3 DEF Flush
  <1>4. CASE ~IsPersisted(d) /\ ~IsQueued(d) /\ queued' = d /\ pending' = d /\ Flush(d) /\ UNCHANGED persisted
    <2>1. Last' = d
      BY <1>0, <1>4 DEF Last
    <2>2. CASE sending # NoDraft /\ UNCHANGED <<sending, applied, retryTimer>>
      BY <1>0, <1>1, <1>4, <2>1, <2>2
    <2>3. CASE sending' = d /\ applied' = FALSE /\ retryTimer' = FALSE
      BY <1>0, <1>1, <1>4, <2>1, <2>3
    <2> QED BY <1>4, <2>2, <2>3 DEF Flush
  <1> QED BY <1>2, <1>3, <1>4 DEF Enqueue
-----------------------------------------------------------------------------
(* Types *)

LEMMA EnqueueTypes ==
    ASSUME TypeOK, NEW d \in Drafts, Enqueue(d)
    PROVE  /\ retryTimer' \in BOOLEAN /\ applied' \in BOOLEAN
           /\ persisted' \in OneDraft /\ queued' \in OneDraft
           /\ pending' \in OneDraft /\ sending' \in OneDraft
  <1>1. CASE UNCHANGED saveVars
    BY <1>1 DEF TypeOK, saveVars
  <1>2. CASE Flush(pending) /\ UNCHANGED <<persisted, queued, pending>>
    BY <1>2 DEF TypeOK, Flush
  <1>3. CASE queued' = d /\ pending' = d /\ Flush(d) /\ UNCHANGED persisted
    BY <1>3 DEF TypeOK, Flush, OneDraft
  <1> QED BY <1>1, <1>2, <1>3 DEF Enqueue

LEMMA PageTypes ==
    ASSUME TypeOK, Debounced \/ RetrySave \/ Saved \/ Mounted \/ Online
    PROVE  TypeOK'
  <1>1. FormDraft \in Drafts
    BY Names DEF TypeOK, FormDraft
  <1>2. CASE Debounced
    BY <1>1, <1>2, EnqueueTypes DEF Debounced, TypeOK, serverVars, boundVars
  <1>3. CASE RetrySave
    BY <1>3 DEF RetrySave, Flush, TypeOK, timerVars, serverVars, boundVars
  <1>4. CASE Saved
    BY <1>4 DEF Saved, TypeOK, OneDraft, timerVars, serverVars, boundVars
  <1>5. CASE Mounted
    BY <1>5 DEF Mounted, ScheduleLoad, TypeOK, saveVars, serverVars, boundVars
  <1>6. CASE Online
    <2>1. onlines' \in 0..MaxOnlines
      BY <1>6, DraftBounds DEF Online, TypeOK
    <2>2. loadTimer' \in BOOLEAN
      BY <1>6 DEF Online, ScheduleLoad
    <2> QED BY <1>6, <2>1, <2>2 DEF Online, Flush, TypeOK, saveVars, serverVars
  <1> QED BY <1>2, <1>3, <1>4, <1>5, <1>6

LEMMA UserTypes ==
    ASSUME TypeOK, User
    PROVE  TypeOK'
  <1>1. FormDraft \in Drafts
    BY Names DEF TypeOK, FormDraft
  <1>2. ASSUME NEW f \in Forms, Edit(f) PROVE TypeOK'
    <2>1. edits' \in 0..MaxEdits
      BY <1>2, DraftBounds DEF Edit, TypeOK
    <2>2. entered' \subseteq Drafts
      BY <1>2, Names DEF Edit, TypeOK
    <2>3. debounce' \in BOOLEAN
      BY <1>2 DEF Edit, Schedule
    <2> QED BY <1>2, <2>1, <2>2, <2>3 DEF Edit, TypeOK, saveVars, serverVars
  <1>3. CASE OpenHeroSms
    <2>1. CASE Enqueue(FormDraft)
      BY <1>1, <1>3, <2>1, EnqueueTypes DEF OpenHeroSms, TypeOK, serverVars, boundVars
    <2>2. CASE UNCHANGED saveVars
      BY <1>3, <2>2 DEF OpenHeroSms, TypeOK, saveVars, serverVars, boundVars
    <2> QED BY <1>3, <2>1, <2>2 DEF OpenHeroSms
  <1>4. CASE PageHide
    <2>1. LastWord \subseteq OneDraft \ {NoDraft} \/ LastWord \subseteq OneDraft
      BY <1>1 DEF LastWord, TypeOK, OneDraft
    <2>2. LastWord \subseteq Drafts
      BY <1>1, Names DEF LastWord, TypeOK, OneDraft, IsQueued
    <2>3. detached' \subseteq Drafts
      BY <1>4, <2>2 DEF PageHide, TypeOK, OneDraft
    <2>4. load' \in [Loads -> Drafts \cup {NoDraft, Asked}]
      BY <1>4 DEF PageHide
    <2> QED BY <1>4, <2>3, <2>4 DEF PageHide, TypeOK, OneDraft, boundVars
  <1>5. CASE Reopen
    <2>1. load' = [l \in Loads |-> IF l = 0 THEN Asked ELSE NoDraft]
      BY <1>5 DEF Reopen, Opened
    <2>2. load' \in [Loads -> Drafts \cup {NoDraft, Asked}]
      BY <2>1
    <2>3. pages' \in 0..MaxPages
      BY <1>5, DraftBounds DEF Reopen, TypeOK
    <2> QED BY <1>5, <2>2, <2>3, Names DEF Reopen, Opened, TypeOK, OneDraft
  <1> QED BY <1>2, <1>3, <1>4, <1>5 DEF User

LEMMA LoadTypes ==
    ASSUME TypeOK, NEW l \in Loads, Loaded(l) \/ RetryLoad(l) \/ Read(l) \/ LoadFails(l)
    PROVE  TypeOK'
  <1>1. CASE Loaded(l)
    BY <1>1, Names DEF Loaded, Activate, TypeOK, OneDraft, boundVars
  <1>2. CASE RetryLoad(l)
    BY <1>2 DEF RetryLoad, TypeOK, saveVars, serverVars, boundVars
  <1>3. CASE Read(l)
    BY <1>3 DEF Read, TypeOK, timerVars, saveVars, serverVars, boundVars
  <1>4. CASE LoadFails(l)
    <2>1. faults' \in 0..MaxFaults
      BY <1>4, DraftBounds DEF LoadFails, TypeOK
    <2>2. loadTimer' \in BOOLEAN /\ mount' \in {"draft", "rest", "done"}
      BY <1>4 DEF LoadFails, ScheduleLoad, TypeOK
    <2> QED BY <1>4, <2>1, <2>2 DEF LoadFails, TypeOK, saveVars, serverVars
  <1> QED BY <1>1, <1>2, <1>3, <1>4

LEMMA ServerTypes ==
    ASSUME TypeOK, Store \/ SaveFails \/ \E d \in Drafts : StoreDetached(d)
    PROVE  TypeOK'
  <1>1. CASE Store
    <2>1. stored' \in Drafts /\ applied' \in BOOLEAN /\ foreign' \in BOOLEAN
      BY <1>1 DEF Store, TypeOK, OneDraft
    <2> QED BY <1>1, <2>1 DEF Store, TypeOK, timerVars, boundVars
  <1>2. CASE SaveFails
    <2>1. faults' \in 0..MaxFaults
      BY <1>2, DraftBounds DEF SaveFails, TypeOK
    <2>2. detached' \subseteq Drafts
      BY <1>2 DEF SaveFails, TypeOK, OneDraft
    <2> QED BY <1>2, <2>1, <2>2 DEF SaveFails, TypeOK, OneDraft, timerVars
  <1>3. ASSUME NEW d \in Drafts, StoreDetached(d) PROVE TypeOK'
    <2>1. foreign' \in BOOLEAN
      BY <1>3 DEF StoreDetached
    <2> QED BY <1>3, <2>1 DEF StoreDetached, TypeOK, timerVars, saveVars, boundVars
  <1> QED BY <1>1, <1>2, <1>3

LEMMA TypeStep == TypeOK /\ [Next]_vars => TypeOK'
  <1> SUFFICES ASSUME TypeOK, [Next]_vars PROVE TypeOK'
    OBVIOUS
  <1>1. CASE UNCHANGED vars
    BY <1>1 DEF vars, TypeOK, timerVars, saveVars, serverVars, boundVars
  <1> QED BY <1>1, PageTypes, UserTypes, LoadTypes, ServerTypes DEF Next, User, Page, Server, Fault
-----------------------------------------------------------------------------
(* The invariant *)

\* A step that leaves the form, what waits and the server alone.
LEMMA Undisturbed ==
    ASSUME IInv,
           UNCHANGED <<page, form, ready, debounce, saveVars, serverVars, reloaded, entered>>,
           \A l \in Loads : load'[l] \in entered \cup {NoDraft, Asked}
    PROVE  Waiting' /\ Queued' /\ Kept' /\ Sourced'
  <1>1. Waiting'
    BY DEF IInv, Waiting, Open, saveVars
  <1>2. Queued'
    BY DEF IInv, Queued, Open, Last, FormDraft, saveVars
  <1>3. Kept'
    BY DEF IInv, Kept, PersistedIsStored, Open, saveVars, serverVars
  <1>4. Sourced'
    BY DEF IInv, Sourced, FormDraft, saveVars, serverVars
  <1> QED BY <1>1, <1>2, <1>3, <1>4

LEMMA Quiet ==
    ASSUME IInv,
           Mounted \/ \E l \in Loads : RetryLoad(l) \/ Read(l) \/ LoadFails(l)
    PROVE  Waiting' /\ Queued' /\ Kept' /\ Sourced'
  <1>0. /\ stored \in entered /\ \A k \in Loads : load[k] \in entered \cup {NoDraft, Asked}
        /\ load \in [Loads -> Drafts \cup {NoDraft, Asked}]
    BY DEF IInv, Sourced, TypeOK
  <1>1. CASE Mounted
    BY <1>0, <1>1, Undisturbed DEF Mounted
  <1>2. ASSUME NEW l \in Loads, RetryLoad(l) PROVE Waiting' /\ Queued' /\ Kept' /\ Sourced'
    BY <1>0, <1>2, Undisturbed DEF RetryLoad
  <1>3. ASSUME NEW l \in Loads, Read(l) PROVE Waiting' /\ Queued' /\ Kept' /\ Sourced'
    BY <1>0, <1>3, Undisturbed DEF Read, timerVars
  <1>4. ASSUME NEW l \in Loads, LoadFails(l) PROVE Waiting' /\ Queued' /\ Kept' /\ Sourced'
    BY <1>0, <1>4, Undisturbed DEF LoadFails
  <1> QED BY <1>1, <1>2, <1>3, <1>4

LEMMA Editing ==
    ASSUME IInv, NEW f \in Forms, Edit(f)
    PROVE  Waiting' /\ Queued' /\ Kept' /\ Sourced'
  <1>0. /\ UNCHANGED <<page, ready, retryTimer, persisted, queued, pending, sending, applied,
                       load, stored, detached, foreign, reloaded>>
        /\ form' = f /\ entered \subseteq entered' /\ (ready => Normal[f] \in entered')
    BY DEF Edit, saveVars, serverVars
  <1>1. (ready => debounce') /\ (~ready => debounce' = debounce)
    BY DEF Edit, Schedule, IInv, TypeOK
  <1>2. Waiting'
    BY <1>0, <1>1 DEF IInv, Waiting, Open
  <1>3. Queued'
    BY <1>0, <1>1 DEF IInv, Queued, Open, Last
  <1>4. Kept'
    BY <1>0 DEF IInv, Kept, PersistedIsStored, Open
  <1>5. Sourced'
    BY <1>0 DEF IInv, Sourced, FormDraft
  <1> QED BY <1>2, <1>3, <1>4, <1>5

\* The debounce ends, or the link to /hero-sms ends it.
LEMMA Queueing ==
    ASSUME IInv, Debounced \/ OpenHeroSms
    PROVE  Waiting' /\ Queued' /\ Kept' /\ Sourced'
  <1>0. /\ UNCHANGED <<page, form, ready, load, stored, detached, foreign, reloaded, entered>>
        /\ Open /\ Open' /\ ~debounce' /\ FormDraft' = FormDraft
    BY DEF Debounced, OpenHeroSms, Open, FormDraft, serverVars
  <1>1. CASE ready /\ Enqueue(FormDraft)
    <2>0. FormDraft \in entered
      BY <1>1 DEF IInv, Sourced
    <2>1. /\ persisted' = persisted /\ queued' \in Drafts
          /\ pending' \in entered \cup {NoDraft} /\ sending' \in entered \cup {NoDraft}
          /\ sending' # NoDraft => pending' # NoDraft /\ ~retryTimer'
          /\ applied' => sending' # NoDraft
          /\ pending' # NoDraft => sending' # NoDraft \/ retryTimer'
          /\ ~reloaded => queued' = Last' /\ FormDraft = Last'
          /\ (applied' /\ ~foreign) => stored = sending'
          /\ pending' = NoDraft => pending = NoDraft
      BY <1>0, <1>1, <2>0, Enqueueing
    <2>2. Waiting'
      BY <1>0, <1>1, <2>1 DEF Waiting
    <2>3. Queued'
      BY <1>0, <1>1, <2>1 DEF IInv, Queued
    <2>4. Kept'
      BY <1>0, <1>1, <2>1 DEF IInv, Kept, PersistedIsStored
    <2>5. Sourced'
      BY <1>0, <1>1, <2>1 DEF IInv, Sourced
    <2> QED BY <2>2, <2>3, <2>4, <2>5
  <1>2. CASE ~ready /\ UNCHANGED saveVars
    <2>1. Waiting'
      BY <1>0, <1>2 DEF IInv, Waiting, saveVars
    <2>2. Queued'
      BY <1>0, <1>2 DEF Queued
    <2>3. Kept'
      BY <1>0, <1>2 DEF IInv, Kept, PersistedIsStored, saveVars
    <2>4. Sourced'
      BY <1>0, <1>2 DEF IInv, Sourced, saveVars
    <2> QED BY <2>1, <2>2, <2>3, <2>4
  <1>3. Debounced => ready
    BY DEF IInv, Waiting, Debounced
  <1> QED BY <1>1, <1>2, <1>3 DEF Debounced, OpenHeroSms

\* The retry timer, or 'online', starts the PUT of what waits.
LEMMA Retrying ==
    ASSUME IInv, RetrySave \/ Online
    PROVE  Waiting' /\ Queued' /\ Kept' /\ Sourced'
  <1>1. CASE pending = NoDraft
    <2>1. Online /\ UNCHANGED saveVars
      BY <1>1 DEF RetrySave, Online
    <2> QED BY <2>1, Undisturbed DEF Online, IInv, Sourced
  <1>2. CASE pending # NoDraft
    <2>0. /\ UNCHANGED <<page, form, ready, debounce, load, persisted, queued, pending, stored,
                         detached, foreign, reloaded, entered>>
          /\ Open /\ Open' /\ FormDraft' = FormDraft /\ Last' = Last
      BY <1>2 DEF RetrySave, Online, Open, FormDraft, Last, timerVars, serverVars, saveVars
    <2>1. ready /\ pending \in entered
      BY <1>2 DEF IInv, Waiting, Sourced
    <2>2. CASE sending = NoDraft /\ sending' = pending /\ ~applied' /\ ~retryTimer'
      <3>1. Waiting'
        BY <1>2, <2>0, <2>1, <2>2 DEF Waiting
      <3>2. Queued' /\ Sourced'
        BY <2>0, <2>1, <2>2 DEF IInv, Queued, Sourced
      <3>3. Kept'
        BY <1>2, <2>0, <2>2 DEF Kept, PersistedIsStored
      <3> QED BY <3>1, <3>2, <3>3
    <2>3. CASE sending # NoDraft /\ UNCHANGED <<sending, applied, retryTimer>>
      BY <2>0, <2>3, Undisturbed DEF IInv, Sourced, saveVars, serverVars
    <2>4. RetrySave => sending = NoDraft
      BY DEF RetrySave, IInv, Waiting
    <2> QED BY <1>2, <2>1, <2>2, <2>3, <2>4 DEF RetrySave, Online, Flush
  <1> QED BY <1>1, <1>2

\* The PUT in flight is stored, answered, or fails.
LEMMA Answering ==
    ASSUME IInv, Store \/ Saved \/ SaveFails
    PROVE  Waiting' /\ Queued' /\ Kept' /\ Sourced'
  <1>0. /\ UNCHANGED <<page, form, ready, debounce, load, reloaded, entered>>
        /\ FormDraft' = FormDraft /\ sending # NoDraft /\ pending # NoDraft
        /\ ready /\ Open /\ Open' /\ ~retryTimer /\ Last = pending
        /\ sending \in entered /\ sending \in Drafts /\ pending \in entered /\ pending \in Drafts
    BY Names DEF Store, Saved, SaveFails, IInv, Waiting, Sourced, TypeOK, OneDraft, Open, FormDraft, Last, timerVars
  <1>1. CASE Store
    <2>1. /\ UNCHANGED <<retryTimer, persisted, queued, pending, sending, detached>>
          /\ stored' = sending /\ applied' = TRUE /\ Last' = Last
      BY <1>1 DEF Store, Last
    <2>2. Waiting'
      BY <1>0, <2>1 DEF Waiting
    <2>3. Queued' /\ Sourced'
      BY <1>0, <2>1 DEF IInv, Queued, Sourced
    <2>4. Kept'
      BY <1>0, <2>1 DEF Kept, PersistedIsStored
    <2> QED BY <2>2, <2>3, <2>4
  <1>2. CASE Saved
    <2>1. /\ UNCHANGED <<retryTimer, stored, detached, foreign>> /\ persisted' = sending /\ applied
          /\ applied' = FALSE
      BY <1>2 DEF Saved, serverVars
    <2>2. CASE pending = sending
      <3>1. pending' = NoDraft /\ queued' = sending /\ sending' = NoDraft /\ Last' = Last
        BY <1>0, <1>2, <2>1, <2>2 DEF Saved, Last
      <3>2. Waiting'
        BY <1>0, <2>1, <3>1 DEF Waiting
      <3>3. Queued' /\ Sourced'
        BY <1>0, <2>1, <2>2, <3>1 DEF IInv, Queued, Sourced
      <3>4. Kept'
        BY <1>0, <2>1, <2>2, <3>1 DEF IInv, Kept, PersistedIsStored
      <3> QED BY <3>2, <3>3, <3>4
    <2>3. CASE pending # sending
      <3>1. pending' = pending /\ queued' = pending /\ sending' = pending /\ Last' = Last
        BY <1>0, <1>2, <2>1, <2>3 DEF Saved, Last
      <3>2. Waiting'
        BY <1>0, <2>1, <3>1 DEF Waiting
      <3>3. Queued' /\ Sourced'
        BY <1>0, <2>1, <3>1 DEF IInv, Queued, Sourced
      <3>4. Kept'
        BY <1>0, <2>1, <3>1 DEF Kept, PersistedIsStored
      <3> QED BY <3>2, <3>3, <3>4
    <2> QED BY <2>2, <2>3
  <1>3. CASE SaveFails
    <2>1. /\ UNCHANGED <<persisted, queued, pending, stored, foreign>>
          /\ sending' = NoDraft /\ applied' = FALSE /\ retryTimer' = TRUE /\ Last' = Last
          /\ detached' \subseteq detached \cup {sending}
      BY <1>3 DEF SaveFails, Last
    <2>2. Waiting'
      BY <1>0, <2>1 DEF Waiting
    <2>3. Queued' /\ Sourced'
      BY <1>0, <2>1 DEF IInv, Queued, Sourced
    <2>4. Kept'
      BY <1>0, <2>1 DEF Kept, PersistedIsStored
    <2> QED BY <2>2, <2>3, <2>4
  <1> QED BY <1>1, <1>2, <1>3

\* The server's draft becomes the form.
LEMMA Loading ==
    ASSUME IInv, NEW l \in Loads, Loaded(l)
    PROVE  Waiting' /\ Queued' /\ Kept' /\ Sourced'
  <1> DEFINE d == load[l]
  <1>0. /\ d \in Drafts /\ d \in entered /\ Normal[d] = d
        /\ pending = NoDraft \/ ready
    BY Names DEF Loaded, IInv, Sourced, Waiting
  <1>1. /\ UNCHANGED <<page, retryTimer, pending, sending, applied, stored, detached, entered>>
        /\ form' = d /\ persisted' = d /\ queued' = d /\ ready' = TRUE /\ debounce' = TRUE
        /\ Open /\ Open' /\ load' = [load EXCEPT ![l] = NoDraft]
    BY DEF Loaded, Activate, Open
  <1>2. (ready => reloaded') /\ (~foreign' => ~foreign /\ stored = d)
    BY DEF Loaded, Activate
  <1>3. Waiting'
    BY <1>1 DEF IInv, Waiting
  <1>4. Queued'
    BY <1>0, <1>1, <1>2 DEF Queued, Last
  <1>5. Kept'
    BY <1>1, <1>2 DEF IInv, Kept, PersistedIsStored
  <1>6. \A k \in Loads : load'[k] \in entered \cup {NoDraft, Asked}
    BY <1>1 DEF IInv, Sourced, TypeOK
  <1>7. Sourced'
    BY <1>0, <1>1, <1>6 DEF IInv, Sourced, FormDraft
  <1> QED BY <1>3, <1>4, <1>5, <1>7

\* The page goes away, with its last PUT.
LEMMA Closing ==
    ASSUME IInv, PageHide
    PROVE  Waiting' /\ Queued' /\ Kept' /\ Sourced'
  <1>1. /\ UNCHANGED <<form, ready, persisted, queued, pending, stored, foreign, reloaded, entered>>
        /\ debounce' = FALSE /\ retryTimer' = FALSE /\ sending' = NoDraft /\ applied' = FALSE
        /\ ~Open' /\ Last' = Last /\ FormDraft' = FormDraft
        /\ \A l \in Loads : load'[l] = NoDraft
    BY DEF PageHide, Open, Last, FormDraft
  <1>2. LastWord \subseteq entered
    BY DEF LastWord, IInv, Sourced, IsQueued
  <1>3. detached' \subseteq entered
    BY <1>2 DEF PageHide, IInv, Sourced
  <1>4. Waiting'
    BY <1>1 DEF IInv, Waiting
  <1>5. Queued' /\ Kept'
    BY <1>1 DEF IInv, Queued, Kept, PersistedIsStored
  <1>6. Sourced'
    BY <1>1, <1>3 DEF IInv, Sourced
  <1> QED BY <1>4, <1>5, <1>6

LEMMA Reopening ==
    ASSUME IInv, Reopen
    PROVE  Waiting' /\ Queued' /\ Kept' /\ Sourced'
  <1>1. /\ ready' = FALSE /\ debounce' = FALSE /\ retryTimer' = FALSE /\ page' = "open"
        /\ pending' = NoDraft /\ sending' = NoDraft /\ applied' = FALSE
        /\ UNCHANGED <<stored, detached, entered>>
    BY DEF Reopen, Opened
  <1>2. \A l \in Loads : load'[l] \in {Asked, NoDraft}
    BY DEF Reopen, Opened
  <1>3. Waiting' /\ Queued' /\ Kept'
    BY <1>1 DEF Waiting, Queued, Kept, PersistedIsStored, Open
  <1>4. Sourced'
    BY <1>1, <1>2 DEF IInv, Sourced
  <1> QED BY <1>3, <1>4

\* A PUT no page waits for is stored: on a page that has read the draft, the
\* server's is foreign from then on.
LEMMA Overtaking ==
    ASSUME IInv, NEW d \in Drafts, StoreDetached(d)
    PROVE  Waiting' /\ Queued' /\ Kept' /\ Sourced'
  <1>1. /\ UNCHANGED <<page, form, ready, debounce, retryTimer, persisted, queued, pending,
                       sending, applied, load, reloaded, entered>>
        /\ stored' = d /\ d \in detached /\ detached' \subseteq detached
        /\ FormDraft' = FormDraft /\ Last' = Last /\ Open' = Open
    BY DEF StoreDetached, FormDraft, Last, Open, timerVars, saveVars
  <1>2. ready => foreign'
    BY DEF StoreDetached
  <1>3. Waiting'
    BY <1>1 DEF IInv, Waiting
  <1>4. Queued'
    BY <1>1 DEF IInv, Queued
  <1>5. Kept'
    BY <1>1, <1>2 DEF IInv, Waiting, Kept, PersistedIsStored
  <1>6. Sourced'
    BY <1>1 DEF IInv, Sourced
  <1> QED BY <1>3, <1>4, <1>5, <1>6

LEMMA Inductive == IInv /\ [Next]_vars => IInv'
  <1> SUFFICES ASSUME IInv, [Next]_vars PROVE IInv'
    OBVIOUS
  <1>1. TypeOK'
    BY TypeStep DEF IInv
  <1>2. CASE UNCHANGED vars
    BY <1>1, <1>2, Undisturbed DEF IInv, Sourced, vars, timerVars
  <1>3. CASE User
    BY <1>1, <1>3, Editing, Queueing, Closing, Reopening DEF User, IInv
  <1>4. CASE Page
    BY <1>1, <1>4, Queueing, Retrying, Answering, Quiet, Loading DEF Page, IInv
  <1>5. CASE Server
    BY <1>1, <1>5, Answering, Quiet, Overtaking DEF Server, IInv
  <1>6. CASE Fault
    BY <1>1, <1>6, Answering, Quiet DEF Fault, IInv
  <1> QED BY <1>2, <1>3, <1>4, <1>5, <1>6 DEF Next
-----------------------------------------------------------------------------
(* Theorems *)

\* Everything the proofs rest on holds in every state: types, what waits, what
\* was queued last, what the server keeps, and where its drafts come from.
THEOREM DraftInvariance == Spec => []IInv
  <1>1. IInv /\ [Next]_vars => IInv'
    BY Inductive
  <1> QED BY Initially, <1>1, PTL DEF Spec

\* No edit is forgotten, for any number of edits, failures, 'online' events
\* and reads of the draft (App.vue, enqueueBatchDraftSave and
\* flushBatchDraftSave).
THEOREM EditsAreKept == Spec => []NothingForgotten
  <1>1. IInv => NothingForgotten
    BY DEF IInv, Waiting, Queued, NothingForgotten
  <1> QED BY DraftInvariance, <1>1, PTL

\* What the page takes for saved is what the server has, unless a PUT no page
\* waits for came last.
THEOREM SavedIsStored == Spec => []PersistedIsStored
  <1>1. IInv => PersistedIsStored
    BY DEF IInv, Kept
  <1> QED BY DraftInvariance, <1>1, PTL

\* A page that could not read the draft never writes its defaults over it, for
\* any number of pages, reads, retries and failures.
THEOREM DefaultsAreNotStored == Spec => []OnlyLoadedFormsStored
  <1>1. IInv => OnlyLoadedFormsStored
    BY DEF IInv, Sourced, OnlyLoadedFormsStored
  <1> QED BY DraftInvariance, <1>1, PTL

\* A step that sends the browser on leaves nothing to save.
LEMMA NothingLeft ==
    ASSUME IInv, [Next]_vars, leaving # "assigned", leaving' = "assigned"
    PROVE  /\ pending' = NoDraft
           /\ UNCHANGED <<ready, form>> /\ Open'
  <1>1. CASE OpenHeroSms
    BY <1>1 DEF OpenHeroSms, Open
  <1>2. CASE Saved
    <2>1. (IF pending = sending THEN NoDraft ELSE pending) = NoDraft
      BY <1>2 DEF Saved
    <2>2. pending' = NoDraft
      BY <1>2, <2>1 DEF Saved
    <2> QED BY <1>2, <2>2 DEF Saved, Open
  <1>3. CASE Debounced \/ RetrySave \/ Mounted \/ Online \/ Store \/ SaveFails \/ PageHide \/ Reopen
    BY <1>3 DEF Debounced, RetrySave, Mounted, Online, Store, SaveFails, PageHide, Reopen, Opened
  <1>4. ASSUME NEW f \in Forms, Edit(f) PROVE FALSE
    BY <1>4 DEF Edit
  <1>5. ASSUME NEW l \in Loads, Loaded(l) \/ RetryLoad(l) \/ Read(l) \/ LoadFails(l) PROVE FALSE
    BY <1>5 DEF Loaded, RetryLoad, Read, LoadFails
  <1>6. ASSUME NEW d \in Drafts, StoreDetached(d) PROVE FALSE
    BY <1>6 DEF StoreDetached
  <1>7. CASE UNCHANGED vars
    BY <1>7 DEF vars
  <1> QED
    BY <1>1, <1>2, <1>3, <1>4, <1>5, <1>6, <1>7 DEF Next, User, Page, Server, Fault

\* The link to /hero-sms does not outrun the save: the browser is sent on only
\* when the form is on the server, is being edited again, or another page's
\* PUT came last (App.vue, openHeroSmsPage and saveBatchDraft).
THEOREM LinkWaits == Spec => LeavesSaved
  <1>1. ASSUME IInv, IInv', [Next]_vars,
               ready, leaving # "assigned", leaving' = "assigned"
        PROVE  debounce' \/ foreign' \/ reloaded' \/ stored' = Normal[form']
    <2>1. pending' = NoDraft /\ ready' /\ Open'
      BY <1>1, NothingLeft
    <2>2. reloaded' \/ debounce' \/ FormDraft' = persisted'
      BY <1>1, <2>1 DEF IInv, Queued, Last
    <2>3. ~foreign' => stored' = persisted'
      BY <1>1, <2>1 DEF IInv, Kept, PersistedIsStored
    <2> QED BY <2>2, <2>3 DEF FormDraft
  <1>2. IInv /\ IInv' /\ [Next]_vars
          => [ (ready /\ leaving # "assigned" /\ leaving' = "assigned")
               => debounce' \/ foreign' \/ reloaded' \/ stored' = Normal[form'] ]_vars
    BY <1>1
  <1> QED BY DraftInvariance, <1>2, PTL DEF Spec, LeavesSaved
=============================================================================
