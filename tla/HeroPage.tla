------------------------------ MODULE HeroPage ------------------------------
(***************************************************************************)
(* The /hero-sms page's number tasks (HeroSmsPurchasePage.vue): a purchase *)
(* with its idempotency key, the buttons of a task, the paged list that is *)
(* read every few seconds, and the merge of whatever comes back into the   *)
(* list on show, against a server whose tasks go on meanwhile.             *)
(*                                                                         *)
(* A purchase buys one number (the code may create several rows in one     *)
(* transaction). A row's `stamp` is its updated_at in milliseconds, its    *)
(* `ver` the true order of its changes: two changes may share a stamp, and *)
(* one that waited for the row lock may have an earlier stamp than the one *)
(* it follows, since now() is the start of a transaction (`back`). The     *)
(* phase of a task is its status with stop_requested, and "doubtful" is a  *)
(* stopped one that kept the token of an unknown purchase.                 *)
(***************************************************************************)
EXTENDS Naturals, FiniteSets, FiniteSetsExt

CONSTANTS
    Inputs,        \* what the form may ask for
    MaxTasks,      \* bound: number tasks
    PageSize,      \* the limit of one list request (500)
    MaxUpdates,    \* bound: changes of tasks
    MaxLag,        \* bound: how far a change's stamp is behind the clock
    MaxMessages,   \* bound: messages of a task
    MaxPresses,    \* bound: purchases asked for
    MaxActions,    \* bound: buttons of tasks pressed
    MaxFaults,     \* bound: requests that fail
    None

Tasks == 1..MaxTasks
Keys == 1..MaxPresses
Phases == {"waiting", "leaving", "stopped", "doubtful", "active", "stopping", "over"}
Terminal == {"stopped", "doubtful", "over"}
Stamps == 0..MaxUpdates
Row == [ver : 1..MaxUpdates, stamp : Stamps, phase : Phases, messages : 0..MaxMessages,
        key : Keys, input : Inputs, intent : Keys, back : BOOLEAN]
View == [ver : 1..MaxUpdates, stamp : Stamps, phase : Phases, messages : 0..MaxMessages]

ASSUME HeroPageAssumption ==
    /\ MaxTasks \in Nat /\ PageSize \in Nat \ {0} /\ MaxUpdates \in Nat \ {0}
    /\ MaxLag \in Nat /\ MaxMessages \in Nat /\ MaxPresses \in Nat \ {0}
    /\ MaxActions \in Nat /\ MaxFaults \in Nat
    /\ None \notin Row /\ None \notin View

VARIABLES
    rows,        \* hero_sms_number_tasks, by creation
    updates,     \* changes so far, and the clock of the database
    shown,       \* tasks: what the page shows of each
    pending,     \* pendingPurchase
    keys,        \* idempotency keys created
    intent,      \* what the last press meant: a purchase, or one asked for again
    creating,    \* the request of startPurchase
    stray,       \* purchases the page gave up that the server may still receive
    acting,      \* actionBusy, and the request of runTaskAction
    list,        \* the request of refreshTasks
    begun,       \* the rows when refreshTasks began
    presses, actions, faults

serverVars == <<rows, updates>>
buyVars == <<pending, keys, intent, creating, stray, presses>>
listVars == <<list, begun>>
vars == <<serverVars, shown, buyVars, acting, listVars, actions, faults>>

Made == {t \in Tasks : rows[t] # None}
Views == [Tasks -> View \cup {None}]
Nothing == [t \in Tasks |-> None]
Only(t, v) == [Nothing EXCEPT ![t] = v]
NotBegun == [t \in Tasks |-> 0]
Idle == [at |-> "idle", cursor |-> 0, next |-> 0, page |-> Nothing, loaded |-> Nothing]

TypeOK ==
    /\ rows \in [Tasks -> Row \cup {None}] /\ updates \in 0..MaxUpdates
    /\ shown \in Views
    /\ pending = None \/ pending \in [input : Inputs, key : Keys]
    /\ keys \in 0..MaxPresses /\ intent \in 0..MaxPresses /\ presses \in 0..MaxPresses
    /\ creating = None \/ creating \in [input : Inputs, key : Keys, intent : Keys,
                                        at : {"sent", "answered", "refused"}, view : Views]
    /\ stray \subseteq [input : Inputs, key : Keys, intent : Keys]
    /\ acting \in [Tasks -> {None} \cup [verb : {"start", "stop"}, view : Views,
                                at : {"sent", "answered", "refused"}]]
    /\ list \in [at : {"idle", "sent", "rows", "answered"}, cursor : 0..MaxTasks,
                 next : 0..MaxTasks, page : Views, loaded : Views]
    /\ begun \in [Tasks -> 0..MaxUpdates]
    /\ actions \in 0..MaxActions /\ faults \in 0..MaxFaults
-----------------------------------------------------------------------------
(* The server *)

\* newHeroSMSTaskView; what a view offers is in HeroRules.
ViewOf(row) ==
    [ver |-> row.ver, stamp |-> row.stamp, phase |-> row.phase, messages |-> row.messages]

Tick == updates < MaxUpdates /\ updates' = updates + 1
AtBound == updates = MaxUpdates
\* The transaction of a change began at the clock, or before it waited.
Stampable == {s \in Stamps : s <= updates' /\ s + MaxLag >= updates'}
Change(t, phase, messages) ==
    /\ Tick
    /\ \E stamp \in Stampable :
          rows' = [rows EXCEPT ![t].ver = updates', ![t].stamp = stamp, ![t].phase = phase,
                               ![t].messages = messages,
                               ![t].back = @ \/ stamp < rows[t].stamp]
Becomes(t, phase) == Change(t, phase, rows[t].messages)

\* The worker gets a number, maybe after the task was told to stop or was given
\* up as doubtful; ends a task; or ends one it was told to stop.  What it writes
\* without changing the phase is left out: a message and a second stop move the
\* stamp of a phase that stays.
Advance(t) ==
    \/ rows[t].phase \in {"waiting", "doubtful"} /\ Becomes(t, "active")
    \/ rows[t].phase = "leaving" /\ \E p \in {"stopping", "stopped", "doubtful"} : Becomes(t, p)
    \/ rows[t].phase \in {"active", "stopping"} /\ Becomes(t, "over")

\* AppendHeroSMSTaskMessage.
Message(t) ==
    /\ rows[t].phase \in {"active", "stopping", "over"} /\ rows[t].messages < MaxMessages
    /\ Change(t, rows[t].phase, rows[t].messages + 1)

Work ==
    /\ \E t \in Made : Advance(t) \/ Message(t)
    /\ UNCHANGED <<shown, buyVars, acting, listVars, actions, faults>>

\* Mutant: the submission's id is not looked up.
Fresh(r) == {}
\* CreateHeroSMSTasks: the tasks of a submission that is there already.
Existing(r) == {t \in Made : rows[t].key = r.key}
Create(r) ==
    \/ /\ Existing(r) = {} /\ Cardinality(Made) < MaxTasks
       /\ Tick
       /\ rows' = [rows EXCEPT ![Cardinality(Made) + 1] =
                      [ver |-> updates', stamp |-> updates', phase |-> "waiting", messages |-> 0,
                       key |-> r.key, input |-> r.input, intent |-> r.intent, back |-> FALSE]]
    \/ Existing(r) # {} /\ UNCHANGED serverVars

ServeCreate ==
    /\ creating # None /\ creating.at = "sent"
    /\ \/ /\ Create(creating)
          /\ \A t \in Existing(creating) : rows[t].input = creating.input
          /\ creating' = [creating EXCEPT !.at = "answered", !.view =
                 [t \in Tasks |-> IF rows'[t] # None /\ rows'[t].key = creating.key
                                    THEN ViewOf(rows'[t]) ELSE None]]
       \/ /\ \/ \E t \in Existing(creating) : rows[t].input # creating.input
             \/ Existing(creating) = {} /\ (Cardinality(Made) = MaxTasks \/ AtBound)
          /\ creating' = [creating EXCEPT !.at = "refused"] /\ UNCHANGED serverVars
    /\ UNCHANGED <<shown, pending, keys, intent, stray, presses, acting, listVars, actions,
                   faults>>
ServeStray(r) ==
    /\ r \in stray /\ stray' = stray \ {r} /\ Create(r)
    /\ UNCHANGED <<shown, pending, keys, intent, creating, presses, acting, listVars, actions,
                   faults>>

\* RestartHeroSMSTask, refused while a purchase token is kept, and
\* RequestHeroSMSTaskStop; cancel and settle are stops.
Told(t, verb) ==
    \/ verb = "start" /\ rows[t].phase = "stopped" /\ Becomes(t, "waiting")
    \/ verb = "stop" /\ rows[t].phase \in {"waiting", "leaving"} /\ Becomes(t, "leaving")
    \/ verb = "stop" /\ rows[t].phase \in {"active", "stopping"} /\ Becomes(t, "stopping")
    \/ verb = "stop" /\ rows[t].phase \in Terminal /\ UNCHANGED serverVars
ServeAction(t) ==
    /\ acting[t] # None /\ acting[t].at = "sent"
    /\ \/ /\ Told(t, acting[t].verb)
          /\ acting' = [acting EXCEPT ![t].at = "answered", ![t].view = Only(t, ViewOf(rows'[t]))]
       \/ /\ AtBound \/ (acting[t].verb = "start" /\ rows[t].phase # "stopped")
          /\ acting' = [acting EXCEPT ![t].at = "refused"] /\ UNCHANGED serverVars
    /\ UNCHANGED <<shown, buyVars, listVars, actions, faults>>

\* Mutant: the next page starts one task too late.
PageTooFar(cursor) == cursor + PageSize + 1
\* listTasks: newest first; a full page has a next one.
NextCursor(cursor) == cursor + PageSize
ServeRows ==
    /\ list.at = "sent"
    /\ LET newest == Cardinality(Made) - list.cursor
           page == {t \in Made : t <= newest /\ t + PageSize > newest} IN
       list' = [list EXCEPT !.at = "rows",
                    !.page = [t \in Tasks |-> IF t \in page THEN ViewOf(rows[t]) ELSE None],
                    !.next = IF Cardinality(page) = PageSize /\ NextCursor(list.cursor) <= MaxTasks
                               THEN NextCursor(list.cursor) ELSE 0]
    /\ UNCHANGED <<serverVars, shown, buyVars, acting, begun, actions, faults>>
\* The messages are read by a second query.
ServeMessages ==
    /\ list.at = "rows"
    /\ list' = [list EXCEPT !.at = "answered", !.page =
                   [t \in Tasks |->
                      IF list.page[t] = None THEN None
                      ELSE [list.page[t] EXCEPT !.messages = rows[t].messages]]]
    /\ UNCHANGED <<serverVars, shown, buyVars, acting, begun, actions, faults>>
-----------------------------------------------------------------------------
(* The page *)

Newer(a, b) == IF a.messages >= b.messages THEN a.messages ELSE b.messages
\* Mutant: what comes last is shown.
MergeLast(old, new) ==
    IF old = None \/ new = None THEN IF new = None THEN old ELSE new
    ELSE [new EXCEPT !.messages = Newer(old, new)]
\* Mutant: a state of the same time is taken for the one on show.
MergeNewer(old, new) ==
    IF old = None \/ new = None THEN IF new = None THEN old ELSE new
    ELSE [IF new.stamp <= old.stamp THEN old ELSE new EXCEPT !.messages = Newer(old, new)]
\* mergeHeroSmsTasks, for one task: an older answer only adds its messages.  A
\* record is taken as a whole: the code keeps optional fields of the one on show
\* that a newer answer lacks, none of which is modelled.
MergeTask(old, new) ==
    IF old = None \/ new = None THEN IF new = None THEN old ELSE new
    ELSE [IF new.stamp < old.stamp THEN old ELSE new EXCEPT !.messages = Newer(old, new)]
Merge(current, incoming) == [t \in Tasks |-> MergeTask(current[t], incoming[t])]

\* startPurchase.  A press that repeats one without an answer uses its key.
Reuses(input) == pending # None /\ pending.input = input
\* Mutant: every press has a key of its own.
ReusesNever(input) == FALSE
KeyFor(input) == IF Reuses(input) THEN pending.key ELSE keys + 1
Press(input) ==
    /\ creating = None /\ presses < MaxPresses /\ presses' = presses + 1
    /\ intent' = IF pending # None /\ pending.input = input THEN intent ELSE presses'
    /\ pending' = [input |-> input, key |-> KeyFor(input)]
    /\ keys' = IF pending'.key > keys THEN pending'.key ELSE keys
    /\ creating' = [input |-> input, key |-> pending'.key, intent |-> intent',
                    at |-> "sent", view |-> Nothing]
    /\ UNCHANGED <<serverVars, shown, stray, acting, listVars, actions, faults>>
Bought ==
    /\ creating # None /\ creating.at # "sent" /\ creating' = None
    /\ \/ /\ creating.at = "answered" /\ pending' = None
          /\ shown' = Merge(shown, creating.view)
       \/ creating.at = "refused" /\ UNCHANGED <<pending, shown>>
    /\ UNCHANGED <<serverVars, keys, intent, stray, presses, acting, listVars, actions, faults>>
\* The request fails: served, or not, or not yet.
BuyFails ==
    /\ creating # None /\ creating.at # "refused" /\ faults < MaxFaults /\ faults' = faults + 1
    /\ creating' = None
    /\ \/ UNCHANGED stray
       \/ creating.at = "sent" /\ stray' = stray \cup
             {[input |-> creating.input, key |-> creating.key, intent |-> creating.intent]}
    /\ UNCHANGED <<serverVars, shown, pending, keys, intent, presses, acting, listVars, actions>>

\* The buttons of HeroSmsNumberTask, and runTaskAction; the time its dialog is
\* open is a part of the request's way to the server.
Offered(v) == (IF v.phase = "stopped" THEN {"start"} ELSE {})
              \cup (IF v.phase \in {"waiting", "active"} THEN {"stop"} ELSE {})
Click(t, verb) ==
    /\ shown[t] # None /\ verb \in Offered(shown[t]) /\ acting[t] = None
    /\ actions < MaxActions /\ actions' = actions + 1
    /\ acting' = [acting EXCEPT ![t] = [verb |-> verb, at |-> "sent", view |-> Nothing]]
    /\ UNCHANGED <<serverVars, shown, buyVars, listVars, faults>>
Acted(t) ==
    /\ acting[t] # None /\ acting[t].at \in {"answered", "refused"}
    /\ acting' = [acting EXCEPT ![t] = None]
    /\ shown' = Merge(shown, acting[t].view)
    /\ UNCHANGED <<serverVars, buyVars, listVars, actions, faults>>
ActionFails(t) ==
    /\ acting[t] # None /\ acting[t].at \in {"sent", "answered"}
    /\ faults < MaxFaults /\ faults' = faults + 1
    /\ acting' = [acting EXCEPT ![t] = None]
    /\ UNCHANGED <<serverVars, shown, buyVars, listVars, actions>>

\* refreshTasks: one at a time, page after page, shown when the last one is there.
Poll ==
    /\ list.at = "idle" /\ list' = [Idle EXCEPT !.at = "sent"]
    /\ begun' = [t \in Tasks |-> IF t \in Made THEN rows[t].ver ELSE 0]
    /\ UNCHANGED <<serverVars, shown, buyVars, acting, actions, faults>>
Listed ==
    /\ list.at = "answered"
    /\ LET loaded == Merge(list.loaded, list.page) IN
       \/ /\ list.next # 0
          /\ list' = [Idle EXCEPT !.at = "sent", !.cursor = list.next, !.loaded = loaded]
          /\ UNCHANGED <<shown, begun>>
       \/ /\ list.next = 0 /\ shown' = Merge(shown, loaded)
          /\ list' = Idle /\ begun' = NotBegun
    /\ UNCHANGED <<serverVars, buyVars, acting, actions, faults>>
ListFails ==
    /\ list.at # "idle" /\ faults < MaxFaults /\ faults' = faults + 1
    /\ list' = Idle /\ begun' = NotBegun
    /\ UNCHANGED <<serverVars, shown, buyVars, acting, actions>>
-----------------------------------------------------------------------------
\* The page opens without any task, or again after a purchase.
InitRows ==
    \/ rows = [t \in Tasks |-> None] /\ updates = 0 /\ presses = 0
    \/ /\ \E input \in Inputs : rows = [t \in Tasks |-> IF t > 1 THEN None ELSE
              [ver |-> 1, stamp |-> 1, phase |-> "active", messages |-> 0,
               key |-> 1, input |-> input, intent |-> 1, back |-> FALSE]]
       /\ updates = 1 /\ presses = 1
Init ==
    /\ InitRows /\ keys = presses /\ intent = presses
    /\ shown = Nothing /\ pending = None /\ creating = None /\ stray = {}
    /\ acting = [t \in Tasks |-> None] /\ list = Idle /\ begun = NotBegun
    /\ actions = 0 /\ faults = 0

Next ==
    \/ Work \/ ServeCreate \/ ServeRows \/ ServeMessages
    \/ \E r \in stray : ServeStray(r)
    \/ \E i \in Inputs : Press(i)
    \/ Bought \/ BuyFails \/ Poll \/ Listed \/ ListFails
    \/ \E t \in Tasks :
          \/ \E verb \in {"start", "stop"} : Click(t, verb)
          \/ ServeAction(t) \/ Acted(t) \/ ActionFails(t)

Spec == Init /\ [][Next]_vars
\* Requests are answered or fail, the poll timer fires.
Fairness ==
    /\ WF_vars(ServeCreate) /\ WF_vars(Bought)
    /\ WF_vars(Poll) /\ WF_vars(ServeRows) /\ WF_vars(ServeMessages) /\ WF_vars(Listed)
    /\ \A t \in Tasks : WF_vars(ServeAction(t)) /\ WF_vars(Acted(t))
FairSpec == Spec /\ Fairness
-----------------------------------------------------------------------------
(* Properties *)

\* A purchase asked for again, because its answer did not come, is bought once,
\* even if the first request reaches the server after the second; and no key is
\* ever used for two different purchases.
RetryBuysOnce ==
    /\ \A t, u \in Made : rows[t].intent = rows[u].intent => t = u
    /\ \A t, u \in Made : rows[t].key = rows[u].key => t = u
    /\ creating # None => \A t \in Existing(creating) : rows[t].input = creating.input

\* What is shown of a task never goes back, whichever of the list, a purchase
\* and a button answers last: its messages stay, and an older state replaces a
\* newer one only if the server gave both the same time, or the newer an earlier.
ShownNeverOlder ==
    [][\A t \in Tasks : shown[t] # None =>
          /\ shown'[t] # None /\ shown'[t].messages >= shown[t].messages
          /\ \/ shown'[t].ver >= shown[t].ver \/ shown'[t].stamp = shown[t].stamp
             \/ rows[t].back]_vars

\* A list read to its end shows every task there was when it began, as it was
\* then or later, whatever was bought between its pages.
ListIsComplete ==
    [][(list.at = "answered" /\ list.next = 0 /\ list'.at = "idle" /\ faults' = faults) =>
          \A t \in Tasks : begun[t] > 0 =>
              /\ shown'[t] # None
              /\ shown'[t].ver >= begun[t] \/ rows[t].back]_vars

\* Once the server rests, every task is shown as it is, and no button stays busy.
ListCatchesUp ==
    <>[](/\ creating = None
         /\ \A t \in Made : /\ acting[t] = None /\ shown[t] # None
                            /\ shown[t].messages = rows[t].messages
                            /\ shown[t].ver = rows[t].ver \/ rows[t].back)
=============================================================================
