----------------------------- MODULE Dashboard -----------------------------
(***************************************************************************)
(* The workbench page's view of the running batch (App.vue): the batch     *)
(* found when the page opens, the two-second poll, start and stop, the     *)
(* Success and Delete buttons, and the login-status poll with its time     *)
(* limit, against a server that changes meanwhile.                         *)
(*                                                                         *)
(* A handler runs to its next await in one step; its request is served by  *)
(* the server in a second one, and its answer arrives in a third, so       *)
(* answers may be old and may overtake one another.  A request holds       *)
(* whether dashboardGeneration has moved since it was sent (`fresh`).      *)
(***************************************************************************)
EXTENDS Naturals, FiniteSets, FiniteSetsExt

CONSTANTS
    MaxBatches,    \* bound: batches ever created
    Numbers,       \* numbers a batch may buy
    MaxFaults,     \* bound: kinds of fault, each once: a request that fails, a batch erased
    MaxClicks,     \* bound: Start, Stop, Success and Delete
    MaxLogins,     \* bound: changes of an account's login
    Unknown        \* no status, or no answer yet

NoBatch == 0                      \* currentBatchId === ''
Batch == 1..MaxBatches
Ended == {"completed", "failed", "cancelled"}
Statuses == {"running"} \cup Ended           \* pending counts as running
Rows == [batch : Batch, number : Numbers]

ASSUME DashboardAssumption ==
    /\ MaxBatches \in Nat /\ MaxFaults \in Nat /\ MaxClicks \in Nat
    /\ MaxLogins \in Nat
    /\ Unknown \notin Statuses

VARIABLES
    status,       \* on the server: a batch's status, Unknown if there is none
    created,      \* the last batch created
    rows,         \* its activations that are not hidden
    bought,       \* the numbers it has had
    login,        \* how often the account's login has changed
    mount,        \* onMounted: "batches", "settings", "refresh", "done"
    currentId, current,   \* currentBatchId, and the status of currentBatch
    activations,  \* the rows on show
    starting, stopping,
    polling,      \* pollTimer is set
    calls,        \* requests: batches, refresh, start, stop, success, delete
    loginAsk,     \* the login request: "none", "asked", "lost", "served"
    loginAnswer, loginShown,
    faults,       \* the kinds of fault so far
    clicks

serverVars == <<status, created, rows, bought, login>>
shownVars == <<currentId, current, activations>>
loginVars == <<loginAsk, loginAnswer, loginShown>>
vars == <<serverVars, mount, shownVars, starting, stopping, polling, calls, loginVars,
          faults, clicks>>

Kinds == {"batches", "refresh", "start", "stop", "success", "delete"}
Views == [status : Statuses \cup {Unknown}, id : Batch \cup {NoBatch}, rows : SUBSET Rows]
NoAnswer == [status |-> Unknown, id |-> NoBatch, rows |-> {}]

\* for: the handler whose await this refresh ends.
Call(kind, id, number, for) ==
    [kind |-> kind, id |-> id, number |-> number, for |-> for, fresh |-> TRUE,
     at |-> "sent", view |-> NoAnswer]

RowsOf(b) == {r \in rows : r.batch = b}
View(b) == [status |-> status[b], id |-> b, rows |-> RowsOf(b)]
Running == {b \in Batch : status[b] = "running"}
Known == {b \in Batch : status[b] # Unknown}
Latest == IF Running # {} THEN Max(Running) ELSE IF Known = {} THEN NoBatch ELSE Max(Known)

TypeOK ==
    /\ status \in [Batch -> Statuses \cup {Unknown}] /\ created \in Batch \cup {NoBatch}
    /\ rows \subseteq Rows /\ bought \subseteq Batch \X Numbers
    /\ mount \in {"batches", "settings", "refresh", "done"}
    /\ currentId \in Batch \cup {NoBatch} /\ current \in Statuses \cup {Unknown}
    /\ activations \subseteq Rows
    /\ starting \in BOOLEAN /\ stopping \in BOOLEAN /\ polling \in BOOLEAN
    /\ calls \subseteq [kind : Kinds, id : Batch \cup {NoBatch}, number : Numbers \cup {Unknown},
                        for : {"mount", "start", "stop", "poll"}, fresh : BOOLEAN,
                        at : {"sent", "answered", "refused", "gone"}, view : Views]
    /\ loginAsk \in {"none", "asked", "lost", "served"} /\ login \in 0..MaxLogins
    /\ loginAnswer \in 0..MaxLogins /\ loginShown \in 0..MaxLogins
    /\ faults \in SUBSET (Kinds \cup {"login", "erased"}) /\ clicks \in 0..MaxClicks
-----------------------------------------------------------------------------
\* The page opens on a server that may have run a batch, or be running one.
InitOpening ==
    /\ \E s \in {"running", "completed"} :
          status = [b \in Batch |-> IF b <= created THEN s ELSE Unknown]
    /\ mount = "batches" /\ currentId = NoBatch /\ current = Unknown
    /\ starting = FALSE /\ polling = FALSE /\ loginAsk = "asked"
    /\ calls = {Call("batches", NoBatch, Unknown, "mount")}
\* Or it has been open for a while, and Start was just pressed.
InitStarting ==
    /\ status = [b \in Batch |-> IF b <= created THEN "completed" ELSE Unknown]
    /\ mount = "done" /\ currentId = created
    /\ current = (IF created = 0 THEN Unknown ELSE "completed")
    /\ starting = TRUE /\ polling = TRUE /\ loginAsk = "none"
    /\ calls = {Call("start", NoBatch, Unknown, "start")}
Init ==
    /\ created \in {0, 1} \cap (Batch \cup {0})
    /\ InitOpening \/ InitStarting
    /\ rows = {} /\ bought = {} /\ login = 0
    /\ activations = {} /\ stopping = FALSE
    /\ loginAnswer = 0 /\ loginShown = 0
    /\ faults = {} /\ clicks = 0

Refreshing(cs) == \E c \in cs : c.kind = "refresh"
\* Mutant: the generation is not counted.
StillFresh(cs) == cs
Stale(cs) == {[c EXCEPT !.fresh = FALSE] : c \in cs}     \* dashboardGeneration += 1

\* refreshDashboard for the batch `id`, unless a refresh is in flight; then the
\* handler `for` is over at once.
Over(for) ==
    /\ mount' = IF for = "mount" THEN "done" ELSE mount
    /\ starting' = (starting /\ for # "start")
    /\ stopping' = (stopping /\ for # "stop")
Refresh(cs, id, for) ==
    IF Refreshing(cs)
      THEN calls' = cs /\ Over(for)
      ELSE /\ calls' = cs \cup {Call("refresh", id, Unknown, for)}
           /\ UNCHANGED <<mount, starting, stopping>>

Show(id, s, shown) == currentId' = id /\ current' = s /\ activations' = shown
-----------------------------------------------------------------------------
(* The server *)

Fault(kind) ==
    /\ kind \notin faults /\ Cardinality(faults) < MaxFaults
    /\ faults' = faults \cup {kind}

Buy(b, n) ==
    /\ status[b] = "running" /\ <<b, n>> \notin bought
    /\ bought' = bought \cup {<<b, n>>}
    /\ rows' = rows \cup {[batch |-> b, number |-> n]}
    /\ UNCHANGED <<status, created, login>>
\* A number ends and is hidden.
Hide(r) ==
    /\ r \in rows /\ rows' = rows \ {r}
    /\ UNCHANGED <<status, created, bought, login>>
End(b) ==
    /\ status[b] = "running"
    /\ \E s \in {"completed", "failed"} : status' = [status EXCEPT ![b] = s]
    /\ UNCHANGED <<created, rows, bought, login>>
Erase(b) ==
    /\ status[b] \in Ended /\ Fault("erased")
    /\ status' = [status EXCEPT ![b] = Unknown] /\ rows' = rows \ RowsOf(b)
    /\ UNCHANGED <<created, bought, login>>
Relogin ==
    /\ login < MaxLogins /\ login' = login + 1
    /\ UNCHANGED <<status, created, rows, bought>>

Work ==
    /\ \/ \E b \in Batch : Erase(b)
       \/ /\ \/ \E b \in Batch : End(b) \/ \E n \in Numbers : Buy(b, n)
             \/ \E r \in rows : Hide(r)
             \/ Relogin
          /\ UNCHANGED faults
    /\ UNCHANGED <<mount, shownVars, starting, stopping, polling, calls, loginVars, clicks>>

Answer(c, at, view) == calls' = (calls \ {c}) \cup {[c EXCEPT !.at = at, !.view = view]}

\* What the server does with a request, and the view it answers with.
ServeRead(c) ==
    /\ \/ /\ c.kind = "batches"
          /\ Answer(c, "answered", IF Latest = NoBatch THEN NoAnswer
                                   ELSE [View(Latest) EXCEPT !.rows = {}])
       \/ /\ c.kind = "refresh" /\ c.id = NoBatch
          /\ Answer(c, "answered", [NoAnswer EXCEPT !.rows = rows])
       \/ /\ c.kind = "refresh" /\ c.id # NoBatch /\ status[c.id] # Unknown
          /\ Answer(c, "answered", View(c.id))
       \/ /\ c.kind = "refresh" /\ c.id # NoBatch /\ status[c.id] = Unknown
          /\ Answer(c, "gone", NoAnswer)
    /\ UNCHANGED <<status, created, rows>>
ServeStart(c) ==
    /\ c.kind = "start"
    /\ \/ /\ Running = {} /\ created < MaxBatches /\ created' = created + 1
          /\ status' = [status EXCEPT ![created'] = "running"]
          /\ Answer(c, "answered", [status |-> "running", id |-> created', rows |-> {}])
       \/ /\ Running # {} \/ created = MaxBatches
          /\ Answer(c, "refused", NoAnswer) /\ UNCHANGED <<status, created>>
    /\ UNCHANGED rows
\* CancelBatch: one that has ended is answered as it is.  A Stop hides the open
\* numbers later, as they are cancelled (Hide); it is refused while a purchase is
\* in progress, or if the batch is erased.
StoppedAs(s) == IF s = "running" THEN "cancelled" ELSE s
ServeStop(c) ==
    /\ c.kind = "stop"
    /\ \/ /\ status[c.id] # Unknown
          /\ status' = [status EXCEPT ![c.id] = StoppedAs(status[c.id])]
          /\ Answer(c, "answered", [status |-> StoppedAs(status[c.id]), id |-> c.id, rows |-> {}])
       \/ Answer(c, "refused", NoAnswer) /\ UNCHANGED status
    /\ UNCHANGED <<created, rows>>
\* Success and Delete are recorded for the worker, which ends the number later.
ServeControl(c) ==
    /\ c.kind \in {"success", "delete"}
    /\ \/ /\ \E r \in rows : r.batch = c.id /\ r.number = c.number
          /\ Answer(c, "answered", NoAnswer)
       \/ Answer(c, "refused", NoAnswer)
    /\ UNCHANGED <<status, created, rows>>

Serve(c) ==
    /\ c.at = "sent"
    /\ ServeRead(c) \/ ServeStart(c) \/ ServeStop(c) \/ ServeControl(c)
    /\ UNCHANGED <<bought, login, mount, shownVars, starting, stopping, polling,
                   loginVars, faults, clicks>>
-----------------------------------------------------------------------------
(* The page *)

\* restoreLatestBatchFromServer: nothing is done about an error.
Restored(c) ==
    /\ c.kind = "batches" /\ c.at # "sent" /\ mount' = "settings"
    /\ \/ c.view.id # NoBatch /\ Show(c.view.id, c.view.status, {})
       \/ c.view.id = NoBatch /\ UNCHANGED shownVars
    /\ calls' = Stale(calls \ {c})
    /\ UNCHANGED <<serverVars, starting, stopping, polling, loginVars, faults, clicks>>

\* The settings and login statuses are there too: the first refreshDashboard.
MountRefresh ==
    /\ mount = "settings"
    /\ IF Refreshing(calls)
         THEN mount' = "done" /\ UNCHANGED calls
         ELSE mount' = "refresh" /\ calls' = calls \cup {Call("refresh", currentId, Unknown, "mount")}
    /\ UNCHANGED <<serverVars, shownVars, starting, stopping, polling, loginVars, faults, clicks>>

\* The last step of onMounted, once the catalogue of the form is there.
StartPolling ==
    /\ mount = "done" /\ ~polling /\ polling' = TRUE
    /\ UNCHANGED <<serverVars, mount, shownVars, starting, stopping, calls, loginVars, faults,
                   clicks>>

\* Mutant: every answer is shown.
EveryAnswer(c) == TRUE
\* An answer that is not about the batch on show any more is dropped.
Current(c) == c.fresh /\ c.id = currentId
\* Mutant: any error is taken for a batch that is gone.
ErrorIsGone(c) ==
    /\ c.kind = "refresh" /\ c.at # "sent"
    /\ \/ /\ Current(c) /\ c.at = "answered"
          /\ Show(currentId, IF currentId = NoBatch THEN current ELSE c.view.status, c.view.rows)
          /\ calls' = calls \ {c}
       \/ /\ Current(c) /\ c.at # "answered"
          /\ Show(NoBatch, Unknown, {}) /\ calls' = Stale(calls \ {c})
       \/ /\ ~Current(c) /\ UNCHANGED shownVars /\ calls' = calls \ {c}
    /\ Over(c.for)
    /\ UNCHANGED <<serverVars, polling, loginVars, faults, clicks>>
Refreshed(c) ==
    /\ c.kind = "refresh" /\ c.at # "sent"
    /\ \/ /\ Current(c) /\ c.at = "answered"
          /\ Show(currentId, IF currentId = NoBatch THEN current ELSE c.view.status, c.view.rows)
          /\ calls' = calls \ {c}
       \/ /\ Current(c) /\ c.at = "gone"
          /\ Show(NoBatch, Unknown, {}) /\ calls' = Stale(calls \ {c})
       \/ /\ ~Current(c) \/ c.at = "refused"
          /\ UNCHANGED shownVars /\ calls' = calls \ {c}
    /\ Over(c.for)
    /\ UNCHANGED <<serverVars, polling, loginVars, faults, clicks>>

Poll ==
    /\ polling /\ ~Refreshing(calls)
    /\ Refresh(calls, currentId, "poll")
    /\ UNCHANGED <<serverVars, shownVars, polling, loginVars, faults, clicks>>

Active == current = "running"            \* currentBatchActive, canStopCurrentBatch
Click == clicks < MaxClicks /\ clicks' = clicks + 1 /\ UNCHANGED <<serverVars, loginVars, faults>>
Send(c) == calls' = calls \cup {c}

\* startBatch; CatalogForm has the conditions on the form.
Start ==
    /\ Click /\ ~starting /\ mount = "done" /\ ~Active
    /\ starting' = TRUE /\ Send(Call("start", NoBatch, Unknown, "start"))
    /\ UNCHANGED <<mount, shownVars, stopping, polling>>
Started(c) ==
    /\ c.kind = "start" /\ c.at # "sent"
    /\ \/ /\ c.at = "answered" /\ Show(c.view.id, c.view.status, {})
          /\ polling' = TRUE /\ Refresh(Stale(calls \ {c}), c.view.id, "start")
       \/ /\ c.at = "refused" /\ starting' = FALSE /\ calls' = calls \ {c}
          /\ UNCHANGED <<shownVars, mount, polling, stopping>>
    /\ UNCHANGED <<serverVars, loginVars, faults, clicks>>

\* stopCurrentBatch, confirmed for the batch on show at the click; the time its
\* dialog is open is a part of the request's way to the server.
Stop ==
    /\ Click /\ Active /\ ~stopping
    /\ stopping' = TRUE /\ Send(Call("stop", currentId, Unknown, "stop"))
    /\ UNCHANGED <<mount, shownVars, starting, polling>>
Stopped(c) ==
    /\ c.kind = "stop" /\ c.at # "sent"
    /\ \/ /\ c.at = "answered" /\ c.id = currentId
          /\ Show(c.view.id, c.view.status, {})
          /\ Refresh(Stale(calls \ {c}), c.view.id, "stop")
       \/ /\ c.at = "refused" \/ c.id # currentId
          /\ stopping' = FALSE /\ calls' = calls \ {c}
          /\ UNCHANGED <<shownVars, mount, starting>>
    /\ UNCHANGED <<serverVars, polling, loginVars, faults, clicks>>

\* markSuccess and deleteActivation; the row's buttons are busy meanwhile.
Busy(r) == \E c \in calls : c.kind \in {"success", "delete"} /\ c.number = r.number /\ c.id = r.batch
Control(kind, r) ==
    /\ Click /\ r \in activations /\ ~Busy(r)
    /\ Send(Call(kind, r.batch, r.number, "poll"))
    /\ UNCHANGED <<mount, shownVars, starting, stopping, polling>>
Controlled(c) ==
    /\ c.kind \in {"success", "delete"} /\ c.at # "sent"
    /\ \/ /\ c.kind = "success" /\ c.at = "answered"
          /\ Refresh(calls \ {c}, currentId, "poll") /\ UNCHANGED shownVars
       \/ /\ c.kind = "delete" /\ c.at = "answered"
          /\ activations' = {r \in activations : r.number # c.number \/ r.batch # c.id}
          /\ calls' = calls \ {c}
          /\ UNCHANGED <<currentId, current, mount, starting, stopping>>
       \/ /\ c.at = "refused" /\ calls' = calls \ {c}
          /\ UNCHANGED <<shownVars, mount, starting, stopping>>
    /\ UNCHANGED <<serverVars, polling, loginVars, faults, clicks>>

\* A request fails: not served, or served and its answer lost.
Fail(c) ==
    /\ c.at \in {"sent", "answered"} /\ Fault(c.kind)
    /\ Answer(c, "refused", NoAnswer)
    /\ UNCHANGED <<serverVars, mount, shownVars, starting, stopping, polling, loginVars, clicks>>
-----------------------------------------------------------------------------
(* The login statuses, one request at a time, given up after 20 seconds *)

AskLogin ==
    /\ loginAsk = "none" /\ loginAsk' = "asked" /\ UNCHANGED <<loginAnswer, loginShown>>
ServeLogin ==
    /\ loginAsk = "asked" /\ loginAsk' = "served" /\ loginAnswer' = login
    /\ UNCHANGED loginShown
ShowLogin ==
    /\ loginAsk = "served" /\ loginAsk' = "none" /\ loginShown' = loginAnswer
    /\ loginAnswer' = 0
\* Mutant: only an answer is given up.
AbortAnswer ==
    /\ loginAsk = "served" /\ loginAsk' = "none" /\ loginAnswer' = 0 /\ UNCHANGED loginShown
\* The time limit aborts the request: no answer of it is ever used.
AbortLogin ==
    /\ loginAsk # "none" /\ loginAsk' = "none" /\ loginAnswer' = 0 /\ UNCHANGED loginShown
\* A probe that hangs; fetch itself has no time limit.
LoseLogin ==
    /\ loginAsk = "asked" /\ loginAsk' = "lost" /\ UNCHANGED <<loginAnswer, loginShown>>

LoginStep ==
    /\ \/ (AskLogin \/ ServeLogin \/ ShowLogin \/ AbortLogin) /\ UNCHANGED faults
       \/ LoseLogin /\ Fault("login")
    /\ UNCHANGED <<serverVars, mount, shownVars, starting, stopping, polling, calls, clicks>>
-----------------------------------------------------------------------------
Receive(c) == Restored(c) \/ Refreshed(c) \/ Started(c) \/ Stopped(c) \/ Controlled(c)
User ==
    \/ Start \/ Stop
    \/ \E r \in activations : \E kind \in {"success", "delete"} : Control(kind, r)
Next ==
    \/ Work \/ User \/ MountRefresh \/ StartPolling \/ Poll \/ LoginStep
    \/ \E c \in calls : Serve(c) \/ Receive(c) \/ Fail(c)

Spec == Init /\ [][Next]_vars

Page(A) == A /\ UNCHANGED <<serverVars, mount, shownVars, starting, stopping, polling, calls,
                           faults, clicks>>
\* Requests are answered or fail, timers fire, and login requests that are sent
\* again and again are answered in time in the end.
Fairness ==
    /\ WF_vars(MountRefresh) /\ WF_vars(StartPolling) /\ WF_vars(Poll)
    /\ \A k \in Kinds : /\ WF_vars(\E c \in calls : c.kind = k /\ Serve(c))
                       /\ WF_vars(\E c \in calls : c.kind = k /\ Receive(c))
    /\ WF_vars(Page(AskLogin)) /\ WF_vars(Page(AbortLogin))
    /\ SF_vars(Page(ServeLogin)) /\ SF_vars(Page(ShowLogin))
FairSpec == Spec /\ Fairness
-----------------------------------------------------------------------------
(* Properties *)

\* The rows under a batch are that batch's, through start, stop, deletion of a
\* batch and answers that come late.
RowsBelong == currentId # NoBatch => \A r \in activations : r.batch = currentId

\* A page that lost no answer about which batch there is shows the batch that is
\* running, so that it can be stopped and no second one is asked for, whatever
\* else fails or comes late.
RunningIsShown ==
    (mount = "done" /\ {"batches", "start"} \cap faults = {}) =>
        \A b \in Running :
            \/ currentId = b /\ Active
            \/ \E c \in calls : c.kind = "start" /\ c.at = "answered" /\ c.view.id = b

\* The batch on show never goes back: a later one takes its place, one shown as
\* ended does not run again, and it disappears only if the server erased it,
\* whichever of the poll, start and stop answers first.
NeverGoesBack ==
    [][ \/ currentId' = currentId /\ (current \in Ended => current' \in Ended)
        \/ currentId' > currentId
        \/ currentId' = NoBatch /\ status[currentId] = Unknown ]_vars

\* Once the server rests, the page ends up showing the batch, its rows and the
\* login statuses as they are, and nothing stays busy, although requests fail,
\* hang or are overtaken.
DashboardSettles ==
    <>[](/\ current = (IF currentId = NoBatch THEN Unknown ELSE status[currentId])
         /\ activations = (IF currentId = NoBatch THEN rows ELSE RowsOf(currentId))
         /\ loginShown = login /\ ~starting /\ ~stopping)

\* App.vue:456: "The regular dashboard request below still restores a persisted
\* task when available."
MountRestores == (mount = "done" /\ ~polling) => Running \subseteq {currentId}
=============================================================================
