--------------------------- MODULE DashboardProofs ---------------------------
(***************************************************************************)
(* Proofs about Dashboard for any number of batches, numbers, clicks and   *)
(* faults: the rows on show are those of the batch on show, the page never *)
(* goes back to an earlier batch or revives one that has ended, and a      *)
(* batch that runs is on show.  At the end, the rules that the rows are    *)
(* shown by (ActivationRules), for any numbers, codes and accounts.        *)
(***************************************************************************)
EXTENDS MCDashboard, WellFoundedInduction, TLAPS

\* A batch that will not run again.
Gone(b) == b \in Batch /\ b <= created /\ status[b] \in Ended \cup {Unknown}

\* What the page shows is a batch that was created, with its own rows.
Shown ==
    /\ created <= MaxBatches /\ \A b \in Batch : b > created => status[b] = Unknown
    /\ currentId <= created /\ (currentId = NoBatch => current = Unknown)
    /\ mount = "batches" => currentId = NoBatch
    /\ current \in Ended => Gone(currentId)
    /\ RowsBelong

\* What a request is about, what it was answered, and when it may be out.
Reads(c) ==
    /\ c.kind = "batches" =>
          /\ mount = "batches"
          /\ c.view.status \in Ended => Gone(c.view.id)
    /\ c.kind = "refresh" =>
          /\ c.for = "start" => starting
          /\ c.for = "mount" => mount # "batches"
          /\ c.id # NoBatch => \A r \in c.view.rows : r.batch = c.id
          /\ (c.at = "answered" /\ c.id # NoBatch /\ c.view.status \in Ended) => Gone(c.id)
          /\ (c.at = "answered" /\ Current(c) /\ current \in Ended) => c.view.status \in Ended
Changes(c) ==
    /\ c.kind = "start" =>
          /\ mount # "batches" /\ starting
          /\ c.at = "answered" => c.view.id > currentId /\ c.view.status = "running"
    /\ c.kind = "stop" =>
          /\ c.id \in Batch
          /\ c.at = "answered" => c.view.id = c.id /\ c.view.status \in Ended /\ Gone(c.id)
Sound(c) ==
    /\ c.kind \in {"success", "delete"} \/ c.id <= created
    /\ c.view.id <= created
    /\ c.at = "gone" => c.kind = "refresh" /\ c.id \in Batch /\ status[c.id] = Unknown
    /\ Reads(c) /\ Changes(c)

\* One request for the batches, one start and one refresh at a time.
Alone(cs) ==
    \A c, d \in cs :
        /\ (c.kind = d.kind /\ c.kind \in {"batches", "start", "refresh"}) => c = d
        /\ (c.kind = "start" /\ d.kind = "refresh") => d.for # "start"

Good == Shown /\ (\A c \in calls : Sound(c)) /\ Alone(calls)
DashInv == TypeOK /\ Good
-----------------------------------------------------------------------------
(* The latest batch *)

\* Less-than as a set of pairs, which the well-foundedness theorems are about.
Less == {p \in Nat \X Nat : p[1] < p[2]}

LEMMA LessWellFounded == IsWellFoundedOn(Less, Nat)
  <1>1. OpToRel(<, Nat) = Less
    BY DEF OpToRel, Less
  <1> QED BY <1>1, NatLessThanWellFounded

LEMMA Greatest ==
    ASSUME NEW n \in Nat, NEW S, S \subseteq 1..n, S # {}
    PROVE  Max(S) \in S
  <1> DEFINE T == {n - x : x \in S}
  <1>0. \A x \in S : x \in Nat /\ n - x \in Nat
    OBVIOUS
  <1>1. T \subseteq Nat /\ T # {}
    BY <1>0
  <1>2. PICK y \in T : \A z \in T : <<z, y>> \notin Less
    <2> HIDE DEF T
    <2> QED BY ONLY LessWellFounded, <1>1, WFMin
  <1>3. PICK x \in S : y = n - x
    OBVIOUS
  <1>4. \A z \in S : ~ (n - z < n - x)
    BY <1>0, <1>2, <1>3 DEF Less
  <1>5. ASSUME NEW z \in S PROVE x >= z
    <2>1. x \in Nat /\ z \in Nat /\ ~ (n - z < n - x)
      BY <1>0, <1>4
    <2> QED BY <2>1
  <1> QED BY <1>5 DEF Max

LEMMA LatestIsKnown ==
    ASSUME TypeOK, Shown
    PROVE  /\ Latest \in Batch \cup {NoBatch} /\ Latest <= created
           /\ Latest # NoBatch => Latest \in Batch /\ status[Latest] \in Statuses
  <1>1. /\ MaxBatches \in Nat /\ Unknown \notin Statuses
        /\ status \in [Batch -> Statuses \cup {Unknown}] /\ created \in Batch \cup {NoBatch}
        /\ \A b \in Batch : b > created => status[b] = Unknown
    BY DashboardAssumption DEF TypeOK, Shown
  <1>2. Running \subseteq Batch /\ Known \subseteq Batch /\ Running \subseteq Known
    BY <1>1 DEF Running, Known, Statuses
  <1>3. \A b \in Known : b <= created /\ b \in Batch /\ status[b] \in Statuses
    BY <1>1 DEF Known, Batch, NoBatch
  <1>4. Running # {} => Max(Running) \in Known
    BY <1>1, <1>2, Greatest DEF Batch
  <1>5. Known # {} => Max(Known) \in Known
    BY <1>1, <1>2, Greatest DEF Batch
  <1>6. Latest \in Known \/ Latest = NoBatch
    BY <1>4, <1>5, <1>2 DEF Latest
  <1>7. created >= NoBatch
    BY <1>1 DEF Batch, NoBatch
  <1> QED BY <1>3, <1>6, <1>7 DEF NoBatch
-----------------------------------------------------------------------------
(* Types *)

Fors == {"mount", "start", "stop", "poll"}
Request == [kind : Kinds, id : Batch \cup {NoBatch}, number : Numbers \cup {Unknown},
            for : Fors, fresh : BOOLEAN,
            at : {"sent", "answered", "refused", "gone"}, view : Views]

LEMMA ViewTypes ==
    ASSUME TypeOK
    PROVE  /\ NoAnswer \in Views
           /\ \A b \in Batch : View(b) \in Views
           /\ [NoAnswer EXCEPT !.rows = rows] \in Views
           /\ \A b \in Batch : [View(b) EXCEPT !.rows = {}] \in Views
  BY DEF TypeOK, NoAnswer, Views, View, RowsOf

LEMMA CallTypes ==
    ASSUME NEW kind \in Kinds, NEW id \in Batch \cup {NoBatch},
           NEW number \in Numbers \cup {Unknown}, NEW for \in Fors
    PROVE  Call(kind, id, number, for) \in Request
  <1>1. NoAnswer \in Views
    BY DEF NoAnswer, Views
  <1> QED BY <1>1 DEF Call, Request

LEMMA AnswerTypes ==
    ASSUME calls \subseteq Request, NEW c \in calls, NEW at \in {"answered", "refused", "gone"},
           NEW view \in Views, Answer(c, at, view)
    PROVE  calls' \subseteq Request
  <1>1. [c EXCEPT !.at = at, !.view = view] \in Request
    BY DEF Request
  <1> QED BY <1>1 DEF Answer

LEMMA StaleTypes ==
    ASSUME NEW cs, cs \subseteq Request
    PROVE  Stale(cs) \subseteq Request
  <1>1. \A c \in cs : [c EXCEPT !.fresh = FALSE] \in Request
    BY DEF Request
  <1> QED BY <1>1 DEF Stale

LEMMA RefreshTypes ==
    ASSUME NEW cs, cs \subseteq Request, NEW id \in Batch \cup {NoBatch}, NEW for \in Fors,
           mount \in {"batches", "settings", "refresh", "done"},
           starting \in BOOLEAN, stopping \in BOOLEAN,
           Refresh(cs, id, for)
    PROVE  /\ calls' \subseteq Request
           /\ mount' \in {"batches", "settings", "refresh", "done"}
           /\ starting' \in BOOLEAN /\ stopping' \in BOOLEAN
  <1>1. Call("refresh", id, Unknown, for) \in Request
    BY CallTypes DEF Kinds
  <1> QED BY <1>1 DEF Refresh, Over

LEMMA Initially == Init => DashInv
  <1> SUFFICES ASSUME Init PROVE DashInv
    OBVIOUS
  <1>0. MaxBatches \in Nat /\ MaxLogins \in Nat /\ MaxClicks \in Nat /\ Unknown \notin Statuses
    BY DashboardAssumption
  <1>1. /\ created \in Batch \cup {NoBatch} /\ created <= MaxBatches /\ created \in Nat
        /\ rows = {} /\ bought = {} /\ login = 0 /\ activations = {} /\ stopping = FALSE
        /\ loginAnswer = 0 /\ loginShown = 0 /\ faults = {} /\ clicks = 0
    BY <1>0 DEF Init, Batch, NoBatch
  <1>t. /\ rows \subseteq Rows /\ bought \subseteq Batch \X Numbers /\ activations \subseteq Rows
        /\ stopping \in BOOLEAN /\ login \in 0..MaxLogins /\ loginAnswer \in 0..MaxLogins
        /\ loginShown \in 0..MaxLogins /\ faults \in SUBSET (Kinds \cup {"login", "erased"})
        /\ clicks \in 0..MaxClicks
    <2>1. rows \subseteq Rows /\ bought \subseteq Batch \X Numbers /\ activations \subseteq Rows
      BY <1>1
    <2>2. stopping \in BOOLEAN /\ faults \in SUBSET (Kinds \cup {"login", "erased"})
      BY <1>1
    <2>3. 0 \in 0..MaxLogins /\ 0 \in 0..MaxClicks
      BY <1>0
    <2> QED BY <1>1, <2>1, <2>2, <2>3
  <1>2. CASE InitOpening
    <2>1. /\ mount = "batches" /\ currentId = NoBatch /\ current = Unknown /\ starting = FALSE
          /\ polling = FALSE /\ loginAsk = "asked"
      BY <1>2 DEF InitOpening
    <2>2. calls = {Call("batches", NoBatch, Unknown, "mount")}
      BY <1>2 DEF InitOpening
    <2>3. status \in [Batch -> Statuses \cup {Unknown}] /\ \A b \in Batch : b > created => status[b] = Unknown
      BY <1>0, <1>1, <1>2 DEF InitOpening, Statuses, Ended, Batch
    <2>4. Call("batches", NoBatch, Unknown, "mount") \in Request
      BY CallTypes DEF Kinds, Fors
    <2>a. calls \subseteq Request
      BY <2>2, <2>4
    <2>5. TypeOK
      BY <1>1, <1>t, <2>1, <2>a, <2>3 DEF TypeOK, Request, Fors
    <2>6. Shown
      BY <1>0, <1>1, <2>1, <2>3 DEF Shown, RowsBelong, NoBatch, Statuses
    <2>7. \A c \in calls : Sound(c)
      BY <1>0, <1>1, <2>1, <2>2
         DEF Sound, Reads, Changes, Call, NoAnswer, NoBatch, Statuses
    <2>8. Alone(calls)
      BY <2>2 DEF Alone, Call
    <2> QED BY <2>5, <2>6, <2>7, <2>8 DEF DashInv, Good
  <1>3. CASE InitStarting
    <2>1. /\ mount = "done" /\ currentId = created /\ starting = TRUE
          /\ polling = TRUE /\ loginAsk = "none"
          /\ current = (IF created = 0 THEN Unknown ELSE "completed")
      BY <1>3 DEF InitStarting
    <2>2. calls = {Call("start", NoBatch, Unknown, "start")}
      BY <1>3 DEF InitStarting
    <2>3. /\ status \in [Batch -> Statuses \cup {Unknown}] /\ \A b \in Batch : b > created => status[b] = Unknown
          /\ \A b \in Batch : status[b] \in Ended \cup {Unknown}
      BY <1>0, <1>1, <1>3 DEF InitStarting, Statuses, Ended, Batch
    <2>4. Call("start", NoBatch, Unknown, "start") \in Request
      BY CallTypes DEF Kinds, Fors
    <2>5. current \in Statuses \cup {Unknown} /\ (created = 0 => current = Unknown)
      BY <2>1 DEF Statuses, Ended
    <2>a. calls \subseteq Request
      BY <2>2, <2>4
    <2>6. TypeOK
      BY <1>1, <1>t, <2>1, <2>a, <2>3, <2>5 DEF TypeOK, Request, Fors
    <2>b. current \in Ended => Gone(currentId)
      <3>1. created # 0 => created \in Batch
        BY <1>1 DEF NoBatch
      <3>2. current \in Ended => created # 0
        BY <1>0, <2>5 DEF Statuses
      <3> QED BY <1>1, <2>1, <2>3, <3>1, <3>2 DEF Gone
    <2>c. currentId <= created /\ (currentId = NoBatch => current = Unknown) /\ mount # "batches"
      BY <1>1, <2>1, <2>5 DEF NoBatch
    <2>7. Shown
      BY <1>1, <2>3, <2>b, <2>c DEF Shown, RowsBelong
    <2>8. \A c \in calls : Sound(c)
      BY <1>1, <2>1, <2>2 DEF Sound, Reads, Changes, Call, NoAnswer, NoBatch
    <2>9. Alone(calls)
      BY <2>2 DEF Alone, Call
    <2> QED BY <2>6, <2>7, <2>8, <2>9 DEF DashInv, Good
  <1> QED BY <1>2, <1>3 DEF Init
\* The fault of an action is one of the kinds there are.
LEMMA FaultTypes ==
    ASSUME TypeOK, NEW kind \in Kinds \cup {"login", "erased"}, Fault(kind)
    PROVE  faults' \in SUBSET (Kinds \cup {"login", "erased"})
  BY DEF TypeOK, Fault

LEMMA WorkTypes ==
    ASSUME TypeOK, Work
    PROVE  TypeOK'
  <1>0. UNCHANGED <<mount, shownVars, starting, stopping, polling, calls, loginVars, clicks>>
    BY DEF Work
  <1>1. ASSUME NEW b \in Batch, Erase(b) PROVE TypeOK'
    <2>1. faults' \in SUBSET (Kinds \cup {"login", "erased"})
      BY <1>1, FaultTypes DEF Erase
    <2>2. status' \in [Batch -> Statuses \cup {Unknown}] /\ rows' \subseteq Rows
      BY <1>1 DEF Erase, TypeOK, RowsOf
    <2> QED BY <1>0, <1>1, <2>1, <2>2 DEF Erase, TypeOK, shownVars, loginVars
  <1>2. CASE UNCHANGED faults /\ \E b \in Batch : End(b)
    <2>1. status' \in [Batch -> Statuses \cup {Unknown}]
      BY <1>2 DEF End, TypeOK, Statuses, Ended
    <2> QED BY <1>0, <1>2, <2>1 DEF End, TypeOK, shownVars, loginVars
  <1>3. CASE UNCHANGED faults /\ \E b \in Batch : \E n \in Numbers : Buy(b, n)
    <2>1. rows' \subseteq Rows /\ bought' \subseteq Batch \X Numbers
      BY <1>3 DEF Buy, TypeOK, Rows
    <2> QED BY <1>0, <1>3, <2>1 DEF Buy, TypeOK, shownVars, loginVars
  <1>4. CASE UNCHANGED faults /\ \E r \in rows : Hide(r)
    <2>1. rows' \subseteq Rows
      BY <1>4 DEF Hide, TypeOK
    <2> QED BY <1>0, <1>4, <2>1 DEF Hide, TypeOK, shownVars, loginVars
  <1>5. CASE UNCHANGED faults /\ Relogin
    <2>1. login' \in 0..MaxLogins
      BY <1>5, DashboardAssumption DEF Relogin, TypeOK
    <2> QED BY <1>0, <1>5, <2>1 DEF Relogin, TypeOK, shownVars, loginVars
  <1> QED BY <1>1, <1>2, <1>3, <1>4, <1>5 DEF Work

LEMMA ServeTypes ==
    ASSUME TypeOK, Shown, \A d \in calls : Sound(d), NEW c \in calls, Serve(c)
    PROVE  TypeOK'
  <1>0. /\ UNCHANGED <<bought, login, mount, shownVars, starting, stopping, polling, loginVars,
                       faults, clicks>>
        /\ calls \subseteq Request /\ c \in Request /\ c.id \in Batch \cup {NoBatch}
    BY DEF Serve, TypeOK, Request, Fors
  <1>1. CASE ServeRead(c)
    <2>1. [View(Latest) EXCEPT !.rows = {}] \in Views \/ Latest = NoBatch
      BY LatestIsKnown, ViewTypes
    <2>2. c.id # NoBatch => View(c.id) \in Views
      BY <1>0, ViewTypes
    <2>3. PICK at \in {"answered", "gone"}, view \in Views : Answer(c, at, view)
      BY <1>1, <2>1, <2>2, ViewTypes DEF ServeRead
    <2>4. calls' \subseteq Request
      BY <1>0, <2>3, AnswerTypes
    <2> QED BY <1>0, <1>1, <2>4 DEF ServeRead, TypeOK, Request, Fors, shownVars, loginVars
  <1>2. CASE ServeStart(c)
    <2>0. MaxBatches \in Nat
      BY DashboardAssumption
    <2>1. CASE /\ created < MaxBatches /\ created' = created + 1
               /\ status' = [status EXCEPT ![created'] = "running"]
               /\ Answer(c, "answered", [status |-> "running", id |-> created', rows |-> {}])
      <3>1. created' \in Batch
        BY <2>0, <2>1 DEF TypeOK, Batch, NoBatch
      <3>2. status' \in [Batch -> Statuses \cup {Unknown}]
        BY <2>1, <3>1 DEF TypeOK, Statuses
      <3>3. [status |-> "running", id |-> created', rows |-> {}] \in Views
        BY <3>1 DEF Views, Statuses
      <3>4. calls' \subseteq Request
        BY <1>0, <2>1, <3>3, AnswerTypes
      <3> QED BY <1>0, <1>2, <3>1, <3>2, <3>4 DEF ServeStart, TypeOK, Request, Fors, shownVars, loginVars
    <2>2. CASE Answer(c, "refused", NoAnswer) /\ UNCHANGED <<status, created>>
      <3>1. calls' \subseteq Request
        BY <1>0, <2>2, AnswerTypes, ViewTypes
      <3> QED BY <1>0, <1>2, <2>2, <3>1 DEF ServeStart, TypeOK, Request, Fors, shownVars, loginVars
    <2> QED BY <1>2, <2>1, <2>2 DEF ServeStart
  <1>3. CASE ServeStop(c)
    <2>0. c.id \in Batch
      BY <1>3 DEF Sound, Changes, ServeStop
    <2> DEFINE s == StoppedAs(status[c.id])
    <2>4. s \in Statuses \cup {Unknown}
      BY <1>0, <2>0 DEF StoppedAs, TypeOK, Statuses, Ended
    <2>5. \/ status' = [status EXCEPT ![c.id] = s]
             /\ Answer(c, "answered", [status |-> s, id |-> c.id, rows |-> {}])
          \/ status' = status /\ Answer(c, "refused", NoAnswer)
      BY <1>3 DEF ServeStop
    <2> HIDE DEF s
    <2>1. status' \in [Batch -> Statuses \cup {Unknown}]
      BY <2>0, <2>4, <2>5 DEF TypeOK
    <2>2. [status |-> s, id |-> c.id, rows |-> {}] \in Views
      BY <2>0, <2>4 DEF Views
    <2>3. calls' \subseteq Request
      BY <1>0, <2>2, <2>5, AnswerTypes, ViewTypes
    <2> QED BY <1>0, <1>3, <2>1, <2>3 DEF ServeStop, TypeOK, Request, Fors, shownVars, loginVars
  <1>4. CASE ServeControl(c)
    <2>1. calls' \subseteq Request
      BY <1>0, <1>4, AnswerTypes, ViewTypes DEF ServeControl
    <2> QED BY <1>0, <1>4, <2>1 DEF ServeControl, TypeOK, Request, Fors, shownVars, loginVars
  <1> QED BY <1>1, <1>2, <1>3, <1>4 DEF Serve

LEMMA AskTypes ==
    ASSUME TypeOK, User \/ MountRefresh \/ StartPolling \/ Poll \/ LoginStep
    PROVE  TypeOK'
  <1>0. calls \subseteq Request /\ mount \in {"batches", "settings", "refresh", "done"}
        /\ starting \in BOOLEAN /\ stopping \in BOOLEAN /\ currentId \in Batch \cup {NoBatch}
    BY DEF TypeOK, Request, Fors
  <1>1. Click => clicks' \in 0..MaxClicks
    BY DashboardAssumption DEF Click, TypeOK
  <1>2. CASE Start
    <2>1. calls' \subseteq Request
      BY <1>0, <1>2, CallTypes DEF Start, Send, Kinds, Fors
    <2> QED BY <1>1, <1>2, <2>1 DEF Start, Click, TypeOK, Request, Fors, shownVars, serverVars, loginVars
  <1>3. CASE Stop
    <2>1. calls' \subseteq Request
      BY <1>0, <1>3, CallTypes DEF Stop, Send, Kinds, Fors
    <2> QED BY <1>1, <1>3, <2>1 DEF Stop, Click, TypeOK, Request, Fors, shownVars, serverVars, loginVars
  <1>4. ASSUME NEW r \in activations, NEW kind \in {"success", "delete"}, Control(kind, r)
        PROVE  TypeOK'
    <2>1. r.batch \in Batch /\ r.number \in Numbers
      BY DEF TypeOK, Rows
    <2>2. calls' \subseteq Request
      BY <1>0, <1>4, <2>1, CallTypes DEF Control, Send, Kinds, Fors
    <2> QED BY <1>1, <1>4, <2>2 DEF Control, Click, TypeOK, Request, Fors, shownVars, serverVars, loginVars
  <1>5. CASE MountRefresh
    <2>1. calls' \subseteq Request
      BY <1>0, <1>5, CallTypes DEF MountRefresh, Kinds, Fors
    <2>2. mount' \in {"done", "refresh"}
      BY <1>5 DEF MountRefresh
    <2> QED BY <1>5, <2>1, <2>2 DEF MountRefresh, TypeOK, Request, Fors, shownVars, serverVars, loginVars
  <1>6. CASE StartPolling
    BY <1>6 DEF StartPolling, TypeOK, shownVars, serverVars, loginVars
  <1>7. CASE Poll
    <2>1. /\ calls' \subseteq Request /\ mount' \in {"batches", "settings", "refresh", "done"}
          /\ starting' \in BOOLEAN /\ stopping' \in BOOLEAN
      BY <1>0, <1>7, RefreshTypes DEF Poll, Fors
    <2> QED BY <1>7, <2>1 DEF Poll, TypeOK, Request, Fors, shownVars, serverVars, loginVars
  <1>8. CASE LoginStep
    <2>1. /\ loginAsk' \in {"none", "asked", "lost", "served"}
          /\ loginAnswer' \in 0..MaxLogins /\ loginShown' \in 0..MaxLogins
      BY <1>8, DashboardAssumption
         DEF LoginStep, AskLogin, ServeLogin, ShowLogin, AbortLogin, LoseLogin, TypeOK
    <2>2. faults' \in SUBSET (Kinds \cup {"login", "erased"})
      BY <1>8, FaultTypes DEF LoginStep, TypeOK
    <2> QED BY <1>8, <2>1, <2>2 DEF LoginStep, TypeOK, shownVars, serverVars
  <1> QED BY <1>2, <1>3, <1>4, <1>5, <1>6, <1>7, <1>8 DEF User

LEMMA ReceiveTypes ==
    ASSUME TypeOK, NEW c \in calls, Receive(c) \/ Fail(c)
    PROVE  TypeOK'
  <1>0. /\ calls \subseteq Request /\ c \in Request /\ c.view \in Views
        /\ calls \ {c} \subseteq Request /\ Stale(calls \ {c}) \subseteq Request
        /\ mount \in {"batches", "settings", "refresh", "done"}
        /\ starting \in BOOLEAN /\ stopping \in BOOLEAN /\ currentId \in Batch \cup {NoBatch}
    BY StaleTypes DEF TypeOK, Request, Fors
  <1>v. /\ c.view.id \in Batch \cup {NoBatch} /\ c.view.status \in Statuses \cup {Unknown}
        /\ c.view.rows \subseteq Rows
    BY <1>0 DEF Views
  <1>1. CASE Restored(c)
    <2>1. calls' \subseteq Request
      BY <1>0, <1>1 DEF Restored
    <2>2. /\ currentId' \in Batch \cup {NoBatch} /\ current' \in Statuses \cup {Unknown}
          /\ activations' \subseteq Rows
      BY <1>1, <1>v DEF Restored, Show, TypeOK, shownVars
    <2> QED BY <1>1, <2>1, <2>2 DEF Restored, TypeOK, Request, Fors, serverVars, loginVars
  <1>2. CASE Refreshed(c)
    <2>1. calls' \subseteq Request
      BY <1>0, <1>2 DEF Refreshed
    <2>2. /\ currentId' \in Batch \cup {NoBatch} /\ current' \in Statuses \cup {Unknown}
          /\ activations' \subseteq Rows
      BY <1>2, <1>v DEF Refreshed, Show, TypeOK, shownVars
    <2>3. /\ mount' \in {"batches", "settings", "refresh", "done"}
          /\ starting' \in BOOLEAN /\ stopping' \in BOOLEAN
      BY <1>0, <1>2 DEF Refreshed, Over
    <2> QED BY <1>2, <2>1, <2>2, <2>3 DEF Refreshed, TypeOK, Request, Fors, serverVars, loginVars
  <1>3. CASE Started(c)
    <2>1. /\ calls' \subseteq Request /\ mount' \in {"batches", "settings", "refresh", "done"}
          /\ starting' \in BOOLEAN /\ stopping' \in BOOLEAN /\ polling' \in BOOLEAN
      BY <1>0, <1>3, <1>v, RefreshTypes DEF Started, Fors, TypeOK
    <2>2. /\ currentId' \in Batch \cup {NoBatch} /\ current' \in Statuses \cup {Unknown}
          /\ activations' \subseteq Rows
      BY <1>3, <1>v DEF Started, Show, TypeOK, shownVars
    <2> QED BY <1>3, <2>1, <2>2 DEF Started, TypeOK, Request, Fors, serverVars, loginVars
  <1>4. CASE Stopped(c)
    <2>1. /\ calls' \subseteq Request /\ mount' \in {"batches", "settings", "refresh", "done"}
          /\ starting' \in BOOLEAN /\ stopping' \in BOOLEAN
      BY <1>0, <1>4, <1>v, RefreshTypes DEF Stopped, Fors
    <2>2. /\ currentId' \in Batch \cup {NoBatch} /\ current' \in Statuses \cup {Unknown}
          /\ activations' \subseteq Rows
      BY <1>4, <1>v DEF Stopped, Show, TypeOK, shownVars
    <2> QED BY <1>4, <2>1, <2>2 DEF Stopped, TypeOK, Request, Fors, serverVars, loginVars
  <1>5. CASE Controlled(c)
    <2>1. /\ calls' \subseteq Request /\ mount' \in {"batches", "settings", "refresh", "done"}
          /\ starting' \in BOOLEAN /\ stopping' \in BOOLEAN
      BY <1>0, <1>5, RefreshTypes DEF Controlled, Fors
    <2>2. /\ currentId' \in Batch \cup {NoBatch} /\ current' \in Statuses \cup {Unknown}
          /\ activations' \subseteq Rows
      BY <1>5 DEF Controlled, TypeOK, shownVars
    <2> QED BY <1>5, <2>1, <2>2 DEF Controlled, TypeOK, Request, Fors, serverVars, loginVars
  <1>6. CASE Fail(c)
    <2>1. calls' \subseteq Request
      BY <1>0, <1>6, AnswerTypes, ViewTypes DEF Fail
    <2>2. faults' \in SUBSET (Kinds \cup {"login", "erased"})
      BY <1>0, <1>6, FaultTypes DEF Fail, Request
    <2> QED BY <1>6, <2>1, <2>2 DEF Fail, TypeOK, Request, Fors, shownVars, serverVars, loginVars
  <1> QED BY <1>1, <1>2, <1>3, <1>4, <1>5, <1>6 DEF Receive
-----------------------------------------------------------------------------
(* What a step leaves sound *)

\* The server goes on: what is not running stays so, what is gone stays gone.
Onward ==
    /\ created <= created' /\ created \in Nat /\ created' \in Nat
    /\ \A b \in Batch : b <= created /\ status[b] \in Ended \cup {Unknown} => status'[b] \in Ended \cup {Unknown}
    /\ \A b \in Batch : b <= created /\ status[b] = Unknown => status'[b] = Unknown

LEMMA GoneStays ==
    ASSUME TypeOK, Onward, NEW b, Gone(b)
    PROVE  Gone(b)'
  <1>1. b \in Nat /\ b <= created'
    BY DashboardAssumption DEF Gone, Onward, Batch
  <1> QED BY <1>1 DEF Gone, Onward

LEMMA Carries ==
    ASSUME TypeOK, NEW d \in Request, Sound(d), Onward, currentId' \in Nat,
           d.kind = "batches" => mount' = "batches",
           d.kind = "start" => mount' # "batches" /\ starting' /\ currentId' <= currentId,
           d.kind = "refresh" => /\ d.for = "start" => starting'
                                 /\ d.for = "mount" => mount' # "batches",
           (d.kind = "refresh" /\ d.fresh) => UNCHANGED <<currentId, current>>
    PROVE  Sound(d)'
  <1>0. /\ d.id \in Nat /\ d.view.id \in Nat /\ currentId \in Nat
        /\ d.id \in Batch \/ d.id = NoBatch
    BY DashboardAssumption DEF Request, Views, Batch, NoBatch, TypeOK
  <1>1. (d.kind \in {"success", "delete"} \/ d.id <= created') /\ d.view.id <= created'
    BY <1>0 DEF Sound, Onward
  <1>2. d.at = "gone" => d.kind = "refresh" /\ d.id \in Batch /\ status'[d.id] = Unknown
    BY DEF Sound, Onward
  <1>3. \A b : Gone(b) => Gone(b)'
    BY GoneStays
  <1>4. Reads(d)'
    BY <1>3 DEF Sound, Reads, Current
  <1>5. Changes(d)'
    BY <1>0, <1>3 DEF Sound, Changes
  <1> QED BY <1>1, <1>2, <1>4, <1>5 DEF Sound

LEMMA Sets ==
    ASSUME NEW cs, cs \subseteq Request, Alone(cs)
    PROVE  /\ Alone(Stale(cs))
           /\ \A c \in Stale(cs) : \E d \in cs : c = [d EXCEPT !.fresh = FALSE]
  <1>1. ASSUME NEW c \in cs
        PROVE  /\ [c EXCEPT !.fresh = FALSE].kind = c.kind
               /\ [c EXCEPT !.fresh = FALSE].for = c.for
    BY DEF Request
  <1>2. \A c \in Stale(cs) : \E d \in cs : c = [d EXCEPT !.fresh = FALSE]
    BY DEF Stale
  <1>3. ASSUME NEW c \in Stale(cs), NEW e \in Stale(cs)
        PROVE  /\ (c.kind = e.kind /\ c.kind \in {"batches", "start", "refresh"}) => c = e
               /\ (c.kind = "start" /\ e.kind = "refresh") => e.for # "start"
    <2>1. PICK d \in cs : c = [d EXCEPT !.fresh = FALSE]
      BY <1>2
    <2>2. PICK f \in cs : e = [f EXCEPT !.fresh = FALSE]
      BY <1>2
    <2>3. c.kind = d.kind /\ e.kind = f.kind /\ e.for = f.for
      BY <1>1, <2>1, <2>2
    <2> QED BY <2>1, <2>2, <2>3 DEF Alone
  <1> QED BY <1>2, <1>3 DEF Alone

\* A request whose answer will not be shown is as sound as it was.
LEMMA SetAside ==
    ASSUME NEW d \in Request, Sound(d)
    PROVE  /\ Sound([d EXCEPT !.fresh = FALSE]) /\ [d EXCEPT !.fresh = FALSE] \in Request
           /\ [d EXCEPT !.fresh = FALSE].kind = d.kind /\ [d EXCEPT !.fresh = FALSE].for = d.for
           /\ [d EXCEPT !.fresh = FALSE].fresh = FALSE
  <1> DEFINE e == [d EXCEPT !.fresh = FALSE]
  <1>1. /\ e \in Request /\ e.kind = d.kind /\ e.for = d.for /\ e.id = d.id /\ e.at = d.at
        /\ e.view = d.view /\ e.fresh = FALSE
    BY DEF Request
  <1> HIDE DEF e
  <1>2. Reads(e)
    BY <1>1 DEF Sound, Reads, Current
  <1>3. Changes(e)
    BY <1>1 DEF Sound, Changes
  <1>4. Sound(e)
    BY <1>1, <1>2, <1>3 DEF Sound
  <1> QED BY <1>1, <1>4 DEF e

\* A new refresh, beside requests that are sound after the step.
LEMMA NewRefresh ==
    ASSUME TypeOK', NEW cs, cs \subseteq Request, NEW id \in Batch \cup {NoBatch}, id <= created',
           NEW for \in Fors, Alone(cs), created' \in Nat, ~Refreshing(cs),
           calls' = cs \cup {Call("refresh", id, Unknown, for)},
           for = "start" => starting' /\ \A c \in cs : c.kind # "start",
           for = "mount" => mount' # "batches"
    PROVE  /\ Alone(calls')
           /\ \A c \in calls' : c \in cs \/ Sound(c)'
  <1> DEFINE n == Call("refresh", id, Unknown, for)
  <1>1. calls' = cs \cup {n} /\ \A c \in cs : c.kind # "refresh"
    BY DEF Refreshing
  <1>2. /\ n.kind = "refresh" /\ n.for = for /\ n.id = id /\ n.at = "sent" /\ n.view = NoAnswer
        /\ n.view.id = 0 /\ n.view.rows = {}
    BY DEF Call, NoAnswer, NoBatch
  <1> HIDE DEF n
  <1>3. Alone(calls')
    BY <1>1, <1>2 DEF Alone
  <1>4. Sound(n)'
    BY <1>2 DEF Sound, Reads, Changes
  <1> QED BY <1>1, <1>3, <1>4

LEMMA Refreshes ==
    ASSUME TypeOK', NEW cs, cs \subseteq Request, NEW id \in Batch \cup {NoBatch}, id <= created',
           NEW for \in Fors, Refresh(cs, id, for), Alone(cs), created' \in Nat,
           for = "start" => \A c \in cs : c.kind # "start",
           (for = "start" /\ ~Refreshing(cs)) => starting',
           for = "mount" => mount' # "batches"
    PROVE  /\ Alone(calls')
           /\ \A c \in calls' : c \in cs \/ Sound(c)'
  <1>1. CASE Refreshing(cs)
    BY <1>1 DEF Refresh
  <1>2. CASE ~Refreshing(cs)
    BY <1>2, NewRefresh DEF Refresh
  <1> QED BY <1>1, <1>2
-----------------------------------------------------------------------------
(* The server's steps *)

LEMMA Numerals ==
    ASSUME TypeOK
    PROVE  /\ MaxBatches \in Nat /\ Unknown \notin Statuses /\ NoBatch = 0 /\ NoBatch \notin Batch
           /\ created \in Nat /\ currentId \in Nat /\ Batch \subseteq Nat
           /\ calls \subseteq Request
           /\ \A c \in calls : c.id \in Nat /\ c.view.id \in Nat
  BY DashboardAssumption DEF TypeOK, Request, Fors, Views, Batch, NoBatch

\* A step of the server that the page does not see.
LEMMA Unseen ==
    ASSUME DashInv, Onward, \A b \in Batch : b > created' => status'[b] = Unknown,
           created' <= MaxBatches,
           UNCHANGED <<mount, shownVars, starting>>
    PROVE  /\ Shown'
           /\ \A d \in calls : Sound(d)'
  <1>0. /\ created \in Nat /\ currentId \in Nat /\ calls \subseteq Request
        /\ UNCHANGED <<mount, currentId, current, activations, starting>>
    BY Numerals DEF DashInv, shownVars
  <1>1. Gone(currentId) => Gone(currentId)'
    BY <1>0, GoneStays DEF DashInv, Gone, Onward
  <1>2. Shown'
    <2>1. currentId' <= created'
      BY <1>0 DEF DashInv, Good, Shown, Onward
    <2> QED BY <1>0, <1>1, <2>1 DEF DashInv, Good, Shown, RowsBelong
  <1>3. ASSUME NEW d \in calls PROVE Sound(d)'
    <2>1. Sound(d) /\ TypeOK /\ d \in Request
      BY <1>0 DEF DashInv, Good
    <2>2. /\ d.kind = "batches" => mount = "batches"
          /\ d.kind = "start" => mount # "batches" /\ starting
          /\ d.kind = "refresh" => (d.for = "start" => starting) /\ (d.for = "mount" => mount # "batches")
      BY <2>1 DEF Sound, Reads, Changes
    <2>3. currentId' \in Nat /\ currentId' <= currentId
      BY <1>0
    <2> QED BY <1>0, <2>1, <2>2, <2>3, Carries
  <1> QED BY <1>2, <1>3

LEMMA Worked ==
    ASSUME DashInv, Work
    PROVE  Good'
  <1>0. /\ UNCHANGED <<mount, shownVars, starting, calls, created>>
        /\ created \in Nat /\ created <= MaxBatches /\ Batch \subseteq Nat /\ Unknown \notin Statuses
        /\ status \in [Batch -> Statuses \cup {Unknown}]
        /\ \A b \in Batch : b > created => status[b] = Unknown
    BY Numerals DEF Work, Erase, End, Buy, Hide, Relogin, DashInv, Good, Shown, TypeOK
  <1>1. ASSUME NEW b \in Batch
        PROVE  \/ status'[b] = status[b]
               \/ status[b] = "running" /\ status'[b] \in Ended
               \/ status[b] \in Ended /\ status'[b] = Unknown
    <2>1. ASSUME NEW x \in Batch, Erase(x)
          PROVE  status'[b] = status[b] \/ (status[b] \in Ended /\ status'[b] = Unknown)
      BY <1>0, <2>1 DEF Erase
    <2>2. ASSUME NEW x \in Batch, End(x)
          PROVE  status'[b] = status[b] \/ (status[b] = "running" /\ status'[b] \in Ended)
      <3>1. PICK y \in {"completed", "failed"} : status' = [status EXCEPT ![x] = y]
        BY <2>2 DEF End
      <3> QED BY <1>0, <2>2, <3>1 DEF End, Ended
    <2>3. (\E x \in Batch : Erase(x) \/ End(x)) \/ status' = status
      BY DEF Work, Buy, Hide, Relogin
    <2> QED BY <2>1, <2>2, <2>3
  <1>2. Onward /\ \A b \in Batch : b > created' => status'[b] = Unknown
    BY <1>0, <1>1 DEF Onward, Statuses, Ended
  <1>3. Shown' /\ \A d \in calls : Sound(d)'
    BY <1>0, <1>2, Unseen
  <1> QED BY <1>0, <1>3 DEF DashInv, Good

\* An answer leaves the requests what they are.
LEMMA Answers ==
    ASSUME DashInv, NEW c \in calls, NEW at \in {"answered", "refused", "gone"}, NEW view \in Views,
           Answer(c, at, view)
    PROVE  /\ Alone(calls')
           /\ \E e \in Request :
                 /\ calls' \subseteq calls \cup {e}
                 /\ e.kind = c.kind /\ e.for = c.for /\ e.id = c.id /\ e.at = at /\ e.view = view
  <1> DEFINE e == [c EXCEPT !.at = at, !.view = view]
  <1>1. calls \subseteq Request /\ Alone(calls)
    BY Numerals DEF DashInv, Good
  <1>2. /\ e \in Request /\ e.kind = c.kind /\ e.for = c.for /\ e.id = c.id /\ e.at = at
        /\ e.view = view /\ e.fresh = c.fresh
    BY <1>1 DEF Request
  <1>3. calls' = (calls \ {c}) \cup {e}
    BY DEF Answer
  <1> HIDE DEF e
  <1>4. Alone(calls')
    BY <1>1, <1>2, <1>3 DEF Alone
  <1> QED BY <1>2, <1>3, <1>4 DEF e
LEMMA ServingRead ==
    ASSUME DashInv, NEW c \in calls, c.at = "sent", ServeRead(c),
           UNCHANGED <<mount, shownVars, starting>>
    PROVE  Good'
  <1>0. /\ UNCHANGED <<status, created, rows, mount, currentId, current, activations, starting>>
        /\ created \in Nat /\ created <= MaxBatches /\ Unknown \notin Statuses
        /\ NoBatch = 0 /\ NoBatch \notin Batch /\ calls \subseteq Request
        /\ \A b \in Batch : b > created => status[b] = Unknown
        /\ (currentId = NoBatch => current = Unknown) /\ (current \in Ended => Gone(currentId))
        /\ Sound(c) /\ c.id \in Nat /\ c.id <= created /\ (c.id = NoBatch \/ c.id \in Batch)
    BY Numerals DEF ServeRead, DashInv, Good, Shown, shownVars, Sound, Request
  <1>1. Onward
    BY <1>0 DEF Onward
  <1>2. Shown' /\ \A d \in calls : Sound(d)'
    BY <1>0, <1>1, Unseen
  <1>3. CASE c.kind = "batches"
    <2> DEFINE v == IF Latest = NoBatch THEN NoAnswer ELSE [View(Latest) EXCEPT !.rows = {}]
    <2>1. /\ Latest \in Batch \cup {NoBatch} /\ Latest <= created
          /\ Latest # NoBatch => Latest \in Batch /\ status[Latest] \in Statuses
      BY LatestIsKnown DEF DashInv, Good
    <2>2. /\ v \in Views /\ v.id <= created
          /\ v.status \in Ended => Gone(v.id)
      <3>1. CASE Latest = NoBatch
        BY <1>0, <3>1, ViewTypes DEF NoAnswer, Statuses, DashInv
      <3>2. CASE Latest # NoBatch
        <4>1. v = [View(Latest) EXCEPT !.rows = {}] /\ v \in Views
          BY <2>1, <3>2, ViewTypes DEF DashInv
        <4>2. v.id = Latest /\ v.status = status[Latest]
          BY <4>1 DEF View
        <4> QED BY <2>1, <3>2, <4>1, <4>2 DEF Gone
      <3> QED BY <3>1, <3>2
    <2>3. Answer(c, "answered", v)
      BY <1>3 DEF ServeRead
    <2>4. PICK e \in Request :
              /\ Alone(calls') /\ calls' \subseteq calls \cup {e}
              /\ e.kind = c.kind /\ e.for = c.for /\ e.id = c.id /\ e.at = "answered" /\ e.view = v
      <3> HIDE DEF v
      <3> QED BY <2>2, <2>3, Answers
    <2> HIDE DEF v
    <2>5. mount = "batches"
      BY <1>0, <1>3 DEF Sound, Reads
    <2>6. Sound(e)'
      BY <1>0, <1>3, <2>2, <2>4, <2>5 DEF Sound, Reads, Changes, Gone
    <2> QED BY <1>2, <2>4, <2>6 DEF Good
  <1>4. CASE c.kind = "refresh" /\ c.id = NoBatch
    <2> DEFINE v == [NoAnswer EXCEPT !.rows = rows]
    <2>1. v \in Views /\ v.id = NoBatch /\ v.status = Unknown
      BY ViewTypes DEF NoAnswer, DashInv
    <2>2. Answer(c, "answered", v)
      BY <1>0, <1>4 DEF ServeRead
    <2>3. PICK e \in Request :
              /\ Alone(calls') /\ calls' \subseteq calls \cup {e}
              /\ e.kind = c.kind /\ e.for = c.for /\ e.id = c.id /\ e.at = "answered" /\ e.view = v
      <3> HIDE DEF v
      <3> QED BY <2>1, <2>2, Answers
    <2> HIDE DEF v
    <2>4. /\ c.for = "start" => starting
          /\ c.for = "mount" => mount # "batches"
      BY <1>0, <1>4 DEF Sound, Reads
    <2>5. Unknown \notin Ended
      BY <1>0 DEF Statuses
    <2>6. Sound(e)'
      BY <1>0, <1>4, <2>1, <2>3, <2>4, <2>5 DEF Sound, Reads, Changes, Current
    <2> QED BY <1>2, <2>3, <2>6 DEF Good
  <1>5. CASE c.kind = "refresh" /\ c.id # NoBatch /\ status[c.id] # Unknown
    <2> DEFINE v == View(c.id)
    <2>1. /\ v \in Views /\ v.id = c.id /\ v.status = status[c.id]
          /\ \A r \in v.rows : r.batch = c.id
      BY <1>0, <1>5, ViewTypes DEF View, RowsOf, DashInv
    <2>2. Answer(c, "answered", v)
      BY <1>0, <1>5 DEF ServeRead
    <2>3. PICK e \in Request :
              /\ Alone(calls') /\ calls' \subseteq calls \cup {e}
              /\ e.kind = c.kind /\ e.for = c.for /\ e.id = c.id /\ e.at = "answered" /\ e.view = v
      <3> HIDE DEF v
      <3> QED BY <2>1, <2>2, Answers
    <2> HIDE DEF v
    <2>4. /\ c.for = "start" => starting
          /\ c.for = "mount" => mount # "batches"
      BY <1>0, <1>5 DEF Sound, Reads
    <2>5. v.status \in Ended => Gone(c.id)'
      BY <1>0, <1>5, <2>1 DEF Gone
    <2>6. (c.id = currentId /\ current \in Ended) => v.status \in Ended
      BY <1>0, <1>5, <2>1 DEF Gone
    <2>7. Reads(e)'
      BY <1>0, <1>5, <2>1, <2>3, <2>4, <2>5, <2>6 DEF Reads, Current
    <2>8. Sound(e)'
      BY <1>0, <1>5, <2>1, <2>3, <2>7 DEF Sound, Changes
    <2> QED BY <1>2, <2>3, <2>8 DEF Good
  <1>6. CASE c.kind = "refresh" /\ c.id # NoBatch /\ status[c.id] = Unknown
    <2> DEFINE v == NoAnswer
    <2>1. v \in Views /\ v.id = NoBatch /\ v.rows = {}
      BY ViewTypes DEF NoAnswer, DashInv
    <2>2. Answer(c, "gone", v)
      BY <1>0, <1>6 DEF ServeRead
    <2>3. PICK e \in Request :
              /\ Alone(calls') /\ calls' \subseteq calls \cup {e}
              /\ e.kind = c.kind /\ e.for = c.for /\ e.id = c.id /\ e.at = "gone" /\ e.view = v
      <3> HIDE DEF v
      <3> QED BY <2>1, <2>2, Answers
    <2> HIDE DEF v
    <2>4. /\ c.for = "start" => starting
          /\ c.for = "mount" => mount # "batches"
      BY <1>0, <1>6 DEF Sound, Reads
    <2>5. Sound(e)'
      BY <1>0, <1>6, <2>1, <2>3, <2>4 DEF Sound, Reads, Changes
    <2> QED BY <1>2, <2>3, <2>5 DEF Good
  <1> QED BY <1>3, <1>4, <1>5, <1>6 DEF ServeRead

LEMMA Refusing ==
    ASSUME DashInv, NEW c \in calls, Answer(c, "refused", NoAnswer) \/ Answer(c, "answered", NoAnswer),
           c.kind \in {"success", "delete"} \/ Answer(c, "refused", NoAnswer),
           UNCHANGED <<status, created, mount, shownVars, starting>>
    PROVE  Good'
  <1>0. /\ UNCHANGED <<status, created, mount, currentId, current, activations, starting>>
        /\ created \in Nat /\ created <= MaxBatches /\ NoBatch = 0
        /\ \A b \in Batch : b > created => status[b] = Unknown
        /\ Sound(c)
    BY Numerals DEF DashInv, Good, Shown, shownVars
  <1>1. Onward
    BY <1>0 DEF Onward
  <1>2. Shown' /\ \A d \in calls : Sound(d)'
    BY <1>0, <1>1, Unseen
  <1>3. PICK at \in {"answered", "refused"} :
           Answer(c, at, NoAnswer) /\ (at = "answered" => c.kind \in {"success", "delete"})
    OBVIOUS
  <1>4. NoAnswer \in Views /\ NoAnswer.id = NoBatch /\ NoAnswer.rows = {}
        /\ NoAnswer.status \notin Ended
    BY ViewTypes, Numerals DEF NoAnswer, DashInv, Statuses
  <1>5. PICK e \in Request :
            /\ Alone(calls') /\ calls' \subseteq calls \cup {e}
            /\ e.kind = c.kind /\ e.for = c.for /\ e.id = c.id /\ e.at = at /\ e.view = NoAnswer
    BY <1>3, <1>4, Answers
  <1>6. /\ c.kind = "batches" => mount = "batches"
        /\ c.kind = "refresh" => (c.for = "start" => starting) /\ (c.for = "mount" => mount # "batches")
        /\ c.kind = "start" => mount # "batches" /\ starting
        /\ c.kind = "stop" => c.id \in Batch
        /\ c.kind \in {"success", "delete"} \/ c.id <= created
    BY <1>0 DEF Sound, Reads, Changes
  <1>7. Sound(e)'
    BY <1>0, <1>3, <1>4, <1>5, <1>6 DEF Sound, Reads, Changes
  <1> QED BY <1>2, <1>5, <1>7 DEF Good

LEMMA Serving ==
    ASSUME DashInv, NEW c \in calls, Serve(c)
    PROVE  Good'
  <1>0. /\ UNCHANGED <<mount, shownVars, currentId, current, activations, starting>>
        /\ MaxBatches \in Nat /\ created \in Nat /\ created <= MaxBatches /\ NoBatch = 0
        /\ Unknown \notin Statuses /\ currentId <= created /\ currentId \in Nat
        /\ status \in [Batch -> Statuses \cup {Unknown}]
        /\ \A b \in Batch : b > created => status[b] = Unknown
        /\ Sound(c) /\ c.at = "sent"
    BY Numerals DEF Serve, DashInv, Good, Shown, shownVars, TypeOK
  <1>1. CASE ServeRead(c)
    BY <1>0, <1>1, ServingRead
  <1>2. CASE ServeControl(c)
    BY <1>0, <1>2, Refusing DEF ServeControl
  <1>3. CASE ServeStart(c)
    <2>1. CASE Answer(c, "refused", NoAnswer) /\ UNCHANGED <<status, created>>
      BY <1>0, <2>1, Refusing
    <2>2. CASE /\ created < MaxBatches /\ created' = created + 1
               /\ status' = [status EXCEPT ![created'] = "running"]
               /\ Answer(c, "answered", [status |-> "running", id |-> created', rows |-> {}])
      <3> DEFINE v == [status |-> "running", id |-> created', rows |-> {}]
      <3>1. created' \in Batch /\ created' \in Nat /\ created' <= MaxBatches
        BY <1>0, <2>2 DEF Batch
      <3>2. /\ \A b \in Batch : b <= created => status'[b] = status[b]
            /\ \A b \in Batch : b > created' => status'[b] = Unknown
        BY <1>0, <2>2, <3>1 DEF Batch
      <3>3. Onward
        BY <1>0, <2>2, <3>1, <3>2 DEF Onward
      <3>4. Shown' /\ \A d \in calls : Sound(d)'
        BY <1>0, <3>1, <3>2, <3>3, Unseen
      <3>5. v \in Views /\ v.id = created' /\ v.status = "running"
        BY <3>1 DEF Views, Statuses
      <3>6. PICK e \in Request :
                /\ Alone(calls') /\ calls' \subseteq calls \cup {e}
                /\ e.kind = c.kind /\ e.for = c.for /\ e.id = c.id /\ e.at = "answered" /\ e.view = v
        <4>1. Answer(c, "answered", v)
          BY <2>2
        <4> HIDE DEF v
        <4> QED BY <3>5, <4>1, Answers
      <3> HIDE DEF v
      <3>7. mount # "batches" /\ starting /\ c.id <= created /\ c.kind = "start"
        BY <1>0, <1>3 DEF Sound, Changes, ServeStart
      <3>8. c.id <= created' /\ created' > currentId
        BY <1>0, <2>2, <3>7, Numerals DEF DashInv
      <3>9. Sound(e)'
        BY <1>0, <3>1, <3>5, <3>6, <3>7, <3>8 DEF Sound, Reads, Changes
      <3> QED BY <3>4, <3>6, <3>9 DEF Good
    <2> QED BY <1>3, <2>1, <2>2 DEF ServeStart
  <1>4. CASE ServeStop(c)
    <2>1. CASE Answer(c, "refused", NoAnswer) /\ UNCHANGED status
      BY <1>0, <1>4, <2>1, Refusing DEF ServeStop
    <2>2. CASE /\ status[c.id] # Unknown
               /\ status' = [status EXCEPT ![c.id] = StoppedAs(status[c.id])]
               /\ Answer(c, "answered", [status |-> StoppedAs(status[c.id]), id |-> c.id, rows |-> {}])
      <3> DEFINE s == StoppedAs(status[c.id])
      <3> DEFINE v == [status |-> s, id |-> c.id, rows |-> {}]
      <3>1. c.id \in Batch /\ c.id <= created /\ created' = created /\ c.kind = "stop"
        BY <1>0, <1>4 DEF Sound, Changes, ServeStop
      <3>0. s \in Ended /\ s \in Statuses
        BY <1>0, <2>2, <3>1 DEF StoppedAs, TypeOK, Statuses, Ended
      <3>10. status' = [status EXCEPT ![c.id] = s] /\ Answer(c, "answered", v)
        BY <2>2
      <3> HIDE DEF s
      <3>2. /\ \A b \in Batch : b # c.id => status'[b] = status[b]
            /\ status'[c.id] = s
        BY <1>0, <3>1, <3>10
      <3>3. Onward /\ \A b \in Batch : b > created' => status'[b] = Unknown
        <4>3. \A b \in Batch : b > created => b # c.id
          BY <1>0, <3>1 DEF Batch
        <4> QED BY <1>0, <2>2, <3>0, <3>1, <3>2, <4>3 DEF Onward
      <3>4. Shown' /\ \A d \in calls : Sound(d)'
        BY <1>0, <3>1, <3>3, Unseen
      <3>5. v \in Views /\ v.id = c.id /\ v.status \in Ended
        BY <3>0, <3>1 DEF Views
      <3>6. PICK e \in Request :
                /\ Alone(calls') /\ calls' \subseteq calls \cup {e}
                /\ e.kind = c.kind /\ e.for = c.for /\ e.id = c.id /\ e.at = "answered" /\ e.view = v
        <4>1. Answer(c, "answered", v)
          BY <3>10
        <4> HIDE DEF v
        <4> QED BY <3>5, <4>1, Answers
      <3>7. Gone(c.id)'
        BY <3>0, <3>1, <3>2 DEF Gone
      <3> HIDE DEF v
      <3>8. Sound(e)'
        BY <1>0, <3>1, <3>5, <3>6, <3>7 DEF Sound, Reads, Changes
      <3> QED BY <3>4, <3>6, <3>8 DEF Good
    <2> QED BY <1>4, <2>1, <2>2 DEF ServeStop
  <1> QED BY <1>1, <1>2, <1>3, <1>4 DEF Serve
-----------------------------------------------------------------------------
(* The page's steps *)

\* The page asks for something, or a timer fires, and shows what it did.
LEMMA Sends ==
    ASSUME DashInv, TypeOK', UNCHANGED <<serverVars, shownVars, mount>>,
           starting => starting',
           NEW n \in Request, n.kind \notin {"batches", "refresh"}, n.at = "sent", n.view = NoAnswer,
           n.kind \in {"success", "delete"} \/ n.id <= created, n.kind = "stop" => n.id \in Batch,
           n.kind = "start" => mount = "done" /\ ~starting /\ starting',
           calls' = calls \cup {n}
    PROVE  Good'
  <1>0. /\ UNCHANGED <<status, created, mount, currentId, current, activations>>
        /\ created \in Nat /\ currentId \in Nat /\ calls \subseteq Request /\ Shown /\ Alone(calls)
        /\ NoBatch = 0 /\ \A d \in calls : Sound(d)
    BY Numerals DEF DashInv, Good, shownVars, serverVars
  <1>1. Shown'
    BY <1>0 DEF Shown, Gone, RowsBelong
  <1>2. ASSUME NEW d \in calls PROVE Sound(d)'
    <2>1. Sound(d) /\ d \in Request /\ TypeOK
      BY <1>0 DEF DashInv
    <2>2. /\ d.kind = "batches" => mount = "batches"
          /\ d.kind = "start" => mount # "batches" /\ starting
          /\ d.kind = "refresh" => (d.for = "start" => starting) /\ (d.for = "mount" => mount # "batches")
      BY <2>1 DEF Sound, Reads, Changes
    <2>3. Onward /\ currentId' \in Nat /\ currentId' <= currentId
      BY <1>0 DEF Onward
    <2> QED BY <1>0, <2>1, <2>2, <2>3, Carries
  <1>3. NoAnswer.id = NoBatch
    BY DEF NoAnswer
  <1>4. Sound(n)'
    BY <1>0, <1>3 DEF Sound, Reads, Changes
  <1>5. ASSUME NEW d \in calls
        PROVE  /\ d.kind = n.kind => d.kind \notin {"batches", "start", "refresh"}
               /\ n.kind = "start" /\ d.kind = "refresh" => d.for # "start"
    BY <1>0 DEF Sound, Reads, Changes
  <1>6. Alone(calls')
    BY <1>0, <1>5 DEF Alone
  <1> QED BY <1>1, <1>2, <1>4, <1>6 DEF Good

LEMMA Clicking ==
    ASSUME DashInv, TypeOK', User
    PROVE  Good'
  <1>0. /\ currentId <= created /\ currentId \in Batch \cup {NoBatch} /\ NoBatch <= created
        /\ (currentId = NoBatch => current = Unknown) /\ Unknown \notin Statuses
        /\ activations \subseteq Rows /\ starting \in BOOLEAN /\ NoBatch \in Nat
    BY Numerals DEF DashInv, Good, Shown, TypeOK
  <1>1. CASE Start
    <2> DEFINE n == Call("start", NoBatch, Unknown, "start")
    <2>1. n \in Request /\ n.kind = "start" /\ n.at = "sent" /\ n.view = NoAnswer /\ n.id = NoBatch
      BY CallTypes DEF Kinds, Fors, Call
    <2>2. /\ calls' = calls \cup {n} /\ starting' = TRUE /\ ~starting /\ mount = "done"
          /\ UNCHANGED <<serverVars, shownVars, mount>>
      BY <1>1 DEF Start, Send, Click
    <2> HIDE DEF n
    <2> QED BY <1>0, <2>1, <2>2, Sends
  <1>2. CASE Stop
    <2> DEFINE n == Call("stop", currentId, Unknown, "stop")
    <2>1. n \in Request /\ n.kind = "stop" /\ n.at = "sent" /\ n.view = NoAnswer /\ n.id = currentId
      BY <1>0, CallTypes DEF Kinds, Fors, Call
    <2>2. /\ calls' = calls \cup {n} /\ starting' = starting
          /\ UNCHANGED <<serverVars, shownVars, mount>>
      BY <1>2 DEF Stop, Send, Click
    <2>3. currentId \in Batch
      BY <1>0, <1>2 DEF Stop, Active, Statuses
    <2> HIDE DEF n
    <2> QED BY <1>0, <2>1, <2>2, <2>3, Sends
  <1>3. ASSUME NEW r \in activations, NEW kind \in {"success", "delete"}, Control(kind, r)
        PROVE  Good'
    <2> DEFINE n == Call(kind, r.batch, r.number, "poll")
    <2>1. r.batch \in Batch /\ r.number \in Numbers
      BY <1>0 DEF Rows
    <2>2. n \in Request /\ n.kind = kind /\ n.at = "sent" /\ n.view = NoAnswer /\ n.id = r.batch
      BY <2>1, CallTypes DEF Kinds, Fors, Call
    <2>3. /\ calls' = calls \cup {n} /\ starting' = starting
          /\ UNCHANGED <<serverVars, shownVars, mount>>
      BY <1>3 DEF Control, Send, Click
    <2> HIDE DEF n
    <2> QED BY <1>0, <2>2, <2>3, Sends
  <1> QED BY <1>1, <1>2, <1>3 DEF User

\* Requests of before the step, sound after it.
LEMMA Carried ==
    ASSUME DashInv, TypeOK', UNCHANGED serverVars, NEW d \in Request, Sound(d),
           d.kind = "batches" => mount' = mount,
           d.kind = "start" => mount' # "batches" /\ starting' /\ currentId' <= currentId,
           d.kind = "refresh" => /\ d.for = "start" => starting'
                                 /\ mount = mount' \/ mount' # "batches",
           (d.kind = "refresh" /\ d.fresh) => UNCHANGED <<currentId, current>>
    PROVE  Sound(d)'
  <1>1. TypeOK /\ created \in Nat /\ Onward
    BY Numerals DEF DashInv, serverVars, Onward
  <1>2. currentId' \in Nat
    BY DashboardAssumption DEF TypeOK, Batch, NoBatch
  <1>3. /\ d.kind = "batches" => mount' = "batches"
        /\ d.kind = "refresh" => (d.for = "mount" => mount' # "batches")
    BY DEF Sound, Reads
  <1> QED BY <1>1, <1>2, <1>3, Carries

LEMMA Asking ==
    ASSUME DashInv, TypeOK', MountRefresh \/ StartPolling \/ Poll \/ LoginStep
    PROVE  Good'
  <1>0. /\ UNCHANGED <<serverVars, status, created, currentId, current, activations>>
        /\ starting \in BOOLEAN
        /\ created \in Nat /\ currentId \in Nat /\ calls \subseteq Request /\ Shown /\ Alone(calls)
        /\ currentId <= created /\ currentId \in Batch \cup {NoBatch}
        /\ \A d \in calls : Sound(d)
    BY Numerals DEF DashInv, Good, Shown, TypeOK, MountRefresh, StartPolling, Poll, LoginStep,
                    serverVars, shownVars
  <1>s. starting' = starting
    BY <1>0 DEF MountRefresh, StartPolling, Poll, LoginStep, Refresh
  <1>1. ASSUME NEW d \in calls, mount' = mount PROVE Sound(d)'
    <2>1. /\ d.kind = "start" => mount # "batches" /\ starting
          /\ d.kind = "refresh" => (d.for = "start" => starting)
      BY <1>0 DEF Sound, Reads, Changes
    <2> QED BY <1>0, <1>s, <1>1, <2>1, Carried
  <1>2. CASE StartPolling \/ LoginStep
    <2>1. calls' = calls /\ mount' = mount
      BY <1>2 DEF StartPolling, LoginStep
    <2>2. Shown'
      BY <1>0, <2>1 DEF Shown, Gone, RowsBelong
    <2> QED BY <1>0, <1>1, <2>1, <2>2 DEF Good
  <1>3. CASE Poll
    <2>1. mount' = mount /\ Refresh(calls, currentId, "poll")
      BY <1>3 DEF Poll, Refresh
    <2>2. Shown'
      BY <1>0, <2>1 DEF Shown, Gone, RowsBelong
    <2>3. Alone(calls') /\ \A d \in calls' : d \in calls \/ Sound(d)'
      BY <1>0, <2>1, Refreshes DEF Fors
    <2> QED BY <1>1, <2>1, <2>2, <2>3 DEF Good
  <1>4. CASE MountRefresh
    <2>1. mount = "settings" /\ mount' # "batches" /\ mount' # mount
      BY <1>4 DEF MountRefresh
    <2>2. Shown'
      BY <1>0, <2>1 DEF Shown, Gone, RowsBelong
    <2>3. ASSUME NEW d \in calls PROVE Sound(d)'
      <3>1. /\ d.kind = "start" => starting
            /\ d.kind = "refresh" => (d.for = "start" => starting)
            /\ d.kind # "batches"
        BY <1>0, <2>1 DEF Sound, Reads, Changes
      <3> QED BY <1>0, <1>s, <2>1, <3>1, Carried
    <2>4. Alone(calls') /\ \A d \in calls' : d \in calls \/ Sound(d)'
      <3>1. CASE Refreshing(calls)
        BY <1>0, <1>4, <3>1 DEF MountRefresh
      <3>2. CASE ~Refreshing(calls)
        <4>1. calls' = calls \cup {Call("refresh", currentId, Unknown, "mount")}
          BY <1>4, <3>2 DEF MountRefresh
        <4> QED BY <1>0, <2>1, <3>2, <4>1, NewRefresh DEF Fors
      <3> QED BY <3>1, <3>2
    <2> QED BY <2>2, <2>3, <2>4 DEF Good
  <1> QED BY <1>2, <1>3, <1>4

\* The same of all requests that are set aside together.
LEMMA AllSetAside ==
    ASSUME DashInv, NEW c \in calls
    PROVE  /\ Alone(Stale(calls \ {c})) /\ Stale(calls \ {c}) \subseteq Request
           /\ \A e \in Stale(calls \ {c}) :
                 /\ Sound(e) /\ e.fresh = FALSE
                 /\ \E d \in calls \ {c} : Sound(d) /\ e.kind = d.kind /\ e.for = d.for
  <1> DEFINE cs == calls \ {c}
  <1>1. /\ cs \subseteq Request /\ Alone(cs) /\ \A d \in cs : Sound(d)
    BY Numerals DEF DashInv, Good, Alone
  <1> HIDE DEF cs
  <1>2. Alone(Stale(cs)) /\ \A e \in Stale(cs) : \E d \in cs : e = [d EXCEPT !.fresh = FALSE]
    BY <1>1, Sets
  <1>3. ASSUME NEW e \in Stale(cs)
        PROVE  /\ Sound(e) /\ e.fresh = FALSE
               /\ \E d \in cs : Sound(d) /\ e.kind = d.kind /\ e.for = d.for
    <2>1. PICK d \in cs : e = [d EXCEPT !.fresh = FALSE]
      BY <1>2
    <2>2. d \in Request /\ Sound(d)
      BY <1>1
    <2> QED BY <2>1, <2>2, SetAside
  <1>4. Stale(cs) \subseteq Request
    BY <1>1, StaleTypes
  <1> QED BY <1>2, <1>3, <1>4 DEF cs

\* What the requests besides the answered one say of the page.
LEMMA Others ==
    ASSUME DashInv, NEW c \in calls, NEW d \in calls \ {c}
    PROVE  /\ Sound(d) /\ d \in Request
           /\ d.kind = c.kind => d.kind \notin {"batches", "start", "refresh"}
           /\ (c.kind = "start" /\ d.kind = "refresh") => d.for # "start"
           /\ (d.kind = "start" /\ c.kind = "refresh") => c.for # "start"
           /\ d.kind = "batches" => mount = "batches"
           /\ d.kind = "start" => mount # "batches" /\ starting
           /\ (d.kind = "refresh" /\ d.for = "start") => starting
  <1>1. Sound(d) /\ d \in Request /\ Alone(calls)
    BY Numerals DEF DashInv, Good
  <1>2. /\ d.kind = "batches" => mount = "batches"
        /\ d.kind = "start" => mount # "batches" /\ starting
        /\ (d.kind = "refresh" /\ d.for = "start") => starting
    BY <1>1 DEF Sound, Reads, Changes
  <1> QED BY <1>1, <1>2 DEF Alone

\* What a step may do to the batch on show (NeverGoesBack).
Forward ==
    \/ currentId' = currentId /\ (current \in Ended => current' \in Ended)
    \/ currentId' > currentId
    \/ currentId' = NoBatch /\ status[currentId] = Unknown

\* What is true of the page and of an answer that comes.
LEMMA Arrives ==
    ASSUME DashInv, NEW c \in calls
    PROVE  /\ calls \subseteq Request /\ c \in Request /\ Sound(c) /\ Alone(calls)
           /\ \A d \in calls : Sound(d)
           /\ NoBatch = 0 /\ Unknown \notin Statuses /\ created \in Nat /\ currentId \in Nat
           /\ created <= MaxBatches /\ \A b \in Batch : b > created => status[b] = Unknown
           /\ currentId <= created /\ (currentId = NoBatch => current = Unknown)
           /\ currentId \in Batch \cup {NoBatch} /\ starting \in BOOLEAN
           /\ (mount = "batches" => currentId = NoBatch) /\ (current \in Ended => Gone(currentId))
           /\ RowsBelong
           /\ c.view.id \in Batch \cup {NoBatch} /\ c.view.id \in Nat /\ c.view.id <= created
           /\ c.view.status \in Statuses \cup {Unknown} /\ c.id \in Nat
  <1>1. DashInv /\ TypeOK /\ Shown /\ Sound(c) /\ c \in Request
    BY Numerals DEF DashInv, Good
  <1>2. /\ c.view.id \in Batch \cup {NoBatch} /\ c.view.status \in Statuses \cup {Unknown}
        /\ c.view.id <= created
    BY <1>1 DEF Request, Views, Sound
  <1>3. currentId \in Batch \cup {NoBatch} /\ starting \in BOOLEAN
    BY <1>1 DEF TypeOK
  <1> QED BY <1>1, <1>2, <1>3, Numerals DEF DashInv, Good, Shown

LEMMA Restoring ==
    ASSUME DashInv, TypeOK', NEW c \in calls, Restored(c)
    PROVE  Good' /\ Forward
  <1>0. /\ UNCHANGED <<serverVars, status, created, starting>>
        /\ c.kind = "batches" /\ mount' = "settings" /\ calls' = Stale(calls \ {c})
    BY DEF Restored, serverVars
  <1>1. /\ mount = "batches" /\ currentId = NoBatch /\ current = Unknown
        /\ c.view.status \in Ended => Gone(c.view.id)
    BY <1>0, Arrives DEF Sound, Reads
  <1>2. ASSUME NEW e \in calls' PROVE Sound(e)'
    <2>1. PICK d \in calls \ {c} : Sound(d) /\ e.kind = d.kind /\ e.for = d.for
      BY <1>0, AllSetAside
    <2>2. Sound(e) /\ e.fresh = FALSE /\ e \in Request
      BY <1>0, AllSetAside
    <2>3. e.kind # "batches" /\ e.kind # "start"
          /\ (e.kind = "refresh" /\ e.for = "start" => starting)
      BY <1>0, <1>1, <2>1, Others
    <2> QED BY <1>0, <2>2, <2>3, Carried
  <1>3. Alone(calls')
    BY <1>0, AllSetAside
  <1>4. CASE c.view.id # NoBatch /\ Show(c.view.id, c.view.status, {})
    <2>1. currentId' = c.view.id /\ current' = c.view.status /\ activations' = {}
      BY <1>4 DEF Show
    <2>2. Shown'
      BY <1>0, <1>1, <1>4, <2>1, Arrives DEF Shown, RowsBelong, Gone
    <2>3. currentId' > currentId
      BY <1>1, <1>4, <2>1, Arrives
    <2> QED BY <1>2, <1>3, <2>2, <2>3 DEF Good, Forward
  <1>5. CASE UNCHANGED shownVars
    <2>1. currentId' = currentId /\ current' = current /\ activations' = activations
      BY <1>5 DEF shownVars
    <2>2. Shown'
      BY <1>0, <1>1, <2>1, Arrives DEF Shown, RowsBelong, Gone
    <2> QED BY <1>2, <1>3, <2>1, <2>2 DEF Good, Forward
  <1> QED BY <1>4, <1>5 DEF Restored

LEMMA RefreshShown ==
    ASSUME DashInv, TypeOK', NEW c \in calls, Refreshed(c)
    PROVE  Good' /\ Forward
  <1>0. /\ UNCHANGED <<serverVars, status, created>>
        /\ c.kind = "refresh" /\ Over(c.for)
        /\ calls' = calls \ {c} \/ calls' = Stale(calls \ {c})
    BY DEF Refreshed, serverVars
  <1>1. /\ c.for = "mount" => mount # "batches"
        /\ mount' = mount \/ (mount' = "done" /\ mount # "batches")
        /\ c.for # "start" => starting' = starting
    BY <1>0, Arrives DEF Sound, Reads, Over
  <1>2. currentId' <= currentId
    BY Arrives DEF Refreshed, Show, shownVars
  <1>3. ASSUME NEW e \in calls' PROVE Sound(e)'
    <2>1. PICK d \in calls \ {c} : e.kind = d.kind /\ e.for = d.for
      <3>1. CASE e \in calls \ {c}
        BY <3>1
      <3>2. CASE e \in Stale(calls \ {c})
        BY <3>2, AllSetAside
      <3> QED BY <1>0, <3>1, <3>2
    <2>2. Sound(e) /\ e \in Request
      BY <1>0, AllSetAside, Arrives
    <2>3. /\ e.kind # "refresh" /\ (e.kind = "batches" => mount = "batches")
          /\ e.kind = "start" => mount # "batches" /\ starting /\ starting' = starting
      BY <1>0, <1>1, <2>1, Others
    <2> QED BY <1>0, <1>1, <1>2, <2>2, <2>3, Carried
  <1>4. Alone(calls')
    <2>1. Alone(calls \ {c})
      BY Arrives DEF Alone
    <2> QED BY <1>0, <2>1, AllSetAside
  <1>5. Shown' /\ Forward
    <2>1. CASE UNCHANGED shownVars
      <3>1. currentId' = currentId /\ current' = current /\ activations' = activations
        BY <2>1 DEF shownVars
      <3>2. Shown'
        BY <1>0, <1>1, <3>1, Arrives DEF Shown, RowsBelong, Gone
      <3> QED BY <3>1, <3>2 DEF Forward
    <2>2. CASE Current(c) /\ c.at = "gone" /\ Show(NoBatch, Unknown, {})
      <3>1. currentId' = NoBatch /\ current' = Unknown /\ activations' = {}
        BY <2>2 DEF Show
      <3>2. Shown'
        BY <1>0, <1>1, <3>1, Arrives DEF Shown, RowsBelong, Statuses
      <3>3. status[currentId] = Unknown
        BY <2>2, Arrives DEF Current, Sound
      <3> QED BY <3>1, <3>2, <3>3 DEF Forward
    <2>3. CASE /\ Current(c) /\ c.at = "answered"
               /\ Show(currentId, IF currentId = NoBatch THEN current ELSE c.view.status, c.view.rows)
      <3>1. /\ currentId' = currentId /\ activations' = c.view.rows
            /\ currentId = NoBatch => current' = current
            /\ currentId # NoBatch => current' = c.view.status
        BY <2>3 DEF Show
      <3>2. /\ c.id = currentId
            /\ c.id # NoBatch => \A r \in c.view.rows : r.batch = c.id
            /\ (c.id # NoBatch /\ c.view.status \in Ended) => Gone(c.id)
            /\ current \in Ended => c.view.status \in Ended
        BY <1>0, <2>3, Arrives DEF Current, Sound, Reads
      <3>3. (current' \in Ended => Gone(currentId)) /\ (current \in Ended => current' \in Ended)
        BY <3>1, <3>2, Arrives
      <3>4. Shown'
        BY <1>0, <1>1, <3>1, <3>2, <3>3, Arrives DEF Shown, RowsBelong, Gone
      <3> QED BY <3>1, <3>3, <3>4 DEF Forward
    <2> QED BY <2>1, <2>2, <2>3 DEF Refreshed
  <1> QED BY <1>3, <1>4, <1>5 DEF Good

LEMMA Starting ==
    ASSUME DashInv, TypeOK', NEW c \in calls, Started(c)
    PROVE  Good' /\ Forward
  <1>0. UNCHANGED <<serverVars, status, created>> /\ c.kind = "start"
    BY DEF Started, serverVars
  <1>1. mount # "batches" /\ starting
    BY <1>0, Arrives DEF Sound, Changes
  <1>2. CASE c.at = "refused" /\ starting' = FALSE /\ calls' = calls \ {c}
             /\ UNCHANGED <<shownVars, mount>>
    <2>1. /\ currentId' = currentId /\ current' = current /\ activations' = activations
          /\ mount' = mount
      BY <1>2 DEF shownVars
    <2>2. Shown'
      BY <1>0, <2>1, Arrives DEF Shown, RowsBelong, Gone
    <2>3. ASSUME NEW d \in calls' PROVE Sound(d)'
      <3>1. /\ Sound(d) /\ d \in Request /\ d.kind # "start" /\ d.kind # "batches"
            /\ d.kind = "refresh" => d.for # "start"
        BY <1>0, <1>1, <1>2, Others
      <3> QED BY <1>0, <2>1, <3>1, Carried
    <2>4. Alone(calls')
      BY <1>2, Arrives DEF Alone
    <2> QED BY <2>1, <2>2, <2>3, <2>4 DEF Good, Forward
  <1>3. CASE c.at = "answered" /\ Show(c.view.id, c.view.status, {})
             /\ Refresh(Stale(calls \ {c}), c.view.id, "start")
    <2> DEFINE cs == Stale(calls \ {c})
    <2>1. currentId' = c.view.id /\ current' = c.view.status /\ activations' = {}
      BY <1>3 DEF Show
    <2>2. c.view.id > currentId /\ c.view.status = "running"
      BY <1>0, <1>3, Arrives DEF Sound, Changes
    <2>3. mount' = mount /\ (~Refreshing(cs) => starting' = starting)
      BY <1>3 DEF Refresh, Over
    <2>4. Shown'
      BY <1>0, <1>1, <2>1, <2>2, <2>3, Arrives DEF Shown, RowsBelong, Ended
    <2>5. cs \subseteq Request /\ Alone(cs)
      BY AllSetAside
    <2>6. ASSUME NEW e \in cs
          PROVE  /\ Sound(e) /\ e.fresh = FALSE /\ e \in Request
                 /\ e.kind # "start" /\ e.kind # "batches" /\ (e.kind = "refresh" => e.for # "start")
      <3>1. PICK d \in calls \ {c} : Sound(d) /\ e.kind = d.kind /\ e.for = d.for
        BY AllSetAside
      <3>2. /\ d.kind # "start" /\ d.kind # "batches" /\ (d.kind = "refresh" => d.for # "start")
        BY <1>0, <1>1, Others
      <3> QED BY <3>1, <3>2, AllSetAside
    <2>7. Refresh(cs, c.view.id, "start")
      BY <1>3
    <2> HIDE DEF cs
    <2>8. Alone(calls') /\ \A e \in calls' : e \in cs \/ Sound(e)'
      BY <1>0, <1>1, <2>3, <2>5, <2>6, <2>7, Arrives, Refreshes DEF Fors
    <2>9. ASSUME NEW e \in cs PROVE Sound(e)'
      BY <1>0, <2>3, <2>6, Carried
    <2> QED BY <2>1, <2>2, <2>4, <2>8, <2>9 DEF Good, Forward
  <1> QED BY <1>2, <1>3 DEF Started

LEMMA Stopping ==
    ASSUME DashInv, TypeOK', NEW c \in calls, Stopped(c)
    PROVE  Good' /\ Forward
  <1>0. /\ UNCHANGED <<serverVars, status, created>> /\ c.kind = "stop"
        /\ mount' = mount /\ starting' = starting
    BY Arrives DEF Stopped, serverVars, Refresh, Over
  <1>1. CASE UNCHANGED shownVars /\ calls' = calls \ {c}
    <2>1. currentId' = currentId /\ current' = current /\ activations' = activations
      BY <1>1 DEF shownVars
    <2>2. Shown'
      BY <1>0, <2>1, Arrives DEF Shown, RowsBelong, Gone
    <2>3. ASSUME NEW d \in calls' PROVE Sound(d)'
      <3>1. /\ Sound(d) /\ d \in Request /\ (d.kind = "start" => mount # "batches" /\ starting)
            /\ (d.kind = "refresh" /\ d.for = "start") => starting
        BY <1>1, Others
      <3> QED BY <1>0, <2>1, <3>1, Arrives, Carried
    <2>4. Alone(calls')
      BY <1>1, Arrives DEF Alone
    <2> QED BY <2>1, <2>2, <2>3, <2>4 DEF Good, Forward
  <1>2. CASE c.at = "answered" /\ c.id = currentId /\ Show(c.view.id, c.view.status, {})
             /\ Refresh(Stale(calls \ {c}), c.view.id, "stop")
    <2> DEFINE cs == Stale(calls \ {c})
    <2>1. currentId' = c.view.id /\ current' = c.view.status /\ activations' = {}
      BY <1>2 DEF Show
    <2>2. c.view.id = currentId /\ c.view.status \in Ended /\ Gone(currentId)
      BY <1>0, <1>2, Arrives DEF Sound, Changes
    <2>3. currentId \in Batch
      BY <2>2 DEF Gone
    <2>4. Shown'
      BY <1>0, <2>1, <2>2, <2>3, Arrives, Numerals DEF Shown, RowsBelong, Gone, DashInv
    <2>5. cs \subseteq Request /\ Alone(cs)
      BY AllSetAside
    <2>6. ASSUME NEW e \in cs
          PROVE  /\ Sound(e) /\ e.fresh = FALSE /\ e \in Request
                 /\ e.kind = "start" => mount # "batches" /\ starting
                 /\ (e.kind = "refresh" /\ e.for = "start") => starting
      <3>1. PICK d \in calls \ {c} : Sound(d) /\ e.kind = d.kind /\ e.for = d.for
        BY AllSetAside
      <3> QED BY <3>1, AllSetAside, Others
    <2>7. Refresh(cs, c.view.id, "stop")
      BY <1>2
    <2> HIDE DEF cs
    <2>8. Alone(calls') /\ \A e \in calls' : e \in cs \/ Sound(e)'
      BY <1>0, <2>5, <2>7, Arrives, Refreshes DEF Fors
    <2>9. ASSUME NEW e \in cs PROVE Sound(e)'
      <3>1. currentId' <= currentId
        BY <2>1, <2>2, Arrives
      <3>2. Sound(e) /\ e \in Request /\ e.fresh = FALSE
        BY <2>6
      <3>3. /\ e.kind = "start" => mount' # "batches" /\ starting'
            /\ (e.kind = "refresh" /\ e.for = "start") => starting'
        BY <1>0, <2>6
      <3> QED BY <1>0, <3>1, <3>2, <3>3, Carried
    <2> QED BY <2>1, <2>2, <2>4, <2>8, <2>9 DEF Good, Forward
  <1> QED BY <1>1, <1>2 DEF Stopped

LEMMA Controlling ==
    ASSUME DashInv, TypeOK', NEW c \in calls, Controlled(c)
    PROVE  Good' /\ Forward
  <1>0. /\ UNCHANGED <<serverVars, status, created>>
        /\ mount' = mount /\ starting' = starting /\ currentId' = currentId /\ current' = current
        /\ activations' \subseteq activations
    BY Arrives DEF Controlled, serverVars, shownVars, Refresh, Over
  <1>1. Shown'
    BY <1>0, Arrives DEF Shown, RowsBelong, Gone
  <1>2. ASSUME NEW d \in calls \ {c} PROVE Sound(d)'
    <2>1. /\ Sound(d) /\ d \in Request /\ (d.kind = "start" => mount # "batches" /\ starting)
          /\ (d.kind = "refresh" /\ d.for = "start") => starting
      BY Others
    <2> QED BY <1>0, <2>1, Arrives, Carried
  <1>3. Alone(calls \ {c}) /\ calls \ {c} \subseteq Request
    BY Arrives DEF Alone
  <1>4. Alone(calls') /\ \A d \in calls' : d \in calls \ {c} \/ Sound(d)'
    <2>1. CASE calls' = calls \ {c}
      BY <1>3, <2>1
    <2>2. CASE Refresh(calls \ {c}, currentId, "poll")
      BY <1>0, <1>3, <2>2, Arrives, Refreshes DEF Fors
    <2> QED BY <2>1, <2>2 DEF Controlled
  <1> QED BY <1>0, <1>1, <1>2, <1>4 DEF Good, Forward
-----------------------------------------------------------------------------
(* The theorems *)

\* Every step keeps the invariant, and moves the page forward.
LEMMA Inductive ==
    ASSUME DashInv, [Next]_vars
    PROVE  DashInv' /\ Forward
  <1>1. CASE UNCHANGED vars
    <2>1. UNCHANGED <<serverVars, mount, shownVars, starting, stopping, polling, calls, loginVars,
                      faults, clicks>>
      BY <1>1 DEF vars
    <2>2. TypeOK'
      BY <2>1 DEF DashInv, TypeOK, serverVars, shownVars, loginVars
    <2>3. UNCHANGED <<status, created, mount, currentId, current, activations, starting, calls>>
      BY <2>1 DEF serverVars, shownVars
    <2>4. Good'
      BY <2>3 DEF DashInv, Good, Shown, Sound, Reads, Changes, Current, Gone, RowsBelong, Alone
    <2> QED BY <2>2, <2>3, <2>4 DEF DashInv, Forward
  <1>2. ASSUME Work \/ (\E c \in calls : Serve(c) \/ Fail(c)) \/ User \/ MountRefresh \/ StartPolling
               \/ Poll \/ LoginStep
        PROVE  currentId' = currentId /\ current' = current
    BY <1>2 DEF Work, Serve, Fail, User, Start, Stop, Control, MountRefresh, StartPolling, Poll,
                LoginStep, shownVars
  <1>3. CASE Work
    BY <1>2, <1>3, WorkTypes, Worked DEF DashInv, Forward
  <1>4. CASE User
    <2>1. TypeOK'
      BY <1>4, AskTypes DEF DashInv
    <2> QED BY <1>2, <1>4, <2>1, Clicking DEF DashInv, Forward
  <1>5. CASE MountRefresh \/ StartPolling \/ Poll \/ LoginStep
    <2>1. TypeOK'
      BY <1>5, AskTypes DEF DashInv
    <2> QED BY <1>2, <1>5, <2>1, Asking DEF DashInv, Forward
  <1>6. ASSUME NEW c \in calls, Serve(c) PROVE DashInv' /\ Forward
    <2>1. TypeOK'
      BY <1>6, ServeTypes DEF DashInv, Good
    <2> QED BY <1>2, <1>6, <2>1, Serving DEF DashInv, Forward
  <1>7. ASSUME NEW c \in calls, Fail(c) PROVE DashInv' /\ Forward
    <2>1. TypeOK'
      BY <1>7, ReceiveTypes DEF DashInv
    <2>2. UNCHANGED <<status, created, mount, shownVars, starting>> /\ Answer(c, "refused", NoAnswer)
      BY <1>7 DEF Fail, serverVars
    <2>3. Good'
      BY <2>2, Refusing
    <2> QED BY <1>2, <1>7, <2>1, <2>3 DEF DashInv, Forward
  <1>8. ASSUME NEW c \in calls, Receive(c) PROVE DashInv' /\ Forward
    <2>1. TypeOK'
      BY <1>8, ReceiveTypes DEF DashInv
    <2> QED BY <1>8, <2>1, Restoring, RefreshShown, Starting, Stopping, Controlling
            DEF DashInv, Receive
  <1> QED BY <1>1, <1>3, <1>4, <1>5, <1>6, <1>7, <1>8 DEF Next

\* The page and its requests are what DashInv says at every moment.
THEOREM DashboardInvariance == Spec => []DashInv
  <1>1. Init => DashInv
    BY Initially
  <1>2. DashInv /\ [Next]_vars => DashInv'
    BY Inductive
  <1> QED BY <1>1, <1>2, PTL DEF Spec

\* The page's state is well formed at every moment.
THEOREM DashboardTypes == Spec => []TypeOK
  <1>1. DashInv => TypeOK
    BY DEF DashInv
  <1> QED BY <1>1, DashboardInvariance, PTL

\* The rows under a batch are that batch's, for any number of batches.
THEOREM RowsOfTheBatch == Spec => []RowsBelong
  <1>1. DashInv => RowsBelong
    BY DEF DashInv, Good, Shown
  <1> QED BY <1>1, DashboardInvariance, PTL

\* The batch on show never goes back, whichever answer arrives first.
THEOREM ShownGoesForward == Spec => NeverGoesBack
  <1>1. DashInv /\ [Next]_vars
           => [ \/ currentId' = currentId /\ (current \in Ended => current' \in Ended)
                \/ currentId' > currentId
                \/ currentId' = NoBatch /\ status[currentId] = Unknown ]_vars
    BY Inductive DEF Forward
  <1> QED BY <1>1, DashboardInvariance, PTL DEF Spec, NeverGoesBack
-----------------------------------------------------------------------------
(* The running batch is on show *)

\* No answer about which batch there is was lost.
NoneLost == {"batches", "start"} \cap faults = {}

\* There is one running batch at most.
Alike == \A b, d \in Running : b = d

\* The page shows a running batch, or is about to: its start is answered.
Found(b) ==
    \/ currentId = b /\ Active
    \/ \E c \in calls : c.kind = "start" /\ c.at = "answered" /\ c.view.id = b

\* What an answer says about the running batch for as long as it is under way.
TellsRefresh(c) ==
    (c.kind = "refresh" /\ c.at = "answered" /\ c.id # NoBatch) => c.view.status # Unknown
TellsStart(c) == (c.kind = "start" /\ c.at = "answered") => Running \subseteq {c.view.id}
TellsBatches(c) ==
    (c.kind = "batches" /\ NoneLost) =>
        /\ c.at # "refused"
        /\ c.at = "answered" => \A b \in Running : c.view.id = b /\ c.view.status = "running"
Tells(c) == TellsRefresh(c) /\ TellsStart(c) /\ TellsBatches(c)

\* From the mount's first answer on, the running batch is found.
Finding ==
    /\ Alike
    /\ \A c \in calls : Tells(c)
    /\ (mount # "batches" /\ NoneLost) => \A b \in Running : Found(b)
FindInv == DashInv /\ Finding

Same(e, d) == e.kind = d.kind /\ e.at = d.at /\ e.id = d.id /\ e.view = d.view

\* An answer says no less when fewer batches run.
LEMMA StillTells ==
    ASSUME Running' \subseteq Running, faults \subseteq faults',
           NEW d, Tells(d), NEW e, Same(e, d)
    PROVE  Tells(e)'
  <1>1. /\ TellsRefresh(d) /\ TellsStart(d) /\ TellsBatches(d)
        /\ e.kind = d.kind /\ e.at = d.at /\ e.id = d.id /\ e.view = d.view
    BY DEF Tells, Same
  <1>2. NoneLost' => NoneLost
    BY DEF NoneLost
  <1>3. TellsRefresh(e)'
    BY <1>1 DEF TellsRefresh
  <1>4. TellsStart(e)'
    BY <1>1 DEF TellsStart
  <1>5. TellsBatches(e)'
    BY <1>1, <1>2 DEF TellsBatches
  <1> QED BY <1>3, <1>4, <1>5 DEF Tells

\* A request that is not served says nothing yet.
LEMMA SentTells ==
    ASSUME NEW e, e.at = "sent"
    PROVE  Tells(e) /\ Tells(e)'
  BY DEF Tells, TellsRefresh, TellsStart, TellsBatches

\* A step that starts no batch, loses no answer to a start, and takes nothing
\* that runs off the page.
LEMMA Finds ==
    ASSUME Finding, Running' \subseteq Running, faults \subseteq faults',
           \A e \in calls' : Tells(e)' \/ \E d \in calls : Same(e, d),
           NoneLost' => \A d \in calls : (d.kind = "start" /\ d.at = "answered")
                                            => \E e \in calls' : Same(e, d),
           mount' # "batches" => mount # "batches",
           (currentId \in Running' /\ Active) => (currentId' = currentId /\ Active')
    PROVE  Finding'
  <1>1. Alike'
    BY DEF Finding, Alike
  <1>2. \A e \in calls' : Tells(e)'
    BY StillTells DEF Finding
  <1>3. ASSUME mount' # "batches", NoneLost', NEW b \in Running' PROVE Found(b)'
    <2>1. b \in Running /\ NoneLost /\ mount # "batches"
      BY <1>3 DEF NoneLost
    <2>2. Found(b)
      BY <2>1 DEF Finding
    <2>3. CASE currentId = b /\ Active
      BY <1>3, <2>3 DEF Found
    <2>4. CASE \E c \in calls : c.kind = "start" /\ c.at = "answered" /\ c.view.id = b
      <3>1. PICK c \in calls : c.kind = "start" /\ c.at = "answered" /\ c.view.id = b
        BY <2>4
      <3>2. PICK e \in calls' : Same(e, c)
        BY <1>3, <3>1
      <3>3. e.kind = "start" /\ e.at = "answered" /\ e.view.id = b
        BY <3>1, <3>2 DEF Same
      <3> QED BY <3>3 DEF Found
    <2> QED BY <2>2, <2>3, <2>4 DEF Found
  <1> QED BY <1>1, <1>2, <1>3 DEF Finding

LEMMA FindsWork ==
    ASSUME FindInv, Work
    PROVE  Finding'
  <1>0. /\ UNCHANGED <<mount, calls, currentId, current>>
        /\ Finding /\ status \in [Batch -> Statuses \cup {Unknown}]
    BY DEF Work, shownVars, FindInv, DashInv, TypeOK
  <1>1. faults \subseteq faults'
    BY DEF Work, Erase, Fault
  <1>2. Running' \subseteq Running
    <2>1. CASE \E b \in Batch : Erase(b)
      <3>1. PICK b \in Batch : status' = [status EXCEPT ![b] = Unknown]
        BY <2>1 DEF Erase
      <3>2. Unknown # "running"
        BY DashboardAssumption DEF Statuses
      <3> QED BY <1>0, <3>1, <3>2 DEF Running
    <2>2. CASE \E b \in Batch : End(b)
      <3>1. PICK b \in Batch, s \in {"completed", "failed"} : status' = [status EXCEPT ![b] = s]
        BY <2>2 DEF End
      <3> QED BY <1>0, <3>1 DEF Running
    <2>3. CASE UNCHANGED status
      BY <2>3 DEF Running
    <2> QED BY <2>1, <2>2, <2>3 DEF Work, Buy, Hide, Relogin
  <1>3. \A e \in calls' : \E d \in calls : Same(e, d)
    BY <1>0 DEF Same
  <1>4. \A d \in calls : \E e \in calls' : Same(e, d)
    BY <1>0 DEF Same
  <1>5. Active => Active'
    BY <1>0 DEF Active
  <1> QED BY <1>0, <1>1, <1>2, <1>3, <1>4, <1>5, Finds

\* The page sends a request, or none, and shows what it showed.
LEMMA FindsAsk ==
    ASSUME FindInv, User \/ MountRefresh \/ StartPolling \/ Poll \/ LoginStep
    PROVE  Finding'
  <1>0. UNCHANGED <<status, currentId, current>> /\ Finding
    BY DEF User, Start, Stop, Control, Click, MountRefresh, StartPolling, Poll, LoginStep,
           shownVars, serverVars, FindInv
  <1>1. faults \subseteq faults'
    BY DEF User, Start, Stop, Control, Click, MountRefresh, StartPolling, Poll, LoginStep, Fault
  <1>2. Running' = Running
    BY <1>0 DEF Running
  <1>3. mount' # "batches" => mount # "batches"
    <2>1. CASE User
      BY <2>1 DEF User, Start, Stop, Control
    <2>2. CASE MountRefresh
      BY <2>2 DEF MountRefresh
    <2>3. CASE StartPolling \/ LoginStep
      BY <2>3 DEF StartPolling, LoginStep
    <2>4. CASE Poll
      BY <2>4 DEF Poll, Refresh
    <2> QED BY <2>1, <2>2, <2>3, <2>4
  <1>4. calls \subseteq calls' /\ \A e \in calls' : e \in calls \/ e.at = "sent"
    <2>1. CASE User
      BY <2>1 DEF User, Start, Stop, Control, Send, Call
    <2>2. CASE MountRefresh
      BY <2>2 DEF MountRefresh, Call
    <2>3. CASE StartPolling \/ LoginStep
      BY <2>3 DEF StartPolling, LoginStep
    <2>4. CASE Poll
      BY <2>4 DEF Poll, Refresh, Call
    <2> QED BY <2>1, <2>2, <2>3, <2>4
  <1>5. \A e \in calls' : Tells(e)' \/ \E d \in calls : Same(e, d)
    BY <1>4, SentTells DEF Same
  <1>6. \A d \in calls : \E e \in calls' : Same(e, d)
    BY <1>4 DEF Same
  <1>7. Active => Active'
    BY <1>0 DEF Active
  <1> QED BY <1>0, <1>1, <1>2, <1>3, <1>5, <1>6, <1>7, Finds
-----------------------------------------------------------------------------
\* A request that is served or fails, among the others.
LEMMA AnswersAre ==
    ASSUME calls \subseteq Request, NEW c \in calls, NEW at, NEW view, Answer(c, at, view)
    PROVE  \E f \in calls' :
              /\ f.kind = c.kind /\ f.id = c.id /\ f.at = at /\ f.view = view
              /\ \A e \in calls' : e = f \/ e \in calls
              /\ \A d \in calls : d = c \/ d \in calls'
              /\ c \in calls' => f = c
  <1> DEFINE f == [c EXCEPT !.at = at, !.view = view]
  <1>1. f.kind = c.kind /\ f.id = c.id /\ f.at = at /\ f.view = view
    BY DEF Request
  <1>2. calls' = (calls \ {c}) \cup {f}
    BY DEF Answer
  <1> HIDE DEF f
  <1>3. /\ f \in calls' /\ (\A e \in calls' : e = f \/ e \in calls)
        /\ (\A d \in calls : d = c \/ d \in calls') /\ (c \in calls' => f = c)
    BY <1>2
  <1> QED BY <1>1, <1>3

\* The server answers a request other than a start that creates a batch.
LEMMA FindsAnswer ==
    ASSUME FindInv, NEW c \in calls, NEW at, NEW view, Answer(c, at, view),
           UNCHANGED <<mount, currentId, current>>,
           Running' \subseteq Running, faults \subseteq faults',
           NoneLost' => ~(c.kind = "start" /\ c.at = "answered"),
           \A f : (f.kind = c.kind /\ f.id = c.id /\ f.at = at /\ f.view = view) => Tells(f)'
    PROVE  Finding'
  <1>1. calls \subseteq Request /\ Finding
    BY Arrives DEF FindInv
  <1>2. PICK f \in calls' :
              /\ f.kind = c.kind /\ f.id = c.id /\ f.at = at /\ f.view = view
              /\ \A e \in calls' : e = f \/ e \in calls
              /\ \A d \in calls : d = c \/ d \in calls'
    BY <1>1, AnswersAre
  <1>3. Tells(f)'
    BY <1>2
  <1>4. \A e \in calls' : Tells(e)' \/ \E d \in calls : Same(e, d)
    BY <1>2, <1>3 DEF Same
  <1>5. NoneLost' => \A d \in calls : (d.kind = "start" /\ d.at = "answered")
                                         => \E e \in calls' : Same(e, d)
    BY <1>2 DEF Same
  <1>6. Active => Active'
    BY DEF Active
  <1> QED BY <1>1, <1>4, <1>5, <1>6, Finds

\* The batch the server calls the latest is the running one, if there is one.
LEMMA LatestRuns ==
    ASSUME TypeOK, Alike, NEW b \in Running
    PROVE  Latest = b /\ Latest # NoBatch
  <1>1. MaxBatches \in Nat /\ Running \subseteq 1..MaxBatches
    BY DashboardAssumption DEF Running, Batch
  <1>2. Max(Running) \in Running
    BY <1>1, Greatest
  <1>3. Latest = Max(Running)
    BY DEF Latest
  <1>4. b # NoBatch
    BY DEF Running, Batch, NoBatch
  <1> QED BY <1>2, <1>3, <1>4 DEF Alike

LEMMA FindsRead ==
    ASSUME FindInv, NEW c \in calls, c.at = "sent", ServeRead(c),
           UNCHANGED <<mount, currentId, current, faults>>
    PROVE  Finding'
  <1>0. /\ UNCHANGED <<status, created, rows>> /\ Finding /\ TypeOK /\ Alike
        /\ NoBatch \notin Batch /\ c.id \in Batch \cup {NoBatch} /\ calls \subseteq Request
    BY Numerals DEF ServeRead, FindInv, DashInv, TypeOK, Request, Finding
  <1>1. Running' = Running
    BY <1>0 DEF Running
  <1>2. CASE /\ c.kind = "batches"
             /\ Answer(c, "answered", IF Latest = NoBatch THEN NoAnswer
                                      ELSE [View(Latest) EXCEPT !.rows = {}])
    <2> DEFINE view == IF Latest = NoBatch THEN NoAnswer ELSE [View(Latest) EXCEPT !.rows = {}]
    <2>1. Answer(c, "answered", view)
      BY <1>2
    <2>2. ASSUME NEW b \in Running PROVE view.id = b /\ view.status = "running"
      <3>1. Latest = b /\ Latest # NoBatch /\ status[b] = "running"
        BY <1>0, <2>2, LatestRuns DEF Running
      <3>2. view = [View(b) EXCEPT !.rows = {}]
        BY <3>1
      <3>3. view.id = b /\ view.status = status[b]
        BY <3>2 DEF View
      <3> QED BY <3>1, <3>3
    <2> HIDE DEF view
    <2>3. ASSUME NEW f, f.kind = c.kind, f.id = c.id, f.at = "answered", f.view = view
          PROVE  Tells(f)'
      BY <1>1, <1>2, <2>2, <2>3 DEF Tells, TellsRefresh, TellsStart, TellsBatches
    <2>4. ~(c.kind = "start" /\ c.at = "answered")
      OBVIOUS
    <2> QED BY <1>1, <2>1, <2>3, <2>4, FindsAnswer
  <1>3. CASE /\ c.kind = "refresh" /\ c.id = NoBatch
             /\ Answer(c, "answered", [NoAnswer EXCEPT !.rows = rows])
    <2> DEFINE view == [NoAnswer EXCEPT !.rows = rows]
    <2>1. Answer(c, "answered", view)
      BY <1>3
    <2> HIDE DEF view
    <2>2. ASSUME NEW f, f.kind = c.kind, f.id = c.id, f.at = "answered", f.view = view
          PROVE  Tells(f)'
      BY <1>3, <2>2 DEF Tells, TellsRefresh, TellsStart, TellsBatches
    <2> QED BY <1>1, <2>1, <2>2, FindsAnswer
  <1>4. CASE /\ c.kind = "refresh" /\ c.id # NoBatch /\ status[c.id] # Unknown
             /\ Answer(c, "answered", View(c.id))
    <2>1. View(c.id).status = status[c.id]
      BY DEF View
    <2>2. ASSUME NEW f, f.kind = c.kind, f.id = c.id, f.at = "answered", f.view = View(c.id)
          PROVE  Tells(f)'
      <3>1. f.view.status # Unknown
        BY <1>4, <2>1, <2>2
      <3> QED BY <1>4, <2>2, <3>1 DEF Tells, TellsRefresh, TellsStart, TellsBatches
    <2> QED BY <1>1, <1>4, <2>2, FindsAnswer
  <1>5. CASE c.kind = "refresh" /\ Answer(c, "gone", NoAnswer)
    <2>1. ASSUME NEW f, f.kind = c.kind, f.id = c.id, f.at = "gone", f.view = NoAnswer
          PROVE  Tells(f)'
      BY <1>5, <2>1 DEF Tells, TellsRefresh, TellsStart, TellsBatches
    <2> QED BY <1>1, <1>5, <2>1, FindsAnswer
  <1> QED BY <1>2, <1>3, <1>4, <1>5 DEF ServeRead

\* A start is answered with a new batch, the only one that runs.
LEMMA FindsCreate ==
    ASSUME FindInv, NEW c \in calls, c.at = "sent", c.kind = "start", Running = {},
           created < MaxBatches, created' = created + 1,
           status' = [status EXCEPT ![created'] = "running"],
           Answer(c, "answered", [status |-> "running", id |-> created', rows |-> {}]),
           UNCHANGED <<mount, currentId, current, faults>>
    PROVE  Finding'
  <1>0. /\ Finding /\ calls \subseteq Request /\ MaxBatches \in Nat /\ created \in Nat
        /\ status \in [Batch -> Statuses \cup {Unknown}]
    BY Numerals DEF FindInv, DashInv, TypeOK
  <1>1. created' \in Batch
    BY <1>0 DEF Batch
  <1>2. Running' = {created'}
    BY <1>0, <1>1 DEF Running
  <1> DEFINE view == [status |-> "running", id |-> created', rows |-> {}]
  <1>3. Answer(c, "answered", view) /\ view.id = created' /\ view.status = "running"
    OBVIOUS
  <1> HIDE DEF view
  <1>4. PICK f \in calls' :
              /\ f.kind = c.kind /\ f.id = c.id /\ f.at = "answered" /\ f.view = view
              /\ \A e \in calls' : e = f \/ e \in calls
              /\ c \in calls' => f = c
    BY <1>0, <1>3, AnswersAre
  <1>5. Alike'
    BY <1>2 DEF Alike
  <1>6. ASSUME NEW e \in calls' PROVE Tells(e)'
    <2>1. CASE e = f
      BY <1>2, <1>3, <1>4, <2>1 DEF Tells, TellsRefresh, TellsStart, TellsBatches
    <2>2. CASE e \in calls /\ e # f
      <3>0. e # c
        BY <1>4, <2>2
      <3>1. Tells(e) /\ Sound(e) /\ (e.kind # "start") /\ mount # "batches"
        BY <1>0, <2>2, <3>0, Others, Arrives DEF Finding, FindInv, Sound, Changes
      <3>2. e.kind # "batches"
        BY <2>2, <3>1 DEF Sound, Reads
      <3> QED BY <3>1, <3>2 DEF Tells, TellsRefresh, TellsStart, TellsBatches
    <2> QED BY <1>4, <2>1, <2>2
  <1>7. \A b \in Running' : Found(b)'
    BY <1>2, <1>3, <1>4 DEF Found
  <1> QED BY <1>5, <1>6, <1>7 DEF Finding

LEMMA FindsServe ==
    ASSUME FindInv, NEW c \in calls, Serve(c)
    PROVE  Finding'
  <1>0. /\ UNCHANGED <<mount, currentId, current, faults>> /\ c.at = "sent" /\ Finding
        /\ status \in [Batch -> Statuses \cup {Unknown}]
    BY DEF Serve, shownVars, FindInv, DashInv, TypeOK
  <1>1. CASE ServeRead(c)
    BY <1>0, <1>1, FindsRead
  <1>2. ASSUME NEW view, NEW at, Answer(c, at, view), c.kind # "refresh", c.kind # "batches",
               c.kind = "start" => at # "answered", Running' \subseteq Running
        PROVE  Finding'
    <2>1. ASSUME NEW f, f.kind = c.kind, f.id = c.id, f.at = at, f.view = view
          PROVE  Tells(f)'
      BY <1>2, <2>1 DEF Tells, TellsRefresh, TellsStart, TellsBatches
    <2> QED BY <1>0, <1>2, <2>1, FindsAnswer
  <1>3. CASE ServeStart(c)
    <2>1. CASE UNCHANGED status /\ Answer(c, "refused", NoAnswer)
      <3>1. Running' \subseteq Running
        BY <2>1 DEF Running
      <3> QED BY <1>2, <1>3, <2>1, <3>1 DEF ServeStart
    <2>2. CASE /\ Running = {} /\ created < MaxBatches /\ created' = created + 1
               /\ status' = [status EXCEPT ![created'] = "running"]
               /\ Answer(c, "answered", [status |-> "running", id |-> created', rows |-> {}])
      BY <1>0, <1>3, <2>2, FindsCreate DEF ServeStart
    <2> QED BY <1>3, <2>1, <2>2 DEF ServeStart
  <1>4. CASE ServeStop(c)
    <2>1. Running' \subseteq Running
      BY <1>0, <1>4 DEF ServeStop, Running, StoppedAs
    <2> QED BY <1>2, <1>4, <2>1 DEF ServeStop
  <1>5. CASE ServeControl(c)
    <2>1. Running' \subseteq Running
      BY <1>5 DEF ServeControl, Running
    <2> QED BY <1>2, <1>5, <2>1 DEF ServeControl
  <1> QED BY <1>1, <1>3, <1>4, <1>5 DEF Serve

\* A request that fails: of a batch list or a start, it is an answer lost.
LEMMA FindsFail ==
    ASSUME FindInv, NEW c \in calls, Fail(c)
    PROVE  Finding'
  <1>1. /\ UNCHANGED <<status, mount, currentId, current>> /\ Finding
        /\ Answer(c, "refused", NoAnswer) /\ faults' = faults \cup {c.kind}
    BY DEF Fail, Fault, shownVars, serverVars, FindInv
  <1>2. Running' = Running
    BY <1>1 DEF Running
  <1>3. NoneLost' => c.kind # "start" /\ c.kind # "batches"
    BY <1>1 DEF NoneLost
  <1>4. ASSUME NEW f, f.kind = c.kind, f.id = c.id, f.at = "refused", f.view = NoAnswer
        PROVE  Tells(f)'
    BY <1>3, <1>4 DEF Tells, TellsRefresh, TellsStart, TellsBatches
  <1> QED BY <1>1, <1>2, <1>3, <1>4, FindsAnswer
-----------------------------------------------------------------------------
\* Setting the generation of requests keeps what they ask and were answered.
LEMMA StaleSame ==
    ASSUME NEW cs, cs \subseteq Request
    PROVE  /\ \A e \in Stale(cs) : \E d \in cs : Same(e, d)
           /\ \A d \in cs : \E e \in Stale(cs) : Same(e, d)
  <1>1. ASSUME NEW d \in cs PROVE Same([d EXCEPT !.fresh = FALSE], d)
    BY DEF Same, Request
  <1> QED BY <1>1 DEF Stale

\* The requests left are those there were but one, and perhaps a new one.
LEMMA FindsLeft ==
    ASSUME FindInv, NEW c \in calls, NEW cs, cs = calls \ {c} \/ cs = Stale(calls \ {c}),
           cs \subseteq calls', \A e \in calls' : e \in cs \/ e.at = "sent"
    PROVE  /\ \A e \in calls' : Tells(e)' \/ \E d \in calls : Same(e, d)
           /\ \A d \in calls \ {c} : \E e \in calls' : Same(e, d)
  <1>1. calls \ {c} \subseteq Request
    BY Arrives DEF FindInv
  <1>2. /\ \A e \in cs : \E d \in calls \ {c} : Same(e, d)
        /\ \A d \in calls \ {c} : \E e \in cs : Same(e, d)
    <2>1. CASE cs = calls \ {c}
      BY <2>1 DEF Same
    <2>2. CASE cs = Stale(calls \ {c})
      BY <1>1, <2>2, StaleSame
    <2> QED BY <2>1, <2>2
  <1> QED BY <1>2, SentTells

\* What a refresh leaves of the requests there were.
LEMMA RefreshLeaves ==
    ASSUME NEW cs, NEW id, NEW for, Refresh(cs, id, for)
    PROVE  /\ cs \subseteq calls' /\ \A e \in calls' : e \in cs \/ e.at = "sent"
           /\ mount' = mount \/ for = "mount"
  BY DEF Refresh, Over, Call

LEMMA FindsRestored ==
    ASSUME FindInv, NEW c \in calls, Restored(c)
    PROVE  Finding'
  <1>0. /\ UNCHANGED <<status, faults>> /\ Finding /\ DashInv /\ c.kind = "batches" /\ c.at # "sent"
        /\ mount' = "settings" /\ calls' = Stale(calls \ {c}) /\ Tells(c)
    BY DEF Restored, serverVars, FindInv, Finding
  <1>1. Running' = Running /\ (NoneLost' <=> NoneLost)
    BY <1>0 DEF Running, NoneLost
  <1>2. Alike' /\ \A e \in calls' : Tells(e)'
    <2>1. \A e \in calls' : Tells(e)' \/ \E d \in calls : Same(e, d)
      BY <1>0, FindsLeft
    <2> QED BY <1>0, <1>1, <2>1, StillTells DEF Finding, Alike
  <1>3. ASSUME NoneLost', NEW b \in Running' PROVE Found(b)'
    <2>1. c.at \in {"answered", "refused", "gone"} /\ c.at # "gone"
      BY <1>0, Arrives DEF Sound, Request
    <2>2. c.view.id = b /\ c.view.status = "running"
      BY <1>0, <1>1, <1>3, <2>1 DEF Tells, TellsBatches
    <2>3. b # NoBatch
      BY <1>1, <1>3 DEF Running, Batch, NoBatch
    <2>4. currentId' = b /\ current' = "running"
      BY <2>2, <2>3 DEF Restored, Show
    <2> QED BY <2>4 DEF Found, Active
  <1> QED BY <1>2, <1>3 DEF Finding

LEMMA FindsRefreshed ==
    ASSUME FindInv, NEW c \in calls, Refreshed(c)
    PROVE  Finding'
  <1>0. /\ UNCHANGED <<status, faults>> /\ Finding /\ DashInv /\ c.kind = "refresh" /\ Over(c.for)
        /\ calls' = calls \ {c} \/ calls' = Stale(calls \ {c})
        /\ Tells(c) /\ Sound(c) /\ Unknown \notin Statuses
    BY Arrives DEF Refreshed, serverVars, FindInv, Finding
  <1>1. Running' = Running
    BY <1>0 DEF Running
  <1>2. mount' # "batches" => mount # "batches"
    BY <1>0 DEF Over, Sound, Reads
  <1>3. /\ \A e \in calls' : Tells(e)' \/ \E d \in calls : Same(e, d)
        /\ \A d \in calls \ {c} : \E e \in calls' : Same(e, d)
    BY <1>0, FindsLeft
  <1>4. ASSUME currentId \in Running, Active PROVE currentId' = currentId /\ Active'
    <2>1. /\ currentId \in Batch /\ status[currentId] = "running" /\ currentId # NoBatch
          /\ ~Gone(currentId)
      BY <1>4, <1>0 DEF Running, Batch, NoBatch, Gone, Ended, Statuses
    <2>2. CASE UNCHANGED shownVars
      BY <1>4, <2>2 DEF shownVars, Active
    <2>3. CASE Current(c) /\ c.at = "gone"
      BY <1>0, <2>1, <2>3 DEF Current, Sound, Statuses
    <2>4. CASE /\ Current(c) /\ c.at = "answered"
               /\ Show(currentId, IF currentId = NoBatch THEN current ELSE c.view.status, c.view.rows)
      <3>1. c.id = currentId /\ currentId' = currentId /\ current' = c.view.status
        BY <2>1, <2>4 DEF Current, Show
      <3>2. c.view.status \notin Ended
        BY <1>0, <2>1, <2>4, <3>1 DEF Sound, Reads
      <3>3. c.view.status # Unknown
        BY <1>0, <2>1, <2>4, <3>1 DEF Tells, TellsRefresh
      <3>4. c.view.status \in Statuses \cup {Unknown}
        BY <1>0, Arrives
      <3>5. c.view.status = "running"
        BY <3>2, <3>3, <3>4 DEF Statuses
      <3> QED BY <3>1, <3>5 DEF Active
    <2> QED BY <2>2, <2>3, <2>4 DEF Refreshed
  <1>5. \A d \in calls : d.kind = "start" => d \in calls \ {c}
    BY <1>0
  <1> QED BY <1>0, <1>1, <1>2, <1>3, <1>4, <1>5, Finds

\* The batch that a start created takes its place on the page.
LEMMA FindsStarted ==
    ASSUME FindInv, NEW c \in calls, Started(c)
    PROVE  Finding'
  <1>0. /\ UNCHANGED <<status, faults>> /\ Finding /\ DashInv /\ c.kind = "start" /\ Tells(c)
        /\ Sound(c)
    BY Arrives DEF Started, serverVars, FindInv, Finding
  <1>1. Running' = Running
    BY <1>0 DEF Running
  <1>2. CASE c.at = "refused" /\ calls' = calls \ {c} /\ UNCHANGED <<shownVars, mount>>
    <2>1. /\ \A e \in calls' : Tells(e)' \/ \E d \in calls : Same(e, d)
          /\ \A d \in calls \ {c} : \E e \in calls' : Same(e, d)
      BY <1>2, FindsLeft
    <2>2. currentId' = currentId /\ (Active => Active')
      BY <1>2 DEF shownVars, Active
    <2>3. \A d \in calls : d.at = "answered" => d \in calls \ {c}
      BY <1>2
    <2> QED BY <1>0, <1>1, <1>2, <2>1, <2>2, <2>3, Finds
  <1>3. CASE c.at = "answered" /\ Show(c.view.id, c.view.status, {})
             /\ Refresh(Stale(calls \ {c}), c.view.id, "start")
    <2>1. \A e \in calls' : Tells(e)' \/ \E d \in calls : Same(e, d)
      BY <1>3, RefreshLeaves, FindsLeft
    <2>2. Alike' /\ \A e \in calls' : Tells(e)'
      BY <1>0, <1>1, <2>1, StillTells DEF Finding, Alike
    <2>3. ASSUME NEW b \in Running' PROVE Found(b)'
      <3>1. b = c.view.id /\ c.view.status = "running"
        BY <1>0, <1>1, <1>3, <2>3 DEF Tells, TellsStart, Sound, Changes
      <3> QED BY <1>3, <3>1 DEF Found, Active, Show
    <2> QED BY <2>2, <2>3 DEF Finding
  <1> QED BY <1>2, <1>3 DEF Started

\* A stop takes its own batch off, which has ended by then.
LEMMA FindsStopped ==
    ASSUME FindInv, NEW c \in calls, Stopped(c)
    PROVE  Finding'
  <1>0. /\ UNCHANGED <<status, faults>> /\ Finding /\ DashInv /\ c.kind = "stop" /\ Sound(c)
        /\ Unknown \notin Statuses
    BY Arrives DEF Stopped, serverVars, FindInv, Finding
  <1>1. Running' = Running
    BY <1>0 DEF Running
  <1>2. \A d \in calls : d.kind = "start" => d \in calls \ {c}
    BY <1>0
  <1>3. CASE calls' = calls \ {c} /\ UNCHANGED <<shownVars, mount>>
    <2>1. /\ \A e \in calls' : Tells(e)' \/ \E d \in calls : Same(e, d)
          /\ \A d \in calls \ {c} : \E e \in calls' : Same(e, d)
      BY <1>3, FindsLeft
    <2>2. currentId' = currentId /\ (Active => Active')
      BY <1>3 DEF shownVars, Active
    <2> QED BY <1>0, <1>1, <1>2, <1>3, <2>1, <2>2, Finds
  <1>4. CASE c.at = "answered" /\ c.id = currentId /\ Refresh(Stale(calls \ {c}), c.view.id, "stop")
    <2>1. /\ \A e \in calls' : Tells(e)' \/ \E d \in calls : Same(e, d)
          /\ \A d \in calls \ {c} : \E e \in calls' : Same(e, d)
      BY <1>4, RefreshLeaves, FindsLeft
    <2>2. mount' = mount
      BY <1>4, RefreshLeaves
    <2>3. Gone(currentId)
      BY <1>0, <1>4 DEF Sound, Changes
    <2>4. currentId \notin Running
      BY <1>0, <2>3 DEF Gone, Running, Ended, Statuses
    <2> QED BY <1>0, <1>1, <1>2, <2>1, <2>2, <2>4, Finds
  <1> QED BY <1>3, <1>4 DEF Stopped

LEMMA FindsControlled ==
    ASSUME FindInv, NEW c \in calls, Controlled(c)
    PROVE  Finding'
  <1>0. /\ UNCHANGED <<status, faults, currentId, current>> /\ Finding
        /\ c.kind \in {"success", "delete"}
    BY DEF Controlled, serverVars, shownVars, FindInv
  <1>1. Running' = Running
    BY <1>0 DEF Running
  <1>2. \A d \in calls : d.kind = "start" => d \in calls \ {c}
    BY <1>0
  <1>3. Active => Active'
    BY <1>0 DEF Active
  <1>4. /\ calls \ {c} \subseteq calls' /\ \A e \in calls' : e \in calls \ {c} \/ e.at = "sent"
        /\ mount' = mount
    <2>1. CASE Refresh(calls \ {c}, currentId, "poll")
      BY <2>1, RefreshLeaves
    <2>2. CASE calls' = calls \ {c} /\ mount' = mount
      BY <2>2
    <2> QED BY <2>1, <2>2 DEF Controlled
  <1>5. /\ \A e \in calls' : Tells(e)' \/ \E d \in calls : Same(e, d)
        /\ \A d \in calls \ {c} : \E e \in calls' : Same(e, d)
    BY <1>4, FindsLeft
  <1> QED BY <1>0, <1>1, <1>2, <1>3, <1>4, <1>5, Finds

LEMMA FindsAtFirst == Init => Finding
  <1> SUFFICES ASSUME Init PROVE Finding
    OBVIOUS
  <1>1. \A c \in calls : c.at = "sent"
    BY DEF Init, InitOpening, InitStarting, Call
  <1>2. created \in {0, 1}
    BY DEF Init
  <1>3. CASE InitOpening
    <2>1. mount = "batches"
      BY <1>3 DEF InitOpening
    <2>2. PICK s \in {"running", "completed"} :
             status = [b \in Batch |-> IF b <= created THEN s ELSE Unknown]
      BY <1>3 DEF InitOpening
    <2>3. Unknown # "running"
      BY DashboardAssumption DEF Statuses
    <2>4. \A b \in Running : b \in Batch /\ b <= created
      BY <2>2, <2>3 DEF Running
    <2>5. \A b \in Running : b = 1
      BY <1>2, <2>4, DashboardAssumption DEF Batch
    <2> QED BY <1>1, <2>1, <2>5, SentTells DEF Finding, Alike
  <1>4. CASE InitStarting
    <2>1. status = [b \in Batch |-> IF b <= created THEN "completed" ELSE Unknown]
      BY <1>4 DEF InitStarting
    <2>2. Unknown # "running"
      BY DashboardAssumption DEF Statuses
    <2>3. Running = {}
      BY <2>1, <2>2 DEF Running
    <2> QED BY <1>1, <2>3, SentTells DEF Finding, Alike
  <1> QED BY <1>3, <1>4 DEF Init

\* Every step keeps the running batch in sight.
LEMMA StillFinding ==
    ASSUME FindInv, [Next]_vars
    PROVE  FindInv'
  <1>1. DashInv'
    BY Inductive DEF FindInv
  <1>2. CASE UNCHANGED vars
    <2>1. UNCHANGED <<status, mount, currentId, current, calls, faults>>
      BY <1>2 DEF vars, serverVars, shownVars
    <2>2. Running' = Running
      BY <2>1 DEF Running
    <2>3. Active => Active'
      BY <2>1 DEF Active
    <2>4. (\A e \in calls' : \E d \in calls : Same(e, d)) /\ \A d \in calls : \E e \in calls' : Same(e, d)
      BY <2>1 DEF Same
    <2>5. Finding'
      BY <2>1, <2>2, <2>3, <2>4, Finds DEF FindInv
    <2> QED BY <1>1, <2>5 DEF FindInv
  <1>3. CASE Work
    BY <1>1, <1>3, FindsWork DEF FindInv
  <1>4. CASE User \/ MountRefresh \/ StartPolling \/ Poll \/ LoginStep
    BY <1>1, <1>4, FindsAsk DEF FindInv
  <1>5. ASSUME NEW c \in calls, Serve(c) \/ Receive(c) \/ Fail(c)
        PROVE  Finding'
    BY <1>5, FindsServe, FindsFail, FindsRestored, FindsRefreshed, FindsStarted, FindsStopped,
       FindsControlled DEF Receive
  <1> QED BY <1>1, <1>2, <1>3, <1>4, <1>5 DEF Next, FindInv

\* The batch that runs is the batch on show, so that it can be stopped and no
\* second one is asked for, whatever fails or comes late after the mount.
THEOREM RunningOnShow == Spec => []RunningIsShown
  <1>1. Init => FindInv
    BY Initially, FindsAtFirst DEF FindInv
  <1>2. FindInv /\ [Next]_vars => FindInv'
    BY StillFinding
  <1>3. FindInv => RunningIsShown
    BY DEF FindInv, Finding, Found, NoneLost, RunningIsShown
  <1> QED BY <1>1, <1>2, <1>3, PTL DEF Spec
-----------------------------------------------------------------------------
(* The rules that the rows are shown by *)

LEMMA RowsShown == RowsReadTrue
  <1>1. ASSUME NEW a \in Activations
        PROVE  \/ a.status \in Working /\ a.finished = FALSE
               \/ a.status \in TerminalStatuses /\ a.finished = TRUE
               \/ a.status \in EndsByCancel \cup EndsBySettling /\ a.finished \in BOOLEAN
    BY DEF Activations
  <1> DEFINE ReadsTrue(a) ==
        /\ CanOperate(a) = TakesSuccess(a) /\ (CanOperate(a) => TakesDelete(a))
        /\ CanOperate(a) => IsPolling(a)
        /\ IsPolling(a) => LooksSuccessful(a)
        /\ (a.status \in LabelledActive) = (a.status \in Working)
        /\ Expiry(a) = "cancelled" => a.finished /\ a.status \in EndsByCancel \cup {"cancelled"}
        /\ Expiry(a) = "settled" => a.finished /\ a.status \in EndsBySettling
  <1> USE DEF CanOperate, TakesSuccess, TakesDelete, IsPolling, LooksSuccessful, LabelledActive,
              Working, Expiry, ShownCancelled, EndsByCancel, EndsBySettling, TerminalStatuses
  <1>2. ASSUME NEW a \in Activations, a.status \in Working, a.finished = FALSE PROVE ReadsTrue(a)
    BY <1>2
  <1>3. ASSUME NEW a \in Activations, a.status \in TerminalStatuses, a.finished = TRUE PROVE ReadsTrue(a)
    BY <1>3
  <1>4. ASSUME NEW a \in Activations, a.status \in EndsByCancel \cup EndsBySettling,
               a.finished \in BOOLEAN
        PROVE  ReadsTrue(a)
    BY <1>4
  <1> QED BY <1>1, <1>2, <1>3, <1>4 DEF RowsReadTrue

LEMMA Quotient ==
    ASSUME NEW a \in Nat, NEW b \in Nat, b > 0
    PROVE  a \div b \in Nat /\ b * (a \div b) <= a /\ a < b * (a \div b) + b
  OBVIOUS

Percent(s, t) == (200 * s + t) \div (2 * t)

\* Rounding to whole per cents shows 100 for a complete batch only, up to 199 numbers.
LEMMA Rounding ==
    ASSUME NEW s \in Nat, NEW t \in Nat, t > 0, s <= t, t < 200
    PROVE  Percent(s, t) \in 0..100 /\ (Percent(s, t) = 100 <=> s = t)
  <1> DEFINE p == Percent(s, t)
  <1>1. p \in Nat /\ (2 * t) * p <= 200 * s + t /\ 200 * s + t < (2 * t) * p + 2 * t
    <2>1. 200 * s + t \in Nat /\ 2 * t \in Nat /\ 2 * t > 0
      OBVIOUS
    <2> HIDE DEF p
    <2> QED BY <2>1, Quotient DEF p, Percent
  <1> HIDE DEF p
  <1>2. p <= 100
    <2>1. SUFFICES ASSUME p >= 101 PROVE FALSE
      BY <1>1
    <2>2. (2 * t) * p >= (2 * t) * 101
      BY <1>1, <2>1
    <2> QED BY <1>1, <2>2
  <1>3. s = t => p >= 100
    <2>1. SUFFICES ASSUME s = t, p <= 99 PROVE FALSE
      BY <1>1
    <2>2. (2 * t) * p <= (2 * t) * 99
      BY <1>1, <2>1
    <2> QED BY <1>1, <2>1, <2>2
  <1>4. p = 100 => s = t
    BY <1>1
  <1>5. p \in 0..100 /\ (p = 100 <=> s = t)
    BY <1>1, <1>2, <1>3, <1>4
  <1> QED BY <1>5 DEF p

LEMMA Counters ==
    ASSUME MaxQuantity < 200
    PROVE  CountersReadTrue
  <1> SUFFICES ASSUME NEW b \in Batches
               PROVE  LET v == NormalizeBatch(b) IN
                      /\ v.successful + v.inflight + UnsuccessfulCount(v) = b.purchased
                      /\ BatchProgress(v) \in 0..100
                      /\ (BatchProgress(v) = 100) = (b.fulfilled = b.quantity)
    BY DEF CountersReadTrue
  <1>1. /\ b.quantity \in Nat /\ b.quantity > 0 /\ b.quantity < 200
        /\ b.fulfilled \in Nat /\ b.inflight \in Nat /\ b.purchased \in Nat
        /\ b.fulfilled + b.inflight <= b.quantity /\ b.purchased >= b.fulfilled + b.inflight
    BY ActivationRulesAssumption DEF Batches
  <1>2. /\ NormalizeBatch(b).total = b.quantity /\ NormalizeBatch(b).successful = b.fulfilled
        /\ NormalizeBatch(b).inflight = b.inflight /\ NormalizeBatch(b).purchased = b.purchased
    BY DEF NormalizeBatch
  <1>3. b.fulfilled + b.inflight + UnsuccessfulCount(NormalizeBatch(b)) = b.purchased
    BY <1>1, <1>2 DEF UnsuccessfulCount
  <1>4. BatchProgress(NormalizeBatch(b)) \in 0..100
        /\ (BatchProgress(NormalizeBatch(b)) = 100 <=> b.fulfilled = b.quantity)
    <2>1. BatchProgress(NormalizeBatch(b)) = Percent(b.fulfilled, b.quantity)
      BY <1>2 DEF BatchProgress, Percent
    <2>2. b.fulfilled <= b.quantity
      BY <1>1
    <2> QED BY <1>1, <2>1, <2>2, Rounding
  <1> QED BY <1>2, <1>3, <1>4

LEMMA LoginsOf ==
    ASSUME NEW l \in LoginLists
    PROVE  /\ DOMAIN l \subseteq {1, 2}
           /\ \A i \in DOMAIN l : l[i] \in Accounts
           /\ \A i, j \in DOMAIN l : i # j => l[i].phone.digits # l[j].phone.digits /\ l[i].id # l[j].id
  <1>1. CASE l = <<>>
    <2>1. DOMAIN l = {}
      BY <1>1
    <2> QED BY <2>1
  <1>2. CASE l \in [1..1 -> Accounts]
    <2>1. DOMAIN l = {1}
      BY <1>2
    <2> QED BY <1>2, <2>1
  <1>3. CASE l \in [1..2 -> Accounts] /\ l[1].phone # l[2].phone /\ l[1].id # l[2].id
    <2>1. DOMAIN l = {1, 2} /\ l[1] \in Accounts /\ l[2] \in Accounts
      BY <1>3
    <2>2. /\ l[1].phone \in [digits : Digits, plus : {TRUE}]
          /\ l[2].phone \in [digits : Digits, plus : {TRUE}]
      BY <2>1 DEF Accounts
    <2>3. \A p, q \in [digits : Digits, plus : {TRUE}] : p.digits = q.digits => p = q
      <3>1. \A p \in [digits : Digits, plus : {TRUE}] : p = [digits |-> p.digits, plus |-> TRUE]
        <4>1. ASSUME NEW p \in [digits : Digits, plus : {TRUE}]
              PROVE  p = [digits |-> p.digits, plus |-> p.plus] /\ p.plus \in {TRUE}
          OBVIOUS
        <4>2. ASSUME NEW p \in [digits : Digits, plus : {TRUE}] PROVE p.plus = TRUE
          BY <4>1
        <4> QED BY <4>1, <4>2
      <3> QED BY <3>1
    <2>4. l[1].phone.digits # l[2].phone.digits
      BY <1>3, <2>2, <2>3
    <2> QED BY <1>3, <2>1, <2>4
  <1> QED BY <1>1, <1>2, <1>3 DEF LoginLists

\* The status of an account reaches its row unchanged.
LEMMA LoginShown ==
    ASSUME NEW l \in LoginLists, NEW i \in DOMAIN l
    PROVE  LET sent  == [k \in DOMAIN l |-> AccountLoginStatusView(l[k])]
               shown == NormalizeAccountLoginStatuses(sent) IN
           /\ DOMAIN sent = DOMAIN l /\ DOMAIN shown = DOMAIN l
           /\ sent[i].id = l[i].id /\ sent[i].login_status = l[i].status
           /\ sent[i].state = l[i].status /\ sent[i].valid = (l[i].status = "valid")
           /\ shown[i].phone = l[i].phone /\ shown[i].status = l[i].status
           /\ l[i].status \in States
  <1>1. l[i] \in Accounts
    BY LoginsOf
  <1>2. l[i].status \in States
    BY <1>1 DEF Accounts, Logins, States
  <1> DEFINE sent == [k \in DOMAIN l |-> AccountLoginStatusView(l[k])]
  <1> DEFINE shown == NormalizeAccountLoginStatuses(sent)
  <1>3. DOMAIN sent = DOMAIN l /\ sent[i] = AccountLoginStatusView(l[i])
    OBVIOUS
  <1>4. /\ sent[i].id = l[i].id /\ sent[i].login_status = l[i].status /\ sent[i].phone = l[i].phone
        /\ sent[i].state = l[i].status /\ sent[i].valid = (l[i].status = "valid")
    BY <1>3 DEF AccountLoginStatusView
  <1> HIDE DEF sent
  <1>5. /\ DOMAIN shown = DOMAIN l
        /\ shown[i] = [phone |-> sent[i].phone,
                       status |-> NormalizeLoginState(sent[i].login_status, sent[i].valid)]
    BY <1>3 DEF NormalizeAccountLoginStatuses
  <1> HIDE DEF shown
  <1>6. shown[i].phone = l[i].phone /\ shown[i].status = l[i].status
    <2>1. NormalizeLoginState(sent[i].login_status, sent[i].valid) = l[i].status
      BY <1>2, <1>4 DEF NormalizeLoginState
    <2> QED BY <1>4, <1>5, <2>1
  <1> QED BY <1>2, <1>3, <1>4, <1>5, <1>6 DEF sent, shown

LEMMA LoginsShown == LoginsReadTrue
  <1> SUFFICES ASSUME NEW l \in LoginLists
               PROVE  LET sent  == [i \in DOMAIN l |-> AccountLoginStatusView(l[i])]
                          shown == NormalizeAccountLoginStatuses(sent) IN
                      /\ AcceptsLogins(sent)
                      /\ \A phone \in Phones :
                            /\ \A i \in DOMAIN l :
                                  l[i].phone.digits = phone.digits
                                    => LoginOf(shown, phone) = l[i].status
                            /\ (\A i \in DOMAIN l : l[i].phone.digits # phone.digits)
                                  => LoginOf(shown, phone) = "none"
    BY DEF LoginsReadTrue
  <1> DEFINE sent == [i \in DOMAIN l |-> AccountLoginStatusView(l[i])]
  <1> DEFINE shown == NormalizeAccountLoginStatuses(sent)
  <1>1. \A i \in DOMAIN l :
           /\ DOMAIN sent = DOMAIN l /\ DOMAIN shown = DOMAIN l
           /\ sent[i].id = l[i].id /\ sent[i].login_status = l[i].status
           /\ sent[i].state = l[i].status /\ sent[i].valid = (l[i].status = "valid")
           /\ shown[i].phone = l[i].phone /\ shown[i].status = l[i].status
           /\ l[i].status \in States
    BY LoginShown
  <1>2. DOMAIN sent = DOMAIN l
    OBVIOUS
  <1>3. DOMAIN shown = DOMAIN l
    BY <1>2 DEF NormalizeAccountLoginStatuses
  <1> HIDE DEF sent, shown
  <1>4. AcceptsLogins(sent)
    <2>1. \A i \in DOMAIN l : l[i].id > 0
      <3>1. \A a \in Accounts : a.id \in {1, 2}
        BY DEF Accounts
      <3> QED BY <3>1, LoginsOf
    <2>2. \A i, j \in DOMAIN l : l[i].id = l[j].id => i = j
      BY LoginsOf
    <2> QED BY <1>1, <1>2, <2>1, <2>2 DEF AcceptsLogins
  <1>5. ASSUME NEW phone \in Phones
        PROVE  /\ \A i \in DOMAIN l :
                     l[i].phone.digits = phone.digits => LoginOf(shown, phone) = l[i].status
               /\ (\A i \in DOMAIN l : l[i].phone.digits # phone.digits)
                     => LoginOf(shown, phone) = "none"
    <2> DEFINE found == {i \in DOMAIN shown : PhoneLookupKey(shown[i].phone) = PhoneLookupKey(phone)}
    <2>1. found = {i \in DOMAIN l : l[i].phone.digits = phone.digits}
      BY <1>1, <1>3 DEF PhoneLookupKey
    <2>2. LoginOf(shown, phone) =
            IF found = {} THEN "none" ELSE shown[CHOOSE i \in found : \A j \in found : j <= i].status
      BY DEF LoginOf
    <2> HIDE DEF found
    <2>3. ASSUME NEW i \in DOMAIN l, l[i].phone.digits = phone.digits
          PROVE  LoginOf(shown, phone) = l[i].status
      <3>1. found = {i} /\ i \in Nat
        BY <2>1, <2>3, LoginsOf
      <3>2. (CHOOSE k \in found : \A j \in found : j <= k) = i
        BY <3>1
      <3>3. LoginOf(shown, phone) = shown[i].status
        BY <2>2, <3>1, <3>2
      <3> QED BY <1>1, <3>3
    <2>4. ASSUME \A i \in DOMAIN l : l[i].phone.digits # phone.digits
          PROVE  LoginOf(shown, phone) = "none"
      <3>1. found = {}
        BY <2>1, <2>4
      <3> QED BY <2>2, <3>1
    <2> QED BY <2>3, <2>4
  <1> QED BY <1>4, <1>5 DEF sent, shown

LEMMA CodesShown == CodesReadTrue
  <1> SUFFICES ASSUME NEW loginCode \in OtpCodes, NEW pinCode \in OtpCodes,
                      NEW subsequent \in CodeLists, NEW i \in DOMAIN subsequent
               PROVE  LET shown == ShownCodes(loginCode, pinCode, subsequent) IN
                      /\ i > 2 => i \in shown
                      /\ subsequent[i] \in {loginCode, pinCode} \cup {subsequent[j] : j \in shown}
    BY DEF CodesReadTrue
  <1>1. i \in Nat
    <2>1. PICK n \in 0..MaxCodes : subsequent \in [1..n -> OtpCodes]
      BY DEF CodeLists
    <2> QED BY <2>1, ActivationRulesAssumption
  <1>2. i \in ShownCodes(loginCode, pinCode, subsequent) <=>
          ~(subsequent[i] \in {loginCode, pinCode} /\ i <= 2)
    BY DEF ShownCodes
  <1>3. i > 2 => ~(i <= 2)
    BY <1>1
  <1> QED BY <1>2, <1>3

\* The buttons, labels, counters, logins and codes of the rows are those of the
\* server's numbers, up to 199 numbers in a batch (the server takes 100): from 200
\* on, one number short of the quantity would be rounded to 100 per cent.
THEOREM RowsReadTheServer ==
    ASSUME MaxQuantity < 200
    PROVE  Spec => []RulesAgree
  <1>1. RulesAgree
    BY RowsShown, Counters, LoginsShown, CodesShown DEF RulesAgree
  <1> QED BY <1>1, PTL
=============================================================================
