---------------------------- MODULE WebhookInbox ----------------------------
(***************************************************************************)
(* The HeroSMS callback inbox and the worker that serves it, for one       *)
(* activation that has its PIN and now collects follow-up codes: callbacks *)
(* stored and waking the activation, leases that expire, are fenced by     *)
(* Stop or belong to a dead worker, the claim of one event at a time, the  *)
(* code's verification row, and status=3 with its durable checkpoints.     *)
(*                                                                         *)
(* Durable state is the activation row, its inbox events, its verification *)
(* rows and the session of its account.  Every storage statement or        *)
(* transaction is one step: the transactions on the inbox lock the         *)
(* activation row.  A provider call is one step, with the answer the       *)
(* worker will act on.  A worker keeps the row it claimed.                 *)
(*                                                                         *)
(* Times are distances from now: Now is due, Soon a poll interval or retry *)
(* delay away, Late the provider deadline, Never a NULL.  Tick makes what  *)
(* is Soon due; the deadline makes Late due.  Events are numbered in the   *)
(* order of provider_received_at.  A lease (owner and version) is named by *)
(* its worker; the claim of an earlier lease of that worker is OldLease.   *)
(***************************************************************************)
EXTENDS Naturals, FiniteSets, FiniteSetsExt

CONSTANTS
    Workers,       \* worker goroutines, of any process on the database
    MaxEvents,     \* bound: distinct callbacks
    Blank,         \* the callbacks that may carry no code
    Starts,        \* statuses a behaviour may start in
    DrainLimit,    \* heroSMSInboxDrainLimit
    MaxCrashes,    \* bound: workers lost
    MaxLapses,     \* bound: leases that expire while their worker runs
    MaxFaults,     \* bound: failed or unanswered calls
    MaxClicks,     \* bound: Success and Delete requests
    MaxStops,      \* bound: Stop requests
    NoWorker, OldLease, NoEvent, PinCode

Event == 1..MaxEvents
Cycle == 0..(MaxEvents + 1)

ASSUME StartAssumption == Starts \subseteq {"pin_changed", "subsequent"}
ASSUME BlankAssumption == Blank \subseteq Event
ASSUME InboxBounds ==
    /\ MaxEvents \in Nat \ {0} /\ DrainLimit \in Nat \ {0}
    /\ MaxCrashes \in Nat /\ MaxLapses \in Nat /\ MaxFaults \in Nat
    /\ MaxClicks \in Nat /\ MaxStops \in Nat
ASSUME InboxNulls ==
    /\ NoWorker \notin Workers /\ OldLease \notin Workers /\ NoWorker # OldLease
    /\ NoEvent \notin Event /\ PinCode \notin Event /\ NoEvent # PinCode

VARIABLES
    status, control,   \* activation: status and control_action
    next, wake,        \* next_run_at and webhook_wakeup_at
    holder, lapsed,    \* the lease, and whether lease_until has passed
    cycle,             \* sms_cycle
    inbox,             \* hero_sms_webhook_events
    rows,              \* verification_codes, by cycle_no
    session,           \* SMS part of the account session
    gate,              \* holder of the account session lock
    sent, blank,       \* callbacks the provider has issued; those without a code
    unread,            \* an SMS arrived since status=3 was last applied
    settled,           \* the provider closed the number
    expired,           \* provider_expires_at has passed
    stopped,           \* a Stop was accepted
    pc, seen,          \* where a worker is; status, control and cycle it claimed
    job, mem,          \* its claimed event; its copy of the session
    drained, due,      \* blank events it drained; next_run_at it will release with
    crashes, lapses, faults, clicks

leaseVars == <<next, wake, holder, lapsed>>
rowVars == <<status, control, cycle, leaseVars>>
dbVars == <<rowVars, inbox, rows, session>>
workVars == <<pc, seen, job, mem, drained, due, gate>>
worldVars == <<sent, blank, unread, settled, expired, stopped>>
boundVars == <<crashes, lapses, faults, clicks>>
vars == <<dbVars, workVars, worldVars, boundVars>>

Now == 0
Soon == 1
Late == 2
Never == 3
\* Mutant: GREATEST for LEAST.
LaterOf(s, t) == IF s <= t THEN t ELSE s
Earlier(s, t) == IF s <= t THEN s ELSE t

Finished == {"success", "cancelled", "expired"}
Open == status \notin Finished
Pending == {"received", "processing"}
Requests == {"none", "dispatching", "accepted"}
Session == [cycle : Nat, request : Requests]
Fresh == [st |-> "absent", at |-> Never, claim |-> NoWorker]
NotSeen == [status |-> "", control |-> "", cycle |-> 0]
NoSession == [cycle |-> 0, request |-> "none"]

Init ==
    /\ control = "" /\ wake = Never
    /\ \/ status = "pin_changed" /\ cycle = 0 /\ next = Soon /\ unread = TRUE
       \/ status = "subsequent" /\ cycle = 1 /\ next = Late /\ unread = FALSE
    /\ status \in Starts
    /\ holder = NoWorker /\ lapsed = FALSE
    /\ inbox = [e \in Event |-> Fresh]
    /\ rows = [c \in Cycle |-> IF c = 0 THEN PinCode ELSE NoEvent]
    /\ session = [cycle |-> cycle, request |-> "none"]
    /\ gate = NoWorker
    /\ sent = 0 /\ blank \in SUBSET Blank
    /\ settled = FALSE /\ expired = FALSE /\ stopped = FALSE
    /\ pc = [w \in Workers |-> "idle"]
    /\ seen = [w \in Workers |-> NotSeen]
    /\ job = [w \in Workers |-> NoEvent]
    /\ mem = [w \in Workers |-> NoSession]
    /\ drained = [w \in Workers |-> 0]
    /\ due = [w \in Workers |-> Now]
    /\ crashes = 0 /\ lapses = 0 /\ faults = 0 /\ clicks = 0

-----------------------------------------------------------------------------
(* The worker: places, answers, and its end *)

Goto(w, place) == pc' = [pc EXCEPT ![w] = place]
Keep == UNCHANGED <<seen, job, mem, drained, due, gate>>

(* the function returns: locals are gone and the account lock is given back *)
Leave(w) ==
    /\ Goto(w, "idle")
    /\ seen' = [seen EXCEPT ![w] = NotSeen]
    /\ job' = [job EXCEPT ![w] = NoEvent]
    /\ mem' = [mem EXCEPT ![w] = NoSession]
    /\ drained' = [drained EXCEPT ![w] = 0]
    /\ due' = [due EXCEPT ![w] = Now]
    /\ gate' = IF gate = w THEN NoWorker ELSE gate

(* where an error leads: back to the inbox for a claimed code, else out *)
BusinessSteps == {"examine", "append", "advance", "ask", "ask_again", "reject",
                  "accept", "bump", "checkpoint", "local"}
OnError(w) == IF pc[w] \in BusinessSteps /\ job[w] # NoEvent THEN "fail" ELSE "error"

Fault == faults < MaxFaults /\ faults' = faults + 1

(* a call that took effect: it is answered, or its answer is lost *)
Answered(w, place) ==
    \/ Goto(w, place) /\ UNCHANGED faults
    \/ Goto(w, OnError(w)) /\ Fault

(* a call that failed with no effect; a failed read of the row ends the      *)
(* worker with its lease held                                              *)
CallSteps == BusinessSteps \cup
             {"claim", "blank", "occupied", "complete", "fail", "ensure", "sync",
              "transition", "wait", "wait_now", "look"}
CallFails(w) ==
    /\ pc[w] \in CallSteps
    /\ Fault
    /\ IF pc[w] = "look" THEN Leave(w) ELSE Goto(w, OnError(w)) /\ Keep
    /\ UNCHANGED <<dbVars, worldVars, crashes, lapses, clicks>>

-----------------------------------------------------------------------------
(* Leases *)

\* Mutant: the write checks the row and not the lease.
UnfencedOwns(w) == Open
OwnsLease(w) == holder = w /\ Open
Owned(w) == OwnsLease(w) /\ ~lapsed     \* ownedHeroSMSWebhookLeaseSQL

Unleased == holder' = NoWorker /\ lapsed' = FALSE
Received(box) == {e \in Event : box[e].st = "received"}

\* Mutant: an event that waits for its retry is forgotten.
RefreshedDue(box) == IF \E e \in Received(box) : box[e].at = Now THEN Now ELSE Never

(* refreshHeroSMSWebhookWakeSQL *)
Refreshed(box) == IF Received(box) = {} THEN Never ELSE Min({box[e].at : e \in Received(box)})

(* wakeHeroSMSActivationSQL *)
Wake(t) ==
    /\ next' = IF holder = NoWorker \/ lapsed THEN Earlier(next, t) ELSE next
    /\ wake' = IF holder # NoWorker THEN Earlier(wake, t) ELSE Never

Runnable ==
    /\ Open
    /\ next = Now \/ wake = Now \/ \E e \in Event : inbox[e].st = "processing"
    /\ holder = NoWorker \/ lapsed

(* ClaimRunnableActivations *)
Lease(w) ==
    /\ pc[w] = "idle" /\ Runnable
    /\ holder' = w /\ lapsed' = FALSE
    /\ seen' = [seen EXCEPT ![w] = [status |-> status, control |-> control, cycle |-> cycle]]
    /\ inbox' = [e \in Event |-> IF inbox[e].claim = w
                                 THEN [inbox[e] EXCEPT !.claim = OldLease] ELSE inbox[e]]
    /\ Goto(w, "lock")
    /\ UNCHANGED <<status, control, cycle, next, wake, rows, session, job, mem, drained, due,
                   gate, worldVars, boundVars>>

\* Mutant: a control action is overlooked.
BranchByStatus(w) ==
    IF seen[w].status = "pin_changed" THEN "ensure"
    ELSE IF expired THEN "expire" ELSE "claim"

(* processActivation, once the account session lock is held *)
Branch(w) ==
    IF seen[w].control # "" THEN "control"
    ELSE IF seen[w].status = "pin_changed" THEN "ensure"
    ELSE IF expired THEN "expire" ELSE "claim"

\* Mutant: the worker does not wait for the lock.
LockShared(w) ==
    /\ pc[w] = "lock"
    /\ gate' = w
    /\ Goto(w, Branch(w))
    /\ UNCHANGED <<dbVars, seen, job, mem, drained, due, worldVars, boundVars>>

Lock(w) ==
    /\ pc[w] = "lock"
    /\ gate = NoWorker
    /\ gate' = w
    /\ Goto(w, Branch(w))
    /\ UNCHANGED <<dbVars, seen, job, mem, drained, due, worldVars, boundVars>>

(* GetActivation before the release *)
Look(w) ==
    /\ pc[w] = "look"
    /\ IF Open THEN Goto(w, "release") /\ due' = [due EXCEPT ![w] = next]
                    /\ UNCHANGED <<seen, job, mem, drained, gate>>
       ELSE Leave(w)
    /\ UNCHANGED <<dbVars, worldVars, boundVars>>

(* ReleaseActivationLease, with the schedule read, or a poll away after an error *)
Release(w) ==
    /\ pc[w] \in {"release", "error"}
    /\ IF holder = w
       THEN /\ next' = Earlier(IF pc[w] = "error" THEN Soon ELSE due[w], wake)
            /\ wake' = Never
            /\ Unleased
       ELSE UNCHANGED leaseVars
    /\ Leave(w)
    /\ UNCHANGED <<status, control, cycle, inbox, rows, session, worldVars, boundVars>>

LockFails(w) ==
    /\ pc[w] = "lock"
    /\ Fault
    /\ Goto(w, "error") /\ Keep
    /\ UNCHANGED <<dbVars, worldVars, crashes, lapses, clicks>>

-----------------------------------------------------------------------------
(* The inbox *)

\* Mutant: what an earlier lease claimed is not taken again.
CandidatesUnclaimed(w) == {e \in Event : inbox[e].st = "received" /\ inbox[e].at = Now}

Candidates(w) ==
    {e \in Event : \/ inbox[e].st = "received" /\ inbox[e].at = Now
                   \/ inbox[e].st = "processing" /\ inbox[e].claim # w}
Retaken(w) == {e \in Candidates(w) : inbox[e].st = "processing"}

(* claims left by another lease come first *)
NextEvent(w) == Min(IF Retaken(w) # {} THEN Retaken(w) ELSE Candidates(w))

(* ClaimNextHeroSMSWebhookEventOwned, in claimHeroSMSCode *)
Claim(w) ==
    /\ pc[w] = "claim"
    /\ IF ~Owned(w) THEN Goto(w, "error") /\ UNCHANGED <<inbox, wake, job, faults>>
       ELSE IF Candidates(w) = {}
       THEN /\ wake' = Refreshed(inbox)
            /\ Answered(w, "ensure")
            /\ UNCHANGED <<inbox, job>>
       ELSE LET e == NextEvent(w) IN
            /\ inbox' = [inbox EXCEPT ![e].st = "processing", ![e].claim = w]
            /\ wake' = Refreshed(inbox')
            /\ \/ /\ Goto(w, IF e \in blank THEN "blank" ELSE "examine")
                  /\ job' = [job EXCEPT ![w] = e]
                  /\ UNCHANGED faults
               \/ /\ Goto(w, "error") /\ Fault
                  /\ UNCHANGED job
    /\ UNCHANGED <<status, control, cycle, next, holder, lapsed, rows, session,
                   seen, mem, drained, due, gate, worldVars, crashes, lapses, clicks>>

Mine(w) == inbox[job[w]].st = "processing" /\ inbox[job[w]].claim = w

(* finishHeroSMSWebhookEventOwned *)
Settled(w, st) == [inbox EXCEPT ![job[w]].st = st]
Acknowledge(w, st, place) ==
    /\ IF Owned(w) /\ Mine(w)
       THEN /\ inbox' = Settled(w, st)
            /\ wake' = Refreshed(inbox')
            /\ Answered(w, place)
       ELSE Goto(w, "error") /\ UNCHANGED <<inbox, wake, faults>>
    /\ UNCHANGED <<status, control, cycle, next, holder, lapsed, rows, session,
                   seen, mem, due, gate, worldVars, crashes, lapses, clicks>>

(* a callback without a code is dropped; the drain yields at its limit *)
IgnoreBlank(w) ==
    /\ pc[w] = "blank"
    /\ Acknowledge(w, "ignored", IF drained[w] + 1 < DrainLimit THEN "claim" ELSE "wait_now")
    /\ drained' = [drained EXCEPT ![w] = @ + 1]
    /\ job' = [job EXCEPT ![w] = NoEvent]

IgnoreOccupied(w) ==
    /\ pc[w] = "occupied"
    /\ Acknowledge(w, "ignored", "look")
    /\ UNCHANGED <<job, drained>>

Complete(w) ==
    /\ pc[w] = "complete"
    /\ Acknowledge(w, "processed", "wait")
    /\ UNCHANGED <<job, drained>>

(* FailHeroSMSWebhookEventOwned *)
FailEvent(w) ==
    /\ pc[w] = "fail"
    /\ IF Owned(w) /\ Mine(w)
       THEN /\ inbox' = [inbox EXCEPT ![job[w]] =
                            [st |-> "received", at |-> Soon, claim |-> NoWorker]]
            /\ Wake(Soon)
       ELSE UNCHANGED <<inbox, next, wake>>
    /\ Goto(w, "error") /\ Keep
    /\ UNCHANGED <<status, control, cycle, holder, lapsed, rows, session, worldVars, boundVars>>

-----------------------------------------------------------------------------
(* waitHeroSMSFollowupCode *)

RowOf(e) == {c \in Cycle : rows[c] = e}
Taken == {c \in Cycle : rows[c] # NoEvent}

\* Mutant: the cycle is looked at before the event.
OccupiedFirst(w) ==
    IF rows[seen[w].cycle] # NoEvent THEN "occupied"
    ELSE IF RowOf(job[w]) # {} THEN "local" ELSE "append"
\* Mutant: the stored cycle is not compared.
AdvanceAgain(w) ==
    IF RowOf(job[w]) # {} THEN "advance"
    ELSE IF rows[seen[w].cycle] # NoEvent THEN "occupied" ELSE "append"

(* restoreGoPayClient, findHeroSMSVerificationEvent and -Cycle *)
AfterExamine(w) ==
    LET own == RowOf(job[w]) IN
    IF own # {} THEN IF \A c \in own : c < seen[w].cycle THEN "local" ELSE "advance"
    ELSE IF rows[seen[w].cycle] # NoEvent THEN "occupied" ELSE "append"

Examine(w) ==
    /\ pc[w] = "examine"
    /\ mem' = [mem EXCEPT ![w] = session]
    /\ Goto(w, AfterExamine(w))
    /\ UNCHANGED <<dbVars, seen, job, drained, due, gate, worldVars, boundVars>>

(* AppendVerificationCodeOwned: a row that is there is kept *)
Append(w) ==
    /\ pc[w] = "append"
    /\ IF OwnsLease(w)
       THEN /\ rows' = [rows EXCEPT ![seen[w].cycle] = IF @ = NoEvent THEN job[w] ELSE @]
            /\ Answered(w, "advance")
       ELSE Goto(w, "fail") /\ UNCHANGED <<rows, faults>>
    /\ Keep
    /\ UNCHANGED <<rowVars, inbox, session, worldVars, crashes, lapses, clicks>>

(* the cycle was advanced by an attempt that lost its acknowledgement *)
SaveLocal(w) ==
    /\ pc[w] = "local"
    /\ session' = [cycle |-> seen[w].cycle, request |-> "none"]
    /\ Answered(w, "complete")
    /\ Keep
    /\ UNCHANGED <<rowVars, inbox, rows, worldVars, crashes, lapses, clicks>>

\* Mutant: a cycle that is open already is opened again.
AdvanceAnyway(w) ==
    IF seen[w].status = "subsequent" /\ rows[seen[w].cycle] \in Event THEN "wait" ELSE "advance"

(* no code: wait while a stored one is unfinished, else                    *)
(* ensureHeroSMSFollowupCycle, which transitionToSubsequentPolling begins  *)
(* with                                                                    *)
AfterNone(w) ==
    IF seen[w].status = "subsequent" /\ rows[seen[w].cycle] \in Event THEN "wait"
    ELSE IF \A c \in Taken : c < seen[w].cycle THEN "sync" ELSE "advance"

AfterEnsure(w) == IF seen[w].status = "pin_changed" THEN "transition" ELSE "wait"

Ensure(w) ==
    /\ pc[w] = "ensure"
    /\ mem' = [mem EXCEPT ![w] = session]
    /\ Goto(w, AfterNone(w))
    /\ UNCHANGED <<dbVars, seen, job, drained, due, gate, worldVars, boundVars>>

Sync(w) ==
    /\ pc[w] = "sync"
    /\ session' = [cycle |-> seen[w].cycle, request |-> "none"]
    /\ Answered(w, AfterEnsure(w))
    /\ Keep
    /\ UNCHANGED <<rowVars, inbox, rows, worldVars, crashes, lapses, clicks>>

-----------------------------------------------------------------------------
(* advanceVerificationSMSCycle *)

\* Mutant: the checkpoint is written before its mark.
SaveUnmarked(w, request) == session' = mem[w]
Save(w, request) == session' = [mem[w] EXCEPT !.request = request]

(* the checkpoint before the call; an unfinished one is resumed *)
Advance(w) ==
    /\ pc[w] = "advance"
    /\ CASE mem[w].request = "none" ->
              /\ Save(w, "dispatching")
              /\ mem' = [mem EXCEPT ![w].request = "dispatching"]
              /\ Answered(w, "ask")
         [] mem[w].request = "dispatching" ->
              Goto(w, "ask_again") /\ UNCHANGED <<session, mem, faults>>
         [] OTHER -> Goto(w, "bump") /\ UNCHANGED <<session, mem, faults>>
    /\ UNCHANGED <<rowVars, inbox, rows, seen, job, drained, due, gate, worldVars,
                   crashes, lapses, clicks>>

(* status=3: applied if an SMS arrived since the last one, else BAD_STATUS *)
Applies == unread /\ ~settled

Ask(w) ==
    /\ pc[w] \in {"ask", "ask_again"}
    /\ IF Applies THEN unread' = FALSE /\ Answered(w, "accept")
       ELSE /\ Answered(w, IF pc[w] = "ask" THEN "reject" ELSE "accept")
            /\ UNCHANGED unread
    /\ Keep
    /\ UNCHANGED <<dbVars, sent, blank, settled, expired, stopped, crashes, lapses, clicks>>

(* a first BAD_STATUS is a refusal: the intent is withdrawn *)
Reject(w) ==
    /\ pc[w] = "reject"
    /\ Save(w, "none")
    /\ mem' = [mem EXCEPT ![w].request = "none"]
    /\ Goto(w, OnError(w))
    /\ UNCHANGED <<rowVars, inbox, rows, seen, job, drained, due, gate, worldVars, boundVars>>

Accept(w) ==
    /\ pc[w] = "accept"
    /\ Save(w, "accepted")
    /\ mem' = [mem EXCEPT ![w].request = "accepted"]
    /\ Answered(w, "bump")
    /\ UNCHANGED <<rowVars, inbox, rows, seen, job, drained, due, gate, worldVars,
                   crashes, lapses, clicks>>

(* AdvanceSMSCycle *)
Bump(w) ==
    /\ pc[w] = "bump"
    /\ IF OwnsLease(w)
       THEN /\ cycle' = cycle + 1 /\ next' = Soon
            /\ mem' = [mem EXCEPT ![w] = [cycle |-> cycle', request |-> "none"]]
            /\ Answered(w, "checkpoint")
       ELSE Goto(w, OnError(w)) /\ UNCHANGED <<cycle, next, mem, faults>>
    /\ UNCHANGED <<status, control, wake, holder, lapsed, inbox, rows, session,
                   seen, job, drained, due, gate, worldVars, crashes, lapses, clicks>>

Checkpoint(w) ==
    /\ pc[w] = "checkpoint"
    /\ session' = mem[w]
    /\ Answered(w, IF job[w] # NoEvent THEN "complete" ELSE AfterEnsure(w))
    /\ Keep
    /\ UNCHANGED <<rowVars, inbox, rows, worldVars, crashes, lapses, clicks>>

(* TransitionActivationOwned to awaiting_subsequent_code *)
Transition(w) ==
    /\ pc[w] = "transition"
    /\ IF OwnsLease(w) /\ status = "pin_changed"
       THEN status' = "subsequent" /\ Answered(w, "wait")
       ELSE Goto(w, "error") /\ UNCHANGED <<status, faults>>
    /\ Keep
    /\ UNCHANGED <<control, cycle, leaseVars, inbox, rows, session, worldVars,
                   crashes, lapses, clicks>>

(* TouchActivationPoll, until the provider deadline or at once *)
Deadline == IF expired THEN Now ELSE Late
Wait(w) ==
    /\ pc[w] \in {"wait", "wait_now"}
    /\ IF OwnsLease(w)
       THEN /\ next' = IF pc[w] = "wait" THEN Deadline ELSE Now
            /\ Answered(w, "look")
       ELSE Goto(w, "error") /\ UNCHANGED <<next, faults>>
    /\ Keep
    /\ UNCHANGED <<status, control, cycle, wake, holder, lapsed, inbox, rows, session,
                   worldVars, crashes, lapses, clicks>>

-----------------------------------------------------------------------------
(* The end: processControl and expireAndCancel *)

(* setStatus=6 or 8: the provider closes the number, or BAD_STATUS concludes *)
(* as well; a failed call is an error                                      *)
Conclude(w) ==
    /\ pc[w] \in {"control", "expire"}
    /\ settled' \in {settled, TRUE}
    /\ \/ /\ Goto(w, IF pc[w] = "control" THEN "finish" ELSE "finish_expired")
          /\ UNCHANGED faults
       \/ Goto(w, "error") /\ Fault
    /\ Keep
    /\ UNCHANGED <<dbVars, sent, blank, unread, expired, stopped, crashes, lapses, clicks>>

End(w) == IF pc[w] = "finish_expired" THEN "expired"
          ELSE IF seen[w].control = "success" THEN "success" ELSE "cancelled"

\* Mutant: a claimed event stays open.
ClosedUnclaimed(box) == [e \in Event |-> IF box[e].st = "received"
                                         THEN [box[e] EXCEPT !.st = "ignored"] ELSE box[e]]

(* ignoreOpenHeroSMSWebhookEvents *)
Closed(box) == [e \in Event |-> IF box[e].st \in Pending
                                THEN [box[e] EXCEPT !.st = "ignored"] ELSE box[e]]

(* TransitionActivationOwned to a terminal status *)
Finish(w) ==
    /\ pc[w] \in {"finish", "finish_expired"}
    /\ IF OwnsLease(w) /\ (pc[w] = "finish" => status = seen[w].status)
       THEN /\ status' = End(w) /\ control' = ""
            /\ Unleased
            /\ inbox' = Closed(inbox)
            /\ Answered(w, "look")
       ELSE Goto(w, "error") /\ UNCHANGED <<status, control, holder, lapsed, inbox, faults>>
    /\ Keep
    /\ UNCHANGED <<cycle, next, wake, rows, session, worldVars, crashes, lapses, clicks>>

-----------------------------------------------------------------------------
(* Requests and the provider *)

(* MarkSuccess and Delete: SetControlAction *)
Click(action) ==
    /\ Open /\ control \in {"", action}
    /\ action = "success" => status = "subsequent"
    /\ clicks < MaxClicks /\ clicks' = clicks + 1
    /\ control' = action /\ next' = Now
    /\ UNCHANGED <<status, wake, holder, lapsed, cycle, inbox, rows, session,
                   workVars, worldVars, crashes, lapses, faults>>

\* Mutant: Stop leaves the lease with its worker.
StopUnfenced ==
    /\ Open /\ ~stopped /\ MaxStops > 0
    /\ stopped' = TRUE
    /\ control' = "delete" /\ next' = Now
    /\ UNCHANGED <<status, wake, holder, lapsed, cycle, inbox, rows, session, workVars,
                   sent, blank, unread, settled, expired, boundVars>>

(* cancelBatchActivationsSQL; the batch is stopped once *)
Stop ==
    /\ Open /\ ~stopped /\ MaxStops > 0
    /\ stopped' = TRUE
    /\ control' = "delete" /\ next' = Now
    /\ Unleased
    /\ UNCHANGED <<status, wake, cycle, inbox, rows, session, workVars,
                   sent, blank, unread, settled, expired, boundVars>>

(* the provider issues a callback: for an SMS, or another one for the last *)
Issue ==
    /\ sent < MaxEvents /\ sent' = sent + 1
    /\ ~settled
    /\ unread' \in {unread, TRUE}
    /\ UNCHANGED <<dbVars, workVars, blank, settled, expired, stopped, boundVars>>

(* IngestHeroSMSWebhook, at the first delivery *)
Ingest(e) ==
    /\ e <= sent /\ inbox[e].st = "absent"
    /\ inbox' = [inbox EXCEPT ![e].st = IF Open THEN "received" ELSE "ignored", ![e].at = Now]
    /\ IF Open THEN Wake(Now) ELSE UNCHANGED <<next, wake>>
    /\ UNCHANGED <<status, control, holder, lapsed, cycle, rows, session, workVars,
                   worldVars, boundVars>>

(* and at a repeated one: an event still pending wakes the activation *)
IngestAgain(e) ==
    /\ Open /\ inbox[e].st \in Pending
    /\ Wake(inbox[e].at)
    /\ UNCHANGED <<status, control, holder, lapsed, cycle, inbox, rows, session, workVars,
                   worldVars, boundVars>>

-----------------------------------------------------------------------------
(* Time, and workers lost *)

Sooner(t) == IF t = Soon THEN Now ELSE t
Tick ==
    /\ next' = Sooner(next) /\ wake' = Sooner(wake)
    /\ inbox' = [e \in Event |-> [inbox[e] EXCEPT !.at = Sooner(@)]]
    /\ due' = [w \in Workers |-> Sooner(due[w])]
    /\ UNCHANGED <<status, control, holder, lapsed, cycle, rows, session,
                   pc, seen, job, mem, drained, gate, worldVars, boundVars>>

AtDeadline(t) == IF t = Late THEN Now ELSE t
Expire ==
    /\ ~expired /\ expired' = TRUE
    /\ next' = AtDeadline(next)
    /\ due' = [w \in Workers |-> AtDeadline(due[w])]
    /\ UNCHANGED <<status, control, wake, holder, lapsed, cycle, inbox, rows, session,
                   pc, seen, job, mem, drained, gate, sent, blank, unread, settled, stopped,
                   boundVars>>

(* the lease of a worker that is gone runs out *)
LeaseExpires ==
    /\ holder # NoWorker /\ ~lapsed /\ pc[holder] = "idle"
    /\ lapsed' = TRUE
    /\ UNCHANGED <<status, control, next, wake, holder, cycle, inbox, rows, session,
                   workVars, worldVars, boundVars>>

(* a worker outlives its lease *)
Lapse ==
    /\ holder # NoWorker /\ ~lapsed /\ pc[holder] # "idle"
    /\ lapses < MaxLapses /\ lapses' = lapses + 1
    /\ lapsed' = TRUE
    /\ UNCHANGED <<status, control, next, wake, holder, cycle, inbox, rows, session,
                   workVars, worldVars, crashes, faults, clicks>>

Crash(w) ==
    /\ pc[w] # "idle"
    /\ crashes < MaxCrashes /\ crashes' = crashes + 1
    /\ Leave(w)
    /\ UNCHANGED <<dbVars, worldVars, lapses, faults, clicks>>

(* runTick and StopBatch cancel the context of a worker they supersede *)
Cancelled(w) ==
    /\ pc[w] # "idle" /\ holder # w
    /\ Leave(w)
    /\ UNCHANGED <<dbVars, worldVars, boundVars>>

-----------------------------------------------------------------------------

Serve(w) == Claim(w) \/ IgnoreBlank(w) \/ IgnoreOccupied(w) \/ Complete(w) \/ FailEvent(w)
Collect(w) == Examine(w) \/ Append(w) \/ SaveLocal(w) \/ Ensure(w) \/ Sync(w)
AdvanceCycle(w) == Advance(w) \/ Ask(w) \/ Reject(w) \/ Accept(w) \/ Bump(w) \/ Checkpoint(w)
Settle(w) == Transition(w) \/ Wait(w) \/ Conclude(w) \/ Finish(w) \/ Look(w) \/ Release(w)
Work(w) == Lock(w) \/ Serve(w) \/ Collect(w) \/ AdvanceCycle(w) \/ Settle(w)
Trouble(w) == LockFails(w) \/ CallFails(w) \/ Crash(w) \/ Cancelled(w)

Provider == Issue \/ \E e \in Event : Ingest(e) \/ IngestAgain(e)
User == Click("success") \/ Click("delete") \/ Stop
Clock == Tick \/ Expire \/ LeaseExpires \/ Lapse

Next ==
    \/ \E w \in Workers : Lease(w) \/ Work(w) \/ Trouble(w)
    \/ Provider \/ User \/ Clock

Spec == Init /\ [][Next]_vars

(* Workers run and claim what is due, leases of dead workers run out, and   *)
(* time passes; the provider and the users need not act.                    *)
FairSpec ==
    /\ Spec
    /\ \A w \in Workers : WF_vars(Lease(w)) /\ WF_vars(Work(w))
    /\ WF_vars(LeaseExpires) /\ WF_vars(Tick)

-----------------------------------------------------------------------------
(* Properties *)

Place == {"idle", "lock", "release", "error", "control", "expire", "finish",
          "finish_expired"} \cup CallSteps

Statuses == {"pin_changed", "subsequent"} \cup Finished
Controls == {"", "success", "delete"}
Seen == [status : Statuses \cup {""}, control : Controls, cycle : Nat]
InboxEvent == [st : {"absent", "received", "processing", "processed", "ignored"},
               at : {Now, Soon, Never},
               claim : Workers \cup {OldLease, NoWorker}]

(* Status, schedule, leases, events, rows, session and every worker keep    *)
(* their types: next_run_at is never NULL and a wake-up is near or none.    *)
TypeOK ==
    /\ status \in Statuses /\ control \in Controls
    /\ next \in {Now, Soon, Late} /\ wake \in {Now, Soon, Never}
    /\ holder \in Workers \cup {NoWorker} /\ lapsed \in BOOLEAN
    /\ cycle \in Nat
    /\ inbox \in [Event -> InboxEvent]
    /\ rows \in [Cycle -> Event \cup {PinCode, NoEvent}]
    /\ session \in Session
    /\ gate \in Workers \cup {NoWorker}
    /\ pc \in [Workers -> Place]
    /\ seen \in [Workers -> Seen]
    /\ job \in [Workers -> Event \cup {NoEvent}]
    /\ mem \in [Workers -> Session]
    /\ due \in [Workers -> {Now, Soon, Late}]

(* The account lock covers all that a worker does with the session: from    *)
(* the read on its copy is the session's checkpoint, and status=3 is asked  *)
(* only while the stored checkpoint says so.                                *)
Unlocked == {"idle", "lock", "error"}
Copied == {"append", "advance", "ask", "ask_again", "reject", "accept"}
LockInv ==
    \A w \in Workers :
        /\ pc[w] \notin Unlocked => gate = w
        /\ pc[w] \in Copied => session = mem[w]
        /\ pc[w] \in {"ask", "ask_again"} => session.request = "dispatching"

(* The cycles below the current one have their codes and those above have   *)
(* none, no code is in two; until it advances the cycle, the lease holder   *)
(* works on the current one, and it advances only past a stored code.       *)
Advancing == {"advance", "ask", "ask_again", "accept", "bump"}
OnCycle == {"lock", "claim", "blank", "ensure", "examine", "append"} \cup Advancing
RowsInOrder ==
    \A c \in Cycle :
        /\ c < cycle => rows[c] # NoEvent
        /\ c > cycle => rows[c] = NoEvent
        /\ \A d \in Cycle : rows[c] # NoEvent /\ rows[d] = rows[c] => d = c
OwnCycle(w) ==
    /\ seen[w].cycle \in Cycle
    /\ pc[w] \in OnCycle /\ holder = w => seen[w].cycle = cycle
    /\ pc[w] \in {"examine", "append"} => job[w] \in Event
    /\ pc[w] = "append" => RowOf(job[w]) = {}
    /\ pc[w] \in Advancing => \E c \in Taken : c >= seen[w].cycle
CycleInv == cycle \in Cycle /\ RowsInOrder /\ \A w \in Workers : OwnCycle(w)

Log == INSTANCE CodeLog WITH
    Codes <- Event \cup {PinCode}, Cycles <- Cycle, Empty <- NoEvent,
    shown <- rows, cycle <- cycle, closed <- ~Open

(* Whatever crashes, lapses or is delivered again, a cycle shows one code,  *)
(* a code is shown once, and the cycle advances once for a stored code.     *)
ShowsAsLog == Log!Spec

(* A stored callback that no worker will look at now wakes the activation   *)
(* within a retry delay: with no lease by the schedule, with the lease of a *)
(* dead worker also by the marker.                                          *)
WakeIsKept ==
    Open /\ Received(inbox) # {} =>
        /\ holder = NoWorker => next <= Soon
        /\ holder \in Workers /\ pc[holder] = "idle" => Earlier(next, wake) <= Soon

(* A worker whose lease was fenced or given to another writes nothing more  *)
(* to the activation, its inbox or its codes.                               *)
StaleWritesNothing ==
    [][\A w \in Workers :
        pc[w] # "idle" /\ pc'[w] # pc[w] /\ holder # w
            => UNCHANGED <<rowVars, inbox, rows>>]_vars

(* A code is acknowledged only when it is stored, and dropped before the    *)
(* end only when it is not stored and another took its cycle.               *)
CodeIsKept ==
    \A e \in Event \ blank :
        /\ inbox[e].st = "processed" => RowOf(e) # {}
        /\ inbox[e].st = "ignored" /\ Open =>
               RowOf(e) = {} /\ \E c \in Cycle : rows[c] \in Event

(* Between storing a callback and showing its code neither the wake-up nor  *)
(* the code gets lost.                                                      *)
CallbacksAreKept == WakeIsKept /\ CodeIsKept

(* The provider is moved to the next SMS only under a durable intent, and   *)
(* not again once its acceptance is durable.                                *)
AskIsRecorded == [][unread /\ ~unread' => session.request = "dispatching"]_vars

(* A finished activation leaves no event pending in its inbox.              *)
InboxCloses == ~Open => \A e \in Event : inbox[e].st \notin Pending

(* A Stop is carried out without waiting for the provider deadline, also    *)
(* when it fences a worker at work.                                         *)
StopIsDue == stopped /\ Open /\ holder = NoWorker => next <= Soon

(* An event claimed by a worker that died is claimed again or answered.     *)
ClaimEnds == \A e \in Event : inbox[e].st = "processing" ~> inbox[e].st # "processing"

(* A Stop ends the activation.                                              *)
StopEnds == stopped ~> ~Open

(* README.md:95 and SetControlAction: a Success or Delete request is due at *)
(* once.                                                                    *)
ControlIsDue == control # "" /\ Open /\ holder = NoWorker => next <= Soon
=============================================================================
