------------------------------ MODULE HeroTask ------------------------------
(***************************************************************************)
(* One receive-only HeroSMS number task: how scheduler workers lease its   *)
(* row, buy a number behind a durable fence, collect messages, ask the     *)
(* provider for the next one, and settle the number, while callbacks,      *)
(* stops, restarts, worker crashes and expired leases interleave.          *)
(*                                                                         *)
(* Durable state is the hero_sms_number_tasks row and the messages stored  *)
(* for its number; every storage statement or transaction is one step.  A  *)
(* worker keeps the copy of the row it claimed and decides from that copy. *)
(* A provider call is one step: its effect and the answer the worker will  *)
(* act on.  A worker that stops, or whose storage call fails in a way the  *)
(* code only logs, is a crash: the goroutine is gone and the lease stays.  *)
(*                                                                         *)
(* Tasks share nothing but the provider, so one row is enough.  A number   *)
(* is named by the purchase token that bought it.  next_run_at is "any     *)
(* moment"; the time since the purchase is one of three phases.  Lease     *)
(* versions are abstracted to the holder: a version a worker holds is      *)
(* never issued again.  Message i of a number is the i-th SMS it received, *)
(* so a repeated delivery is recognised (the matching itself is not here). *)
(***************************************************************************)
EXTENDS Naturals, FiniteSets

CONSTANTS
    Workers,        \* worker goroutines, of any process on the database
    Tokens,         \* purchase tokens
    MaxMessages,    \* bound: SMS a number receives
    Kind,           \* product_kind
    Supports,       \* may a purchase allow status=3 (CanGetAnotherSMS)
    MaxCrashes,     \* bound: workers lost in a behaviour
    MaxLapses,      \* bound: leases that expire while their worker runs
    MaxFaults,      \* bound: handled storage errors
    MaxStops,       \* bound: stop requests
    MaxLost,        \* bound: callbacks the provider gives up on
    NoWorker, NoToken

ASSUME KindAssumption == Kind \in {"activation", "rent"} /\ Supports \in BOOLEAN
ASSUME TaskBounds ==
    /\ MaxMessages \in Nat /\ MaxCrashes \in Nat /\ MaxLapses \in Nat
    /\ MaxFaults \in Nat /\ MaxStops \in Nat /\ MaxLost \in Nat
ASSUME TaskNulls == NoWorker \notin Workers /\ NoToken \notin Tokens

VARIABLES
    row,        \* columns of the task row
    holder,     \* lease_owner and lease_version: the worker they name
    lapsed,     \* lease_until has passed
    attached,   \* messages whose task_id is the row
    stored,     \* messages stored for a number, attached or orphan
    clock,      \* time since purchase: before refundable_until, before expires_at
    sold,       \* the provider's answer to a token, and the state of its number
    texts,      \* SMS the number received
    unread,     \* the provider shows a code (STATUS_OK) status=3 has not moved past
    passed,     \* SMS it had received when status=3 was last applied
    lost,       \* callbacks that will never be delivered
    verbs,      \* settlement calls that reached the provider for a number
    pc, seen,   \* where a worker is, and its copy of the row
    got,        \* messages a poll returned and not yet appended
    late,       \* the settlement in progress found the number expired
    crashes, lapses, faults, stops

dbVars == <<row, holder, lapsed, attached, stored>>
providerVars == <<sold, texts, unread, passed, lost, verbs>>
workVars == <<pc, seen, got, late>>
boundVars == <<crashes, lapses, faults, stops>>
vars == <<dbVars, clock, providerVars, workVars, boundVars>>

Status == {"waiting_number", "purchasing", "active", "purchase_unknown", "settling",
           "stopped", "refunded", "settled", "expired"}
Finished == {"stopped", "refunded", "settled", "expired"}
Refund == {"", "refundable", "requested", "refunded", "unavailable", "settled"}
Message == 1..MaxMessages

Row == [status: Status, token: Tokens \cup {NoToken}, number: Tokens \cup {NoToken},
        refund: Refund, messages: Nat, continued: Nat, pending: Nat,
        supports: BOOLEAN, stop: BOOLEAN, wake: BOOLEAN, dated: BOOLEAN]

NewRow == [status |-> "waiting_number", token |-> NoToken, number |-> NoToken,
           refund |-> "", messages |-> 0, continued |-> 0, pending |-> 0,
           supports |-> FALSE, stop |-> FALSE, wake |-> FALSE, dated |-> FALSE]

Place == {"idle", "begin", "buy", "release", "commit", "recover", "mark", "mark_known",
          "schedule", "poll", "append", "begin_next", "ask", "ask_again", "complete",
          "abort", "prepare", "call", "finish_stopped", "finish_refunded",
          "finish_settled", "finish_expired"}

DbType ==
    /\ row \in Row
    /\ holder \in Workers \cup {NoWorker}
    /\ lapsed \in BOOLEAN
    /\ attached \in SUBSET Message
    /\ stored \in [Tokens -> SUBSET Message]

ProviderType ==
    /\ sold \in [Tokens -> {"none", "refused", "open", "cancelled", "finished", "gone"}]
    /\ texts \in [Tokens -> 0..MaxMessages]
    /\ unread \in [Tokens -> BOOLEAN]
    /\ passed \in [Tokens -> 0..MaxMessages]
    /\ lost \in [Tokens -> SUBSET Message]
    /\ verbs \in [Tokens -> SUBSET {"cancel", "finish"}]

WorkType ==
    /\ pc \in [Workers -> Place]
    /\ seen \in [Workers -> Row]
    /\ got \in [Workers -> SUBSET Message]
    /\ late \in [Workers -> BOOLEAN]

TypeOK ==
    /\ DbType
    /\ clock \in {"refundable", "kept", "expired"}
    /\ ProviderType
    /\ WorkType
    /\ crashes \in Nat /\ lapses \in Nat /\ faults \in Nat /\ stops \in Nat

Init ==
    /\ row = NewRow
    /\ holder = NoWorker /\ lapsed = FALSE
    /\ attached = {} /\ stored = [t \in Tokens |-> {}]
    /\ clock = "refundable"
    /\ sold = [t \in Tokens |-> "none"]
    /\ texts = [t \in Tokens |-> 0]
    /\ unread = [t \in Tokens |-> FALSE]
    /\ passed = [t \in Tokens |-> 0]
    /\ lost = [t \in Tokens |-> {}]
    /\ verbs = [t \in Tokens |-> {}]
    /\ pc = [w \in Workers |-> "idle"]
    /\ seen = [w \in Workers |-> NewRow]
    /\ got = [w \in Workers |-> {}]
    /\ late = [w \in Workers |-> FALSE]
    /\ crashes = 0 /\ lapses = 0 /\ faults = 0 /\ stops = 0

-----------------------------------------------------------------------------
(* Building blocks *)

Owns(w) == holder = w /\ ~lapsed /\ row.status \notin Finished
Expired(r) == r.dated /\ clock = "expired"
Continuable(r) == Kind = "activation" /\ r.supports
Behind(r) == r.pending > 0 \/ r.messages > r.continued

Goto(w, place) == pc' = [pc EXCEPT ![w] = place]
Stay == UNCHANGED <<seen, got, late>>
(* the goroutine returns: nothing of its copy is used again *)
Leave(w) ==
    /\ Goto(w, "idle")
    /\ seen' = [seen EXCEPT ![w] = NewRow]
    /\ got' = [got EXCEPT ![w] = {}]
    /\ late' = [late EXCEPT ![w] = FALSE]

Unleased == holder' = NoWorker /\ lapsed' = FALSE
KeepLease == UNCHANGED <<holder, lapsed>>
KeepMessages == UNCHANGED <<attached, stored>>

(* continueActivation, up to its first storage or provider call *)
NextStep(r) ==
    IF r.stop \/ Expired(r) THEN "prepare"
    ELSE IF r.pending > 0 THEN "ask_again" ELSE "begin_next"

(* processTask: the branch a claimed row takes *)
Route(r) ==
    CASE r.status = "waiting_number" /\ r.stop -> "finish_stopped"
      [] r.status = "waiting_number" /\ ~r.stop -> "begin"
      [] r.status = "active" ->
            IF r.stop \/ Expired(r) THEN "prepare"
            ELSE IF Continuable(r) /\ Behind(r) THEN NextStep(r)
            ELSE IF r.wake THEN "schedule" ELSE "poll"
      [] r.status = "purchase_unknown" ->
            IF ~r.stop THEN "schedule"
            ELSE IF r.number = NoToken THEN "finish_stopped" ELSE "prepare"
      [] OTHER -> "call"

-----------------------------------------------------------------------------
(* Claims *)

ClaimableWhileRunning ==
    /\ row.status \notin Finished
    /\ holder = NoWorker \/ lapsed
    /\ \/ row.status = "purchasing" /\ lapsed
       \/ row.status \in {"waiting_number", "active", "settling"}

Claimable ==
    /\ row.status \notin Finished
    /\ holder = NoWorker \/ lapsed
    /\ \/ row.status = "purchasing" /\ lapsed
       \/ row.status \in {"waiting_number", "active", "settling"}
       \/ row.status = "purchase_unknown" /\ row.stop

Claim(w) ==
    /\ pc[w] = "idle"
    /\ Claimable
    /\ row' = [row EXCEPT !.status = IF @ = "purchasing" THEN "purchase_unknown" ELSE @]
    /\ holder' = w /\ lapsed' = FALSE
    /\ seen' = [seen EXCEPT ![w] = row']
    /\ late' = [late EXCEPT ![w] = row'.status = "settling" /\ Expired(row')]
    /\ Goto(w, Route(row'))
    /\ UNCHANGED <<attached, stored, clock, providerVars, got, boundVars>>

-----------------------------------------------------------------------------
(* Purchase *)

UnusedToken(t) ==
    /\ sold[t] = "none"
    /\ row.token # t
    /\ \A w \in Workers : seen[w].token # t

Begin(w) ==
    /\ pc[w] = "begin"
    /\ \E t \in Tokens :
        /\ UnusedToken(t)
        /\ IF Owns(w) /\ row.status = "waiting_number" /\ ~row.stop /\ row.token = NoToken
           THEN /\ row' = [row EXCEPT !.status = "purchasing", !.token = t]
                /\ seen' = [seen EXCEPT ![w] = row']
                /\ Goto(w, "buy")
                /\ UNCHANGED <<got, late>>
           ELSE Leave(w) /\ UNCHANGED row
    /\ KeepLease /\ KeepMessages
    /\ UNCHANGED <<clock, providerVars, boundVars>>

(* newToken or the country code fails before the fence is written *)
BeginFails(w) ==
    /\ pc[w] = "begin"
    /\ Goto(w, "schedule") /\ Stay
    /\ UNCHANGED <<dbVars, clock, providerVars, boundVars>>

(* PurchaseOne: refused, allocated and answered, answered without a phone  *)
(* number, or no usable answer with or without an allocation behind it     *)
Buy(w) ==
    /\ pc[w] = "buy"
    /\ LET t == seen[w].token IN
        \/ sold' = [sold EXCEPT ![t] = "refused"] /\ Goto(w, "release")
        \/ sold' = [sold EXCEPT ![t] = "open"] /\ Goto(w, "commit")
        \/ sold' = [sold EXCEPT ![t] = "open"] /\ Goto(w, "mark_known")
        \/ /\ \E s \in {"refused", "open"} : sold' = [sold EXCEPT ![t] = s]
           /\ Goto(w, "mark")
    /\ Stay
    /\ UNCHANGED <<dbVars, clock, texts, unread, passed, lost, verbs, boundVars>>

OwnsPurchase(w) == Owns(w) /\ row.status = "purchasing" /\ row.token = seen[w].token

Release(w) ==
    /\ pc[w] = "release"
    /\ IF OwnsPurchase(w)
       THEN /\ row' = [row EXCEPT !.status = "waiting_number", !.token = NoToken, !.wake = FALSE]
            /\ Unleased
       ELSE UNCHANGED row /\ KeepLease
    /\ KeepMessages
    /\ Leave(w)
    /\ UNCHANGED <<clock, providerVars, boundVars>>

(* orphan messages of a number become the row's *)
AdoptNothing(t) == UNCHANGED attached
Adopt(t) == attached' = attached \cup stored[t]

(* persistHeroSMSPurchaseOutcome: the number becomes the row's, with the   *)
(* orphan messages it has                                                  *)
PersistOutcome(r, t, supports) ==
    /\ Adopt(t)
    /\ row' = [r EXCEPT !.status = "active", !.number = t, !.supports = supports,
                        !.pending = 0, !.dated = TRUE,
                        !.messages = Cardinality(attached'),
                        !.refund = IF attached' # {} THEN "unavailable" ELSE "refundable",
                        !.wake = attached' # {}]
    /\ UNCHANGED stored
    /\ Unleased

(* the answer of a purchase says whether status=3 is possible *)
Capability == {c \in BOOLEAN : c => Supports /\ Kind = "activation"}

(* the transaction commits and its acknowledgement may be lost *)
Commit(w) ==
    /\ pc[w] = "commit"
    /\ \/ /\ OwnsPurchase(w)
          /\ \E c \in Capability : PersistOutcome(row, seen[w].token, c)
          /\ \/ Leave(w) /\ UNCHANGED faults
             \/ /\ faults < MaxFaults /\ faults' = faults + 1
                /\ Goto(w, "recover") /\ Stay
       \/ /\ \/ ~OwnsPurchase(w) /\ UNCHANGED faults
             \/ faults < MaxFaults /\ faults' = faults + 1
          /\ Goto(w, "recover") /\ Stay
          /\ UNCHANGED dbVars
    /\ UNCHANGED <<clock, providerVars, crashes, lapses, stops>>

RecoverableUnlessStopped(t) ==
    /\ row.token = t
    /\ row.status \in {"purchasing", "purchase_unknown", "active"}
    /\ row.number \in {NoToken, t}

Recoverable(t) ==
    /\ row.token = t
    /\ row.status \in {"purchasing", "purchase_unknown", "active", "stopped"}
    /\ row.number \in {NoToken, t}

Recover(w) ==
    /\ pc[w] = "recover"
    /\ LET t == seen[w].token IN
       IF Recoverable(t)
       THEN \E c \in Capability :
                PersistOutcome([row EXCEPT !.stop = @ \/ row.status = "stopped"], t, c)
       ELSE UNCHANGED dbVars
    /\ Leave(w)
    /\ UNCHANGED <<clock, providerVars, boundVars>>

MarkUnknown(w) ==
    /\ pc[w] \in {"mark", "mark_known"}
    /\ LET t == seen[w].token
           known == pc[w] = "mark_known" IN
       IF OwnsPurchase(w)
       THEN /\ IF known THEN Adopt(t) ELSE UNCHANGED attached
            /\ row' = [row EXCEPT !.status = "purchase_unknown",
                                  !.number = IF known THEN t ELSE @,
                                  !.messages = IF known THEN Cardinality(attached') ELSE @]
            /\ Unleased
            /\ UNCHANGED stored
       ELSE UNCHANGED dbVars
    /\ Leave(w)
    /\ UNCHANGED <<clock, providerVars, boundVars>>

-----------------------------------------------------------------------------
(* Messages *)

WokenForgetsIntent(r, count) ==
    [r EXCEPT !.messages = count, !.refund = "unavailable",
              !.wake = @ \/ r.status \notin Finished]

(* wakeHeroSMSTask, in the transaction that attached a message *)
Woken(r, count) ==
    [r EXCEPT !.messages = count,
              !.refund = IF r.status = "active" THEN "unavailable" ELSE @,
              !.wake = @ \/ r.status \notin Finished]

(* AppendHeroSMSTaskMessage of message i of number t *)
Append(t, i) ==
    /\ stored' = [stored EXCEPT ![t] = @ \cup {i}]
    /\ IF row.number = t /\ i \notin attached
       THEN attached' = attached \cup {i} /\ row' = Woken(row, Cardinality(attached'))
       ELSE UNCHANGED <<attached, row>>

(* a callback, which the provider may repeat, delay or give up on *)
Callback(t, i) ==
    /\ i <= texts[t] /\ i \notin lost[t]
    /\ Append(t, i)
    /\ KeepLease
    /\ UNCHANGED <<clock, providerVars, workVars, boundVars>>

(* after the last message of a poll: continue, or schedule *)
AfterPoll(r) == IF Continuable(r) /\ Behind(r) THEN NextStep(r) ELSE "schedule"

(* the whole list of a rental, the current code of an activation *)
PollAnswer(t) ==
    {i \in Message : i <= texts[t] /\ (Kind = "rent" \/ (i = texts[t] /\ unread[t]))}

Poll(w) ==
    /\ pc[w] = "poll"
    /\ \/ Goto(w, "schedule") /\ Stay    \* the read fails
       \/ LET answer == PollAnswer(seen[w].number) IN
          /\ got' = [got EXCEPT ![w] = answer]
          /\ Goto(w, IF answer = {} THEN AfterPoll(seen[w]) ELSE "append")
          /\ UNCHANGED <<seen, late>>
    /\ UNCHANGED <<dbVars, clock, providerVars, boundVars>>

(* the copy is refreshed from the row the append returns *)
PollAppend(w) ==
    /\ pc[w] = "append"
    /\ \E i \in got[w] :
        /\ \A j \in got[w] : i <= j
        /\ Append(seen[w].number, i)
        /\ seen' = [seen EXCEPT ![w] = row']
        /\ got' = [got EXCEPT ![w] = @ \ {i}]
        /\ Goto(w, IF row'.stop \/ Expired(row') THEN "prepare"
                   ELSE IF got'[w] # {} THEN "append" ELSE AfterPoll(row'))
    /\ KeepLease
    /\ UNCHANGED <<clock, providerVars, late, boundVars>>

PollAppendFails(w) ==
    /\ pc[w] = "append"
    /\ faults < MaxFaults /\ faults' = faults + 1
    /\ Goto(w, "schedule") /\ Stay
    /\ UNCHANGED <<dbVars, clock, providerVars, crashes, lapses, stops>>

(* ScheduleHeroSMSTaskOwned with the status of the worker's copy *)
Schedule(w) ==
    /\ pc[w] = "schedule"
    /\ LET s == seen[w].status IN
       IF Owns(w) /\ row.status # "purchasing" /\ (row.pending = 0 \/ s = "active")
       THEN /\ row' = [row EXCEPT !.status = s, !.wake = FALSE,
                          !.refund = IF s = "active" /\ @ = "refundable"
                                        /\ (row.messages > 0 \/ clock # "refundable")
                                     THEN "unavailable" ELSE @]
            /\ Unleased
       ELSE UNCHANGED row /\ KeepLease
    /\ KeepMessages
    /\ Leave(w)
    /\ UNCHANGED <<clock, providerVars, boundVars>>

-----------------------------------------------------------------------------
(* Continuation: ask the provider for the next SMS (status=3) *)

MayBeginNext ==
    /\ row.status = "active" /\ Kind = "activation" /\ row.supports
    /\ row.pending = 0 /\ row.continued < row.messages
    /\ ~row.stop /\ ~Expired(row)

(* on success the acknowledgement may be lost, and the lease is given back *)
BeginNext(w) ==
    /\ pc[w] = "begin_next"
    /\ \/ /\ Owns(w) /\ MayBeginNext
          /\ row' = [row EXCEPT !.pending = row.messages]
          /\ \/ /\ seen' = [seen EXCEPT ![w] = row']
                /\ Goto(w, "ask")
                /\ UNCHANGED <<got, late, faults>>
             \/ /\ faults < MaxFaults /\ faults' = faults + 1
                /\ Goto(w, "schedule") /\ Stay
       \/ /\ \/ ~(Owns(w) /\ MayBeginNext) /\ UNCHANGED faults
             \/ faults < MaxFaults /\ faults' = faults + 1
          /\ Goto(w, "schedule") /\ Stay
          /\ UNCHANGED row
    /\ KeepLease /\ KeepMessages
    /\ UNCHANGED <<clock, providerVars, crashes, lapses, stops>>

(* the number expired after the intent was stored and before it is sent *)
ExpiredBeforeAsk(w) ==
    /\ pc[w] = "ask" /\ Expired(seen[w])
    /\ Goto(w, "abort") /\ Stay
    /\ UNCHANGED <<dbVars, clock, providerVars, boundVars>>

(* RequestAnother applied by the provider, or not *)
Advance(t) ==
    /\ sold[t] = "open" /\ unread[t]
    /\ unread' = [unread EXCEPT ![t] = FALSE]
    /\ passed' = [passed EXCEPT ![t] = texts[t]]
NotAdvanced == UNCHANGED <<unread, passed>>

(* what classifyContinuationRequest can make of the answer *)
Asked(t, outcome) ==
    \/ outcome = "applied" /\ Advance(t)
    \/ outcome = "ambiguous" /\ (Advance(t) \/ NotAdvanced)
    \/ outcome = "bad_status" /\ (sold[t] # "open" \/ ~unread[t]) /\ NotAdvanced
    \/ outcome = "rejected" /\ NotAdvanced

AfterAsk(outcome) ==
    CASE outcome = "applied" -> "complete"
      [] outcome \in {"bad_status", "rejected"} -> "abort"
      [] OTHER -> "schedule"
AfterAskAgainGivesUp(outcome) == "complete"
AfterAskAgain(outcome) ==
    IF outcome \in {"applied", "bad_status"} THEN "complete" ELSE "schedule"

Ask(w) ==
    /\ \/ pc[w] = "ask" /\ ~Expired(seen[w])
       \/ pc[w] = "ask_again"
    /\ \E outcome \in {"applied", "bad_status", "rejected", "ambiguous"} :
        /\ Asked(seen[w].number, outcome)
        /\ Goto(w, IF pc[w] = "ask" THEN AfterAsk(outcome) ELSE AfterAskAgain(outcome))
    /\ Stay
    /\ UNCHANGED <<dbVars, clock, sold, texts, lost, verbs, boundVars>>

OwnsTarget(w) ==
    /\ Owns(w) /\ row.status = "active" /\ Kind = "activation" /\ row.supports
    /\ row.pending = seen[w].pending

Complete(w) ==
    /\ pc[w] = "complete"
    /\ LET target == seen[w].pending IN
       IF OwnsTarget(w) /\ row.continued < target /\ target <= row.messages
       THEN /\ row' = [row EXCEPT !.continued = target, !.pending = 0,
                                  !.wake = IF row.stop THEN @ ELSE row.messages > target]
            /\ Unleased
       ELSE UNCHANGED row /\ KeepLease
    /\ KeepMessages
    /\ Leave(w)
    /\ UNCHANGED <<clock, providerVars, boundVars>>

Abort(w) ==
    /\ pc[w] = "abort"
    /\ IF OwnsTarget(w)
       THEN /\ row' = [row EXCEPT !.pending = 0,
                          !.wake = IF row.stop THEN @ ELSE row.messages > seen[w].pending]
            /\ Unleased
       ELSE UNCHANGED row /\ KeepLease
    /\ KeepMessages
    /\ Leave(w)
    /\ UNCHANGED <<clock, providerVars, boundVars>>

-----------------------------------------------------------------------------
(* Settlement *)

SettlingKeepsTarget(r) ==
    [r EXCEPT !.status = "settling",
              !.refund = IF r.status = "active" /\ r.messages = 0
                            /\ clock = "refundable" /\ @ = "refundable"
                         THEN "requested" ELSE "unavailable"]
Settling(r) ==
    [r EXCEPT !.status = "settling", !.pending = 0,
              !.refund = IF r.status = "active" /\ r.messages = 0
                            /\ clock = "refundable" /\ @ = "refundable"
                         THEN "requested" ELSE "unavailable"]

(* PrepareHeroSMSTaskSettlementOwned: the decision to cancel or to finish  *)
(* is stored before the provider is told                                   *)
Prepare(w) ==
    /\ pc[w] = "prepare"
    /\ IF /\ Owns(w)
          /\ \/ row.status = "active"
             \/ row.status = "purchase_unknown" /\ row.number # NoToken
       THEN /\ row' = Settling(row)
            /\ seen' = [seen EXCEPT ![w] = row']
            /\ late' = [late EXCEPT ![w] = Expired(row)]
            /\ Goto(w, "call")
            /\ UNCHANGED got
       ELSE Leave(w) /\ UNCHANGED row
    /\ KeepLease /\ KeepMessages
    /\ UNCHANGED <<clock, providerVars, boundVars>>

Verb(r) == IF r.refund = "requested" THEN "cancel" ELSE "finish"
Closed(verb) == IF verb = "cancel" THEN "cancelled" ELSE "finished"

(* the provider's reaction: the new state of the number, and what          *)
(* classifyProviderFinalization makes of the answer                        *)
Reaction(t, verb) ==
    IF sold[t] = "open"
    THEN {<<Closed(verb), "applied">>, <<Closed(verb), "retry">>, <<"open", "retry">>}
    ELSE {<<sold[t], "retry">>}
         \cup (IF sold[t] = "cancelled" THEN {<<sold[t], "cancelled">>} ELSE {})
         \cup {<<sold[t], o>> : o \in {"finished", "missing"}}

ConcludeAnyCancel(verb, outcome) ==
    IF outcome = "retry" THEN "schedule"
    ELSE IF verb = "cancel" THEN "finish_refunded" ELSE "finish_settled"
Conclude(verb, outcome) ==
    IF outcome = "retry" THEN "schedule"
    ELSE IF verb = "cancel" /\ outcome \in {"applied", "cancelled"}
    THEN "finish_refunded" ELSE "finish_settled"

Call(w) ==
    /\ pc[w] = "call"
    /\ LET t == seen[w].number
           verb == Verb(seen[w]) IN
       \E r \in Reaction(t, verb) :
        /\ sold' = [sold EXCEPT ![t] = r[1]]
        /\ verbs' = [verbs EXCEPT ![t] = @ \cup {verb}]
        /\ Goto(w, IF late[w] /\ verb = "finish" THEN "finish_expired"
                   ELSE Conclude(verb, r[2]))
    /\ Stay
    /\ UNCHANGED <<dbVars, clock, texts, unread, passed, lost, boundVars>>

MayFinishUnchecked(s) ==
    CASE s \in {"refunded", "settled"} -> row.status = "settling"
      [] s = "stopped" ->
            row.status \in {"waiting_number", "purchase_unknown"} /\ row.number = NoToken
      [] OTHER -> row.status \in {"active", "settling"}

(* FinishHeroSMSTaskOwned *)
MayFinish(s) ==
    CASE s = "refunded" ->
            row.status = "settling" /\ row.messages = 0 /\ row.refund = "requested"
      [] s = "settled" -> row.status = "settling"
      [] s = "stopped" ->
            row.status \in {"waiting_number", "purchase_unknown"} /\ row.number = NoToken
      [] OTHER -> row.status \in {"active", "settling"}

FinishAs(s, refund) ==
    /\ row' = [row EXCEPT !.status = s, !.refund = refund, !.stop = FALSE,
                          !.pending = 0, !.wake = FALSE]
    /\ Unleased

FinishRefundAsStatus(s) == s
FinishRefund(s) ==
    CASE s = "stopped" -> "" [] s = "expired" -> "unavailable" [] OTHER -> s

Target(place) ==
    CASE place = "finish_stopped" -> "stopped" [] place = "finish_refunded" -> "refunded"
      [] place = "finish_settled" -> "settled" [] OTHER -> "expired"

(* a refused "refunded" is retried as "settled" by a second statement *)
Finish(w) ==
    /\ pc[w] \in {"finish_stopped", "finish_refunded", "finish_settled", "finish_expired"}
    /\ LET s == Target(pc[w]) IN
       \/ Owns(w) /\ MayFinish(s) /\ FinishAs(s, FinishRefund(s)) /\ Leave(w)
       \/ /\ ~(Owns(w) /\ MayFinish(s))
          /\ IF s = "refunded" THEN Goto(w, "finish_settled") /\ Stay ELSE Leave(w)
          /\ UNCHANGED row /\ KeepLease
    /\ KeepMessages
    /\ UNCHANGED <<clock, providerVars, boundVars>>

-----------------------------------------------------------------------------
(* User requests *)

RequestStop ==
    /\ row.status \notin Finished
    /\ stops < MaxStops /\ stops' = stops + 1
    /\ row' = [row EXCEPT !.stop = TRUE]
    /\ IF row.status = "waiting_number" THEN Unleased ELSE KeepLease
    /\ KeepMessages
    /\ UNCHANGED <<clock, providerVars, workVars, crashes, lapses, faults>>

RestartAfterUnknown ==
    /\ row.status = "stopped" /\ row.number = NoToken
    /\ row' = [row EXCEPT !.status = "waiting_number", !.token = NoToken, !.stop = FALSE,
                          !.pending = 0, !.wake = FALSE]
    /\ Unleased
    /\ KeepMessages
    /\ UNCHANGED <<clock, providerVars, workVars, boundVars>>

Restart ==
    /\ row.status = "stopped" /\ row.number = NoToken /\ row.token = NoToken
    /\ row' = [row EXCEPT !.status = "waiting_number", !.stop = FALSE,
                          !.pending = 0, !.wake = FALSE]
    /\ Unleased
    /\ KeepMessages
    /\ UNCHANGED <<clock, providerVars, workVars, boundVars>>

-----------------------------------------------------------------------------
(* Environment *)

(* after status=3, or before the first SMS, a number is waiting for one;   *)
(* a rental receives at any time                                           *)
ReceiveText(t) ==
    /\ sold[t] = "open" /\ texts[t] < MaxMessages
    /\ Kind = "rent" \/ ~unread[t]
    /\ texts' = [texts EXCEPT ![t] = @ + 1]
    /\ unread' = [unread EXCEPT ![t] = TRUE]
    /\ UNCHANGED <<dbVars, clock, sold, passed, lost, verbs, workVars, boundVars>>

LoseCallback(t, i) ==
    /\ i <= texts[t] /\ i \notin lost[t] \cup stored[t]
    /\ Cardinality(UNION {lost[u] : u \in Tokens}) < MaxLost
    /\ lost' = [lost EXCEPT ![t] = @ \cup {i}]
    /\ UNCHANGED <<dbVars, clock, sold, texts, unread, passed, verbs, workVars, boundVars>>

Tick ==
    /\ row.dated
    /\ \/ clock = "refundable" /\ clock' = "kept"
       \/ clock = "kept" /\ clock' = "expired"
    /\ UNCHANGED <<dbVars, providerVars, workVars, boundVars>>

(* an expired number is closed by the provider *)
ProviderExpires(t) ==
    /\ clock = "expired" /\ sold[t] = "open"
    /\ sold' = [sold EXCEPT ![t] = "gone"]
    /\ UNCHANGED <<dbVars, clock, texts, unread, passed, lost, verbs, workVars, boundVars>>

Working(w) == pc[w] # "idle"

(* the lease of a worker that is gone runs out *)
LeaseExpires ==
    /\ holder # NoWorker /\ ~lapsed /\ ~Working(holder)
    /\ lapsed' = TRUE
    /\ UNCHANGED <<row, holder, attached, stored, clock, providerVars, workVars, boundVars>>

(* a worker outlives its lease *)
Lapse ==
    /\ holder # NoWorker /\ ~lapsed /\ Working(holder)
    /\ lapses < MaxLapses /\ lapses' = lapses + 1
    /\ lapsed' = TRUE
    /\ UNCHANGED <<row, holder, attached, stored, clock, providerVars, workVars, crashes, faults, stops>>

Crash(w) ==
    /\ Working(w)
    /\ crashes < MaxCrashes /\ crashes' = crashes + 1
    /\ Leave(w)
    /\ UNCHANGED <<dbVars, clock, providerVars, lapses, faults, stops>>

-----------------------------------------------------------------------------

Purchase(w) == Begin(w) \/ BeginFails(w) \/ Buy(w) \/ Release(w) \/ Commit(w)
               \/ Recover(w) \/ MarkUnknown(w)
Receive(w) == Poll(w) \/ PollAppend(w) \/ PollAppendFails(w) \/ Schedule(w)
Continue(w) == BeginNext(w) \/ ExpiredBeforeAsk(w) \/ Ask(w) \/ Complete(w) \/ Abort(w)
Settle(w) == Prepare(w) \/ Call(w) \/ Finish(w)
Work(w) == Purchase(w) \/ Receive(w) \/ Continue(w) \/ Settle(w)

Environment ==
    \/ \E t \in Tokens : ReceiveText(t) \/ ProviderExpires(t)
    \/ \E t \in Tokens, i \in Message : Callback(t, i) \/ LoseCallback(t, i)
    \/ Tick \/ LeaseExpires \/ Lapse

Next ==
    \/ \E w \in Workers : Claim(w) \/ Work(w) \/ Crash(w)
    \/ RequestStop \/ Restart
    \/ Environment

Spec == Init /\ [][Next]_vars

(* A settlement call that is repeated long enough gets a conclusive answer. *)
CallConcludes(w) == Call(w) /\ pc'[w] # "schedule"

(* Workers run, an idle worker claims what is due, leases of dead workers   *)
(* run out.                                                                 *)
FairSpec ==
    /\ Spec
    /\ \A w \in Workers :
        WF_vars(Claim(w)) /\ WF_vars(Work(w)) /\ SF_vars(CallConcludes(w))
    /\ WF_vars(LeaseExpires)

-----------------------------------------------------------------------------
(* Properties *)

Allocated(t) == sold[t] \in {"open", "cancelled", "finished", "gone"}

(* A task never buys two numbers: whatever is refused, unknown, stalled,   *)
(* stopped or restarted, one token at most has an allocation behind it.    *)
OneAllocation == \A t, u \in Tokens : Allocated(t) /\ Allocated(u) => t = u

(* Why: from the fence on, the row's token is the token of the one worker  *)
(* that may still be buying with it, and it is cleared only for a refusal. *)
PurchasePlace == {"buy", "release", "commit", "recover", "mark", "mark_known"}
Fence ==
    /\ \A w \in Workers : pc[w] \in PurchasePlace =>
            seen[w].token \in Tokens /\ row.token = seen[w].token
    /\ \A w, v \in Workers :
            pc[w] \in PurchasePlace /\ pc[v] \in PurchasePlace => w = v
    /\ \A t \in Tokens : Allocated(t) => row.token = t
    /\ \A w \in Workers :
            /\ pc[w] = "buy" => sold[seen[w].token] = "none"
            /\ pc[w] = "release" => sold[seen[w].token] = "refused"

TaskInv == TypeOK /\ Fence

(* A number the provider confirmed is written to the row by the worker     *)
(* that got the answer, whatever happened to its lease or to the row.      *)
NumberIsKept ==
    [][\A w \in Workers :
        pc[w] \in {"commit", "recover"} /\ pc'[w] = "idle" /\ crashes' = crashes
            => row'.number = seen[w].token]_vars

(* A number is told either to cancel or to finish, never both: the choice  *)
(* is durable before the first call.                                       *)
OneVerb == \A t \in Tokens : verbs[t] # {"cancel", "finish"}

(* A refund is reported only for a number the provider cancelled, and a    *)
(* settled number is not left open there.                                  *)
EndIsReal ==
    /\ row.status = "refunded" => sold[row.number] = "cancelled"
    /\ row.status = "settled" => sold[row.number] # "open"

(* No task becomes refunded once a message for it was stored.              *)
RefundIsUnread ==
    [][row.status # "refunded" /\ row'.status = "refunded" => stored[row.number] = {}]_vars

(* A message stored for the row's number is counted on the row, even one   *)
(* that arrived before the number was committed, and an active row with a  *)
(* message does not show itself refundable.                                *)
MessagesCounted ==
    row.number # NoToken =>
        /\ row.messages = Cardinality(stored[row.number])
        /\ row.status = "active" /\ row.messages > 0 => row.refund = "unavailable"

(* Messages are acknowledged only after the provider applied status=3 with *)
(* all of them received, unless the number was closed meanwhile.           *)
AcknowledgedWasAdvanced ==
    row.number # NoToken =>
        row.continued <= passed[row.number] \/ sold[row.number] # "open"

(* The CHECK constraints on the continuation columns hold in every state,  *)
(* so no statement is ever refused by the database.                        *)
PendingIsSound ==
    /\ row.continued <= row.messages
    /\ row.pending # 0 =>
        /\ row.status = "active" /\ Kind = "activation" /\ row.supports
        /\ row.continued < row.pending /\ row.pending <= row.messages

(* The end of a number is decided once, and is what the provider did.      *)
EndIsSound == OneVerb /\ EndIsReal

(* Counting, asking for the next message and acknowledging fit together,   *)
(* whichever of the poll, the callback and the commit comes first.         *)
ContinuationSound == MessagesCounted /\ AcknowledgedWasAdvanced /\ PendingIsSound

(* A stop ends in a finished task.                                         *)
StopEnds == row.stop ~> row.status \in Finished

(* README.md:107 promises a poll behind every callback: a message whose    *)
(* callback never comes is read before the provider is moved past it.      *)
LostCallbackIsRead ==
    \A t \in Tokens, i \in Message :
        i \in lost[t] /\ i <= passed[t] => i \in stored[t]
=============================================================================
