--------------------------- MODULE ActivationRules ---------------------------
(***************************************************************************)
(* What the workbench makes of the batch, the activations and the login    *)
(* statuses it is sent: the buttons of a row, whether a number was         *)
(* cancelled or settled, the counters of the batch, the codes of a number  *)
(* and the login shown beside it.  Each is worked out from the server's    *)
(* answer by lists and numbers of the page's own.                          *)
(***************************************************************************)
EXTENDS Naturals, Sequences, FiniteSets

CONSTANTS
    MaxQuantity,     \* bound: a batch's quantity (100)
    MaxPurchased,    \* bound: numbers bought beyond the quantity
    Digits,          \* phone numbers
    OtpCodes,        \* verification codes
    MaxCodes         \* bound: follow-up codes of an activation

ASSUME ActivationRulesAssumption ==
    MaxQuantity \in Nat /\ MaxPurchased \in Nat /\ MaxCodes \in Nat
-----------------------------------------------------------------------------
(* The server's activations *)

Working == {"purchased", "awaiting_login_code", "logging_in", "checking_balance",
            "awaiting_pin_code", "setting_pin", "pin_changed", "awaiting_subsequent_code", "active"}
TerminalStatuses == {"success", "expired", "cancelled", "failed"}   \* ActivationStatus.Terminal
\* processActivation's finalizeProviderAction, by what it tells the provider.
EndsByCancel == {"duplicate", "phone_in_use", "pin_required", "unregistered", "login_failed",
                 "login_code_timeout", "pin_code_timeout"}
EndsBySettling == {"pin_submission_blocked", "zero_balance_used"}
\* A working status is unfinished, a terminal one finished, the others either.
Activations ==
    [status : Working, finished : {FALSE}] \cup [status : TerminalStatuses, finished : {TRUE}]
    \cup [status : EndsByCancel \cup EndsBySettling, finished : BOOLEAN]
\* MarkSuccess and SetControlAction, without an earlier control.
TakesSuccess(a) == a.status \in {"active", "awaiting_subsequent_code"} /\ ~a.finished
\* Delete: a terminal number is hidden, any other is told to the worker.
TakesDelete(a) == a.status \in TerminalStatuses \/ ~a.finished
-----------------------------------------------------------------------------
(* The page's rows *)

\* Mutant: a number that has just changed its PIN can be ended, too.
OperateEarly(a) ==
    ~a.finished /\ a.status \in {"polling", "active", "awaiting_subsequent_code", "pin_changed"}
\* canOperate, of the card and of the table.
CanOperate(a) ==
    ~a.finished /\ a.status \in {"polling", "active", "awaiting_subsequent_code"}
IsPolling(a) ==
    ~a.finished /\ a.status \in {"polling", "active", "awaiting_subsequent_code", "pin_changed"}
\* statusMap: the statuses labelled as active, of those the server has.
LabelledActive == Working \cup {"pending", "purchasing", "polling"}
\* isSuccessfulActivation, of a number whose ever_fulfilled is not set yet.
LooksSuccessful(a) ==
    a.status \in {"pin_changed", "awaiting_subsequent_code", "polling", "active", "success"}

\* Mutant: a finished number of any other status counts as cancelled.
CancelledIfFinished(a) == a.status = "cancelled" \/ (a.finished /\ a.status \notin TerminalStatuses)
\* isCancelledActivation.
ShownCancelled(a) ==
    \/ a.status = "cancelled"
    \/ a.finished /\ a.status \in {"duplicate", "phone_in_use", "login_code_timeout",
                                   "pin_code_timeout", "pin_required", "unregistered"}
\* activationExpiryPresentation.
Expiry(a) ==
    IF ShownCancelled(a) THEN "cancelled"
    ELSE IF a.finished /\ a.status = "pin_submission_blocked" THEN "settled" ELSE "countdown"

\* A row's Success and Delete are offered exactly where the server takes both for
\* a number that waits for further codes; a row looks alive exactly while a
\* worker still advances its number; and a number is called cancelled or settled
\* only after the provider was told so.
RowsReadTrue ==
    \A a \in Activations :
        /\ CanOperate(a) = TakesSuccess(a) /\ (CanOperate(a) => TakesDelete(a))
        /\ CanOperate(a) => IsPolling(a)
        /\ IsPolling(a) => LooksSuccessful(a)
        /\ (a.status \in LabelledActive) = (a.status \in Working)
        /\ Expiry(a) = "cancelled" => a.finished /\ a.status \in EndsByCancel \cup {"cancelled"}
        /\ Expiry(a) = "settled" => a.finished /\ a.status \in EndsBySettling
-----------------------------------------------------------------------------
(* The counters of a batch *)

\* SlotQuota's batch: fulfilled and inflight numbers fit the quantity.
Batches == {b \in [quantity : 1..MaxQuantity, fulfilled : 0..MaxQuantity, inflight : 0..1,
                   purchased : 0..(MaxQuantity + MaxPurchased)] :
              /\ b.fulfilled + b.inflight <= b.quantity
              /\ b.purchased \in (b.fulfilled + b.inflight)..(b.fulfilled + b.inflight + MaxPurchased)}
\* normalizeBatch; the server sends no counter of failures.
NormalizeBatch(b) ==
    [total |-> b.quantity, successful |-> b.fulfilled, inflight |-> b.inflight,
     purchased |-> b.purchased]
UnsuccessfulCount(v) ==
    IF v.purchased > v.successful + v.inflight THEN v.purchased - v.successful - v.inflight ELSE 0
\* Mutant: numbers in flight count as progress.
ProgressInFlight(v) == (200 * (v.successful + v.inflight) + v.total) \div (2 * v.total)
\* batchProgress: rounded to whole per cents.
BatchProgress(v) == (200 * v.successful + v.total) \div (2 * v.total)

\* Of the numbers bought, each is counted once, as successful, in flight or not
\* successful, and the progress is complete exactly when the batch is, rounding
\* included, up to the largest quantity.
CountersReadTrue ==
    \A b \in Batches :
        LET v == NormalizeBatch(b) IN
        /\ v.successful + v.inflight + UnsuccessfulCount(v) = b.purchased
        /\ BatchProgress(v) \in 0..100 /\ (BatchProgress(v) = 100) = (b.fulfilled = b.quantity)
-----------------------------------------------------------------------------
(* The login beside a number *)

Logins == {"valid", "invalid", "unknown"}
\* An account's phone is stored with a plus, an activation's as the provider sent it.
Phones == [digits : Digits, plus : BOOLEAN]
Accounts == [id : {1, 2}, phone : [digits : Digits, plus : {TRUE}], status : Logins]
\* The accounts of AccountLoginStatuses; phones are unique.
LoginLists == {<<>>} \cup [1..1 -> Accounts]
              \cup {l \in [1..2 -> Accounts] : l[1].phone # l[2].phone /\ l[1].id # l[2].id}
\* AccountLoginStatusView: the status twice, and whether it is valid.
AccountLoginStatusView(a) ==
    [id |-> a.id, phone |-> a.phone, login_status |-> a.status, state |-> a.status,
     valid |-> a.status = "valid"]
States == {"valid", "invalid", "unknown", "checking"}
\* validateAccountLoginStatusesPayload, of the fields the server sends.
AcceptsLogins(l) ==
    \A i \in DOMAIN l :
        /\ l[i].id > 0 /\ \A j \in DOMAIN l : l[i].id = l[j].id => i = j
        /\ l[i].login_status \in States /\ l[i].state = l[i].login_status
        /\ l[i].login_status = "checking" \/ (l[i].login_status = "valid") = l[i].valid
\* normalizeLoginState: a status it does not know is read off `valid`.
NormalizeLoginState(status, valid) ==
    IF status \in States THEN status ELSE IF valid THEN "valid" ELSE "invalid"
NormalizeAccountLoginStatuses(l) ==
    [i \in DOMAIN l |-> [phone |-> l[i].phone,
                         status |-> NormalizeLoginState(l[i].login_status, l[i].valid)]]
\* Mutant: phones are compared as they are written.
PhoneAsWritten(phone) == phone
\* phoneLookupKey.
PhoneLookupKey(phone) == phone.digits
\* indexAccountLoginStatusesByPhone and findAccountLoginStatusByPhone: the last one.
LoginOf(l, phone) ==
    LET found == {i \in DOMAIN l : PhoneLookupKey(l[i].phone) = PhoneLookupKey(phone)} IN
    IF found = {} THEN "none" ELSE l[CHOOSE i \in found : \A j \in found : j <= i].status

\* However the provider writes a number, its row shows the login of the account
\* with that number, and none if there is none; no list the server can send is
\* refused as a whole.
LoginsReadTrue ==
    \A l \in LoginLists :
        LET sent  == [i \in DOMAIN l |-> AccountLoginStatusView(l[i])]
            shown == NormalizeAccountLoginStatuses(sent) IN
        /\ AcceptsLogins(sent)
        /\ \A phone \in Phones :
              /\ \A i \in DOMAIN l :
                    l[i].phone.digits = phone.digits => LoginOf(shown, phone) = l[i].status
              /\ (\A i \in DOMAIN l : l[i].phone.digits # phone.digits)
                    => LoginOf(shown, phone) = "none"
-----------------------------------------------------------------------------
(* The codes of a number *)

CodeLists == UNION {[1..n -> OtpCodes] : n \in 0..MaxCodes}
\* Mutant: the first two follow-up codes are taken for the login and PIN codes.
CodesAfterTwo(loginCode, pinCode, subsequent) == {i \in DOMAIN subsequent : i > 2}
\* activationView sends the follow-up codes without a phase, so normalizeCodeList
\* takes one of the first two for the login or PIN code if it is the same.
ShownCodes(loginCode, pinCode, subsequent) ==
    {i \in DOMAIN subsequent : ~(subsequent[i] \in {loginCode, pinCode} /\ i <= 2)}

\* No code a number received is missing from its row, as the login code, the PIN
\* code or a follow-up code, and from the third on each arrival has its own line.
CodesReadTrue ==
    \A loginCode, pinCode \in OtpCodes : \A subsequent \in CodeLists :
        LET shown == ShownCodes(loginCode, pinCode, subsequent) IN
        \A i \in DOMAIN subsequent :
            /\ i > 2 => i \in shown
            /\ subsequent[i] \in {loginCode, pinCode} \cup {subsequent[j] : j \in shown}
=============================================================================
