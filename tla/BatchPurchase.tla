--------------------------- MODULE BatchPurchase ---------------------------
(***************************************************************************)
(* The purchase protocol of a batch: how a scheduler instance reserves a   *)
(* quota slot, fences the provider request, calls GetNumber, persists the  *)
(* number or freezes the batch, and how StopBatch, worker finalization,    *)
(* the cleanup of unpersisted numbers and a restart interleave with it.    *)
(*                                                                         *)
(* Durable state is PostgreSQL: the batches row (status and counters), the *)
(* batch_purchase_attempts row of each purchase token, and the activations *)
(* row a committed token created.  An activation is named by the token     *)
(* that created it.  Every storage transaction locks the batch row first,  *)
(* so one transaction is one step.  Volatile state is the purchaser of     *)
(* each scheduler instance, which Manager.purchase makes sequential.       *)
(*                                                                         *)
(* Times (next_purchase_at, back-offs) are abstracted to "any moment".     *)
(* Cleanup leases are abstracted: any instance may act on a pending        *)
(* cleanup.  An activation's own workflow is abstracted to the steps that  *)
(* touch its batch.                                                        *)
(***************************************************************************)
EXTENDS Naturals, FiniteSets

CONSTANTS
    Batches,      \* batches.id
    Tokens,       \* purchase tokens, one per purchase attempt
    Numbers,      \* activation ids of the SMS provider
    Instances,    \* scheduler processes on the same database
    Quantity,     \* batches.quantity
    ProxyTotal,   \* length of the proxy pool of a batch, 0 is direct mode
    MaxTries,     \* tries of a storage call on an uncertain outcome (3 in the code)
    MaxFaults,    \* bound: failed storage calls in a behaviour
    MaxCrashes,   \* bound: process crashes in a behaviour
    HardErrors,   \* may a storage call fail with an error that is not retried
    Repeats,      \* may the provider return an id it returned before
    NoBatch, NoToken, NoNumber

ASSUME QuantityAssumption == Quantity \in [Batches -> Nat \ {0}]
ASSUME ProxyAssumption == ProxyTotal \in [Batches -> Nat]
ASSUME BoundAssumption ==
    /\ MaxTries \in Nat \ {0}
    /\ MaxFaults \in Nat
    /\ MaxCrashes \in Nat
    /\ HardErrors \in BOOLEAN
    /\ Repeats \in BOOLEAN
ASSUME TokensFinite == IsFiniteSet(Tokens)
ASSUME NullAssumption ==
    NoBatch \notin Batches /\ NoToken \notin Tokens /\ NoNumber \notin Numbers

VARIABLES
    status,      \* batches.status, "absent" before CreateBatch
    reserved,    \* batches.purchase_reserved_count
    purchased,   \* batches.purchased_count
    fulfilled,   \* batches.fulfilled_count
    inflight,    \* batches.inflight_count
    proxyFree,   \* available entries of the proxy pool in batches.config
    attempt,     \* batch_purchase_attempts.state, "absent" without a row
    batchOf,     \* the batch a token was generated for (attempts.batch_id)
    providerId,  \* batch_purchase_attempts.provider_activation_id
    cleanup,     \* batch_purchase_attempts.cleanup_state
    act,         \* activations row of the token: status and finished_at
    slot,        \* activations.slot_reserved and ever_fulfilled
    control,     \* activations.control_action
    order,       \* the provider's view of the request made with a token
    alloc,       \* the number the provider allocated to that request
    pc,          \* where the purchaser of an instance is
    tok,         \* the token it is working on
    tries,       \* tries made of the current storage call
    todo,        \* batches a starting instance has still to recover
    faults, crashes

batchVars    == <<status, reserved, purchased, fulfilled, inflight, proxyFree>>
attemptVars  == <<attempt, providerId, cleanup>>
actVars      == <<act, slot, control>>
ledger       == <<batchVars, attemptVars, actVars>>
providerVars == <<order, alloc>>
procVars     == <<pc, tok, tries, todo>>
vars == <<ledger, batchOf, providerVars, procVars, faults, crashes>>

BatchStatus == {"absent", "running", "completed", "cancelled", "failed"}
AttemptState == {"absent", "reserved", "sent", "committed", "released", "unknown", "conflicted"}
UnresolvedState == {"reserved", "sent", "unknown", "conflicted"}

LedgerType ==
    /\ status \in [Batches -> BatchStatus]
    /\ reserved \in [Batches -> Nat]
    /\ purchased \in [Batches -> Nat]
    /\ fulfilled \in [Batches -> Nat]
    /\ inflight \in [Batches -> Nat]
    /\ proxyFree \in [Batches -> Nat]
    /\ attempt \in [Tokens -> AttemptState]
    /\ batchOf \in [Tokens -> Batches \cup {NoBatch}]
    /\ providerId \in [Tokens -> Numbers \cup {NoNumber}]
    /\ cleanup \in [Tokens -> {"", "pending", "done"}]
    /\ act \in [Tokens -> {"absent", "open", "protected", "finished"}]
    /\ slot \in [Tokens -> {"none", "held", "fulfilled", "released"}]
    /\ control \in [Tokens -> {"", "delete"}]

Place == {"down", "recover", "idle", "reserve", "mark", "request", "await", "persist",
          "freeze", "freeze_blind", "release_unsent", "release_refused"}

ProcessType ==
    /\ pc \in [Instances -> Place]
    /\ tok \in [Instances -> Tokens \cup {NoToken}]
    /\ tries \in [Instances -> Nat]
    /\ todo \in [Instances -> SUBSET Batches]
    /\ faults \in Nat
    /\ crashes \in Nat

TypeOK ==
    /\ LedgerType
    /\ order \in [Tokens -> {"none", "sent", "refused", "allocated", "concluded"}]
    /\ alloc \in [Tokens -> Numbers \cup {NoNumber}]
    /\ ProcessType

Active(b) == status[b] = "running"
Terminal(b) == status[b] \in {"completed", "cancelled", "failed"}
Attempts(b) == {t \in Tokens : batchOf[t] = b}
Unresolved(b) == {t \in Attempts(b) : attempt[t] \in UnresolvedState}
Working(b) == {t \in Attempts(b) : slot[t] = "held"}
Fulfilled(b) == {t \in Attempts(b) : slot[t] = "fulfilled"}
Stored(b) == {t \in Attempts(b) : act[t] # "absent"}

Init ==
    /\ status = [b \in Batches |-> "absent"]
    /\ reserved = [b \in Batches |-> 0]
    /\ purchased = [b \in Batches |-> 0]
    /\ fulfilled = [b \in Batches |-> 0]
    /\ inflight = [b \in Batches |-> 0]
    /\ proxyFree = ProxyTotal
    /\ attempt = [t \in Tokens |-> "absent"]
    /\ batchOf = [t \in Tokens |-> NoBatch]
    /\ providerId = [t \in Tokens |-> NoNumber]
    /\ cleanup = [t \in Tokens |-> ""]
    /\ act = [t \in Tokens |-> "absent"]
    /\ slot = [t \in Tokens |-> "none"]
    /\ control = [t \in Tokens |-> ""]
    /\ order = [t \in Tokens |-> "none"]
    /\ alloc = [t \in Tokens |-> NoNumber]
    /\ pc = [i \in Instances |-> "idle"]
    /\ tok = [i \in Instances |-> NoToken]
    /\ tries = [i \in Instances |-> 0]
    /\ todo = [i \in Instances |-> {}]
    /\ faults = 0
    /\ crashes = 0

-----------------------------------------------------------------------------
(* Storage transactions.  X_Refused is the outcome of a precondition check; *)
(* X_Tx is the effect of the transaction when it commits.                   *)

\* INSERT into batches; the unique index allows one active batch.
CreateBatch(b) ==
    /\ status[b] = "absent"
    /\ \A c \in Batches : ~Active(c)
    /\ status' = [status EXCEPT ![b] = "running"]
    /\ UNCHANGED <<reserved, purchased, fulfilled, inflight, proxyFree, attemptVars,
                   actVars, batchOf, providerVars, procVars, faults, crashes>>

\* Mutant: a second purchase may start while one is unresolved.
ReserveUnserialized(b, t) ==
    IF attempt[t] = "absent"
    THEN Terminal(b) \/ fulfilled[b] + inflight[b] + reserved[b] >= Quantity[b]
    ELSE attempt[t] # "reserved" \/ Terminal(b)

\* The checks of ReserveBatchPurchase for a token that has no row yet, and
\* those for a row left by an earlier try.
ReserveRefused(b, t) ==
    IF attempt[t] = "absent"
    THEN Terminal(b) \/ reserved[b] > 0
         \/ fulfilled[b] + inflight[b] + reserved[b] >= Quantity[b]
    ELSE attempt[t] # "reserved" \/ Terminal(b)

ReserveTx(b, t) ==
    /\ IF attempt[t] = "absent"
       THEN /\ attempt' = [attempt EXCEPT ![t] = "reserved"]
            /\ reserved' = [reserved EXCEPT ![b] = @ + 1]
       ELSE UNCHANGED <<attempt, reserved>>
    /\ UNCHANGED <<status, purchased, fulfilled, inflight, proxyFree,
                   providerId, cleanup, actVars>>

\* No row for the token is ErrNotFound.
MarkSentRefused(b, t) == Terminal(b) \/ attempt[t] \notin {"reserved", "sent"}

MarkSentTx(t) ==
    /\ attempt' = [attempt EXCEPT ![t] = "sent"]
    /\ UNCHANGED <<batchVars, providerId, cleanup, actVars>>

ReleaseRefused(b, t) ==
    \/ attempt[t] \notin {"absent", "released", "reserved", "sent"}
    \/ attempt[t] \in {"reserved", "sent"} /\ reserved[b] = 0

\* Mutant: a repeated release gives the slot back again.
ReleaseEveryTime(b, t) ==
    /\ attempt' = [attempt EXCEPT ![t] = IF @ = "absent" THEN @ ELSE "released"]
    /\ reserved' = [reserved EXCEPT ![b] = @ - 1]
    /\ UNCHANGED <<status, purchased, fulfilled, inflight, proxyFree,
                   providerId, cleanup, actVars>>

ReleaseTx(b, t) ==
    /\ IF attempt[t] \in {"reserved", "sent"}
       THEN /\ attempt' = [attempt EXCEPT ![t] = "released"]
            /\ reserved' = [reserved EXCEPT ![b] = @ - 1]
       ELSE UNCHANGED <<attempt, reserved>>
    /\ UNCHANGED <<status, purchased, fulfilled, inflight, proxyFree,
                   providerId, cleanup, actVars>>

\* Another attempt, or any activation, already holds number n.  The freeze looks
\* for both; the insert looks for an activation, and for an attempt it relies on
\* the unique index batch_purchase_attempts_provider_activation_idx.
OwnedByAttempt(t, n) == \E u \in Tokens \ {t} : providerId[u] = n
ActivationExists(n) == \E u \in Tokens : act[u] # "absent" /\ providerId[u] = n

PersistRefused(b, t, n) ==
    IF attempt[t] = "committed"
    THEN providerId[t] # n
    ELSE \/ attempt[t] # "sent"
         \/ reserved[b] = 0
         \/ fulfilled[b] + inflight[b] + reserved[b] > Quantity[b]
         \/ ActivationExists(n)
         \/ OwnedByAttempt(t, n)

\* Mutant: a retry after a lost receipt counts the number once more.
PersistCountsRetries(b, t, n) ==
    /\ attempt' = [attempt EXCEPT ![t] = "committed"]
    /\ providerId' = [providerId EXCEPT ![t] = n]
    /\ act' = [act EXCEPT ![t] = "open"]
    /\ slot' = [slot EXCEPT ![t] = "held"]
    /\ control' = [control EXCEPT ![t] = IF Terminal(b) THEN "delete" ELSE ""]
    /\ reserved' = [reserved EXCEPT ![b] = IF @ > 0 THEN @ - 1 ELSE @]
    /\ purchased' = [purchased EXCEPT ![b] = @ + 1]
    /\ inflight' = [inflight EXCEPT ![b] = @ + 1]
    /\ UNCHANGED <<status, fulfilled, proxyFree, cleanup>>

\* CreateActivationAtomically: a number that arrives after the batch ended is
\* stored with its deletion already queued; phone_in_use is stored as a
\* classification that the worker only has to cancel.
PersistTx(b, t, n) ==
    IF attempt[t] = "committed"
    THEN UNCHANGED ledger
    ELSE /\ attempt' = [attempt EXCEPT ![t] = "committed"]
         /\ providerId' = [providerId EXCEPT ![t] = n]
         /\ act' = [act EXCEPT ![t] = "open"]
         /\ slot' = [slot EXCEPT ![t] = "held"]
         /\ control' = [control EXCEPT ![t] = IF Terminal(b) THEN "delete" ELSE ""]
         /\ reserved' = [reserved EXCEPT ![b] = @ - 1]
         /\ purchased' = [purchased EXCEPT ![b] = @ + 1]
         /\ inflight' = [inflight EXCEPT ![b] = @ + 1]
         /\ UNCHANGED <<status, fulfilled, proxyFree, cleanup>>

\* The id a freeze ends up with: the one it was given, else the stored one.
EffectiveId(t, n) == IF n = NoNumber THEN providerId[t] ELSE n

\* Mutant: only unresolved attempts are asked for the number.
FreezeOwnedUnresolved(t, n) ==
    LET m == EffectiveId(t, n)
    IN  /\ attempt[t] # "committed" /\ m # NoNumber
        /\ \E u \in Tokens \ {t} : providerId[u] = m /\ attempt[u] \in UnresolvedState

FreezeOwned(t, n) ==
    LET m == EffectiveId(t, n)
    IN attempt[t] # "committed" /\ m # NoNumber /\ (OwnedByAttempt(t, m) \/ ActivationExists(m))

FreezeRefused(t, n) ==
    \/ attempt[t] \in {"absent", "released"}
    \/ n # NoNumber /\ providerId[t] # NoNumber /\ n # providerId[t]

StopBuying(b) == status' = [status EXCEPT ![b] = IF @ = "running" THEN "failed" ELSE @]

\* Mutant: the retained slot is given back.
FreezeGivesBack(b, t, n) ==
    /\ StopBuying(b)
    /\ attempt' = [attempt EXCEPT ![t] = IF @ = "committed" THEN @ ELSE "unknown"]
    /\ reserved' = [reserved EXCEPT ![b] = IF @ > 0 THEN @ - 1 ELSE @]
    /\ UNCHANGED <<purchased, fulfilled, inflight, proxyFree, providerId, cleanup, actVars>>

\* Mutant: the id of the number is not recorded, so no cleanup is queued.
FreezeForgetsNumber(b, t, n) ==
    /\ StopBuying(b)
    /\ attempt' = [attempt EXCEPT ![t] = IF @ = "committed" THEN @ ELSE "unknown"]
    /\ UNCHANGED <<reserved, purchased, fulfilled, inflight, proxyFree, providerId,
                   cleanup, actVars>>

\* FreezeBatchPurchase: the four outcomes (conflicted, committed, newly
\* unknown, still unknown or conflicted).
FreezeTx(b, t, n) ==
    /\ IF attempt[t] = "committed"
       THEN UNCHANGED <<attemptVars, status>>
       ELSE /\ StopBuying(b)
            /\ IF FreezeOwned(t, n)
               THEN /\ attempt' = [attempt EXCEPT ![t] = "conflicted"]
                    /\ cleanup' = [cleanup EXCEPT ![t] = ""]
                    /\ UNCHANGED providerId
               ELSE /\ attempt' = [attempt EXCEPT ![t] = IF @ = "conflicted" THEN @ ELSE "unknown"]
                    /\ providerId' = [providerId EXCEPT ![t] = EffectiveId(t, n)]
                    /\ cleanup' = [cleanup EXCEPT ![t] =
                         IF attempt[t] # "conflicted" /\ @ = "" /\ EffectiveId(t, n) # NoNumber
                         THEN "pending" ELSE @]
    /\ UNCHANGED <<reserved, purchased, fulfilled, inflight, proxyFree, actVars>>

-----------------------------------------------------------------------------
(* The purchaser of an instance.  A storage call ends in one of: committed  *)
(* and acknowledged; committed with the receipt lost (ErrCommitUnknown);    *)
(* not committed with an unknown receipt; rolled back (ErrRetryable);       *)
(* failed with an error that is not retried.                                *)

Goto(i, label) ==
    /\ pc' = [pc EXCEPT ![i] = label]
    /\ tries' = [tries EXCEPT ![i] = 0]
    /\ tok' = IF label = "idle" THEN [tok EXCEPT ![i] = NoToken] ELSE tok
    /\ UNCHANGED todo

\* An uncertain or retryable outcome: try again, or give up at the last try.
TryAgain(i, label) ==
    /\ faults < MaxFaults
    /\ faults' = faults + 1
    /\ IF tries[i] + 1 < MaxTries
       THEN tries' = [tries EXCEPT ![i] = @ + 1] /\ UNCHANGED <<pc, tok, todo>>
       ELSE Goto(i, label)

Fail(i, label) ==
    /\ HardErrors
    /\ faults < MaxFaults
    /\ faults' = faults + 1
    /\ Goto(i, label)

\* purchaseBatch: the batch is re-read and found ready; a fresh token is made.
StartPurchase(i, b, t) ==
    /\ pc[i] = "idle"
    /\ Active(b)
    /\ ProxyTotal[b] = 0 \/ proxyFree[b] > 0
    /\ reserved[b] = 0
    /\ fulfilled[b] + inflight[b] + reserved[b] < Quantity[b]
    /\ batchOf[t] = NoBatch
    /\ batchOf' = [batchOf EXCEPT ![t] = b]
    /\ pc' = [pc EXCEPT ![i] = "reserve"]
    /\ tok' = [tok EXCEPT ![i] = t]
    /\ UNCHANGED <<ledger, providerVars, tries, todo, faults, crashes>>

ReservePurchase(i) ==
    LET t == tok[i]
        b == batchOf[t]
    IN  /\ pc[i] = "reserve"
        /\ \/ ReserveRefused(b, t) /\ Goto(i, "idle") /\ UNCHANGED <<ledger, faults>>
           \/ ~ReserveRefused(b, t) /\ ReserveTx(b, t) /\ Goto(i, "mark") /\ UNCHANGED faults
           \/ ~ReserveRefused(b, t) /\ ReserveTx(b, t) /\ TryAgain(i, "release_unsent")
           \/ UNCHANGED ledger /\ TryAgain(i, "release_unsent")
           \/ UNCHANGED ledger /\ TryAgain(i, "idle")
           \/ UNCHANGED ledger /\ Fail(i, "idle")
        /\ UNCHANGED <<batchOf, providerVars, crashes>>

MarkPurchaseSent(i) ==
    LET t == tok[i]
        b == batchOf[t]
    IN  /\ pc[i] = "mark"
        /\ \/ MarkSentRefused(b, t) /\ Goto(i, "idle") /\ UNCHANGED <<ledger, faults>>
           \/ ~MarkSentRefused(b, t) /\ MarkSentTx(t) /\ Goto(i, "request") /\ UNCHANGED faults
           \/ ~MarkSentRefused(b, t) /\ MarkSentTx(t) /\ TryAgain(i, "release_unsent")
           \/ UNCHANGED ledger /\ TryAgain(i, "release_unsent")
           \/ UNCHANGED ledger /\ Fail(i, "release_unsent")
        /\ UNCHANGED <<batchOf, providerVars, crashes>>

\* client.GetNumber puts the request on the wire.
SendGetNumber(i) ==
    /\ pc[i] = "request"
    /\ order' = [order EXCEPT ![tok[i]] = "sent"]
    /\ Goto(i, "await")
    /\ UNCHANGED <<ledger, batchOf, alloc, faults, crashes>>

\* GetNumber returned a number, a definite refusal, or ErrPurchaseUnknown.
ReceiveNumber(i) ==
    /\ pc[i] = "await"
    /\ order[tok[i]] \in {"allocated", "concluded"}
    /\ Goto(i, "persist")
    /\ UNCHANGED <<ledger, batchOf, providerVars, faults, crashes>>

ReceiveRefusal(i) ==
    /\ pc[i] = "await"
    /\ order[tok[i]] = "refused"
    /\ Goto(i, "release_refused")
    /\ UNCHANGED <<ledger, batchOf, providerVars, faults, crashes>>

\* Mutant: a lost response is taken for a refusal.
ReceiveUnknownAsRefusal(i) ==
    /\ pc[i] = "await"
    /\ Goto(i, "release_refused")
    /\ UNCHANGED <<ledger, batchOf, providerVars, faults, crashes>>

\* Mutant: a lost response is only logged.
ReceiveUnknownLogged(i) ==
    /\ pc[i] = "await"
    /\ Goto(i, "idle")
    /\ UNCHANGED <<ledger, batchOf, providerVars, faults, crashes>>

ReceiveUnknown(i) ==
    /\ pc[i] = "await"
    /\ Goto(i, "freeze_blind")
    /\ UNCHANGED <<ledger, batchOf, providerVars, faults, crashes>>

PersistPurchase(i) ==
    LET t == tok[i]
        b == batchOf[t]
        n == alloc[t]
    IN  /\ pc[i] = "persist"
        /\ \/ PersistRefused(b, t, n) /\ Goto(i, "freeze") /\ UNCHANGED <<ledger, faults>>
           \/ ~PersistRefused(b, t, n) /\ PersistTx(b, t, n) /\ Goto(i, "idle") /\ UNCHANGED faults
           \/ ~PersistRefused(b, t, n) /\ PersistTx(b, t, n) /\ TryAgain(i, "freeze")
           \/ UNCHANGED ledger /\ TryAgain(i, "freeze")
           \/ UNCHANGED ledger /\ Fail(i, "freeze")
        /\ UNCHANGED <<batchOf, providerVars, crashes>>

\* freezePurchase, with the number in hand ("freeze") or without an id.
FreezePurchase(i) ==
    LET t == tok[i]
        b == batchOf[t]
        n == IF pc[i] = "freeze" THEN alloc[t] ELSE NoNumber
    IN  /\ pc[i] \in {"freeze", "freeze_blind"}
        /\ \/ FreezeRefused(t, n) /\ Goto(i, "idle") /\ UNCHANGED <<ledger, faults>>
           \/ ~FreezeRefused(t, n) /\ FreezeTx(b, t, n) /\ Goto(i, "idle") /\ UNCHANGED faults
           \/ ~FreezeRefused(t, n) /\ FreezeTx(b, t, n) /\ TryAgain(i, "idle")
           \/ UNCHANGED ledger /\ TryAgain(i, "idle")
           \/ UNCHANGED ledger /\ Fail(i, "idle")
        /\ UNCHANGED <<batchOf, providerVars, crashes>>

\* releasePurchase: after a failed reservation or fence the result is only
\* logged; after a refusal a failed release freezes the batch.
ReleasePurchase(i) ==
    LET t == tok[i]
        b == batchOf[t]
        failed == IF pc[i] = "release_refused" THEN "freeze_blind" ELSE "idle"
    IN  /\ pc[i] \in {"release_unsent", "release_refused"}
        /\ \/ ReleaseRefused(b, t) /\ Goto(i, failed) /\ UNCHANGED <<ledger, faults>>
           \/ ~ReleaseRefused(b, t) /\ ReleaseTx(b, t) /\ Goto(i, "idle") /\ UNCHANGED faults
           \/ ~ReleaseRefused(b, t) /\ ReleaseTx(b, t) /\ TryAgain(i, failed)
           \/ UNCHANGED ledger /\ TryAgain(i, failed)
           \/ UNCHANGED ledger /\ Fail(i, failed)
        /\ UNCHANGED <<batchOf, providerVars, crashes>>

-----------------------------------------------------------------------------
(* The process: crash, and the recovery that Run completes before the       *)
(* scheduler loop starts.                                                   *)

Crash(i) ==
    /\ pc[i] # "down"
    /\ crashes < MaxCrashes
    /\ crashes' = crashes + 1
    /\ pc' = [pc EXCEPT ![i] = "down"]
    /\ tok' = [tok EXCEPT ![i] = NoToken]
    /\ tries' = [tries EXCEPT ![i] = 0]
    /\ todo' = [todo EXCEPT ![i] = {}]
    /\ UNCHANGED <<ledger, batchOf, providerVars, faults>>

\* recoverStartupBatches lists the active batches.
Restart(i) ==
    /\ pc[i] = "down"
    /\ pc' = [pc EXCEPT ![i] = "recover"]
    /\ todo' = [todo EXCEPT ![i] = {b \in Batches : Active(b)}]
    /\ UNCHANGED <<ledger, batchOf, providerVars, tok, tries, faults, crashes>>

\* Mutants: recovery gives the slot of a sent request back; recovery releases
\* a reserved attempt and forgets the counter; recovery decides nothing.
RecoverReleasesSent(b) ==
    LET sent == {t \in Attempts(b) : attempt[t] = "sent"}
    IN  /\ attempt' = [t \in Tokens |-> IF t \in sent THEN "released" ELSE attempt[t]]
        /\ reserved' = [reserved EXCEPT ![b] = IF sent # {} THEN @ - 1 ELSE @]
        /\ UNCHANGED <<status, purchased, fulfilled, inflight, proxyFree,
                       providerId, cleanup, actVars>>

RecoverForgetsCounter(b) ==
    /\ attempt' = [t \in Tokens |->
         IF t \in Attempts(b) /\ attempt[t] = "reserved" THEN "released" ELSE attempt[t]]
    /\ UNCHANGED <<batchVars, providerId, cleanup, actVars>>

RecoverNothing(b) == UNCHANGED <<batchVars, attemptVars, actVars>>

RecoverTx(b) ==
    /\ attempt' = [t \in Tokens |->
         IF t \in Attempts(b) /\ attempt[t] = "sent" THEN "unknown" ELSE attempt[t]]
    /\ UNCHANGED <<batchVars, providerId, cleanup, actVars>>

\* A failed recovery keeps the scheduler from starting: the process exits.
RecoverBatchPurchase(i, b) ==
    /\ pc[i] = "recover"
    /\ b \in todo[i]
    /\ \/ /\ RecoverTx(b)
          /\ todo' = [todo EXCEPT ![i] = @ \ {b}]
          /\ tries' = [tries EXCEPT ![i] = 0]
          /\ UNCHANGED <<pc, tok, faults>>
       \/ RecoverTx(b) /\ TryAgain(i, "down")
       \/ UNCHANGED ledger /\ TryAgain(i, "down")
       \/ UNCHANGED ledger /\ Fail(i, "down")
    /\ UNCHANGED <<batchOf, providerVars, crashes>>

StartScheduler(i) ==
    /\ pc[i] = "recover"
    /\ todo[i] = {}
    /\ Goto(i, "idle")
    /\ UNCHANGED <<ledger, batchOf, providerVars, faults, crashes>>

-----------------------------------------------------------------------------
(* The provider (external).                                                 *)

ProviderAllocate(t, n) ==
    /\ order[t] = "sent"
    /\ Repeats \/ \A u \in Tokens : alloc[u] # n
    /\ order' = [order EXCEPT ![t] = "allocated"]
    /\ alloc' = [alloc EXCEPT ![t] = n]
    /\ UNCHANGED <<ledger, batchOf, procVars, faults, crashes>>

ProviderRefuse(t) ==
    /\ order[t] = "sent"
    /\ order' = [order EXCEPT ![t] = "refused"]
    /\ UNCHANGED <<ledger, batchOf, alloc, procVars, faults, crashes>>

\* Every order that number n was given to ends (cancelled, completed, expired).
Concluded(n) ==
    order' = [u \in Tokens |->
        IF alloc[u] = n /\ order[u] = "allocated" THEN "concluded" ELSE order[u]]

\* A worker's setStatus, or the provider's own expiry of the number.
ConcludeNumber(t) ==
    /\ order[t] = "allocated"
    /\ Concluded(alloc[t])
    /\ UNCHANGED <<ledger, batchOf, alloc, procVars, faults, crashes>>

-----------------------------------------------------------------------------
(* Stop, proxy exhaustion, and what the activation workers do to a batch.   *)

\* Mutant: a number whose slot was already fulfilled is not cancelled.
StopSparesFulfilled(i, b) ==
    /\ pc[i] = "idle"
    /\ status[b] # "absent"
    /\ \A t \in Attempts(b) : attempt[t] # "sent"
    /\ LET dropped == {t \in Attempts(b) : attempt[t] = "reserved"}
       IN  /\ attempt' = [t \in Tokens |-> IF t \in dropped THEN "released" ELSE attempt[t]]
           /\ reserved' = [reserved EXCEPT ![b] =
                IF dropped # {} /\ @ > 0 THEN @ - 1 ELSE @]
    /\ status' = [status EXCEPT ![b] = IF @ = "running" THEN "cancelled" ELSE @]
    /\ control' = [t \in Tokens |->
         IF t \in Attempts(b) /\ slot[t] = "held" THEN "delete" ELSE control[t]]
    /\ UNCHANGED <<purchased, fulfilled, inflight, proxyFree, providerId, cleanup,
                   act, slot, batchOf, providerVars, procVars, faults, crashes>>

\* CancelBatch under the purchase gate of the instance that serves the call;
\* with a sent attempt it is ErrPurchaseInProgress and changes nothing.
StopBatch(i, b) ==
    /\ pc[i] = "idle"
    /\ status[b] # "absent"
    /\ \A t \in Attempts(b) : attempt[t] # "sent"
    /\ LET dropped == {t \in Attempts(b) : attempt[t] = "reserved"}
       IN  /\ attempt' = [t \in Tokens |-> IF t \in dropped THEN "released" ELSE attempt[t]]
           /\ reserved' = [reserved EXCEPT ![b] =
                IF dropped # {} /\ @ > 0 THEN @ - 1 ELSE @]
    /\ status' = [status EXCEPT ![b] = IF @ = "running" THEN "cancelled" ELSE @]
    /\ control' = [t \in Tokens |->
         IF t \in Attempts(b) /\ act[t] = "open" THEN "delete" ELSE control[t]]
    /\ UNCHANGED <<purchased, fulfilled, inflight, proxyFree, providerId, cleanup,
                   act, slot, batchOf, providerVars, procVars, faults, crashes>>

\* Mutant: the failure does not wait for a purchase that is under way.
FailWhileBuying(b) ==
    /\ Active(b)
    /\ fulfilled[b] < Quantity[b]
    /\ inflight[b] = 0
    /\ ProxyTotal[b] # 0 /\ proxyFree[b] = 0
    /\ status' = [status EXCEPT ![b] = "failed"]
    /\ UNCHANGED <<reserved, purchased, fulfilled, inflight, proxyFree, attemptVars,
                   actVars, batchOf, providerVars, procVars, faults, crashes>>

FailExhaustedProxies(b) ==
    /\ Active(b)
    /\ fulfilled[b] < Quantity[b]
    /\ inflight[b] = 0 /\ reserved[b] = 0
    /\ ProxyTotal[b] # 0 /\ proxyFree[b] = 0
    /\ status' = [status EXCEPT ![b] = "failed"]
    /\ UNCHANGED <<reserved, purchased, fulfilled, inflight, proxyFree, attemptVars,
                   actVars, batchOf, providerVars, procVars, faults, crashes>>

\* claimProxy retires the chosen endpoint and its duplicates from the pool.  It
\* reads the batch and the entries before it writes them; that is one step here.
ClaimProxy(t) ==
    /\ act[t] = "open"
    /\ LET b == batchOf[t]
       IN  /\ proxyFree[b] > 0
           /\ \E k \in 0 .. proxyFree[b] - 1 : proxyFree' = [proxyFree EXCEPT ![b] = k]
    /\ UNCHANGED <<status, reserved, purchased, fulfilled, inflight, attemptVars,
                   actVars, batchOf, providerVars, procVars, faults, crashes>>

\* The worker writes a status that only its provider conclusion can follow.
ClassifyActivation(t) ==
    /\ act[t] = "open"
    /\ slot[t] = "held"
    /\ act' = [act EXCEPT ![t] = "protected"]
    /\ UNCHANGED <<batchVars, attemptVars, slot, control, batchOf, providerVars,
                   procVars, faults, crashes>>

\* Mutant: slots in use are counted as successes.
ReleaseSlotEarly(b, ok) ==
    /\ inflight[b] > 0
    /\ ok => fulfilled[b] < Quantity[b]
    /\ inflight' = [inflight EXCEPT ![b] = @ - 1]
    /\ IF ok
       THEN /\ fulfilled' = [fulfilled EXCEPT ![b] = @ + 1]
            /\ status' = [status EXCEPT ![b] =
                 IF @ = "running" /\ fulfilled[b] + inflight[b] >= Quantity[b] THEN "completed" ELSE @]
       ELSE UNCHANGED <<fulfilled, status>>

\* releaseBatchSlotSQL with its row guard.
ReleaseSlot(b, ok) ==
    /\ inflight[b] > 0
    /\ ok => fulfilled[b] < Quantity[b]
    /\ inflight' = [inflight EXCEPT ![b] = @ - 1]
    /\ IF ok
       THEN /\ fulfilled' = [fulfilled EXCEPT ![b] = @ + 1]
            /\ status' = [status EXCEPT ![b] =
                 IF @ = "running" /\ fulfilled[b] + 1 >= Quantity[b] THEN "completed" ELSE @]
       ELSE UNCHANGED <<fulfilled, status>>

MarkActivationFulfilled(t) ==
    /\ act[t] = "open"
    /\ slot[t] = "held"
    /\ slot' = [slot EXCEPT ![t] = "fulfilled"]
    /\ ReleaseSlot(batchOf[t], TRUE)
    /\ UNCHANGED <<reserved, purchased, proxyFree, attemptVars, act, control, batchOf,
                   providerVars, procVars, faults, crashes>>

\* finalizeActivation or a terminal transition, after the provider concluded.
FinishActivation(t) ==
    /\ act[t] \in {"open", "protected"}
    /\ order[t] = "concluded"
    /\ act' = [act EXCEPT ![t] = "finished"]
    /\ control' = [control EXCEPT ![t] = ""]
    /\ IF slot[t] = "held"
       THEN slot' = [slot EXCEPT ![t] = "released"] /\ ReleaseSlot(batchOf[t], FALSE)
       ELSE UNCHANGED <<slot, status, fulfilled, inflight>>
    /\ UNCHANGED <<reserved, purchased, proxyFree, attemptVars, batchOf, providerVars,
                   procVars, faults, crashes>>

\* processPurchaseCleanupItem: cancel the number, then record it.
CancelUnknownNumber(t) ==
    /\ attempt[t] = "unknown"
    /\ cleanup[t] = "pending"
    /\ \E u \in Tokens : alloc[u] = providerId[t] /\ order[u] = "allocated"
    /\ Concluded(providerId[t])
    /\ UNCHANGED <<ledger, batchOf, alloc, procVars, faults, crashes>>

\* Mutant: a cancellation that failed is recorded as done.
CompleteUncancelled(t) ==
    /\ attempt[t] = "unknown"
    /\ cleanup[t] = "pending"
    /\ cleanup' = [cleanup EXCEPT ![t] = "done"]
    /\ UNCHANGED <<batchVars, attempt, providerId, actVars, batchOf, providerVars,
                   procVars, faults, crashes>>

CompletePurchaseCleanup(t) ==
    /\ attempt[t] = "unknown"
    /\ cleanup[t] = "pending"
    /\ order[t] = "concluded"
    /\ cleanup' = [cleanup EXCEPT ![t] = "done"]
    /\ UNCHANGED <<batchVars, attempt, providerId, actVars, batchOf, providerVars,
                   procVars, faults, crashes>>

-----------------------------------------------------------------------------
Purchaser(i) ==
    \/ ReservePurchase(i) \/ MarkPurchaseSent(i) \/ SendGetNumber(i)
    \/ ReceiveNumber(i) \/ ReceiveRefusal(i) \/ ReceiveUnknown(i)
    \/ PersistPurchase(i) \/ FreezePurchase(i) \/ ReleasePurchase(i)

Startup(i) ==
    Restart(i) \/ StartScheduler(i) \/ \E b \in Batches : RecoverBatchPurchase(i, b)

Worker(t) ==
    \/ ClaimProxy(t) \/ ClassifyActivation(t) \/ MarkActivationFulfilled(t)
    \/ FinishActivation(t)

Next ==
    \/ \E b \in Batches : CreateBatch(b) \/ FailExhaustedProxies(b)
    \/ \E i \in Instances :
         \/ Purchaser(i) \/ Startup(i) \/ Crash(i)
         \/ \E b \in Batches : StopBatch(i, b)
         \/ \E b \in Batches, t \in Tokens : StartPurchase(i, b, t)
    \/ \E t \in Tokens :
         \/ ProviderRefuse(t) \/ ConcludeNumber(t)
         \/ \E n \in Numbers : ProviderAllocate(t, n)
         \/ Worker(t)
         \/ CancelUnknownNumber(t) \/ CompletePurchaseCleanup(t)

Spec == Init /\ [][Next]_vars

\* Scheduling: a purchaser that started runs on, a stopped process is
\* restarted, and the cleanup loop keeps claiming pending cleanups.
Fairness ==
    /\ \A i \in Instances : WF_vars(Purchaser(i)) /\ WF_vars(Startup(i))
    /\ \A t \in Tokens : WF_vars(CancelUnknownNumber(t)) /\ WF_vars(CompletePurchaseCleanup(t))

FairSpec == Spec /\ Fairness

-----------------------------------------------------------------------------
(* Properties.                                                              *)

\* Slots in use and successes never exceed the batch's quantity: the row
\* guards of reserve, persist and release keep the CHECK of migration 9.
QuotaRespected ==
    \A b \in Batches : fulfilled[b] + inflight[b] + reserved[b] <= Quantity[b]

\* A batch has at most one purchase whose outcome is open, so the LIMIT 1 of
\* CancelBatch and of startup recovery sees all of them.
OneUnresolved ==
    \A b \in Batches : \A t, u \in Unresolved(b) : t = u

\* The four counters of a batch, each kept by several handlers, always equal
\* what the attempts and activations of the batch say.
CountersMatch ==
    \A b \in Batches :
        /\ reserved[b] = Cardinality(Unresolved(b))
        /\ inflight[b] = Cardinality(Working(b))
        /\ fulfilled[b] = Cardinality(Fulfilled(b))
        /\ purchased[b] = Cardinality(Stored(b))

\* A request that is on the wire, or a number the provider holds for us, has
\* an attempt row that is neither missing nor released: whatever receipts were
\* lost, quota is never given back for a number that may have been bought.
OrderTracked ==
    \A t \in Tokens : order[t] \in {"sent", "allocated"} =>
        attempt[t] \in {"sent", "unknown", "committed", "conflicted"}

\* The numbers a batch is paying for (or may be about to pay for), together
\* with its successes, never exceed its quantity: no replacement is bought
\* while an earlier request may still turn into a number.
Open(b) == {t \in Attempts(b) : order[t] \in {"sent", "allocated"} /\ slot[t] # "fulfilled"}
NeverOverbuys ==
    \A b \in Batches : Cardinality(Open(b)) + fulfilled[b] <= Quantity[b]

\* The durable cleanup of an unpersisted number never cancels a number that
\* an activation is working with.
CleanupSparesActivations ==
    \A t, u \in Tokens : cleanup[t] # "" /\ act[u] # "absent" => providerId[t] # providerId[u]

\* Every unfinished number of a batch that was stopped has its deletion or its
\* provider conclusion queued: those it had at the stop, and none comes later,
\* as Stop is refused while a request may still bring one.
StoppedBatchDrains ==
    \A t \in Tokens : act[t] = "open" /\ status[batchOf[t]] = "cancelled" => control[t] = "delete"

\* A batch is completed only by its last success, with nothing left in flight.
CompletedIsFull ==
    \A b \in Batches : status[b] = "completed" =>
        fulfilled[b] = Quantity[b] /\ Unresolved(b) = {} /\ Working(b) = {}

\* Four handlers move a batch's counters, each in its own transaction: they
\* stay within the quantity, agree with the rows, leave one purchase open at
\* most, and a batch is completed only by its last success.
SlotsAccounted == QuotaRespected /\ CountersMatch /\ OneUnresolved /\ CompletedIsFull

\* GetNumber is put on the wire only for a batch that is still active: Stop
\* reports success only when no provider request can follow (the comment of
\* CancelBatch on attempts of another instance).
NoRequestAfterStop ==
    [][\A t \in Tokens : order[t] = "none" /\ order'[t] = "sent" => Active(batchOf[t])]_vars

\* After a restart only requests that were sent keep quota (README.md): no
\* idle scheduler leaves an attempt reserved.
OnlySentKeepsQuota ==
    (\A i \in Instances : pc[i] = "idle") => \A t \in Tokens : attempt[t] # "reserved"

\* The processes run, and none works on the attempt: purchaseOne returned and
\* left it sent, so only the recovery of a restart can decide it.
LeftSent(t) ==
    /\ attempt[t] = "sent"
    /\ \A i \in Instances : pc[i] \notin {"down", "recover"} /\ tok[i] # t

\* An attempt is left sent only by a freeze or a release that failed at its last
\* try, which the code only logs; never by a recovery, by a lost response or by
\* a storage call before.
LeftSentByFailure ==
    [][\A t \in Tokens : LeftSent(t)' => LeftSent(t) \/ \E i \in Instances :
        /\ tok[i] = t
        /\ pc[i] \in {"freeze", "freeze_blind", "release_unsent"}
        /\ faults' > faults]_vars

\* An attempt that crossed the send fence is decided, by its purchaser or by the
\* recovery after a crash, which is what lets StopBatch succeed.
SentResolves ==
    /\ \A t \in Tokens : attempt[t] = "sent" ~> attempt[t] # "sent" \/ LeftSent(t)
    /\ LeftSentByFailure

\* A number that arrived is stored, or cancelled at the provider, or belongs to
\* another purchase, unless a crash forgets it or its freeze failed as well.
ReceivedNumberHandled ==
    \A i \in Instances, t \in Tokens : pc[i] = "persist" /\ tok[i] = t ~>
        act[t] # "absent" \/ order[t] = "concluded" \/ attempt[t] = "conflicted"
            \/ LeftSent(t) \/ crashes > 0

\* A queued cleanup of a number that was not stored is carried out.
CleanupEnds ==
    \A t \in Tokens : cleanup[t] = "pending" ~> cleanup[t] # "pending"

\* Nothing that was sent, received or queued stays undecided for ever.
PurchaseResolves == SentResolves /\ ReceivedNumberHandled /\ CleanupEnds

-----------------------------------------------------------------------------
(* The strengthening that makes the safety properties inductive.            *)

\* A token without a batch has no row anywhere; a committed attempt and an
\* activation come together; a slot is held only by an unfinished activation.
RowsConsistent ==
    \A t \in Tokens :
        /\ batchOf[t] = NoBatch => attempt[t] = "absent"
        /\ attempt[t] = "committed" <=> act[t] # "absent"
        /\ attempt[t] = "committed" <=> slot[t] # "none"
        /\ slot[t] = "held" => act[t] \in {"open", "protected"}

\* Nothing was ordered with a token that was not fenced as sent; a released
\* attempt was never ordered or was refused; a slot is given back without
\* success only once the provider concluded.
OrderConsistent ==
    \A t \in Tokens :
        /\ attempt[t] \in {"absent", "reserved"} => order[t] = "none"
        /\ attempt[t] = "released" => order[t] \in {"none", "refused"}
        /\ slot[t] = "released" => order[t] = "concluded"

\* What a purchaser knows about its own token at each place it can be.
PurchaserConsistent ==
    \A i \in Instances :
        /\ pc[i] \notin {"down", "recover", "idle"} =>
              tok[i] \in Tokens /\ batchOf[tok[i]] \in Batches
        /\ pc[i] \in {"down", "recover", "idle"} => tok[i] = NoToken
        /\ \A j \in Instances : tok[i] = tok[j] /\ tok[i] # NoToken => i = j
        /\ pc[i] \in {"reserve", "mark", "request", "release_unsent"} => order[tok[i]] = "none"
        /\ pc[i] \in {"request", "await"} => attempt[tok[i]] \in {"sent", "unknown"}
        /\ pc[i] = "release_refused" => order[tok[i]] = "refused"

LedgerInv == RowsConsistent /\ OneUnresolved /\ CountersMatch /\ QuotaRespected

IInv == TypeOK /\ LedgerInv /\ OrderConsistent /\ PurchaserConsistent
=============================================================================
