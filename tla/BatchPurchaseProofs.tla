------------------------ MODULE BatchPurchaseProofs ------------------------
(***************************************************************************)
(* Proofs about BatchPurchase for every number of batches, tokens, numbers *)
(* and instances.  The argument: IInv is inductive.  Its part about the    *)
(* ledger (LedgerInv) is preserved by each storage transaction, its part   *)
(* about orders and purchasers by each step of the protocol; the safety    *)
(* properties follow from IInv.  Then what Stop and the cleanup rely on    *)
(* (SettleInv), the refinement of SlotQuota, and Stop against the send     *)
(* fence for one scheduler process.                                        *)
(***************************************************************************)
EXTENDS BatchPurchaseQuota, FiniteSetTheorems, TLAPS

\* Every set a counter counts is a finite set of tokens of one batch.
LEMMA CountedFinite ==
    ASSUME NEW b \in Batches
    PROVE  /\ IsFiniteSet(Attempts(b))
           /\ IsFiniteSet(Unresolved(b)) /\ Cardinality(Unresolved(b)) \in Nat
           /\ IsFiniteSet(Working(b)) /\ Cardinality(Working(b)) \in Nat
           /\ IsFiniteSet(Fulfilled(b)) /\ Cardinality(Fulfilled(b)) \in Nat
           /\ IsFiniteSet(Stored(b)) /\ Cardinality(Stored(b)) \in Nat
<1>1. /\ Attempts(b) \in SUBSET Tokens
      /\ Unresolved(b) \in SUBSET Tokens /\ Working(b) \in SUBSET Tokens
      /\ Fulfilled(b) \in SUBSET Tokens /\ Stored(b) \in SUBSET Tokens
  BY DEF Attempts, Unresolved, Working, Fulfilled, Stored
<1>2. \A S \in SUBSET Tokens : IsFiniteSet(S) /\ Cardinality(S) \in Nat
  BY TokensFinite, FS_Subset, FS_CardinalityType
<1>. QED  BY <1>1, <1>2

\* The typing facts that arithmetic on one batch needs.
LEMMA CounterTypes ==
    ASSUME TypeOK, NEW b \in Batches
    PROVE  /\ reserved[b] \in Nat /\ purchased[b] \in Nat /\ fulfilled[b] \in Nat
           /\ inflight[b] \in Nat /\ proxyFree[b] \in Nat
           /\ Quantity[b] \in Nat /\ Quantity[b] > 0
<1>1. Quantity[b] \in Nat \ {0}
  BY QuantityAssumption
<1>2. /\ reserved[b] \in Nat /\ purchased[b] \in Nat /\ fulfilled[b] \in Nat
      /\ inflight[b] \in Nat /\ proxyFree[b] \in Nat
  BY DEF TypeOK, LedgerType
<1>. QED  BY <1>1, <1>2

\* How the counted sets of a batch change, from what changed in the rows.
LEMMA UnresolvedSame ==
    ASSUME NEW c \in Batches, UNCHANGED batchOf,
           \A u \in Tokens : attempt'[u] \in UnresolvedState <=> attempt[u] \in UnresolvedState
    PROVE  Unresolved(c)' = Unresolved(c)
BY DEF Unresolved, Attempts

LEMMA UnresolvedElsewhere ==
    ASSUME NEW t \in Tokens, NEW c \in Batches, UNCHANGED batchOf, batchOf[t] # c,
           \A u \in Tokens \ {t} : attempt'[u] = attempt[u]
    PROVE  Unresolved(c)' = Unresolved(c)
BY DEF Unresolved, Attempts

LEMMA SlotsSame ==
    ASSUME NEW c \in Batches, UNCHANGED <<batchOf, slot>>
    PROVE  Working(c)' = Working(c) /\ Fulfilled(c)' = Fulfilled(c)
BY DEF Working, Fulfilled, Attempts

LEMMA SlotsElsewhere ==
    ASSUME NEW t \in Tokens, NEW c \in Batches, UNCHANGED batchOf, batchOf[t] # c,
           \A u \in Tokens \ {t} : slot'[u] = slot[u]
    PROVE  Working(c)' = Working(c) /\ Fulfilled(c)' = Fulfilled(c)
BY DEF Working, Fulfilled, Attempts

LEMMA StoredSame ==
    ASSUME NEW c \in Batches, UNCHANGED batchOf,
           \A u \in Tokens : act'[u] # "absent" <=> act[u] # "absent"
    PROVE  Stored(c)' = Stored(c)
BY DEF Stored, Attempts

LEMMA StoredElsewhere ==
    ASSUME NEW t \in Tokens, NEW c \in Batches, UNCHANGED batchOf, batchOf[t] # c,
           \A u \in Tokens \ {t} : act'[u] = act[u]
    PROVE  Stored(c)' = Stored(c)
BY DEF Stored, Attempts

\* The ledger invariant of one batch.
BatchLedger(c) ==
    /\ \A t, u \in Unresolved(c) : t = u
    /\ reserved[c] = Cardinality(Unresolved(c))
    /\ inflight[c] = Cardinality(Working(c))
    /\ fulfilled[c] = Cardinality(Fulfilled(c))
    /\ purchased[c] = Cardinality(Stored(c))
    /\ fulfilled[c] + inflight[c] + reserved[c] <= Quantity[c]

LEMMA LedgerByBatch ==
    ASSUME RowsConsistent', \A c \in Batches : BatchLedger(c)'
    PROVE  LedgerInv'
BY DEF LedgerInv, OneUnresolved, CountersMatch, QuotaRespected, BatchLedger

\* A batch whose counted sets and counters did not change needs no argument.
LEMMA BatchSame ==
    ASSUME LedgerInv, NEW c \in Batches,
           Unresolved(c)' = Unresolved(c), Working(c)' = Working(c),
           Fulfilled(c)' = Fulfilled(c), Stored(c)' = Stored(c),
           reserved'[c] = reserved[c], inflight'[c] = inflight[c],
           fulfilled'[c] = fulfilled[c], purchased'[c] = purchased[c]
    PROVE  BatchLedger(c)'
BY DEF LedgerInv, OneUnresolved, CountersMatch, QuotaRespected, BatchLedger

\* Nor does a batch whose tokens a step did not touch.
LEMMA BatchElsewhere ==
    ASSUME LedgerInv, UNCHANGED batchOf, NEW t \in Tokens,
           NEW c \in Batches, batchOf[t] # c,
           \A u \in Tokens \ {t} :
               attempt'[u] = attempt[u] /\ slot'[u] = slot[u] /\ act'[u] = act[u],
           reserved'[c] = reserved[c], inflight'[c] = inflight[c],
           fulfilled'[c] = fulfilled[c], purchased'[c] = purchased[c]
    PROVE  BatchLedger(c)'
BY UnresolvedElsewhere, SlotsElsewhere, StoredElsewhere, BatchSame

\* A step that leaves the counted columns alone keeps the ledger invariant.
LEMMA SameLedger ==
    ASSUME LedgerInv,
           UNCHANGED <<reserved, purchased, fulfilled, inflight, attempt, act, slot, batchOf>>
    PROVE  LedgerInv'
<1>1. RowsConsistent'
  BY DEF LedgerInv, RowsConsistent
<1>2. ASSUME NEW c \in Batches
      PROVE  /\ Unresolved(c)' = Unresolved(c) /\ Working(c)' = Working(c)
             /\ Fulfilled(c)' = Fulfilled(c) /\ Stored(c)' = Stored(c)
  BY UnresolvedSame, SlotsSame, StoredSame
<1>. QED
  BY <1>1, <1>2, BatchSame, LedgerByBatch

\* A fresh token joins a batch without any row.
LEMMA StartLedger ==
    ASSUME TypeOK, LedgerInv, NEW b \in Batches, NEW t \in Tokens,
           batchOf[t] = NoBatch, batchOf' = [batchOf EXCEPT ![t] = b],
           UNCHANGED ledger
    PROVE  LedgerInv'
<1>. USE DEF ledger, batchVars, attemptVars, actVars
<1>1. attempt[t] = "absent" /\ slot[t] = "none" /\ act[t] = "absent"
  BY DEF LedgerInv, RowsConsistent, TypeOK, LedgerType
<1>2. \A u \in Tokens \ {t} : batchOf'[u] = batchOf[u]
  BY DEF TypeOK, LedgerType
<1>3. ASSUME NEW c \in Batches
      PROVE  /\ Unresolved(c)' = Unresolved(c) /\ Working(c)' = Working(c)
             /\ Fulfilled(c)' = Fulfilled(c) /\ Stored(c)' = Stored(c)
  <2>1. Unresolved(c)' = Unresolved(c)
    BY <1>1, <1>2 DEF Unresolved, Attempts, UnresolvedState
  <2>2. Working(c)' = Working(c) /\ Fulfilled(c)' = Fulfilled(c)
    BY <1>1, <1>2 DEF Working, Fulfilled, Attempts
  <2>3. Stored(c)' = Stored(c)
    BY <1>1, <1>2 DEF Stored, Attempts
  <2>. QED  BY <2>1, <2>2, <2>3
<1>4. RowsConsistent'
  BY <1>1, <1>2 DEF LedgerInv, RowsConsistent
<1>. QED
  BY <1>3, <1>4, BatchSame, LedgerByBatch

\* A batch with no reserved quota has no unresolved attempt.
LEMMA NothingUnresolved ==
    ASSUME LedgerInv, NEW b \in Batches, reserved[b] = 0
    PROVE  Unresolved(b) = {}
BY CountedFinite, FS_EmptySet DEF LedgerInv, CountersMatch

\* An unresolved attempt is the only one of its batch and holds one quota.
LEMMA TheUnresolved ==
    ASSUME LedgerInv, NEW b \in Batches, NEW t \in Unresolved(b)
    PROVE  Unresolved(b) = {t} /\ reserved[b] = 1
<1>1. Unresolved(b) = {t}
  BY DEF LedgerInv, OneUnresolved
<1>. QED  BY <1>1, FS_Singleton DEF LedgerInv, CountersMatch

LEMMA ReserveLedger ==
    ASSUME TypeOK, LedgerInv, NEW t \in Tokens, NEW b \in Batches, batchOf[t] = b,
           ~ReserveRefused(b, t), ReserveTx(b, t), UNCHANGED batchOf
    PROVE  LedgerInv'
<1>1. UNCHANGED <<status, purchased, fulfilled, inflight, act, slot>>
  BY DEF ReserveTx, actVars
<1>2. CASE attempt[t] # "absent"
  BY <1>1, <1>2, SameLedger DEF ReserveTx
<1>3. CASE attempt[t] = "absent"
  <2>1. /\ attempt' = [attempt EXCEPT ![t] = "reserved"]
        /\ reserved' = [reserved EXCEPT ![b] = reserved[b] + 1]
        /\ ~(reserved[b] > 0)
        /\ ~(fulfilled[b] + inflight[b] + reserved[b] >= Quantity[b])
    BY <1>3 DEF ReserveTx, ReserveRefused
  <2>2. reserved[b] = 0 /\ fulfilled[b] + inflight[b] < Quantity[b]
    BY <2>1, CounterTypes
  <2>3. attempt'[t] = "reserved" /\ \A u \in Tokens \ {t} : attempt'[u] = attempt[u]
    BY <2>1 DEF TypeOK, LedgerType
  <2>4. reserved'[b] = 1 /\ \A c \in Batches \ {b} : reserved'[c] = reserved[c]
    <3>1. reserved \in [Batches -> Nat]
      BY DEF TypeOK, LedgerType
    <3>. QED  BY <2>1, <2>2, <3>1
  <2>5. Unresolved(b)' = {t}
    <3>1. Unresolved(b) = {}
      BY <2>2, NothingUnresolved
    <3>. QED  BY <3>1, <2>3 DEF Unresolved, Attempts, UnresolvedState
  <2>6. RowsConsistent'
    BY <1>1, <1>3, <2>3, NullAssumption DEF LedgerInv, RowsConsistent
  <2>7. ASSUME NEW c \in Batches
        PROVE  /\ Working(c)' = Working(c) /\ Fulfilled(c)' = Fulfilled(c)
               /\ Stored(c)' = Stored(c)
    BY <1>1, SlotsSame, StoredSame
  <2>8. ASSUME NEW c \in Batches \ {b}
        PROVE  BatchLedger(c)'
    <3>1. Unresolved(c)' = Unresolved(c)
      BY <2>3, UnresolvedElsewhere
    <3>. QED  BY <1>1, <2>4, <2>7, <3>1, BatchSame
  <2>9. BatchLedger(b)'
    <3>1. Cardinality(Unresolved(b)') = 1 /\ \A u, v \in Unresolved(b)' : u = v
      BY <2>5, FS_Singleton
    <3>2. fulfilled[b] + inflight[b] + 1 <= Quantity[b]
      BY <2>2, CounterTypes
    <3>. QED
      BY <1>1, <2>4, <2>7, <3>1, <3>2 DEF LedgerInv, CountersMatch, BatchLedger
  <2>. QED  BY <2>6, <2>8, <2>9, LedgerByBatch
<1>. QED  BY <1>2, <1>3

LEMMA MarkSentLedger ==
    ASSUME TypeOK, LedgerInv, NEW t \in Tokens, NEW b \in Batches, batchOf[t] = b,
           ~MarkSentRefused(b, t), MarkSentTx(t), UNCHANGED batchOf
    PROVE  LedgerInv'
<1>1. /\ attempt[t] \in {"reserved", "sent"} /\ attempt'[t] = "sent"
      /\ \A u \in Tokens \ {t} : attempt'[u] = attempt[u]
  BY DEF MarkSentRefused, MarkSentTx, TypeOK, LedgerType
<1>2. UNCHANGED <<reserved, purchased, fulfilled, inflight, act, slot>>
  BY DEF MarkSentTx, batchVars, actVars
<1>3. RowsConsistent'
  BY <1>1, <1>2, NullAssumption DEF LedgerInv, RowsConsistent
<1>4. ASSUME NEW c \in Batches
      PROVE  Unresolved(c)' = Unresolved(c)
  BY <1>1, UnresolvedSame DEF UnresolvedState
<1>. QED
  BY <1>2, <1>3, <1>4, SlotsSame, StoredSame, BatchSame, LedgerByBatch

LEMMA ReleaseLedger ==
    ASSUME TypeOK, LedgerInv, NEW t \in Tokens, NEW b \in Batches, batchOf[t] = b,
           ~ReleaseRefused(b, t), ReleaseTx(b, t), UNCHANGED batchOf
    PROVE  LedgerInv'
<1>1. UNCHANGED <<purchased, fulfilled, inflight, act, slot>>
  BY DEF ReleaseTx, actVars
<1>2. CASE attempt[t] \notin {"reserved", "sent"}
  BY <1>1, <1>2, SameLedger DEF ReleaseTx
<1>3. CASE attempt[t] \in {"reserved", "sent"}
  <2>1. /\ attempt' = [attempt EXCEPT ![t] = "released"]
        /\ reserved' = [reserved EXCEPT ![b] = reserved[b] - 1]
    BY <1>3 DEF ReleaseTx
  <2>2. attempt'[t] = "released" /\ \A u \in Tokens \ {t} : attempt'[u] = attempt[u]
    BY <2>1 DEF TypeOK, LedgerType
  <2>3. Unresolved(b) = {t} /\ reserved[b] = 1
    <3>1. t \in Unresolved(b)
      BY <1>3 DEF Unresolved, Attempts, UnresolvedState
    <3>. QED  BY <3>1, TheUnresolved
  <2>4. reserved'[b] = 0 /\ \A c \in Batches \ {b} : reserved'[c] = reserved[c]
    <3>1. reserved \in [Batches -> Nat]
      BY DEF TypeOK, LedgerType
    <3>. QED  BY <2>1, <2>3, <3>1
  <2>5. Unresolved(b)' = {}
    BY <2>2, <2>3 DEF Unresolved, Attempts, UnresolvedState
  <2>6. RowsConsistent'
    BY <1>1, <1>3, <2>2, NullAssumption DEF LedgerInv, RowsConsistent
  <2>7. ASSUME NEW c \in Batches \ {b}
        PROVE  BatchLedger(c)'
    BY <1>1, <2>2, <2>4, BatchElsewhere
  <2>8. BatchLedger(b)'
    <3>1. Cardinality(Unresolved(b)') = 0 /\ \A u, v \in Unresolved(b)' : u = v
      BY <2>5, FS_EmptySet
    <3>2. fulfilled[b] + inflight[b] + 0 <= Quantity[b]
      BY <2>3, CounterTypes DEF LedgerInv, QuotaRespected
    <3>3. /\ Working(b)' = Working(b) /\ Fulfilled(b)' = Fulfilled(b)
          /\ Stored(b)' = Stored(b)
      BY <1>1, SlotsSame, StoredSame
    <3>. QED
      BY <1>1, <2>4, <3>1, <3>2, <3>3 DEF LedgerInv, CountersMatch, BatchLedger
  <2>. QED  BY <2>6, <2>7, <2>8, LedgerByBatch
<1>. QED  BY <1>2, <1>3

\* A token enters a set of a batch, or leaves it, and the set's size follows.
LEMMA CountIn ==
    ASSUME NEW S \in SUBSET Tokens, NEW t \in Tokens, t \notin S
    PROVE  Cardinality(S) \in Nat /\ Cardinality(S \cup {t}) = Cardinality(S) + 1
BY TokensFinite, FS_Subset, FS_AddElement, FS_CardinalityType

LEMMA CountOut ==
    ASSUME NEW S \in SUBSET Tokens, NEW t \in S
    PROVE  /\ Cardinality(S) \in Nat /\ Cardinality(S) > 0
           /\ Cardinality(S \ {t}) = Cardinality(S) - 1
<1>1. IsFiniteSet(S) /\ Cardinality(S) \in Nat
  BY TokensFinite, FS_Subset, FS_CardinalityType
<1>2. Cardinality(S) # 0
  BY <1>1, FS_EmptySet
<1>3. Cardinality(S \ {t}) = Cardinality(S) - 1
  BY <1>1, FS_RemoveElement
<1>. QED  BY <1>1, <1>2, <1>3

LEMMA PersistLedger ==
    ASSUME TypeOK, LedgerInv, NEW t \in Tokens, NEW b \in Batches, batchOf[t] = b,
           NEW n, ~PersistRefused(b, t, n), PersistTx(b, t, n), UNCHANGED batchOf
    PROVE  LedgerInv'
<1>1. CASE attempt[t] = "committed"
  BY <1>1, SameLedger DEF PersistTx, ledger, batchVars, attemptVars, actVars
<1>2. CASE attempt[t] # "committed"
  <2>1. /\ attempt[t] = "sent"
        /\ attempt' = [attempt EXCEPT ![t] = "committed"]
        /\ act' = [act EXCEPT ![t] = "open"]
        /\ slot' = [slot EXCEPT ![t] = "held"]
        /\ reserved' = [reserved EXCEPT ![b] = reserved[b] - 1]
        /\ purchased' = [purchased EXCEPT ![b] = purchased[b] + 1]
        /\ inflight' = [inflight EXCEPT ![b] = inflight[b] + 1]
        /\ UNCHANGED fulfilled
    BY <1>2 DEF PersistRefused, PersistTx
  <2>2. /\ attempt'[t] = "committed" /\ act'[t] = "open" /\ slot'[t] = "held"
        /\ \A u \in Tokens \ {t} :
             attempt'[u] = attempt[u] /\ slot'[u] = slot[u] /\ act'[u] = act[u]
    BY <2>1 DEF TypeOK, LedgerType
  <2>3. act[t] = "absent" /\ slot[t] = "none"
    BY <2>1 DEF LedgerInv, RowsConsistent
  <2>4. Unresolved(b) = {t} /\ reserved[b] = 1
    <3>1. t \in Unresolved(b)
      BY <2>1 DEF Unresolved, Attempts, UnresolvedState
    <3>. QED  BY <3>1, TheUnresolved
  <2>5. /\ reserved'[b] = 0 /\ purchased'[b] = purchased[b] + 1
        /\ inflight'[b] = inflight[b] + 1
        /\ \A c \in Batches \ {b} : /\ reserved'[c] = reserved[c]
                                    /\ purchased'[c] = purchased[c]
                                    /\ inflight'[c] = inflight[c]
    <3>1. /\ reserved \in [Batches -> Nat] /\ purchased \in [Batches -> Nat]
          /\ inflight \in [Batches -> Nat]
      BY DEF TypeOK, LedgerType
    <3>. QED  BY <2>1, <2>4, <3>1
  <2>6. RowsConsistent'
    BY <2>1, <2>2, NullAssumption DEF LedgerInv, RowsConsistent
  <2>7. ASSUME NEW c \in Batches \ {b}
        PROVE  BatchLedger(c)'
    BY <2>1, <2>2, <2>5, BatchElsewhere
  <2>8. BatchLedger(b)'
    <3>1. Unresolved(b)' = {}
      BY <2>2, <2>4 DEF Unresolved, Attempts, UnresolvedState
    <3>2. Working(b)' = Working(b) \cup {t} /\ t \notin Working(b)
      BY <2>2, <2>3 DEF Working, Attempts
    <3>3. Fulfilled(b)' = Fulfilled(b)
      BY <2>2, <2>3 DEF Fulfilled, Attempts
    <3>4. Stored(b)' = Stored(b) \cup {t} /\ t \notin Stored(b)
      BY <2>2, <2>3 DEF Stored, Attempts
    <3>5. Working(b) \in SUBSET Tokens /\ Stored(b) \in SUBSET Tokens
      BY DEF Working, Stored, Attempts
    <3>6. /\ Cardinality(Working(b)') = inflight'[b]
          /\ Cardinality(Stored(b)') = purchased'[b]
      BY <2>5, <3>2, <3>4, <3>5, CountIn DEF LedgerInv, CountersMatch
    <3>7. Cardinality(Unresolved(b)') = 0 /\ \A u, v \in Unresolved(b)' : u = v
      BY <3>1, FS_EmptySet
    <3>8. fulfilled[b] + (inflight[b] + 1) + 0 <= Quantity[b]
      BY <2>4, CounterTypes DEF LedgerInv, QuotaRespected
    <3>. QED
      BY <2>1, <2>5, <3>3, <3>6, <3>7, <3>8 DEF LedgerInv, CountersMatch, BatchLedger
  <2>. QED  BY <2>6, <2>7, <2>8, LedgerByBatch
<1>. QED  BY <1>1, <1>2

\* A freeze moves its attempt among the unresolved states, or does nothing.
LEMMA FreezeAttempt ==
    ASSUME TypeOK, NEW t \in Tokens, NEW b \in Batches, NEW n,
           ~FreezeRefused(t, n), FreezeTx(b, t, n)
    PROVE  /\ attempt'[t] = attempt[t] \/
                 (attempt[t] \in UnresolvedState /\ attempt'[t] \in {"unknown", "conflicted"})
           /\ \A u \in Tokens \ {t} : attempt'[u] = attempt[u]
<1>1. CASE attempt[t] = "committed"
  BY <1>1 DEF FreezeTx, attemptVars
<1>2. CASE attempt[t] # "committed"
  <2>1. attempt[t] \in UnresolvedState
    BY <1>2 DEF FreezeRefused, TypeOK, LedgerType, AttemptState, UnresolvedState
  <2>2. \/ attempt' = [attempt EXCEPT ![t] = "conflicted"]
        \/ attempt' = [attempt EXCEPT ![t] =
                         IF attempt[t] = "conflicted" THEN attempt[t] ELSE "unknown"]
    BY <1>2 DEF FreezeTx
  <2>3. attempt \in [Tokens -> AttemptState]
    BY DEF TypeOK, LedgerType
  <2>. QED  BY <2>1, <2>2, <2>3
<1>. QED  BY <1>1, <1>2

LEMMA FreezeLedger ==
    ASSUME TypeOK, LedgerInv, NEW t \in Tokens, NEW b \in Batches, batchOf[t] = b,
           NEW n, ~FreezeRefused(t, n), FreezeTx(b, t, n), UNCHANGED batchOf
    PROVE  LedgerInv'
<1>1. UNCHANGED <<reserved, purchased, fulfilled, inflight, act, slot>>
  BY DEF FreezeTx, actVars
<1>2. /\ attempt'[t] = attempt[t] \/
           (attempt[t] \in UnresolvedState /\ attempt'[t] \in {"unknown", "conflicted"})
      /\ \A u \in Tokens \ {t} : attempt'[u] = attempt[u]
  BY FreezeAttempt
<1>3. RowsConsistent'
  BY <1>1, <1>2, NullAssumption DEF LedgerInv, RowsConsistent, UnresolvedState
<1>4. ASSUME NEW c \in Batches
      PROVE  Unresolved(c)' = Unresolved(c)
  BY <1>2, UnresolvedSame DEF UnresolvedState
<1>. QED
  BY <1>1, <1>3, <1>4, SlotsSame, StoredSame, BatchSame, LedgerByBatch

LEMMA RecoverLedger ==
    ASSUME TypeOK, LedgerInv, NEW b \in Batches, RecoverTx(b), UNCHANGED batchOf
    PROVE  LedgerInv'
<1>1. UNCHANGED <<reserved, purchased, fulfilled, inflight, act, slot>>
  BY DEF RecoverTx, batchVars, actVars
<1>2. \A u \in Tokens :
         attempt'[u] = attempt[u] \/ (attempt[u] = "sent" /\ attempt'[u] = "unknown")
  <2>1. attempt' = [t \in Tokens |->
          IF t \in Attempts(b) /\ attempt[t] = "sent" THEN "unknown" ELSE attempt[t]]
    BY DEF RecoverTx
  <2>. QED  BY <2>1
<1>3. RowsConsistent'
  BY <1>1, <1>2 DEF LedgerInv, RowsConsistent
<1>4. ASSUME NEW c \in Batches
      PROVE  Unresolved(c)' = Unresolved(c)
  BY <1>2, UnresolvedSame DEF UnresolvedState
<1>. QED
  BY <1>1, <1>3, <1>4, SlotsSame, StoredSame, BatchSame, LedgerByBatch

LEMMA StopLedger ==
    ASSUME TypeOK, LedgerInv, NEW i \in Instances, NEW b \in Batches, StopBatch(i, b)
    PROVE  LedgerInv'
<1> DEFINE dropped == {t \in Attempts(b) : attempt[t] = "reserved"}
<1>1. /\ attempt' = [t \in Tokens |-> IF t \in dropped THEN "released" ELSE attempt[t]]
      /\ reserved' = [reserved EXCEPT ![b] =
            IF dropped # {} /\ reserved[b] > 0 THEN reserved[b] - 1 ELSE reserved[b]]
      /\ UNCHANGED <<purchased, fulfilled, inflight, act, slot, batchOf>>
  BY DEF StopBatch
<1>2. CASE dropped = {}
  <2>1. attempt' = attempt
    BY <1>1, <1>2 DEF TypeOK, LedgerType
  <2>2. reserved' = reserved
    BY <1>1, <1>2 DEF TypeOK, LedgerType
  <2>. QED  BY <1>1, <2>1, <2>2, SameLedger
<1>3. CASE dropped # {}
  <2>1. PICK t \in dropped : TRUE
    BY <1>3
  <2>2. t \in Tokens /\ batchOf[t] = b /\ attempt[t] = "reserved"
    BY <2>1 DEF Attempts
  <2>3. Unresolved(b) = {t} /\ reserved[b] = 1
    <3>1. t \in Unresolved(b)
      BY <2>2 DEF Unresolved, Attempts, UnresolvedState
    <3>. QED  BY <3>1, TheUnresolved
  <2>4. dropped = {t}
    BY <2>1, <2>3 DEF Unresolved, UnresolvedState
  <2>5. attempt'[t] = "released" /\ \A u \in Tokens \ {t} : attempt'[u] = attempt[u]
    BY <1>1, <2>2, <2>4
  <2>6. reserved'[b] = 0 /\ \A c \in Batches \ {b} : reserved'[c] = reserved[c]
    <3>1. reserved \in [Batches -> Nat]
      BY DEF TypeOK, LedgerType
    <3>. QED  BY <1>1, <1>3, <2>3, <3>1
  <2>7. Unresolved(b)' = {}
    BY <1>1, <2>3, <2>5 DEF Unresolved, Attempts, UnresolvedState
  <2>8. RowsConsistent'
    BY <1>1, <2>2, <2>5, NullAssumption DEF LedgerInv, RowsConsistent
  <2>9. ASSUME NEW c \in Batches \ {b}
        PROVE  BatchLedger(c)'
    BY <1>1, <2>2, <2>5, <2>6, BatchElsewhere
  <2>10. BatchLedger(b)'
    <3>1. Cardinality(Unresolved(b)') = 0 /\ \A u, v \in Unresolved(b)' : u = v
      BY <2>7, FS_EmptySet
    <3>2. fulfilled[b] + inflight[b] + 0 <= Quantity[b]
      BY <2>3, CounterTypes DEF LedgerInv, QuotaRespected
    <3>3. /\ Working(b)' = Working(b) /\ Fulfilled(b)' = Fulfilled(b)
          /\ Stored(b)' = Stored(b)
      BY <1>1, SlotsSame, StoredSame
    <3>. QED
      BY <1>1, <2>6, <3>1, <3>2, <3>3 DEF LedgerInv, CountersMatch, BatchLedger
  <2>. QED  BY <2>8, <2>9, <2>10, LedgerByBatch
<1>. QED  BY <1>2, <1>3

\* An activation belongs to a batch.
LEMMA ActivationBatch ==
    ASSUME TypeOK, LedgerInv, NEW t \in Tokens, act[t] # "absent"
    PROVE  batchOf[t] \in Batches /\ attempt[t] = "committed"
<1>1. attempt[t] = "committed" /\ batchOf[t] # NoBatch
  BY DEF LedgerInv, RowsConsistent
<1>2. batchOf[t] \in Batches \cup {NoBatch}
  BY DEF TypeOK, LedgerType
<1>. QED  BY <1>1, <1>2

LEMMA FulfilLedger ==
    ASSUME TypeOK, LedgerInv, NEW t \in Tokens, MarkActivationFulfilled(t)
    PROVE  LedgerInv'
<1>0. PICK b \in Batches : batchOf[t] = b
  BY ActivationBatch DEF MarkActivationFulfilled
<1>1. /\ act[t] = "open" /\ slot[t] = "held"
      /\ slot' = [slot EXCEPT ![t] = "fulfilled"]
      /\ inflight' = [inflight EXCEPT ![b] = inflight[b] - 1]
      /\ fulfilled' = [fulfilled EXCEPT ![b] = fulfilled[b] + 1]
      /\ UNCHANGED <<reserved, purchased, attempt, act, batchOf>>
  BY <1>0 DEF MarkActivationFulfilled, ReleaseSlot, attemptVars
<1>2. batchOf[t] = b /\ attempt[t] = "committed"
  BY <1>0, <1>1, ActivationBatch
<1>3. slot'[t] = "fulfilled" /\ \A u \in Tokens \ {t} : slot'[u] = slot[u]
  BY <1>1 DEF TypeOK, LedgerType
<1>4. Working(b) \in SUBSET Tokens /\ Fulfilled(b) \in SUBSET Tokens
  BY DEF Working, Fulfilled, Attempts
<1>5. t \in Working(b) /\ Working(b)' = Working(b) \ {t}
  BY <1>1, <1>2, <1>3 DEF Working, Attempts
<1>6. t \notin Fulfilled(b) /\ Fulfilled(b)' = Fulfilled(b) \cup {t}
  BY <1>1, <1>2, <1>3 DEF Fulfilled, Attempts
<1>7. /\ inflight[b] > 0 /\ inflight'[b] = inflight[b] - 1
      /\ fulfilled'[b] = fulfilled[b] + 1
      /\ \A c \in Batches \ {b} :
           inflight'[c] = inflight[c] /\ fulfilled'[c] = fulfilled[c]
  <2>1. inflight \in [Batches -> Nat] /\ fulfilled \in [Batches -> Nat]
    BY DEF TypeOK, LedgerType
  <2>2. inflight[b] > 0
    BY <1>2, <1>4, <1>5, CountOut DEF LedgerInv, CountersMatch
  <2>. QED  BY <1>1, <1>2, <2>1, <2>2
<1>8. RowsConsistent'
  BY <1>1, <1>2, <1>3 DEF LedgerInv, RowsConsistent
<1>9. ASSUME NEW c \in Batches \ {b}
      PROVE  BatchLedger(c)'
  BY <1>1, <1>2, <1>3, <1>7, BatchElsewhere
<1>10. BatchLedger(b)'
  <2>1. Unresolved(b)' = Unresolved(b) /\ Stored(b)' = Stored(b)
    BY <1>1, <1>2, UnresolvedSame, StoredSame
  <2>2. /\ Cardinality(Working(b)') = inflight'[b]
        /\ Cardinality(Fulfilled(b)') = fulfilled'[b]
    BY <1>2, <1>4, <1>5, <1>6, <1>7, CountIn, CountOut DEF LedgerInv, CountersMatch
  <2>3. (fulfilled[b] + 1) + (inflight[b] - 1) + reserved[b] <= Quantity[b]
    BY <1>2, <1>7, CounterTypes DEF LedgerInv, QuotaRespected
  <2>. QED
    BY <1>1, <1>2, <1>7, <2>1, <2>2, <2>3
    DEF LedgerInv, OneUnresolved, CountersMatch, BatchLedger
<1>. QED  BY <1>8, <1>9, <1>10, LedgerByBatch

LEMMA FinishLedger ==
    ASSUME TypeOK, LedgerInv, NEW t \in Tokens, FinishActivation(t)
    PROVE  LedgerInv'
<1>0. PICK b \in Batches : batchOf[t] = b
  BY ActivationBatch DEF FinishActivation
<1>1. /\ act[t] \in {"open", "protected"}
      /\ act' = [act EXCEPT ![t] = "finished"]
      /\ UNCHANGED <<reserved, purchased, attempt, batchOf>>
  BY DEF FinishActivation, attemptVars
<1>2. batchOf[t] = b /\ attempt[t] = "committed"
  BY <1>0, <1>1, ActivationBatch
<1>3. act'[t] = "finished" /\ \A u \in Tokens \ {t} : act'[u] = act[u]
  BY <1>1 DEF TypeOK, LedgerType
<1>4. ASSUME NEW c \in Batches
      PROVE  Unresolved(c)' = Unresolved(c) /\ Stored(c)' = Stored(c)
  BY <1>1, <1>3, UnresolvedSame, StoredSame
<1>5. CASE slot[t] # "held"
  <2>1. UNCHANGED <<slot, fulfilled, inflight>>
    BY <1>5 DEF FinishActivation
  <2>2. RowsConsistent'
    BY <1>1, <1>2, <1>3, <1>5, <2>1 DEF LedgerInv, RowsConsistent
  <2>. QED  BY <1>1, <1>4, <2>1, <2>2, SlotsSame, BatchSame, LedgerByBatch
<1>6. CASE slot[t] = "held"
  <2>1. /\ slot' = [slot EXCEPT ![t] = "released"]
        /\ inflight' = [inflight EXCEPT ![b] = inflight[b] - 1]
        /\ UNCHANGED fulfilled
    BY <1>2, <1>6 DEF FinishActivation, ReleaseSlot
  <2>2. slot'[t] = "released" /\ \A u \in Tokens \ {t} : slot'[u] = slot[u]
    BY <2>1 DEF TypeOK, LedgerType
  <2>3. t \in Working(b) /\ Working(b)' = Working(b) \ {t}
    BY <1>1, <1>2, <1>6, <2>2 DEF Working, Attempts
  <2>4. Fulfilled(b)' = Fulfilled(b)
    BY <1>1, <1>2, <1>6, <2>2 DEF Fulfilled, Attempts
  <2>5. Working(b) \in SUBSET Tokens
    BY DEF Working, Attempts
  <2>6. /\ inflight[b] > 0 /\ inflight'[b] = inflight[b] - 1
        /\ \A c \in Batches \ {b} : inflight'[c] = inflight[c]
    <3>1. inflight \in [Batches -> Nat]
      BY DEF TypeOK, LedgerType
    <3>2. inflight[b] > 0
      BY <1>2, <2>3, <2>5, CountOut DEF LedgerInv, CountersMatch
    <3>. QED  BY <1>2, <2>1, <3>1, <3>2
  <2>7. RowsConsistent'
    BY <1>1, <1>2, <1>3, <2>2 DEF LedgerInv, RowsConsistent
  <2>8. ASSUME NEW c \in Batches \ {b}
        PROVE  BatchLedger(c)'
    BY <1>1, <1>2, <1>3, <2>1, <2>2, <2>6, BatchElsewhere
  <2>9. BatchLedger(b)'
    <3>1. Cardinality(Working(b)') = inflight'[b]
      BY <1>2, <2>3, <2>5, <2>6, CountOut DEF LedgerInv, CountersMatch
    <3>2. fulfilled[b] + (inflight[b] - 1) + reserved[b] <= Quantity[b]
      BY <1>2, CounterTypes DEF LedgerInv, QuotaRespected
    <3>. QED
      BY <1>1, <1>2, <1>4, <2>1, <2>4, <2>6, <3>1, <3>2
      DEF LedgerInv, OneUnresolved, CountersMatch, BatchLedger
  <2>. QED  BY <2>7, <2>8, <2>9, LedgerByBatch
<1>. QED  BY <1>5, <1>6

-----------------------------------------------------------------------------
(* Typing of the storage transactions.                                      *)

LEMMA SameType ==
    ASSUME LedgerType, UNCHANGED <<ledger, batchOf>>
    PROVE  LedgerType'
BY DEF LedgerType, ledger, batchVars, attemptVars, actVars

\* Replacing one attempt state gives an attempt column again.
LEMMA AttemptUpdated ==
    ASSUME LedgerType, NEW t \in Tokens, NEW v \in AttemptState,
           attempt' = attempt \/ attempt' = [attempt EXCEPT ![t] = v]
    PROVE  attempt' \in [Tokens -> AttemptState]
<1>1. attempt \in [Tokens -> AttemptState]
  BY DEF LedgerType
<1>. QED  BY <1>1

LEMMA OneAttempt ==
    ASSUME LedgerType, NEW t \in Tokens, NEW v,
           attempt' = attempt \/ attempt' = [attempt EXCEPT ![t] = v]
    PROVE  /\ attempt'[t] = attempt[t] \/ attempt'[t] = v
           /\ \A u \in Tokens \ {t} : attempt'[u] = attempt[u]
<1>1. attempt \in [Tokens -> AttemptState]
  BY DEF LedgerType
<1>. QED  BY <1>1

LEMMA CounterUpdated ==
    ASSUME NEW c \in [Batches -> Nat], NEW b \in Batches, NEW d,
           \/ d = c
           \/ d = [c EXCEPT ![b] = c[b] + 1]
           \/ c[b] # 0 /\ d = [c EXCEPT ![b] = c[b] - 1]
    PROVE  d \in [Batches -> Nat]
<1>1. CASE d = c
  BY <1>1
<1>2. CASE d = [c EXCEPT ![b] = c[b] + 1]
  <2>1. c[b] + 1 \in Nat
    OBVIOUS
  <2>. QED  BY <1>2, <2>1
<1>3. CASE c[b] # 0 /\ d = [c EXCEPT ![b] = c[b] - 1]
  <2>1. c[b] - 1 \in Nat
    BY <1>3
  <2>. QED  BY <1>3, <2>1
<1>. QED  BY <1>1, <1>2, <1>3

LEMMA ReserveType ==
    ASSUME LedgerType, NEW t \in Tokens, NEW b \in Batches, ReserveTx(b, t), UNCHANGED batchOf
    PROVE  LedgerType'
<1>1. attempt' \in [Tokens -> AttemptState]
  <2>1. attempt' = attempt \/ attempt' = [attempt EXCEPT ![t] = "reserved"]
    BY DEF ReserveTx
  <2>. QED  BY <2>1, AttemptUpdated DEF AttemptState
<1>2. reserved' \in [Batches -> Nat]
  <2>1. reserved' = reserved \/ reserved' = [reserved EXCEPT ![b] = reserved[b] + 1]
    BY DEF ReserveTx
  <2>. QED  BY <2>1, CounterUpdated DEF LedgerType
<1>. QED  BY <1>1, <1>2 DEF ReserveTx, LedgerType, actVars

LEMMA MarkSentType ==
    ASSUME LedgerType, NEW t \in Tokens, MarkSentTx(t), UNCHANGED batchOf
    PROVE  LedgerType'
<1>1. attempt' \in [Tokens -> AttemptState]
  BY AttemptUpdated DEF MarkSentTx, AttemptState
<1>. QED  BY <1>1 DEF MarkSentTx, LedgerType, batchVars, actVars

LEMMA ReleaseType ==
    ASSUME LedgerType, NEW t \in Tokens, NEW b \in Batches,
           ~ReleaseRefused(b, t), ReleaseTx(b, t), UNCHANGED batchOf
    PROVE  LedgerType'
<1>1. attempt' \in [Tokens -> AttemptState]
  <2>1. attempt' = attempt \/ attempt' = [attempt EXCEPT ![t] = "released"]
    BY DEF ReleaseTx
  <2>. QED  BY <2>1, AttemptUpdated DEF AttemptState
<1>2. reserved' \in [Batches -> Nat]
  <2>1. \/ reserved' = reserved
        \/ reserved[b] # 0 /\ reserved' = [reserved EXCEPT ![b] = reserved[b] - 1]
    BY DEF ReleaseRefused, ReleaseTx
  <2>. QED  BY <2>1, CounterUpdated DEF LedgerType
<1>. QED  BY <1>1, <1>2 DEF ReleaseTx, LedgerType, actVars

LEMMA PersistType ==
    ASSUME LedgerType, NEW t \in Tokens, NEW b \in Batches, NEW n \in Numbers \cup {NoNumber},
           ~PersistRefused(b, t, n), PersistTx(b, t, n), UNCHANGED batchOf
    PROVE  LedgerType'
<1>1. CASE attempt[t] = "committed"
  BY <1>1, SameType DEF PersistTx
<1>2. CASE attempt[t] # "committed"
  <2>1. reserved[b] # 0
    BY <1>2 DEF PersistRefused
  <2>2. attempt' \in [Tokens -> AttemptState]
    BY <1>2, AttemptUpdated DEF PersistTx, AttemptState
  <2>3. /\ providerId' \in [Tokens -> Numbers \cup {NoNumber}]
        /\ act' \in [Tokens -> {"absent", "open", "protected", "finished"}]
        /\ slot' \in [Tokens -> {"none", "held", "fulfilled", "released"}]
    BY <1>2 DEF PersistTx, LedgerType
  <2>4. control' \in [Tokens -> {"", "delete"}]
    <3>1. control' = [control EXCEPT ![t] = IF Terminal(b) THEN "delete" ELSE ""]
      BY <1>2 DEF PersistTx
    <3>2. control \in [Tokens -> {"", "delete"}]
      BY DEF LedgerType
    <3>. QED  BY <3>1, <3>2
  <2>5. reserved' \in [Batches -> Nat]
    BY <1>2, <2>1, CounterUpdated DEF PersistTx, LedgerType
  <2>6. purchased' \in [Batches -> Nat]
    BY <1>2, CounterUpdated DEF PersistTx, LedgerType
  <2>7. inflight' \in [Batches -> Nat]
    BY <1>2, CounterUpdated DEF PersistTx, LedgerType
  <2>8. /\ status' = status /\ fulfilled' = fulfilled
        /\ proxyFree' = proxyFree /\ cleanup' = cleanup
    BY <1>2 DEF PersistTx
  <2>. QED
    BY <2>2, <2>3, <2>4, <2>5, <2>6, <2>7, <2>8 DEF LedgerType
<1>. QED  BY <1>1, <1>2

LEMMA FreezeType ==
    ASSUME LedgerType, NEW t \in Tokens, NEW b \in Batches, NEW n \in Numbers \cup {NoNumber},
           FreezeTx(b, t, n), UNCHANGED batchOf
    PROVE  LedgerType'
<1>1. CASE attempt[t] = "committed"
  BY <1>1 DEF FreezeTx, LedgerType, attemptVars, actVars
<1>2. CASE attempt[t] # "committed"
  <2>1. attempt' \in [Tokens -> AttemptState]
    <3>1. PICK v \in AttemptState : attempt' = [attempt EXCEPT ![t] = v]
      <4>1. attempt' = [attempt EXCEPT ![t] = "conflicted"]
              \/ attempt' = [attempt EXCEPT ![t] =
                   IF attempt[t] = "conflicted" THEN attempt[t] ELSE "unknown"]
        BY <1>2 DEF FreezeTx
      <4>. QED  BY <4>1 DEF AttemptState
    <3>. QED  BY <3>1, AttemptUpdated
  <2>2. providerId' \in [Tokens -> Numbers \cup {NoNumber}]
    BY <1>2 DEF FreezeTx, LedgerType, EffectiveId
  <2>3. cleanup' \in [Tokens -> {"", "pending", "done"}]
    <3>1. cleanup \in [Tokens -> {"", "pending", "done"}]
      BY DEF LedgerType
    <3>2. \/ cleanup' = cleanup
          \/ cleanup' = [cleanup EXCEPT ![t] = ""]
          \/ cleanup' = [cleanup EXCEPT ![t] = "pending"]
      <4>1. CASE FreezeOwned(t, n)
        BY <1>2, <4>1 DEF FreezeTx
      <4>2. CASE ~FreezeOwned(t, n)
        <5>1. cleanup' = [cleanup EXCEPT ![t] =
                IF attempt[t] # "conflicted" /\ cleanup[t] = ""
                   /\ EffectiveId(t, n) # NoNumber
                THEN "pending" ELSE cleanup[t]]
          BY <1>2, <4>2 DEF FreezeTx
        <5>. QED  BY <3>1, <5>1
      <4>. QED  BY <4>1, <4>2
    <3>. QED  BY <3>1, <3>2
  <2>4. status' \in [Batches -> BatchStatus]
    <3>1. status \in [Batches -> BatchStatus]
      BY DEF LedgerType
    <3>2. status' = [status EXCEPT ![b] = IF status[b] = "running" THEN "failed" ELSE status[b]]
      BY <1>2 DEF FreezeTx, StopBuying
    <3>. QED  BY <3>1, <3>2 DEF BatchStatus
  <2>5. UNCHANGED <<reserved, purchased, fulfilled, inflight, proxyFree, act, slot, control>>
    BY DEF FreezeTx, actVars
  <2>. QED  BY <2>1, <2>2, <2>3, <2>4, <2>5 DEF LedgerType
<1>. QED  BY <1>1, <1>2

LEMMA RecoverType ==
    ASSUME LedgerType, NEW b \in Batches, RecoverTx(b), UNCHANGED batchOf
    PROVE  LedgerType'
<1>1. attempt' \in [Tokens -> AttemptState]
  <2>1. attempt \in [Tokens -> AttemptState]
    BY DEF LedgerType
  <2>2. attempt' = [t \in Tokens |->
          IF t \in Attempts(b) /\ attempt[t] = "sent" THEN "unknown" ELSE attempt[t]]
    BY DEF RecoverTx
  <2>. QED  BY <2>1, <2>2 DEF AttemptState
<1>. QED  BY <1>1 DEF RecoverTx, LedgerType, batchVars, actVars

-----------------------------------------------------------------------------
(* Control flow of the purchaser.                                           *)

\* Instance i goes to place L with token T.
Moves(i, L, T) == pc' = [pc EXCEPT ![i] = L] /\ tok' = [tok EXCEPT ![i] = T]

TokenAt(i, L) == IF L = "idle" THEN NoToken ELSE tok[i]

LEMMA GotoMoves ==
    ASSUME ProcessType, NEW i \in Instances, NEW L \in Place, Goto(i, L), faults' \in Nat,
           UNCHANGED crashes
    PROVE  Moves(i, L, TokenAt(i, L)) /\ ProcessType'
<1>1. Moves(i, L, TokenAt(i, L))
  BY DEF Goto, Moves, TokenAt, ProcessType
<1>2. pc' \in [Instances -> Place] /\ tok' \in [Instances -> Tokens \cup {NoToken}]
  BY DEF Goto, ProcessType
<1>3. tries' \in [Instances -> Nat]
  BY DEF Goto, ProcessType
<1>. QED  BY <1>1, <1>2, <1>3 DEF Goto, ProcessType

LEMMA TryAgainMoves ==
    ASSUME ProcessType, NEW i \in Instances, NEW L \in Place, TryAgain(i, L), UNCHANGED crashes
    PROVE  /\ Moves(i, L, TokenAt(i, L)) \/ Moves(i, pc[i], tok[i])
           /\ ProcessType'
<1>1. faults' \in Nat
  BY DEF TryAgain, ProcessType
<1>2. CASE tries[i] + 1 < MaxTries
  <2>1. pc' = pc /\ tok' = tok /\ todo' = todo /\ tries' = [tries EXCEPT ![i] = tries[i] + 1]
    BY <1>2 DEF TryAgain
  <2>2. Moves(i, pc[i], tok[i])
    BY <2>1 DEF Moves, ProcessType
  <2>3. ProcessType'
    BY <1>1, <2>1 DEF ProcessType
  <2>. QED  BY <2>2, <2>3
<1>3. CASE ~(tries[i] + 1 < MaxTries)
  BY <1>1, <1>3, GotoMoves DEF TryAgain
<1>. QED  BY <1>2, <1>3

LEMMA FailMoves ==
    ASSUME ProcessType, NEW i \in Instances, NEW L \in Place, Fail(i, L), UNCHANGED crashes
    PROVE  Moves(i, L, TokenAt(i, L)) /\ ProcessType'
<1>1. faults' \in Nat
  BY DEF Fail, ProcessType
<1>. QED  BY <1>1, GotoMoves DEF Fail

\* What a purchaser at place L with token T has to know.
Knows(L, T) ==
    /\ L \notin {"down", "recover", "idle"} => T \in Tokens /\ batchOf[T] \in Batches
    /\ L \in {"down", "recover", "idle"} => T = NoToken
    /\ L \in {"reserve", "mark", "request", "release_unsent"} => order[T] = "none"
    /\ L \in {"request", "await"} => attempt[T] \in {"sent", "unknown"}
    /\ L = "release_refused" => order[T] = "refused"

\* Purchasers stay consistent when one moves to a place it knows enough for and
\* the others lose nothing they know.
LEMMA MoveConsistent ==
    ASSUME ProcessType, PurchaserConsistent, NEW i \in Instances, NEW L, NEW T,
           Moves(i, L, T), Knows(L, T)',
           T = NoToken \/ \A j \in Instances \ {i} : tok[j] # T,
           \A j \in Instances \ {i} : Knows(pc[j], tok[j]) => Knows(pc[j], tok[j])'
    PROVE  PurchaserConsistent'
<1>1. pc'[i] = L /\ tok'[i] = T
  BY DEF Moves, ProcessType
<1>2. \A j \in Instances \ {i} : pc'[j] = pc[j] /\ tok'[j] = tok[j]
  BY DEF Moves, ProcessType
<1>3. \A j \in Instances : Knows(pc[j], tok[j])
  BY DEF PurchaserConsistent, Knows
<1>4. \A j \in Instances \ {i} : Knows(pc[j], tok[j])'
  BY <1>3
<1>5. \A j, k \in Instances : tok'[j] = tok'[k] /\ tok'[j] # NoToken => j = k
  BY <1>1, <1>2 DEF PurchaserConsistent
<1>. QED  BY <1>1, <1>2, <1>4, <1>5 DEF PurchaserConsistent, Knows

\* The same when only the row of i's own token changed.
LEMMA OwnMoveConsistent ==
    ASSUME ProcessType, PurchaserConsistent, NEW i \in Instances, NEW t, tok[i] = t,
           NEW L, NEW T \in {NoToken, t}, Moves(i, L, T), Knows(L, T)',
           \A u \in Tokens \ {t} :
               attempt'[u] = attempt[u] /\ order'[u] = order[u] /\ batchOf'[u] = batchOf[u]
    PROVE  PurchaserConsistent'
<1>1. \A j \in Instances \ {i} : pc'[j] = pc[j] /\ tok'[j] = tok[j]
  BY DEF Moves, ProcessType
<1>2. T = NoToken \/ \A j \in Instances \ {i} : tok[j] # T
  BY DEF PurchaserConsistent
<1>3. ASSUME NEW j \in Instances \ {i}, Knows(pc[j], tok[j])
      PROVE  Knows(pc[j], tok[j])'
  <2>1. CASE pc[j] \in {"down", "recover", "idle"}
    BY <1>1, <1>3, <2>1 DEF Knows
  <2>2. CASE pc[j] \notin {"down", "recover", "idle"}
    <3>1. tok[j] \in Tokens \ {t}
      BY <1>3, <2>2, NullAssumption DEF Knows, PurchaserConsistent
    <3>. QED  BY <1>1, <1>3, <2>2, <3>1 DEF Knows
  <2>. QED  BY <2>1, <2>2
<1>. QED  BY <1>2, <1>3, MoveConsistent

\* Nobody moves, and what changed is nothing a purchaser relies on.
LEMMA StayConsistent ==
    ASSUME PurchaserConsistent, UNCHANGED <<pc, tok>>,
           \A j \in Instances : Knows(pc[j], tok[j]) => Knows(pc[j], tok[j])'
    PROVE  PurchaserConsistent'
BY DEF PurchaserConsistent, Knows

\* One step of a purchaser at place P with token t: it goes on to L, or tries
\* again, or gives up.
LEMMA PurchaserMoves ==
    ASSUME ProcessType, PurchaserConsistent, NEW i \in Instances, NEW t \in Tokens, tok[i] = t,
           NEW P, pc[i] = P, NEW L \in Place,
           \/ Goto(i, L) /\ UNCHANGED faults
           \/ TryAgain(i, L) /\ Knows(P, t)'
           \/ Fail(i, L),
           UNCHANGED crashes,
           L = "idle" \/ Knows(L, t)',
           \A u \in Tokens \ {t} :
               attempt'[u] = attempt[u] /\ order'[u] = order[u] /\ batchOf'[u] = batchOf[u]
    PROVE  ProcessType' /\ PurchaserConsistent'
<1>1. faults \in Nat
  BY DEF ProcessType
<1>2. PICK T \in {NoToken, t} : T = TokenAt(i, L) /\ Knows(L, T)'
  <2>1. CASE L = "idle"
    BY <2>1 DEF TokenAt, Knows
  <2>2. CASE L # "idle"
    BY <2>2 DEF TokenAt
  <2>. QED  BY <2>1, <2>2
<1>3. CASE Goto(i, L) /\ UNCHANGED faults
  <2>1. Moves(i, L, T) /\ ProcessType'
    BY <1>1, <1>2, <1>3, GotoMoves
  <2>. QED  BY <1>2, <2>1, OwnMoveConsistent
<1>4. CASE TryAgain(i, L) /\ Knows(P, t)'
  <2>1. (Moves(i, L, T) \/ Moves(i, P, t)) /\ ProcessType'
    BY <1>2, <1>4, TryAgainMoves
  <2>2. CASE Moves(i, L, T)
    BY <1>2, <2>1, <2>2, OwnMoveConsistent
  <2>3. CASE Moves(i, P, t)
    BY <1>4, <2>1, <2>3, OwnMoveConsistent
  <2>. QED  BY <2>1, <2>2, <2>3
<1>5. CASE Fail(i, L)
  <2>1. Moves(i, L, T) /\ ProcessType'
    BY <1>2, <1>5, FailMoves
  <2>. QED  BY <1>2, <2>1, OwnMoveConsistent
<1>. QED  BY <1>3, <1>4, <1>5

-----------------------------------------------------------------------------
(* The steps of the purchaser.                                              *)

ProviderType ==
    /\ order \in [Tokens -> {"none", "sent", "refused", "allocated", "concluded"}]
    /\ alloc \in [Tokens -> Numbers \cup {NoNumber}]

LEMMA IInvParts ==
    /\ IInv <=> /\ LedgerType /\ ProviderType /\ ProcessType
                /\ LedgerInv /\ OrderConsistent /\ PurchaserConsistent
    /\ IInv' <=> /\ LedgerType' /\ ProviderType' /\ ProcessType'
                 /\ LedgerInv' /\ OrderConsistent' /\ PurchaserConsistent'
BY DEF IInv, TypeOK, ProviderType

\* At a place of the purchase the token is a real one.
LEMMA PurchaserToken ==
    ASSUME IInv, NEW i \in Instances, pc[i] \notin {"down", "recover", "idle"}
    PROVE  tok[i] \in Tokens /\ batchOf[tok[i]] \in Batches /\ Knows(pc[i], tok[i])
BY DEF IInv, PurchaserConsistent, Knows

LEMMA SameOrder ==
    ASSUME OrderConsistent, UNCHANGED <<ledger, order>>
    PROVE  OrderConsistent'
BY DEF OrderConsistent, ledger, attemptVars, actVars

LEMMA SameLedgerInv ==
    ASSUME LedgerInv, UNCHANGED <<ledger, batchOf>>
    PROVE  LedgerInv'
BY SameLedger DEF ledger, batchVars, attemptVars, actVars

LEMMA ReserveStep ==
    ASSUME IInv, NEW i \in Instances, ReservePurchase(i)
    PROVE  IInv'
<1>1. PICK t \in Tokens, b \in Batches : tok[i] = t /\ batchOf[t] = b
  BY PurchaserToken DEF ReservePurchase
<1>2. pc[i] = "reserve" /\ order[t] = "none"
  BY <1>1, PurchaserToken DEF ReservePurchase, Knows
<1>3. UNCHANGED <<batchOf, order, alloc, crashes>>
  BY DEF ReservePurchase, providerVars
<1>4. /\ LedgerType' /\ LedgerInv' /\ OrderConsistent'
      /\ \A u \in Tokens \ {t} : attempt'[u] = attempt[u]
  <2>1. CASE UNCHANGED ledger
    <3>1. attempt' = attempt
      BY <2>1 DEF ledger, attemptVars
    <3>. QED  BY <1>3, <2>1, <3>1, SameType, SameOrder, SameLedgerInv, IInvParts
  <2>2. CASE ~ReserveRefused(b, t) /\ ReserveTx(b, t)
    <3>1. LedgerType' /\ LedgerInv'
      BY <1>1, <1>3, <2>2, ReserveType, ReserveLedger, IInvParts DEF IInv
    <3>2. /\ slot' = slot
          /\ attempt' = attempt \/ attempt' = [attempt EXCEPT ![t] = "reserved"]
      BY <2>2 DEF ReserveTx, actVars
    <3>3. /\ attempt'[t] = attempt[t] \/ attempt'[t] = "reserved"
          /\ \A u \in Tokens \ {t} : attempt'[u] = attempt[u]
      BY <3>2, OneAttempt, IInvParts
    <3>4. OrderConsistent'
      BY <1>2, <1>3, <3>2, <3>3, IInvParts DEF OrderConsistent
    <3>. QED  BY <3>1, <3>3, <3>4
  <2>. QED  BY <1>1, <2>1, <2>2 DEF ReservePurchase
<1>5. PICK L \in {"idle", "mark", "release_unsent"} :
        (Goto(i, L) /\ UNCHANGED faults) \/ TryAgain(i, L) \/ Fail(i, L)
  BY <1>1 DEF ReservePurchase
<1>6. Knows("reserve", t)' /\ (L = "idle" \/ Knows(L, t)')
  BY <1>1, <1>2, <1>3 DEF Knows
<1>7. ProcessType' /\ PurchaserConsistent'
  <2>1. L \in Place /\ ProcessType /\ PurchaserConsistent
    BY IInvParts DEF Place
  <2>. QED  BY <1>1, <1>2, <1>3, <1>4, <1>5, <1>6, <2>1, PurchaserMoves
<1>. QED  BY <1>3, <1>4, <1>7, IInvParts DEF ProviderType

LEMMA MarkSentStep ==
    ASSUME IInv, NEW i \in Instances, MarkPurchaseSent(i)
    PROVE  IInv'
<1>1. PICK t \in Tokens, b \in Batches : tok[i] = t /\ batchOf[t] = b
  BY PurchaserToken DEF MarkPurchaseSent
<1>2. pc[i] = "mark" /\ order[t] = "none"
  BY <1>1, PurchaserToken DEF MarkPurchaseSent, Knows
<1>3. UNCHANGED <<batchOf, order, alloc, crashes>>
  BY DEF MarkPurchaseSent, providerVars
<1>4. PICK L \in {"idle", "request", "release_unsent"} :
        /\ (Goto(i, L) /\ UNCHANGED faults) \/ TryAgain(i, L) \/ Fail(i, L)
        /\ \/ UNCHANGED ledger /\ L # "request"
           \/ ~MarkSentRefused(b, t) /\ MarkSentTx(t)
  BY <1>1 DEF MarkPurchaseSent
<1>5. /\ LedgerType' /\ LedgerInv' /\ OrderConsistent'
      /\ \A u \in Tokens \ {t} : attempt'[u] = attempt[u]
      /\ L = "request" => attempt'[t] = "sent"
  <2>1. CASE UNCHANGED ledger /\ L # "request"
    <3>1. attempt' = attempt
      BY <2>1 DEF ledger, attemptVars
    <3>. QED  BY <1>3, <2>1, <3>1, SameType, SameOrder, SameLedgerInv, IInvParts
  <2>2. CASE ~MarkSentRefused(b, t) /\ MarkSentTx(t)
    <3>1. LedgerType' /\ LedgerInv'
      BY <1>1, <1>3, <2>2, MarkSentType, MarkSentLedger, IInvParts DEF IInv
    <3>2. slot' = slot /\ attempt' = [attempt EXCEPT ![t] = "sent"]
      BY <2>2 DEF MarkSentTx, actVars
    <3>3. attempt'[t] = "sent" /\ \A u \in Tokens \ {t} : attempt'[u] = attempt[u]
      BY <3>2, IInvParts DEF LedgerType
    <3>4. OrderConsistent'
      BY <1>2, <1>3, <3>2, <3>3, IInvParts DEF OrderConsistent
    <3>. QED  BY <3>1, <3>3, <3>4
  <2>. QED  BY <1>4, <2>1, <2>2
<1>6. Knows("mark", t)' /\ (L = "idle" \/ Knows(L, t)')
  BY <1>1, <1>2, <1>3, <1>5 DEF Knows
<1>7. ProcessType' /\ PurchaserConsistent'
  <2>1. L \in Place /\ ProcessType /\ PurchaserConsistent
    BY IInvParts DEF Place
  <2>. QED  BY <1>1, <1>2, <1>3, <1>4, <1>5, <1>6, <2>1, PurchaserMoves
<1>. QED  BY <1>3, <1>5, <1>7, IInvParts DEF ProviderType

LEMMA SendStep ==
    ASSUME IInv, NEW i \in Instances, SendGetNumber(i)
    PROVE  IInv'
<1>1. PICK t \in Tokens : tok[i] = t /\ batchOf[t] \in Batches
  BY PurchaserToken DEF SendGetNumber
<1>2. pc[i] = "request" /\ attempt[t] \in {"sent", "unknown"}
  BY <1>1, PurchaserToken DEF SendGetNumber, Knows
<1>3. UNCHANGED <<ledger, batchOf, alloc, faults, crashes>> /\ Goto(i, "await")
  BY DEF SendGetNumber
<1>4. order' = [order EXCEPT ![t] = "sent"]
  BY <1>1 DEF SendGetNumber
<1>5. /\ ProviderType'
      /\ order'[t] = "sent" /\ \A u \in Tokens \ {t} : order'[u] = order[u]
  BY <1>3, <1>4, IInvParts DEF ProviderType
<1>6. attempt' = attempt /\ slot' = slot
  BY <1>3 DEF ledger, attemptVars, actVars
<1>7. slot[t] = "none"
  BY <1>2, IInvParts DEF LedgerInv, RowsConsistent
<1>8. OrderConsistent'
  BY <1>2, <1>5, <1>6, <1>7, IInvParts DEF OrderConsistent
<1>9. ProcessType' /\ PurchaserConsistent'
  <2>1. Knows("await", t)'
    BY <1>1, <1>2, <1>3, <1>6 DEF Knows
  <2>2. "await" \in Place /\ ProcessType /\ PurchaserConsistent
    BY IInvParts DEF Place
  <2>. QED  BY <1>1, <1>3, <1>5, <1>6, <2>1, <2>2, PurchaserMoves
<1>. QED  BY <1>3, <1>5, <1>8, <1>9, SameType, SameLedgerInv, IInvParts

LEMMA ReceiveStep ==
    ASSUME IInv, NEW i \in Instances,
           ReceiveNumber(i) \/ ReceiveRefusal(i) \/ ReceiveUnknown(i)
    PROVE  IInv'
<1>1. PICK t \in Tokens : tok[i] = t /\ batchOf[t] \in Batches
  BY PurchaserToken DEF ReceiveNumber, ReceiveRefusal, ReceiveUnknown
<1>2. UNCHANGED <<ledger, batchOf, providerVars, faults, crashes>>
  BY DEF ReceiveNumber, ReceiveRefusal, ReceiveUnknown
<1>3. PICK L \in {"persist", "release_refused", "freeze_blind"} :
        Goto(i, L) /\ (L = "release_refused" => order[t] = "refused")
  BY <1>1 DEF ReceiveNumber, ReceiveRefusal, ReceiveUnknown
<1>4. attempt' = attempt /\ order' = order /\ alloc' = alloc
  BY <1>2 DEF ledger, attemptVars, providerVars
<1>5. ProcessType' /\ PurchaserConsistent'
  <2>1. Knows(L, t)'
    BY <1>1, <1>2, <1>3, <1>4 DEF Knows
  <2>2. L \in Place /\ ProcessType /\ PurchaserConsistent
    BY IInvParts DEF Place
  <2>. QED  BY <1>1, <1>2, <1>3, <1>4, <2>1, <2>2, PurchaserMoves
<1>. QED  BY <1>2, <1>4, <1>5, SameType, SameOrder, SameLedgerInv, IInvParts DEF ProviderType

LEMMA PersistStep ==
    ASSUME IInv, NEW i \in Instances, PersistPurchase(i)
    PROVE  IInv'
<1>1. PICK t \in Tokens, b \in Batches : tok[i] = t /\ batchOf[t] = b
  BY PurchaserToken DEF PersistPurchase
<1>2. PICK n \in Numbers \cup {NoNumber} : alloc[t] = n
  BY IInvParts DEF ProviderType
<1>3. pc[i] = "persist" /\ UNCHANGED <<batchOf, order, alloc, crashes>>
  BY DEF PersistPurchase, providerVars
<1>4. PICK L \in {"idle", "freeze"} :
        /\ (Goto(i, L) /\ UNCHANGED faults) \/ TryAgain(i, L) \/ Fail(i, L)
        /\ UNCHANGED ledger \/ (~PersistRefused(b, t, n) /\ PersistTx(b, t, n))
  BY <1>1, <1>2 DEF PersistPurchase
<1>5. /\ LedgerType' /\ LedgerInv' /\ OrderConsistent'
      /\ \A u \in Tokens \ {t} : attempt'[u] = attempt[u]
  <2>1. CASE UNCHANGED ledger
    <3>1. attempt' = attempt
      BY <2>1 DEF ledger, attemptVars
    <3>. QED  BY <1>3, <2>1, <3>1, SameType, SameOrder, SameLedgerInv, IInvParts
  <2>2. CASE attempt[t] = "committed" /\ PersistTx(b, t, n)
    BY <2>1, <2>2 DEF PersistTx
  <2>3. CASE attempt[t] # "committed" /\ ~PersistRefused(b, t, n) /\ PersistTx(b, t, n)
    <3>1. LedgerType' /\ LedgerInv'
      BY <1>1, <1>3, <2>3, PersistType, PersistLedger, IInvParts DEF IInv
    <3>2. /\ slot' = [slot EXCEPT ![t] = "held"]
          /\ attempt' = [attempt EXCEPT ![t] = "committed"]
      BY <2>3 DEF PersistTx
    <3>3. /\ attempt'[t] = "committed" /\ slot'[t] = "held"
          /\ \A u \in Tokens \ {t} : attempt'[u] = attempt[u] /\ slot'[u] = slot[u]
      <4>1. attempt \in [Tokens -> AttemptState] /\ DOMAIN slot = Tokens
        BY IInvParts DEF LedgerType
      <4>. QED  BY <3>2, <4>1
    <3>4. OrderConsistent'
      BY <1>3, <3>3, IInvParts DEF OrderConsistent
    <3>. QED  BY <3>1, <3>3, <3>4
  <2>. QED  BY <1>4, <2>1, <2>2, <2>3
<1>6. Knows("persist", t)' /\ (L = "idle" \/ Knows(L, t)')
  BY <1>1, <1>3 DEF Knows
<1>7. ProcessType' /\ PurchaserConsistent'
  <2>1. L \in Place /\ ProcessType /\ PurchaserConsistent
    BY IInvParts DEF Place
  <2>. QED  BY <1>1, <1>3, <1>4, <1>5, <1>6, <2>1, PurchaserMoves
<1>. QED  BY <1>3, <1>5, <1>7, IInvParts DEF ProviderType

LEMMA FreezeStep ==
    ASSUME IInv, NEW i \in Instances, FreezePurchase(i)
    PROVE  IInv'
<1>1. PICK t \in Tokens, b \in Batches : tok[i] = t /\ batchOf[t] = b
  BY PurchaserToken DEF FreezePurchase
<1>2. PICK n \in Numbers \cup {NoNumber} : n = IF pc[i] = "freeze" THEN alloc[t] ELSE NoNumber
  BY IInvParts DEF ProviderType
<1>3. pc[i] \in {"freeze", "freeze_blind"} /\ UNCHANGED <<batchOf, order, alloc, crashes>>
  BY DEF FreezePurchase, providerVars
<1>4. /\ (Goto(i, "idle") /\ UNCHANGED faults) \/ TryAgain(i, "idle") \/ Fail(i, "idle")
      /\ UNCHANGED ledger \/ (~FreezeRefused(t, n) /\ FreezeTx(b, t, n))
  BY <1>1, <1>2 DEF FreezePurchase
<1>5. /\ LedgerType' /\ LedgerInv' /\ OrderConsistent'
      /\ \A u \in Tokens \ {t} : attempt'[u] = attempt[u]
  <2>1. CASE UNCHANGED ledger
    <3>1. attempt' = attempt
      BY <2>1 DEF ledger, attemptVars
    <3>. QED  BY <1>3, <2>1, <3>1, SameType, SameOrder, SameLedgerInv, IInvParts
  <2>2. CASE ~FreezeRefused(t, n) /\ FreezeTx(b, t, n)
    <3>1. LedgerType' /\ LedgerInv'
      BY <1>1, <1>3, <2>2, FreezeType, FreezeLedger, IInvParts DEF IInv
    <3>2. slot' = slot
      BY <2>2 DEF FreezeTx, actVars
    <3>3. /\ attempt'[t] = attempt[t] \/ attempt'[t] \in {"unknown", "conflicted"}
          /\ \A u \in Tokens \ {t} : attempt'[u] = attempt[u]
      BY <2>2, FreezeAttempt DEF IInv
    <3>4. OrderConsistent'
      BY <1>3, <3>2, <3>3, IInvParts DEF OrderConsistent
    <3>. QED  BY <3>1, <3>3, <3>4
  <2>. QED  BY <1>4, <2>1, <2>2
<1>6. ProcessType' /\ PurchaserConsistent'
  <2>1. "idle" \in Place /\ ProcessType /\ PurchaserConsistent
    BY IInvParts DEF Place
  <2>2. PICK P \in {"freeze", "freeze_blind"} : pc[i] = P
    BY <1>3
  <2>3. Knows(P, t)'
    BY <1>1, <1>3 DEF Knows
  <2>. QED  BY <1>1, <1>3, <1>4, <1>5, <2>1, <2>2, <2>3, PurchaserMoves
<1>. QED  BY <1>3, <1>5, <1>6, IInvParts DEF ProviderType

LEMMA ReleaseStep ==
    ASSUME IInv, NEW i \in Instances, ReleasePurchase(i)
    PROVE  IInv'
<1>1. PICK t \in Tokens, b \in Batches : tok[i] = t /\ batchOf[t] = b
  BY PurchaserToken DEF ReleasePurchase
<1>2. PICK P \in {"release_unsent", "release_refused"} : pc[i] = P
  BY DEF ReleasePurchase
<1>3. order[t] \in {"none", "refused"} /\ Knows(P, t)
  BY <1>1, <1>2, PurchaserToken DEF Knows
<1>4. UNCHANGED <<batchOf, order, alloc, crashes>>
  BY DEF ReleasePurchase, providerVars
<1>5. PICK L \in {"idle", "freeze_blind"} :
        /\ (Goto(i, L) /\ UNCHANGED faults) \/ TryAgain(i, L) \/ Fail(i, L)
        /\ UNCHANGED ledger \/ (~ReleaseRefused(b, t) /\ ReleaseTx(b, t))
  BY <1>1 DEF ReleasePurchase
<1>6. /\ LedgerType' /\ LedgerInv' /\ OrderConsistent'
      /\ \A u \in Tokens \ {t} : attempt'[u] = attempt[u]
  <2>1. CASE UNCHANGED ledger
    <3>1. attempt' = attempt
      BY <2>1 DEF ledger, attemptVars
    <3>. QED  BY <1>4, <2>1, <3>1, SameType, SameOrder, SameLedgerInv, IInvParts
  <2>2. CASE ~ReleaseRefused(b, t) /\ ReleaseTx(b, t)
    <3>1. LedgerType' /\ LedgerInv'
      BY <1>1, <1>4, <2>2, ReleaseType, ReleaseLedger, IInvParts DEF IInv
    <3>2. /\ slot' = slot
          /\ attempt' = attempt \/ attempt' = [attempt EXCEPT ![t] = "released"]
      BY <2>2 DEF ReleaseTx, actVars
    <3>3. /\ attempt'[t] = attempt[t] \/ attempt'[t] = "released"
          /\ \A u \in Tokens \ {t} : attempt'[u] = attempt[u]
      BY <3>2, OneAttempt, IInvParts
    <3>4. OrderConsistent'
      BY <1>3, <1>4, <3>2, <3>3, IInvParts DEF OrderConsistent
    <3>. QED  BY <3>1, <3>3, <3>4
  <2>. QED  BY <1>5, <2>1, <2>2
<1>7. Knows(P, t)' /\ (L = "idle" \/ Knows(L, t)')
  BY <1>1, <1>2, <1>3, <1>4 DEF Knows
<1>8. ProcessType' /\ PurchaserConsistent'
  <2>1. L \in Place /\ ProcessType /\ PurchaserConsistent
    BY IInvParts DEF Place
  <2>. QED  BY <1>1, <1>2, <1>4, <1>5, <1>6, <1>7, <2>1, PurchaserMoves
<1>. QED  BY <1>4, <1>6, <1>8, IInvParts DEF ProviderType

LEMMA PurchaserStep ==
    ASSUME IInv, NEW i \in Instances, Purchaser(i)
    PROVE  IInv'
BY ReserveStep, MarkSentStep, SendStep, ReceiveStep, PersistStep, FreezeStep, ReleaseStep
DEF Purchaser

-----------------------------------------------------------------------------
(* Starting a purchase, crashing, and starting up again.                    *)

LEMMA StartStep ==
    ASSUME IInv, NEW i \in Instances, NEW b \in Batches, NEW t \in Tokens, StartPurchase(i, b, t)
    PROVE  IInv'
<1>1. /\ pc[i] = "idle" /\ batchOf[t] = NoBatch
      /\ batchOf' = [batchOf EXCEPT ![t] = b]
      /\ pc' = [pc EXCEPT ![i] = "reserve"] /\ tok' = [tok EXCEPT ![i] = t]
      /\ UNCHANGED <<ledger, order, alloc, tries, todo, faults, crashes>>
  BY DEF StartPurchase, providerVars
<1>2. LedgerInv'
  BY <1>1, StartLedger DEF IInv
<1>3. batchOf \in [Tokens -> Batches \cup {NoBatch}]
  BY IInvParts DEF LedgerType
<1>4. batchOf'[t] = b /\ \A u \in Tokens \ {t} : batchOf'[u] = batchOf[u]
  BY <1>1, <1>3
<1>5. LedgerType'
  <2>1. batchOf' \in [Tokens -> Batches \cup {NoBatch}]
    BY <1>1, <1>3
  <2>. QED  BY <1>1, <2>1, IInvParts DEF LedgerType, ledger, batchVars, attemptVars, actVars
<1>6. attempt' = attempt /\ attempt[t] = "absent" /\ order[t] = "none"
  BY <1>1, IInvParts DEF ledger, attemptVars, LedgerInv, RowsConsistent, OrderConsistent
<1>7. ProcessType'
  <2>1. /\ pc' \in [Instances -> Place] /\ tok' \in [Instances -> Tokens \cup {NoToken}]
    BY <1>1, IInvParts DEF ProcessType, Place
  <2>. QED  BY <1>1, <2>1, IInvParts DEF ProcessType
<1>8. \A j \in Instances : tok[j] # t
  <2>1. \A j \in Instances : tok[j] # NoToken => batchOf[tok[j]] \in Batches
    BY IInvParts DEF PurchaserConsistent
  <2>. QED  BY <1>1, <2>1, NullAssumption
<1>9. PurchaserConsistent'
  <2>1. Moves(i, "reserve", t)
    BY <1>1 DEF Moves
  <2>2. Knows("reserve", t)'
    BY <1>1, <1>4, <1>6 DEF Knows
  <2>3. ASSUME NEW j \in Instances \ {i}, Knows(pc[j], tok[j])
        PROVE  Knows(pc[j], tok[j])'
    <3>1. pc'[j] = pc[j] /\ tok'[j] = tok[j] /\ tok[j] # t
      BY <1>1, <1>8, IInvParts DEF ProcessType
    <3>2. tok[j] \in Tokens => batchOf'[tok[j]] = batchOf[tok[j]]
      BY <1>4, <3>1
    <3>. QED  BY <1>1, <1>6, <2>3, <3>1, <3>2 DEF Knows
  <2>. QED  BY <1>8, <2>1, <2>2, <2>3, MoveConsistent, IInvParts
<1>. QED  BY <1>1, <1>2, <1>5, <1>7, <1>9, SameOrder, IInvParts DEF ProviderType

LEMMA CrashStep ==
    ASSUME IInv, NEW i \in Instances, Crash(i)
    PROVE  IInv'
<1>1. /\ pc' = [pc EXCEPT ![i] = "down"] /\ tok' = [tok EXCEPT ![i] = NoToken]
      /\ tries' = [tries EXCEPT ![i] = 0] /\ todo' = [todo EXCEPT ![i] = {}]
      /\ crashes' = crashes + 1
      /\ UNCHANGED <<ledger, batchOf, order, alloc, faults>>
  BY DEF Crash, providerVars
<1>2. ProcessType'
  <2>1. pc' \in [Instances -> Place] /\ tok' \in [Instances -> Tokens \cup {NoToken}]
    BY <1>1, IInvParts DEF ProcessType, Place
  <2>2. tries' \in [Instances -> Nat] /\ todo' \in [Instances -> SUBSET Batches]
    BY <1>1, IInvParts DEF ProcessType
  <2>3. crashes' \in Nat
    BY <1>1, IInvParts DEF ProcessType
  <2>. QED  BY <1>1, <2>1, <2>2, <2>3, IInvParts DEF ProcessType
<1>3. PurchaserConsistent'
  <2>1. Moves(i, "down", NoToken)
    BY <1>1 DEF Moves
  <2>2. Knows("down", NoToken)'
    BY DEF Knows
  <2>3. PICK t : t = tok[i]
    OBVIOUS
  <2>4. \A u \in Tokens \ {t} :
          attempt'[u] = attempt[u] /\ order'[u] = order[u] /\ batchOf'[u] = batchOf[u]
    BY <1>1 DEF ledger, attemptVars
  <2>. QED  BY <2>1, <2>2, <2>3, <2>4, OwnMoveConsistent, IInvParts
<1>. QED  BY <1>1, <1>2, <1>3, SameType, SameOrder, SameLedgerInv, IInvParts DEF ProviderType

LEMMA RestartStep ==
    ASSUME IInv, NEW i \in Instances, Restart(i)
    PROVE  IInv'
<1>1. /\ pc[i] = "down" /\ tok[i] = NoToken
      /\ pc' = [pc EXCEPT ![i] = "recover"] /\ tok' = tok
      /\ todo' = [todo EXCEPT ![i] = {b \in Batches : Active(b)}]
      /\ UNCHANGED <<ledger, batchOf, order, alloc, tries, faults, crashes>>
  BY IInvParts DEF Restart, providerVars, PurchaserConsistent
<1>2. ProcessType'
  <2>1. pc' \in [Instances -> Place]
    BY <1>1, IInvParts DEF ProcessType, Place
  <2>2. todo' \in [Instances -> SUBSET Batches]
    <3>1. todo \in [Instances -> SUBSET Batches] /\ {b \in Batches : Active(b)} \in SUBSET Batches
      BY IInvParts DEF ProcessType
    <3>. QED  BY <1>1, <3>1
  <2>. QED  BY <1>1, <2>1, <2>2, IInvParts DEF ProcessType
<1>3. PurchaserConsistent'
  <2>1. Moves(i, "recover", NoToken)
    BY <1>1, IInvParts DEF Moves, ProcessType
  <2>2. Knows("recover", NoToken)'
    BY DEF Knows
  <2>3. \A u \in Tokens \ {NoToken} :
          attempt'[u] = attempt[u] /\ order'[u] = order[u] /\ batchOf'[u] = batchOf[u]
    BY <1>1 DEF ledger, attemptVars
  <2>. QED  BY <1>1, <2>1, <2>2, <2>3, OwnMoveConsistent, IInvParts
<1>. QED  BY <1>1, <1>2, <1>3, SameType, SameOrder, SameLedgerInv, IInvParts DEF ProviderType

LEMMA StartSchedulerStep ==
    ASSUME IInv, NEW i \in Instances, StartScheduler(i)
    PROVE  IInv'
<1>1. /\ pc[i] = "recover" /\ tok[i] = NoToken /\ Goto(i, "idle")
      /\ UNCHANGED <<ledger, batchOf, order, alloc, faults, crashes>>
  BY IInvParts DEF StartScheduler, providerVars, PurchaserConsistent
<1>2. Moves(i, "idle", NoToken) /\ ProcessType'
  <2>1. ProcessType /\ "idle" \in Place /\ faults' \in Nat
    BY <1>1, IInvParts DEF Place, ProcessType
  <2>. QED  BY <1>1, <2>1, GotoMoves DEF TokenAt
<1>3. PurchaserConsistent'
  <2>1. Knows("idle", NoToken)'
    BY DEF Knows
  <2>2. \A u \in Tokens \ {NoToken} :
          attempt'[u] = attempt[u] /\ order'[u] = order[u] /\ batchOf'[u] = batchOf[u]
    BY <1>1 DEF ledger, attemptVars
  <2>. QED  BY <1>1, <1>2, <2>1, <2>2, OwnMoveConsistent, IInvParts
<1>. QED  BY <1>1, <1>2, <1>3, SameType, SameOrder, SameLedgerInv, IInvParts DEF ProviderType

\* Recovery is the one step that changes another purchaser's attempt, from
\* sent to unknown: a purchaser at the provider expects either.
LEMMA RecoverStep ==
    ASSUME IInv, NEW i \in Instances, NEW b \in Batches, RecoverBatchPurchase(i, b)
    PROVE  IInv'
<1>1. /\ pc[i] = "recover" /\ tok[i] = NoToken
      /\ UNCHANGED <<batchOf, order, alloc, crashes>>
  BY IInvParts DEF RecoverBatchPurchase, providerVars, PurchaserConsistent
<1>2. /\ LedgerType' /\ LedgerInv' /\ slot' = slot
      /\ \A u \in Tokens : attempt'[u] = attempt[u]
                             \/ (attempt[u] = "sent" /\ attempt'[u] = "unknown")
  <2>1. CASE UNCHANGED ledger
    BY <1>1, <2>1, SameType, SameLedgerInv, IInvParts DEF ledger, attemptVars, actVars
  <2>2. CASE RecoverTx(b)
    <3>1. LedgerType' /\ LedgerInv'
      BY <1>1, <2>2, RecoverType, RecoverLedger, IInvParts DEF IInv
    <3>. QED  BY <2>2, <3>1 DEF RecoverTx, actVars
  <2>. QED  BY <2>1, <2>2 DEF RecoverBatchPurchase
<1>3. OrderConsistent'
  BY <1>1, <1>2, IInvParts DEF OrderConsistent
<1>4. ProcessType' /\ (Moves(i, "down", NoToken) \/ Moves(i, "recover", NoToken))
  <2>0. ProcessType /\ "down" \in Place
    BY IInvParts DEF Place
  <2>1. CASE TryAgain(i, "down")
    BY <1>1, <2>0, <2>1, TryAgainMoves DEF TokenAt
  <2>2. CASE Fail(i, "down")
    BY <1>1, <2>0, <2>2, FailMoves DEF TokenAt
  <2>3. CASE /\ todo' = [todo EXCEPT ![i] = todo[i] \ {b}]
             /\ tries' = [tries EXCEPT ![i] = 0]
             /\ UNCHANGED <<pc, tok, faults>>
    <3>1. todo' \in [Instances -> SUBSET Batches] /\ tries' \in [Instances -> Nat]
      BY <2>0, <2>3 DEF ProcessType
    <3>2. ProcessType'
      BY <1>1, <2>0, <2>3, <3>1 DEF ProcessType
    <3>3. Moves(i, "recover", NoToken)
      BY <1>1, <2>0, <2>3 DEF Moves, ProcessType
    <3>. QED  BY <3>2, <3>3
  <2>. QED  BY <2>1, <2>2, <2>3 DEF RecoverBatchPurchase
<1>5. PurchaserConsistent'
  <2>1. PICK L \in {"down", "recover"} : Moves(i, L, NoToken)
    BY <1>4
  <2>2. Knows(L, NoToken)'
    BY DEF Knows
  <2>3. ASSUME NEW j \in Instances \ {i}, Knows(pc[j], tok[j])
        PROVE  Knows(pc[j], tok[j])'
    <3>1. pc'[j] = pc[j] /\ tok'[j] = tok[j]
      BY <2>1, IInvParts DEF Moves, ProcessType
    <3>. QED  BY <1>1, <1>2, <2>3, <3>1 DEF Knows
  <2>. QED  BY <2>1, <2>2, <2>3, MoveConsistent, IInvParts
<1>. QED  BY <1>1, <1>2, <1>3, <1>4, <1>5, IInvParts DEF ProviderType

-----------------------------------------------------------------------------
(* The steps that leave every purchaser where it is.                        *)

\* An order moves on from sent or allocated; nothing that is unordered,
\* refused or concluded is touched.
LEMMA ProviderStep ==
    ASSUME IInv, UNCHANGED <<ledger, batchOf, procVars, faults, crashes>>, ProviderType',
           \A u \in Tokens : order'[u] = order[u] \/
               (order[u] \in {"sent", "allocated"} /\ order'[u] \in {"refused", "allocated", "concluded"})
    PROVE  IInv'
<1>1. attempt' = attempt /\ slot' = slot
  BY DEF ledger, attemptVars, actVars
<1>2. OrderConsistent'
  BY <1>1, IInvParts DEF OrderConsistent
<1>3. PurchaserConsistent'
  <2>1. UNCHANGED <<pc, tok>>
    BY DEF procVars
  <2>2. ASSUME NEW j \in Instances, Knows(pc[j], tok[j])
        PROVE  Knows(pc[j], tok[j])'
    BY <1>1, <2>1, <2>2 DEF Knows
  <2>. QED  BY <2>1, <2>2, StayConsistent, IInvParts
<1>4. ProcessType'
  BY IInvParts DEF ProcessType, procVars
<1>. QED  BY <1>2, <1>3, <1>4, SameType, SameLedgerInv, IInvParts

LEMMA ConcludedOrders ==
    ASSUME ProviderType, NEW n, Concluded(n), UNCHANGED alloc
    PROVE  /\ ProviderType'
           /\ \A u \in Tokens : order'[u] = order[u] \/
                  (order[u] \in {"sent", "allocated"} /\ order'[u] \in {"refused", "allocated", "concluded"})
BY DEF ProviderType, Concluded

LEMMA ProviderSteps ==
    ASSUME IInv, NEW t \in Tokens,
           \/ ProviderRefuse(t) \/ ConcludeNumber(t) \/ CancelUnknownNumber(t)
           \/ \E n \in Numbers : ProviderAllocate(t, n)
    PROVE  IInv'
<1>0. ProviderType
  BY IInvParts
<1>1. CASE ProviderRefuse(t)
  <2>1. /\ order[t] = "sent" /\ order' = [order EXCEPT ![t] = "refused"]
        /\ UNCHANGED <<ledger, batchOf, alloc, procVars, faults, crashes>>
    BY <1>1 DEF ProviderRefuse
  <2>2. ProviderType' /\ order'[t] = "refused" /\ \A u \in Tokens \ {t} : order'[u] = order[u]
    BY <1>0, <2>1 DEF ProviderType
  <2>. QED  BY <2>1, <2>2, ProviderStep
<1>2. CASE ConcludeNumber(t)
  BY <1>0, <1>2, ConcludedOrders, ProviderStep DEF ConcludeNumber
<1>3. CASE CancelUnknownNumber(t)
  BY <1>0, <1>3, ConcludedOrders, ProviderStep DEF CancelUnknownNumber
<1>4. CASE \E n \in Numbers : ProviderAllocate(t, n)
  <2>1. PICK n \in Numbers :
          /\ order[t] = "sent" /\ order' = [order EXCEPT ![t] = "allocated"]
          /\ alloc' = [alloc EXCEPT ![t] = n]
          /\ UNCHANGED <<ledger, batchOf, procVars, faults, crashes>>
    BY <1>4 DEF ProviderAllocate
  <2>2. ProviderType' /\ order'[t] = "allocated" /\ \A u \in Tokens \ {t} : order'[u] = order[u]
    BY <1>0, <2>1 DEF ProviderType
  <2>. QED  BY <2>1, <2>2, ProviderStep
<1>. QED  BY <1>1, <1>2, <1>3, <1>4

LEMMA LedgerStep ==
    ASSUME IInv, LedgerType', LedgerInv', OrderConsistent',
           UNCHANGED <<batchOf, providerVars, procVars, faults, crashes>>,
           \A u \in Tokens : attempt'[u] = attempt[u] \/ attempt[u] = "reserved"
    PROVE  IInv'
<1>1. PurchaserConsistent'
  <2>1. UNCHANGED <<pc, tok, order, batchOf>>
    BY DEF procVars, providerVars
  <2>2. ASSUME NEW j \in Instances, Knows(pc[j], tok[j])
        PROVE  Knows(pc[j], tok[j])'
    BY <2>1, <2>2 DEF Knows
  <2>. QED  BY <2>1, <2>2, StayConsistent, IInvParts
<1>2. ProcessType' /\ ProviderType'
  BY IInvParts DEF ProcessType, procVars, ProviderType, providerVars
<1>. QED  BY <1>1, <1>2, IInvParts

\* Steps on columns that no counter and no order depends on.
LEMMA AsideStep ==
    ASSUME IInv, LedgerType',
           UNCHANGED <<reserved, purchased, fulfilled, inflight, attempt, slot, batchOf,
                       providerVars, procVars, faults, crashes>>,
           \/ act' = act
           \/ \E t \in Tokens : act[t] = "open" /\ act' = [act EXCEPT ![t] = "protected"]
    PROVE  IInv'
<1>1. LedgerInv'
  <2>1. CASE act' = act
    BY <2>1, SameLedger, IInvParts
  <2>2. CASE \E t \in Tokens : act[t] = "open" /\ act' = [act EXCEPT ![t] = "protected"]
    <3>1. PICK t \in Tokens : act[t] = "open" /\ act' = [act EXCEPT ![t] = "protected"]
      BY <2>2
    <3>2. DOMAIN act = Tokens
      BY IInvParts DEF LedgerType
    <3>3. \A u \in Tokens :
            /\ act'[u] # "absent" <=> act[u] # "absent"
            /\ act[u] \in {"open", "protected"} => act'[u] \in {"open", "protected"}
      BY <3>1, <3>2
    <3>4. RowsConsistent'
      BY <3>3, IInvParts DEF LedgerInv, RowsConsistent
    <3>5. ASSUME NEW c \in Batches
          PROVE  BatchLedger(c)'
      <4>1. Unresolved(c)' = Unresolved(c)
        BY UnresolvedSame
      <4>2. Working(c)' = Working(c) /\ Fulfilled(c)' = Fulfilled(c)
        BY SlotsSame
      <4>3. Stored(c)' = Stored(c)
        BY <3>3, StoredSame
      <4>. QED  BY <4>1, <4>2, <4>3, BatchSame, IInvParts
    <3>. QED  BY <3>4, <3>5, LedgerByBatch
  <2>. QED  BY <2>1, <2>2
<1>2. OrderConsistent'
  BY IInvParts DEF OrderConsistent, providerVars
<1>. QED  BY <1>1, <1>2, LedgerStep

LEMMA AsideSteps ==
    ASSUME IInv,
           \/ \E b \in Batches : CreateBatch(b) \/ FailExhaustedProxies(b)
           \/ \E t \in Tokens :
                ClaimProxy(t) \/ ClassifyActivation(t) \/ CompletePurchaseCleanup(t)
    PROVE  IInv'
<1>0. LedgerType
  BY IInvParts
<1>1. CASE \E b \in Batches : CreateBatch(b) \/ FailExhaustedProxies(b)
  <2>1. PICK b \in Batches : CreateBatch(b) \/ FailExhaustedProxies(b)
    BY <1>1
  <2>2. PICK s \in BatchStatus : status' = [status EXCEPT ![b] = s]
    BY <2>1 DEF CreateBatch, FailExhaustedProxies, BatchStatus
  <2>3. UNCHANGED <<reserved, purchased, fulfilled, inflight, proxyFree, attemptVars,
                    actVars, batchOf, providerVars, procVars, faults, crashes>>
    BY <2>1 DEF CreateBatch, FailExhaustedProxies
  <2>4. status' \in [Batches -> BatchStatus]
    BY <1>0, <2>2 DEF LedgerType
  <2>5. LedgerType'
    BY <1>0, <2>3, <2>4 DEF LedgerType, attemptVars, actVars
  <2>. QED  BY <2>3, <2>5, AsideStep DEF attemptVars, actVars
<1>2. CASE \E t \in Tokens : ClaimProxy(t)
  <2>1. PICK t \in Tokens : ClaimProxy(t)
    BY <1>2
  <2>2. PICK b \in Batches : batchOf[t] = b
    BY <2>1, ActivationBatch DEF ClaimProxy, IInv
  <2>3. PICK k \in 0 .. proxyFree[b] - 1 : proxyFree' = [proxyFree EXCEPT ![b] = k]
    BY <2>1, <2>2 DEF ClaimProxy
  <2>4. UNCHANGED <<status, reserved, purchased, fulfilled, inflight, attemptVars,
                    actVars, batchOf, providerVars, procVars, faults, crashes>>
    BY <2>1 DEF ClaimProxy
  <2>5. proxyFree' \in [Batches -> Nat]
    <3>1. proxyFree \in [Batches -> Nat]
      BY <1>0 DEF LedgerType
    <3>2. k \in Nat
      BY <3>1
    <3>. QED  BY <2>3, <3>1, <3>2
  <2>6. LedgerType'
    BY <1>0, <2>4, <2>5 DEF LedgerType, attemptVars, actVars
  <2>. QED  BY <2>4, <2>6, AsideStep DEF attemptVars, actVars
<1>3. CASE \E t \in Tokens : ClassifyActivation(t)
  <2>1. PICK t \in Tokens : ClassifyActivation(t)
    BY <1>3
  <2>2. /\ act[t] = "open" /\ act' = [act EXCEPT ![t] = "protected"]
        /\ UNCHANGED <<batchVars, attemptVars, slot, control, batchOf, providerVars,
                       procVars, faults, crashes>>
    BY <2>1 DEF ClassifyActivation
  <2>3. act' \in [Tokens -> {"absent", "open", "protected", "finished"}]
    BY <1>0, <2>2 DEF LedgerType
  <2>4. LedgerType'
    BY <1>0, <2>2, <2>3 DEF LedgerType, batchVars, attemptVars
  <2>. QED  BY <2>2, <2>4, AsideStep DEF batchVars, attemptVars
<1>4. CASE \E t \in Tokens : CompletePurchaseCleanup(t)
  <2>1. PICK t \in Tokens : CompletePurchaseCleanup(t)
    BY <1>4
  <2>2. /\ cleanup' = [cleanup EXCEPT ![t] = "done"]
        /\ UNCHANGED <<batchVars, attempt, providerId, actVars, batchOf, providerVars,
                       procVars, faults, crashes>>
    BY <2>1 DEF CompletePurchaseCleanup
  <2>3. cleanup' \in [Tokens -> {"", "pending", "done"}]
    BY <1>0, <2>2 DEF LedgerType
  <2>4. LedgerType'
    BY <1>0, <2>2, <2>3 DEF LedgerType, batchVars, actVars
  <2>. QED  BY <2>2, <2>4, AsideStep DEF batchVars, actVars
<1>. QED  BY <1>1, <1>2, <1>3, <1>4

LEMMA StopStep ==
    ASSUME IInv, NEW i \in Instances, NEW b \in Batches, StopBatch(i, b)
    PROVE  IInv'
<1>0. LedgerType
  BY IInvParts
<1> DEFINE dropped == {t \in Attempts(b) : attempt[t] = "reserved"}
<1>1. /\ attempt' = [t \in Tokens |-> IF t \in dropped THEN "released" ELSE attempt[t]]
      /\ reserved' = [reserved EXCEPT ![b] =
           IF dropped # {} /\ reserved[b] > 0 THEN reserved[b] - 1 ELSE reserved[b]]
      /\ status' = [status EXCEPT ![b] = IF status[b] = "running" THEN "cancelled" ELSE status[b]]
      /\ control' = [t \in Tokens |->
           IF t \in Attempts(b) /\ act[t] = "open" THEN "delete" ELSE control[t]]
      /\ UNCHANGED <<purchased, fulfilled, inflight, proxyFree, providerId, cleanup,
                     act, slot, batchOf, providerVars, procVars, faults, crashes>>
  BY DEF StopBatch
<1>2. LedgerInv'
  BY StopLedger DEF IInv
<1>3. LedgerType'
  <2>1. attempt' \in [Tokens -> AttemptState]
    <3>1. attempt \in [Tokens -> AttemptState]
      BY <1>0 DEF LedgerType
    <3>. QED  BY <1>1, <3>1 DEF AttemptState
  <2>2. reserved' \in [Batches -> Nat]
    <3>1. reserved \in [Batches -> Nat]
      BY <1>0 DEF LedgerType
    <3>2. \/ reserved' = [reserved EXCEPT ![b] = reserved[b]]
          \/ reserved[b] # 0 /\ reserved' = [reserved EXCEPT ![b] = reserved[b] - 1]
      <4>1. reserved[b] \in Nat
        BY <3>1
      <4>2. PICK r : /\ r = IF dropped # {} /\ reserved[b] > 0 THEN reserved[b] - 1 ELSE reserved[b]
                     /\ reserved' = [reserved EXCEPT ![b] = r]
        BY <1>1
      <4>3. r = reserved[b] \/ (reserved[b] # 0 /\ r = reserved[b] - 1)
        BY <4>1, <4>2
      <4>. QED  BY <4>2, <4>3
    <3>. QED  BY <3>1, <3>2, CounterUpdated
  <2>3. status' \in [Batches -> BatchStatus]
    <3>1. status \in [Batches -> BatchStatus]
      BY <1>0 DEF LedgerType
    <3>. QED  BY <1>1, <3>1 DEF BatchStatus
  <2>4. control' \in [Tokens -> {"", "delete"}]
    <3>1. control \in [Tokens -> {"", "delete"}]
      BY <1>0 DEF LedgerType
    <3>. QED  BY <1>1, <3>1
  <2>. QED  BY <1>0, <1>1, <2>1, <2>2, <2>3, <2>4 DEF LedgerType
<1>4. \A u \in Tokens : attempt'[u] = attempt[u]
                        \/ (attempt[u] = "reserved" /\ attempt'[u] = "released")
  BY <1>1
<1>5. OrderConsistent'
  BY <1>1, <1>4, IInvParts DEF OrderConsistent, providerVars
<1>. QED  BY <1>1, <1>2, <1>3, <1>4, <1>5, LedgerStep

\* Typing of releaseBatchSlotSQL.
LEMMA SlotType ==
    ASSUME LedgerType, NEW b \in Batches, NEW ok, ReleaseSlot(b, ok)
    PROVE  /\ inflight' \in [Batches -> Nat] /\ fulfilled' \in [Batches -> Nat]
           /\ status' \in [Batches -> BatchStatus]
<1>1. /\ inflight \in [Batches -> Nat] /\ fulfilled \in [Batches -> Nat]
      /\ status \in [Batches -> BatchStatus]
  BY DEF LedgerType
<1>2. inflight' \in [Batches -> Nat]
  <2>1. inflight[b] # 0 /\ inflight' = [inflight EXCEPT ![b] = inflight[b] - 1]
    BY DEF ReleaseSlot
  <2>. QED  BY <1>1, <2>1, CounterUpdated
<1>3. CASE ok
  <2>1. fulfilled' = [fulfilled EXCEPT ![b] = fulfilled[b] + 1]
    BY <1>3 DEF ReleaseSlot
  <2>2. \E s \in BatchStatus : status' = [status EXCEPT ![b] = s]
    <3>1. status' = [status EXCEPT ![b] =
            IF status[b] = "running" /\ fulfilled[b] + 1 >= Quantity[b]
            THEN "completed" ELSE status[b]]
      BY <1>3 DEF ReleaseSlot
    <3>. QED  BY <1>1, <3>1 DEF BatchStatus
  <2>. QED  BY <1>1, <1>2, <2>1, <2>2, CounterUpdated
<1>4. CASE ~ok
  BY <1>1, <1>2, <1>4 DEF ReleaseSlot
<1>. QED  BY <1>3, <1>4

LEMMA FulfilStep ==
    ASSUME IInv, NEW t \in Tokens, MarkActivationFulfilled(t)
    PROVE  IInv'
<1>0. LedgerType
  BY IInvParts
<1>1. PICK b \in Batches : batchOf[t] = b
  BY ActivationBatch DEF MarkActivationFulfilled, IInv
<1>2. /\ slot' = [slot EXCEPT ![t] = "fulfilled"] /\ ReleaseSlot(b, TRUE)
      /\ UNCHANGED <<reserved, purchased, proxyFree, attemptVars, act, control, batchOf,
                     providerVars, procVars, faults, crashes>>
  BY <1>1 DEF MarkActivationFulfilled
<1>3. LedgerInv'
  BY FulfilLedger DEF IInv
<1>4. /\ slot' \in [Tokens -> {"none", "held", "fulfilled", "released"}]
      /\ \A u \in Tokens : slot'[u] = slot[u] \/ slot'[u] = "fulfilled"
  BY <1>0, <1>2 DEF LedgerType
<1>5. LedgerType'
  <2>1. /\ inflight' \in [Batches -> Nat] /\ fulfilled' \in [Batches -> Nat]
        /\ status' \in [Batches -> BatchStatus]
    BY <1>0, <1>2, SlotType
  <2>. QED  BY <1>0, <1>2, <1>4, <2>1 DEF LedgerType, attemptVars
<1>6. OrderConsistent'
  BY <1>2, <1>4, IInvParts DEF OrderConsistent, attemptVars, providerVars
<1>. QED  BY <1>2, <1>3, <1>5, <1>6, LedgerStep DEF attemptVars

LEMMA FinishStep ==
    ASSUME IInv, NEW t \in Tokens, FinishActivation(t)
    PROVE  IInv'
<1>0. LedgerType
  BY IInvParts
<1>1. PICK b \in Batches : batchOf[t] = b
  BY ActivationBatch DEF FinishActivation, IInv
<1>2. /\ order[t] = "concluded"
      /\ act' = [act EXCEPT ![t] = "finished"] /\ control' = [control EXCEPT ![t] = ""]
      /\ UNCHANGED <<reserved, purchased, proxyFree, attemptVars, batchOf,
                     providerVars, procVars, faults, crashes>>
  BY DEF FinishActivation
<1>3. LedgerInv'
  BY FinishLedger DEF IInv
<1>4. /\ inflight' \in [Batches -> Nat] /\ fulfilled' \in [Batches -> Nat]
      /\ status' \in [Batches -> BatchStatus]
      /\ slot' = slot \/ slot' = [slot EXCEPT ![t] = "released"]
  <2>1. CASE slot[t] = "held"
    BY <1>0, <1>1, <2>1, SlotType DEF FinishActivation
  <2>2. CASE slot[t] # "held"
    BY <1>0, <2>2 DEF FinishActivation, LedgerType
  <2>. QED  BY <2>1, <2>2
<1>5. /\ slot' \in [Tokens -> {"none", "held", "fulfilled", "released"}]
      /\ \A u \in Tokens \ {t} : slot'[u] = slot[u]
  <2>1. slot \in [Tokens -> {"none", "held", "fulfilled", "released"}]
    BY <1>0 DEF LedgerType
  <2>. QED  BY <1>4, <2>1
<1>6. LedgerType'
  <2>1. /\ act' \in [Tokens -> {"absent", "open", "protected", "finished"}]
        /\ control' \in [Tokens -> {"", "delete"}]
    BY <1>0, <1>2 DEF LedgerType
  <2>. QED  BY <1>0, <1>2, <1>4, <1>5, <2>1 DEF LedgerType, attemptVars
<1>7. OrderConsistent'
  BY <1>2, <1>5, IInvParts DEF OrderConsistent, attemptVars, providerVars
<1>. QED  BY <1>2, <1>3, <1>6, <1>7, LedgerStep DEF attemptVars

-----------------------------------------------------------------------------
(* The invariant, and what it gives.                                        *)

LEMMA InitInv ==
    ASSUME Init
    PROVE  IInv
<1>1. TypeOK
  BY ProxyAssumption DEF Init, TypeOK, LedgerType, ProcessType, BatchStatus, AttemptState, Place
<1>2. RowsConsistent
  BY DEF Init, RowsConsistent
<1>3. ASSUME NEW c \in Batches
      PROVE  BatchLedger(c)
  <2>1. Attempts(c) = {}
    BY NullAssumption DEF Init, Attempts
  <2>2. Unresolved(c) = {} /\ Working(c) = {} /\ Fulfilled(c) = {} /\ Stored(c) = {}
    BY <2>1 DEF Unresolved, Working, Fulfilled, Stored
  <2>3. 0 <= Quantity[c]
    <3>1. Quantity[c] \in Nat \ {0}
      BY QuantityAssumption
    <3>. QED  BY <3>1
  <2>4. reserved[c] = 0 /\ inflight[c] = 0 /\ fulfilled[c] = 0 /\ purchased[c] = 0
    BY DEF Init
  <2>5. Cardinality({}) = 0
    BY FS_EmptySet
  <2>. QED  BY <2>2, <2>3, <2>4, <2>5 DEF BatchLedger
<1>4. LedgerInv
  BY <1>2, <1>3 DEF LedgerInv, OneUnresolved, CountersMatch, QuotaRespected, BatchLedger
<1>5. OrderConsistent
  BY DEF Init, OrderConsistent
<1>6. PurchaserConsistent
  BY DEF Init, PurchaserConsistent
<1>. QED  BY <1>1, <1>4, <1>5, <1>6 DEF IInv

LEMMA StutterInv ==
    ASSUME IInv, UNCHANGED vars
    PROVE  IInv'
<1>1. /\ UNCHANGED <<ledger, batchOf, providerVars, procVars, faults, crashes>>
      /\ attempt' = attempt
  BY DEF vars, ledger, attemptVars
<1>2. LedgerType' /\ LedgerInv' /\ OrderConsistent'
  BY <1>1, SameType, SameLedgerInv, SameOrder, IInvParts DEF providerVars
<1>. QED  BY <1>1, <1>2, LedgerStep

LEMMA NextInv ==
    ASSUME IInv, [Next]_vars
    PROVE  IInv'
<1>1. CASE \E b \in Batches : CreateBatch(b) \/ FailExhaustedProxies(b)
  BY <1>1, AsideSteps
<1>2. ASSUME NEW i \in Instances,
             \/ Purchaser(i) \/ Startup(i) \/ Crash(i)
             \/ \E b \in Batches : StopBatch(i, b)
             \/ \E b \in Batches, t \in Tokens : StartPurchase(i, b, t)
      PROVE  IInv'
  <2>1. CASE Purchaser(i)
    BY <2>1, PurchaserStep
  <2>2. CASE Startup(i)
    BY <2>2, RestartStep, StartSchedulerStep, RecoverStep DEF Startup
  <2>3. CASE Crash(i)
    BY <2>3, CrashStep
  <2>4. CASE \E b \in Batches : StopBatch(i, b)
    BY <2>4, StopStep
  <2>5. CASE \E b \in Batches, t \in Tokens : StartPurchase(i, b, t)
    BY <2>5, StartStep
  <2>. QED  BY <1>2, <2>1, <2>2, <2>3, <2>4, <2>5
<1>3. ASSUME NEW t \in Tokens,
             \/ ProviderRefuse(t) \/ ConcludeNumber(t)
             \/ \E n \in Numbers : ProviderAllocate(t, n)
             \/ Worker(t)
             \/ CancelUnknownNumber(t) \/ CompletePurchaseCleanup(t)
      PROVE  IInv'
  <2>1. CASE Worker(t)
    BY <2>1, AsideSteps, FulfilStep, FinishStep DEF Worker
  <2>2. CASE CompletePurchaseCleanup(t)
    BY <2>2, AsideSteps
  <2>. QED  BY <1>3, <2>1, <2>2, ProviderSteps
<1>4. CASE UNCHANGED vars
  BY <1>4, StutterInv
<1>. QED  BY <1>1, <1>2, <1>3, <1>4 DEF Next

\* The inductive invariant holds of every instance of the specification.
THEOREM Invariance == Spec => []IInv
<1>1. Init => IInv
  BY InitInv
<1>2. IInv /\ [Next]_vars => IInv'
  BY NextInv
<1>. QED  BY <1>1, <1>2, PTL DEF Spec

\* Every variable keeps its type.
THEOREM TypeCorrect == Spec => []TypeOK
<1>1. IInv => TypeOK
  BY DEF IInv
<1>. QED  BY <1>1, Invariance, PTL

\* The quota guards of reserve, persist and release (CHECK of migration 9)
\* hold whatever the interleaving, the lost receipts and the crashes.
THEOREM QuotaSafe == Spec => []QuotaRespected
<1>1. IInv => QuotaRespected
  BY DEF IInv, LedgerInv
<1>. QED  BY <1>1, Invariance, PTL

\* A batch has at most one purchase with an open outcome, across instances.
THEOREM SinglePurchase == Spec => []OneUnresolved
<1>1. IInv => OneUnresolved
  BY DEF IInv, LedgerInv
<1>. QED  BY <1>1, Invariance, PTL

\* The batch counters always agree with the attempts and activations.
THEOREM CountersAgree == Spec => []CountersMatch
<1>1. IInv => CountersMatch
  BY DEF IInv, LedgerInv
<1>. QED  BY <1>1, Invariance, PTL

\* Quota is never given back for a request the provider may have served.
THEOREM OrdersTracked == Spec => []OrderTracked
<1>1. IInv => OrderTracked
  <2>1. SUFFICES ASSUME IInv, NEW t \in Tokens, order[t] \in {"sent", "allocated"}
                 PROVE  attempt[t] \in {"sent", "unknown", "committed", "conflicted"}
    BY DEF OrderTracked
  <2>2. attempt[t] \in AttemptState
    BY <2>1, IInvParts DEF LedgerType
  <2>3. attempt[t] \notin {"absent", "reserved", "released"}
    BY <2>1 DEF IInv, OrderConsistent
  <2>. QED  BY <2>2, <2>3 DEF AttemptState
<1>. QED  BY <1>1, Invariance, PTL

\* An open order belongs to an unresolved attempt or to a held slot.
LEMMA OpenCounted ==
    ASSUME IInv, NEW b \in Batches
    PROVE  Cardinality(Open(b)) <= reserved[b] + inflight[b]
<1>1. Open(b) \subseteq Unresolved(b) \cup Working(b)
  <2>1. SUFFICES ASSUME NEW t \in Open(b)
                 PROVE  t \in Unresolved(b) \/ t \in Working(b)
    OBVIOUS
  <2>2. t \in Attempts(b) /\ t \in Tokens /\ order[t] \in {"sent", "allocated"} /\ slot[t] # "fulfilled"
    BY DEF Open, Attempts
  <2>3. attempt[t] \in AttemptState /\ slot[t] \in {"none", "held", "fulfilled", "released"}
    BY <2>2, IInvParts DEF LedgerType
  <2>4. attempt[t] \notin {"absent", "reserved", "released"} /\ slot[t] # "released"
    BY <2>2, IInvParts DEF OrderConsistent
  <2>5. attempt[t] = "committed" => slot[t] = "held"
    BY <2>2, <2>3, <2>4, IInvParts DEF LedgerInv, RowsConsistent
  <2>6. CASE attempt[t] = "committed"
    BY <2>2, <2>5, <2>6 DEF Working
  <2>7. CASE attempt[t] # "committed"
    BY <2>2, <2>3, <2>4, <2>7 DEF AttemptState, Unresolved, UnresolvedState
  <2>. QED  BY <2>6, <2>7
<1>2. /\ IsFiniteSet(Unresolved(b)) /\ Cardinality(Unresolved(b)) \in Nat
      /\ IsFiniteSet(Working(b)) /\ Cardinality(Working(b)) \in Nat
  BY CountedFinite
<1>3. /\ reserved[b] = Cardinality(Unresolved(b))
      /\ inflight[b] = Cardinality(Working(b))
  BY IInvParts DEF LedgerInv, CountersMatch
<1>4. /\ IsFiniteSet(Unresolved(b) \cup Working(b))
      /\ Cardinality(Unresolved(b) \cup Working(b))
           = Cardinality(Unresolved(b)) + Cardinality(Working(b))
             - Cardinality(Unresolved(b) \cap Working(b))
  BY <1>2, FS_Union
<1>5. Cardinality(Unresolved(b) \cap Working(b)) \in Nat
  BY <1>2, FS_Intersection, FS_CardinalityType
<1>6. /\ Cardinality(Open(b)) <= Cardinality(Unresolved(b) \cup Working(b))
      /\ Cardinality(Open(b)) \in Nat
  BY <1>1, <1>4, FS_Subset, FS_CardinalityType
<1>. QED  BY <1>2, <1>3, <1>4, <1>5, <1>6

\* No batch ever pays for more numbers than it was created for: a replacement
\* is bought only when the earlier request can no longer become a number.
THEOREM NoOverbuying == Spec => []NeverOverbuys
<1>1. IInv => NeverOverbuys
  <2>1. SUFFICES ASSUME IInv, NEW b \in Batches
                 PROVE  Cardinality(Open(b)) + fulfilled[b] <= Quantity[b]
    BY DEF NeverOverbuys
  <2>2. Cardinality(Open(b)) <= reserved[b] + inflight[b] /\ Cardinality(Open(b)) \in Nat
    <3>1. IsFiniteSet(Open(b))
      BY CountedFinite, FS_Subset DEF Open
    <3>. QED  BY <2>1, <3>1, OpenCounted, FS_CardinalityType
  <2>3. fulfilled[b] + inflight[b] + reserved[b] <= Quantity[b]
    BY <2>1, IInvParts DEF LedgerInv, QuotaRespected
  <2>4. /\ fulfilled[b] \in Nat /\ inflight[b] \in Nat /\ reserved[b] \in Nat
        /\ Quantity[b] \in Nat
    BY <2>1, CounterTypes DEF IInv
  <2>. QED  BY <2>2, <2>3, <2>4
<1>. QED  BY <1>1, Invariance, PTL

-----------------------------------------------------------------------------
(* A batch is completed by its last success only.                           *)

\* What completed batches need to stay full: nothing but the last success may
\* complete a batch or change its successes.
Quiet ==
    /\ fulfilled' = fulfilled
    /\ \A c \in Batches : status'[c] = "completed" => status[c] = "completed"

LEMMA QuietFrame ==
    ASSUME UNCHANGED <<fulfilled, status>>
    PROVE  Quiet
BY DEF Quiet

LEMMA QuietStatus ==
    ASSUME LedgerType, UNCHANGED fulfilled, NEW b \in Batches, NEW s,
           status' = [status EXCEPT ![b] = s], s = status[b] \/ s # "completed"
    PROVE  Quiet
BY DEF Quiet, LedgerType

LEMMA QuietFreeze ==
    ASSUME LedgerType, NEW b \in Batches, NEW t, NEW n, FreezeTx(b, t, n)
    PROVE  Quiet
<1>0. LedgerType
  OBVIOUS
<1>1. UNCHANGED fulfilled
  BY DEF FreezeTx
<1>2. CASE attempt[t] = "committed"
  BY <1>1, <1>2, QuietFrame DEF FreezeTx
<1>3. CASE attempt[t] # "committed"
  <2>1. StopBuying(b)
    BY <1>3 DEF FreezeTx
  <2> DEFINE s == IF status[b] = "running" THEN "failed" ELSE status[b]
  <2>2. status' = [status EXCEPT ![b] = s]
    BY <2>1 DEF StopBuying
  <2>3. s = status[b] \/ s # "completed"
    OBVIOUS
  <2>. QED  BY <1>0, <1>1, <2>2, <2>3, QuietStatus
<1>. QED  BY <1>2, <1>3

LEMMA QuietPurchaser ==
    ASSUME IInv, NEW i \in Instances, Purchaser(i)
    PROVE  Quiet
<1>0. LedgerType
  BY IInvParts
<1>1. CASE ReservePurchase(i)
  BY <1>1, QuietFrame DEF ReservePurchase, ReserveTx, ledger, batchVars
<1>2. CASE MarkPurchaseSent(i)
  BY <1>2, QuietFrame DEF MarkPurchaseSent, MarkSentTx, ledger, batchVars
<1>3. CASE SendGetNumber(i) \/ ReceiveNumber(i) \/ ReceiveRefusal(i) \/ ReceiveUnknown(i)
  BY <1>3, QuietFrame DEF SendGetNumber, ReceiveNumber, ReceiveRefusal, ReceiveUnknown, ledger, batchVars
<1>4. CASE PersistPurchase(i)
  BY <1>4, QuietFrame DEF PersistPurchase, PersistTx, ledger, batchVars
<1>5. CASE FreezePurchase(i)
  <2>1. batchOf[tok[i]] \in Batches
    BY <1>5, IInvParts DEF FreezePurchase, PurchaserConsistent
  <2>2. CASE UNCHANGED ledger
    BY <2>2, QuietFrame DEF ledger, batchVars
  <2>3. CASE \E n : FreezeTx(batchOf[tok[i]], tok[i], n)
    BY <1>0, <2>1, <2>3, QuietFreeze
  <2>. QED  BY <1>5, <2>2, <2>3 DEF FreezePurchase
<1>6. CASE ReleasePurchase(i)
  BY <1>6, QuietFrame DEF ReleasePurchase, ReleaseTx, ledger, batchVars
<1>. QED  BY <1>1, <1>2, <1>3, <1>4, <1>5, <1>6 DEF Purchaser

LEMMA QuietInstance ==
    ASSUME IInv, NEW i \in Instances,
           \/ Startup(i) \/ Crash(i)
           \/ \E b \in Batches, t \in Tokens : StartPurchase(i, b, t)
    PROVE  Quiet
<1>1. CASE Startup(i)
  BY <1>1, QuietFrame DEF Startup, Restart, StartScheduler, RecoverBatchPurchase, RecoverTx, ledger, batchVars
<1>2. CASE Crash(i)
  BY <1>2, QuietFrame DEF Crash, ledger, batchVars
<1>3. CASE \E b \in Batches, t \in Tokens : StartPurchase(i, b, t)
  BY <1>3, QuietFrame DEF StartPurchase, ledger, batchVars
<1>. QED  BY <1>1, <1>2, <1>3

LEMMA QuietBatch ==
    ASSUME IInv, NEW b \in Batches,
           \/ CreateBatch(b) \/ FailExhaustedProxies(b)
           \/ \E i \in Instances : StopBatch(i, b)
    PROVE  Quiet
<1>0. LedgerType
  BY IInvParts
<1>1. CASE CreateBatch(b)
  BY <1>0, <1>1, QuietStatus DEF CreateBatch
<1>2. CASE FailExhaustedProxies(b)
  BY <1>0, <1>2, QuietStatus DEF FailExhaustedProxies
<1>3. CASE \E i \in Instances : StopBatch(i, b)
  <2> DEFINE s == IF status[b] = "running" THEN "cancelled" ELSE status[b]
  <2>1. status' = [status EXCEPT ![b] = s]
    BY <1>3 DEF StopBatch
  <2>2. s = status[b] \/ s # "completed"
    OBVIOUS
  <2>3. UNCHANGED fulfilled
    BY <1>3 DEF StopBatch
  <2>. QED  BY <1>0, <2>1, <2>2, <2>3, QuietStatus
<1>. QED  BY <1>1, <1>2, <1>3

LEMMA QuietToken ==
    ASSUME NEW t \in Tokens,
           \/ ProviderRefuse(t) \/ ConcludeNumber(t)
           \/ \E n \in Numbers : ProviderAllocate(t, n)
           \/ ClaimProxy(t) \/ ClassifyActivation(t) \/ FinishActivation(t)
           \/ CancelUnknownNumber(t) \/ CompletePurchaseCleanup(t)
    PROVE  Quiet
<1>1. CASE ProviderRefuse(t) \/ ConcludeNumber(t) \/ \E n \in Numbers : ProviderAllocate(t, n)
  BY <1>1, QuietFrame DEF ProviderRefuse, ConcludeNumber, ProviderAllocate, ledger, batchVars
<1>2. CASE ClaimProxy(t) \/ ClassifyActivation(t)
  BY <1>2, QuietFrame DEF ClaimProxy, ClassifyActivation, batchVars
<1>3. CASE FinishActivation(t)
  BY <1>3, QuietFrame DEF FinishActivation, ReleaseSlot
<1>4. CASE CancelUnknownNumber(t) \/ CompletePurchaseCleanup(t)
  BY <1>4, QuietFrame DEF CancelUnknownNumber, CompletePurchaseCleanup, ledger, batchVars
<1>. QED  BY <1>1, <1>2, <1>3, <1>4

\* A completed batch has all its successes.
AllFulfilled == \A b \in Batches : status[b] = "completed" => fulfilled[b] = Quantity[b]

LEMMA FulfilCompletes ==
    ASSUME IInv, AllFulfilled, NEW t \in Tokens, MarkActivationFulfilled(t)
    PROVE  AllFulfilled'
<1>1. PICK b \in Batches : batchOf[t] = b
  BY ActivationBatch DEF MarkActivationFulfilled, IInv
<1>2. ReleaseSlot(b, TRUE)
  BY <1>1 DEF MarkActivationFulfilled
<1>3. /\ fulfilled \in [Batches -> Nat] /\ status \in [Batches -> BatchStatus]
      /\ Quantity[b] \in Nat
  BY QuantityAssumption, IInvParts DEF LedgerType
<1>4. /\ fulfilled[b] < Quantity[b]
      /\ fulfilled' = [fulfilled EXCEPT ![b] = fulfilled[b] + 1]
      /\ status' = [status EXCEPT ![b] =
           IF status[b] = "running" /\ fulfilled[b] + 1 >= Quantity[b]
           THEN "completed" ELSE status[b]]
  BY <1>2 DEF ReleaseSlot
<1>5. ASSUME NEW c \in Batches, status'[c] = "completed"
      PROVE  fulfilled'[c] = Quantity[c]
  <2>1. CASE c # b
    BY <1>3, <1>4, <1>5, <2>1 DEF AllFulfilled
  <2>2. CASE c = b
    <3>1. status[b] # "completed"
      BY <1>3, <1>4 DEF AllFulfilled
    <3>2. fulfilled[b] + 1 >= Quantity[b]
      BY <1>3, <1>4, <1>5, <2>2, <3>1
    <3>. QED  BY <1>3, <1>4, <2>2, <3>2
  <2>. QED  BY <2>1, <2>2
<1>. QED  BY <1>5 DEF AllFulfilled

LEMMA AllFulfilledStep ==
    ASSUME IInv, AllFulfilled, [Next]_vars
    PROVE  AllFulfilled'
<1>1. Quiet => AllFulfilled'
  BY DEF Quiet, AllFulfilled
<1>2. CASE \E t \in Tokens : MarkActivationFulfilled(t)
  BY <1>2, FulfilCompletes
<1>3. CASE UNCHANGED vars
  BY <1>1, <1>3, QuietFrame DEF vars, ledger, batchVars
<1>4. CASE \E b \in Batches : CreateBatch(b) \/ FailExhaustedProxies(b)
  BY <1>1, <1>4, QuietBatch
<1>5. ASSUME NEW i \in Instances,
             \/ Purchaser(i) \/ Startup(i) \/ Crash(i)
             \/ \E b \in Batches : StopBatch(i, b)
             \/ \E b \in Batches, t \in Tokens : StartPurchase(i, b, t)
      PROVE  AllFulfilled'
  BY <1>1, <1>5, QuietPurchaser, QuietInstance, QuietBatch
<1>6. ASSUME NEW t \in Tokens,
             \/ ProviderRefuse(t) \/ ConcludeNumber(t)
             \/ \E n \in Numbers : ProviderAllocate(t, n)
             \/ Worker(t)
             \/ CancelUnknownNumber(t) \/ CompletePurchaseCleanup(t)
      PROVE  AllFulfilled'
  BY <1>1, <1>2, <1>6, QuietToken DEF Worker
<1>. QED  BY <1>2, <1>3, <1>4, <1>5, <1>6 DEF Next

\* A batch whose successes fill it has nothing in flight and nothing open.
LEMMA FullIsIdle ==
    ASSUME IInv, AllFulfilled
    PROVE  CompletedIsFull
<1>1. SUFFICES ASSUME NEW b \in Batches, status[b] = "completed"
               PROVE  fulfilled[b] = Quantity[b] /\ Unresolved(b) = {} /\ Working(b) = {}
  BY DEF CompletedIsFull
<1>2. fulfilled[b] = Quantity[b]
  BY <1>1 DEF AllFulfilled
<1>3. reserved[b] = 0 /\ inflight[b] = 0
  <2>1. fulfilled[b] + inflight[b] + reserved[b] <= Quantity[b]
    BY IInvParts DEF LedgerInv, QuotaRespected
  <2>2. /\ fulfilled[b] \in Nat /\ inflight[b] \in Nat /\ reserved[b] \in Nat
    BY CounterTypes DEF IInv
  <2>. QED  BY <1>2, <2>1, <2>2
<1>4. Cardinality(Unresolved(b)) = 0 /\ Cardinality(Working(b)) = 0
  BY <1>3, IInvParts DEF LedgerInv, CountersMatch
<1>. QED  BY <1>2, <1>4, CountedFinite, FS_EmptySet

\* The ledger of every batch is in order: quota, counters and rows agree, one
\* purchase is open at most, and a completed batch is full and idle.
THEOREM LedgerInOrder == Spec => []SlotsAccounted
<1>1. Init => AllFulfilled
  <2>1. ASSUME Init, NEW b \in Batches
        PROVE  status[b] # "completed"
    <3>1. status = [c \in Batches |-> "absent"]
      BY <2>1 DEF Init
    <3>. QED  BY <3>1
  <2>. QED  BY <2>1 DEF AllFulfilled
<1>2. IInv /\ AllFulfilled /\ [Next]_vars => AllFulfilled'
  BY AllFulfilledStep
<1>3. IInv /\ AllFulfilled => SlotsAccounted
  BY FullIsIdle DEF IInv, LedgerInv, SlotsAccounted
<1>. QED  BY <1>1, <1>2, <1>3, Invariance, PTL DEF Spec
-----------------------------------------------------------------------------
(* What Stop and the cleanup of unknown numbers rely on.  Both relate rows  *)
(* that different transactions write: a Stop and the number persisted after *)
(* it, a pending cleanup and the activation of another attempt.             *)

\* A queued cleanup is that of an unknown attempt with its number recorded.
CleanupOwned ==
    \A t \in Tokens : cleanup[t] # "" => attempt[t] = "unknown" /\ providerId[t] # NoNumber

SettleInv == StoppedBatchDrains /\ CleanupOwned /\ CleanupSparesActivations

\* No activation is created and no batch is stopped.
ActsKept ==
    /\ \A t \in Tokens : act'[t] = "open" =>
         act[t] = "open" /\ batchOf'[t] = batchOf[t] /\ control'[t] = control[t]
    /\ \A c \in Batches : status'[c] = "cancelled" => status[c] = "cancelled"

\* No number is recorded, no cleanup queued, no unknown attempt decided.
ClaimsKept ==
    /\ providerId' = providerId
    /\ \A t \in Tokens :
         /\ act'[t] # "absent" => act[t] # "absent"
         /\ cleanup'[t] # "" => cleanup[t] # ""
         /\ attempt[t] = "unknown" => attempt'[t] = "unknown"

LEMMA DrainsKept ==
    ASSUME IInv, StoppedBatchDrains, ActsKept
    PROVE  StoppedBatchDrains'
<1>1. SUFFICES ASSUME NEW t \in Tokens, act'[t] = "open", status'[batchOf'[t]] = "cancelled"
               PROVE  control'[t] = "delete"
  BY DEF StoppedBatchDrains
<1>2. act[t] = "open" /\ batchOf'[t] = batchOf[t] /\ control'[t] = control[t]
  BY <1>1 DEF ActsKept
<1>3. batchOf[t] \in Batches
  BY <1>2, ActivationBatch DEF IInv
<1>4. status[batchOf[t]] = "cancelled"
  BY <1>1, <1>2, <1>3 DEF ActsKept
<1>. QED  BY <1>2, <1>4 DEF StoppedBatchDrains

LEMMA ClaimsStay ==
    ASSUME CleanupOwned, CleanupSparesActivations, ClaimsKept
    PROVE  CleanupOwned' /\ CleanupSparesActivations'
BY DEF ClaimsKept, CleanupOwned, CleanupSparesActivations

LEMMA BothKept ==
    ASSUME IInv, SettleInv, ActsKept, ClaimsKept
    PROVE  SettleInv'
BY DrainsKept, ClaimsStay DEF SettleInv

\* A step that writes no row disturbs neither.
LEMMA RowsKept ==
    ASSUME UNCHANGED <<ledger, batchOf>>
    PROVE  ActsKept /\ ClaimsKept
BY DEF ledger, batchVars, attemptVars, actVars, ActsKept, ClaimsKept

\* Transactions on the attempt row alone: they leave unknown attempts alone.
LEMMA AttemptOnly ==
    ASSUME UNCHANGED <<status, providerId, cleanup, actVars, batchOf>>,
           \A u \in Tokens : attempt[u] = "unknown" => attempt'[u] = "unknown"
    PROVE  ActsKept /\ ClaimsKept
BY DEF actVars, ActsKept, ClaimsKept

LEMMA AttemptTxKept ==
    ASSUME LedgerType, NEW b \in Batches, NEW t \in Tokens, UNCHANGED batchOf,
           \/ ~ReserveRefused(b, t) /\ ReserveTx(b, t)
           \/ ~MarkSentRefused(b, t) /\ MarkSentTx(t)
           \/ ~ReleaseRefused(b, t) /\ ReleaseTx(b, t)
           \/ RecoverTx(b)
    PROVE  ActsKept /\ ClaimsKept
<1>0. attempt \in [Tokens -> AttemptState]
  BY DEF LedgerType
<1>1. UNCHANGED <<status, providerId, cleanup, actVars>>
  BY DEF ReserveTx, MarkSentTx, ReleaseTx, RecoverTx, batchVars
<1>2. ASSUME NEW u \in Tokens, attempt[u] = "unknown"
      PROVE  attempt'[u] = "unknown"
  <2>1. CASE RecoverTx(b)
    BY <1>2, <2>1 DEF RecoverTx
  <2>2. CASE ~ReserveRefused(b, t) /\ ReserveTx(b, t)
    BY <1>0, <1>2, <2>2 DEF ReserveTx
  <2>3. CASE ~MarkSentRefused(b, t) /\ MarkSentTx(t)
    BY <1>0, <1>2, <2>3 DEF MarkSentRefused, MarkSentTx
  <2>4. CASE ~ReleaseRefused(b, t) /\ ReleaseTx(b, t)
    BY <1>0, <1>2, <2>4 DEF ReleaseTx
  <2>. QED  BY <2>1, <2>2, <2>3, <2>4
<1>. QED  BY <1>1, <1>2, AttemptOnly

\* A number persisted after the batch ended is stored with its deletion, and
\* no other attempt, cleaned up or not, holds its id.
LEMMA PersistSettles ==
    ASSUME IInv, SettleInv, NEW b \in Batches, NEW t \in Tokens, batchOf[t] = b,
           NEW n, ~PersistRefused(b, t, n), PersistTx(b, t, n), UNCHANGED batchOf
    PROVE  SettleInv'
<1>1. CASE attempt[t] = "committed"
  <2>1. UNCHANGED <<ledger, batchOf>>
    BY <1>1 DEF PersistTx
  <2>. QED  BY <2>1, RowsKept, BothKept
<1>2. CASE attempt[t] # "committed"
  <2>0. LedgerType
    BY IInvParts
  <2>1. /\ attempt[t] = "sent"
        /\ ~OwnedByAttempt(t, n)
    BY <1>2 DEF PersistRefused
  <2>2. /\ attempt' = [attempt EXCEPT ![t] = "committed"]
        /\ providerId' = [providerId EXCEPT ![t] = n]
        /\ act' = [act EXCEPT ![t] = "open"]
        /\ control' = [control EXCEPT ![t] = IF Terminal(b) THEN "delete" ELSE ""]
        /\ UNCHANGED <<status, cleanup>>
    BY <1>2 DEF PersistTx
  <2>3. /\ attempt'[t] = "committed" /\ providerId'[t] = n /\ act'[t] = "open"
        /\ Terminal(b) => control'[t] = "delete"
        /\ \A u \in Tokens \ {t} :
             /\ attempt'[u] = attempt[u] /\ providerId'[u] = providerId[u]
             /\ act'[u] = act[u] /\ control'[u] = control[u]
    BY <2>0, <2>2 DEF LedgerType
  <2>4. cleanup[t] = ""
    BY <2>1 DEF SettleInv, CleanupOwned
  <2>5. \A u \in Tokens \ {t} : providerId[u] # n
    BY <2>1 DEF OwnedByAttempt
  <2>6. ASSUME NEW u \in Tokens, act'[u] = "open", status'[batchOf'[u]] = "cancelled"
        PROVE  control'[u] = "delete"
    <3>1. status[batchOf[u]] = "cancelled"
      BY <2>2, <2>6
    <3>2. CASE u = t
      BY <2>3, <3>1, <3>2 DEF Terminal
    <3>3. CASE u # t
      BY <2>3, <2>6, <3>1, <3>3 DEF SettleInv, StoppedBatchDrains
    <3>. QED  BY <3>2, <3>3
  <2>7. CleanupOwned'
    <3>1. ASSUME NEW u \in Tokens, cleanup'[u] # ""
          PROVE  attempt'[u] = "unknown" /\ providerId'[u] # NoNumber
      <4>1. cleanup[u] # "" /\ u # t
        BY <2>2, <2>4, <3>1
      <4>2. attempt[u] = "unknown" /\ providerId[u] # NoNumber
        BY <4>1 DEF SettleInv, CleanupOwned
      <4>. QED  BY <2>3, <4>1, <4>2
    <3>. QED  BY <3>1 DEF CleanupOwned
  <2>8. ASSUME NEW u \in Tokens, NEW v \in Tokens, cleanup'[u] # "", act'[v] # "absent"
        PROVE  providerId'[u] # providerId'[v]
    <3>1. u # t /\ cleanup[u] # "" /\ providerId'[u] = providerId[u]
      BY <2>2, <2>3, <2>4, <2>8
    <3>2. CASE v = t
      BY <2>3, <2>5, <3>1, <3>2
    <3>3. CASE v # t
      BY <2>3, <2>8, <3>1, <3>3 DEF SettleInv, CleanupSparesActivations
    <3>. QED  BY <3>2, <3>3
  <2>. QED  BY <2>6, <2>7, <2>8 DEF SettleInv, StoppedBatchDrains, CleanupSparesActivations
<1>. QED  BY <1>1, <1>2

\* A freeze queues a cleanup only for a number nobody else holds, and never
\* changes the number of a queued one.
LEMMA FreezeSettles ==
    ASSUME IInv, SettleInv, NEW b \in Batches, NEW t \in Tokens,
           NEW n, ~FreezeRefused(t, n), FreezeTx(b, t, n), UNCHANGED batchOf
    PROVE  SettleInv'
<1>0. LedgerType
  BY IInvParts
<1>1. UNCHANGED <<act, control, slot>>
  BY DEF FreezeTx, actVars
<1>2. CASE attempt[t] = "committed"
  <2>1. UNCHANGED <<attempt, providerId, cleanup, status>>
    BY <1>2 DEF FreezeTx, attemptVars
  <2>2. ActsKept /\ ClaimsKept
    BY <1>1, <2>1 DEF ActsKept, ClaimsKept
  <2>. QED  BY <2>2, BothKept
<1>3. CASE attempt[t] # "committed"
  <2>1. act[t] = "absent"
    BY <1>3, IInvParts DEF LedgerInv, RowsConsistent
  <2>2. \A c \in Batches : status'[c] = "cancelled" => status[c] = "cancelled"
    <3>1. status' = [status EXCEPT ![b] = IF status[b] = "running" THEN "failed" ELSE status[b]]
      BY <1>3 DEF FreezeTx, StopBuying
    <3>2. status \in [Batches -> BatchStatus]
      BY <1>0 DEF LedgerType
    <3>. QED  BY <3>1, <3>2
  <2>3. StoppedBatchDrains'
    <3>1. ActsKept
      BY <1>1, <2>2 DEF ActsKept
    <3>. QED  BY <3>1, DrainsKept DEF SettleInv
  <2>4. CASE FreezeOwned(t, n)
    <3>1. /\ attempt' = [attempt EXCEPT ![t] = "conflicted"]
          /\ cleanup' = [cleanup EXCEPT ![t] = ""]
          /\ UNCHANGED providerId
      BY <1>3, <2>4 DEF FreezeTx
    <3>2. /\ cleanup'[t] = ""
          /\ \A u \in Tokens \ {t} : attempt'[u] = attempt[u] /\ cleanup'[u] = cleanup[u]
      BY <1>0, <3>1 DEF LedgerType
    <3>3. CleanupOwned' /\ CleanupSparesActivations'
      BY <1>1, <3>1, <3>2 DEF SettleInv, CleanupOwned, CleanupSparesActivations
    <3>. QED  BY <2>3, <3>3 DEF SettleInv
  <2>5. CASE ~FreezeOwned(t, n)
    <3> DEFINE m == EffectiveId(t, n)
               c == IF attempt[t] # "conflicted" /\ cleanup[t] = "" /\ m # NoNumber
                    THEN "pending" ELSE cleanup[t]
               a == IF attempt[t] = "conflicted" THEN attempt[t] ELSE "unknown"
    <3>1. /\ attempt' = [attempt EXCEPT ![t] = a]
          /\ providerId' = [providerId EXCEPT ![t] = m]
          /\ cleanup' = [cleanup EXCEPT ![t] = c]
      BY <1>3, <2>5 DEF FreezeTx
    <3>2. /\ attempt'[t] = a /\ providerId'[t] = m /\ cleanup'[t] = c
          /\ \A u \in Tokens \ {t} :
               /\ attempt'[u] = attempt[u] /\ cleanup'[u] = cleanup[u]
               /\ providerId'[u] = providerId[u]
      <4>. HIDE DEF m, c, a
      <4>. QED  BY <1>0, <3>1 DEF LedgerType
    <3>3. cleanup[t] # "" => m = providerId[t] /\ m # NoNumber /\ attempt[t] = "unknown"
      BY DEF SettleInv, CleanupOwned, FreezeRefused, EffectiveId
    <3>4. c # "" => m # NoNumber /\ a = "unknown"
      BY <3>3
    <3>5. m # NoNumber => \A u \in Tokens : act[u] # "absent" => providerId[u] # m
      BY <1>3, <2>5 DEF FreezeOwned, ActivationExists
    <3>. HIDE DEF m, c, a
    <3>6. CleanupOwned'
      BY <3>2, <3>4 DEF SettleInv, CleanupOwned
    <3>7. ASSUME NEW u \in Tokens, NEW v \in Tokens, cleanup'[u] # "", act'[v] # "absent"
          PROVE  providerId'[u] # providerId'[v]
      <4>1. act[v] # "absent" /\ v # t /\ providerId'[v] = providerId[v]
        BY <1>1, <2>1, <3>2, <3>7
      <4>2. CASE u = t
        BY <3>2, <3>4, <3>5, <3>7, <4>1, <4>2
      <4>3. CASE u # t
        BY <3>2, <3>7, <4>1, <4>3 DEF SettleInv, CleanupSparesActivations
      <4>. QED  BY <4>2, <4>3
    <3>8. CleanupSparesActivations'
      BY <3>7 DEF CleanupSparesActivations
    <3>. QED  BY <2>3, <3>6, <3>8 DEF SettleInv
  <2>. QED  BY <2>4, <2>5
<1>. QED  BY <1>2, <1>3

\* Stop queues the deletion of every open activation of its batch.
LEMMA StopSettles ==
    ASSUME IInv, SettleInv, NEW i \in Instances, NEW b \in Batches, StopBatch(i, b)
    PROVE  SettleInv'
<1>0. LedgerType
  BY IInvParts
<1>1. /\ control' = [t \in Tokens |->
           IF t \in Attempts(b) /\ act[t] = "open" THEN "delete" ELSE control[t]]
      /\ status' = [status EXCEPT ![b] = IF status[b] = "running" THEN "cancelled" ELSE status[b]]
      /\ UNCHANGED <<providerId, cleanup, act, batchOf>>
  BY DEF StopBatch
<1>2. \A t \in Tokens : attempt[t] = "unknown" => attempt'[t] = "unknown"
  BY DEF StopBatch
<1>3. CleanupOwned' /\ CleanupSparesActivations'
  <2>1. ClaimsKept
    BY <1>1, <1>2 DEF ClaimsKept
  <2>. QED  BY <2>1, ClaimsStay DEF SettleInv
<1>4. ASSUME NEW t \in Tokens, act'[t] = "open", status'[batchOf'[t]] = "cancelled"
      PROVE  control'[t] = "delete"
  <2>1. act[t] = "open" /\ batchOf'[t] = batchOf[t]
    BY <1>1, <1>4
  <2>2. CASE batchOf[t] = b
    BY <1>1, <2>1, <2>2 DEF Attempts
  <2>3. CASE batchOf[t] # b
    <3>1. status \in [Batches -> BatchStatus]
      BY <1>0 DEF LedgerType
    <3>2. batchOf[t] \in Batches
      BY <2>1, ActivationBatch DEF IInv
    <3>3. status[batchOf[t]] = "cancelled"
      BY <1>1, <1>4, <2>1, <2>3, <3>1, <3>2
    <3>4. control[t] = "delete"
      BY <2>1, <3>3 DEF SettleInv, StoppedBatchDrains
    <3>. QED  BY <1>1, <3>4
  <2>. QED  BY <2>2, <2>3
<1>. QED  BY <1>3, <1>4 DEF SettleInv, StoppedBatchDrains

LEMMA PurchaserSettles ==
    ASSUME IInv, SettleInv, NEW i \in Instances, Purchaser(i)
    PROVE  SettleInv'
<1>0. LedgerType
  BY IInvParts
<1>1. CASE UNCHANGED <<ledger, batchOf>>
  BY <1>1, RowsKept, BothKept
<1>2. CASE SendGetNumber(i) \/ ReceiveNumber(i) \/ ReceiveRefusal(i) \/ ReceiveUnknown(i)
  BY <1>1, <1>2 DEF SendGetNumber, ReceiveNumber, ReceiveRefusal, ReceiveUnknown
<1>3. ASSUME pc[i] \notin {"down", "recover", "idle"}, UNCHANGED batchOf,
             NEW t, t = tok[i], NEW b, b = batchOf[t],
             \/ ~ReserveRefused(b, t) /\ ReserveTx(b, t)
             \/ ~MarkSentRefused(b, t) /\ MarkSentTx(t)
             \/ ~ReleaseRefused(b, t) /\ ReleaseTx(b, t)
      PROVE  SettleInv'
  <2>1. t \in Tokens /\ b \in Batches
    BY <1>3, PurchaserToken
  <2>. QED  BY <1>0, <1>3, <2>1, AttemptTxKept, BothKept
<1>4. CASE ReservePurchase(i)
  BY <1>1, <1>3, <1>4 DEF ReservePurchase
<1>5. CASE MarkPurchaseSent(i)
  BY <1>1, <1>3, <1>5 DEF MarkPurchaseSent
<1>6. CASE ReleasePurchase(i)
  BY <1>1, <1>3, <1>6 DEF ReleasePurchase
<1>7. CASE PersistPurchase(i)
  <2>1. PICK t \in Tokens, b \in Batches : tok[i] = t /\ batchOf[t] = b
    BY <1>7, PurchaserToken DEF PersistPurchase
  <2>2. /\ UNCHANGED batchOf
        /\ UNCHANGED ledger \/ \E n : ~PersistRefused(b, t, n) /\ PersistTx(b, t, n)
    BY <1>7, <2>1 DEF PersistPurchase
  <2>. QED  BY <1>1, <2>1, <2>2, PersistSettles
<1>8. CASE FreezePurchase(i)
  <2>1. PICK t \in Tokens, b \in Batches : tok[i] = t /\ batchOf[t] = b
    BY <1>8, PurchaserToken DEF FreezePurchase
  <2>2. /\ UNCHANGED batchOf
        /\ UNCHANGED ledger \/ \E n : ~FreezeRefused(t, n) /\ FreezeTx(b, t, n)
    BY <1>8, <2>1 DEF FreezePurchase
  <2>. QED  BY <1>1, <2>1, <2>2, FreezeSettles
<1>. QED  BY <1>2, <1>4, <1>5, <1>6, <1>7, <1>8 DEF Purchaser

LEMMA InstanceSettles ==
    ASSUME IInv, SettleInv, NEW i \in Instances,
           \/ Startup(i) \/ Crash(i)
           \/ \E b \in Batches, t \in Tokens : StartPurchase(i, b, t)
    PROVE  SettleInv'
<1>0. LedgerType
  BY IInvParts
<1>1. CASE UNCHANGED <<ledger, batchOf>>
  BY <1>1, RowsKept, BothKept
<1>2. CASE Crash(i) \/ Restart(i) \/ StartScheduler(i)
  BY <1>1, <1>2 DEF Crash, Restart, StartScheduler
<1>3. ASSUME NEW b \in Batches, RecoverBatchPurchase(i, b)
      PROVE  SettleInv'
  <2>1. UNCHANGED batchOf /\ (UNCHANGED ledger \/ RecoverTx(b))
    BY <1>3 DEF RecoverBatchPurchase
  <2>2. CASE RecoverTx(b)
    <3>1. UNCHANGED <<status, providerId, cleanup, actVars>>
      BY <2>2 DEF RecoverTx, batchVars
    <3>2. \A u \in Tokens : attempt[u] = "unknown" => attempt'[u] = "unknown"
      BY <2>2 DEF RecoverTx
    <3>. QED  BY <2>1, <3>1, <3>2, AttemptOnly, BothKept
  <2>. QED  BY <1>1, <2>1, <2>2
<1>4. ASSUME NEW b \in Batches, NEW t \in Tokens, StartPurchase(i, b, t)
      PROVE  SettleInv'
  <2>1. /\ batchOf[t] = NoBatch
        /\ batchOf' = [batchOf EXCEPT ![t] = b]
        /\ UNCHANGED <<status, providerId, cleanup, act, control, attempt>>
    BY <1>4 DEF StartPurchase, ledger, batchVars, attemptVars, actVars
  <2>2. act[t] = "absent"
    BY <2>1, IInvParts DEF LedgerInv, RowsConsistent
  <2>3. \A u \in Tokens \ {t} : batchOf'[u] = batchOf[u]
    BY <1>0, <2>1 DEF LedgerType
  <2>4. ActsKept /\ ClaimsKept
    BY <2>1, <2>2, <2>3 DEF ActsKept, ClaimsKept
  <2>. QED  BY <2>4, BothKept
<1>. QED  BY <1>2, <1>3, <1>4 DEF Startup

LEMMA BatchSettles ==
    ASSUME IInv, SettleInv, NEW b \in Batches, CreateBatch(b) \/ FailExhaustedProxies(b)
    PROVE  SettleInv'
<1>1. /\ \E s \in {"running", "failed"} : status' = [status EXCEPT ![b] = s]
      /\ UNCHANGED <<attemptVars, actVars, batchOf>>
  BY DEF CreateBatch, FailExhaustedProxies
<1>2. status \in [Batches -> BatchStatus]
  BY IInvParts DEF LedgerType
<1>3. \A c \in Batches : status'[c] = "cancelled" => status[c] = "cancelled"
  BY <1>1, <1>2
<1>4. ActsKept /\ ClaimsKept
  BY <1>1, <1>3 DEF attemptVars, actVars, ActsKept, ClaimsKept
<1>. QED  BY <1>4, BothKept

LEMMA TokenSettles ==
    ASSUME IInv, SettleInv, NEW t \in Tokens,
           \/ ProviderRefuse(t) \/ ConcludeNumber(t)
           \/ \E n \in Numbers : ProviderAllocate(t, n)
           \/ Worker(t)
           \/ CancelUnknownNumber(t) \/ CompletePurchaseCleanup(t)
    PROVE  SettleInv'
<1>0. LedgerType
  BY IInvParts
<1>1. CASE UNCHANGED <<ledger, batchOf>>
  BY <1>1, RowsKept, BothKept
<1>2. CASE \/ ProviderRefuse(t) \/ ConcludeNumber(t) \/ CancelUnknownNumber(t)
           \/ \E n \in Numbers : ProviderAllocate(t, n)
  BY <1>1, <1>2 DEF ProviderRefuse, ConcludeNumber, CancelUnknownNumber, ProviderAllocate
<1>3. CASE CompletePurchaseCleanup(t)
  <2>1. /\ cleanup[t] = "pending" /\ cleanup' = [cleanup EXCEPT ![t] = "done"]
        /\ UNCHANGED <<status, attempt, providerId, act, control, batchOf>>
    BY <1>3 DEF CompletePurchaseCleanup, batchVars, actVars
  <2>2. \A u \in Tokens : cleanup'[u] # "" => cleanup[u] # ""
    BY <1>0, <2>1 DEF LedgerType
  <2>3. ActsKept /\ ClaimsKept
    BY <2>1, <2>2 DEF ActsKept, ClaimsKept
  <2>. QED  BY <2>3, BothKept
<1>4. CASE ClaimProxy(t)
  <2>1. UNCHANGED <<status, attempt, providerId, cleanup, act, control, batchOf>>
    BY <1>4 DEF ClaimProxy, attemptVars, actVars
  <2>2. ActsKept /\ ClaimsKept
    BY <2>1 DEF ActsKept, ClaimsKept
  <2>. QED  BY <2>2, BothKept
<1>5. CASE ClassifyActivation(t)
  <2>1. /\ act[t] = "open" /\ act' = [act EXCEPT ![t] = "protected"]
        /\ UNCHANGED <<status, attempt, providerId, cleanup, control, batchOf>>
    BY <1>5 DEF ClassifyActivation, batchVars, attemptVars
  <2>2. \A u \in Tokens : /\ act'[u] = "open" => act[u] = "open"
                          /\ act'[u] # "absent" => act[u] # "absent"
    BY <1>0, <2>1 DEF LedgerType
  <2>3. ActsKept /\ ClaimsKept
    BY <2>1, <2>2 DEF ActsKept, ClaimsKept
  <2>. QED  BY <2>3, BothKept
<1>6. CASE MarkActivationFulfilled(t)
  <2>1. PICK b \in Batches : batchOf[t] = b
    BY <1>6, ActivationBatch DEF MarkActivationFulfilled, IInv
  <2>2. /\ UNCHANGED <<attempt, providerId, cleanup, act, control, batchOf>>
        /\ \E s : s \in {status[b], "completed"} /\ status' = [status EXCEPT ![b] = s]
    BY <1>6, <2>1 DEF MarkActivationFulfilled, ReleaseSlot, attemptVars
  <2>3. \A c \in Batches : status'[c] = "cancelled" => status[c] = "cancelled"
    BY <1>0, <2>2 DEF LedgerType
  <2>4. ActsKept /\ ClaimsKept
    BY <2>2, <2>3 DEF ActsKept, ClaimsKept
  <2>. QED  BY <2>4, BothKept
<1>7. CASE FinishActivation(t)
  <2>1. /\ act[t] # "absent" /\ act' = [act EXCEPT ![t] = "finished"]
        /\ control' = [control EXCEPT ![t] = ""]
        /\ UNCHANGED <<status, attempt, providerId, cleanup, batchOf>>
    BY <1>7 DEF FinishActivation, ReleaseSlot, attemptVars
  <2>2. /\ act'[t] = "finished"
        /\ \A u \in Tokens \ {t} : act'[u] = act[u] /\ control'[u] = control[u]
    BY <1>0, <2>1 DEF LedgerType
  <2>3. ActsKept /\ ClaimsKept
    BY <2>1, <2>2 DEF ActsKept, ClaimsKept
  <2>. QED  BY <2>3, BothKept
<1>. QED  BY <1>2, <1>3, <1>4, <1>5, <1>6, <1>7 DEF Worker

LEMMA SettleInit ==
    ASSUME Init
    PROVE  SettleInv
BY DEF Init, SettleInv, StoppedBatchDrains, CleanupOwned, CleanupSparesActivations

LEMMA SettleStep ==
    ASSUME IInv, SettleInv, [Next]_vars
    PROVE  SettleInv'
<1>1. CASE UNCHANGED vars
  BY <1>1, RowsKept, BothKept DEF vars
<1>2. CASE \E b \in Batches : CreateBatch(b) \/ FailExhaustedProxies(b)
  BY <1>2, BatchSettles
<1>3. ASSUME NEW i \in Instances,
             \/ Purchaser(i) \/ Startup(i) \/ Crash(i)
             \/ \E b \in Batches : StopBatch(i, b)
             \/ \E b \in Batches, t \in Tokens : StartPurchase(i, b, t)
      PROVE  SettleInv'
  BY <1>3, PurchaserSettles, InstanceSettles, StopSettles
<1>4. ASSUME NEW t \in Tokens,
             \/ ProviderRefuse(t) \/ ConcludeNumber(t)
             \/ \E n \in Numbers : ProviderAllocate(t, n)
             \/ Worker(t)
             \/ CancelUnknownNumber(t) \/ CompletePurchaseCleanup(t)
      PROVE  SettleInv'
  BY <1>4, TokenSettles
<1>. QED  BY <1>1, <1>2, <1>3, <1>4 DEF Next

LEMMA Settled == Spec => []SettleInv
<1>1. Init => SettleInv
  BY SettleInit
<1>2. IInv /\ SettleInv /\ [Next]_vars => SettleInv'
  BY SettleStep
<1>. QED  BY <1>1, <1>2, Invariance, PTL DEF Spec

\* Every unfinished number of a stopped batch has its deletion queued, also one
\* that was persisted after the Stop.
THEOREM StopDrains == Spec => []StoppedBatchDrains
<1>1. SettleInv => StoppedBatchDrains
  BY DEF SettleInv
<1>. QED  BY <1>1, Settled, PTL

\* The cleanup of an unknown number never cancels the number of an activation,
\* even when the provider gives the same id out twice.
THEOREM CleanupSpares == Spec => []CleanupSparesActivations
<1>1. SettleInv => CleanupSparesActivations
  BY DEF SettleInv
<1>. QED  BY <1>1, Settled, PTL

-----------------------------------------------------------------------------
(* The refinement of SlotQuota.  First what each abstract step asks of the  *)
(* rows, then which abstract step each transaction is.                      *)

\* What one step does to the status of the batches: at most one moves, and
\* none becomes absent again.
StatusMoves ==
    \/ status' = status
    \/ \E b \in Batches, s \in BatchStatus \ {"absent"} : status' = [status EXCEPT ![b] = s]

LEMMA StatusKept ==
    ASSUME UNCHANGED ledger
    PROVE  StatusMoves
BY DEF ledger, batchVars, StatusMoves

LEMMA StatusSet ==
    ASSUME LedgerType, NEW b \in Batches, NEW s,
           s = status[b] \/ s \in BatchStatus \ {"absent"},
           status' = [status EXCEPT ![b] = s]
    PROVE  StatusMoves
<1>1. CASE s = status[b]
  BY <1>1 DEF LedgerType, StatusMoves
<1>2. CASE s \in BatchStatus \ {"absent"}
  BY <1>2 DEF StatusMoves
<1>. QED  BY <1>1, <1>2

LEMMA StatusInstance ==
    ASSUME IInv, NEW i \in Instances,
           \/ Purchaser(i) \/ Startup(i) \/ Crash(i)
           \/ \E b \in Batches : StopBatch(i, b)
           \/ \E b \in Batches, t \in Tokens : StartPurchase(i, b, t)
    PROVE  StatusMoves
<1>0. LedgerType
  BY IInvParts
<1>1. CASE status' = status
  BY <1>1 DEF StatusMoves
<1>2. CASE Purchaser(i)
  <2>1. CASE ReservePurchase(i) \/ MarkPurchaseSent(i) \/ ReleasePurchase(i)
    BY <1>1, <2>1 DEF ReservePurchase, ReserveTx, MarkPurchaseSent, MarkSentTx,
       ReleasePurchase, ReleaseTx, ledger, batchVars
  <2>2. CASE SendGetNumber(i) \/ ReceiveNumber(i) \/ ReceiveRefusal(i) \/ ReceiveUnknown(i)
    BY <1>1, <2>2 DEF SendGetNumber, ReceiveNumber, ReceiveRefusal, ReceiveUnknown,
       ledger, batchVars
  <2>3. CASE PersistPurchase(i)
    BY <1>1, <2>3 DEF PersistPurchase, PersistTx, ledger, batchVars
  <2>4. CASE FreezePurchase(i)
    <3>1. PICK t \in Tokens, b \in Batches : tok[i] = t /\ batchOf[t] = b
      BY <2>4, PurchaserToken DEF FreezePurchase
    <3>2. \/ UNCHANGED ledger
          \/ \E n : FreezeTx(b, t, n)
      BY <2>4, <3>1 DEF FreezePurchase
    <3>3. CASE \E n : FreezeTx(b, t, n)
      <4>1. \/ status' = status
            \/ status' = [status EXCEPT ![b] = IF status[b] = "running" THEN "failed" ELSE status[b]]
        BY <3>3 DEF FreezeTx, StopBuying
      <4>. QED  BY <1>0, <1>1, <4>1, StatusSet DEF BatchStatus
    <3>. QED  BY <3>2, <3>3, StatusKept
  <2>. QED  BY <1>2, <2>1, <2>2, <2>3, <2>4 DEF Purchaser
<1>3. CASE Startup(i) \/ Crash(i)
  BY <1>1, <1>3 DEF Startup, Restart, StartScheduler, RecoverBatchPurchase, RecoverTx,
     Crash, ledger, batchVars
<1>4. CASE \E b \in Batches : StopBatch(i, b)
  <2>1. PICK b \in Batches : StopBatch(i, b)
    BY <1>4
  <2>2. status' = [status EXCEPT ![b] = IF status[b] = "running" THEN "cancelled" ELSE status[b]]
    BY <2>1 DEF StopBatch
  <2>. QED  BY <1>0, <2>2, StatusSet DEF BatchStatus
<1>5. CASE \E b \in Batches, t \in Tokens : StartPurchase(i, b, t)
  BY <1>1, <1>5 DEF StartPurchase, ledger, batchVars
<1>. QED  BY <1>2, <1>3, <1>4, <1>5

LEMMA StatusToken ==
    ASSUME IInv, NEW t \in Tokens,
           \/ ProviderRefuse(t) \/ ConcludeNumber(t)
           \/ \E n \in Numbers : ProviderAllocate(t, n)
           \/ Worker(t)
           \/ CancelUnknownNumber(t) \/ CompletePurchaseCleanup(t)
    PROVE  StatusMoves
<1>0. LedgerType
  BY IInvParts
<1>1. CASE status' = status
  BY <1>1 DEF StatusMoves
<1>2. CASE \/ ProviderRefuse(t) \/ ConcludeNumber(t) \/ CancelUnknownNumber(t)
           \/ \E n \in Numbers : ProviderAllocate(t, n)
  BY <1>1, <1>2 DEF ProviderRefuse, ConcludeNumber, CancelUnknownNumber, ProviderAllocate,
     ledger, batchVars
<1>3. CASE CompletePurchaseCleanup(t) \/ ClaimProxy(t) \/ ClassifyActivation(t) \/ FinishActivation(t)
  BY <1>1, <1>3 DEF CompletePurchaseCleanup, ClaimProxy, ClassifyActivation, FinishActivation,
     ReleaseSlot, batchVars
<1>4. CASE MarkActivationFulfilled(t)
  <2>1. PICK b \in Batches : batchOf[t] = b
    BY <1>4, ActivationBatch DEF MarkActivationFulfilled, IInv
  <2>2. \E s : (s = status[b] \/ s = "completed") /\ status' = [status EXCEPT ![b] = s]
    BY <1>4, <2>1 DEF MarkActivationFulfilled, ReleaseSlot
  <2>. QED  BY <1>0, <2>2, StatusSet DEF BatchStatus
<1>. QED  BY <1>2, <1>3, <1>4 DEF Worker

\* A token was generated for a batch that exists.
BatchesKnown == \A t \in Tokens : batchOf[t] # NoBatch => status[batchOf[t]] # "absent"

LEMMA KnownStep ==
    ASSUME IInv, BatchesKnown, [Next]_vars
    PROVE  BatchesKnown'
<1>0. LedgerType
  BY IInvParts
<1>1. StatusMoves
  <2>1. CASE UNCHANGED vars
    BY <2>1, StatusKept DEF vars
  <2>2. CASE \E b \in Batches : CreateBatch(b) \/ FailExhaustedProxies(b)
    BY <2>2 DEF CreateBatch, FailExhaustedProxies, StatusMoves, BatchStatus
  <2>. QED  BY <2>1, <2>2, StatusInstance, StatusToken DEF Next
<1>2. \A c \in Batches : status[c] # "absent" => status'[c] # "absent"
  BY <1>0, <1>1 DEF StatusMoves, LedgerType
<1>3. CASE batchOf' = batchOf
  <2>1. batchOf \in [Tokens -> Batches \cup {NoBatch}]
    BY <1>0 DEF LedgerType
  <2>2. ASSUME NEW t \in Tokens, batchOf'[t] # NoBatch
        PROVE  status'[batchOf'[t]] # "absent"
    <3>1. batchOf'[t] = batchOf[t] /\ batchOf[t] \in Batches
      BY <1>3, <2>1, <2>2
    <3>2. status[batchOf[t]] # "absent"
      BY <2>2, <3>1 DEF BatchesKnown
    <3>. QED  BY <1>2, <3>1, <3>2
  <2>. QED  BY <2>2 DEF BatchesKnown
<1>4. CASE \E i \in Instances, b \in Batches, t \in Tokens : StartPurchase(i, b, t)
  <2>1. PICK b \in Batches, t \in Tokens : Active(b) /\ batchOf' = [batchOf EXCEPT ![t] = b]
    BY <1>4 DEF StartPurchase
  <2>2. batchOf'[t] = b /\ \A u \in Tokens \ {t} : batchOf'[u] = batchOf[u]
    BY <1>0, <2>1 DEF LedgerType
  <2>3. batchOf \in [Tokens -> Batches \cup {NoBatch}]
    BY <1>0 DEF LedgerType
  <2>. QED  BY <1>2, <2>1, <2>2, <2>3 DEF BatchesKnown, Active
<1>5. batchOf' = batchOf \/ \E i \in Instances, b \in Batches, t \in Tokens : StartPurchase(i, b, t)
  <2>1. CASE UNCHANGED vars
    BY <2>1 DEF vars
  <2>2. CASE \E b \in Batches : CreateBatch(b) \/ FailExhaustedProxies(b)
    BY <2>2 DEF CreateBatch, FailExhaustedProxies
  <2>3. ASSUME NEW i \in Instances,
               Purchaser(i) \/ Startup(i) \/ Crash(i) \/ \E b \in Batches : StopBatch(i, b)
        PROVE  batchOf' = batchOf
    BY <2>3 DEF Purchaser, ReservePurchase, MarkPurchaseSent, SendGetNumber, ReceiveNumber,
       ReceiveRefusal, ReceiveUnknown, PersistPurchase, FreezePurchase, ReleasePurchase,
       Startup, Restart, StartScheduler, RecoverBatchPurchase, Crash, StopBatch
  <2>4. ASSUME NEW t \in Tokens,
               \/ ProviderRefuse(t) \/ ConcludeNumber(t)
               \/ \E n \in Numbers : ProviderAllocate(t, n)
               \/ Worker(t)
               \/ CancelUnknownNumber(t) \/ CompletePurchaseCleanup(t)
        PROVE  batchOf' = batchOf
    BY <2>4 DEF ProviderRefuse, ConcludeNumber, ProviderAllocate, Worker, ClaimProxy,
       ClassifyActivation, MarkActivationFulfilled, FinishActivation, CancelUnknownNumber,
       CompletePurchaseCleanup
  <2>. QED  BY <2>1, <2>2, <2>3, <2>4 DEF Next
<1>. QED  BY <1>3, <1>4, <1>5

LEMMA Known == Spec => []BatchesKnown
<1>1. Init => BatchesKnown
  <2>1. Init => batchOf = [t \in Tokens |-> NoBatch]
    BY DEF Init
  <2>. QED  BY <2>1 DEF BatchesKnown
<1>2. IInv /\ BatchesKnown /\ [Next]_vars => BatchesKnown'
  BY KnownStep
<1>. QED  BY <1>1, <1>2, Invariance, PTL DEF Spec

\* Whether a token holds a slot of its batch.
Holds(t) == attempt[t] \in UnresolvedState \/ slot[t] = "held"

LEMMA PhaseIs ==
    ASSUME NEW c
    PROVE  /\ status[c] = "absent" => Phase(c) = "absent"
           /\ status[c] = "running" => Phase(c) = "open"
           /\ status[c] \notin {"absent", "running"} => Phase(c) = "closed"
           /\ status'[c] = "absent" => Phase(c)' = "absent"
           /\ status'[c] = "running" => Phase(c)' = "open"
           /\ status'[c] \notin {"absent", "running"} => Phase(c)' = "closed"
BY DEF Phase

LEMMA PhaseSame ==
    ASSUME NEW c, status'[c] = status[c]
    PROVE  Phase(c)' = Phase(c)
BY DEF Phase

LEMMA HoldingIs ==
    ASSUME NEW c
    PROVE  /\ Holding(c) = {t \in Tokens : batchOf[t] = c /\ Holds(t)}
           /\ Holding(c)' = {t \in Tokens : batchOf'[t] = c /\ Holds(t)'}
BY DEF Holding, Unresolved, Working, Attempts, Holds

\* SlotQuota has its own copy of Cardinality, with the same definition.
LEMMA SameCardinality ==
    ASSUME NEW S
    PROVE  Quota!Cardinality(S) = Cardinality(S)
BY DEF Quota!Cardinality, Cardinality

\* The abstract actions, batch by batch.
LEMMA AbstractStutter ==
    ASSUME \A c \in Batches :
               Phase(c)' = Phase(c) /\ Holding(c)' = Holding(c) /\ Fulfilled(c)' = Fulfilled(c),
           \A t \in Tokens : attempt'[t] # "absent" <=> attempt[t] # "absent"
    PROVE  UNCHANGED Quota!quotaVars
<1>1. [c \in Batches |-> Phase(c)]' = [c \in Batches |-> Phase(c)]
  OBVIOUS
<1>2. [c \in Batches |-> Holding(c)]' = [c \in Batches |-> Holding(c)]
  OBVIOUS
<1>3. [c \in Batches |-> Fulfilled(c)]' = [c \in Batches |-> Fulfilled(c)]
  OBVIOUS
<1>4. {t \in Tokens : attempt[t] # "absent"}' = {t \in Tokens : attempt[t] # "absent"}
  OBVIOUS
<1>. QED  BY <1>1, <1>2, <1>3, <1>4 DEF Quota!quotaVars

LEMMA AbstractTake ==
    ASSUME NEW b \in Batches, NEW t \in Tokens, Phase(b) = "open",
           Cardinality(Holding(b)) + Cardinality(Fulfilled(b)) < Quantity[b],
           \A c \in Batches : Phase(c)' = Phase(c) /\ Fulfilled(c)' = Fulfilled(c),
           Holding(b)' = Holding(b) \cup {t},
           \A c \in Batches \ {b} : Holding(c)' = Holding(c),
           attempt[t] = "absent", attempt'[t] # "absent",
           \A u \in Tokens \ {t} : attempt'[u] # "absent" <=> attempt[u] # "absent"
    PROVE  Quota!Next
<1>1. [c \in Batches |-> Phase(c)]' = [c \in Batches |-> Phase(c)]
  OBVIOUS
<1>2. [c \in Batches |-> Holding(c)]'
        = [[c \in Batches |-> Holding(c)] EXCEPT ![b] = @ \cup {t}]
  OBVIOUS
<1>3. [c \in Batches |-> Fulfilled(c)]' = [c \in Batches |-> Fulfilled(c)]
  OBVIOUS
<1>4. {u \in Tokens : attempt[u] # "absent"}' = {u \in Tokens : attempt[u] # "absent"} \cup {t}
  OBVIOUS
<1>5. /\ [c \in Batches |-> Phase(c)][b] = "open"
      /\ [c \in Batches |-> Holding(c)][b] = Holding(b)
      /\ [c \in Batches |-> Fulfilled(c)][b] = Fulfilled(b)
      /\ t \notin {u \in Tokens : attempt[u] # "absent"}
  OBVIOUS
<1>6. Quota!Take(b, t)
  <2>1. Quota!Cardinality([c \in Batches |-> Holding(c)][b])
          + Quota!Cardinality([c \in Batches |-> Fulfilled(c)][b]) < Quantity[b]
    BY <1>5, SameCardinality
  <2>. QED  BY <1>1, <1>2, <1>3, <1>4, <1>5, <2>1 DEF Quota!Take
<1>. QED  BY <1>6 DEF Quota!Next

LEMMA AbstractDrop ==
    ASSUME NEW b \in Batches, NEW t \in Holding(b), t \in Tokens,
           \A c \in Batches : Phase(c)' = Phase(c) /\ Fulfilled(c)' = Fulfilled(c),
           Holding(b)' = Holding(b) \ {t},
           \A c \in Batches \ {b} : Holding(c)' = Holding(c),
           \A u \in Tokens : attempt'[u] # "absent" <=> attempt[u] # "absent"
    PROVE  Quota!Next
<1>1. [c \in Batches |-> Phase(c)]' = [c \in Batches |-> Phase(c)]
  OBVIOUS
<1>2. [c \in Batches |-> Holding(c)]'
        = [[c \in Batches |-> Holding(c)] EXCEPT ![b] = @ \ {t}]
  OBVIOUS
<1>3. [c \in Batches |-> Fulfilled(c)]' = [c \in Batches |-> Fulfilled(c)]
  OBVIOUS
<1>4. {u \in Tokens : attempt[u] # "absent"}' = {u \in Tokens : attempt[u] # "absent"}
  OBVIOUS
<1>5. Quota!Drop(b, t)
  BY <1>1, <1>2, <1>3, <1>4 DEF Quota!Drop
<1>. QED  BY <1>5 DEF Quota!Next

LEMMA AbstractFill ==
    ASSUME NEW b \in Batches, NEW t \in Holding(b), t \in Tokens,
           Phase(b)' = IF Cardinality(Fulfilled(b)) + 1 = Quantity[b] THEN "closed" ELSE Phase(b),
           Holding(b)' = Holding(b) \ {t},
           Fulfilled(b)' = Fulfilled(b) \cup {t},
           \A c \in Batches \ {b} :
               Phase(c)' = Phase(c) /\ Holding(c)' = Holding(c) /\ Fulfilled(c)' = Fulfilled(c),
           \A u \in Tokens : attempt'[u] # "absent" <=> attempt[u] # "absent"
    PROVE  Quota!Next
<1>1. [c \in Batches |-> Phase(c)]'
        = [[c \in Batches |-> Phase(c)] EXCEPT ![b] =
             IF Quota!Cardinality([c \in Batches |-> Fulfilled(c)][b]) + 1 = Quantity[b]
             THEN "closed" ELSE @]
  <2>1. Quota!Cardinality([c \in Batches |-> Fulfilled(c)][b]) = Cardinality(Fulfilled(b))
    BY SameCardinality
  <2>. QED  BY <2>1
<1>2. [c \in Batches |-> Holding(c)]'
        = [[c \in Batches |-> Holding(c)] EXCEPT ![b] = @ \ {t}]
  OBVIOUS
<1>3. [c \in Batches |-> Fulfilled(c)]'
        = [[c \in Batches |-> Fulfilled(c)] EXCEPT ![b] = @ \cup {t}]
  OBVIOUS
<1>4. {u \in Tokens : attempt[u] # "absent"}' = {u \in Tokens : attempt[u] # "absent"}
  OBVIOUS
<1>5. Quota!Fill(b, t)
  <2>1. t \in [c \in Batches |-> Holding(c)][b]
    OBVIOUS
  <2>. QED  BY ONLY <1>1, <1>2, <1>3, <1>4, <2>1 DEF Quota!Fill
<1>. QED  BY <1>5 DEF Quota!Next

LEMMA AbstractClose ==
    ASSUME NEW b \in Batches, NEW R \in SUBSET Tokens, R \subseteq Holding(b),
           Phase(b) # "absent", Phase(b)' = "closed",
           Holding(b)' = Holding(b) \ R,
           \A c \in Batches \ {b} : Phase(c)' = Phase(c) /\ Holding(c)' = Holding(c),
           \A c \in Batches : Fulfilled(c)' = Fulfilled(c),
           \A u \in Tokens : attempt'[u] # "absent" <=> attempt[u] # "absent"
    PROVE  Quota!Next
<1>1. [c \in Batches |-> Phase(c)]' = [[c \in Batches |-> Phase(c)] EXCEPT ![b] = "closed"]
  OBVIOUS
<1>2. [c \in Batches |-> Holding(c)]'
        = [[c \in Batches |-> Holding(c)] EXCEPT ![b] = @ \ R]
  OBVIOUS
<1>3. [c \in Batches |-> Fulfilled(c)]' = [c \in Batches |-> Fulfilled(c)]
  OBVIOUS
<1>4. {u \in Tokens : attempt[u] # "absent"}' = {u \in Tokens : attempt[u] # "absent"}
  OBVIOUS
<1>5. Quota!Close(b, R)
  BY <1>1, <1>2, <1>3, <1>4 DEF Quota!Close
<1>. QED  BY <1>5 DEF Quota!Next

LEMMA AbstractOpen ==
    ASSUME NEW b \in Batches, Phase(b) = "absent", Phase(b)' = "open",
           \A c \in Batches \ {b} : Phase(c)' = Phase(c),
           \A c \in Batches : Holding(c)' = Holding(c) /\ Fulfilled(c)' = Fulfilled(c),
           \A u \in Tokens : attempt'[u] # "absent" <=> attempt[u] # "absent"
    PROVE  Quota!Next
<1>1. [c \in Batches |-> Phase(c)]' = [[c \in Batches |-> Phase(c)] EXCEPT ![b] = "open"]
  OBVIOUS
<1>2. [c \in Batches |-> Holding(c)]' = [c \in Batches |-> Holding(c)]
  OBVIOUS
<1>3. [c \in Batches |-> Fulfilled(c)]' = [c \in Batches |-> Fulfilled(c)]
  OBVIOUS
<1>4. {u \in Tokens : attempt[u] # "absent"}' = {u \in Tokens : attempt[u] # "absent"}
  OBVIOUS
<1>5. Quota!OpenBatch(b)
  BY <1>1, <1>2, <1>3, <1>4 DEF Quota!OpenBatch
<1>. QED  BY <1>5 DEF Quota!Next

\* The rows a step may change without the abstract state noticing.
LEMMA RowsStutter ==
    ASSUME UNCHANGED batchOf,
           \A c \in Batches : Phase(c)' = Phase(c),
           \A t \in Tokens : /\ Holds(t)' <=> Holds(t)
                             /\ slot'[t] = "fulfilled" <=> slot[t] = "fulfilled"
                             /\ attempt'[t] # "absent" <=> attempt[t] # "absent"
    PROVE  UNCHANGED Quota!quotaVars
<1>1. ASSUME NEW c \in Batches
      PROVE  Holding(c)' = Holding(c) /\ Fulfilled(c)' = Fulfilled(c)
  BY HoldingIs DEF Fulfilled, Attempts
<1>. QED  BY <1>1, AbstractStutter

LEMMA LedgerStutter ==
    ASSUME UNCHANGED <<ledger, batchOf>>
    PROVE  UNCHANGED Quota!quotaVars
<1>1. UNCHANGED <<status, attempt, slot, batchOf>>
  BY DEF ledger, batchVars, attemptVars, actVars
<1>2. \A c \in Batches : Phase(c)' = Phase(c)
  BY <1>1, PhaseSame
<1>. QED  BY <1>1, <1>2, RowsStutter DEF Holds

\* Only attempt rows change: the tokens that hold a slot decide the step.
LEMMA AttemptStutter ==
    ASSUME UNCHANGED <<status, slot, batchOf>>,
           \A t \in Tokens :
               \/ attempt'[t] = attempt[t]
               \/ attempt[t] \in UnresolvedState /\ attempt'[t] \in UnresolvedState
    PROVE  UNCHANGED Quota!quotaVars
<1>1. \A c \in Batches : Phase(c)' = Phase(c)
  BY PhaseSame
<1>2. \A t \in Tokens : /\ Holds(t)' <=> Holds(t)
                        /\ attempt'[t] # "absent" <=> attempt[t] # "absent"
  BY DEF Holds, UnresolvedState
<1>. QED  BY <1>1, <1>2, RowsStutter

\* The slots of a batch are no more than its counters say.
LEMMA SlotsCounted ==
    ASSUME IInv, NEW b \in Batches, fulfilled[b] + inflight[b] + reserved[b] < Quantity[b]
    PROVE  Cardinality(Holding(b)) + Cardinality(Fulfilled(b)) < Quantity[b]
<1>1. /\ IsFiniteSet(Unresolved(b)) /\ IsFiniteSet(Working(b))
      /\ Cardinality(Unresolved(b)) \in Nat /\ Cardinality(Working(b)) \in Nat
  BY CountedFinite
<1>2. /\ reserved[b] = Cardinality(Unresolved(b)) /\ inflight[b] = Cardinality(Working(b))
      /\ fulfilled[b] = Cardinality(Fulfilled(b))
  BY IInvParts DEF LedgerInv, CountersMatch
<1>3. /\ IsFiniteSet(Holding(b))
      /\ Cardinality(Holding(b)) = Cardinality(Unresolved(b)) + Cardinality(Working(b))
                                   - Cardinality(Unresolved(b) \cap Working(b))
  BY <1>1, FS_Union DEF Holding
<1>4. Cardinality(Unresolved(b) \cap Working(b)) \in Nat /\ Cardinality(Holding(b)) \in Nat
  BY <1>1, <1>3, FS_Intersection, FS_CardinalityType
<1>5. fulfilled[b] \in Nat /\ Quantity[b] \in Nat
  BY CounterTypes DEF IInv
<1>. QED  BY <1>1, <1>2, <1>3, <1>4, <1>5

\* A fresh reservation takes a slot.
LEMMA ReserveTakes ==
    ASSUME IInv, BatchesKnown, NEW b \in Batches, NEW t \in Tokens, batchOf[t] = b,
           ~ReserveRefused(b, t), ReserveTx(b, t), UNCHANGED batchOf
    PROVE  [Quota!Next]_(Quota!quotaVars)
<1>0. LedgerType
  BY IInvParts
<1>1. UNCHANGED <<status, slot, batchOf>>
  BY DEF ReserveTx, actVars
<1>2. CASE attempt[t] # "absent"
  <2>1. attempt' = attempt
    BY <1>2 DEF ReserveTx
  <2>. QED  BY <1>1, <2>1, AttemptStutter
<1>3. CASE attempt[t] = "absent"
  <2>1. /\ attempt' = [attempt EXCEPT ![t] = "reserved"]
        /\ ~Terminal(b)
        /\ ~(fulfilled[b] + inflight[b] + reserved[b] >= Quantity[b])
    BY <1>3 DEF ReserveTx, ReserveRefused
  <2>2. attempt'[t] = "reserved" /\ \A u \in Tokens \ {t} : attempt'[u] = attempt[u]
    BY <1>0, <2>1 DEF LedgerType
  <2>3. Cardinality(Holding(b)) + Cardinality(Fulfilled(b)) < Quantity[b]
    <3>1. fulfilled[b] + inflight[b] + reserved[b] < Quantity[b]
      BY <2>1, CounterTypes DEF IInv
    <3>. QED  BY <3>1, SlotsCounted
  <2>4. Phase(b) = "open"
    <3>1. status[b] \in BatchStatus /\ status[b] # "absent"
      BY <1>0, NullAssumption DEF LedgerType, BatchesKnown
    <3>. QED  BY <2>1, <3>1, PhaseIs DEF BatchStatus, Terminal
  <2>5. \A c \in Batches : Phase(c)' = Phase(c) /\ Fulfilled(c)' = Fulfilled(c)
    BY <1>1, PhaseSame DEF Fulfilled, Attempts
  <2>6. Holds(t)' /\ \A u \in Tokens \ {t} : Holds(u)' <=> Holds(u)
    BY <1>1, <2>2 DEF Holds, UnresolvedState
  <2>7. Holding(b)' = Holding(b) \cup {t}
    BY <1>1, <2>6, HoldingIs
  <2>8. \A c \in Batches \ {b} : Holding(c)' = Holding(c)
    BY <1>1, <2>6, HoldingIs
  <2>. QED  BY <1>3, <2>2, <2>3, <2>4, <2>5, <2>7, <2>8, AbstractTake
<1>. QED  BY <1>2, <1>3

\* A released attempt drops its slot; a repeated release changes nothing.
LEMMA ReleaseDrops ==
    ASSUME IInv, NEW b \in Batches, NEW t \in Tokens, batchOf[t] = b,
           ReleaseTx(b, t), UNCHANGED batchOf
    PROVE  [Quota!Next]_(Quota!quotaVars)
<1>0. LedgerType
  BY IInvParts
<1>1. UNCHANGED <<status, slot, batchOf>>
  BY DEF ReleaseTx, actVars
<1>2. CASE attempt[t] \notin {"reserved", "sent"}
  <2>1. attempt' = attempt
    BY <1>2 DEF ReleaseTx
  <2>. QED  BY <1>1, <2>1, AttemptStutter
<1>3. CASE attempt[t] \in {"reserved", "sent"}
  <2>1. attempt' = [attempt EXCEPT ![t] = "released"]
    BY <1>3 DEF ReleaseTx
  <2>2. attempt'[t] = "released" /\ \A u \in Tokens \ {t} : attempt'[u] = attempt[u]
    BY <1>0, <2>1 DEF LedgerType
  <2>3. slot[t] # "held"
    BY <1>3, IInvParts DEF LedgerInv, RowsConsistent
  <2>4. Holds(t) /\ ~Holds(t)' /\ \A u \in Tokens \ {t} : Holds(u)' <=> Holds(u)
    BY <1>1, <1>3, <2>2, <2>3 DEF Holds, UnresolvedState
  <2>5. \A c \in Batches : Phase(c)' = Phase(c) /\ Fulfilled(c)' = Fulfilled(c)
    BY <1>1, PhaseSame DEF Fulfilled, Attempts
  <2>6. t \in Holding(b) /\ Holding(b)' = Holding(b) \ {t}
    BY <1>1, <2>4, HoldingIs
  <2>7. \A c \in Batches \ {b} : Holding(c)' = Holding(c)
    BY <1>1, <2>4, HoldingIs
  <2>8. \A u \in Tokens : attempt'[u] # "absent" <=> attempt[u] # "absent"
    BY <1>3, <2>2
  <2>. QED  BY <2>5, <2>6, <2>7, <2>8, AbstractDrop
<1>. QED  BY <1>2, <1>3

\* A persisted number keeps the slot of its request.
LEMMA PersistKeeps ==
    ASSUME IInv, NEW b \in Batches, NEW t \in Tokens, NEW n,
           ~PersistRefused(b, t, n), PersistTx(b, t, n), UNCHANGED batchOf
    PROVE  [Quota!Next]_(Quota!quotaVars)
<1>0. LedgerType
  BY IInvParts
<1>1. CASE attempt[t] = "committed"
  BY <1>1, LedgerStutter DEF PersistTx
<1>2. CASE attempt[t] # "committed"
  <2>1. /\ attempt[t] = "sent"
        /\ attempt' = [attempt EXCEPT ![t] = "committed"]
        /\ slot' = [slot EXCEPT ![t] = "held"]
        /\ UNCHANGED status
    BY <1>2 DEF PersistRefused, PersistTx
  <2>2. /\ attempt'[t] = "committed" /\ slot'[t] = "held"
        /\ \A u \in Tokens \ {t} : attempt'[u] = attempt[u] /\ slot'[u] = slot[u]
    BY <1>0, <2>1 DEF LedgerType
  <2>3. slot[t] # "fulfilled"
    BY <2>1, IInvParts DEF LedgerInv, RowsConsistent
  <2>4. \A u \in Tokens : /\ Holds(u)' <=> Holds(u)
                          /\ slot'[u] = "fulfilled" <=> slot[u] = "fulfilled"
                          /\ attempt'[u] # "absent" <=> attempt[u] # "absent"
    BY <2>1, <2>2, <2>3 DEF Holds, UnresolvedState
  <2>5. \A c \in Batches : Phase(c)' = Phase(c)
    BY <2>1, PhaseSame
  <2>. QED  BY <2>4, <2>5, RowsStutter
<1>. QED  BY <1>1, <1>2

\* A freeze keeps the slot and closes the batch it stops.
LEMMA FreezeCloses ==
    ASSUME IInv, NEW b \in Batches, NEW t \in Tokens, NEW n,
           ~FreezeRefused(t, n), FreezeTx(b, t, n), UNCHANGED batchOf
    PROVE  [Quota!Next]_(Quota!quotaVars)
<1>0. LedgerType
  BY IInvParts
<1>1. slot' = slot
  BY DEF FreezeTx, actVars
<1>2. \A u \in Tokens : \/ attempt'[u] = attempt[u]
                        \/ attempt[u] \in UnresolvedState /\ attempt'[u] \in UnresolvedState
  BY FreezeAttempt DEF IInv, UnresolvedState
<1>3. CASE status' = status
  BY <1>1, <1>2, <1>3, AttemptStutter
<1>4. CASE status[b] = "running" /\ status' = [status EXCEPT ![b] = "failed"]
  <2>1. status'[b] = "failed" /\ \A c \in Batches \ {b} : status'[c] = status[c]
    BY <1>0, <1>4 DEF LedgerType
  <2>2. Phase(b) # "absent" /\ Phase(b)' = "closed"
    BY <1>4, <2>1, PhaseIs
  <2>3. \A u \in Tokens : /\ Holds(u)' <=> Holds(u)
                          /\ attempt'[u] # "absent" <=> attempt[u] # "absent"
    BY <1>1, <1>2 DEF Holds, UnresolvedState
  <2>4. \A c \in Batches : Holding(c)' = Holding(c) /\ Fulfilled(c)' = Fulfilled(c)
    BY <1>1, <2>3, HoldingIs DEF Fulfilled, Attempts
  <2>5. \A c \in Batches \ {b} : Phase(c)' = Phase(c)
    BY <2>1, PhaseSame
  <2>6. Holding(b)' = Holding(b) \ {} /\ {} \in SUBSET Tokens /\ {} \subseteq Holding(b)
    BY <2>4
  <2>. QED  BY <2>2, <2>3, <2>4, <2>5, <2>6, AbstractClose
<1>5. status' = status \/ (status[b] = "running" /\ status' = [status EXCEPT ![b] = "failed"])
  <2>1. \/ status' = status
        \/ status' = [status EXCEPT ![b] = IF status[b] = "running" THEN "failed" ELSE status[b]]
    BY DEF FreezeTx, StopBuying
  <2>2. status \in [Batches -> BatchStatus]
    BY <1>0 DEF LedgerType
  <2>. QED  BY <2>1, <2>2
<1>. QED  BY <1>3, <1>4, <1>5

LEMMA PurchaserRefines ==
    ASSUME IInv, BatchesKnown, NEW i \in Instances, Purchaser(i)
    PROVE  [Quota!Next]_(Quota!quotaVars)
<1>0. LedgerType
  BY IInvParts
<1>1. CASE UNCHANGED <<ledger, batchOf>>
  BY <1>1, LedgerStutter
<1>2. CASE SendGetNumber(i) \/ ReceiveNumber(i) \/ ReceiveRefusal(i) \/ ReceiveUnknown(i)
  BY <1>1, <1>2 DEF SendGetNumber, ReceiveNumber, ReceiveRefusal, ReceiveUnknown
<1>3. ASSUME NEW t \in Tokens, NEW b, UNCHANGED batchOf,
             ~MarkSentRefused(b, t), MarkSentTx(t)
      PROVE  [Quota!Next]_(Quota!quotaVars)
  <2>1. /\ attempt[t] \in {"reserved", "sent"}
        /\ attempt' = [attempt EXCEPT ![t] = "sent"]
        /\ UNCHANGED <<status, slot>>
    BY <1>3 DEF MarkSentRefused, MarkSentTx, batchVars, actVars
  <2>2. \A u \in Tokens : \/ attempt'[u] = attempt[u]
                          \/ attempt[u] \in UnresolvedState /\ attempt'[u] \in UnresolvedState
    BY <1>0, <2>1 DEF LedgerType, UnresolvedState
  <2>. QED  BY <1>3, <2>1, <2>2, AttemptStutter
<1>4. CASE ReservePurchase(i)
  <2>1. PICK t \in Tokens, b \in Batches : tok[i] = t /\ batchOf[t] = b
    BY <1>4, PurchaserToken DEF ReservePurchase
  <2>2. UNCHANGED batchOf /\ (UNCHANGED ledger \/ (~ReserveRefused(b, t) /\ ReserveTx(b, t)))
    BY <1>4, <2>1 DEF ReservePurchase
  <2>. QED  BY <1>1, <2>1, <2>2, ReserveTakes
<1>5. CASE MarkPurchaseSent(i)
  <2>1. PICK t \in Tokens, b \in Batches : tok[i] = t /\ batchOf[t] = b
    BY <1>5, PurchaserToken DEF MarkPurchaseSent
  <2>2. UNCHANGED batchOf /\ (UNCHANGED ledger \/ (~MarkSentRefused(b, t) /\ MarkSentTx(t)))
    BY <1>5, <2>1 DEF MarkPurchaseSent
  <2>. QED  BY <1>1, <1>3, <2>2
<1>6. CASE ReleasePurchase(i)
  <2>1. PICK t \in Tokens, b \in Batches : tok[i] = t /\ batchOf[t] = b
    BY <1>6, PurchaserToken DEF ReleasePurchase
  <2>2. UNCHANGED batchOf /\ (UNCHANGED ledger \/ ReleaseTx(b, t))
    BY <1>6, <2>1 DEF ReleasePurchase
  <2>. QED  BY <1>1, <2>1, <2>2, ReleaseDrops
<1>7. CASE PersistPurchase(i)
  <2>1. PICK t \in Tokens, b \in Batches : tok[i] = t /\ batchOf[t] = b
    BY <1>7, PurchaserToken DEF PersistPurchase
  <2>2. /\ UNCHANGED batchOf
        /\ UNCHANGED ledger \/ \E n : ~PersistRefused(b, t, n) /\ PersistTx(b, t, n)
    BY <1>7, <2>1 DEF PersistPurchase
  <2>. QED  BY <1>1, <2>2, PersistKeeps
<1>8. CASE FreezePurchase(i)
  <2>1. PICK t \in Tokens, b \in Batches : tok[i] = t /\ batchOf[t] = b
    BY <1>8, PurchaserToken DEF FreezePurchase
  <2>2. /\ UNCHANGED batchOf
        /\ UNCHANGED ledger \/ \E n : ~FreezeRefused(t, n) /\ FreezeTx(b, t, n)
    BY <1>8, <2>1 DEF FreezePurchase
  <2>. QED  BY <1>1, <2>2, FreezeCloses
<1>. QED  BY <1>2, <1>4, <1>5, <1>6, <1>7, <1>8 DEF Purchaser

LEMMA InstanceRefines ==
    ASSUME IInv, NEW i \in Instances,
           \/ Startup(i) \/ Crash(i)
           \/ \E b \in Batches, t \in Tokens : StartPurchase(i, b, t)
    PROVE  [Quota!Next]_(Quota!quotaVars)
<1>0. LedgerType
  BY IInvParts
<1>1. CASE UNCHANGED <<ledger, batchOf>>
  BY <1>1, LedgerStutter
<1>2. CASE Crash(i) \/ Restart(i) \/ StartScheduler(i)
  BY <1>1, <1>2 DEF Crash, Restart, StartScheduler
<1>3. ASSUME NEW b \in Batches, RecoverBatchPurchase(i, b)
      PROVE  [Quota!Next]_(Quota!quotaVars)
  <2>1. UNCHANGED batchOf /\ (UNCHANGED ledger \/ RecoverTx(b))
    BY <1>3 DEF RecoverBatchPurchase
  <2>2. CASE RecoverTx(b)
    <3>1. UNCHANGED <<status, slot>>
      BY <2>2 DEF RecoverTx, batchVars, actVars
    <3>2. \A u \in Tokens : \/ attempt'[u] = attempt[u]
                            \/ attempt[u] \in UnresolvedState /\ attempt'[u] \in UnresolvedState
      BY <2>2 DEF RecoverTx, UnresolvedState
    <3>. QED  BY <2>1, <3>1, <3>2, AttemptStutter
  <2>. QED  BY <1>1, <2>1, <2>2
<1>4. ASSUME NEW b \in Batches, NEW t \in Tokens, StartPurchase(i, b, t)
      PROVE  [Quota!Next]_(Quota!quotaVars)
  <2>1. /\ batchOf[t] = NoBatch
        /\ batchOf' = [batchOf EXCEPT ![t] = b]
        /\ UNCHANGED <<status, attempt, slot>>
    BY <1>4 DEF StartPurchase, ledger, batchVars, attemptVars, actVars
  <2>2. attempt[t] = "absent" /\ slot[t] = "none"
    BY <2>1, IInvParts DEF LedgerInv, RowsConsistent
  <2>3. ~Holds(t) /\ \A u \in Tokens : Holds(u)' <=> Holds(u)
    BY <2>1, <2>2 DEF Holds, UnresolvedState
  <2>4. \A u \in Tokens \ {t} : batchOf'[u] = batchOf[u]
    BY <1>0, <2>1 DEF LedgerType
  <2>5. ASSUME NEW c \in Batches
        PROVE  Holding(c)' = Holding(c) /\ Fulfilled(c)' = Fulfilled(c) /\ Phase(c)' = Phase(c)
    <3>1. Holding(c)' = Holding(c)
      BY <2>3, <2>4, HoldingIs
    <3>2. Fulfilled(c)' = Fulfilled(c)
      BY <2>1, <2>2, <2>4 DEF Fulfilled, Attempts
    <3>. QED  BY <2>1, <3>1, <3>2, PhaseSame
  <2>. QED  BY <2>1, <2>5, AbstractStutter
<1>. QED  BY <1>2, <1>3, <1>4 DEF Startup

\* Stop closes the batch and drops the reservation it releases.
LEMMA StopCloses ==
    ASSUME IInv, NEW i \in Instances, NEW b \in Batches, StopBatch(i, b)
    PROVE  [Quota!Next]_(Quota!quotaVars)
<1>0. LedgerType
  BY IInvParts
<1> DEFINE dropped == {t \in Attempts(b) : attempt[t] = "reserved"}
<1>1. /\ attempt' = [t \in Tokens |-> IF t \in dropped THEN "released" ELSE attempt[t]]
      /\ status' = [status EXCEPT ![b] = IF status[b] = "running" THEN "cancelled" ELSE status[b]]
      /\ status[b] # "absent"
      /\ UNCHANGED <<slot, batchOf>>
  BY DEF StopBatch
<1>2. /\ status'[b] \notin {"absent", "running"}
      /\ \A c \in Batches \ {b} : status'[c] = status[c]
  BY <1>0, <1>1 DEF LedgerType
<1>3. Phase(b) # "absent" /\ Phase(b)' = "closed" /\ \A c \in Batches \ {b} : Phase(c)' = Phase(c)
  <2>1. Phase(b) # "absent"
    BY <1>1, PhaseIs
  <2>. QED  BY <1>2, <2>1, PhaseIs, PhaseSame
<1>4. \A t \in dropped : t \in Tokens /\ batchOf[t] = b /\ attempt[t] = "reserved" /\ slot[t] # "held"
  BY IInvParts DEF Attempts, LedgerInv, RowsConsistent
<1>5. ASSUME NEW t \in Tokens
      PROVE  /\ t \in dropped => Holds(t) /\ ~Holds(t)'
             /\ t \notin dropped => (Holds(t)' <=> Holds(t))
             /\ attempt'[t] # "absent" <=> attempt[t] # "absent"
  <2>1. CASE t \in dropped
    <3>1. attempt'[t] = "released" /\ slot'[t] = slot[t]
      BY <1>1, <2>1
    <3>. QED  BY <1>4, <2>1, <3>1 DEF Holds, UnresolvedState
  <2>2. CASE t \notin dropped
    <3>1. attempt'[t] = attempt[t] /\ slot'[t] = slot[t]
      BY <1>1, <2>2
    <3>. QED  BY <2>2, <3>1 DEF Holds
  <2>. QED  BY <2>1, <2>2
<1>. HIDE DEF dropped
<1>6. dropped \in SUBSET Tokens /\ dropped \subseteq Holding(b) /\ Holding(b)' = Holding(b) \ dropped
  <2>1. dropped \in SUBSET Tokens
    BY <1>4
  <2>2. dropped \subseteq Holding(b)
    BY <1>4, <1>5, HoldingIs
  <2>3. ASSUME NEW t \in Tokens
        PROVE  t \in Holding(b)' <=> t \in Holding(b) /\ t \notin dropped
    <3>1. batchOf'[t] = batchOf[t]
      BY <1>1
    <3>. QED  BY <1>5, <2>3, <3>1, HoldingIs
  <2>4. Holding(b) \subseteq Tokens /\ Holding(b)' \subseteq Tokens
    BY HoldingIs
  <2>. QED  BY <2>1, <2>2, <2>3, <2>4
<1>7. ASSUME NEW c \in Batches \ {b}
      PROVE  Holding(c)' = Holding(c)
  <2>1. ASSUME NEW t \in Tokens
        PROVE  t \in Holding(c)' <=> t \in Holding(c)
    <3>1. batchOf'[t] = batchOf[t] /\ (batchOf[t] = c => t \notin dropped)
      BY <1>1, <1>4
    <3>. QED  BY <1>5, <2>1, <3>1, HoldingIs
  <2>2. Holding(c) \subseteq Tokens /\ Holding(c)' \subseteq Tokens
    BY HoldingIs
  <2>. QED  BY <2>1, <2>2
<1>8. \A c \in Batches : Fulfilled(c)' = Fulfilled(c)
  BY <1>1 DEF Fulfilled, Attempts
<1>. QED  BY <1>3, <1>5, <1>6, <1>7, <1>8, AbstractClose

LEMMA BatchRefines ==
    ASSUME IInv, NEW b \in Batches, CreateBatch(b) \/ FailExhaustedProxies(b)
    PROVE  [Quota!Next]_(Quota!quotaVars)
<1>0. LedgerType
  BY IInvParts
<1>1. UNCHANGED <<attempt, slot, batchOf>>
  BY DEF CreateBatch, FailExhaustedProxies, attemptVars, actVars
<1>2. \A c \in Batches : Holding(c)' = Holding(c) /\ Fulfilled(c)' = Fulfilled(c)
  BY <1>1, HoldingIs DEF Fulfilled, Attempts, Holds
<1>3. CASE CreateBatch(b)
  <2>1. status[b] = "absent" /\ status' = [status EXCEPT ![b] = "running"]
    BY <1>3 DEF CreateBatch
  <2>2. status'[b] = "running" /\ \A c \in Batches \ {b} : status'[c] = status[c]
    BY <1>0, <2>1 DEF LedgerType
  <2>3. Phase(b) = "absent" /\ Phase(b)' = "open"
    BY <2>1, <2>2, PhaseIs
  <2>4. \A c \in Batches \ {b} : Phase(c)' = Phase(c)
    BY <2>2, PhaseSame
  <2>. QED  BY <1>1, <1>2, <2>3, <2>4, AbstractOpen
<1>4. CASE FailExhaustedProxies(b)
  <2>1. status[b] = "running" /\ status' = [status EXCEPT ![b] = "failed"]
    BY <1>4 DEF FailExhaustedProxies, Active
  <2>2. status'[b] = "failed" /\ \A c \in Batches \ {b} : status'[c] = status[c]
    BY <1>0, <2>1 DEF LedgerType
  <2>3. Phase(b) # "absent" /\ Phase(b)' = "closed"
    BY <2>1, <2>2, PhaseIs
  <2>4. \A c \in Batches \ {b} : Phase(c)' = Phase(c)
    BY <2>2, PhaseSame
  <2>5. Holding(b)' = Holding(b) \ {} /\ {} \in SUBSET Tokens /\ {} \subseteq Holding(b)
    BY <1>2
  <2>. QED  BY <1>1, <1>2, <2>3, <2>4, <2>5, AbstractClose
<1>. QED  BY <1>3, <1>4

\* A success uses its slot up; the last one closes the batch.
LEMMA SuccessFills ==
    ASSUME IInv, BatchesKnown, NEW t \in Tokens, MarkActivationFulfilled(t)
    PROVE  [Quota!Next]_(Quota!quotaVars)
<1>0. LedgerType
  BY IInvParts
<1>1. PICK b \in Batches : batchOf[t] = b
  BY ActivationBatch DEF MarkActivationFulfilled, IInv
<1>2. /\ slot[t] = "held" /\ slot' = [slot EXCEPT ![t] = "fulfilled"]
      /\ ReleaseSlot(b, TRUE)
      /\ UNCHANGED <<attempt, batchOf>>
  BY <1>1 DEF MarkActivationFulfilled, attemptVars
<1>3. slot'[t] = "fulfilled" /\ \A u \in Tokens \ {t} : slot'[u] = slot[u]
  BY <1>0, <1>2 DEF LedgerType
<1>4. attempt[t] = "committed"
  BY <1>2, IInvParts DEF LedgerInv, RowsConsistent
<1>5. Holds(t) /\ ~Holds(t)' /\ \A u \in Tokens \ {t} : Holds(u)' <=> Holds(u)
  BY <1>2, <1>3, <1>4 DEF Holds, UnresolvedState
<1>6. /\ t \in Holding(b) /\ Holding(b)' = Holding(b) \ {t}
      /\ \A c \in Batches \ {b} : Holding(c)' = Holding(c)
  BY <1>1, <1>2, <1>5, HoldingIs
<1>7. /\ Fulfilled(b)' = Fulfilled(b) \cup {t}
      /\ \A c \in Batches \ {b} : Fulfilled(c)' = Fulfilled(c)
  BY <1>1, <1>2, <1>3 DEF Fulfilled, Attempts
<1>8. /\ fulfilled[b] = Cardinality(Fulfilled(b)) /\ fulfilled[b] \in Nat
      /\ Quantity[b] \in Nat /\ fulfilled[b] < Quantity[b]
  BY <1>2, IInvParts, CounterTypes DEF IInv, LedgerInv, CountersMatch, ReleaseSlot
<1>9. status[b] \in BatchStatus \ {"absent"}
  BY <1>0, <1>1, NullAssumption DEF LedgerType, BatchesKnown
<1>10. status' = [status EXCEPT ![b] =
          IF status[b] = "running" /\ fulfilled[b] + 1 >= Quantity[b] THEN "completed" ELSE status[b]]
  BY <1>2 DEF ReleaseSlot
<1>11. \A c \in Batches \ {b} : Phase(c)' = Phase(c)
  <2>1. \A c \in Batches \ {b} : status'[c] = status[c]
    BY <1>0, <1>10 DEF LedgerType
  <2>. QED  BY <2>1, PhaseSame
<1>12. Phase(b)' = IF Cardinality(Fulfilled(b)) + 1 = Quantity[b] THEN "closed" ELSE Phase(b)
  <2>1. CASE fulfilled[b] + 1 = Quantity[b]
    <3>1. status'[b] \notin {"absent", "running"}
      <4>1. fulfilled[b] + 1 >= Quantity[b]
        BY <1>8, <2>1
      <4>2. status' = [status EXCEPT ![b] = IF status[b] = "running" THEN "completed" ELSE status[b]]
        BY <1>10, <4>1
      <4>. QED  BY <1>0, <1>9, <4>2 DEF LedgerType
    <3>. QED  BY <1>8, <2>1, <3>1, PhaseIs
  <2>2. CASE fulfilled[b] + 1 # Quantity[b]
    <3>1. ~(fulfilled[b] + 1 >= Quantity[b])
      BY <1>8, <2>2
    <3>2. status'[b] = status[b]
      BY <1>0, <1>10, <3>1 DEF LedgerType
    <3>. QED  BY <1>8, <2>2, <3>2, PhaseSame
  <2>. QED  BY <2>1, <2>2
<1>. QED  BY <1>2, <1>6, <1>7, <1>11, <1>12, AbstractFill

\* A finished activation gives back the slot it still held.
LEMMA FinishDrops ==
    ASSUME IInv, NEW t \in Tokens, FinishActivation(t)
    PROVE  [Quota!Next]_(Quota!quotaVars)
<1>0. LedgerType
  BY IInvParts
<1>1. PICK b \in Batches : batchOf[t] = b
  BY ActivationBatch DEF FinishActivation, IInv
<1>2. UNCHANGED <<status, attempt, batchOf>>
  BY DEF FinishActivation, ReleaseSlot, attemptVars
<1>3. CASE slot[t] # "held"
  <2>1. slot' = slot
    BY <1>3 DEF FinishActivation
  <2>. QED  BY <1>2, <2>1, AttemptStutter
<1>4. CASE slot[t] = "held"
  <2>1. slot' = [slot EXCEPT ![t] = "released"]
    BY <1>4 DEF FinishActivation
  <2>2. slot'[t] = "released" /\ \A u \in Tokens \ {t} : slot'[u] = slot[u]
    BY <1>0, <2>1 DEF LedgerType
  <2>3. attempt[t] = "committed"
    BY <1>4, IInvParts DEF LedgerInv, RowsConsistent
  <2>4. Holds(t) /\ ~Holds(t)' /\ \A u \in Tokens \ {t} : Holds(u)' <=> Holds(u)
    BY <1>2, <1>4, <2>2, <2>3 DEF Holds, UnresolvedState
  <2>5. \A u \in Tokens : slot'[u] = "fulfilled" <=> slot[u] = "fulfilled"
    BY <1>4, <2>2
  <2>6. \A c \in Batches : Phase(c)' = Phase(c) /\ Fulfilled(c)' = Fulfilled(c)
    BY <1>2, <2>5, PhaseSame DEF Fulfilled, Attempts
  <2>7. /\ t \in Holding(b) /\ Holding(b)' = Holding(b) \ {t}
        /\ \A c \in Batches \ {b} : Holding(c)' = Holding(c)
    BY <1>1, <1>2, <2>4, HoldingIs
  <2>. QED  BY <1>2, <2>6, <2>7, AbstractDrop
<1>. QED  BY <1>3, <1>4

LEMMA TokenRefines ==
    ASSUME IInv, BatchesKnown, NEW t \in Tokens,
           \/ ProviderRefuse(t) \/ ConcludeNumber(t)
           \/ \E n \in Numbers : ProviderAllocate(t, n)
           \/ Worker(t)
           \/ CancelUnknownNumber(t) \/ CompletePurchaseCleanup(t)
    PROVE  [Quota!Next]_(Quota!quotaVars)
<1>1. CASE \/ ProviderRefuse(t) \/ ConcludeNumber(t) \/ CancelUnknownNumber(t)
           \/ \E n \in Numbers : ProviderAllocate(t, n)
  BY <1>1, LedgerStutter
  DEF ProviderRefuse, ConcludeNumber, CancelUnknownNumber, ProviderAllocate
<1>2. CASE ClaimProxy(t) \/ ClassifyActivation(t) \/ CompletePurchaseCleanup(t)
  <2>1. UNCHANGED <<status, attempt, slot, batchOf>>
    BY <1>2 DEF ClaimProxy, ClassifyActivation, CompletePurchaseCleanup,
       batchVars, attemptVars, actVars
  <2>. QED  BY <2>1, AttemptStutter
<1>. QED  BY <1>1, <1>2, SuccessFills, FinishDrops DEF Worker

LEMMA StepRefines ==
    ASSUME IInv, BatchesKnown, [Next]_vars
    PROVE  [Quota!Next]_(Quota!quotaVars)
<1>1. CASE UNCHANGED vars
  BY <1>1, LedgerStutter DEF vars
<1>2. CASE \E b \in Batches : CreateBatch(b) \/ FailExhaustedProxies(b)
  BY <1>2, BatchRefines
<1>3. ASSUME NEW i \in Instances,
             \/ Purchaser(i) \/ Startup(i) \/ Crash(i)
             \/ \E b \in Batches : StopBatch(i, b)
             \/ \E b \in Batches, t \in Tokens : StartPurchase(i, b, t)
      PROVE  [Quota!Next]_(Quota!quotaVars)
  BY <1>3, PurchaserRefines, InstanceRefines, StopCloses
<1>4. ASSUME NEW t \in Tokens,
             \/ ProviderRefuse(t) \/ ConcludeNumber(t)
             \/ \E n \in Numbers : ProviderAllocate(t, n)
             \/ Worker(t)
             \/ CancelUnknownNumber(t) \/ CompletePurchaseCleanup(t)
      PROVE  [Quota!Next]_(Quota!quotaVars)
  BY <1>4, TokenRefines
<1>. QED  BY <1>1, <1>2, <1>3, <1>4 DEF Next

\* The protocol, its recovery, Stop and the workers take, keep, drop and fill
\* slots only as SlotQuota allows.
THEOREM RefinesSlotQuota == Spec => ImplementsSlotQuota
<1>1. Init => Quota!Init
  <2>1. SUFFICES ASSUME Init PROVE Quota!Init
    OBVIOUS
  <2>2. ASSUME NEW c \in Batches
        PROVE  Phase(c) = "absent" /\ Holding(c) = {} /\ Fulfilled(c) = {}
    <3>1. status[c] = "absent" /\ \A t \in Tokens : batchOf[t] # c
      BY <2>1, NullAssumption DEF Init
    <3>. QED  BY <3>1, PhaseIs, HoldingIs DEF Fulfilled, Attempts
  <2>3. {t \in Tokens : attempt[t] # "absent"} = {}
    BY <2>1 DEF Init
  <2>. QED  BY <2>2, <2>3 DEF Quota!Init
<1>2. IInv /\ BatchesKnown /\ [Next]_vars => [Quota!Next]_(Quota!quotaVars)
  BY StepRefines
<1>. QED  BY <1>1, <1>2, Invariance, Known, PTL DEF Spec, ImplementsSlotQuota, Quota!Spec

-----------------------------------------------------------------------------
(* Stop against the send fence.  With one scheduler process nothing ends a  *)
(* batch between the fence and the request; with two, startup recovery does *)
(* (the run stop_under_recovery shows how).                                 *)

\* A purchaser about to call GetNumber has a fenced attempt and a live batch.
SendReady ==
    \A i \in Instances : pc[i] = "request" =>
        attempt[tok[i]] = "sent" /\ Active(batchOf[tok[i]])

\* What has to stay for a purchaser that is about to call.
LEMMA ReadyKept ==
    ASSUME IInv, SendReady,
           UNCHANGED <<pc, tok, attempt, batchOf>>,
           \A i \in Instances : pc[i] = "request" /\ Active(batchOf[tok[i]]) =>
               status'[batchOf[tok[i]]] = "running"
    PROVE  SendReady'
BY DEF SendReady, Active

\* Its open attempt keeps the counters away from every way to end the batch.
LEMMA FencedCounts ==
    ASSUME IInv, SendReady, NEW i \in Instances, pc[i] = "request"
    PROVE  /\ batchOf[tok[i]] \in Batches
           /\ reserved[batchOf[tok[i]]] = 1
<1>1. tok[i] \in Tokens /\ batchOf[tok[i]] \in Batches
  BY PurchaserToken
<1>2. attempt[tok[i]] = "sent"
  BY DEF SendReady
<1>3. tok[i] \in Unresolved(batchOf[tok[i]])
  BY <1>1, <1>2 DEF Unresolved, Attempts, UnresolvedState
<1>. QED  BY <1>1, <1>3, TheUnresolved, IInvParts

LEMMA ReadyToken ==
    ASSUME IInv, SendReady, NEW t \in Tokens,
           \/ ProviderRefuse(t) \/ ConcludeNumber(t)
           \/ \E n \in Numbers : ProviderAllocate(t, n)
           \/ Worker(t)
           \/ CancelUnknownNumber(t) \/ CompletePurchaseCleanup(t)
    PROVE  SendReady'
<1>0. LedgerType
  BY IInvParts
<1>1. UNCHANGED <<pc, tok, attempt, batchOf>>
  BY DEF ProviderRefuse, ConcludeNumber, ProviderAllocate, Worker, ClaimProxy,
     ClassifyActivation, MarkActivationFulfilled, FinishActivation, CancelUnknownNumber,
     CompletePurchaseCleanup, procVars, ledger, attemptVars
<1>2. CASE status' = status
  BY <1>1, <1>2, ReadyKept DEF Active
<1>3. CASE MarkActivationFulfilled(t)
  <2>1. PICK b \in Batches : batchOf[t] = b
    BY <1>3, ActivationBatch DEF MarkActivationFulfilled, IInv
  <2>2. /\ inflight[b] > 0
        /\ status' = [status EXCEPT ![b] =
             IF status[b] = "running" /\ fulfilled[b] + 1 >= Quantity[b] THEN "completed" ELSE status[b]]
    BY <1>3, <2>1 DEF MarkActivationFulfilled, ReleaseSlot
  <2>3. ASSUME NEW i \in Instances, pc[i] = "request", Active(batchOf[tok[i]])
        PROVE  status'[batchOf[tok[i]]] = "running"
    <3>1. batchOf[tok[i]] \in Batches /\ reserved[batchOf[tok[i]]] = 1
      BY <2>3, FencedCounts
    <3>2. CASE batchOf[tok[i]] # b
      BY <1>0, <2>2, <2>3, <3>1, <3>2 DEF LedgerType, Active
    <3>3. CASE batchOf[tok[i]] = b
      <4>1. fulfilled[b] + inflight[b] + reserved[b] <= Quantity[b]
        BY IInvParts DEF LedgerInv, QuotaRespected
      <4>2. fulfilled[b] \in Nat /\ inflight[b] \in Nat /\ Quantity[b] \in Nat
        BY CounterTypes DEF IInv
      <4>3. ~(fulfilled[b] + 1 >= Quantity[b])
        BY <2>2, <3>1, <3>3, <4>1, <4>2
      <4>4. status' = [status EXCEPT ![b] = status[b]]
        BY <2>2, <4>3
      <4>. QED  BY <1>0, <2>3, <3>3, <4>4 DEF LedgerType, Active
    <3>. QED  BY <3>2, <3>3
  <2>. QED  BY <1>1, <2>3, ReadyKept
<1>4. CASE \/ ProviderRefuse(t) \/ ConcludeNumber(t) \/ CancelUnknownNumber(t)
           \/ \E n \in Numbers : ProviderAllocate(t, n)
  BY <1>2, <1>4 DEF ProviderRefuse, ConcludeNumber, CancelUnknownNumber, ProviderAllocate,
     ledger, batchVars
<1>5. CASE CompletePurchaseCleanup(t) \/ ClaimProxy(t) \/ ClassifyActivation(t) \/ FinishActivation(t)
  BY <1>2, <1>5 DEF CompletePurchaseCleanup, ClaimProxy, ClassifyActivation, FinishActivation,
     ReleaseSlot, batchVars
<1>. QED  BY <1>3, <1>4, <1>5 DEF Worker

LEMMA ReadyBatch ==
    ASSUME IInv, SendReady, NEW b \in Batches, CreateBatch(b) \/ FailExhaustedProxies(b)
    PROVE  SendReady'
<1>0. LedgerType
  BY IInvParts
<1>1. UNCHANGED <<pc, tok, attempt, batchOf>>
  BY DEF CreateBatch, FailExhaustedProxies, procVars, attemptVars
<1>2. ASSUME NEW i \in Instances, pc[i] = "request", Active(batchOf[tok[i]])
      PROVE  status'[batchOf[tok[i]]] = "running"
  <2>1. batchOf[tok[i]] \in Batches /\ reserved[batchOf[tok[i]]] = 1
    BY <1>2, FencedCounts
  <2>2. CASE CreateBatch(b)
    <3>1. status' = [status EXCEPT ![b] = "running"]
      BY <2>2 DEF CreateBatch
    <3>. QED  BY <1>0, <1>2, <2>1, <3>1 DEF LedgerType, Active
  <2>3. CASE FailExhaustedProxies(b)
    <3>1. reserved[b] = 0 /\ status' = [status EXCEPT ![b] = "failed"]
      BY <2>3 DEF FailExhaustedProxies
    <3>2. batchOf[tok[i]] # b
      BY <2>1, <3>1
    <3>. QED  BY <1>0, <1>2, <2>1, <3>1, <3>2 DEF LedgerType, Active
  <2>. QED  BY <2>2, <2>3
<1>. QED  BY <1>1, <1>2, ReadyKept

\* Among the steps of the only instance just the fence leads to the call.
LEMMA ReadyInstance ==
    ASSUME IInv, BatchesKnown, SendReady, NEW i, Instances = {i},
           \/ Purchaser(i) \/ Startup(i) \/ Crash(i)
           \/ \E b \in Batches : StopBatch(i, b)
           \/ \E b \in Batches, t \in Tokens : StartPurchase(i, b, t)
    PROVE  SendReady'
<1>0. LedgerType /\ ProcessType
  BY IInvParts
<1>1. CASE pc'[i] # "request"
  BY <1>1 DEF SendReady
<1>2. CASE MarkPurchaseSent(i) /\ pc'[i] = "request"
  <2>1. PICK t \in Tokens, b \in Batches : tok[i] = t /\ batchOf[t] = b
    BY <1>2, PurchaserToken DEF MarkPurchaseSent
  <2>2. ASSUME NEW L \in {"release_unsent", "idle"}, TryAgain(i, L) \/ Fail(i, L) \/ Goto(i, L)
        PROVE  FALSE
    <3>1. pc[i] = "mark"
      BY <1>2 DEF MarkPurchaseSent
    <3>2. pc' = pc \/ pc' = [pc EXCEPT ![i] = L]
      BY <2>2 DEF TryAgain, Fail, Goto
    <3>. QED  BY <1>0, <1>2, <3>1, <3>2 DEF ProcessType
  <2>3. /\ ~MarkSentRefused(b, t) /\ MarkSentTx(t) /\ Goto(i, "request")
        /\ UNCHANGED batchOf
    BY <1>2, <2>1, <2>2 DEF MarkPurchaseSent
  <2>4. /\ attempt'[t] = "sent" /\ ~Terminal(b)
        /\ UNCHANGED <<status, tok>>
    BY <1>0, <2>3 DEF MarkSentRefused, MarkSentTx, LedgerType, batchVars, Goto
  <2>5. status[b] = "running"
    <3>1. status[b] \in BatchStatus /\ status[b] # "absent"
      BY <1>0, <2>1, NullAssumption DEF LedgerType, BatchesKnown
    <3>. QED  BY <2>4, <3>1 DEF BatchStatus, Terminal
  <2>. QED  BY <2>1, <2>3, <2>4, <2>5 DEF SendReady, Active
<1>3. CASE Purchaser(i) /\ ~MarkPurchaseSent(i)
  <2>1. pc[i] # "request" \/ SendGetNumber(i)
    BY <1>3 DEF Purchaser, ReservePurchase, ReceiveNumber, ReceiveRefusal, ReceiveUnknown,
       PersistPurchase, FreezePurchase, ReleasePurchase
  <2>2. \/ pc' = pc /\ ~SendGetNumber(i)
        \/ \E L \in Place \ {"request"} : pc' = [pc EXCEPT ![i] = L]
    <3>1. ASSUME NEW L, TryAgain(i, L) \/ Fail(i, L) \/ Goto(i, L)
          PROVE  pc' = pc \/ pc' = [pc EXCEPT ![i] = L]
      BY <3>1 DEF TryAgain, Fail, Goto
    <3>2. CASE ReservePurchase(i)
      <4>1. PICK L \in {"idle", "mark", "release_unsent"} :
              Goto(i, L) \/ TryAgain(i, L) \/ Fail(i, L)
        BY <3>2 DEF ReservePurchase
      <4>. QED  BY <3>1, <3>2, <4>1 DEF Place, ReservePurchase, SendGetNumber
    <3>3. CASE PersistPurchase(i) \/ FreezePurchase(i)
      <4>1. PICK L \in {"idle", "freeze"} :
              Goto(i, L) \/ TryAgain(i, L) \/ Fail(i, L)
        BY <3>3 DEF PersistPurchase, FreezePurchase
      <4>. QED  BY <3>1, <3>3, <4>1 DEF Place, PersistPurchase, FreezePurchase, SendGetNumber
    <3>4. CASE ReleasePurchase(i)
      <4>1. PICK L \in {"idle", "freeze_blind"} :
              Goto(i, L) \/ TryAgain(i, L) \/ Fail(i, L)
        BY <3>4 DEF ReleasePurchase
      <4>. QED  BY <3>1, <3>4, <4>1 DEF Place, ReleasePurchase, SendGetNumber
    <3>5. CASE SendGetNumber(i) \/ ReceiveNumber(i) \/ ReceiveRefusal(i) \/ ReceiveUnknown(i)
      <4>1. PICK L \in {"await", "persist", "release_refused", "freeze_blind"} : Goto(i, L)
        BY <3>5 DEF SendGetNumber, ReceiveNumber, ReceiveRefusal, ReceiveUnknown
      <4>. QED  BY <4>1 DEF Goto, Place
    <3>. QED  BY <1>3, <3>2, <3>3, <3>4, <3>5 DEF Purchaser
  <2>3. pc'[i] # "request"
    BY <1>0, <2>1, <2>2 DEF ProcessType
  <2>. QED  BY <1>1, <2>3
<1>4. CASE Startup(i) \/ Crash(i)
  <2>1. Crash(i) \/ pc[i] \in {"down", "recover"}
    BY <1>4 DEF Startup, Restart, StartScheduler, RecoverBatchPurchase
  <2>2. \/ pc' = pc /\ ~Crash(i)
        \/ \E L \in {"down", "recover", "idle"} : pc' = [pc EXCEPT ![i] = L]
    BY <1>4 DEF Crash, Startup, Restart, StartScheduler, RecoverBatchPurchase, TryAgain, Fail, Goto
  <2>3. pc'[i] # "request"
    BY <1>0, <2>1, <2>2 DEF ProcessType
  <2>. QED  BY <1>1, <2>3
<1>5. CASE \/ \E b \in Batches : StopBatch(i, b)
           \/ \E b \in Batches, t \in Tokens : StartPurchase(i, b, t)
  <2>1. pc[i] = "idle" /\ (pc' = pc \/ pc' = [pc EXCEPT ![i] = "reserve"])
    BY <1>5 DEF StopBatch, StartPurchase, procVars
  <2>2. pc'[i] # "request"
    BY <1>0, <2>1 DEF ProcessType
  <2>. QED  BY <1>1, <2>2
<1>. QED  BY <1>1, <1>2, <1>3, <1>4, <1>5

LEMMA ReadyStep ==
    ASSUME IInv, BatchesKnown, SendReady, NEW i, Instances = {i}, [Next]_vars
    PROVE  SendReady'
<1>1. CASE UNCHANGED vars
  BY <1>1, ReadyKept DEF vars, procVars, ledger, batchVars, attemptVars, Active
<1>2. CASE \E b \in Batches : CreateBatch(b) \/ FailExhaustedProxies(b)
  BY <1>2, ReadyBatch
<1>3. ASSUME NEW j \in Instances,
             \/ Purchaser(j) \/ Startup(j) \/ Crash(j)
             \/ \E b \in Batches : StopBatch(j, b)
             \/ \E b \in Batches, t \in Tokens : StartPurchase(j, b, t)
      PROVE  SendReady'
  <2>1. j = i
    BY <1>3
  <2>. QED  BY <1>3, <2>1, ReadyInstance
<1>4. ASSUME NEW t \in Tokens,
             \/ ProviderRefuse(t) \/ ConcludeNumber(t)
             \/ \E n \in Numbers : ProviderAllocate(t, n)
             \/ Worker(t)
             \/ CancelUnknownNumber(t) \/ CompletePurchaseCleanup(t)
      PROVE  SendReady'
  BY <1>4, ReadyToken
<1>. QED  BY <1>1, <1>2, <1>3, <1>4 DEF Next

\* A request leaves only in SendGetNumber.
LEMMA OnlySent ==
    ASSUME IInv, SendReady, [Next]_vars
    PROVE  \A t \in Tokens : order[t] = "none" /\ order'[t] = "sent" => Active(batchOf[t])
<1>1. CASE order' = order
  BY <1>1
<1>2. CASE \E i \in Instances : SendGetNumber(i)
  <2>1. PICK i \in Instances : pc[i] = "request" /\ order' = [order EXCEPT ![tok[i]] = "sent"]
    BY <1>2 DEF SendGetNumber
  <2>2. Active(batchOf[tok[i]])
    BY <2>1 DEF SendReady
  <2>3. order \in [Tokens -> {"none", "sent", "refused", "allocated", "concluded"}]
    BY IInvParts DEF ProviderType
  <2>. QED  BY <2>1, <2>2, <2>3
<1>3. CASE \E t \in Tokens : ProviderRefuse(t) \/ \E n \in Numbers : ProviderAllocate(t, n)
  <2>1. PICK t \in Tokens : order' = [order EXCEPT ![t] = "refused"] \/ order' = [order EXCEPT ![t] = "allocated"]
    BY <1>3 DEF ProviderRefuse, ProviderAllocate
  <2>2. order \in [Tokens -> {"none", "sent", "refused", "allocated", "concluded"}]
    BY IInvParts DEF ProviderType
  <2>. QED  BY <2>1, <2>2
<1>4. CASE \E n : Concluded(n)
  BY <1>4 DEF Concluded
<1>5. CASE UNCHANGED vars
  BY <1>1, <1>5 DEF vars, providerVars
<1>6. CASE \E b \in Batches : CreateBatch(b) \/ FailExhaustedProxies(b)
  BY <1>1, <1>6 DEF CreateBatch, FailExhaustedProxies, providerVars
<1>7. ASSUME NEW i \in Instances,
             \/ Purchaser(i) \/ Startup(i) \/ Crash(i)
             \/ \E b \in Batches : StopBatch(i, b)
             \/ \E b \in Batches, t \in Tokens : StartPurchase(i, b, t)
      PROVE  order' = order \/ SendGetNumber(i)
  BY <1>7 DEF Purchaser, ReservePurchase, MarkPurchaseSent, ReceiveNumber, ReceiveRefusal,
     ReceiveUnknown, PersistPurchase, FreezePurchase, ReleasePurchase, Startup, Restart,
     StartScheduler, RecoverBatchPurchase, Crash, StopBatch, StartPurchase, providerVars
<1>8. ASSUME NEW t \in Tokens, Worker(t) \/ CompletePurchaseCleanup(t)
      PROVE  order' = order
  BY <1>8 DEF Worker, ClaimProxy, ClassifyActivation, MarkActivationFulfilled,
     FinishActivation, CompletePurchaseCleanup, providerVars
<1>9. ASSUME NEW t \in Tokens, ConcludeNumber(t) \/ CancelUnknownNumber(t)
      PROVE  \E n : Concluded(n)
  BY <1>9 DEF ConcludeNumber, CancelUnknownNumber
<1>. QED  BY <1>1, <1>2, <1>3, <1>4, <1>5, <1>6, <1>7, <1>8, <1>9 DEF Next

\* With one scheduler process, however often it crashes and recovers, no
\* request leaves for a batch that has ended.
THEOREM OneProcessStops ==
    ASSUME NEW i, Instances = {i}
    PROVE  Spec => NoRequestAfterStop
<1>1. Init => SendReady
  <2>1. Init => pc = [j \in Instances |-> "idle"]
    BY DEF Init
  <2>. QED  BY <2>1 DEF SendReady
<1>2. IInv /\ BatchesKnown /\ SendReady /\ [Next]_vars => SendReady'
  BY ReadyStep
<1>3. IInv /\ SendReady /\ [Next]_vars
        => [\A t \in Tokens : order[t] = "none" /\ order'[t] = "sent" => Active(batchOf[t])]_vars
  BY OnlySent
<1>. QED  BY <1>1, <1>2, <1>3, Invariance, Known, PTL DEF Spec, NoRequestAfterStop
=============================================================================
