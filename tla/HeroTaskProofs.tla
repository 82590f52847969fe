-------------------------- MODULE HeroTaskProofs --------------------------
(***************************************************************************)
(* Proofs about HeroTask for any workers, tokens, product kind and bounds. *)
(* First what each statement does to the row (RowKept: it stays a row with *)
(* its token), then types, one lemma per action, then the purchase fence:  *)
(* most steps are Aside, Begin, Buy and Release are argued one by one.     *)
(*                                                                         *)
(* On the fence rest three invariants, each with its theorem.  The number  *)
(* of the row and the copies of the workers (NumberedInv): a bought number *)
(* is kept.  The decision to settle (EndInv): a number ends once.  What    *)
(* was received, counted and acknowledged (CountInv): counting fits, and a *)
(* refund is unread.  The lemmas on columns say what a statement does to   *)
(* the row column by column; the arguments use only those.                 *)
(***************************************************************************)
EXTENDS HeroTask, FiniteSetTheorems, TLAPS

LEMMA NewRowTyped == NewRow \in Row
  BY DEF NewRow, Row, Status, Refund

LEMMA Counted ==
    ASSUME NEW A \in SUBSET Message
    PROVE  Cardinality(A) \in Nat
<1>1. IsFiniteSet(Message)  BY FS_Interval, TaskBounds DEF Message
<1>2. IsFiniteSet(A)  BY <1>1, FS_Subset
<1> QED  BY <1>2, FS_CardinalityType

LEMMA LeaveTyped ==
    ASSUME WorkType, NEW w \in Workers, Leave(w)
    PROVE  WorkType'
  BY NewRowTyped DEF WorkType, Leave, Goto, Place

LEMMA GotoTyped ==
    ASSUME WorkType, NEW w \in Workers, NEW p \in Place, Goto(w, p), Stay
    PROVE  WorkType'
  BY DEF WorkType, Goto, Stay

(* What each statement does to the row: it stays a row, and all but the    *)
(* fence and its release keep the purchase token.                          *)
RowKept == row' \in Row /\ row'.token = row.token

LEMMA SameRow ==
    ASSUME row \in Row, row' = row
    PROVE  RowKept
  BY DEF RowKept

LEMMA ClaimRow ==
    ASSUME row \in Row, NEW w \in Workers, Claim(w)
    PROVE  RowKept
<1>1. row' = [row EXCEPT !.status = IF @ = "purchasing" THEN "purchase_unknown" ELSE @]
  BY DEF Claim
<1> QED  BY <1>1 DEF RowKept, Row, Status

LEMMA BeginRow ==
    ASSUME row \in Row, NEW w \in Workers, Begin(w)
    PROVE  row' \in Row
<1>1. row' = row \/ \E t \in Tokens :
            row' = [row EXCEPT !.status = "purchasing", !.token = t]
  BY DEF Begin
<1> QED  BY <1>1 DEF Row, Status

LEMMA ReleaseRow ==
    ASSUME row \in Row, NEW w \in Workers, Release(w)
    PROVE  row' \in Row
<1>1. row' = row \/ row' = [row EXCEPT !.status = "waiting_number", !.token = NoToken, !.wake = FALSE]
  BY DEF Release
<1> QED  BY <1>1 DEF Row, Status

LEMMA PersistDb ==
    ASSUME DbType, NEW r \in Row, r.token = row.token, NEW t \in Tokens,
           NEW c \in BOOLEAN, PersistOutcome(r, t, c)
    PROVE  DbType' /\ RowKept
<1>1. attached' \in SUBSET Message
  BY DEF PersistOutcome, Adopt, DbType
<1>2. Cardinality(attached') \in Nat
  BY <1>1, Counted
<1>3. PICK n \in Nat : n = Cardinality(attached')
  BY <1>2
<1>4. PICK f \in {"unavailable", "refundable"} :
            f = IF attached' # {} THEN "unavailable" ELSE "refundable"
  OBVIOUS
<1>5. PICK b \in BOOLEAN : b = (attached' # {})
  OBVIOUS
<1>6. row' = [r EXCEPT !.status = "active", !.number = t, !.supports = c, !.pending = 0,
                       !.dated = TRUE, !.messages = n, !.refund = f, !.wake = b]
  BY <1>3, <1>4, <1>5, Zenon DEF PersistOutcome
<1>7. RowKept
  BY <1>6, r.token = row.token DEF RowKept, Row, Status, Refund
<1>8. holder' \in Workers \cup {NoWorker} /\ lapsed' \in BOOLEAN /\ stored' = stored
  BY DEF PersistOutcome, Unleased
<1> QED  BY <1>1, <1>7, <1>8 DEF DbType, RowKept

LEMMA CommitDb ==
    ASSUME DbType, NEW w \in Workers, seen[w].token \in Tokens, Commit(w)
    PROVE  DbType' /\ RowKept
<1>1. CASE OwnsPurchase(w) /\ \E c \in Capability : PersistOutcome(row, seen[w].token, c)
  BY <1>1, PersistDb DEF Capability, DbType
<1>2. CASE UNCHANGED dbVars
  BY <1>2, SameRow DEF dbVars, DbType, RowKept
<1> QED  BY <1>1, <1>2 DEF Commit

LEMMA RecoverDb ==
    ASSUME DbType, NEW w \in Workers, seen[w].token \in Tokens, Recover(w)
    PROVE  DbType' /\ RowKept
<1> DEFINE r == [row EXCEPT !.stop = @ \/ row.status = "stopped"]
<1>1. r \in Row /\ r.token = row.token
  BY DEF DbType, Row
<1>2. CASE \E c \in Capability : PersistOutcome(r, seen[w].token, c)
  <2> HIDE DEF r
  <2> QED  BY <1>1, <1>2, PersistDb DEF Capability
<1>3. CASE UNCHANGED dbVars
  BY <1>3, SameRow DEF dbVars, DbType, RowKept
<1> QED  BY <1>2, <1>3 DEF Recover

LEMMA MarkUnknownDb ==
    ASSUME DbType, NEW w \in Workers, MarkUnknown(w), seen[w].token \in Tokens
    PROVE  DbType' /\ RowKept
<1>1. CASE UNCHANGED dbVars
  BY <1>1, SameRow DEF dbVars, DbType, RowKept
<1>2. CASE ~UNCHANGED dbVars
  <2>1. attached' \in SUBSET Message /\ stored' = stored /\ Unleased
    BY <1>2 DEF MarkUnknown, Adopt, DbType
  <2>2. PICK n \in Nat : n = Cardinality(attached')
    BY <2>1, Counted
  <2>3. \/ row' = [row EXCEPT !.status = "purchase_unknown", !.number = seen[w].token, !.messages = n]
        \/ row' = [row EXCEPT !.status = "purchase_unknown"]
    <3>1. CASE pc[w] = "mark_known"
      BY <1>2, <2>2, <3>1 DEF MarkUnknown
    <3>2. CASE pc[w] # "mark_known"
      <4>1. row' = [row EXCEPT !.status = "purchase_unknown", !.number = row.number, !.messages = row.messages]
        BY <1>2, <3>2 DEF MarkUnknown
      <4> QED  BY <4>1 DEF DbType, Row
    <3> QED  BY <3>1, <3>2
  <2>4. RowKept
    BY <2>3 DEF DbType, RowKept, Row, Status
  <2> QED  BY <2>1, <2>4 DEF DbType, Unleased, RowKept
<1> QED  BY <1>1, <1>2

LEMMA BeginNextRow ==
    ASSUME row \in Row, NEW w \in Workers, BeginNext(w)
    PROVE  RowKept
<1>1. row' = row \/ row' = [row EXCEPT !.pending = row.messages]
  BY DEF BeginNext
<1> QED  BY <1>1 DEF RowKept, Row, Status

LEMMA CompleteRow ==
    ASSUME row \in Row, NEW w \in Workers, Complete(w), seen[w] \in Row
    PROVE  RowKept
<1>0. row.wake \in BOOLEAN /\ (row.messages > seen[w].pending) \in BOOLEAN
  BY DEF Row
<1>1. PICK k \in BOOLEAN : k = IF row.stop THEN row.wake ELSE row.messages > seen[w].pending
  BY <1>0, Zenon
<1>2. row' = row \/ row' = [row EXCEPT !.continued = seen[w].pending, !.pending = 0, !.wake = k]
  BY <1>1 DEF Complete, OwnsTarget, Owns
<1>3. CASE row' = row
  BY <1>3, SameRow
<1>4. CASE row' = [row EXCEPT !.continued = seen[w].pending, !.pending = 0, !.wake = k]
  BY <1>4 DEF RowKept, Row
<1> QED  BY <1>2, <1>3, <1>4

LEMMA AbortRow ==
    ASSUME row \in Row, NEW w \in Workers, Abort(w), seen[w] \in Row
    PROVE  RowKept
<1>0. row.wake \in BOOLEAN /\ (row.messages > seen[w].pending) \in BOOLEAN
  BY DEF Row
<1>1. PICK k \in BOOLEAN : k = IF row.stop THEN row.wake ELSE row.messages > seen[w].pending
  BY <1>0, Zenon
<1>2. row' = row \/ row' = [row EXCEPT !.pending = 0, !.wake = k]
  BY <1>1 DEF Abort, OwnsTarget, Owns
<1>3. CASE row' = row
  BY <1>3, SameRow
<1>4. CASE row' = [row EXCEPT !.pending = 0, !.wake = k]
  BY <1>4 DEF RowKept, Row
<1> QED  BY <1>2, <1>3, <1>4

LEMMA PrepareRow ==
    ASSUME row \in Row, NEW w \in Workers, Prepare(w)
    PROVE  RowKept
<1>1. PICK f \in Refund : f =
                IF row.status = "active" /\ row.messages = 0
                   /\ clock = "refundable" /\ row.refund = "refundable"
                THEN "requested" ELSE "unavailable"
  BY DEF Refund
<1>2. row' = row \/ row' = [row EXCEPT !.status = "settling", !.pending = 0, !.refund = f]
  BY <1>1 DEF Prepare, Owns, Settling
<1>3. CASE row' = row
  BY <1>3, SameRow
<1>4. CASE row' = [row EXCEPT !.status = "settling", !.pending = 0, !.refund = f]
  BY <1>4 DEF RowKept, Row, Status
<1> QED  BY <1>2, <1>3, <1>4

LEMMA ScheduleRow ==
    ASSUME row \in Row, NEW w \in Workers, Schedule(w), seen[w] \in Row
    PROVE  RowKept
<1>1. PICK f \in Refund : f =
                IF seen[w].status = "active" /\ row.refund = "refundable"
                   /\ (row.messages > 0 \/ clock # "refundable")
                THEN "unavailable" ELSE row.refund
  BY DEF Refund, Row
<1>2. row' = row \/ row' = [row EXCEPT !.status = seen[w].status, !.wake = FALSE, !.refund = f]
  BY <1>1 DEF Schedule, Owns
<1> QED  BY <1>2 DEF RowKept, Row

LEMMA FinishRow ==
    ASSUME row \in Row, NEW w \in Workers, Finish(w)
    PROVE  RowKept
<1>1. PICK s \in Status : s = Target(pc[w])
  BY DEF Target, Status
<1>2. PICK f \in Refund : f = FinishRefund(Target(pc[w]))
  BY DEF Target, FinishRefund, Refund
<1>3. row' = row \/ row' = [row EXCEPT !.status = s, !.refund = f, !.stop = FALSE,
                                     !.pending = 0, !.wake = FALSE]
  BY <1>1, <1>2 DEF Finish, Owns, MayFinish, FinishAs
<1>4. CASE row' = row
  BY <1>4, SameRow
<1>5. CASE row' = [row EXCEPT !.status = s, !.refund = f, !.stop = FALSE,
                              !.pending = 0, !.wake = FALSE]
  BY <1>5 DEF RowKept, Row
<1> QED  BY <1>3, <1>4, <1>5

LEMMA AppendDb ==
    ASSUME DbType, NEW t \in Tokens \cup {NoToken}, NEW i \in Message, Append(t, i)
    PROVE  RowKept /\ attached' \in SUBSET Message /\ stored' \in [Tokens -> SUBSET Message]
<1>1. stored' \in [Tokens -> SUBSET Message] /\ attached' \in SUBSET Message
  BY DEF Append, DbType
<1>2. PICK n \in Nat : n = Cardinality(attached')
  BY <1>1, Counted
<1>3. PICK f \in Refund : f = IF row.status = "active" THEN "unavailable" ELSE row.refund
  BY DEF DbType, Row, Refund
<1>4. PICK k \in BOOLEAN : k = (row.wake \/ row.status \notin Finished)
  BY DEF DbType, Row
<1>5. row' = row \/ row' = [row EXCEPT !.messages = n, !.refund = f, !.wake = k]
  BY <1>2, <1>3, <1>4 DEF Append, Woken
<1>6. RowKept
  BY <1>5 DEF DbType, RowKept, Row
<1> QED  BY <1>1, <1>6

-----------------------------------------------------------------------------
(* Types *)

LEMMA NextStepPlace ==
    ASSUME NEW r
    PROVE  NextStep(r) \in {"prepare", "ask_again", "begin_next"}
  BY DEF NextStep

LEMMA RoutePlace ==
    ASSUME NEW r
    PROVE  Route(r) \in Place \ PurchasePlace
  BY NextStepPlace DEF Route, Place, PurchasePlace

LEMMA AfterPollPlace ==
    ASSUME NEW r
    PROVE  AfterPoll(r) \in {"prepare", "ask_again", "begin_next", "schedule"}
  BY NextStepPlace DEF AfterPoll

LEMMA CopyTyped ==
    ASSUME WorkType, NEW w \in Workers, NEW p \in Place, NEW r \in Row,
           Goto(w, p), seen' = seen \/ seen' = [seen EXCEPT ![w] = r],
           got' \in [Workers -> SUBSET Message], late' \in [Workers -> BOOLEAN]
    PROVE  WorkType'
  BY DEF WorkType, Goto

LEMMA ExpiredBoolean ==
    ASSUME NEW r \in Row
    PROVE  Expired(r) \in BOOLEAN
  BY DEF Expired, Row

LEMMA ClaimType ==
    ASSUME TypeOK, NEW w \in Workers, Claim(w)
    PROVE  TypeOK'
<1> USE DEF TypeOK
<1>0. row' \in Row
  BY ClaimRow DEF DbType, WorkType, RowKept
<1>1. DbType'
  BY <1>0 DEF DbType, Claim
<1>2. clock' \in {"refundable", "kept", "expired"} /\ ProviderType'
  BY DEF Claim, providerVars, ProviderType
<1>3. WorkType'
  <2>1. Expired(row') \in BOOLEAN
    BY <1>0 DEF Expired, Row
  <2>2. late' \in [Workers -> BOOLEAN] /\ got' \in [Workers -> SUBSET Message]
    BY <2>1 DEF Claim, WorkType
  <2>3. PICK p \in Place : p = Route(row')
    BY RoutePlace
  <2> QED  BY <1>0, <2>2, <2>3, CopyTyped DEF Claim
<1>4. crashes' \in Nat /\ lapses' \in Nat /\ faults' \in Nat /\ stops' \in Nat
  BY DEF boundVars, Claim
<1> QED  BY <1>1, <1>2, <1>3, <1>4

LEMMA BeginType ==
    ASSUME TypeOK, NEW w \in Workers, Begin(w)
    PROVE  TypeOK'
<1> USE DEF TypeOK
<1>0. row' \in Row
  BY BeginRow DEF DbType, WorkType, RowKept
<1>1. DbType'
  BY <1>0 DEF DbType, Begin, KeepLease, KeepMessages
<1>2. clock' \in {"refundable", "kept", "expired"} /\ ProviderType'
  BY DEF Begin, providerVars, ProviderType
<1>3. WorkType'
  <2>1. CASE Leave(w)
    BY <2>1, LeaveTyped
  <2>2. CASE ~Leave(w)
    <3>1. Goto(w, "buy") /\ seen' = [seen EXCEPT ![w] = row'] /\ UNCHANGED <<got, late>>
      BY <2>2 DEF Begin, Owns
    <3> QED  BY <1>0, <3>1, CopyTyped DEF Place, WorkType
  <2> QED  BY <2>1, <2>2
<1>4. crashes' \in Nat /\ lapses' \in Nat /\ faults' \in Nat /\ stops' \in Nat
  BY DEF boundVars, Begin
<1> QED  BY <1>1, <1>2, <1>3, <1>4

LEMMA BeginFailsType ==
    ASSUME TypeOK, NEW w \in Workers, BeginFails(w)
    PROVE  TypeOK'
<1> USE DEF TypeOK
<1>1. DbType'
  BY DEF DbType, dbVars, BeginFails
<1>2. clock' \in {"refundable", "kept", "expired"} /\ ProviderType'
  BY DEF BeginFails, providerVars, ProviderType
<1>3. WorkType'
  BY GotoTyped DEF BeginFails, Place
<1>4. crashes' \in Nat /\ lapses' \in Nat /\ faults' \in Nat /\ stops' \in Nat
  BY DEF boundVars, BeginFails
<1> QED  BY <1>1, <1>2, <1>3, <1>4

LEMMA BuyType ==
    ASSUME TypeOK, NEW w \in Workers, Buy(w)
    PROVE  TypeOK'
<1> USE DEF TypeOK
<1>1. DbType'
  BY DEF DbType, dbVars, Buy
<1>2. clock' \in {"refundable", "kept", "expired"} /\ ProviderType'
  BY DEF Buy, ProviderType
<1>3. WorkType'
  BY GotoTyped DEF Buy, Place
<1>4. crashes' \in Nat /\ lapses' \in Nat /\ faults' \in Nat /\ stops' \in Nat
  BY DEF boundVars, Buy
<1> QED  BY <1>1, <1>2, <1>3, <1>4

LEMMA ReleaseType ==
    ASSUME TypeOK, NEW w \in Workers, Release(w)
    PROVE  TypeOK'
<1> USE DEF TypeOK
<1>0. row' \in Row
  BY ReleaseRow DEF DbType, WorkType, RowKept
<1>1. DbType'
  BY <1>0 DEF DbType, Release, Unleased, KeepLease, KeepMessages
<1>2. clock' \in {"refundable", "kept", "expired"} /\ ProviderType'
  BY DEF Release, providerVars, ProviderType
<1>3. WorkType'
  BY LeaveTyped DEF Release
<1>4. crashes' \in Nat /\ lapses' \in Nat /\ faults' \in Nat /\ stops' \in Nat
  BY DEF boundVars, Release
<1> QED  BY <1>1, <1>2, <1>3, <1>4

LEMMA CommitType ==
    ASSUME TypeOK, NEW w \in Workers, Commit(w), seen[w].token \in Tokens
    PROVE  TypeOK'
<1> USE DEF TypeOK
<1>1. DbType'
  BY CommitDb
<1>2. clock' \in {"refundable", "kept", "expired"} /\ ProviderType'
  BY DEF Commit, providerVars, ProviderType
<1>3. WorkType'
  BY LeaveTyped, GotoTyped DEF Commit, Place
<1>4. crashes' \in Nat /\ lapses' \in Nat /\ faults' \in Nat /\ stops' \in Nat
  <2>1. faults' = faults \/ faults' = faults + 1
    BY DEF Commit
  <2> QED  BY <2>1 DEF Commit
<1> QED  BY <1>1, <1>2, <1>3, <1>4

LEMMA RecoverType ==
    ASSUME TypeOK, NEW w \in Workers, Recover(w), seen[w].token \in Tokens
    PROVE  TypeOK'
<1> USE DEF TypeOK
<1>1. DbType'
  BY RecoverDb
<1>2. clock' \in {"refundable", "kept", "expired"} /\ ProviderType'
  BY DEF Recover, providerVars, ProviderType
<1>3. WorkType'
  BY LeaveTyped DEF Recover
<1>4. crashes' \in Nat /\ lapses' \in Nat /\ faults' \in Nat /\ stops' \in Nat
  BY DEF boundVars, Recover
<1> QED  BY <1>1, <1>2, <1>3, <1>4

LEMMA MarkUnknownType ==
    ASSUME TypeOK, NEW w \in Workers, MarkUnknown(w), seen[w].token \in Tokens
    PROVE  TypeOK'
<1> USE DEF TypeOK
<1>1. DbType'
  BY MarkUnknownDb
<1>2. clock' \in {"refundable", "kept", "expired"} /\ ProviderType'
  BY DEF MarkUnknown, providerVars, ProviderType
<1>3. WorkType'
  BY LeaveTyped DEF MarkUnknown
<1>4. crashes' \in Nat /\ lapses' \in Nat /\ faults' \in Nat /\ stops' \in Nat
  BY DEF boundVars, MarkUnknown
<1> QED  BY <1>1, <1>2, <1>3, <1>4

LEMMA PollType ==
    ASSUME TypeOK, NEW w \in Workers, Poll(w)
    PROVE  TypeOK'
<1> USE DEF TypeOK
<1>1. DbType'
  BY DEF DbType, dbVars, Poll
<1>2. clock' \in {"refundable", "kept", "expired"} /\ ProviderType'
  BY DEF Poll, providerVars, ProviderType
<1>3. WorkType'
  <2>1. CASE Goto(w, "schedule") /\ Stay
    BY <2>1, GotoTyped DEF Place
  <2>2. CASE ~(Goto(w, "schedule") /\ Stay)
    <3>1. PICK A \in SUBSET Message : A = PollAnswer(seen[w].number)
      BY DEF PollAnswer
    <3>2. PICK p \in Place : p = IF A = {} THEN AfterPoll(seen[w]) ELSE "append"
      BY AfterPollPlace DEF Place
    <3>3. Goto(w, p) /\ got' = [got EXCEPT ![w] = A] /\ UNCHANGED <<seen, late>>
      BY <2>2, <3>1, <3>2 DEF Poll
    <3> QED  BY <3>3 DEF WorkType, Goto
  <2> QED  BY <2>1, <2>2
<1>4. crashes' \in Nat /\ lapses' \in Nat /\ faults' \in Nat /\ stops' \in Nat
  BY DEF boundVars, Poll
<1> QED  BY <1>1, <1>2, <1>3, <1>4

LEMMA PollAppendType ==
    ASSUME TypeOK, NEW w \in Workers, PollAppend(w)
    PROVE  TypeOK'
<1> USE DEF TypeOK
<1>1. DbType'
  <2>1. PICK i \in got[w] : Append(seen[w].number, i)
    BY DEF PollAppend
  <2>2. i \in Message /\ seen[w].number \in Tokens \cup {NoToken}
    BY <2>1 DEF WorkType, Row
  <2>3. RowKept /\ attached' \in SUBSET Message /\ stored' \in [Tokens -> SUBSET Message]
    BY <2>1, <2>2, AppendDb
  <2> QED  BY <2>3 DEF DbType, RowKept, PollAppend, KeepLease
<1>2. clock' \in {"refundable", "kept", "expired"} /\ ProviderType'
  BY DEF PollAppend, providerVars, ProviderType
<1>3. WorkType'
  <2>1. PICK p \in Place : p = IF row'.stop \/ Expired(row') THEN "prepare"
                               ELSE IF got'[w] # {} THEN "append" ELSE AfterPoll(row')
    BY AfterPollPlace DEF Place
  <2>2. Goto(w, p) /\ seen' = [seen EXCEPT ![w] = row'] /\ late' = late
        /\ \E i \in Message : got' = [got EXCEPT ![w] = @ \ {i}]
    BY <2>1 DEF PollAppend, WorkType
  <2> QED  BY <1>1, <2>2, CopyTyped DEF DbType, WorkType
<1>4. crashes' \in Nat /\ lapses' \in Nat /\ faults' \in Nat /\ stops' \in Nat
  BY DEF boundVars, PollAppend
<1> QED  BY <1>1, <1>2, <1>3, <1>4

LEMMA PollAppendFailsType ==
    ASSUME TypeOK, NEW w \in Workers, PollAppendFails(w)
    PROVE  TypeOK'
<1> USE DEF TypeOK
<1>1. DbType'
  BY DEF DbType, dbVars, PollAppendFails
<1>2. clock' \in {"refundable", "kept", "expired"} /\ ProviderType'
  BY DEF PollAppendFails, providerVars, ProviderType
<1>3. WorkType'
  BY GotoTyped DEF PollAppendFails, Place
<1>4. crashes' \in Nat /\ lapses' \in Nat /\ faults' \in Nat /\ stops' \in Nat
  BY DEF boundVars, PollAppendFails
<1> QED  BY <1>1, <1>2, <1>3, <1>4

LEMMA ScheduleType ==
    ASSUME TypeOK, NEW w \in Workers, Schedule(w)
    PROVE  TypeOK'
<1> USE DEF TypeOK
<1>0. row' \in Row
  BY ScheduleRow DEF DbType, WorkType, RowKept
<1>1. DbType'
  BY <1>0 DEF DbType, Schedule, Unleased, KeepLease, KeepMessages
<1>2. clock' \in {"refundable", "kept", "expired"} /\ ProviderType'
  BY DEF Schedule, providerVars, ProviderType
<1>3. WorkType'
  BY LeaveTyped DEF Schedule
<1>4. crashes' \in Nat /\ lapses' \in Nat /\ faults' \in Nat /\ stops' \in Nat
  BY DEF boundVars, Schedule
<1> QED  BY <1>1, <1>2, <1>3, <1>4

LEMMA BeginNextType ==
    ASSUME TypeOK, NEW w \in Workers, BeginNext(w)
    PROVE  TypeOK'
<1> USE DEF TypeOK
<1>0. row' \in Row
  BY BeginNextRow DEF DbType, WorkType, RowKept
<1>1. DbType'
  BY <1>0 DEF DbType, BeginNext, KeepLease, KeepMessages
<1>2. clock' \in {"refundable", "kept", "expired"} /\ ProviderType'
  BY DEF BeginNext, providerVars, ProviderType
<1>3. WorkType'
  <2>1. CASE Goto(w, "schedule") /\ Stay
    BY <2>1, GotoTyped DEF Place
  <2>2. CASE ~(Goto(w, "schedule") /\ Stay)
    <3>1. Goto(w, "ask") /\ seen' = [seen EXCEPT ![w] = row'] /\ UNCHANGED <<got, late>>
      BY <2>2 DEF BeginNext, Owns
    <3> QED  BY <1>0, <3>1, CopyTyped DEF Place, WorkType
  <2> QED  BY <2>1, <2>2
<1>4. crashes' \in Nat /\ lapses' \in Nat /\ faults' \in Nat /\ stops' \in Nat
  BY DEF boundVars, BeginNext
<1> QED  BY <1>1, <1>2, <1>3, <1>4

LEMMA ExpiredBeforeAskType ==
    ASSUME TypeOK, NEW w \in Workers, ExpiredBeforeAsk(w)
    PROVE  TypeOK'
<1> USE DEF TypeOK
<1>1. DbType'
  BY DEF DbType, dbVars, ExpiredBeforeAsk
<1>2. clock' \in {"refundable", "kept", "expired"} /\ ProviderType'
  BY DEF ExpiredBeforeAsk, providerVars, ProviderType
<1>3. WorkType'
  BY GotoTyped DEF ExpiredBeforeAsk, Place
<1>4. crashes' \in Nat /\ lapses' \in Nat /\ faults' \in Nat /\ stops' \in Nat
  BY DEF boundVars, ExpiredBeforeAsk
<1> QED  BY <1>1, <1>2, <1>3, <1>4

LEMMA AskType ==
    ASSUME TypeOK, NEW w \in Workers, Ask(w)
    PROVE  TypeOK'
<1> USE DEF TypeOK
<1>1. DbType'
  BY DEF DbType, dbVars, Ask
<1>2. clock' \in {"refundable", "kept", "expired"} /\ ProviderType'
  BY DEF Ask, Asked, Advance, NotAdvanced, ProviderType
<1>3. WorkType'
  BY GotoTyped DEF Ask, AfterAsk, AfterAskAgain, Place
<1>4. crashes' \in Nat /\ lapses' \in Nat /\ faults' \in Nat /\ stops' \in Nat
  BY DEF boundVars, Ask
<1> QED  BY <1>1, <1>2, <1>3, <1>4

LEMMA CompleteType ==
    ASSUME TypeOK, NEW w \in Workers, Complete(w)
    PROVE  TypeOK'
<1> USE DEF TypeOK
<1>0. row' \in Row
  BY CompleteRow DEF DbType, WorkType, RowKept
<1>1. DbType'
  BY <1>0 DEF DbType, Complete, Unleased, KeepLease, KeepMessages
<1>2. clock' \in {"refundable", "kept", "expired"} /\ ProviderType'
  BY DEF Complete, providerVars, ProviderType
<1>3. WorkType'
  BY LeaveTyped DEF Complete
<1>4. crashes' \in Nat /\ lapses' \in Nat /\ faults' \in Nat /\ stops' \in Nat
  BY DEF boundVars, Complete
<1> QED  BY <1>1, <1>2, <1>3, <1>4

LEMMA AbortType ==
    ASSUME TypeOK, NEW w \in Workers, Abort(w)
    PROVE  TypeOK'
<1> USE DEF TypeOK
<1>0. row' \in Row
  BY AbortRow DEF DbType, WorkType, RowKept
<1>1. DbType'
  BY <1>0 DEF DbType, Abort, Unleased, KeepLease, KeepMessages
<1>2. clock' \in {"refundable", "kept", "expired"} /\ ProviderType'
  BY DEF Abort, providerVars, ProviderType
<1>3. WorkType'
  BY LeaveTyped DEF Abort
<1>4. crashes' \in Nat /\ lapses' \in Nat /\ faults' \in Nat /\ stops' \in Nat
  BY DEF boundVars, Abort
<1> QED  BY <1>1, <1>2, <1>3, <1>4

LEMMA PrepareType ==
    ASSUME TypeOK, NEW w \in Workers, Prepare(w)
    PROVE  TypeOK'
<1> USE DEF TypeOK
<1>0. row' \in Row
  BY PrepareRow DEF DbType, WorkType, RowKept
<1>1. DbType'
  BY <1>0 DEF DbType, Prepare, KeepLease, KeepMessages
<1>2. clock' \in {"refundable", "kept", "expired"} /\ ProviderType'
  BY DEF Prepare, providerVars, ProviderType
<1>3. WorkType'
  <2>1. CASE Leave(w)
    BY <2>1, LeaveTyped
  <2>2. CASE ~Leave(w)
    <3>1. Goto(w, "call") /\ seen' = [seen EXCEPT ![w] = row'] /\ got' = got
          /\ late' = [late EXCEPT ![w] = Expired(row)]
      BY <2>2 DEF Prepare, Owns
    <3>2. late' \in [Workers -> BOOLEAN]
      BY <3>1, ExpiredBoolean DEF DbType, WorkType
    <3> QED  BY <1>0, <3>1, <3>2, CopyTyped DEF Place, WorkType
  <2> QED  BY <2>1, <2>2
<1>4. crashes' \in Nat /\ lapses' \in Nat /\ faults' \in Nat /\ stops' \in Nat
  BY DEF boundVars, Prepare
<1> QED  BY <1>1, <1>2, <1>3, <1>4

LEMMA CallType ==
    ASSUME TypeOK, NEW w \in Workers, Call(w)
    PROVE  TypeOK'
<1> USE DEF TypeOK
<1>1. DbType'
  BY DEF DbType, dbVars, Call
<1>2. clock' \in {"refundable", "kept", "expired"} /\ ProviderType'
  <2>1. PICK r \in Reaction(seen[w].number, Verb(seen[w])) :
            /\ sold' = [sold EXCEPT ![seen[w].number] = r[1]]
            /\ verbs' = [verbs EXCEPT ![seen[w].number] = @ \cup {Verb(seen[w])}]
    BY DEF Call
  <2>2. Verb(seen[w]) \in {"cancel", "finish"}
    BY DEF Verb
  <2>3. seen[w].number \in Tokens => r[1] \in {"none", "refused", "open", "cancelled", "finished", "gone"}
    BY <2>1 DEF Reaction, Closed, ProviderType
  <2> QED  BY <2>1, <2>2, <2>3 DEF ProviderType, Call
<1>3. WorkType'
  BY GotoTyped DEF Call, Conclude, Place
<1>4. crashes' \in Nat /\ lapses' \in Nat /\ faults' \in Nat /\ stops' \in Nat
  BY DEF boundVars, Call
<1> QED  BY <1>1, <1>2, <1>3, <1>4

LEMMA FinishType ==
    ASSUME TypeOK, NEW w \in Workers, Finish(w)
    PROVE  TypeOK'
<1> USE DEF TypeOK
<1>0. row' \in Row
  BY FinishRow DEF DbType, WorkType, RowKept
<1>1. DbType'
  BY <1>0 DEF DbType, Finish, FinishAs, Unleased, KeepLease, KeepMessages
<1>2. clock' \in {"refundable", "kept", "expired"} /\ ProviderType'
  BY DEF Finish, providerVars, ProviderType
<1>3. WorkType'
  BY LeaveTyped, GotoTyped DEF Finish, Place
<1>4. crashes' \in Nat /\ lapses' \in Nat /\ faults' \in Nat /\ stops' \in Nat
  BY DEF boundVars, Finish
<1> QED  BY <1>1, <1>2, <1>3, <1>4

LEMMA CrashType ==
    ASSUME TypeOK, NEW w \in Workers, Crash(w)
    PROVE  TypeOK'
<1> USE DEF TypeOK
<1>1. DbType'
  BY DEF DbType, dbVars, Crash
<1>2. clock' \in {"refundable", "kept", "expired"} /\ ProviderType'
  BY DEF Crash, providerVars, ProviderType
<1>3. WorkType'
  BY LeaveTyped DEF Crash
<1>4. crashes' \in Nat /\ lapses' \in Nat /\ faults' \in Nat /\ stops' \in Nat
  BY DEF boundVars, Crash
<1> QED  BY <1>1, <1>2, <1>3, <1>4

LEMMA EnvironmentDb ==
    ASSUME TypeOK, RequestStop \/ Restart \/ Environment
    PROVE  DbType' /\ row'.token = row.token
<1> USE DEF TypeOK
<1>1. CASE RequestStop
  <2>1. row' = [row EXCEPT !.stop = TRUE]
    BY <1>1 DEF RequestStop
  <2>2. row' \in Row /\ row'.token = row.token
    BY <2>1 DEF DbType, Row
  <2> QED  BY <1>1, <2>2 DEF RequestStop, Unleased, KeepLease, KeepMessages, DbType
<1>2. CASE Restart
  <2>1. row' = [row EXCEPT !.status = "waiting_number", !.stop = FALSE, !.pending = 0, !.wake = FALSE]
    BY <1>2 DEF Restart
  <2>2. row' \in Row /\ row'.token = row.token
    BY <2>1 DEF DbType, Row, Status
  <2> QED  BY <1>2, <2>2 DEF Restart, Unleased, KeepMessages, DbType
<1>3. CASE \E t \in Tokens, i \in Message : Callback(t, i)
  <2>1. PICK t \in Tokens, i \in Message : Callback(t, i)
    BY <1>3
  <2>2. RowKept /\ attached' \in SUBSET Message /\ stored' \in [Tokens -> SUBSET Message]
    BY <2>1, AppendDb DEF Callback
  <2> QED  BY <2>1, <2>2 DEF Callback, RowKept, KeepLease, DbType
<1>4. CASE UNCHANGED dbVars
  BY <1>4 DEF dbVars, DbType
<1>5. CASE LeaseExpires \/ Lapse
  BY <1>5 DEF LeaseExpires, Lapse, DbType
<1> QED
  BY <1>1, <1>2, <1>3, <1>4, <1>5 DEF Environment, ReceiveText, ProviderExpires, LoseCallback, Tick

LEMMA EnvironmentType ==
    ASSUME TypeOK, RequestStop \/ Restart \/ Environment
    PROVE  TypeOK'
<1> USE DEF TypeOK
<1>1. DbType'
  BY EnvironmentDb
<1>2. WorkType'
  BY DEF RequestStop, Restart, Environment, ReceiveText, ProviderExpires, Callback, LoseCallback,
         Tick, LeaseExpires, Lapse, workVars, WorkType
<1>3. /\ clock' \in {"refundable", "kept", "expired"}
      /\ crashes' \in Nat /\ lapses' \in Nat /\ faults' \in Nat /\ stops' \in Nat
  <2>1. clock' \in {"refundable", "kept", "expired"}
    BY DEF RequestStop, Restart, Environment, ReceiveText, ProviderExpires, Callback,
           LoseCallback, Tick, LeaseExpires, Lapse
  <2>2. CASE RequestStop
    BY <2>2 DEF RequestStop
  <2>3. CASE Lapse
    BY <2>3 DEF Lapse
  <2>4. CASE UNCHANGED boundVars
    BY <2>1, <2>4 DEF boundVars
  <2> QED
    BY <2>1, <2>2, <2>3, <2>4 DEF Restart, Environment, ReceiveText, ProviderExpires, Callback,
       LoseCallback, Tick, LeaseExpires
<1>4. ProviderType'
  <2>1. CASE UNCHANGED providerVars
    BY <2>1 DEF providerVars, ProviderType
  <2>2. CASE \E t \in Tokens : ReceiveText(t)
    <3>1. PICK t \in Tokens : ReceiveText(t)
      BY <2>2
    <3>2. texts[t] + 1 \in 0..MaxMessages
      BY <3>1, TaskBounds DEF ReceiveText, ProviderType
    <3> QED  BY <3>1, <3>2 DEF ReceiveText, ProviderType
  <2>3. CASE \E t \in Tokens : ProviderExpires(t)
    BY <2>3 DEF ProviderExpires, ProviderType
  <2>4. CASE \E t \in Tokens, i \in Message : LoseCallback(t, i)
    BY <2>4 DEF LoseCallback, ProviderType
  <2> QED  BY <2>1, <2>2, <2>3, <2>4
           DEF Environment, RequestStop, Restart, Callback, Tick, LeaseExpires, Lapse
<1> QED  BY <1>1, <1>2, <1>3, <1>4

-----------------------------------------------------------------------------
(* The fence *)

(* A step that neither takes the token away, nor buys, nor puts a worker   *)
(* into the purchase, leaves the fence standing.                           *)
Aside ==
    /\ row'.token = row.token
    /\ \A t \in Tokens : sold'[t] = sold[t] \/ Allocated(t)
    /\ \A v \in Workers : pc'[v] \in PurchasePlace =>
            /\ pc[v] \in PurchasePlace /\ seen'[v].token = seen[v].token
            /\ pc'[v] \in {"buy", "release"} => pc'[v] = pc[v]

LEMMA AsideFence ==
    ASSUME Fence, Aside
    PROVE  Fence'
<1>1. \A t \in Tokens : Allocated(t)' => row'.token = t
  BY DEF Fence, Aside, Allocated
<1>2. ASSUME NEW v \in Workers, pc'[v] \in PurchasePlace
      PROVE  seen'[v].token \in Tokens /\ row'.token = seen'[v].token
  BY <1>2 DEF Fence, Aside
<1>3. ASSUME NEW v \in Workers, NEW u \in Workers,
             pc'[v] \in PurchasePlace, pc'[u] \in PurchasePlace
      PROVE  u = v
  BY <1>3 DEF Fence, Aside
<1>4. ASSUME NEW v \in Workers
      PROVE  /\ pc'[v] = "buy" => sold'[seen'[v].token] = "none"
             /\ pc'[v] = "release" => sold'[seen'[v].token] = "refused"
  BY DEF Fence, Aside, Allocated, PurchasePlace
<1> QED  BY <1>1, <1>2, <1>3, <1>4 DEF Fence

(* A worker outside the purchase that stays outside it is such a step.     *)
LEMMA OtherWorkAside ==
    ASSUME TypeOK, NEW w \in Workers, row'.token = row.token,
           \A t \in Tokens : sold'[t] = sold[t] \/ Allocated(t),
           \A v \in Workers \ {w} : pc'[v] = pc[v] /\ seen'[v] = seen[v],
           pc'[w] \notin PurchasePlace
    PROVE  Aside
  BY DEF Aside

LEMMA OtherWork ==
    ASSUME TypeOK, NEW w \in Workers,
           \/ Claim(w) \/ BeginFails(w) \/ Receive(w) \/ Continue(w) \/ Settle(w) \/ Crash(w)
    PROVE  Aside
<1> USE DEF TypeOK
<1>1. row'.token = row.token
  <2>1. row \in Row /\ seen[w] \in Row
    BY DEF DbType, WorkType
  <2>2. CASE PollAppend(w)
    <3>1. PICK i \in got[w] : Append(seen[w].number, i)
      BY <2>2 DEF PollAppend
    <3>2. i \in Message /\ seen[w].number \in Tokens \cup {NoToken}
      BY <3>1 DEF WorkType, Row
    <3> QED  BY <3>1, <3>2, AppendDb DEF RowKept
  <2>3. CASE Claim(w) \/ Schedule(w) \/ BeginNext(w) \/ Complete(w) \/ Abort(w)
             \/ Prepare(w) \/ Finish(w)
    BY <2>1, <2>3, ClaimRow, ScheduleRow, BeginNextRow, CompleteRow, AbortRow, PrepareRow,
       FinishRow DEF RowKept
  <2>4. CASE BeginFails(w) \/ Poll(w) \/ PollAppendFails(w) \/ ExpiredBeforeAsk(w) \/ Ask(w)
             \/ Call(w) \/ Crash(w)
    BY <2>4 DEF BeginFails, Poll, PollAppendFails, ExpiredBeforeAsk, Ask, Call, Crash, dbVars
  <2> QED  BY <2>2, <2>3, <2>4 DEF Receive, Continue, Settle
<1>2. \A t \in Tokens : sold'[t] = sold[t] \/ Allocated(t)
  <2>1. CASE Call(w)
    BY <2>1 DEF Call, Reaction, ProviderType, Allocated
  <2> QED  BY <2>1 DEF Claim, BeginFails, Receive, Poll, PollAppend, PollAppendFails, Schedule,
               Continue, BeginNext, ExpiredBeforeAsk, Ask, Complete, Abort,
               Settle, Prepare, Finish, Crash, providerVars
<1>3. \A v \in Workers \ {w} : pc'[v] = pc[v] /\ seen'[v] = seen[v]
  BY DEF Claim, BeginFails, Receive, Poll, PollAppend, PollAppendFails, Schedule,
         Continue, BeginNext, ExpiredBeforeAsk, Ask, Complete, Abort,
         Settle, Prepare, Call, Finish, Crash, Goto, Stay, Leave, WorkType
<1>4. pc'[w] \notin PurchasePlace
  <2>1. CASE Claim(w)
    BY <2>1, RoutePlace DEF Claim, Goto, WorkType
  <2>2. CASE Poll(w)
    BY <2>2, AfterPollPlace DEF Poll, Goto, WorkType, PurchasePlace
  <2>3. CASE PollAppend(w)
    <3>1. PICK p \in {"prepare", "append", "ask_again", "begin_next", "schedule"} : Goto(w, p)
      BY <2>3, AfterPollPlace DEF PollAppend
    <3> QED  BY <3>1 DEF Goto, WorkType, PurchasePlace
  <2>4. CASE Leave(w)
    BY <2>4 DEF Leave, Goto, WorkType, PurchasePlace
  <2>5. CASE Ask(w) \/ Call(w)
    BY <2>5 DEF Ask, AfterAsk, AfterAskAgain, Call, Conclude, Goto, WorkType, PurchasePlace
  <2>6. CASE BeginFails(w) \/ PollAppendFails(w) \/ Schedule(w) \/ BeginNext(w)
             \/ ExpiredBeforeAsk(w) \/ Complete(w) \/ Abort(w) \/ Prepare(w) \/ Finish(w) \/ Crash(w)
    BY <2>4, <2>6 DEF BeginFails, PollAppendFails, Schedule, BeginNext, ExpiredBeforeAsk,
         Complete, Abort, Prepare, Finish, Crash, Goto, WorkType, PurchasePlace
  <2> QED  BY <2>1, <2>2, <2>3, <2>5, <2>6 DEF Receive, Continue, Settle
<1> QED  BY <1>1, <1>2, <1>3, <1>4, OtherWorkAside

LEMMA EnvironmentAside ==
    ASSUME TypeOK, RequestStop \/ Restart \/ Environment
    PROVE  Aside
<1>1. row'.token = row.token
  BY EnvironmentDb
<1>2. UNCHANGED <<pc, seen>>
  BY DEF RequestStop, Restart, Environment, ReceiveText, ProviderExpires, Callback, LoseCallback,
         Tick, LeaseExpires, Lapse, workVars
<1>3. \A t \in Tokens : sold'[t] = sold[t] \/ Allocated(t)
  BY DEF RequestStop, Restart, Environment, ReceiveText, ProviderExpires, Callback, LoseCallback,
         Tick, LeaseExpires, Lapse, providerVars, TypeOK, ProviderType, Allocated
<1> QED  BY <1>1, <1>2, <1>3 DEF Aside

(* The copy of a worker in the purchase names a token.                     *)
LEMMA BuyerToken ==
    ASSUME Fence, NEW w \in Workers, pc[w] \in PurchasePlace
    PROVE  seen[w].token \in Tokens /\ row.token = seen[w].token
  BY DEF Fence

LEMMA BeginFence ==
    ASSUME TaskInv, NEW w \in Workers, Begin(w)
    PROVE  Fence'
<1> USE DEF TaskInv, TypeOK
<1>1. PICK t \in Tokens :
        /\ UnusedToken(t)
        /\ \/ /\ row.token = NoToken
              /\ row' = [row EXCEPT !.status = "purchasing", !.token = t]
              /\ seen' = [seen EXCEPT ![w] = row'] /\ Goto(w, "buy")
           \/ Leave(w) /\ row' = row
  BY DEF Begin
<1>2. sold' = sold
  BY DEF Begin, providerVars
<1>3. CASE Leave(w) /\ row' = row
  <2>1. Aside
    BY <1>2, <1>3, OtherWorkAside DEF Leave, Goto, WorkType, PurchasePlace
  <2> QED  BY <2>1, AsideFence
<1>4. CASE ~(Leave(w) /\ row' = row)
  <2>1. row'.token = t /\ seen'[w].token = t /\ pc'[w] = "buy" /\ sold'[t] = "none"
    BY <1>1, <1>2, <1>4 DEF Goto, WorkType, DbType, Row, UnusedToken
  <2>2. \A v \in Workers : pc[v] \notin PurchasePlace
    BY <1>1, <1>4, TaskNulls DEF Fence
  <2>3. \A v \in Workers : pc'[v] \in PurchasePlace => v = w
    BY <1>1, <1>4, <2>2 DEF Goto, WorkType
  <2>4. \A u \in Tokens : ~Allocated(u)'
    BY <1>1, <1>2, <1>4, TaskNulls DEF Fence, Allocated
  <2> QED  BY <2>1, <2>3, <2>4 DEF Fence, PurchasePlace
<1> QED  BY <1>3, <1>4

LEMMA BuyFence ==
    ASSUME TaskInv, NEW w \in Workers, Buy(w)
    PROVE  Fence'
<1> USE DEF TaskInv, TypeOK
<1> DEFINE t == seen[w].token
<1>1. t \in Tokens /\ row.token = t
  BY BuyerToken DEF Buy, PurchasePlace
<1>2. row' = row /\ seen' = seen
  BY DEF Buy, Stay, dbVars
<1>3. \A v \in Workers : pc'[v] \in PurchasePlace => v = w
  BY DEF Buy, Goto, WorkType, Fence, PurchasePlace
<1>4. \A u \in Tokens : Allocated(u)' => row'.token = u
  BY <1>1, <1>2 DEF Buy, Allocated, Fence, ProviderType
<1>5. pc'[w] # "buy" /\ (pc'[w] = "release" => sold'[t] = "refused")
  BY <1>1 DEF Buy, Goto, WorkType, ProviderType
<1> QED  BY <1>1, <1>2, <1>3, <1>4, <1>5 DEF Fence, PurchasePlace

LEMMA ReleaseFence ==
    ASSUME TaskInv, NEW w \in Workers, Release(w)
    PROVE  Fence'
<1> USE DEF TaskInv, TypeOK
<1>1. sold' = sold /\ Leave(w)
  BY DEF Release, providerVars
<1>2. \A v \in Workers : pc'[v] \notin PurchasePlace
  BY <1>1 DEF Release, Leave, Goto, WorkType, Fence, PurchasePlace
<1>3. \A u \in Tokens : ~Allocated(u)
  BY DEF Release, Fence, Allocated, PurchasePlace
<1> QED  BY <1>1, <1>2, <1>3 DEF Fence, Allocated, PurchasePlace

(* Storing the outcome keeps the token, so the fence stands.               *)
LEMMA OutcomeAside ==
    ASSUME TaskInv, NEW w \in Workers, Commit(w) \/ Recover(w) \/ MarkUnknown(w)
    PROVE  Aside
<1> USE DEF TaskInv, TypeOK
<1>1. seen[w].token \in Tokens
  BY BuyerToken DEF Commit, Recover, MarkUnknown, PurchasePlace
<1>2. row'.token = row.token
  BY <1>1, CommitDb, RecoverDb, MarkUnknownDb DEF RowKept
<1>3. sold' = sold
  BY DEF Commit, Recover, MarkUnknown, providerVars
<1>4. Leave(w) \/ (Goto(w, "recover") /\ Stay)
  BY DEF Commit, Recover, MarkUnknown
<1>5. pc[w] \in PurchasePlace
  BY DEF Commit, Recover, MarkUnknown, PurchasePlace
<1> QED  BY <1>2, <1>3, <1>4, <1>5 DEF Aside, Leave, Goto, Stay, WorkType, PurchasePlace

LEMMA StepInv ==
    ASSUME TaskInv, Next
    PROVE  TaskInv'
<1> USE DEF TaskInv
<1>1. CASE RequestStop \/ Restart \/ Environment
  BY <1>1, EnvironmentType, EnvironmentAside, AsideFence
<1>2. ASSUME NEW w \in Workers, Claim(w) \/ Work(w) \/ Crash(w)
      PROVE  TaskInv'
  <2>1. CASE Begin(w)
    BY <2>1, BeginType, BeginFence
  <2>2. CASE Buy(w)
    BY <2>2, BuyType, BuyFence
  <2>3. CASE Release(w)
    BY <2>3, ReleaseType, ReleaseFence
  <2>4. CASE Commit(w) \/ Recover(w) \/ MarkUnknown(w)
    <3>1. seen[w].token \in Tokens
      BY <2>4, BuyerToken DEF Commit, Recover, MarkUnknown, PurchasePlace
    <3>2. TypeOK'
      BY <2>4, <3>1, CommitType, RecoverType, MarkUnknownType
    <3> QED  BY <2>4, <3>2, OutcomeAside, AsideFence
  <2>5. CASE Claim(w) \/ BeginFails(w) \/ Receive(w) \/ Continue(w) \/ Settle(w) \/ Crash(w)
    <3>1. TypeOK'
      BY <2>5, ClaimType, BeginFailsType, PollType, PollAppendType, PollAppendFailsType,
         ScheduleType, BeginNextType, ExpiredBeforeAskType, AskType, CompleteType, AbortType,
         PrepareType, CallType, FinishType, CrashType DEF Receive, Continue, Settle
    <3> QED  BY <2>5, <3>1, OtherWork, AsideFence
  <2> QED  BY <1>2, <2>1, <2>2, <2>3, <2>4, <2>5 DEF Work, Purchase
<1> QED  BY <1>1, <1>2 DEF Next

LEMMA InitTaskInv ==
    ASSUME Init
    PROVE  TaskInv
<1>1. TypeOK
  <2>1. DbType /\ WorkType
    BY NewRowTyped DEF Init, DbType, WorkType, Place
  <2>2. ProviderType
    BY TaskBounds DEF Init, ProviderType
  <2> QED  BY <2>1, <2>2 DEF Init, TypeOK
<1>2. Fence
  BY DEF Init, Fence, PurchasePlace, Allocated
<1> QED  BY <1>1, <1>2 DEF TaskInv

(* The fence of a purchase (BeginHeroSMSTaskPurchase, and the statements   *)
(* that give it back) stands in every state, for any number of workers and *)
(* tokens, whatever crashes, expired leases, stops and restarts interleave.*)
THEOREM TaskInvariance == Spec => []TaskInv
<1>1. TaskInv /\ [Next]_vars => TaskInv'
  <2>1. ASSUME TaskInv, UNCHANGED vars
        PROVE  TaskInv'
    BY <2>1 DEF TaskInv, TypeOK, DbType, ProviderType, WorkType, Fence, Allocated, vars, dbVars,
                providerVars, workVars, boundVars
  <2> QED  BY <2>1, StepInv
<1> QED  BY <1>1, InitTaskInv, PTL DEF Spec

(* The variables of the number task keep their types.                      *)
THEOREM TaskTypeCorrect == Spec => []TypeOK
<1>1. TaskInv => TypeOK
  BY DEF TaskInv
<1> QED  BY <1>1, TaskInvariance, PTL

(* A number task never has two allocations at the provider: the row's      *)
(* token is the token of every allocation, so there is one at most.        *)
THEOREM SingleAllocation == Spec => []OneAllocation
<1>1. TaskInv => OneAllocation
  BY DEF TaskInv, Fence, OneAllocation
<1> QED  BY <1>1, TaskInvariance, PTL

-----------------------------------------------------------------------------
(* What each statement does to the columns of the row, column by column    *)

Identity == <<row.status, row.number, row.token>>
Counts == <<row.messages, row.continued, row.pending, row.supports>>

(* The row is the same row, with the same counts.                          *)
SameColumns == Identity' = Identity /\ Counts' = Counts /\ row'.refund = row.refund

LEMMA SameRowColumns ==
    ASSUME row' = row
    PROVE  SameColumns
  BY DEF SameColumns, Identity, Counts

LEMMA ClaimColumns ==
    ASSUME row \in Row, NEW w \in Workers, Claim(w)
    PROVE  /\ row'.status = IF row.status = "purchasing" THEN "purchase_unknown" ELSE row.status
           /\ row'.number = row.number /\ row'.token = row.token
           /\ Counts' = Counts /\ row'.refund = row.refund
<1>1. PICK s \in Status : s = IF row.status = "purchasing" THEN "purchase_unknown" ELSE row.status
  BY DEF Row, Status
<1>2. row' = [row EXCEPT !.status = s]
  BY <1>1 DEF Claim
<1>3. row'.status = s /\ row'.number = row.number /\ row'.token = row.token
      /\ row'.messages = row.messages /\ row'.continued = row.continued
      /\ row'.pending = row.pending /\ row'.supports = row.supports /\ row'.refund = row.refund
  BY <1>2 DEF Row
<1> QED  BY <1>1, <1>3 DEF Counts

LEMMA BeginColumns ==
    ASSUME row \in Row, NEW w \in Workers, NEW t \in Tokens,
           row' = [row EXCEPT !.status = "purchasing", !.token = t]
    PROVE  /\ row'.status = "purchasing" /\ row'.token = t /\ row'.number = row.number
           /\ Counts' = Counts /\ row'.refund = row.refund
<1>1. row'.messages = row.messages /\ row'.continued = row.continued
      /\ row'.pending = row.pending /\ row'.supports = row.supports
  BY DEF Row
<1> QED  BY <1>1 DEF Counts, Row

LEMMA ReleaseColumns ==
    ASSUME row \in Row, NEW w \in Workers, Release(w)
    PROVE  \/ SameColumns
           \/ /\ OwnsPurchase(w)
              /\ row'.status = "waiting_number" /\ row'.token = NoToken /\ row'.number = row.number
              /\ Counts' = Counts /\ row'.refund = row.refund /\ Unleased
<1>1. CASE OwnsPurchase(w)
  <2>1. row' = [row EXCEPT !.status = "waiting_number", !.token = NoToken, !.wake = FALSE] /\ Unleased
    BY <1>1 DEF Release
  <2>2. row'.messages = row.messages /\ row'.continued = row.continued
        /\ row'.pending = row.pending /\ row'.supports = row.supports
    BY <2>1 DEF Row
  <2>3. row'.status = "waiting_number" /\ row'.token = NoToken /\ row'.number = row.number
        /\ row'.refund = row.refund
    BY <2>1 DEF Row
  <2> QED  BY <1>1, <2>1, <2>2, <2>3 DEF Counts
<1>2. CASE ~OwnsPurchase(w)
  BY <1>2, SameRowColumns DEF Release
<1> QED  BY <1>1, <1>2

LEMMA PersistColumns ==
    ASSUME DbType, NEW r \in Row, NEW t \in Tokens, NEW c \in BOOLEAN, PersistOutcome(r, t, c)
    PROVE  /\ row'.status = "active" /\ row'.number = t /\ row'.token = r.token
           /\ row'.messages = Cardinality(attached') /\ row'.continued = r.continued
           /\ row'.pending = 0 /\ row'.supports = c
           /\ row'.refund = IF attached' # {} THEN "unavailable" ELSE "refundable"
           /\ attached' = attached \cup stored[t] /\ stored' = stored /\ Unleased
<1>1. attached' \in SUBSET Message /\ attached' = attached \cup stored[t] /\ stored' = stored /\ Unleased
  BY DEF PersistOutcome, Adopt, DbType
<1>2. PICK n \in Nat : n = Cardinality(attached')
  BY <1>1, Counted
<1>3. PICK f \in {"unavailable", "refundable"} :
            f = IF attached' # {} THEN "unavailable" ELSE "refundable"
  OBVIOUS
<1>4. PICK b \in BOOLEAN : b = (attached' # {})
  OBVIOUS
<1>5. row' = [r EXCEPT !.status = "active", !.number = t, !.supports = c, !.pending = 0,
                       !.dated = TRUE, !.messages = n, !.refund = f, !.wake = b]
  BY <1>2, <1>3, <1>4, Zenon DEF PersistOutcome
<1>6. row'.status = "active" /\ row'.number = t /\ row'.token = r.token
      /\ row'.messages = n /\ row'.continued = r.continued /\ row'.pending = 0
      /\ row'.supports = c /\ row'.refund = f
  BY <1>5 DEF Row
<1> QED  BY <1>1, <1>2, <1>3, <1>6

LEMMA MarkUnknownColumns ==
    ASSUME DbType, NEW w \in Workers, MarkUnknown(w)
    PROVE  \/ SameColumns /\ UNCHANGED <<attached, stored, holder, lapsed>>
           \/ /\ OwnsPurchase(w) /\ row'.status = "purchase_unknown" /\ row'.token = row.token
              /\ row'.continued = row.continued /\ row'.pending = row.pending
              /\ row'.supports = row.supports /\ row'.refund = row.refund
              /\ stored' = stored /\ Unleased
              /\ \/ /\ pc[w] = "mark_known" /\ row'.number = seen[w].token
                    /\ attached' = attached \cup stored[seen[w].token]
                    /\ row'.messages = Cardinality(attached')
                 \/ /\ attached' = attached
                    /\ row'.number = row.number /\ row'.messages = row.messages
<1>1. CASE ~OwnsPurchase(w)
  BY <1>1, SameRowColumns DEF MarkUnknown, dbVars
<1>2. CASE OwnsPurchase(w)
  <2>1. stored' = stored /\ Unleased
    BY <1>2 DEF MarkUnknown
  <2>2. CASE pc[w] = "mark_known"
    <3>1. attached' = attached \cup stored[seen[w].token]
      BY <1>2, <2>2 DEF MarkUnknown, Adopt
    <3>2. row' = [row EXCEPT !.status = "purchase_unknown", !.number = seen[w].token,
                             !.messages = Cardinality(attached')]
      BY <1>2, <2>2 DEF MarkUnknown
    <3>3. row'.status = "purchase_unknown" /\ row'.token = row.token
          /\ row'.continued = row.continued /\ row'.pending = row.pending
          /\ row'.supports = row.supports /\ row'.refund = row.refund
          /\ row'.number = seen[w].token /\ row'.messages = Cardinality(attached')
      BY <3>2 DEF DbType, Row
    <3> QED  BY <1>2, <2>1, <2>2, <3>1, <3>3
  <2>3. CASE pc[w] # "mark_known"
    <3>1. row' = [row EXCEPT !.status = "purchase_unknown", !.number = row.number, !.messages = row.messages]
      BY <1>2, <2>3 DEF MarkUnknown
    <3>2. attached' = attached
      BY <1>2, <2>3 DEF MarkUnknown
    <3>3. row'.status = "purchase_unknown" /\ row'.token = row.token
          /\ row'.continued = row.continued /\ row'.pending = row.pending
          /\ row'.supports = row.supports /\ row'.refund = row.refund
          /\ row'.number = row.number /\ row'.messages = row.messages
      BY <3>1 DEF DbType, Row
    <3> QED  BY <1>2, <2>1, <3>2, <3>3
  <2> QED  BY <2>2, <2>3
<1> QED  BY <1>1, <1>2

LEMMA AppendColumns ==
    ASSUME DbType, NEW t \in Tokens \cup {NoToken}, NEW i \in Message, Append(t, i)
    PROVE  /\ Identity' = Identity
           /\ row'.continued = row.continued /\ row'.pending = row.pending
           /\ row'.supports = row.supports
           /\ stored' = [stored EXCEPT ![t] = @ \cup {i}]
           /\ \/ /\ row.number = t /\ i \notin attached /\ attached' = attached \cup {i}
                 /\ row'.messages = Cardinality(attached')
                 /\ row'.refund = IF row.status = "active" THEN "unavailable" ELSE row.refund
              \/ /\ ~(row.number = t /\ i \notin attached) /\ attached' = attached
                 /\ row'.messages = row.messages /\ row'.refund = row.refund
<1>1. CASE row.number = t /\ i \notin attached
  <2>1. attached' = attached \cup {i} /\ stored' = [stored EXCEPT ![t] = @ \cup {i}]
    BY <1>1 DEF Append
  <2>2. PICK f \in Refund : f = IF row.status = "active" THEN "unavailable" ELSE row.refund
    BY DEF DbType, Row, Refund
  <2>3. PICK k \in BOOLEAN : k = (row.wake \/ row.status \notin Finished)
    BY DEF DbType, Row
  <2>4. row' = [row EXCEPT !.messages = Cardinality(attached'), !.refund = f, !.wake = k]
    BY <1>1, <2>2, <2>3 DEF Append, Woken
  <2>5. row'.status = row.status /\ row'.number = row.number /\ row'.token = row.token
        /\ row'.continued = row.continued /\ row'.pending = row.pending
        /\ row'.supports = row.supports
        /\ row'.messages = Cardinality(attached') /\ row'.refund = f
    BY <2>4 DEF DbType, Row
  <2> QED  BY <1>1, <2>1, <2>2, <2>5 DEF Identity
<1>2. CASE ~(row.number = t /\ i \notin attached)
  BY <1>2 DEF Append, Identity
<1> QED  BY <1>1, <1>2

LEMMA ScheduleColumns ==
    ASSUME row \in Row, NEW w \in Workers, seen[w] \in Row, Schedule(w)
    PROVE  \/ SameColumns /\ UNCHANGED <<holder, lapsed>>
           \/ /\ Owns(w) /\ row.status # "purchasing" /\ (row.pending = 0 \/ seen[w].status = "active")
              /\ row'.status = seen[w].status /\ row'.number = row.number /\ row'.token = row.token
              /\ Counts' = Counts /\ Unleased
              /\ \/ row'.refund = row.refund
                 \/ seen[w].status = "active" /\ row'.refund = "unavailable"
<1>1. PICK f \in Refund : f =
                IF seen[w].status = "active" /\ row.refund = "refundable"
                   /\ (row.messages > 0 \/ clock # "refundable")
                THEN "unavailable" ELSE row.refund
  BY DEF Refund, Row
<1>2. CASE row' = row /\ KeepLease
  BY <1>2, SameRowColumns DEF KeepLease
<1>3. CASE ~(row' = row /\ KeepLease)
  <2>1. /\ Owns(w) /\ row.status # "purchasing" /\ (row.pending = 0 \/ seen[w].status = "active")
        /\ row' = [row EXCEPT !.status = seen[w].status, !.wake = FALSE, !.refund = f] /\ Unleased
    BY <1>1, <1>3 DEF Schedule
  <2>2. row'.status = seen[w].status /\ row'.number = row.number /\ row'.token = row.token
        /\ row'.messages = row.messages /\ row'.continued = row.continued
        /\ row'.pending = row.pending /\ row'.supports = row.supports /\ row'.refund = f
    BY <2>1 DEF Row
  <2>3. f = row.refund \/ (seen[w].status = "active" /\ f = "unavailable")
    BY <1>1
  <2> QED  BY <2>1, <2>2, <2>3 DEF Counts
<1> QED  BY <1>2, <1>3

LEMMA BeginNextColumns ==
    ASSUME row \in Row, NEW w \in Workers, BeginNext(w)
    PROVE  \/ row' = row /\ SameColumns
           \/ /\ Owns(w) /\ MayBeginNext
              /\ Identity' = Identity /\ row'.refund = row.refund
              /\ row'.messages = row.messages /\ row'.continued = row.continued
              /\ row'.supports = row.supports /\ row'.pending = row.messages
<1>1. CASE row' = row
  BY <1>1, SameRowColumns
<1>2. CASE row' # row
  <2>1. Owns(w) /\ MayBeginNext /\ row' = [row EXCEPT !.pending = row.messages]
    BY <1>2 DEF BeginNext
  <2>2. row'.status = row.status /\ row'.number = row.number /\ row'.token = row.token
        /\ row'.messages = row.messages /\ row'.continued = row.continued
        /\ row'.supports = row.supports /\ row'.pending = row.messages /\ row'.refund = row.refund
    BY <2>1 DEF Row
  <2> QED  BY <2>1, <2>2 DEF Identity
<1> QED  BY <1>1, <1>2

LEMMA CompleteColumns ==
    ASSUME row \in Row, NEW w \in Workers, seen[w] \in Row, Complete(w)
    PROVE  \/ SameColumns /\ UNCHANGED <<holder, lapsed>>
           \/ /\ OwnsTarget(w) /\ row.continued < seen[w].pending /\ seen[w].pending <= row.messages
              /\ Identity' = Identity /\ row'.refund = row.refund /\ Unleased
              /\ row'.messages = row.messages /\ row'.supports = row.supports
              /\ row'.continued = seen[w].pending /\ row'.pending = 0
<1>0. row.wake \in BOOLEAN /\ (row.messages > seen[w].pending) \in BOOLEAN
  BY DEF Row
<1>1. PICK k \in BOOLEAN : k = IF row.stop THEN row.wake ELSE row.messages > seen[w].pending
  BY <1>0, Zenon
<1>2. CASE row' = row /\ KeepLease
  BY <1>2, SameRowColumns DEF KeepLease
<1>3. CASE ~(row' = row /\ KeepLease)
  <2>1. /\ OwnsTarget(w) /\ row.continued < seen[w].pending /\ seen[w].pending <= row.messages
        /\ row' = [row EXCEPT !.continued = seen[w].pending, !.pending = 0, !.wake = k] /\ Unleased
    BY <1>1, <1>3 DEF Complete
  <2>2. row'.status = row.status /\ row'.number = row.number /\ row'.token = row.token
        /\ row'.messages = row.messages /\ row'.continued = seen[w].pending
        /\ row'.supports = row.supports /\ row'.pending = 0 /\ row'.refund = row.refund
    BY <2>1 DEF Row
  <2> QED  BY <2>1, <2>2 DEF Identity
<1> QED  BY <1>2, <1>3

LEMMA AbortColumns ==
    ASSUME row \in Row, NEW w \in Workers, seen[w] \in Row, Abort(w)
    PROVE  \/ SameColumns /\ UNCHANGED <<holder, lapsed>>
           \/ /\ OwnsTarget(w)
              /\ Identity' = Identity /\ row'.refund = row.refund /\ Unleased
              /\ row'.messages = row.messages /\ row'.supports = row.supports
              /\ row'.continued = row.continued /\ row'.pending = 0
<1>0. row.wake \in BOOLEAN /\ (row.messages > seen[w].pending) \in BOOLEAN
  BY DEF Row
<1>1. PICK k \in BOOLEAN : k = IF row.stop THEN row.wake ELSE row.messages > seen[w].pending
  BY <1>0, Zenon
<1>2. CASE row' = row /\ KeepLease
  BY <1>2, SameRowColumns DEF KeepLease
<1>3. CASE ~(row' = row /\ KeepLease)
  <2>1. /\ OwnsTarget(w)
        /\ row' = [row EXCEPT !.pending = 0, !.wake = k] /\ Unleased
    BY <1>1, <1>3 DEF Abort
  <2>2. row'.status = row.status /\ row'.number = row.number /\ row'.token = row.token
        /\ row'.messages = row.messages /\ row'.continued = row.continued
        /\ row'.supports = row.supports /\ row'.pending = 0 /\ row'.refund = row.refund
    BY <2>1 DEF Row
  <2> QED  BY <2>1, <2>2 DEF Identity
<1> QED  BY <1>2, <1>3

(* The decision to settle as the statement takes it.                       *)
Decision == IF row.status = "active" /\ row.messages = 0 /\ clock = "refundable"
               /\ row.refund = "refundable"
            THEN "requested" ELSE "unavailable"
LEMMA PrepareColumns ==
    ASSUME row \in Row, NEW w \in Workers, Prepare(w)
    PROVE  \/ row' = row /\ SameColumns /\ Leave(w)
           \/ /\ Owns(w)
              /\ row.status = "active" \/ (row.status = "purchase_unknown" /\ row.number # NoToken)
              /\ row'.status = "settling" /\ row'.number = row.number /\ row'.token = row.token
              /\ row'.messages = row.messages /\ row'.continued = row.continued
              /\ row'.supports = row.supports /\ row'.pending = 0 /\ row'.refund = Decision
              /\ seen' = [seen EXCEPT ![w] = row'] /\ Goto(w, "call") /\ got' = got
<1>1. PICK f \in Refund : f = Decision
  BY DEF Refund, Decision
<1> DEFINE Mine == /\ Owns(w)
                   /\ row.status = "active" \/ (row.status = "purchase_unknown" /\ row.number # NoToken)
<1>2. CASE ~Mine
  <2>1. row' = row /\ Leave(w)
    BY <1>2 DEF Prepare
  <2> QED  BY <2>1, SameRowColumns
<1>3. CASE Mine
  <2>0. row' = Settling(row) /\ seen' = [seen EXCEPT ![w] = row'] /\ Goto(w, "call") /\ got' = got
    BY <1>3 DEF Prepare
  <2>1. row' = [row EXCEPT !.status = "settling", !.pending = 0, !.refund = f]
    BY <1>1, <2>0 DEF Settling, Decision
  <2>2. row'.status = "settling" /\ row'.number = row.number /\ row'.token = row.token
        /\ row'.messages = row.messages /\ row'.continued = row.continued
        /\ row'.supports = row.supports /\ row'.pending = 0 /\ row'.refund = f
    BY <2>1 DEF Row
  <2> QED  BY <1>1, <1>3, <2>0, <2>2
<1> QED  BY <1>2, <1>3

LEMMA FinishColumns ==
    ASSUME row \in Row, NEW w \in Workers, Finish(w)
    PROVE  \/ /\ row' = row /\ SameColumns /\ UNCHANGED <<holder, lapsed>>
              /\ Leave(w) \/ (pc[w] = "finish_refunded" /\ Goto(w, "finish_settled") /\ Stay)
           \/ /\ Owns(w) /\ MayFinish(Target(pc[w])) /\ Leave(w)
              /\ row'.status = Target(pc[w]) /\ row'.number = row.number /\ row'.token = row.token
              /\ row'.messages = row.messages /\ row'.continued = row.continued
              /\ row'.supports = row.supports /\ row'.pending = 0 /\ Unleased
<1>1. PICK s \in Status : s = Target(pc[w])
  BY DEF Target, Status
<1>2. PICK f \in Refund : f = FinishRefund(Target(pc[w]))
  BY DEF Target, FinishRefund, Refund
<1>3. CASE row' = row /\ KeepLease
  <2>1. Leave(w) \/ (pc[w] = "finish_refunded" /\ Goto(w, "finish_settled") /\ Stay)
    BY DEF Finish, Target
  <2> QED  BY <1>3, <2>1, SameRowColumns DEF KeepLease
<1>4. CASE ~(row' = row /\ KeepLease)
  <2>1. /\ Owns(w) /\ MayFinish(Target(pc[w])) /\ Leave(w) /\ Unleased
        /\ row' = [row EXCEPT !.status = s, !.refund = f, !.stop = FALSE, !.pending = 0, !.wake = FALSE]
    BY <1>1, <1>2, <1>4 DEF Finish, FinishAs
  <2>2. row'.status = s /\ row'.number = row.number /\ row'.token = row.token
        /\ row'.messages = row.messages /\ row'.continued = row.continued
        /\ row'.supports = row.supports /\ row'.pending = 0
    BY <2>1 DEF Row
  <2> QED  BY <1>1, <2>1, <2>2
<1> QED  BY <1>3, <1>4

LEMMA StopColumns ==
    ASSUME row \in Row, RequestStop
    PROVE  SameColumns
<1>1. row' = [row EXCEPT !.stop = TRUE]
  BY DEF RequestStop
<1>2. row'.status = row.status /\ row'.number = row.number /\ row'.token = row.token
      /\ row'.messages = row.messages /\ row'.continued = row.continued
      /\ row'.supports = row.supports /\ row'.pending = row.pending /\ row'.refund = row.refund
  BY <1>1 DEF Row
<1> QED  BY <1>2 DEF SameColumns, Identity, Counts

LEMMA RestartColumns ==
    ASSUME row \in Row, Restart
    PROVE  /\ row.status = "stopped" /\ row.number = NoToken /\ row.token = NoToken
           /\ row'.status = "waiting_number" /\ row'.number = NoToken /\ row'.token = NoToken
           /\ row'.messages = row.messages /\ row'.continued = row.continued
           /\ row'.supports = row.supports /\ row'.pending = 0 /\ row'.refund = row.refund
           /\ Unleased
<1>1. /\ row' = [row EXCEPT !.status = "waiting_number", !.stop = FALSE, !.pending = 0, !.wake = FALSE]
      /\ row.status = "stopped" /\ row.number = NoToken /\ row.token = NoToken /\ Unleased
  BY DEF Restart
<1>2. row'.status = "waiting_number" /\ row'.number = row.number /\ row'.token = row.token
      /\ row'.messages = row.messages /\ row'.continued = row.continued
      /\ row'.supports = row.supports /\ row'.pending = 0 /\ row'.refund = row.refund
  BY <1>1 DEF Row
<1> QED  BY <1>1, <1>2

-----------------------------------------------------------------------------
(* The number of the row                                                   *)

Numberless == {"waiting_number", "purchasing", "stopped"}
Numbered == {"active", "settling", "refunded", "settled", "expired"}

(* The number of a row is the one its token allocated, and which statuses  *)
(* have one.                                                               *)
NumberInv ==
    /\ row.number # NoToken => row.number = row.token /\ Allocated(row.number)
    /\ row.status = "waiting_number" => row.token = NoToken
    /\ row.status \in Numberless => row.number = NoToken
    /\ row.status \in Numbered => row.number # NoToken

(* The copy of a worker that still holds the lease is current in the       *)
(* columns it decides from, the number of any copy is the row's, and the   *)
(* worker that stores the outcome of a purchase knows of an allocation.    *)
NamedPlace == {"poll", "append", "begin_next", "ask", "ask_again", "complete", "abort",
               "call", "finish_refunded", "finish_settled", "finish_expired"}
BoughtPlace == {"commit", "recover", "mark_known"}
CopyOk(w) ==
    /\ holder = w /\ ~lapsed /\ pc[w] # "idle" =>
            seen[w].status = row.status /\ seen[w].number = row.number
    /\ seen[w].number # NoToken => seen[w].number = row.number
    /\ pc[w] \in NamedPlace => seen[w].number # NoToken
    /\ pc[w] \in BoughtPlace => Allocated(seen[w].token)
CopyInv == \A w \in Workers : CopyOk(w)

Sale == {"open", "cancelled", "finished", "gone"}
SoldKept == \A t \in Tokens : Allocated(t) => Allocated(t)'
NumberKept == row.number # NoToken => row'.number = row.number

LEMMA SameSold ==
    ASSUME sold' = sold
    PROVE  SoldKept
  BY DEF SoldKept, Allocated

(* A step that leaves status, number and token of the row alone.           *)
LEMMA SameNumber ==
    ASSUME TypeOK, NumberInv, SoldKept, Identity' = Identity
    PROVE  NumberInv' /\ NumberKept
<1>1. row'.status = row.status /\ row'.number = row.number /\ row'.token = row.token
  BY DEF Identity
<1>2. row.number # NoToken => row.number \in Tokens
  BY DEF TypeOK, DbType, Row
<1>3. row'.number # NoToken => row'.number = row'.token /\ sold'[row'.number] \in Sale
  BY <1>1, <1>2 DEF NumberInv, SoldKept, Allocated, Sale
<1> QED  BY <1>1, <1>3 DEF NumberInv, Allocated, NumberKept, Sale

(* A worker that does not take part in a step keeps a sound copy.          *)
LEMMA OtherCopy ==
    ASSUME TypeOK, NEW v \in Workers, CopyOk(v), pc'[v] = pc[v], seen'[v] = seen[v],
           pc[v] \in BoughtPlace => seen[v].token \in Tokens, SoldKept, NumberKept,
           holder' = v /\ ~lapsed' =>
                holder = v /\ ~lapsed /\ row'.status = row.status /\ row'.number = row.number
    PROVE  CopyOk(v)'
<1>1. pc'[v] \in BoughtPlace => sold'[seen'[v].token] \in Sale
  BY DEF CopyOk, SoldKept, Allocated, Sale
<1>2. pc'[v] \in NamedPlace => seen'[v].number # NoToken
  BY DEF CopyOk
<1>3. seen'[v].number # NoToken => seen'[v].number = row'.number
  BY DEF CopyOk, NumberKept
<1>4. holder' = v /\ ~lapsed' /\ pc'[v] # "idle" =>
            seen'[v].status = row'.status /\ seen'[v].number = row'.number
  BY DEF CopyOk
<1> QED  BY <1>1, <1>2, <1>3, <1>4 DEF CopyOk, Allocated, Sale

(* A worker that left has nothing to be wrong about.                       *)
LEMMA LeftCopy ==
    ASSUME TypeOK, NEW w \in Workers, Leave(w)
    PROVE  CopyOk(w)'
<1>1. pc'[w] = "idle" /\ seen'[w] = NewRow
  BY DEF Leave, Goto, TypeOK, WorkType
<1>2. NewRow.number = NoToken
  BY DEF NewRow
<1>3. seen'[w].number = NoToken
  BY <1>1, <1>2
<1> QED  BY <1>1, <1>3 DEF CopyOk, NamedPlace, BoughtPlace

(* A worker whose copy is the row it has just written or read.             *)
LEMMA FreshCopy ==
    ASSUME TypeOK, NEW w \in Workers, seen'[w] = row', pc'[w] \notin BoughtPlace,
           pc'[w] \in NamedPlace => row'.number # NoToken
    PROVE  CopyOk(w)'
  BY DEF CopyOk

(* A worker that moves on with its copy, and with its lease or without.    *)
LEMMA StayCopy ==
    ASSUME TypeOK, NEW w \in Workers, NEW p, CopyOk(w), pc[w] # "idle",
           Goto(w, p), Stay, SoldKept, NumberKept,
           p \in NamedPlace => seen[w].number # NoToken,
           p \in BoughtPlace => sold'[seen[w].token] \in Sale,
           holder' = w /\ ~lapsed' =>
                holder = w /\ ~lapsed /\ row'.status = row.status /\ row'.number = row.number
    PROVE  CopyOk(w)'
<1>1. pc'[w] = p /\ seen'[w] = seen[w]
  BY DEF Goto, Stay, TypeOK, WorkType
<1>2. pc'[w] \in BoughtPlace => sold'[seen'[w].token] \in Sale
  BY <1>1
<1>3. pc'[w] \in NamedPlace => seen'[w].number # NoToken
  BY <1>1
<1>4. seen'[w].number # NoToken => seen'[w].number = row'.number
  BY <1>1 DEF CopyOk, NumberKept
<1>5. holder' = w /\ ~lapsed' /\ pc'[w] # "idle" =>
            seen'[w].status = row'.status /\ seen'[w].number = row'.number
  BY <1>1 DEF CopyOk
<1> QED  BY <1>2, <1>3, <1>4, <1>5 DEF CopyOk, Allocated, Sale

(* The others, when the lease is kept or given back and the row keeps its  *)
(* identity, or when the lease goes to someone else.                       *)
LeaseAside(w) ==
    \A v \in Workers : v # w /\ holder' = v /\ ~lapsed' =>
        holder = v /\ ~lapsed /\ row'.status = row.status /\ row'.number = row.number

LEMMA OthersCopy ==
    ASSUME TaskInv, CopyInv, NEW w \in Workers, SoldKept, NumberKept, LeaseAside(w),
           \A v \in Workers \ {w} : pc'[v] = pc[v] /\ seen'[v] = seen[v], CopyOk(w)'
    PROVE  CopyInv'
<1>1. ASSUME NEW v \in Workers, v # w
      PROVE  CopyOk(v)'
  <2>1. CopyOk(v) /\ pc'[v] = pc[v] /\ seen'[v] = seen[v]
    BY <1>1 DEF CopyInv
  <2>2. pc[v] \in BoughtPlace => seen[v].token \in Tokens
    BY DEF TaskInv, Fence, PurchasePlace, BoughtPlace
  <2>3. TypeOK
    BY DEF TaskInv
  <2>4. holder' = v /\ ~lapsed' =>
            holder = v /\ ~lapsed /\ row'.status = row.status /\ row'.number = row.number
    BY <1>1 DEF LeaseAside
  <2> QED  BY <2>1, <2>2, <2>3, <2>4, OtherCopy
<1> QED  BY <1>1 DEF CopyInv

LEMMA OwnWork ==
    ASSUME TypeOK, NEW w \in Workers, Claim(w) \/ Work(w) \/ Crash(w)
    PROVE  \A v \in Workers \ {w} : pc'[v] = pc[v] /\ seen'[v] = seen[v]
<1>1. CASE Purchase(w)
  BY <1>1 DEF TypeOK, Purchase, Begin, BeginFails, Buy, Release, Commit, Recover, MarkUnknown,
              Goto, Stay, Leave, WorkType
<1>2. CASE Claim(w) \/ Receive(w) \/ Crash(w)
  BY <1>2 DEF TypeOK, Claim, Receive, Poll, PollAppend, PollAppendFails, Schedule, Crash,
              Goto, Stay, Leave, WorkType
<1>3. CASE Continue(w) \/ Settle(w)
  BY <1>3 DEF TypeOK, Continue, BeginNext, ExpiredBeforeAsk, Ask, Complete, Abort,
         Settle, Prepare, Call, Finish, Goto, Stay, Leave, WorkType
<1> QED  BY <1>1, <1>2, <1>3 DEF Work

(* What the provider allocated it never forgets.                           *)
LEMMA SoldForgetsNothing ==
    ASSUME TaskInv, Next
    PROVE  SoldKept
<1> USE DEF TaskInv, TypeOK
<1>1. ASSUME NEW w \in Workers, Buy(w)
      PROVE  SoldKept
  <2>1. seen[w].token \in Tokens /\ ~Allocated(seen[w].token)
    BY <1>1 DEF Buy, Fence, PurchasePlace, Allocated
  <2> QED  BY <1>1, <2>1 DEF Buy, SoldKept, Allocated, ProviderType
<1>2. ASSUME NEW w \in Workers, Call(w)
      PROVE  SoldKept
  BY <1>2 DEF Call, Reaction, Closed, SoldKept, Allocated, ProviderType
<1>3. ASSUME NEW t \in Tokens, ProviderExpires(t)
      PROVE  SoldKept
  BY <1>3 DEF ProviderExpires, SoldKept, Allocated, ProviderType
<1>4. CASE sold' = sold
  BY <1>4, SameSold
<1>5. CASE RequestStop \/ Restart \/ Environment
  BY <1>3, <1>4, <1>5 DEF RequestStop, Restart, Environment, ReceiveText, Callback, LoseCallback,
         Tick, LeaseExpires, Lapse, providerVars
<1>6. ASSUME NEW w \in Workers, Purchase(w)
      PROVE  SoldKept
  BY <1>1, <1>4, <1>6 DEF Purchase, Begin, BeginFails, Release, Commit, Recover, MarkUnknown, providerVars
<1>7. ASSUME NEW w \in Workers, Claim(w) \/ Crash(w) \/ Receive(w) \/ Continue(w) \/ Settle(w)
      PROVE  SoldKept
  BY <1>2, <1>4, <1>7 DEF Claim, Crash, Receive, Poll, PollAppend, PollAppendFails, Schedule,
         Continue, BeginNext, ExpiredBeforeAsk, Ask, Complete, Abort, Settle, Prepare, Finish, providerVars
<1> QED  BY <1>5, <1>6, <1>7 DEF Next, Work

(* What a step of w must establish; the other workers follow (OthersCopy). *)
StepOk(w) == NumberInv' /\ NumberKept /\ CopyOk(w)' /\ LeaseAside(w)

LEMMA OwnCopy ==
    ASSUME NEW w \in Workers, CopyOk(w), Owns(w), pc[w] # "idle"
    PROVE  seen[w].status = row.status /\ seen[w].number = row.number
  BY DEF CopyOk, Owns

(* w keeps its copy and the row its identity: the lease may be given back. *)
LEMMA QuietStep ==
    ASSUME TaskInv, NumberInv, NEW w \in Workers, CopyOk(w), SoldKept, Identity' = Identity,
           UNCHANGED <<holder, lapsed>> \/ Unleased,
           CopyOk(w)'
    PROVE  StepOk(w)
<1>1. NumberInv' /\ NumberKept
  BY SameNumber DEF TaskInv
<1>2. row'.status = row.status /\ row'.number = row.number
  BY DEF Identity
<1>3. LeaseAside(w)
  BY <1>2, TaskNulls DEF LeaseAside, Unleased
<1> QED  BY <1>1, <1>3 DEF StepOk

LEMMA MoveOn ==
    ASSUME TaskInv, NumberInv, NEW w \in Workers, CopyOk(w), SoldKept, Identity' = Identity,
           UNCHANGED <<holder, lapsed>>, pc[w] # "idle",
           NEW p, Goto(w, p), Stay, p \notin BoughtPlace,
           p \in NamedPlace => seen[w].number # NoToken
    PROVE  StepOk(w)
<1>1. NumberInv' /\ NumberKept /\ TypeOK
  BY SameNumber DEF TaskInv
<1>2. row'.status = row.status /\ row'.number = row.number
  BY DEF Identity
<1>3. CopyOk(w)'
  BY <1>1, <1>2, StayCopy
<1> QED  BY <1>3, QuietStep

LEMMA MoveOut ==
    ASSUME TaskInv, NumberInv, NEW w \in Workers, CopyOk(w), SoldKept, Identity' = Identity,
           UNCHANGED <<holder, lapsed>> \/ Unleased, Leave(w)
    PROVE  StepOk(w)
<1>1. CopyOk(w)'
  BY LeftCopy DEF TaskInv
<1> QED  BY <1>1, QuietStep

LEMMA ClaimNumber ==
    ASSUME TaskInv, NumberInv, CopyInv, SoldKept, NEW w \in Workers, Claim(w)
    PROVE  StepOk(w)
<1> USE DEF TaskInv, TypeOK
<1>1. /\ row'.status = IF row.status = "purchasing" THEN "purchase_unknown" ELSE row.status
      /\ row'.number = row.number /\ row'.token = row.token
  BY ClaimColumns DEF DbType
<1>2. sold' = sold /\ holder' = w /\ Claimable
  BY DEF Claim, providerVars
<1>3. NumberInv'
  BY <1>1, <1>2 DEF NumberInv, Allocated, Numberless, Numbered
<1>4. NumberKept /\ LeaseAside(w)
  BY <1>1, <1>2 DEF NumberKept, LeaseAside
<1>5. seen'[w] = row' /\ pc'[w] = Route(row')
  BY DEF Claim, Goto, WorkType
<1>6. Route(row') \notin BoughtPlace
  BY RoutePlace DEF PurchasePlace, BoughtPlace
<1>7. Route(row') \in NamedPlace => row'.number # NoToken
  <2>1. row'.status \in {"waiting_number", "active", "settling", "purchase_unknown"}
    BY <1>1, <1>2 DEF Claimable
  <2>2. CASE row'.status = "waiting_number" \/ row'.status = "purchase_unknown"
    BY <2>2 DEF Route, NamedPlace
  <2>3. CASE row'.status = "active" \/ row'.status = "settling"
    BY <1>3, <2>3 DEF NumberInv, Numbered
  <2> QED  BY <2>1, <2>2, <2>3
<1>8. CopyOk(w)'
  BY <1>5, <1>6, <1>7, FreshCopy
<1> QED  BY <1>3, <1>4, <1>8 DEF StepOk

LEMMA BeginNumber ==
    ASSUME TaskInv, NumberInv, CopyInv, SoldKept, NEW w \in Workers, Begin(w)
    PROVE  StepOk(w)
<1> USE DEF TaskInv, TypeOK
<1>1. CASE Leave(w) /\ row' = row
  BY <1>1, MoveOut DEF Begin, KeepLease, CopyInv, Identity
<1>2. CASE ~(Leave(w) /\ row' = row)
  <2>1. PICK t \in Tokens :
          /\ Owns(w) /\ row.status = "waiting_number"
          /\ row' = [row EXCEPT !.status = "purchasing", !.token = t]
          /\ seen' = [seen EXCEPT ![w] = row'] /\ Goto(w, "buy")
    BY <1>2 DEF Begin
  <2>2. row'.status = "purchasing" /\ row'.token = t /\ row'.number = row.number
    BY <2>1, BeginColumns DEF DbType
  <2>3. row.number = NoToken
    BY <2>1 DEF NumberInv, Numberless
  <2>4. NumberInv' /\ NumberKept
    BY <2>2, <2>3 DEF NumberInv, Numberless, Numbered, NumberKept
  <2>5. LeaseAside(w)
    BY <2>1 DEF LeaseAside, Owns, Begin, KeepLease
  <2>6. seen'[w] = row' /\ pc'[w] = "buy"
    BY <2>1 DEF Goto, WorkType
  <2>7. CopyOk(w)'
    BY <2>6, FreshCopy DEF NamedPlace, BoughtPlace
  <2> QED  BY <2>4, <2>5, <2>7 DEF StepOk
<1> QED  BY <1>1, <1>2

LEMMA BuyNumber ==
    ASSUME TaskInv, NumberInv, CopyInv, SoldKept, NEW w \in Workers, Buy(w)
    PROVE  StepOk(w)
<1> USE DEF TaskInv, TypeOK
<1>1. seen[w].token \in Tokens
  BY BuyerToken DEF Buy, PurchasePlace
<1>2. PICK p \in {"release", "commit", "mark_known", "mark"} :
        /\ Goto(w, p) /\ Stay
        /\ p \in {"commit", "mark_known"} => sold'[seen[w].token] = "open"
  BY <1>1 DEF Buy, ProviderType
<1>3. row' = row /\ UNCHANGED <<holder, lapsed>> /\ pc[w] # "idle"
  BY DEF Buy, dbVars
<1>4. NumberKept
  BY <1>3 DEF NumberKept
<1>5. CopyOk(w)'
  BY <1>2, <1>3, <1>4, StayCopy DEF NamedPlace, BoughtPlace, CopyInv, Sale
<1> QED  BY <1>3, <1>5, QuietStep DEF CopyInv, Identity

LEMMA ReleaseNumber ==
    ASSUME TaskInv, NumberInv, CopyInv, SoldKept, NEW w \in Workers, Release(w)
    PROVE  StepOk(w)
<1> USE DEF TaskInv, TypeOK
<1>1. CASE OwnsPurchase(w) /\ row'.status = "waiting_number" /\ row'.token = NoToken
           /\ row'.number = row.number /\ Unleased
  <2>1. row.number = NoToken
    BY <1>1 DEF OwnsPurchase, NumberInv, Numberless
  <2>2. NumberInv' /\ NumberKept
    BY <1>1, <2>1 DEF NumberInv, Numberless, Numbered, NumberKept
  <2>3. LeaseAside(w)
    BY <1>1, TaskNulls DEF LeaseAside, Unleased
  <2>4. CopyOk(w)'
    BY LeftCopy DEF Release
  <2> QED  BY <2>2, <2>3, <2>4 DEF StepOk
<1>2. CASE SameColumns
  BY <1>2, MoveOut DEF Release, KeepLease, SameColumns, CopyInv
<1> QED  BY <1>1, <1>2, ReleaseColumns DEF DbType

(* The outcome of a purchase is stored for the row's own token.            *)
LEMMA PersistNumber ==
    ASSUME TaskInv, NumberInv, NEW w \in Workers, SoldKept,
           NEW t \in Tokens, row.token = t, row.number \in {NoToken, t}, Allocated(t),
           NEW r \in Row, r.token = row.token, NEW c \in BOOLEAN, PersistOutcome(r, t, c)
    PROVE  NumberInv' /\ NumberKept /\ LeaseAside(w) /\ row'.number = t
<1> USE DEF TaskInv, TypeOK
<1>1. row'.status = "active" /\ row'.number = t /\ row'.token = t /\ Unleased
  BY PersistColumns
<1>2. sold'[t] \in Sale
  BY DEF SoldKept, Allocated, Sale
<1>3. NumberInv'
  BY <1>1, <1>2, TaskNulls DEF NumberInv, Numberless, Numbered, Allocated, Sale
<1> QED  BY <1>1, <1>3, TaskNulls DEF NumberKept, LeaseAside, Unleased

LEMMA CommitNumber ==
    ASSUME TaskInv, NumberInv, CopyInv, SoldKept, NEW w \in Workers, Commit(w)
    PROVE  StepOk(w)
<1> USE DEF TaskInv, TypeOK
<1>1. seen[w].token \in Tokens /\ row.token = seen[w].token /\ Allocated(seen[w].token)
      /\ CopyOk(w) /\ pc[w] = "commit" /\ sold' = sold
  BY BuyerToken DEF Commit, PurchasePlace, CopyInv, CopyOk, BoughtPlace, providerVars
<1>2. CASE OwnsPurchase(w) /\ \E c \in Capability : PersistOutcome(row, seen[w].token, c)
  <2>1. PICK c \in BOOLEAN : PersistOutcome(row, seen[w].token, c)
    BY <1>2 DEF Capability
  <2>2. row.number = NoToken
    BY <1>2 DEF OwnsPurchase, NumberInv, Numberless
  <2>3. NumberInv' /\ NumberKept /\ LeaseAside(w)
    BY <1>1, <2>1, <2>2, PersistNumber DEF DbType
  <2>4. CASE Leave(w)
    BY <2>3, <2>4, LeftCopy DEF StepOk
  <2>5. CASE Goto(w, "recover") /\ Stay
    <3>1. holder' = NoWorker
      BY <2>1 DEF PersistOutcome, Unleased
    <3>2. sold'[seen[w].token] \in Sale
      BY <1>1 DEF Allocated, Sale
    <3>3. CopyOk(w)'
      BY <1>1, <2>3, <2>5, <3>1, <3>2, TaskNulls, StayCopy DEF NamedPlace
    <3> QED  BY <2>3, <3>3 DEF StepOk
  <2> QED  BY <2>4, <2>5 DEF Commit
<1>3. CASE Goto(w, "recover") /\ Stay /\ UNCHANGED dbVars
  <2>1. row' = row /\ UNCHANGED <<holder, lapsed>>
    BY <1>3 DEF dbVars
  <2>2. NumberKept /\ sold'[seen[w].token] \in Sale
    BY <1>1, <2>1 DEF NumberKept, Allocated, Sale
  <2>3. CopyOk(w)'
    BY <1>1, <1>3, <2>1, <2>2, StayCopy DEF NamedPlace
  <2> QED  BY <1>1, <2>1, <2>3, QuietStep DEF Identity
<1> QED  BY <1>2, <1>3 DEF Commit

(* What Recover leaves in the row, unless it was stored before.            *)
LEMMA RecoverNumber ==
    ASSUME TaskInv, NumberInv, CopyInv, SoldKept, NEW w \in Workers, Recover(w)
    PROVE  StepOk(w) /\ row'.number = seen[w].token
<1> USE DEF TaskInv, TypeOK
<1> DEFINE t == seen[w].token
           r == [row EXCEPT !.stop = @ \/ row.status = "stopped"]
<1>1. t \in Tokens /\ row.token = t /\ Allocated(t) /\ CopyOk(w) /\ Leave(w)
  BY BuyerToken DEF Recover, PurchasePlace, CopyInv, CopyOk, BoughtPlace
<1>2. CopyOk(w)'
  BY <1>1, LeftCopy
<1>3. row.number \in {NoToken, t}
  BY <1>1 DEF NumberInv
<1>4. CASE Recoverable(t)
  <2>1. r \in Row /\ r.token = row.token
    BY DEF DbType, Row
  <2>2. PICK c \in BOOLEAN : PersistOutcome(r, t, c)
    BY <1>4 DEF Recover, Capability
  <2> HIDE DEF r, t
  <2> QED  BY <1>1, <1>2, <1>3, <2>1, <2>2, PersistNumber DEF StepOk, t
<1>5. CASE ~Recoverable(t)
  <2>1. row' = row /\ UNCHANGED <<holder, lapsed>>
    BY <1>5 DEF Recover, dbVars
  <2>2. row.status \in {"waiting_number", "settling", "refunded", "settled", "expired"}
    BY <1>1, <1>3, <1>5 DEF Recoverable, DbType, Row, Status
  <2>3. row.status # "waiting_number"
    BY <1>1, TaskNulls DEF NumberInv
  <2>4. row.number = t
    BY <1>3, <2>2, <2>3 DEF NumberInv, Numbered
  <2> QED  BY <1>1, <2>1, <2>4, MoveOut DEF Identity
<1> QED  BY <1>4, <1>5

LEMMA MarkUnknownNumber ==
    ASSUME TaskInv, NumberInv, CopyInv, SoldKept, NEW w \in Workers, MarkUnknown(w)
    PROVE  StepOk(w)
<1> USE DEF TaskInv, TypeOK
<1>1. seen[w].token \in Tokens /\ row.token = seen[w].token /\ CopyOk(w) /\ Leave(w)
  BY BuyerToken DEF MarkUnknown, PurchasePlace, CopyInv
<1>2. CASE SameColumns /\ UNCHANGED <<attached, stored, holder, lapsed>>
  BY <1>1, <1>2, MoveOut DEF SameColumns
<1>3. CASE OwnsPurchase(w) /\ row'.status = "purchase_unknown" /\ row'.token = row.token /\ Unleased
           /\ ((pc[w] = "mark_known" /\ row'.number = seen[w].token) \/ row'.number = row.number)
  <2>1. row.number = NoToken
    BY <1>3 DEF OwnsPurchase, NumberInv, Numberless
  <2>2. row'.number # NoToken => row'.number = row'.token /\ sold'[row'.number] \in Sale
    BY <1>1, <1>3, <2>1 DEF CopyOk, BoughtPlace, SoldKept, Allocated, Sale
  <2>3. NumberInv' /\ NumberKept
    BY <1>3, <2>1, <2>2 DEF NumberInv, Numberless, Numbered, NumberKept, Allocated, Sale
  <2>4. LeaseAside(w)
    BY <1>3, TaskNulls DEF LeaseAside, Unleased
  <2> QED  BY <1>1, <2>3, <2>4, LeftCopy DEF StepOk
<1> QED  BY <1>2, <1>3, MarkUnknownColumns

LEMMA IdleHands ==
    ASSUME TaskInv, NumberInv, CopyInv, SoldKept, NEW w \in Workers,
           BeginFails(w) \/ PollAppendFails(w) \/ ExpiredBeforeAsk(w) \/ Crash(w)
    PROVE  StepOk(w)
<1>1. row' = row /\ UNCHANGED <<holder, lapsed>> /\ pc[w] # "idle" /\ CopyOk(w)
  BY DEF BeginFails, PollAppendFails, ExpiredBeforeAsk, Crash, Working, dbVars, CopyInv
<1>2. CASE Crash(w)
  BY <1>1, <1>2, MoveOut DEF Crash, Identity
<1>3. CASE BeginFails(w) \/ PollAppendFails(w)
  BY <1>1, <1>3, MoveOn DEF BeginFails, PollAppendFails, Identity, NamedPlace, BoughtPlace
<1>4. CASE ExpiredBeforeAsk(w)
  <2>1. seen[w].number # NoToken
    BY <1>1, <1>4 DEF ExpiredBeforeAsk, CopyOk, NamedPlace
  <2> QED  BY <1>1, <1>4, <2>1, MoveOn DEF ExpiredBeforeAsk, Identity, NamedPlace, BoughtPlace
<1> QED  BY <1>2, <1>3, <1>4

(* A worker at a place of the number moves to another place.               *)
LEMMA MoveNamed ==
    ASSUME TaskInv, NumberInv, NEW w \in Workers, CopyOk(w), SoldKept, Identity' = Identity,
           UNCHANGED <<holder, lapsed>>, pc[w] \in NamedPlace,
           NEW p \in Place \ BoughtPlace, Goto(w, p), Stay
    PROVE  StepOk(w)
<1>1. seen[w].number # NoToken /\ pc[w] # "idle"
  BY DEF CopyOk, NamedPlace
<1> QED  BY <1>1, MoveOn

LEMMA PollNumber ==
    ASSUME TaskInv, NumberInv, CopyInv, SoldKept, NEW w \in Workers, Poll(w)
    PROVE  StepOk(w)
<1> USE DEF TaskInv, TypeOK
<1>1. row' = row /\ UNCHANGED <<holder, lapsed>> /\ pc[w] = "poll" /\ CopyOk(w)
  BY DEF Poll, dbVars, CopyInv
<1>2. PICK p \in Place \ BoughtPlace : Goto(w, p) /\ seen' = seen
  <2>1. AfterPoll(seen[w]) \in Place \ BoughtPlace
    BY AfterPollPlace DEF Place, BoughtPlace
  <2>2. "append" \in Place \ BoughtPlace /\ "schedule" \in Place \ BoughtPlace
    BY DEF Place, BoughtPlace
  <2> QED  BY <2>1, <2>2 DEF Poll, Stay
<1>3. pc'[w] = p /\ seen'[w] = seen[w]
  BY <1>2 DEF Goto, WorkType
<1>4. CopyOk(w)'
  BY <1>1, <1>3 DEF CopyOk, NamedPlace
<1> QED  BY <1>1, <1>4, QuietStep DEF Identity

LEMMA PollAppendNumber ==
    ASSUME TaskInv, NumberInv, CopyInv, SoldKept, NEW w \in Workers, PollAppend(w)
    PROVE  StepOk(w)
<1> USE DEF TaskInv, TypeOK
<1>1. PICK i \in got[w] : Append(seen[w].number, i)
  BY DEF PollAppend
<1>2. i \in Message /\ seen[w].number \in Tokens \cup {NoToken} /\ CopyOk(w)
  BY <1>1 DEF WorkType, Row, CopyInv
<1>3. Identity' = Identity
  BY <1>1, <1>2, AppendColumns
<1>4. UNCHANGED <<holder, lapsed>> /\ pc[w] = "append" /\ seen'[w] = row'
  BY DEF PollAppend, KeepLease, WorkType
<1>5. pc'[w] \notin BoughtPlace
  <2>1. PICK p \in {"prepare", "append", "ask_again", "begin_next", "schedule"} : Goto(w, p)
    BY AfterPollPlace DEF PollAppend
  <2> QED  BY <2>1 DEF Goto, WorkType, BoughtPlace
<1>6. row'.number # NoToken
  BY <1>2, <1>3, <1>4 DEF CopyOk, NamedPlace, Identity
<1>7. CopyOk(w)'
  BY <1>4, <1>5, <1>6, FreshCopy
<1> QED  BY <1>2, <1>3, <1>4, <1>7, QuietStep

LEMMA ScheduleNumber ==
    ASSUME TaskInv, NumberInv, CopyInv, SoldKept, NEW w \in Workers, Schedule(w)
    PROVE  StepOk(w) /\ Identity' = Identity
<1> USE DEF TaskInv, TypeOK
<1>1. CopyOk(w) /\ Leave(w) /\ pc[w] # "idle" /\ row \in Row /\ seen[w] \in Row
  BY DEF CopyInv, Schedule, DbType, WorkType
<1>2. CASE SameColumns /\ UNCHANGED <<holder, lapsed>>
  BY <1>1, <1>2, MoveOut DEF SameColumns
<1>3. CASE Owns(w) /\ row'.status = seen[w].status /\ row'.number = row.number
           /\ row'.token = row.token /\ Unleased
  <2>1. Identity' = Identity
    BY <1>1, <1>3, OwnCopy DEF Identity
  <2> QED  BY <1>1, <1>3, <2>1, MoveOut
<1> QED  BY <1>1, <1>2, <1>3, ScheduleColumns

LEMMA BeginNextNumber ==
    ASSUME TaskInv, NumberInv, CopyInv, SoldKept, NEW w \in Workers, BeginNext(w)
    PROVE  StepOk(w)
<1> USE DEF TaskInv, TypeOK
<1>1. CopyOk(w) /\ pc[w] = "begin_next" /\ UNCHANGED <<holder, lapsed>> /\ row \in Row
  BY DEF CopyInv, BeginNext, KeepLease, DbType
<1>2. Identity' = Identity
  BY <1>1, BeginNextColumns DEF SameColumns
<1>3. CASE Goto(w, "schedule") /\ Stay
  BY <1>1, <1>2, <1>3, MoveNamed DEF NamedPlace, BoughtPlace, Place
<1>4. CASE ~(Goto(w, "schedule") /\ Stay)
  <2>1. seen'[w] = row' /\ pc'[w] = "ask"
    BY <1>4 DEF BeginNext, Goto, WorkType
  <2>2. row'.number # NoToken
    BY <1>1, <1>2 DEF CopyOk, NamedPlace, Identity
  <2>3. CopyOk(w)'
    BY <2>1, <2>2, FreshCopy DEF BoughtPlace
  <2> QED  BY <1>1, <1>2, <2>3, QuietStep
<1> QED  BY <1>3, <1>4

LEMMA AskNumber ==
    ASSUME TaskInv, NumberInv, CopyInv, SoldKept, NEW w \in Workers, Ask(w)
    PROVE  StepOk(w)
<1>1. row' = row /\ UNCHANGED <<holder, lapsed>> /\ pc[w] \in NamedPlace /\ CopyOk(w) /\ Stay
  BY DEF Ask, dbVars, CopyInv, NamedPlace
<1>2. PICK p \in Place \ BoughtPlace : Goto(w, p)
  BY DEF Ask, AfterAsk, AfterAskAgain, Place, BoughtPlace
<1> QED  BY <1>1, <1>2, MoveNamed DEF Identity

LEMMA AcknowledgeNumber ==
    ASSUME TaskInv, NumberInv, CopyInv, SoldKept, NEW w \in Workers, Complete(w) \/ Abort(w)
    PROVE  StepOk(w)
<1>1. CopyOk(w) /\ Leave(w) /\ row \in Row /\ seen[w] \in Row
  BY DEF CopyInv, Complete, Abort, TaskInv, TypeOK, DbType, WorkType
<1>2. Identity' = Identity /\ (UNCHANGED <<holder, lapsed>> \/ Unleased)
  BY <1>1, CompleteColumns, AbortColumns DEF SameColumns
<1> QED  BY <1>1, <1>2, MoveOut

LEMMA PrepareNumber ==
    ASSUME TaskInv, NumberInv, CopyInv, SoldKept, NEW w \in Workers, Prepare(w)
    PROVE  StepOk(w)
<1> USE DEF TaskInv, TypeOK
<1>1. CopyOk(w) /\ UNCHANGED <<holder, lapsed>> /\ row \in Row /\ sold' = sold
  BY DEF CopyInv, Prepare, KeepLease, DbType, providerVars
<1>2. CASE row' = row /\ SameColumns /\ Leave(w)
  BY <1>1, <1>2, MoveOut DEF SameColumns
<1>3. CASE /\ Owns(w)
           /\ row.status = "active" \/ (row.status = "purchase_unknown" /\ row.number # NoToken)
           /\ row'.status = "settling" /\ row'.number = row.number /\ row'.token = row.token
           /\ seen' = [seen EXCEPT ![w] = row'] /\ Goto(w, "call")
  <2>1. row.number # NoToken
    BY <1>3 DEF NumberInv, Numbered
  <2>2. NumberInv' /\ NumberKept
    BY <1>1, <1>3, <2>1 DEF NumberInv, Numberless, NumberKept, Allocated
  <2>3. LeaseAside(w)
    BY <1>1, <1>3 DEF LeaseAside, Owns
  <2>4. seen'[w] = row' /\ pc'[w] = "call"
    BY <1>3 DEF Goto, WorkType
  <2>5. CopyOk(w)'
    BY <1>3, <2>1, <2>4, FreshCopy DEF BoughtPlace
  <2> QED  BY <2>2, <2>3, <2>5 DEF StepOk
<1> QED  BY <1>1, <1>2, <1>3, PrepareColumns

LEMMA CallNumber ==
    ASSUME TaskInv, NumberInv, CopyInv, SoldKept, NEW w \in Workers, Call(w)
    PROVE  StepOk(w)
<1>1. row' = row /\ UNCHANGED <<holder, lapsed>> /\ pc[w] \in NamedPlace /\ CopyOk(w) /\ Stay
  BY DEF Call, dbVars, CopyInv, NamedPlace
<1>2. PICK p \in Place \ BoughtPlace : Goto(w, p)
  BY DEF Call, Conclude, Place, BoughtPlace
<1> QED  BY <1>1, <1>2, MoveNamed DEF Identity

LEMMA FinishNumber ==
    ASSUME TaskInv, NumberInv, CopyInv, SoldKept, NEW w \in Workers, Finish(w)
    PROVE  StepOk(w)
<1> USE DEF TaskInv, TypeOK
<1>1. CopyOk(w) /\ pc[w] # "idle" /\ row \in Row /\ sold' = sold
  BY DEF CopyInv, Finish, DbType, providerVars
<1>2. CASE /\ row' = row /\ SameColumns /\ UNCHANGED <<holder, lapsed>>
           /\ Leave(w) \/ (pc[w] = "finish_refunded" /\ Goto(w, "finish_settled") /\ Stay)
  <2>1. CASE Leave(w)
    BY <1>1, <1>2, <2>1, MoveOut DEF SameColumns
  <2>2. CASE pc[w] = "finish_refunded" /\ Goto(w, "finish_settled") /\ Stay
    BY <1>1, <1>2, <2>2, MoveNamed DEF SameColumns, NamedPlace, BoughtPlace, Place
  <2> QED  BY <1>2, <2>1, <2>2
<1>3. CASE /\ Owns(w) /\ MayFinish(Target(pc[w])) /\ Leave(w)
           /\ row'.status = Target(pc[w]) /\ row'.number = row.number /\ row'.token = row.token
           /\ Unleased
  <2>1. Target(pc[w]) \in {"stopped", "refunded", "settled", "expired"}
    BY DEF Target
  <2>2. IF Target(pc[w]) = "stopped" THEN row.number = NoToken
        ELSE row.status \in {"active", "settling"}
    BY <1>3, <2>1 DEF MayFinish
  <2>3. IF Target(pc[w]) = "stopped" THEN row.number = NoToken ELSE row.number # NoToken
    BY <2>2 DEF NumberInv, Numbered
  <2>4. NumberInv' /\ NumberKept
    BY <1>1, <1>3, <2>1, <2>3 DEF NumberInv, Numberless, Numbered, NumberKept, Allocated
  <2>5. LeaseAside(w)
    BY <1>3, TaskNulls DEF LeaseAside, Unleased
  <2> QED  BY <1>3, <2>4, <2>5, LeftCopy DEF StepOk
<1> QED  BY <1>1, <1>2, <1>3, FinishColumns

-----------------------------------------------------------------------------

LEMMA WorkerNumber ==
    ASSUME TaskInv, NumberInv, CopyInv, SoldKept, NEW w \in Workers,
           Claim(w) \/ Work(w) \/ Crash(w)
    PROVE  StepOk(w)
  BY ClaimNumber, IdleHands, BeginNumber, BuyNumber, ReleaseNumber, CommitNumber, RecoverNumber,
     MarkUnknownNumber, PollNumber, PollAppendNumber, ScheduleNumber, BeginNextNumber, AskNumber,
     AcknowledgeNumber, PrepareNumber, CallNumber, FinishNumber
     DEF Work, Purchase, Receive, Continue, Settle

(* A stop, a restart, a callback, the provider and the clock: the copies   *)
(* stay, and the lease is kept, lost or given back.                        *)
LEMMA OutsideNumber ==
    ASSUME TaskInv, NumberInv, CopyInv, SoldKept, RequestStop \/ Restart \/ Environment
    PROVE  NumberInv' /\ NumberKept /\ CopyInv'
<1> USE DEF TaskInv, TypeOK
<1>1. UNCHANGED <<pc, seen>>
  BY DEF RequestStop, Restart, Environment, ReceiveText, ProviderExpires, Callback, LoseCallback,
         Tick, LeaseExpires, Lapse, workVars
<1>2. Identity' = Identity \/ Restart
  <2>1. ASSUME NEW t \in Tokens, NEW i \in Message, Callback(t, i)
        PROVE  Identity' = Identity
    BY <2>1, AppendColumns DEF Callback
  <2>2. CASE row' = row
    BY <2>2 DEF Identity
  <2>3. CASE RequestStop
    BY <2>3, StopColumns DEF SameColumns, DbType
  <2> QED  BY <2>1, <2>2, <2>3 DEF Environment, ReceiveText, ProviderExpires, LoseCallback,
                                   Tick, LeaseExpires, Lapse, dbVars
<1>3. \A v \in Workers : holder' = v /\ ~lapsed' => holder = v /\ ~lapsed
  BY TaskNulls DEF RequestStop, Restart, Environment, ReceiveText, ProviderExpires, Callback,
         LoseCallback, Tick, LeaseExpires, Lapse, dbVars, Unleased, KeepLease
<1>4. CASE Restart
  <2>1. row.number = NoToken /\ row'.status = "waiting_number" /\ row'.number = NoToken
        /\ row'.token = NoToken /\ holder' = NoWorker
    BY <1>4, RestartColumns DEF DbType, Unleased
  <2>2. NumberInv' /\ NumberKept
    BY <2>1 DEF NumberInv, Numberless, Numbered, NumberKept
  <2>3. ASSUME NEW v \in Workers
        PROVE  CopyOk(v)'
    <3>1. pc[v] \in BoughtPlace => seen[v].token \in Tokens
      BY DEF Fence, PurchasePlace, BoughtPlace
    <3>2. pc'[v] = pc[v] /\ seen'[v] = seen[v] /\ holder' # v /\ CopyOk(v)
      BY <1>1, <2>1, TaskNulls DEF CopyInv
    <3> QED  BY <2>2, <3>1, <3>2, OtherCopy
  <2> QED  BY <2>2, <2>3 DEF CopyInv
<1>5. CASE Identity' = Identity
  <2>1. NumberInv' /\ NumberKept
    BY <1>5, SameNumber
  <2>2. row'.status = row.status /\ row'.number = row.number
    BY <1>5 DEF Identity
  <2>3. ASSUME NEW v \in Workers
        PROVE  CopyOk(v)'
    <3>1. pc[v] \in BoughtPlace => seen[v].token \in Tokens
      BY DEF Fence, PurchasePlace, BoughtPlace
    <3>2. pc'[v] = pc[v] /\ seen'[v] = seen[v] /\ CopyOk(v)
      BY <1>1 DEF CopyInv
    <3> QED  BY <1>3, <2>1, <2>2, <3>1, <3>2, OtherCopy
  <2> QED  BY <2>1, <2>3 DEF CopyInv
<1> QED  BY <1>2, <1>4, <1>5

(* The purchase fence, the number it stands for and the workers' copies.   *)
NumberedInv == TaskInv /\ NumberInv /\ CopyInv

LEMMA NumberedStep ==
    ASSUME NumberedInv, Next
    PROVE  NumberedInv' /\ SoldKept /\ NumberKept
<1> USE DEF NumberedInv
<1>1. TaskInv' /\ SoldKept
  BY StepInv, SoldForgetsNothing
<1>2. ASSUME NEW w \in Workers, Claim(w) \/ Work(w) \/ Crash(w)
      PROVE  NumberInv' /\ NumberKept /\ CopyInv'
  <2>1. StepOk(w)
    BY <1>1, <1>2, WorkerNumber
  <2>2. \A v \in Workers \ {w} : pc'[v] = pc[v] /\ seen'[v] = seen[v]
    BY <1>2, OwnWork DEF TaskInv
  <2> QED  BY <1>1, <2>1, <2>2, OthersCopy DEF StepOk
<1>3. CASE RequestStop \/ Restart \/ Environment
  BY <1>1, <1>3, OutsideNumber
<1> QED  BY <1>1, <1>2, <1>3 DEF Next

LEMMA InitNumbered ==
    ASSUME Init
    PROVE  NumberedInv
<1>1. row = NewRow /\ holder = NoWorker /\ \A w \in Workers : pc[w] = "idle" /\ seen[w] = NewRow
  BY DEF Init
<1>2. NewRow.status = "waiting_number" /\ NewRow.number = NoToken /\ NewRow.token = NoToken
  BY DEF NewRow
<1>3. NumberInv
  BY <1>1, <1>2 DEF NumberInv, Numberless, Numbered
<1>4. CopyInv
  BY <1>1, <1>2 DEF CopyInv, CopyOk, NamedPlace, BoughtPlace
<1> QED  BY <1>3, <1>4, InitTaskInv DEF NumberedInv

LEMMA NumberedInvariance == Spec => []NumberedInv
<1>1. ASSUME NumberedInv, UNCHANGED vars
      PROVE  NumberedInv'
  BY <1>1 DEF NumberedInv, TaskInv, TypeOK, DbType, ProviderType, WorkType, Fence, Allocated, vars,
     dbVars, providerVars, workVars, boundVars, NumberInv, CopyInv, CopyOk
<1>2. NumberedInv /\ [Next]_vars => NumberedInv'
  BY <1>1, NumberedStep
<1> QED  BY <1>2, InitNumbered, PTL DEF Spec

(* A worker that stores the outcome of a purchase and leaves has the       *)
(* number on the row: the commit writes it, or the recovery does, or the   *)
(* row had it already, because a row with that token that can no longer be *)
(* recovered is one that was given its number before.                      *)
THEOREM BoughtNumberIsKept == Spec => NumberIsKept
<1> DEFINE Stored(w) == pc[w] \in {"commit", "recover"} /\ pc'[w] = "idle" /\ crashes' = crashes
                            => row'.number = seen[w].token
<1>1. ASSUME NumberedInv, Next, NEW w \in Workers
      PROVE  Stored(w)
  <2> SUFFICES ASSUME pc[w] \in {"commit", "recover"}, pc'[w] = "idle", crashes' = crashes
               PROVE  row'.number = seen[w].token
    OBVIOUS
  <2>1. SoldKept /\ TaskInv /\ NumberInv /\ CopyInv /\ TypeOK
    BY <1>1, NumberedStep DEF NumberedInv, TaskInv
  <2>2. pc'[w] # pc[w]
    OBVIOUS
  <2>3. ~Crash(w)
    BY <2>1 DEF Crash, TypeOK
  <2>4. ~(RequestStop \/ Restart \/ Environment)
    BY <2>2 DEF RequestStop, Restart, Environment, ReceiveText, ProviderExpires, Callback,
           LoseCallback, Tick, LeaseExpires, Lapse, workVars
  <2>5. Claim(w) \/ Work(w)
    <3>1. PICK v \in Workers : Claim(v) \/ Work(v) \/ Crash(v)
      BY <1>1, <2>4 DEF Next
    <3>2. v = w
      BY <2>1, <2>2, <3>1, OwnWork
    <3> QED  BY <2>3, <3>1, <3>2
  <2>6. Commit(w) \/ Recover(w)
    BY <2>5 DEF Claim, Work, Purchase, Begin, BeginFails, Buy, Release, MarkUnknown, Receive, Poll,
         PollAppend, PollAppendFails, Schedule, Continue, BeginNext, ExpiredBeforeAsk, Ask,
         Complete, Abort, Settle, Prepare, Call, Finish
  <2>7. CASE Recover(w)
    BY <2>1, <2>7, RecoverNumber
  <2>8. CASE Commit(w)
    <3>1. seen[w].token \in Tokens /\ pc \in [Workers -> Place]
      BY <2>1, <2>8, BuyerToken DEF TaskInv, Commit, PurchasePlace, TypeOK, WorkType
    <3>2. ~Goto(w, "recover")
      BY <3>1 DEF Goto
    <3>3. PICK c \in BOOLEAN : PersistOutcome(row, seen[w].token, c)
      BY <2>8, <3>2 DEF Commit, Capability
    <3> QED  BY <2>1, <3>1, <3>3, PersistColumns DEF TypeOK, DbType
  <2> QED  BY <2>6, <2>7, <2>8
<1>2. ASSUME UNCHANGED vars, NEW w \in Workers
      PROVE  Stored(w)
  BY <1>2 DEF vars, workVars
<1>3. NumberedInv /\ [Next]_vars => [\A w \in Workers : Stored(w)]_vars
  BY <1>1, <1>2
<1> QED  BY <1>3, NumberedInvariance, PTL DEF Spec, NumberIsKept

-----------------------------------------------------------------------------
(* How a number ends                                                       *)

Decided == {"settling", "refunded", "settled", "expired"}
Concluding == {"call", "finish_refunded", "finish_settled", "finish_expired"}
Over == {"cancelled", "finished", "gone"}

(* Before the decision is stored nothing was told to the provider and no   *)
(* worker is about to; from then on one verb is told, by the row and by    *)
(* every worker; and a worker that is about to report an end saw it.       *)
EndStart ==
    row.status \notin Decided =>
        /\ \A t \in Tokens : verbs[t] = {}
        /\ \A w \in Workers : pc[w] \notin Concluding
EndVerb(v) ==
    /\ \A t \in Tokens : verbs[t] \subseteq {v}
    /\ \A w \in Workers : pc[w] = "call" => Verb(seen[w]) = v
    /\ row.status = "settling" => Verb(row) = v
EndSeen ==
    \A w \in Workers :
        /\ pc[w] = "finish_refunded" => sold[seen[w].number] = "cancelled"
        /\ pc[w] = "finish_settled" => sold[seen[w].number] # "open"
EndInv == EndStart /\ (\E v \in {"cancel", "finish"} : EndVerb(v)) /\ EndSeen /\ EndIsReal

OverKept == \A t \in Tokens : sold[t] \in Over => sold'[t] = sold[t]

LEMMA SoldIsOver ==
    ASSUME TaskInv, Next
    PROVE  OverKept
<1> USE DEF TaskInv, TypeOK
<1>1. ASSUME NEW w \in Workers, Buy(w)
      PROVE  OverKept
  <2>1. seen[w].token \in Tokens /\ sold[seen[w].token] = "none"
    BY <1>1 DEF Buy, Fence, PurchasePlace
  <2> QED  BY <1>1, <2>1 DEF Buy, OverKept, Over, ProviderType
<1>2. ASSUME NEW w \in Workers, Call(w)
      PROVE  OverKept
  BY <1>2 DEF Call, Reaction, Closed, OverKept, Over, ProviderType
<1>3. ASSUME NEW t \in Tokens, ProviderExpires(t)
      PROVE  OverKept
  BY <1>3 DEF ProviderExpires, OverKept, Over, ProviderType
<1>4. CASE sold' = sold
  BY <1>4 DEF OverKept
<1>5. CASE RequestStop \/ Restart \/ Environment
  BY <1>3, <1>4, <1>5 DEF RequestStop, Restart, Environment, ReceiveText, Callback, LoseCallback,
         Tick, LeaseExpires, Lapse, providerVars
<1>6. ASSUME NEW w \in Workers, Purchase(w)
      PROVE  OverKept
  BY <1>1, <1>4, <1>6 DEF Purchase, Begin, BeginFails, Release, Commit, Recover, MarkUnknown, providerVars
<1>7. ASSUME NEW w \in Workers, Claim(w) \/ Crash(w) \/ Receive(w) \/ Continue(w) \/ Settle(w)
      PROVE  OverKept
  BY <1>2, <1>4, <1>7 DEF Claim, Crash, Receive, Poll, PollAppend, PollAppendFails, Schedule,
         Continue, BeginNext, ExpiredBeforeAsk, Ask, Complete, Abort, Settle, Prepare, Finish, providerVars
<1> QED  BY <1>5, <1>6, <1>7 DEF Next, Work

(* The row neither reaches nor leaves the decision, and what was decided   *)
(* stays decided.                                                          *)
RowAside ==
    /\ row.status \notin Decided => row'.status \notin Decided
    /\ row.status \in Decided => row'.status = row.status /\ row'.number = row.number
    /\ row.status = "settling" => row'.refund = row.refund

(* No worker comes to a concluding place.                                  *)
NobodyConcludes ==
    \A v \in Workers : pc'[v] \in Concluding => pc'[v] = pc[v] /\ seen'[v] = seen[v]

LEMMA SameVerb ==
    ASSUME NEW r, NEW q, r.refund = q.refund
    PROVE  Verb(r) = Verb(q)
  BY DEF Verb

LEMMA NumberOfDecided ==
    ASSUME NumberedInv
    PROVE  /\ row.status \in Decided => row.number \in Tokens /\ sold[row.number] \in Sale
           /\ \A w \in Workers : pc[w] \in Concluding =>
                seen[w].number \in Tokens /\ seen[w].number = row.number /\ sold[seen[w].number] \in Sale
<1>1. row.number # NoToken => row.number \in Tokens /\ sold[row.number] \in Sale
  BY DEF NumberedInv, TaskInv, TypeOK, DbType, Row, NumberInv, Allocated, Sale
<1>2. row.status \in Decided => row.number # NoToken
  BY DEF NumberedInv, NumberInv, Numbered, Decided
<1>3. \A w \in Workers : pc[w] \in Concluding => seen[w].number # NoToken /\ seen[w].number = row.number
  BY DEF NumberedInv, CopyInv, CopyOk, Concluding, NamedPlace
<1> QED  BY <1>1, <1>2, <1>3

LEMMA AsideEnd ==
    ASSUME NumberedInv, EndInv, RowAside, NobodyConcludes, verbs' = verbs, OverKept
    PROVE  EndInv'
<1>1. EndStart'
  BY DEF EndInv, EndStart, RowAside, NobodyConcludes
<1>2. ASSUME NEW v \in {"cancel", "finish"}, EndVerb(v)
      PROVE  EndVerb(v)'
  <2>1. row'.status = "settling" => row.status = "settling" /\ row'.refund = row.refund
    BY DEF RowAside, Decided
  <2>2. row'.status = "settling" => Verb(row') = v
    BY <1>2, <2>1, SameVerb DEF EndVerb
  <2>3. ASSUME NEW w \in Workers, pc'[w] = "call"
        PROVE  Verb(seen'[w]) = v
    BY <1>2, <2>3 DEF EndVerb, NobodyConcludes, Concluding
  <2> QED  BY <1>2, <2>2, <2>3 DEF EndVerb, Verb
<1>3. EndSeen'
  <2>1. ASSUME NEW w \in Workers, pc'[w] \in {"finish_refunded", "finish_settled"}
        PROVE  /\ pc[w] = pc'[w] /\ seen'[w] = seen[w] /\ seen[w].number \in Tokens
               /\ sold[seen[w].number] \in Over /\ sold'[seen[w].number] = sold[seen[w].number]
    <3>1. pc[w] = pc'[w] /\ seen'[w] = seen[w] /\ pc[w] \in Concluding
      BY <2>1 DEF NobodyConcludes, Concluding
    <3>2. seen[w].number \in Tokens /\ sold[seen[w].number] \in Sale
      BY <3>1, NumberOfDecided
    <3>3. sold[seen[w].number] # "open"
      BY <2>1, <3>1 DEF EndInv, EndSeen
    <3> QED  BY <3>1, <3>2, <3>3 DEF Sale, Over, OverKept
  <2> QED  BY <2>1 DEF EndInv, EndSeen, Over
<1>4. EndIsReal'
  <2>1. CASE row'.status \in {"refunded", "settled"}
    <3>1. row.status = row'.status /\ row'.number = row.number /\ row.status \in Decided
      BY <2>1 DEF RowAside, Decided
    <3>2. row.number \in Tokens /\ sold[row.number] \in Sale
      BY <3>1, NumberOfDecided
    <3>3. sold[row.number] \in Over
      BY <2>1, <3>1, <3>2 DEF EndInv, EndIsReal, Sale, Over
    <3>4. sold'[row.number] = sold[row.number]
      BY <3>2, <3>3 DEF OverKept
    <3> QED  BY <3>1, <3>4 DEF EndInv, EndIsReal
  <2>2. CASE row'.status \notin {"refunded", "settled"}
    BY <2>2 DEF EndIsReal
  <2> QED  BY <2>1, <2>2
<1> QED  BY <1>1, <1>2, <1>3, <1>4 DEF EndInv

LEMMA SameRowAside ==
    ASSUME SameColumns
    PROVE  RowAside
  BY DEF SameColumns, Identity, RowAside

LEMMA PurchaseAside ==
    ASSUME NumberedInv, NEW w \in Workers, Purchase(w)
    PROVE  RowAside
<1> USE DEF NumberedInv, TaskInv, TypeOK
<1>1. CASE Begin(w)
  <2>1. row' = row \/ \E t \in Tokens : row.status = "waiting_number"
                        /\ row' = [row EXCEPT !.status = "purchasing", !.token = t]
    BY <1>1 DEF Begin
  <2>2. SameColumns \/ (row.status = "waiting_number" /\ row'.status = "purchasing")
    BY <2>1, SameRowColumns, BeginColumns DEF DbType
  <2> QED  BY <2>2, SameRowAside DEF RowAside, Decided
<1>2. CASE BeginFails(w) \/ Buy(w)
  BY <1>2, SameRowColumns, SameRowAside DEF BeginFails, Buy, dbVars
<1>3. CASE Release(w)
  <2>1. SameColumns \/ (row.status = "purchasing" /\ row'.status = "waiting_number")
    BY <1>3, ReleaseColumns DEF OwnsPurchase, DbType
  <2> QED  BY <2>1, SameRowAside DEF RowAside, Decided
<1>4. CASE MarkUnknown(w)
  <2>1. SameColumns \/ (row.status = "purchasing" /\ row'.status = "purchase_unknown")
    BY <1>4, MarkUnknownColumns DEF OwnsPurchase
  <2> QED  BY <2>1, SameRowAside DEF RowAside, Decided
<1>5. CASE Commit(w)
  <2>1. seen[w].token \in Tokens
    BY <1>5, BuyerToken DEF Commit, PurchasePlace
  <2>2. row' = row \/ (row.status = "purchasing" /\ row'.status = "active")
    BY <1>5, <2>1, PersistColumns DEF Commit, dbVars, OwnsPurchase, Capability, DbType
  <2> QED  BY <2>2, SameRowColumns, SameRowAside DEF RowAside, Decided
<1>6. CASE Recover(w)
  <2> DEFINE r == [row EXCEPT !.stop = @ \/ row.status = "stopped"]
  <2>1. seen[w].token \in Tokens
    BY <1>6, BuyerToken DEF Recover, PurchasePlace
  <2>2. CASE Recoverable(seen[w].token)
    <3>1. r \in Row
      BY DEF DbType, Row
    <3>2. \E c \in Capability : PersistOutcome(r, seen[w].token, c)
      BY <1>6, <2>2 DEF Recover
    <3> HIDE DEF r
    <3>3. row'.status = "active"
      BY <2>1, <3>1, <3>2, PersistColumns DEF Capability
    <3> QED  BY <2>2, <3>3 DEF Recoverable, RowAside, Decided
  <2>3. CASE ~Recoverable(seen[w].token)
    BY <1>6, <2>3, SameRowColumns, SameRowAside DEF Recover, dbVars
  <2> QED  BY <2>2, <2>3
<1> QED  BY <1>1, <1>2, <1>3, <1>4, <1>5, <1>6 DEF Purchase

LEMMA AppendAside ==
    ASSUME TypeOK, NEW t \in Tokens \cup {NoToken}, NEW i \in Message, Append(t, i)
    PROVE  RowAside
<1>1. Identity' = Identity /\ (row'.refund = row.refund \/ row.status = "active")
  BY AppendColumns DEF TypeOK
<1> QED  BY <1>1 DEF RowAside, Identity, Decided

LEMMA ReceiveAside ==
    ASSUME NumberedInv, NEW w \in Workers, Receive(w)
    PROVE  RowAside
<1> USE DEF NumberedInv, TaskInv, TypeOK
<1>1. CASE Poll(w) \/ PollAppendFails(w)
  BY <1>1, SameRowColumns, SameRowAside DEF Poll, PollAppendFails, dbVars
<1>2. CASE PollAppend(w)
  <2>1. PICK i \in got[w] : Append(seen[w].number, i)
    BY <1>2 DEF PollAppend
  <2>2. i \in Message /\ seen[w].number \in Tokens \cup {NoToken}
    BY <2>1 DEF WorkType, Row
  <2> QED  BY <2>1, <2>2, AppendAside
<1>3. CASE Schedule(w)
  <2>1. CASE SameColumns
    BY <2>1, SameRowAside
  <2>2. CASE ~SameColumns
    <3>1. /\ Owns(w) /\ row'.status = seen[w].status /\ row'.number = row.number
          /\ row'.refund = row.refund \/ seen[w].status = "active"
      BY <1>3, <2>2, ScheduleColumns DEF DbType, WorkType
    <3>2. pc[w] # "idle" /\ CopyOk(w)
      BY <1>3 DEF Schedule, CopyInv
    <3>3. seen[w].status = row.status
      BY <3>1, <3>2, OwnCopy
    <3> QED  BY <3>1, <3>3 DEF RowAside, Decided
  <2> QED  BY <2>1, <2>2
<1> QED  BY <1>1, <1>2, <1>3 DEF Receive

LEMMA ContinueAside ==
    ASSUME TypeOK, NEW w \in Workers, Continue(w)
    PROVE  RowAside
<1>1. CASE ExpiredBeforeAsk(w) \/ Ask(w)
  BY <1>1, SameRowColumns, SameRowAside DEF ExpiredBeforeAsk, Ask, dbVars
<1>2. CASE BeginNext(w) \/ Complete(w) \/ Abort(w)
  <2>1. Identity' = Identity /\ row'.refund = row.refund
    BY <1>2, BeginNextColumns, CompleteColumns, AbortColumns DEF SameColumns, TypeOK, DbType, WorkType
  <2> QED  BY <2>1 DEF RowAside, Identity
<1> QED  BY <1>1, <1>2 DEF Continue

LEMMA OutsideAside ==
    ASSUME TypeOK, RequestStop \/ Restart \/ Environment
    PROVE  RowAside
<1>1. ASSUME NEW t \in Tokens, NEW i \in Message, Callback(t, i)
      PROVE  RowAside
  BY <1>1, AppendAside DEF Callback
<1>2. CASE row' = row
  BY <1>2, SameRowColumns, SameRowAside
<1>3. CASE RequestStop
  BY <1>3, StopColumns, SameRowAside DEF TypeOK, DbType
<1>4. CASE Restart
  BY <1>4, RestartColumns DEF RowAside, Decided, TypeOK, DbType
<1> QED  BY <1>1, <1>2, <1>3, <1>4 DEF Environment, ReceiveText, ProviderExpires, LoseCallback,
                                       Tick, LeaseExpires, Lapse, dbVars

(* Buying, receiving and continuing never come to a concluding place.      *)
LEMMA NotConcluding ==
    ASSUME TypeOK, NEW w \in Workers, Purchase(w) \/ Receive(w) \/ Continue(w) \/ Crash(w)
    PROVE  NobodyConcludes /\ verbs' = verbs
<1>1. verbs' = verbs
  BY DEF Purchase, Begin, BeginFails, Buy, Release, Commit, Recover, MarkUnknown, Receive, Poll,
         PollAppend, PollAppendFails, Schedule, Continue, BeginNext, ExpiredBeforeAsk, Ask,
         Complete, Abort, Crash, providerVars
<1>2. \A v \in Workers \ {w} : pc'[v] = pc[v] /\ seen'[v] = seen[v]
  BY OwnWork DEF Work
<1>3. pc'[w] \notin Concluding
  <2>1. CASE Purchase(w)
    BY <2>1 DEF Purchase, Begin, BeginFails, Buy, Release, Commit, Recover, MarkUnknown,
                Goto, Leave, TypeOK, WorkType, Concluding
  <2>2. CASE Poll(w) \/ PollAppend(w)
    <3>1. PICK p \in {"prepare", "append", "ask_again", "begin_next", "schedule"} : Goto(w, p)
      BY <2>2, AfterPollPlace DEF Poll, PollAppend
    <3> QED  BY <3>1 DEF Goto, TypeOK, WorkType, Concluding
  <2>3. CASE PollAppendFails(w) \/ Schedule(w) \/ Continue(w) \/ Crash(w)
    BY <2>3 DEF PollAppendFails, Schedule, Crash, Continue, BeginNext, ExpiredBeforeAsk, Ask,
                Complete, Abort, AfterAsk, AfterAskAgain, Goto, Leave, TypeOK, WorkType, Concluding
  <2> QED  BY <2>1, <2>2, <2>3 DEF Receive
<1> QED  BY <1>1, <1>2, <1>3 DEF NobodyConcludes

LEMMA ClaimEnd ==
    ASSUME NumberedInv, EndInv, OverKept, NEW w \in Workers, Claim(w)
    PROVE  EndInv'
<1> USE DEF NumberedInv, TaskInv, TypeOK
<1>1. /\ row'.status = IF row.status = "purchasing" THEN "purchase_unknown" ELSE row.status
      /\ row'.number = row.number /\ row'.refund = row.refund
  BY ClaimColumns DEF DbType
<1>2. \A v \in Workers \ {w} : pc'[v] = pc[v] /\ seen'[v] = seen[v]
  BY OwnWork
<1>3. seen'[w] = row' /\ pc'[w] = Route(row') /\ Claimable /\ verbs' = verbs /\ sold' = sold
  BY DEF Claim, Goto, WorkType, providerVars
<1>4. RowAside
  BY <1>1 DEF RowAside, Decided
<1>5. CASE row.status # "settling"
  <2>1. row'.status \in {"waiting_number", "active", "purchase_unknown"}
    BY <1>1, <1>3, <1>5 DEF Claimable
  <2>2. pc'[w] \notin Concluding
    <3>1. Route(row') \in {"finish_stopped", "begin", "prepare", "schedule", "poll",
                           "ask_again", "begin_next"}
      BY <2>1, NextStepPlace DEF Route
    <3> QED  BY <1>3, <3>1 DEF Concluding
  <2>3. NobodyConcludes
    BY <1>2, <2>2 DEF NobodyConcludes
  <2> QED  BY <1>3, <1>4, <2>3, AsideEnd
<1>6. CASE row.status = "settling"
  <2>1. row'.status = "settling" /\ Route(row') = "call"
    BY <1>1, <1>6 DEF Route
  <2>2. Verb(row') = Verb(row)
    BY <1>1, SameVerb
  <2>3. PICK v \in {"cancel", "finish"} : EndVerb(v)
    BY DEF EndInv
  <2>4. EndVerb(v)'
    <3>1. ASSUME NEW u \in Workers, pc'[u] = "call"
          PROVE  Verb(seen'[u]) = v
      <4>1. CASE u = w
        BY <1>3, <1>6, <2>2, <2>3, <4>1 DEF EndVerb
      <4>2. CASE u # w
        BY <1>2, <2>3, <3>1, <4>2 DEF EndVerb
      <4> QED  BY <4>1, <4>2
    <3>2. Verb(row') = v
      BY <1>6, <2>2, <2>3 DEF EndVerb
    <3>3. \A t \in Tokens : verbs'[t] \subseteq {v}
      BY <1>3, <2>3 DEF EndVerb
    <3> QED  BY <3>1, <3>2, <3>3 DEF EndVerb, Verb
  <2>5. EndSeen'
    BY <1>2, <1>3, <2>1 DEF EndInv, EndSeen
  <2>6. EndStart' /\ EndIsReal'
    BY <2>1 DEF EndStart, EndIsReal, Decided
  <2> QED  BY <2>4, <2>5, <2>6 DEF EndInv
<1> QED  BY <1>5, <1>6

(* The decision: nobody was told anything before it.                       *)
LEMMA PrepareEnd ==
    ASSUME NumberedInv, EndInv, OverKept, NEW w \in Workers, Prepare(w)
    PROVE  EndInv'
<1> USE DEF NumberedInv, TaskInv, TypeOK
<1>1. \A v \in Workers \ {w} : pc'[v] = pc[v] /\ seen'[v] = seen[v]
  BY OwnWork DEF Work, Settle
<1>2. verbs' = verbs /\ sold' = sold
  BY DEF Prepare, providerVars
<1>3. CASE row' = row /\ SameColumns /\ Leave(w)
  <2>1. pc'[w] = "idle"
    BY <1>3 DEF Leave, Goto, WorkType
  <2>2. NobodyConcludes
    BY <1>1, <2>1 DEF NobodyConcludes, Concluding
  <2> QED  BY <1>2, <1>3, <2>2, SameRowAside, AsideEnd
<1>4. CASE /\ row.status \in {"active", "purchase_unknown"} /\ row'.status = "settling"
           /\ seen' = [seen EXCEPT ![w] = row'] /\ Goto(w, "call")
  <2>1. \A t \in Tokens : verbs[t] = {}
    BY <1>4 DEF EndInv, EndStart, Decided
  <2>2. \A v \in Workers : pc[v] \notin Concluding
    BY <1>4 DEF EndInv, EndStart, Decided
  <2>3. pc'[w] = "call" /\ seen'[w] = row'
    BY <1>4 DEF Goto, WorkType
  <2>4. PICK v \in {"cancel", "finish"} : v = Verb(row')
    BY DEF Verb
  <2>5. EndVerb(v)'
    <3>1. \A t \in Tokens : verbs'[t] \subseteq {v}
      BY <1>2, <2>1
    <3>2. ASSUME NEW u \in Workers, pc'[u] = "call"
          PROVE  Verb(seen'[u]) = v
      BY <1>1, <2>2, <2>3, <2>4, <3>2 DEF Concluding
    <3> QED  BY <2>4, <3>1, <3>2 DEF EndVerb, Verb
  <2>6. EndSeen'
    BY <1>1, <2>2, <2>3 DEF EndSeen, Concluding
  <2>7. EndStart' /\ EndIsReal'
    BY <1>4 DEF EndStart, EndIsReal, Decided
  <2> QED  BY <2>5, <2>6, <2>7 DEF EndInv
<1> QED  BY <1>3, <1>4, PrepareColumns DEF DbType

(* What a call leaves at the provider fits the end it is reported as.      *)
LEMMA CallOutcome ==
    ASSUME TypeOK, NEW w \in Workers, Call(w), seen[w].number \in Tokens
    PROVE  /\ pc'[w] = "finish_refunded" => sold'[seen[w].number] = "cancelled"
           /\ pc'[w] = "finish_settled" => sold'[seen[w].number] # "open"
<1> DEFINE t == seen[w].number
           verb == Verb(seen[w])
<1>1. PICK r \in Reaction(t, verb) :
        /\ sold' = [sold EXCEPT ![t] = r[1]]
        /\ Goto(w, IF late[w] /\ verb = "finish" THEN "finish_expired" ELSE Conclude(verb, r[2]))
  BY DEF Call
<1>2. sold'[t] = r[1]
  BY <1>1 DEF TypeOK, ProviderType
<1>3. pc'[w] = (IF late[w] /\ verb = "finish" THEN "finish_expired" ELSE Conclude(verb, r[2]))
  BY <1>1 DEF Goto, TypeOK, WorkType
<1>4. verb \in {"cancel", "finish"}
  BY DEF Verb
<1>5. pc'[w] = "finish_refunded" => verb = "cancel" /\ r[2] \in {"applied", "cancelled"}
  BY <1>3 DEF Conclude
<1>6. pc'[w] = "finish_settled" => r[2] # "retry"
  BY <1>3 DEF Conclude
<1> HIDE DEF verb
<1>7. verb = "cancel" /\ r[2] \in {"applied", "cancelled"} => r[1] = "cancelled"
  BY <1>1 DEF Reaction, Closed
<1>8. r[2] # "retry" => r[1] # "open"
  BY <1>1, <1>4 DEF Reaction, Closed
<1> QED  BY <1>2, <1>5, <1>6, <1>7, <1>8

LEMMA CallEnd ==
    ASSUME NumberedInv, EndInv, OverKept, NEW w \in Workers, Call(w)
    PROVE  EndInv'
<1> USE DEF NumberedInv, TaskInv, TypeOK
<1> DEFINE t == seen[w].number
<1>1. \A v \in Workers \ {w} : pc'[v] = pc[v] /\ seen'[v] = seen[v]
  BY OwnWork DEF Work, Settle
<1>2. row' = row /\ seen' = seen /\ pc[w] = "call"
  BY DEF Call, dbVars, Stay
<1>3. pc[w] \in Concluding
  BY <1>2 DEF Concluding
<1>4. t \in Tokens /\ t = row.number /\ sold[t] \in Sale /\ row.status \in Decided
  BY <1>3, NumberOfDecided DEF EndInv, EndStart
<1>5. PICK v \in {"cancel", "finish"} : EndVerb(v)
  BY DEF EndInv
<1>6. Verb(seen[w]) = v
  BY <1>2, <1>5 DEF EndVerb
<1>7. verbs' = [verbs EXCEPT ![t] = @ \cup {v}]
  BY <1>6 DEF Call
<1>8. pc'[w] # "call"
  BY DEF Call, Conclude, Goto, WorkType
<1>9. EndVerb(v)'
  <2>1. \A u \in Tokens : verbs'[u] \subseteq {v}
    BY <1>5, <1>7 DEF EndVerb, ProviderType
  <2>2. ASSUME NEW u \in Workers, pc'[u] = "call"
        PROVE  Verb(seen'[u]) = v
    BY <1>1, <1>5, <1>8, <2>2 DEF EndVerb
  <2>3. row'.status = "settling" => Verb(row') = v
    BY <1>2, <1>5 DEF EndVerb
  <2> QED  BY <2>1, <2>2, <2>3 DEF EndVerb, Verb
<1>10. \A u \in Tokens : sold[u] \in Over => sold'[u] = sold[u]
  BY DEF OverKept
<1>11. EndSeen'
  <2>1. ASSUME NEW u \in Workers, u # w, pc'[u] \in {"finish_refunded", "finish_settled"}
        PROVE  /\ pc'[u] = "finish_refunded" => sold'[seen'[u].number] = "cancelled"
               /\ pc'[u] = "finish_settled" => sold'[seen'[u].number] # "open"
    <3>1. pc[u] = pc'[u] /\ seen'[u] = seen[u] /\ pc[u] \in Concluding
      BY <1>1, <2>1 DEF Concluding
    <3>2. seen[u].number \in Tokens /\ sold[seen[u].number] \in Sale
      BY <3>1, NumberOfDecided
    <3>3. /\ pc[u] = "finish_refunded" => sold[seen[u].number] = "cancelled"
          /\ pc[u] = "finish_settled" => sold[seen[u].number] # "open"
      BY DEF EndInv, EndSeen
    <3>4. sold[seen[u].number] \in Over
      BY <2>1, <3>1, <3>2, <3>3 DEF Over, Sale
    <3> QED  BY <1>10, <3>1, <3>2, <3>3, <3>4
  <2>2. /\ pc'[w] = "finish_refunded" => sold'[seen'[w].number] = "cancelled"
        /\ pc'[w] = "finish_settled" => sold'[seen'[w].number] # "open"
    BY <1>2, <1>4, CallOutcome
  <2> QED  BY <2>1, <2>2 DEF EndSeen
<1>12. EndStart'
  BY <1>2, <1>4 DEF EndStart
<1>13. EndIsReal'
  <2>1. row.status \in {"refunded", "settled"} => sold[row.number] \in Over
    BY <1>4 DEF EndInv, EndIsReal, Sale, Over
  <2> QED  BY <1>2, <1>4, <1>10, <2>1 DEF EndInv, EndIsReal
<1> QED  BY <1>9, <1>11, <1>12, <1>13 DEF EndInv

LEMMA FinishEnd ==
    ASSUME NumberedInv, EndInv, OverKept, NEW w \in Workers, Finish(w)
    PROVE  EndInv'
<1> USE DEF NumberedInv, TaskInv, TypeOK
<1>1. \A v \in Workers \ {w} : pc'[v] = pc[v] /\ seen'[v] = seen[v]
  BY OwnWork DEF Work, Settle
<1>2. verbs' = verbs /\ sold' = sold /\ row \in Row
  BY DEF Finish, providerVars, DbType
<1>3. ASSUME Leave(w)
      PROVE  NobodyConcludes
  <2>1. pc'[w] = "idle"
    BY <1>3 DEF Leave, Goto, WorkType
  <2> QED  BY <1>1, <2>1 DEF NobodyConcludes, Concluding
<1>4. CASE row' = row /\ SameColumns /\ Leave(w)
  BY <1>2, <1>3, <1>4, SameRowAside, AsideEnd
<1>5. CASE row' = row /\ pc[w] = "finish_refunded" /\ Goto(w, "finish_settled") /\ Stay
  <2>1. pc'[w] = "finish_settled" /\ seen' = seen
    BY <1>5 DEF Goto, Stay, WorkType
  <2>2. row.status \in Decided
    BY <1>5 DEF EndInv, EndStart, Concluding
  <2>3. PICK v \in {"cancel", "finish"} : EndVerb(v)
    BY DEF EndInv
  <2>4. ASSUME NEW u \in Workers, pc'[u] = "call"
        PROVE  Verb(seen'[u]) = v
    BY <1>1, <2>1, <2>3, <2>4 DEF EndVerb
  <2>5. EndVerb(v)'
    BY <1>2, <1>5, <2>3, <2>4 DEF EndVerb, Verb
  <2>6. sold[seen[w].number] # "open"
    BY <1>5 DEF EndInv, EndSeen
  <2>7. EndSeen'
    BY <1>1, <1>2, <2>1, <2>6 DEF EndInv, EndSeen
  <2>8. EndStart' /\ EndIsReal'
    BY <1>2, <1>5, <2>2 DEF EndInv, EndStart, EndIsReal
  <2> QED  BY <2>5, <2>7, <2>8 DEF EndInv
<1>6. CASE /\ Owns(w) /\ MayFinish(Target(pc[w])) /\ Leave(w)
           /\ row'.status = Target(pc[w]) /\ row'.number = row.number
  <2>1. NobodyConcludes
    BY <1>3, <1>6
  <2>2. pc[w] \in {"finish_stopped", "finish_refunded", "finish_settled", "finish_expired"}
    BY DEF Finish
  <2>3. CASE pc[w] = "finish_stopped"
    <3>1. Target(pc[w]) = "stopped"
      BY <2>3 DEF Target
    <3>2. row.status \in {"waiting_number", "purchase_unknown"}
      BY <1>6, <3>1 DEF MayFinish
    <3>3. RowAside
      BY <1>6, <3>1, <3>2 DEF RowAside, Decided
    <3> QED  BY <1>2, <2>1, <3>3, AsideEnd
  <2>4. CASE pc[w] # "finish_stopped"
    <3>1. pc[w] \in Concluding
      BY <2>2, <2>4 DEF Concluding
    <3>2. seen[w].number = row.number /\ row.status \in Decided
      BY <3>1, NumberOfDecided DEF EndInv, EndStart
    <3>3. row'.status \in Decided /\ row'.status # "settling"
      BY <1>6, <2>2, <2>4 DEF Target, Decided
    <3>4. EndStart'
      BY <3>3 DEF EndStart
    <3>5. PICK v \in {"cancel", "finish"} : EndVerb(v)
      BY DEF EndInv
    <3>6. ASSUME NEW u \in Workers, pc'[u] = "call"
          PROVE  Verb(seen'[u]) = v
      BY <2>1, <3>5, <3>6 DEF EndVerb, NobodyConcludes, Concluding
    <3>7. EndVerb(v)'
      BY <1>2, <3>3, <3>5, <3>6 DEF EndVerb, Verb
    <3>8. EndSeen'
      BY <1>2, <2>1 DEF EndInv, EndSeen, NobodyConcludes, Concluding
    <3>9. EndIsReal'
      BY <1>2, <1>6, <2>2, <3>2 DEF EndInv, EndSeen, EndIsReal, Target
    <3> QED  BY <3>4, <3>7, <3>8, <3>9 DEF EndInv
  <2> QED  BY <2>3, <2>4
<1> QED  BY <1>2, <1>4, <1>5, <1>6, FinishColumns

LEMMA EndStep ==
    ASSUME NumberedInv, EndInv, Next
    PROVE  EndInv'
<1>1. OverKept /\ TypeOK
  BY SoldIsOver DEF NumberedInv, TaskInv
<1>2. CASE RequestStop \/ Restart \/ Environment
  <2>1. UNCHANGED <<pc, seen, verbs>>
    BY <1>2 DEF RequestStop, Restart, Environment, ReceiveText, ProviderExpires, Callback,
         LoseCallback, Tick, LeaseExpires, Lapse, workVars, providerVars
  <2>2. NobodyConcludes
    BY <2>1 DEF NobodyConcludes
  <2> QED  BY <1>1, <1>2, <2>1, <2>2, OutsideAside, AsideEnd
<1>3. ASSUME NEW w \in Workers, Purchase(w) \/ Receive(w) \/ Continue(w) \/ Crash(w)
      PROVE  EndInv'
  <2>1. RowAside
    BY <1>1, <1>3, PurchaseAside, ReceiveAside, ContinueAside, SameRowColumns, SameRowAside
       DEF Crash, dbVars
  <2> QED  BY <1>1, <1>3, <2>1, NotConcluding, AsideEnd
<1>4. ASSUME NEW w \in Workers, Claim(w) \/ Settle(w)
      PROVE  EndInv'
  BY <1>1, <1>4, ClaimEnd, PrepareEnd, CallEnd, FinishEnd DEF Settle
<1> QED  BY <1>2, <1>3, <1>4 DEF Next, Work

LEMMA InitEnd ==
    ASSUME Init
    PROVE  EndInv
<1>1. row = NewRow /\ (\A w \in Workers : pc[w] = "idle") /\ \A t \in Tokens : verbs[t] = {}
  BY DEF Init
<1>2. row.status = "waiting_number"
  BY <1>1 DEF NewRow
<1>3. EndVerb("cancel")
  BY <1>1, <1>2 DEF EndVerb
<1> QED  BY <1>1, <1>2, <1>3 DEF EndInv, EndStart, EndSeen, EndIsReal, Concluding

(* A number is told one thing, to cancel or to finish, because the verb    *)
(* follows from the stored decision (PrepareHeroSMSTaskSettlementOwned)    *)
(* and nothing changes the decision; and a task reported refunded or       *)
(* settled is one whose number the provider cancelled or closed.           *)
THEOREM NumberEndsOnce == Spec => []EndIsSound
<1>1. NumberedInv /\ EndInv /\ [Next]_vars => EndInv'
  <2>1. ASSUME EndInv, UNCHANGED vars
        PROVE  EndInv'
    BY <2>1 DEF EndInv, EndStart, EndVerb, EndSeen, EndIsReal, Verb, vars, dbVars, providerVars, workVars
  <2> QED  BY <2>1, EndStep
<1>2. NumberedInv /\ EndInv => EndIsSound
  <2>1. ASSUME EndInv
        PROVE  OneVerb
    <3>1. PICK v \in {"cancel", "finish"} : \A t \in Tokens : verbs[t] \subseteq {v}
      BY <2>1 DEF EndInv, EndVerb
    <3> QED  BY <3>1 DEF OneVerb
  <2> QED  BY <2>1 DEF EndInv, EndIsSound
<1>3. Init => EndInv
  BY InitEnd
<1> QED  BY <1>1, <1>2, <1>3, NumberedInvariance, PTL DEF Spec

-----------------------------------------------------------------------------
(* Counting and continuing                                                 *)

(* At the provider: only what a number received is stored, status=3 has    *)
(* moved past no more than that, and past all of it while nothing is shown. *)
ReceivedInv ==
    \A t \in Tokens :
        /\ stored[t] \subseteq 1..texts[t]
        /\ passed[t] <= texts[t]
        /\ ~unread[t] => passed[t] = texts[t]

(* On the row: the messages of its number are attached and counted.        *)
AttachedInv ==
    /\ attached = IF row.number = NoToken THEN {} ELSE stored[row.number]
    /\ row.messages = Cardinality(attached)
NothingYet == row.number = NoToken => row.continued = 0 /\ row.pending = 0
RefundGone == row.status = "active" /\ row.messages > 0 => row.refund = "unavailable"

(* In a copy: its target was received, and what a poll returned was, and a *)
(* worker that is about to acknowledge saw the provider move past it.      *)
CopyCount(w) ==
    /\ seen[w].number # NoToken => seen[w].pending <= texts[seen[w].number]
    /\ pc[w] = "append" => got[w] \subseteq 1..texts[seen[w].number]
    /\ pc[w] = "complete" =>
            seen[w].pending <= passed[seen[w].number] \/ sold[seen[w].number] # "open"
RowCount == AttachedInv /\ NothingYet /\ RefundGone /\ AcknowledgedWasAdvanced /\ PendingIsSound
CountInv == ReceivedInv /\ RowCount /\ \A w \in Workers : CopyCount(w)

LEMMA CountBound ==
    ASSUME NEW n \in Nat, NEW A \in SUBSET (1..n)
    PROVE  Cardinality(A) \in Nat /\ Cardinality(A) <= n
<1>1. IsFiniteSet(1..n) /\ Cardinality(1..n) = n
  <2>1. 1 \in Int /\ n \in Int
    OBVIOUS
  <2>2. IsFiniteSet(1..n) /\ Cardinality(1..n) = IF 1 > n THEN 0 ELSE n - 1 + 1
    BY <2>1, FS_Interval, Zenon
  <2> QED  BY <2>2
<1>2. IsFiniteSet(A) /\ Cardinality(A) <= Cardinality(1..n)
  BY <1>1, FS_Subset
<1> QED  BY <1>1, <1>2, FS_CardinalityType

LEMMA NothingCounted == Cardinality({}) = 0
  BY FS_EmptySet

(* No number that was asked about is forgotten.                            *)
ReceivedKept ==
    \A t \in Tokens : texts[t] <= texts'[t] /\ passed[t] <= passed'[t]

LEMMA AppendReceived ==
    ASSUME ReceivedInv, TypeOK, NEW t \in Tokens, NEW i \in 1..texts[t],
           stored' = [stored EXCEPT ![t] = @ \cup {i}], UNCHANGED <<texts, unread, passed>>
    PROVE  ReceivedInv' /\ ReceivedKept
<1>1. \A u \in Tokens : texts[u] \in Nat /\ passed[u] \in Nat
  BY TaskBounds DEF TypeOK, ProviderType
<1>2. ReceivedKept
  BY <1>1 DEF ReceivedKept
<1>3. ASSUME NEW u \in Tokens
      PROVE  stored'[u] \subseteq 1..texts[u]
  BY DEF ReceivedInv, TypeOK, DbType
<1> QED  BY <1>2, <1>3 DEF ReceivedInv

LEMMA AskReceived ==
    ASSUME ReceivedInv, TypeOK, NEW w \in Workers, Ask(w), seen[w].number \in Tokens
    PROVE  ReceivedInv' /\ ReceivedKept
<1>1. \A u \in Tokens : texts[u] \in Nat /\ passed[u] \in Nat
  BY TaskBounds DEF TypeOK, ProviderType
<1>2. texts' = texts /\ stored' = stored
  BY DEF Ask, dbVars
<1>3. CASE Advance(seen[w].number)
  <2>1. unread' = [unread EXCEPT ![seen[w].number] = FALSE]
        /\ passed' = [passed EXCEPT ![seen[w].number] = texts[seen[w].number]]
    BY <1>3 DEF Advance
  <2>2. \A u \in Tokens : passed'[u] = IF u = seen[w].number THEN texts[u] ELSE passed[u]
    BY <2>1 DEF TypeOK, ProviderType
  <2>3. \A u \in Tokens : u # seen[w].number => unread'[u] = unread[u]
    BY <2>1 DEF TypeOK, ProviderType
  <2> QED  BY <1>1, <1>2, <2>2, <2>3 DEF ReceivedInv, ReceivedKept
<1>4. CASE NotAdvanced
  BY <1>1, <1>2, <1>4 DEF NotAdvanced, ReceivedInv, ReceivedKept
<1> QED  BY <1>3, <1>4 DEF Ask, Asked

LEMMA TextReceived ==
    ASSUME ReceivedInv, TypeOK, NEW t \in Tokens, ReceiveText(t)
    PROVE  ReceivedInv' /\ ReceivedKept
<1>1. \A u \in Tokens : texts[u] \in Nat /\ passed[u] \in Nat
  BY TaskBounds DEF TypeOK, ProviderType
<1>2. \A u \in Tokens : texts'[u] = IF u = t THEN texts[t] + 1 ELSE texts[u]
  BY DEF ReceiveText, TypeOK, ProviderType
<1>3. \A u \in Tokens : unread'[u] = IF u = t THEN TRUE ELSE unread[u]
  BY DEF ReceiveText, TypeOK, ProviderType
<1>4. stored' = stored /\ passed' = passed
  BY DEF ReceiveText, dbVars
<1>5. ASSUME NEW u \in Tokens
      PROVE  stored[u] \subseteq 1..texts'[u]
  <2>1. stored[u] \subseteq 1..texts[u]
    BY DEF ReceivedInv
  <2>2. texts'[u] \in Nat /\ texts[u] <= texts'[u]
    BY <1>1, <1>2
  <2> QED  BY <1>1, <2>1, <2>2
<1>6. ASSUME NEW u \in Tokens
      PROVE  passed[u] <= texts'[u] /\ (~unread'[u] => passed[u] = texts'[u])
  <2>1. passed[u] <= texts[u] /\ (~unread[u] => passed[u] = texts[u])
    BY DEF ReceivedInv
  <2>2. CASE u = t
    <3>1. unread'[u] = TRUE /\ texts'[u] = texts[u] + 1
      BY <1>2, <1>3, <2>2
    <3> QED  BY <1>1, <2>1, <3>1
  <2>3. CASE u # t
    <3>1. unread'[u] = unread[u] /\ texts'[u] = texts[u]
      BY <1>2, <1>3, <2>3
    <3> QED  BY <2>1, <3>1
  <2> QED  BY <2>2, <2>3
<1>7. ReceivedKept
  BY <1>1, <1>2, <1>4 DEF ReceivedKept
<1> QED  BY <1>4, <1>5, <1>6, <1>7 DEF ReceivedInv

LEMMA NothingReceived ==
    ASSUME ReceivedInv, TypeOK, UNCHANGED <<stored, texts, unread, passed>>
    PROVE  ReceivedInv' /\ ReceivedKept
<1>1. \A u \in Tokens : texts[u] \in Nat /\ passed[u] \in Nat
  BY TaskBounds DEF TypeOK, ProviderType
<1> QED  BY <1>1 DEF ReceivedInv, ReceivedKept

(* The worker at an append has something its number received.              *)
LEMMA AppendedNumber ==
    ASSUME NumberedInv, CountInv, NEW w \in Workers, pc[w] = "append", NEW i \in got[w]
    PROVE  seen[w].number \in Tokens /\ seen[w].number = row.number
           /\ i \in 1..texts[seen[w].number] /\ i \in Message
<1>1. seen[w].number # NoToken /\ seen[w].number = row.number
  BY DEF NumberedInv, CopyInv, CopyOk, NamedPlace
<1>2. seen[w].number \in Tokens
  BY <1>1 DEF NumberedInv, TaskInv, TypeOK, WorkType, Row
<1>3. got[w] \subseteq 1..texts[seen[w].number]
  BY DEF CountInv, CopyCount
<1>4. got[w] \subseteq Message
  BY DEF NumberedInv, TaskInv, TypeOK, WorkType
<1> QED  BY <1>1, <1>2, <1>3, <1>4

LEMMA ReceivedStep ==
    ASSUME NumberedInv, CountInv, Next
    PROVE  ReceivedInv' /\ ReceivedKept
<1>1. ReceivedInv /\ TypeOK
  BY DEF CountInv, NumberedInv, TaskInv
<1>2. CASE UNCHANGED <<stored, texts, unread, passed>>
  BY <1>1, <1>2, NothingReceived
<1>3. CASE \E w \in Workers : PollAppend(w)
  <2>1. PICK w \in Workers : PollAppend(w)
    BY <1>3
  <2>2. PICK i \in got[w] : Append(seen[w].number, i)
    BY <2>1 DEF PollAppend
  <2>3. seen[w].number \in Tokens /\ i \in 1..texts[seen[w].number]
    BY <2>1, <2>2, AppendedNumber DEF PollAppend
  <2>4. stored' = [stored EXCEPT ![seen[w].number] = @ \cup {i}] /\ UNCHANGED <<texts, unread, passed>>
    BY <2>1, <2>2 DEF Append, PollAppend, providerVars
  <2> QED  BY <1>1, <2>3, <2>4, AppendReceived
<1>4. CASE \E w \in Workers : Ask(w)
  <2>1. PICK w \in Workers : Ask(w)
    BY <1>4
  <2>2. seen[w].number # NoToken
    BY <2>1 DEF Ask, NumberedInv, CopyInv, CopyOk, NamedPlace
  <2>3. seen[w].number \in Tokens
    BY <1>1, <2>2 DEF TypeOK, WorkType, Row
  <2> QED  BY <1>1, <2>1, <2>3, AskReceived
<1>5. CASE \E t \in Tokens : ReceiveText(t)
  BY <1>1, <1>5, TextReceived
<1>6. CASE \E t \in Tokens, i \in Message : Callback(t, i)
  <2>1. PICK t \in Tokens, i \in Message : Callback(t, i)
    BY <1>6
  <2>2. i \in 1..texts[t]
    BY <1>1, <2>1, TaskBounds DEF Callback, Message, TypeOK, ProviderType
  <2>3. stored' = [stored EXCEPT ![t] = @ \cup {i}] /\ UNCHANGED <<texts, unread, passed>>
    BY <2>1 DEF Append, Callback, providerVars
  <2> QED  BY <1>1, <2>2, <2>3, AppendReceived
<1>7. ASSUME NEW w \in Workers, Claim(w) \/ Work(w) \/ Crash(w), ~PollAppend(w), ~Ask(w)
      PROVE  UNCHANGED <<stored, texts, unread, passed>>
  <2>1. CASE Purchase(w)
    BY <2>1 DEF Purchase, Begin, BeginFails, Buy, Release, Commit, Recover, MarkUnknown, PersistOutcome,
                providerVars, dbVars, KeepMessages
  <2>2. CASE ~Purchase(w)
    BY <1>7, <2>2 DEF Claim, Work, Crash, Receive, Poll, PollAppendFails, Schedule, Continue, BeginNext,
         ExpiredBeforeAsk, Complete, Abort, Settle, Prepare, Call, Finish, providerVars, dbVars, KeepMessages
  <2> QED  BY <2>1, <2>2
<1>8. CASE RequestStop \/ Restart \/ Environment
  BY <1>2, <1>5, <1>6, <1>8 DEF RequestStop, Restart, Environment, ProviderExpires, LoseCallback,
         Tick, LeaseExpires, Lapse, providerVars, dbVars, KeepMessages
<1> QED  BY <1>2, <1>3, <1>4, <1>7, <1>8 DEF Next

LEMMA RowNumbers ==
    ASSUME TypeOK
    PROVE  /\ row.messages \in Nat /\ row.continued \in Nat /\ row.pending \in Nat
           /\ row.number \in Tokens \cup {NoToken}
  BY DEF TypeOK, DbType, Row

LEMMA AcknowledgedKept ==
    ASSUME NumberedInv, NumberedInv', AcknowledgedWasAdvanced, ReceivedKept, OverKept,
           row'.number = row.number, row'.continued = row.continued
    PROVE  AcknowledgedWasAdvanced'
<1> SUFFICES ASSUME row'.number # NoToken
             PROVE  row'.continued <= passed'[row'.number] \/ sold'[row'.number] # "open"
  BY DEF AcknowledgedWasAdvanced
<1>1. TypeOK /\ TypeOK'
  BY DEF NumberedInv, TaskInv
<1>2. row.number \in Tokens /\ row.continued \in Nat
  BY <1>1, RowNumbers
<1>3. sold[row.number] \in Sale
  BY DEF NumberedInv, NumberInv, Allocated, Sale
<1>4. passed[row.number] <= passed'[row.number] /\ passed[row.number] \in Nat
      /\ passed'[row.number] \in Nat
  BY <1>1, <1>2, TaskBounds DEF ReceivedKept, TypeOK, ProviderType
<1>5. CASE row.continued <= passed[row.number]
  <2>1. row.continued <= passed'[row.number]
    BY <1>2, <1>4, <1>5
  <2> QED  BY <2>1
<1>6. CASE sold[row.number] # "open"
  <2>1. sold'[row.number] = sold[row.number]
    BY <1>2, <1>3, <1>6 DEF OverKept, Sale, Over
  <2> QED  BY <1>6, <2>1
<1> QED  BY <1>5, <1>6 DEF AcknowledgedWasAdvanced

(* A step that counts nothing new: the intent stays or is taken back, and  *)
(* a refund may become unavailable.                                        *)
LEMMA QuietCount ==
    ASSUME NumberedInv, NumberedInv', RowCount, ReceivedKept, OverKept,
           UNCHANGED <<attached, stored>>,
           row'.number = row.number, row'.messages = row.messages,
           row'.continued = row.continued, row'.supports = row.supports,
           row'.pending = 0 \/ (row'.pending = row.pending /\
                                (row.status = "active" => row'.status = "active")),
           row'.status = "active" =>
                row.status = "active" /\ (row'.refund = row.refund \/ row'.refund = "unavailable")
    PROVE  RowCount'
<1>1. AttachedInv' /\ NothingYet'
  BY DEF RowCount, AttachedInv, NothingYet
<1>2. RefundGone'
  <2>1. CASE row'.status = "active" /\ row'.messages > 0
    BY <2>1 DEF RowCount, RefundGone
  <2> QED  BY <2>1 DEF RefundGone
<1>3. AcknowledgedWasAdvanced'
  BY AcknowledgedKept DEF RowCount
<1>4. PendingIsSound'
  <2>1. row.continued <= row.messages /\ PendingIsSound
    BY DEF RowCount, PendingIsSound
  <2>2. CASE row'.pending = 0
    BY <2>1, <2>2 DEF PendingIsSound
  <2>3. CASE row'.pending = row.pending /\ (row.status = "active" => row'.status = "active")
    <3>1. row.pending # 0 => row.status = "active" /\ Kind = "activation" /\ row.supports
      BY <2>1 DEF PendingIsSound
    <3>2. row.pending # 0 => row.continued < row.pending /\ row.pending <= row.messages
      BY <2>1 DEF PendingIsSound
    <3>3. row'.pending # 0 => row'.status = "active" /\ Kind = "activation" /\ row'.supports
      BY <2>3, <3>1
    <3>4. row'.pending # 0 => row'.continued < row'.pending /\ row'.pending <= row'.messages
      BY <2>3, <3>2
    <3> QED  BY <2>1, <3>3, <3>4 DEF PendingIsSound
  <2> QED  BY <2>2, <2>3
<1> QED  BY <1>1, <1>2, <1>3, <1>4 DEF RowCount

LEMMA SameCount ==
    ASSUME NumberedInv, NumberedInv', RowCount, ReceivedKept, OverKept,
           UNCHANGED <<attached, stored>>, SameColumns
    PROVE  RowCount'
<1>1. row'.status = row.status /\ row'.number = row.number /\ row'.messages = row.messages
      /\ row'.continued = row.continued /\ row'.pending = row.pending
      /\ row'.supports = row.supports /\ row'.refund = row.refund
  BY DEF SameColumns, Identity, Counts
<1> QED  BY <1>1, QuietCount

LEMMA NoneWhileBuying ==
    ASSUME TypeOK, RowCount, row.number = NoToken
    PROVE  attached = {} /\ row.messages = 0 /\ row.continued = 0 /\ row.pending = 0
  BY NothingCounted DEF RowCount, AttachedInv, NothingYet

(* The outcome of a purchase counts what was stored for its number.        *)
LEMMA PersistCount ==
    ASSUME NumberedInv, NumberedInv', RowCount, ReceivedKept, OverKept,
           NEW t \in Tokens, row.number \in {NoToken, t}, sold' = sold,
           NEW r \in Row, r.continued = row.continued, NEW c \in BOOLEAN, PersistOutcome(r, t, c)
    PROVE  RowCount'
<1> USE DEF NumberedInv, TaskInv
<1>1. TypeOK /\ TypeOK'
  OBVIOUS
<1>2. /\ row'.number = t /\ row'.messages = Cardinality(attached')
      /\ row'.continued = row.continued /\ row'.pending = 0
      /\ row'.refund = IF attached' # {} THEN "unavailable" ELSE "refundable"
      /\ attached' = attached \cup stored[t] /\ stored' = stored
  BY PersistColumns DEF TypeOK
<1>3. t # NoToken
  BY TaskNulls
<1>4. attached \subseteq stored[t]
  BY DEF RowCount, AttachedInv
<1>5. attached' = stored'[t]
  BY <1>2, <1>4
<1>6. AttachedInv' /\ NothingYet'
  BY <1>2, <1>3, <1>5 DEF AttachedInv, NothingYet
<1>7. RefundGone'
  <2>1. attached' = {} => row'.messages = 0
    BY <1>2, NothingCounted
  <2>2. row'.messages > 0 => attached' # {}
    BY <2>1
  <2> QED  BY <1>2, <2>2 DEF RefundGone
<1>8. AcknowledgedWasAdvanced'
  <2>1. CASE row.number = t
    BY <1>2, <2>1, AcknowledgedKept DEF RowCount
  <2>2. CASE row.number = NoToken
    <3>1. row'.continued = 0 /\ passed'[t] \in Nat
      BY <1>1, <1>2, <2>2, NoneWhileBuying, TaskBounds DEF TypeOK, ProviderType
    <3>2. 0 <= passed'[t]
      BY <3>1
    <3> QED  BY <1>2, <3>1, <3>2 DEF AcknowledgedWasAdvanced
  <2> QED  BY <2>1, <2>2
<1>9. row'.continued <= row'.messages
  <2>1. CASE row.number = t
    <3>1. attached' = attached /\ row'.messages = row.messages
      BY <1>2, <1>3, <2>1 DEF RowCount, AttachedInv
    <3> QED  BY <1>2, <3>1 DEF RowCount, PendingIsSound
  <2>2. CASE row.number = NoToken
    <3>1. row'.continued = 0 /\ row'.messages \in Nat
      BY <1>1, <1>2, <2>2, NoneWhileBuying DEF TypeOK, DbType, Row
    <3> QED  BY <3>1
  <2> QED  BY <2>1, <2>2
<1>10. PendingIsSound'
  BY <1>2, <1>9 DEF PendingIsSound
<1> QED  BY <1>6, <1>7, <1>8, <1>10 DEF RowCount

LEMMA PurchaseCount ==
    ASSUME NumberedInv, NumberedInv', RowCount, ReceivedKept, OverKept,
           NEW w \in Workers, Purchase(w)
    PROVE  RowCount'
<1> USE DEF NumberedInv, TaskInv
<1>0. TypeOK /\ row \in Row
  BY DEF TypeOK, DbType
<1>1. CASE BeginFails(w) \/ Buy(w)
  BY <1>1, SameRowColumns, SameCount DEF BeginFails, Buy, dbVars
<1>2. CASE Begin(w)
  <2>1. UNCHANGED <<attached, stored>>
    BY <1>2 DEF Begin, KeepMessages
  <2>2. CASE row' = row
    BY <2>1, <2>2, SameRowColumns, SameCount
  <2>3. CASE row' # row
    <3>1. PICK t \in Tokens : row.status = "waiting_number"
                        /\ row' = [row EXCEPT !.status = "purchasing", !.token = t]
      BY <1>2, <2>3 DEF Begin
    <3>2. row'.status = "purchasing" /\ row'.number = row.number /\ Counts' = Counts
      BY <1>0, <3>1, BeginColumns
    <3>3. row'.messages = row.messages /\ row'.continued = row.continued
          /\ row'.pending = row.pending /\ row'.supports = row.supports
      BY <3>2 DEF Counts
    <3> QED  BY <2>1, <3>1, <3>2, <3>3, QuietCount
  <2> QED  BY <2>2, <2>3
<1>3. CASE Release(w)
  <2>1. UNCHANGED <<attached, stored>>
    BY <1>3 DEF Release, KeepMessages
  <2>2. CASE SameColumns
    BY <2>1, <2>2, SameCount
  <2>3. CASE OwnsPurchase(w) /\ row'.status = "waiting_number" /\ row'.number = row.number /\ Counts' = Counts
    <3>1. row'.messages = row.messages /\ row'.continued = row.continued
          /\ row'.pending = row.pending /\ row'.supports = row.supports /\ row.status = "purchasing"
      BY <2>3 DEF Counts, OwnsPurchase
    <3> QED  BY <2>1, <2>3, <3>1, QuietCount
  <2> QED  BY <1>0, <1>3, <2>2, <2>3, ReleaseColumns
<1>4. CASE Commit(w)
  <2>1. seen[w].token \in Tokens /\ sold' = sold
    BY <1>4, BuyerToken DEF Commit, PurchasePlace, providerVars
  <2>2. CASE OwnsPurchase(w) /\ \E c \in Capability : PersistOutcome(row, seen[w].token, c)
    <3>1. row.number = NoToken
      BY <2>2 DEF OwnsPurchase, NumberInv, Numberless
    <3> QED  BY <1>0, <2>1, <2>2, <3>1, PersistCount DEF Capability
  <2>3. CASE UNCHANGED dbVars
    BY <2>3, SameRowColumns, SameCount DEF dbVars
  <2> QED  BY <1>4, <2>2, <2>3 DEF Commit
<1>5. CASE Recover(w)
  <2> DEFINE r == [row EXCEPT !.stop = @ \/ row.status = "stopped"]
  <2>1. seen[w].token \in Tokens /\ sold' = sold
    BY <1>5, BuyerToken DEF Recover, PurchasePlace, providerVars
  <2>2. CASE Recoverable(seen[w].token)
    <3>1. r \in Row /\ r.continued = row.continued
      BY <1>0 DEF Row
    <3>2. \E c \in Capability : PersistOutcome(r, seen[w].token, c)
      BY <1>5, <2>2 DEF Recover
    <3>3. row.number \in {NoToken, seen[w].token}
      BY <2>2 DEF Recoverable
    <3> HIDE DEF r
    <3> QED  BY <2>1, <3>1, <3>2, <3>3, PersistCount DEF Capability
  <2>3. CASE ~Recoverable(seen[w].token)
    BY <1>5, <2>3, SameRowColumns, SameCount DEF Recover, dbVars
  <2> QED  BY <2>2, <2>3
<1>6. CASE MarkUnknown(w)
  <2>1. CASE SameColumns /\ UNCHANGED <<attached, stored>>
    BY <2>1, SameCount
  <2>2. CASE ~(SameColumns /\ UNCHANGED <<attached, stored>>)
    <3>1. /\ OwnsPurchase(w) /\ row'.status = "purchase_unknown" /\ row'.token = row.token
          /\ row'.continued = row.continued /\ row'.pending = row.pending
          /\ row'.supports = row.supports /\ row'.refund = row.refund
          /\ stored' = stored
          /\ \/ /\ row'.number = seen[w].token
                /\ attached' = attached \cup stored[seen[w].token]
                /\ row'.messages = Cardinality(attached')
             \/ /\ attached' = attached
                /\ row'.number = row.number /\ row'.messages = row.messages
      BY <1>0, <1>6, <2>2, MarkUnknownColumns DEF TypeOK
    <3>2. row.status = "purchasing" /\ row.number = NoToken /\ seen[w].token \in Tokens
      BY <1>6, <3>1, BuyerToken DEF OwnsPurchase, NumberInv, Numberless, MarkUnknown, PurchasePlace
    <3>3. CASE attached' = attached /\ row'.number = row.number /\ row'.messages = row.messages
      BY <3>1, <3>2, <3>3, QuietCount
    <3>4. CASE /\ row'.number = seen[w].token
               /\ attached' = attached \cup stored[seen[w].token]
               /\ row'.messages = Cardinality(attached')
      <4>1. attached = {} /\ row.continued = 0 /\ row.pending = 0
        BY <1>0, <3>2, NoneWhileBuying
      <4>2. AttachedInv' /\ NothingYet' /\ RefundGone'
        BY <3>1, <3>2, <3>4, <4>1, TaskNulls DEF AttachedInv, NothingYet, RefundGone
      <4>3. row'.messages \in Nat /\ row'.continued = 0 /\ row'.pending = 0
            /\ passed'[seen[w].token] \in Nat
        BY <3>1, <3>2, <4>1, TaskBounds DEF TypeOK, DbType, Row, ProviderType
      <4>4. 0 <= row'.messages /\ 0 <= passed'[seen[w].token]
        BY <4>3
      <4> QED  BY <3>4, <4>2, <4>3, <4>4 DEF RowCount, AcknowledgedWasAdvanced, PendingIsSound
    <3> QED  BY <3>1, <3>3, <3>4
  <2> QED  BY <2>1, <2>2
<1> QED  BY <1>1, <1>2, <1>3, <1>4, <1>5, <1>6 DEF Purchase

(* A message for the row's number, or for another one.                     *)
LEMMA AppendCount ==
    ASSUME NumberedInv, NumberedInv', RowCount, ReceivedKept, OverKept,
           NEW t \in Tokens, NEW i \in Message, Append(t, i)
    PROVE  RowCount'
<1> USE DEF NumberedInv, TaskInv
<1>0. TypeOK /\ TypeOK' /\ t # NoToken
  BY TaskNulls
<1>1. /\ Identity' = Identity
      /\ row'.continued = row.continued /\ row'.pending = row.pending
      /\ row'.supports = row.supports
      /\ stored' = [stored EXCEPT ![t] = @ \cup {i}]
      /\ \/ /\ row.number = t /\ i \notin attached /\ attached' = attached \cup {i}
            /\ row'.messages = Cardinality(attached')
            /\ row'.refund = IF row.status = "active" THEN "unavailable" ELSE row.refund
         \/ /\ ~(row.number = t /\ i \notin attached) /\ attached' = attached
            /\ row'.messages = row.messages /\ row'.refund = row.refund
  BY <1>0, AppendColumns DEF TypeOK
<1>2. row'.status = row.status /\ row'.number = row.number
  BY <1>1 DEF Identity
<1>3. \A u \in Tokens : stored'[u] = IF u = t THEN stored[t] \cup {i} ELSE stored[u]
  BY <1>0, <1>1 DEF TypeOK, DbType
<1>4. row.number \in Tokens \cup {NoToken}
  BY <1>0, RowNumbers
<1>5. AttachedInv'
  <2>1. attached = IF row.number = NoToken THEN {} ELSE stored[row.number]
    BY DEF RowCount, AttachedInv
  <2>2. attached' = IF row'.number = NoToken THEN {} ELSE stored'[row'.number]
    BY <1>0, <1>1, <1>2, <1>3, <1>4, <2>1
  <2>3. row'.messages = Cardinality(attached')
    BY <1>1 DEF RowCount, AttachedInv
  <2> QED  BY <2>2, <2>3 DEF AttachedInv
<1>6. NothingYet'
  BY <1>1, <1>2 DEF RowCount, NothingYet
<1>7. RefundGone'
  <2>1. CASE row'.refund = row.refund /\ row'.messages = row.messages
    BY <1>2, <2>1 DEF RowCount, RefundGone
  <2>2. CASE row'.refund = IF row.status = "active" THEN "unavailable" ELSE row.refund
    BY <1>2, <2>2 DEF RefundGone
  <2> QED  BY <1>1, <2>1, <2>2
<1>8. AcknowledgedWasAdvanced'
  BY <1>1, <1>2, AcknowledgedKept DEF RowCount
<1>9. row.messages <= row'.messages
  <2>1. row.messages \in Nat /\ row'.messages \in Nat
    BY <1>0 DEF TypeOK, DbType, Row
  <2>2. CASE attached' = attached \cup {i} /\ row'.messages = Cardinality(attached')
    <3>1. IsFiniteSet(Message)
      BY FS_Interval, TaskBounds DEF Message
    <3>2. attached' \in SUBSET Message
      BY <1>0 DEF TypeOK, DbType
    <3>3. IsFiniteSet(attached') /\ attached \in SUBSET attached'
      BY <2>2, <3>1, <3>2, FS_Subset
    <3>4. Cardinality(attached) <= Cardinality(attached')
      BY <3>3, FS_Subset
    <3> QED  BY <2>2, <3>4 DEF RowCount, AttachedInv
  <2>3. CASE row'.messages = row.messages
    BY <2>1, <2>3
  <2> QED  BY <1>1, <2>2, <2>3
<1>10. PendingIsSound'
  <2>1. row.messages \in Nat /\ row'.messages \in Nat /\ row.continued \in Nat /\ row.pending \in Nat
    BY <1>0 DEF TypeOK, DbType, Row
  <2>2. /\ row.continued <= row.messages
        /\ row.pending # 0 => row.continued < row.pending /\ row.pending <= row.messages
    BY DEF RowCount, PendingIsSound
  <2>3. /\ row'.continued <= row'.messages
        /\ row'.pending # 0 => row'.continued < row'.pending /\ row'.pending <= row'.messages
    BY <1>1, <1>9, <2>1, <2>2
  <2>4. row'.pending # 0 => row'.status = "active" /\ Kind = "activation" /\ row'.supports
    BY <1>1, <1>2 DEF RowCount, PendingIsSound
  <2> QED  BY <2>3, <2>4 DEF PendingIsSound
<1> QED  BY <1>5, <1>6, <1>7, <1>8, <1>10 DEF RowCount

(* The intent to continue covers what is counted and not acknowledged.     *)
LEMMA BeginNextCount ==
    ASSUME NumberedInv, NumberedInv', RowCount, ReceivedKept, OverKept,
           NEW w \in Workers, BeginNext(w)
    PROVE  RowCount'
<1> USE DEF NumberedInv, TaskInv
<1>0. TypeOK /\ row \in Row /\ UNCHANGED <<attached, stored>>
  BY DEF TypeOK, DbType, BeginNext, KeepMessages
<1>1. CASE SameColumns
  BY <1>0, <1>1, SameCount
<1>2. CASE /\ MayBeginNext
           /\ Identity' = Identity /\ row'.refund = row.refund
           /\ row'.messages = row.messages /\ row'.continued = row.continued
           /\ row'.supports = row.supports /\ row'.pending = row.messages
  <2>1. row'.status = row.status /\ row'.number = row.number
    BY <1>2 DEF Identity
  <2>2. row.status = "active" /\ Kind = "activation" /\ row.supports /\ row.number # NoToken
    BY <1>2 DEF MayBeginNext, NumberInv, Numbered
  <2>3. row.continued < row.messages /\ row.messages \in Nat /\ row.continued \in Nat
    BY <1>0, <1>2, RowNumbers DEF MayBeginNext
  <2>4. AttachedInv' /\ NothingYet' /\ RefundGone'
    BY <1>0, <1>2, <2>1, <2>2 DEF RowCount, AttachedInv, NothingYet, RefundGone
  <2>5. AcknowledgedWasAdvanced'
    BY <1>2, <2>1, AcknowledgedKept DEF RowCount
  <2>6. /\ row'.continued <= row'.messages
        /\ row'.continued < row'.pending /\ row'.pending <= row'.messages
    BY <1>2, <2>3
  <2>7. PendingIsSound'
    BY <1>2, <2>1, <2>2, <2>6 DEF PendingIsSound
  <2> QED  BY <2>4, <2>5, <2>7 DEF RowCount
<1> QED  BY <1>0, <1>1, <1>2, BeginNextColumns

(* The acknowledgement: the worker saw the provider move past its target.  *)
LEMMA CompleteCount ==
    ASSUME NumberedInv, NumberedInv', CountInv, ReceivedKept, OverKept,
           NEW w \in Workers, Complete(w)
    PROVE  RowCount'
<1> USE DEF NumberedInv, TaskInv
<1>0. TypeOK /\ row \in Row /\ seen[w] \in Row /\ UNCHANGED <<attached, stored>> /\ RowCount
  BY DEF TypeOK, DbType, WorkType, Complete, KeepMessages, CountInv
<1>1. CASE SameColumns
  BY <1>0, <1>1, SameCount
<1>2. CASE /\ row.continued < seen[w].pending /\ seen[w].pending <= row.messages
           /\ Identity' = Identity /\ row'.refund = row.refund
           /\ row'.messages = row.messages /\ row'.supports = row.supports
           /\ row'.continued = seen[w].pending /\ row'.pending = 0
  <2>1. row'.status = row.status /\ row'.number = row.number
    BY <1>2 DEF Identity
  <2>2. seen[w].number = row.number /\ row.number # NoToken
    BY DEF Complete, CopyInv, CopyOk, NamedPlace
  <2>3. row.number \in Tokens /\ sold[row.number] \in Sale
    BY <1>0, <2>2, RowNumbers DEF NumberInv, Allocated, Sale
  <2>4. AttachedInv' /\ NothingYet' /\ RefundGone'
    BY <1>0, <1>2, <2>1, <2>2 DEF RowCount, AttachedInv, NothingYet, RefundGone
  <2>5. seen[w].pending <= passed[row.number] \/ sold[row.number] # "open"
    BY <2>2 DEF CountInv, CopyCount, Complete
  <2>6. AcknowledgedWasAdvanced'
    <3>1. CASE seen[w].pending <= passed[row.number]
      <4>1. passed[row.number] <= passed'[row.number] /\ passed[row.number] \in Nat
            /\ passed'[row.number] \in Nat /\ seen[w].pending \in Nat
        BY <1>0, <2>3, TaskBounds DEF ReceivedKept, TypeOK, ProviderType, Row
      <4>2. seen[w].pending <= passed'[row.number]
        BY <3>1, <4>1
      <4> QED  BY <1>2, <2>1, <4>2 DEF AcknowledgedWasAdvanced
    <3>2. CASE sold[row.number] # "open"
      <4>1. sold'[row.number] # "open"
        BY <2>3, <3>2 DEF OverKept, Sale, Over
      <4> QED  BY <2>1, <4>1 DEF AcknowledgedWasAdvanced
    <3> QED  BY <2>5, <3>1, <3>2
  <2>7. PendingIsSound'
    BY <1>2 DEF PendingIsSound
  <2> QED  BY <2>4, <2>6, <2>7 DEF RowCount
<1> QED  BY <1>0, <1>1, <1>2, CompleteColumns

LEMMA OtherCount ==
    ASSUME NumberedInv, NumberedInv', RowCount, ReceivedKept, OverKept, NEW w \in Workers,
           Claim(w) \/ Crash(w) \/ Poll(w) \/ PollAppendFails(w) \/ Schedule(w)
           \/ ExpiredBeforeAsk(w) \/ Ask(w) \/ Abort(w) \/ Settle(w)
    PROVE  RowCount'
<1> USE DEF NumberedInv, TaskInv
<1>0. TypeOK /\ row \in Row /\ seen[w] \in Row
  BY DEF TypeOK, DbType, WorkType
<1>1. UNCHANGED <<attached, stored>>
  BY DEF Claim, Crash, Poll, PollAppendFails, Schedule, ExpiredBeforeAsk, Ask, Abort, Settle,
         Prepare, Call, Finish, KeepMessages, dbVars
<1>2. CASE SameColumns
  BY <1>1, <1>2, SameCount
<1>3. CASE Claim(w)
  <2>1. /\ row'.status = IF row.status = "purchasing" THEN "purchase_unknown" ELSE row.status
        /\ row'.number = row.number /\ Counts' = Counts /\ row'.refund = row.refund
    BY <1>0, <1>3, ClaimColumns
  <2>2. row'.messages = row.messages /\ row'.continued = row.continued
        /\ row'.pending = row.pending /\ row'.supports = row.supports
    BY <2>1 DEF Counts
  <2>3. row'.status = "active" <=> row.status = "active"
    BY <2>1
  <2> QED  BY <1>1, <2>1, <2>2, <2>3, QuietCount
<1>4. CASE Schedule(w) /\ ~SameColumns
  <2>1. /\ row'.number = row.number /\ row'.token = row.token
        /\ Counts' = Counts
        /\ row'.refund = row.refund \/ row'.refund = "unavailable"
    BY <1>0, <1>4, ScheduleColumns
  <2>2. row'.status = row.status
    BY <1>4, SameSold, ScheduleNumber DEF Schedule, providerVars, Identity
  <2>3. row'.messages = row.messages /\ row'.continued = row.continued
        /\ row'.pending = row.pending /\ row'.supports = row.supports
    BY <2>1 DEF Counts
  <2> QED  BY <1>1, <2>1, <2>2, <2>3, QuietCount
<1>5. CASE Abort(w) /\ ~SameColumns
  <2>1. /\ Identity' = Identity /\ row'.refund = row.refund
        /\ row'.messages = row.messages /\ row'.supports = row.supports
        /\ row'.continued = row.continued /\ row'.pending = 0
    BY <1>0, <1>5, AbortColumns
  <2>2. row'.status = row.status /\ row'.number = row.number
    BY <2>1 DEF Identity
  <2> QED  BY <1>1, <2>1, <2>2, QuietCount
<1>6. CASE Prepare(w) /\ ~SameColumns
  <2>1. /\ row'.status = "settling" /\ row'.number = row.number
        /\ row'.messages = row.messages /\ row'.supports = row.supports
        /\ row'.continued = row.continued /\ row'.pending = 0
    BY <1>0, <1>6, PrepareColumns
  <2> QED  BY <1>1, <2>1, QuietCount
<1>7. CASE Finish(w) /\ ~SameColumns
  <2>1. /\ row'.status = Target(pc[w]) /\ row'.number = row.number
        /\ row'.messages = row.messages /\ row'.supports = row.supports
        /\ row'.continued = row.continued /\ row'.pending = 0
    BY <1>0, <1>7, FinishColumns
  <2>2. row'.status # "active"
    BY <2>1 DEF Target
  <2> QED  BY <1>1, <2>1, <2>2, QuietCount
<1>8. CASE row' = row
  BY <1>2, <1>8, SameRowColumns
<1> QED
  BY <1>2, <1>3, <1>4, <1>5, <1>6, <1>7, <1>8
     DEF Crash, Poll, PollAppendFails, ExpiredBeforeAsk, Ask, Settle, Call, dbVars

LEMMA OutsideCount ==
    ASSUME NumberedInv, NumberedInv', RowCount, ReceivedKept, OverKept,
           RequestStop \/ Restart \/ Environment
    PROVE  RowCount'
<1> USE DEF NumberedInv, TaskInv
<1>0. TypeOK /\ row \in Row
  BY DEF TypeOK, DbType
<1>1. ASSUME NEW t \in Tokens, NEW i \in Message, Callback(t, i)
      PROVE  RowCount'
  BY <1>1, AppendCount DEF Callback
<1>2. CASE row' = row /\ UNCHANGED <<attached, stored>>
  BY <1>2, SameRowColumns, SameCount
<1>3. CASE RequestStop
  BY <1>0, <1>3, StopColumns, SameCount DEF RequestStop, KeepMessages
<1>4. CASE Restart
  <2>1. UNCHANGED <<attached, stored>>
    BY <1>4 DEF Restart, KeepMessages
  <2>2. /\ row'.status = "waiting_number" /\ row'.number = row.number
        /\ row'.messages = row.messages /\ row'.supports = row.supports
        /\ row'.continued = row.continued /\ row'.pending = 0
    BY <1>0, <1>4, RestartColumns
  <2> QED  BY <2>1, <2>2, QuietCount
<1> QED  BY <1>1, <1>2, <1>3, <1>4 DEF Environment, ReceiveText, ProviderExpires, LoseCallback,
                                       Tick, LeaseExpires, Lapse, dbVars

LEMMA RowCountStep ==
    ASSUME NumberedInv, CountInv, Next
    PROVE  RowCount'
<1>1. NumberedInv' /\ ReceivedKept /\ OverKept /\ RowCount
  BY NumberedStep, ReceivedStep, SoldIsOver DEF NumberedInv, CountInv
<1>2. ASSUME NEW w \in Workers, PollAppend(w)
      PROVE  RowCount'
  <2>1. PICK i \in got[w] : Append(seen[w].number, i)
    BY <1>2 DEF PollAppend
  <2>2. seen[w].number \in Tokens /\ i \in Message
    BY <1>2, <2>1, AppendedNumber DEF PollAppend
  <2> QED  BY <1>1, <2>1, <2>2, AppendCount
<1>3. ASSUME NEW w \in Workers, Claim(w) \/ Work(w) \/ Crash(w)
      PROVE  RowCount'
  BY <1>1, <1>2, <1>3, PurchaseCount, BeginNextCount, CompleteCount, OtherCount
     DEF Work, Receive, Continue
<1>4. CASE RequestStop \/ Restart \/ Environment
  BY <1>1, <1>4, OutsideCount
<1> QED  BY <1>3, <1>4 DEF Next

LEMMA CopyNumbers ==
    ASSUME TypeOK, NEW w \in Workers
    PROVE  seen[w].pending \in Nat /\ seen[w].number \in Tokens \cup {NoToken}
  BY DEF TypeOK, WorkType, Row

(* A copy that stays: what it says was received stays received.            *)
LEMMA TargetKept ==
    ASSUME NumberedInv, NumberedInv', ReceivedKept, NEW w \in Workers, CopyCount(w),
           seen'[w] = seen[w], seen[w].number # NoToken
    PROVE  seen'[w].pending <= texts'[seen'[w].number]
<1>1. TypeOK /\ TypeOK'
  BY DEF NumberedInv, TaskInv
<1>2. seen[w].pending \in Nat /\ seen[w].number \in Tokens
  BY <1>1, CopyNumbers
<1>3. texts[seen[w].number] <= texts'[seen[w].number] /\ texts[seen[w].number] \in Nat
      /\ texts'[seen[w].number] \in Nat
  BY <1>1, <1>2, TaskBounds DEF ReceivedKept, TypeOK, ProviderType
<1>4. seen[w].pending <= texts[seen[w].number]
  BY DEF CopyCount
<1>5. seen[w].pending <= texts'[seen[w].number]
  BY <1>2, <1>3, <1>4
<1> QED  BY <1>5

LEMMA MovedKept ==
    ASSUME NumberedInv, NumberedInv', ReceivedKept, OverKept, NEW w \in Workers,
           seen[w].number # NoToken,
           seen[w].pending <= passed[seen[w].number] \/ sold[seen[w].number] # "open"
    PROVE  seen[w].pending <= passed'[seen[w].number] \/ sold'[seen[w].number] # "open"
<1>1. TypeOK /\ TypeOK'
  BY DEF NumberedInv, TaskInv
<1>2. seen[w].pending \in Nat /\ seen[w].number \in Tokens
  BY <1>1, CopyNumbers
<1>3. passed[seen[w].number] <= passed'[seen[w].number] /\ passed[seen[w].number] \in Nat
      /\ passed'[seen[w].number] \in Nat
  BY <1>1, <1>2, TaskBounds DEF ReceivedKept, TypeOK, ProviderType
<1>4. CASE seen[w].pending <= passed[seen[w].number]
  <2>1. seen[w].pending <= passed'[seen[w].number]
    BY <1>2, <1>3, <1>4
  <2> QED  BY <2>1
<1>5. CASE sold[seen[w].number] # "open"
  <2>1. sold[seen[w].number] \in Sale
    BY DEF NumberedInv, CopyInv, CopyOk, NumberInv, Allocated, Sale
  <2>2. sold'[seen[w].number] = sold[seen[w].number]
    BY <1>2, <1>5, <2>1 DEF OverKept, Sale, Over
  <2> QED  BY <1>5, <2>2
<1> QED  BY <1>4, <1>5

LEMMA OtherCopyCount ==
    ASSUME NumberedInv, NumberedInv', ReceivedKept, OverKept, NEW v \in Workers, CopyCount(v),
           pc'[v] = pc[v], seen'[v] = seen[v], got'[v] = got[v]
    PROVE  CopyCount(v)'
<1>1. TypeOK /\ TypeOK' /\ CopyOk(v)
  BY DEF NumberedInv, TaskInv, CopyInv
<1>2. seen'[v].number # NoToken => seen'[v].pending <= texts'[seen'[v].number]
  BY TargetKept
<1>3. pc'[v] = "append" => got'[v] \subseteq 1..texts'[seen'[v].number]
  <2> SUFFICES ASSUME pc[v] = "append"
               PROVE  got[v] \subseteq 1..texts'[seen[v].number]
    OBVIOUS
  <2>1. seen[v].number \in Tokens
    BY <1>1, CopyNumbers DEF CopyOk, NamedPlace
  <2>2. texts[seen[v].number] <= texts'[seen[v].number] /\ texts[seen[v].number] \in Nat
        /\ texts'[seen[v].number] \in Nat
    BY <1>1, <2>1, TaskBounds DEF ReceivedKept, TypeOK, ProviderType
  <2>3. got[v] \subseteq 1..texts[seen[v].number]
    BY DEF CopyCount
  <2> QED  BY <2>2, <2>3
<1>4. pc'[v] = "complete" =>
        seen'[v].pending <= passed'[seen'[v].number] \/ sold'[seen'[v].number] # "open"
  <2> SUFFICES ASSUME pc[v] = "complete"
               PROVE  seen[v].pending <= passed'[seen[v].number] \/ sold'[seen[v].number] # "open"
    OBVIOUS
  <2>1. seen[v].number # NoToken
    BY <1>1 DEF CopyOk, NamedPlace
  <2>2. seen[v].pending <= passed[seen[v].number] \/ sold[seen[v].number] # "open"
    BY DEF CopyCount
  <2> QED  BY <2>1, <2>2, MovedKept
<1> QED  BY <1>2, <1>3, <1>4 DEF CopyCount

LEMMA LeftCount ==
    ASSUME TypeOK, NEW w \in Workers, Leave(w)
    PROVE  CopyCount(w)'
<1>1. pc'[w] = "idle" /\ seen'[w] = NewRow
  BY DEF Leave, Goto, TypeOK, WorkType
<1>2. NewRow.number = NoToken
  BY DEF NewRow
<1>3. seen'[w].number = NoToken
  BY <1>1, <1>2
<1> QED  BY <1>1, <1>3 DEF CopyCount

LEMMA StayCount ==
    ASSUME NumberedInv, NumberedInv', ReceivedKept, NEW w \in Workers, CopyCount(w),
           seen'[w] = seen[w], pc'[w] \notin {"append", "complete"}
    PROVE  CopyCount(w)'
<1>1. seen'[w].number # NoToken => seen'[w].pending <= texts'[seen'[w].number]
  BY TargetKept
<1> QED  BY <1>1 DEF CopyCount

(* The target of the row was received.                                     *)
TargetReceived == row.number # NoToken => row.pending <= texts[row.number]
LEMMA RowTarget == NumberedInv /\ ReceivedInv /\ RowCount => TargetReceived
<1> SUFFICES ASSUME NumberedInv, ReceivedInv, RowCount, row.number # NoToken
             PROVE  row.pending <= texts[row.number]
  BY DEF TargetReceived
<1>1. TypeOK
  BY DEF NumberedInv, TaskInv
<1>2. row.number \in Tokens /\ row.pending \in Nat /\ row.messages \in Nat
  BY <1>1, RowNumbers
<1>3. texts[row.number] \in Nat
  BY <1>1, <1>2, TaskBounds DEF TypeOK, ProviderType
<1>4. attached \in SUBSET (1..texts[row.number]) /\ row.messages = Cardinality(attached)
  BY <1>2 DEF RowCount, AttachedInv, ReceivedInv
<1>5. row.messages <= texts[row.number]
  BY <1>3, <1>4, CountBound
<1>6. row.pending <= row.messages
  <2>1. row.pending # 0 => row.pending <= row.messages
    BY DEF RowCount, PendingIsSound
  <2> QED  BY <1>2, <2>1
<1>7. row.pending <= texts[row.number]
  BY <1>2, <1>3, <1>5, <1>6
<1> QED  BY <1>7

LEMMA FreshCount ==
    ASSUME NumberedInv', ReceivedInv', RowCount', NEW w \in Workers,
           seen'[w] = row', pc'[w] \notin {"append", "complete"}
    PROVE  CopyCount(w)'
<1>1. TargetReceived'
  BY RowTarget, PTL
<1> QED  BY <1>1 DEF TargetReceived, CopyCount

LEMMA OwnGot ==
    ASSUME TypeOK, NEW w \in Workers, Claim(w) \/ Work(w) \/ Crash(w)
    PROVE  \A v \in Workers \ {w} : got'[v] = got[v]
<1>1. CASE Purchase(w)
  BY <1>1 DEF TypeOK, Purchase, Begin, BeginFails, Buy, Release, Commit, Recover, MarkUnknown,
              Stay, Leave, WorkType
<1>2. CASE Claim(w) \/ Receive(w) \/ Crash(w)
  BY <1>2 DEF TypeOK, Claim, Receive, Poll, PollAppend, PollAppendFails, Schedule, Crash,
              Stay, Leave, WorkType
<1>3. CASE Continue(w) \/ Settle(w)
  BY <1>3 DEF TypeOK, Continue, BeginNext, ExpiredBeforeAsk, Ask, Complete, Abort,
         Settle, Prepare, Call, Finish, Stay, Leave, WorkType
<1> QED  BY <1>1, <1>2, <1>3 DEF Work

(* What the step of one worker does to its own copy.                       *)
LEMMA PollCount ==
    ASSUME NumberedInv, NumberedInv', ReceivedKept, NEW w \in Workers, CopyCount(w), Poll(w)
    PROVE  CopyCount(w)'
<1>0. TypeOK /\ TypeOK' /\ CopyOk(w)
  BY DEF NumberedInv, TaskInv, CopyInv
<1>1. seen'[w] = seen[w] /\ texts' = texts
  BY DEF Poll, Stay, providerVars
<1>2. PICK A \in SUBSET Message : A = PollAnswer(seen[w].number)
  BY DEF PollAnswer
<1>3. CASE pc'[w] \notin {"append", "complete"}
  BY <1>1, <1>3, StayCount
<1>4. CASE pc'[w] \in {"append", "complete"}
  <2>1. AfterPoll(seen[w]) \notin {"append", "complete"}
    BY AfterPollPlace
  <2>2. pc'[w] = "append" /\ got' = [got EXCEPT ![w] = PollAnswer(seen[w].number)]
    BY <1>0, <1>4, <2>1 DEF Poll, Goto, TypeOK, WorkType
  <2>3. got'[w] = A
    BY <1>0, <1>2, <2>2 DEF TypeOK, WorkType
  <2>4. seen[w].number # NoToken /\ seen[w].number \in Tokens
    BY <1>0, CopyNumbers DEF Poll, CopyOk, NamedPlace
  <2>5. A \subseteq 1..texts[seen[w].number]
    <3>1. texts[seen[w].number] \in Nat
      BY <1>0, <2>4, TaskBounds DEF TypeOK, ProviderType
    <3>2. \A i \in A : i \in Nat /\ 1 <= i /\ i <= texts[seen[w].number]
      BY <1>2, TaskBounds DEF PollAnswer, Message
    <3> QED  BY <3>1, <3>2
  <2>6. seen'[w].pending <= texts'[seen'[w].number]
    BY <1>1, <2>4, TargetKept
  <2> QED  BY <1>1, <2>2, <2>3, <2>5, <2>6 DEF CopyCount
<1> QED  BY <1>3, <1>4

LEMMA PollAppendCount ==
    ASSUME NumberedInv, CountInv, NumberedInv', ReceivedInv', RowCount',
           NEW w \in Workers, PollAppend(w)
    PROVE  CopyCount(w)'
<1>0. TypeOK /\ TypeOK' /\ CopyOk(w) /\ CopyOk(w)'
  BY DEF NumberedInv, TaskInv, CopyInv
<1>1. seen'[w] = row' /\ texts' = texts
  BY <1>0 DEF PollAppend, providerVars, TypeOK, WorkType
<1>2. CASE pc'[w] \notin {"append", "complete"}
  BY <1>1, <1>2, FreshCount
<1>3. CASE pc'[w] \in {"append", "complete"}
  <2>1. PICK p \in {"prepare", "append", "ask_again", "begin_next", "schedule"} : Goto(w, p)
    BY AfterPollPlace DEF PollAppend
  <2>2. pc'[w] = "append"
    BY <1>0, <1>3, <2>1 DEF Goto, TypeOK, WorkType
  <2>3. PICK i \in got[w] : Append(seen[w].number, i) /\ got' = [got EXCEPT ![w] = @ \ {i}]
    BY DEF PollAppend
  <2>4. got'[w] \subseteq got[w]
    BY <1>0, <2>3 DEF TypeOK, WorkType
  <2>5. got[w] \subseteq 1..texts[seen[w].number]
    BY DEF CountInv, CopyCount, PollAppend
  <2>6. seen[w].number = row.number /\ row.number # NoToken
    BY <1>0 DEF CopyOk, NamedPlace, PollAppend
  <2>7. row'.number = row.number
    BY <2>6, NumberedStep DEF NumberKept, Next, Work, Receive
  <2>8. TargetReceived'
    BY RowTarget, PTL
  <2> QED  BY <1>1, <2>2, <2>4, <2>5, <2>6, <2>7, <2>8 DEF CopyCount, TargetReceived
<1> QED  BY <1>2, <1>3

(* A worker that comes to the acknowledgement saw status=3 applied, or was *)
(* told that nothing is left to apply it to.                               *)
LEMMA AskCount ==
    ASSUME NumberedInv, CountInv, NumberedInv', ReceivedInv', ReceivedKept, OverKept,
           NEW w \in Workers, Ask(w)
    PROVE  CopyCount(w)'
<1> DEFINE t == seen[w].number
<1>0. TypeOK /\ TypeOK' /\ CopyOk(w) /\ CopyCount(w)
  BY DEF NumberedInv, TaskInv, CopyInv, CountInv
<1>1. seen'[w] = seen[w] /\ texts' = texts /\ sold' = sold
  BY DEF Ask, Stay
<1>2. t \in Tokens
  BY <1>0, CopyNumbers DEF Ask, CopyOk, NamedPlace
<1>3. t # NoToken
  BY <1>2, TaskNulls
<1>4. CASE pc'[w] \notin {"append", "complete"}
  BY <1>0, <1>1, <1>4, StayCount
<1>5. CASE pc'[w] \in {"append", "complete"}
  <2>1. PICK outcome \in {"applied", "bad_status", "rejected", "ambiguous"} :
            /\ Asked(t, outcome)
            /\ Goto(w, IF pc[w] = "ask" THEN AfterAsk(outcome) ELSE AfterAskAgain(outcome))
    BY DEF Ask
  <2>2. pc'[w] = IF pc[w] = "ask" THEN AfterAsk(outcome) ELSE AfterAskAgain(outcome)
    BY <1>0, <2>1 DEF Goto, TypeOK, WorkType
  <2>3. outcome \in {"applied", "bad_status"} /\ pc'[w] = "complete"
    BY <1>5, <2>2 DEF AfterAsk, AfterAskAgain
  <2>4. seen[w].pending <= texts[t]
    BY <1>0, <1>3 DEF CopyCount
  <2>5. passed'[t] = texts[t] \/ sold[t] # "open"
    <3>1. CASE Advance(t)
      BY <1>0, <1>2, <3>1 DEF Advance, TypeOK, ProviderType
    <3>2. CASE (sold[t] # "open" \/ ~unread[t]) /\ NotAdvanced
      BY <1>2, <3>2 DEF NotAdvanced, CountInv, ReceivedInv
    <3> QED  BY <2>1, <2>3, <3>1, <3>2 DEF Asked
  <2>6. seen'[w].pending <= texts'[seen'[w].number]
    BY <1>1, <2>4
  <2>7. seen[w].pending <= passed'[t] \/ sold'[t] # "open"
    BY <1>1, <2>4, <2>5
  <2> QED  BY <1>1, <2>3, <2>6, <2>7 DEF CopyCount
<1> QED  BY <1>4, <1>5

LEMMA OwnCount ==
    ASSUME NumberedInv, CountInv, NumberedInv', ReceivedInv', RowCount', ReceivedKept, OverKept,
           NEW w \in Workers, Claim(w) \/ Work(w) \/ Crash(w)
    PROVE  CopyCount(w)'
<1>0. TypeOK /\ CopyCount(w)
  BY DEF NumberedInv, TaskInv, CountInv
<1>1. CASE Leave(w)
  BY <1>0, <1>1, LeftCount
<1>2. CASE seen'[w] = row' /\ pc'[w] \notin {"append", "complete"}
  BY <1>2, FreshCount
<1>3. CASE seen'[w] = seen[w] /\ pc'[w] \notin {"append", "complete"}
  BY <1>0, <1>3, StayCount
<1>4. CASE Poll(w) \/ PollAppend(w) \/ Ask(w)
  BY <1>0, <1>4, PollCount, PollAppendCount, AskCount
<1>5. CASE Claim(w)
  <2>1. seen'[w] = row' /\ pc'[w] = Route(row')
    BY <1>0, <1>5 DEF Claim, Goto, TypeOK, WorkType
  <2>2. Route(row') \notin {"append", "complete"}
    BY NextStepPlace DEF Route
  <2> QED  BY <1>2, <2>1, <2>2
<1>6. CASE Begin(w) \/ BeginNext(w) \/ Prepare(w)
  BY <1>0, <1>1, <1>2, <1>3, <1>6 DEF Begin, BeginNext, Prepare, Goto, Stay, TypeOK, WorkType
<1>7. CASE BeginFails(w) \/ Buy(w) \/ Commit(w) \/ PollAppendFails(w) \/ ExpiredBeforeAsk(w) \/ Finish(w)
  BY <1>0, <1>1, <1>3, <1>7 DEF BeginFails, Buy, Commit, PollAppendFails, ExpiredBeforeAsk, Finish,
                                Goto, Stay, TypeOK, WorkType
<1>8. CASE Call(w)
  BY <1>0, <1>3, <1>8 DEF Call, Conclude, Goto, Stay, TypeOK, WorkType
<1>9. CASE Release(w) \/ Recover(w) \/ MarkUnknown(w) \/ Schedule(w) \/ Complete(w) \/ Abort(w) \/ Crash(w)
  BY <1>1, <1>9 DEF Release, Recover, MarkUnknown, Schedule, Complete, Abort, Crash
<1> QED  BY <1>4, <1>5, <1>6, <1>7, <1>8, <1>9 DEF Work, Purchase, Receive, Continue, Settle

LEMMA CountStep ==
    ASSUME NumberedInv, CountInv, Next
    PROVE  CountInv'
<1>1. NumberedInv' /\ ReceivedKept /\ OverKept /\ ReceivedInv' /\ RowCount' /\ TypeOK
  BY NumberedStep, ReceivedStep, SoldIsOver, RowCountStep DEF NumberedInv, TaskInv
<1>2. ASSUME NEW w \in Workers, Claim(w) \/ Work(w) \/ Crash(w), NEW v \in Workers
      PROVE  CopyCount(v)'
  <2>1. CASE v = w
    BY <1>1, <1>2, <2>1, OwnCount
  <2>2. CASE v # w
    <3>1. pc'[v] = pc[v] /\ seen'[v] = seen[v] /\ got'[v] = got[v]
      BY <1>1, <1>2, <2>2, OwnWork, OwnGot
    <3>2. CopyCount(v)
      BY DEF CountInv
    <3> QED  BY <1>1, <3>1, <3>2, OtherCopyCount
  <2> QED  BY <2>1, <2>2
<1>3. ASSUME RequestStop \/ Restart \/ Environment, NEW v \in Workers
      PROVE  CopyCount(v)'
  <2>1. UNCHANGED <<pc, seen, got>>
    BY <1>3 DEF RequestStop, Restart, Environment, ReceiveText, ProviderExpires, Callback,
         LoseCallback, Tick, LeaseExpires, Lapse, workVars
  <2>2. CopyCount(v)
    BY DEF CountInv
  <2> QED  BY <1>1, <2>1, <2>2, OtherCopyCount
<1>4. \A v \in Workers : CopyCount(v)'
  BY <1>2, <1>3 DEF Next
<1> QED  BY <1>1, <1>4 DEF CountInv

LEMMA InitCount ==
    ASSUME Init
    PROVE  CountInv
<1>1. /\ row = NewRow /\ attached = {} /\ stored = [t \in Tokens |-> {}]
      /\ texts = [t \in Tokens |-> 0] /\ passed = [t \in Tokens |-> 0]
      /\ \A w \in Workers : pc[w] = "idle" /\ seen[w] = NewRow
  BY DEF Init
<1>2. /\ NewRow.number = NoToken /\ NewRow.messages = 0 /\ NewRow.continued = 0
      /\ NewRow.pending = 0 /\ NewRow.status = "waiting_number"
  BY DEF NewRow
<1>3. ReceivedInv
  BY <1>1 DEF ReceivedInv
<1>4. RowCount
  BY <1>1, <1>2, NothingCounted DEF RowCount, AttachedInv, NothingYet, RefundGone,
     AcknowledgedWasAdvanced, PendingIsSound
<1>5. \A w \in Workers : CopyCount(w)
  BY <1>1, <1>2 DEF CopyCount
<1> QED  BY <1>3, <1>4, <1>5 DEF CountInv

LEMMA CountInvariance == Spec => []CountInv
<1>1. NumberedInv /\ CountInv /\ [Next]_vars => CountInv'
  <2>1. ASSUME CountInv, UNCHANGED vars
        PROVE  CountInv'
    BY <2>1 DEF CountInv, ReceivedInv, RowCount, AttachedInv, NothingYet, RefundGone,
         AcknowledgedWasAdvanced, PendingIsSound, CopyCount, vars, dbVars, providerVars, workVars
  <2> QED  BY <2>1, CountStep
<1> QED  BY <1>1, InitCount, NumberedInvariance, PTL DEF Spec

(* Whichever of the poll, the callback and the commit of a purchase comes  *)
(* first, the messages of the number are counted once and the row does not *)
(* show itself refundable; what is acknowledged is what status=3 moved     *)
(* past; and the CHECK constraints on the continuation columns hold.       *)
THEOREM CountingFits == Spec => []ContinuationSound
<1>1. CountInv => ContinuationSound
  <2>1. ASSUME CountInv
        PROVE  MessagesCounted
    BY <2>1 DEF CountInv, RowCount, AttachedInv, RefundGone, MessagesCounted
  <2> QED  BY <2>1 DEF CountInv, RowCount, ContinuationSound
<1> QED  BY <1>1, CountInvariance, PTL

(* A task becomes refunded only with no message stored for its number: the *)
(* guard of the statement counts, and the count is the stored messages.    *)
THEOREM RefundedUnread == Spec => RefundIsUnread
<1> DEFINE Unread == row.status # "refunded" /\ row'.status = "refunded" => stored[row.number] = {}
<1>1. ASSUME NumberedInv, CountInv, Next
      PROVE  Unread
  <2> SUFFICES ASSUME row.status # "refunded", row'.status = "refunded"
               PROVE  stored[row.number] = {}
    OBVIOUS
  <2>0. TypeOK /\ row \in Row
    BY <1>1 DEF NumberedInv, TaskInv, TypeOK, DbType
  <2>1. ~RowAside
    BY DEF RowAside, Decided
  <2>2. PICK w \in Workers : Claim(w) \/ Settle(w)
    <3>1. ~(RequestStop \/ Restart \/ Environment)
      BY <2>0, <2>1, OutsideAside
    <3>2. \A w \in Workers : ~(Purchase(w) \/ Receive(w) \/ Continue(w) \/ Crash(w))
      BY <1>1, <2>0, <2>1, PurchaseAside, ReceiveAside, ContinueAside, SameRowColumns, SameRowAside
         DEF Crash, dbVars
    <3> QED  BY <1>1, <3>1, <3>2 DEF Next, Work
  <2>3. Finish(w)
    <3>1. CASE Claim(w)
      BY <2>0, <3>1, ClaimColumns
    <3>2. CASE Prepare(w)
      <4>1. row'.status = row.status \/ row'.status = "settling"
        BY <2>0, <3>2, PrepareColumns DEF SameColumns, Identity
      <4> QED  BY <4>1
    <3>3. CASE Call(w)
      BY <3>3 DEF Call, dbVars
    <3> QED  BY <2>2, <3>1, <3>2, <3>3 DEF Settle
  <2>4. MayFinish(Target(pc[w])) /\ row'.status = Target(pc[w])
    BY <2>0, <2>3, FinishColumns DEF SameColumns, Identity
  <2>5. row.messages = 0 /\ row.status = "settling"
    BY <2>4 DEF MayFinish
  <2>6. row.number # NoToken
    BY <1>1, <2>5 DEF NumberedInv, NumberInv, Numbered
  <2>7. attached = stored[row.number] /\ Cardinality(attached) = 0
    BY <1>1, <2>5, <2>6 DEF CountInv, RowCount, AttachedInv
  <2>8. IsFiniteSet(attached)
    <3>1. IsFiniteSet(Message)
      BY FS_Interval, TaskBounds DEF Message
    <3> QED  BY <2>0, <3>1, FS_Subset DEF TypeOK, DbType
  <2> QED  BY <2>7, <2>8, FS_EmptySet
<1>2. ASSUME UNCHANGED vars
      PROVE  Unread
  BY <1>2 DEF vars, dbVars
<1>3. NumberedInv /\ CountInv /\ [Next]_vars => [Unread]_vars
  BY <1>1, <1>2
<1> QED  BY <1>3, NumberedInvariance, CountInvariance, PTL DEF Spec, RefundIsUnread
=============================================================================
