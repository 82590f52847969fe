------------------------- MODULE WebhookInboxProofs -------------------------
(***************************************************************************)
(* Proofs about WebhookInbox for any workers, callbacks and bounds: types, *)
(* the account session lock, the writes of a worker that lost its lease,   *)
(* the intent before status=3, the refinement of CodeLog, and what becomes *)
(* of a stored callback, of its wake-up and of a Stop.                     *)
(***************************************************************************)
EXTENDS WebhookInbox, FiniteSetTheorems, WellFoundedInduction, TLAPS

-----------------------------------------------------------------------------
(* Where a worker may go *)

PcType == pc \in [Workers -> Place]

LEMMA OnErrorPlace ==
    ASSUME NEW w \in Workers
    PROVE  OnError(w) \in {"fail", "error"}
  BY DEF OnError

LEMMA GotoTyped ==
    ASSUME PcType, NEW w \in Workers, NEW p \in Place, Goto(w, p)
    PROVE  PcType'
  BY DEF PcType, Goto

LEMMA OnePlace ==
    ASSUME PcType, NEW w \in Workers, NEW p, NEW q, Goto(w, p), Goto(w, q)
    PROVE  p = q
  BY DEF PcType, Goto

LEMMA ErrorPlaces == {"fail", "error", "idle"} \subseteq Place
  BY DEF Place, CallSteps

(* An answered call goes on or to the error handling. *)
LEMMA AnsweredGoes ==
    ASSUME NEW w \in Workers, NEW p, Answered(w, p)
    PROVE  \E q \in {p, "fail", "error"} : Goto(w, q)
  BY OnErrorPlace DEF Answered

(* What every step does to pc: at most one worker moves, the one that acts. *)
Moves(w) == \E q \in Place : Goto(w, q)

LEMMA AnsweredMoves ==
    ASSUME NEW w \in Workers, NEW p \in Place, Answered(w, p)
    PROVE  Moves(w)
  BY AnsweredGoes, ErrorPlaces DEF Moves

(* Most steps do not lead to the places where the session copy counts.     *)
Apart(w) == \E q \in Place \ Copied : Goto(w, q)

LEMMA ApartMoves ==
    ASSUME NEW w \in Workers, Apart(w)
    PROVE  Moves(w)
  BY DEF Apart, Moves

LEMMA AnsweredApart ==
    ASSUME NEW w \in Workers, NEW p \in Place \ Copied, Answered(w, p)
    PROVE  Apart(w)
  BY AnsweredGoes, ErrorPlaces DEF Apart, Copied

LEMMA LeaveApart ==
    ASSUME NEW w \in Workers, Leave(w)
    PROVE  Apart(w)
  BY ErrorPlaces DEF Apart, Leave, Copied

LEMMA ServeApart ==
    ASSUME NEW w \in Workers, Serve(w)
    PROVE  Apart(w)
<1> USE DEF Apart, Copied, Place, CallSteps, BusinessSteps
<1>1. CASE Claim(w)
  <2>1. Answered(w, "ensure") \/ Goto(w, "error") \/ Goto(w, "blank") \/ Goto(w, "examine")
    BY <1>1, Zenon DEF Claim
  <2> QED  BY <2>1, AnsweredApart
<1>2. CASE IgnoreBlank(w)  BY <1>2, AnsweredApart DEF IgnoreBlank, Acknowledge
<1>3. CASE IgnoreOccupied(w)  BY <1>3, AnsweredApart DEF IgnoreOccupied, Acknowledge
<1>4. CASE Complete(w)  BY <1>4, AnsweredApart DEF Complete, Acknowledge
<1>5. CASE FailEvent(w)  BY <1>5 DEF FailEvent
<1> QED  BY <1>1, <1>2, <1>3, <1>4, <1>5 DEF Serve

LEMMA CollectMoves ==
    ASSUME NEW w \in Workers, Collect(w)
    PROVE  Moves(w)
<1> USE DEF Moves, Place, CallSteps, BusinessSteps
<1>1. CASE Examine(w)
  <2>1. AfterExamine(w) \in Place  BY DEF AfterExamine
  <2> QED  BY <1>1, <2>1 DEF Examine
<1>2. CASE Append(w)  BY <1>2, AnsweredMoves DEF Append
<1>3. CASE SaveLocal(w)  BY <1>3, AnsweredMoves DEF SaveLocal
<1>4. CASE Ensure(w)
  <2>1. AfterNone(w) \in Place  BY DEF AfterNone
  <2> QED  BY <1>4, <2>1 DEF Ensure
<1>5. CASE Sync(w)  BY <1>5, AnsweredMoves DEF Sync, AfterEnsure
<1> QED  BY <1>1, <1>2, <1>3, <1>4, <1>5 DEF Collect

LEMMA AdvanceMoves ==
    ASSUME NEW w \in Workers, AdvanceCycle(w)
    PROVE  Moves(w)
<1> USE DEF Moves, Place, CallSteps, BusinessSteps
<1>0. OnError(w) \in Place  BY OnErrorPlace
<1>1. CASE Advance(w)  BY <1>1, AnsweredMoves DEF Advance
<1>2. CASE Ask(w)  BY <1>2, AnsweredMoves DEF Ask
<1>3. CASE Reject(w)  BY <1>3, <1>0 DEF Reject
<1>4. CASE Accept(w)  BY <1>4, AnsweredMoves DEF Accept
<1>5. CASE Bump(w)  BY <1>5, <1>0, AnsweredMoves DEF Bump
<1>6. CASE Checkpoint(w)  BY <1>6, AnsweredMoves DEF Checkpoint, AfterEnsure
<1> QED  BY <1>1, <1>2, <1>3, <1>4, <1>5, <1>6 DEF AdvanceCycle

LEMMA SettleApart ==
    ASSUME NEW w \in Workers, Settle(w)
    PROVE  Apart(w)
<1> USE DEF Apart, Copied, Place, CallSteps, BusinessSteps
<1>1. CASE Transition(w)  BY <1>1, AnsweredApart DEF Transition
<1>2. CASE Wait(w)  BY <1>2, AnsweredApart DEF Wait
<1>3. CASE Conclude(w)  BY <1>3 DEF Conclude
<1>4. CASE Finish(w)  BY <1>4, AnsweredApart DEF Finish
<1>5. CASE Look(w)  BY <1>5, LeaveApart DEF Look
<1>6. CASE Release(w)  BY <1>6, LeaveApart DEF Release
<1> QED  BY <1>1, <1>2, <1>3, <1>4, <1>5, <1>6 DEF Settle

LEMMA RestApart ==
    ASSUME NEW w \in Workers, Lease(w) \/ Lock(w) \/ Trouble(w)
    PROVE  Apart(w)
<1> USE DEF Apart, Copied, Place, CallSteps, BusinessSteps
<1>1. CASE Lease(w)  BY <1>1 DEF Lease
<1>2. CASE Lock(w)  BY <1>2 DEF Lock, Branch
<1>3. CASE LockFails(w)  BY <1>3 DEF LockFails
<1>4. CASE CallFails(w)  BY <1>4, OnErrorPlace, LeaveApart DEF CallFails
<1>5. CASE Crash(w) \/ Cancelled(w)  BY <1>5, LeaveApart DEF Crash, Cancelled
<1> QED  BY <1>1, <1>2, <1>3, <1>4, <1>5 DEF Trouble

LEMMA WorkerMoves ==
    ASSUME NEW w \in Workers, Lease(w) \/ Work(w) \/ Trouble(w)
    PROVE  Moves(w)
  BY RestApart, ServeApart, SettleApart, CollectMoves, AdvanceMoves, ApartMoves DEF Work

Others == Provider \/ User \/ Clock

LEMMA OthersStay ==
    ASSUME Others
    PROVE  pc' = pc
  BY DEF Others, Provider, User, Clock, Issue, Ingest, IngestAgain, Click, Stop, Tick, Expire,
         LeaseExpires, Lapse, workVars

(* A worker is always at one of its places: each goes on by its own steps,  *)
(* as a goroutine in processActivation does.                                *)
THEOREM PcInvariance == Spec => []PcType
<1>1. Init => PcType  BY DEF Init, PcType, Place
<1>2. PcType /\ [Next]_vars => PcType'
  <2> SUFFICES ASSUME PcType, [Next]_vars PROVE PcType'  OBVIOUS
  <2>1. CASE UNCHANGED vars  BY <2>1 DEF vars, workVars, PcType
  <2>2. ASSUME NEW w \in Workers, Lease(w) \/ Work(w) \/ Trouble(w) PROVE PcType'
    BY <2>2, WorkerMoves, GotoTyped DEF Moves
  <2>3. CASE Others  BY <2>3, OthersStay DEF PcType
  <2> QED  BY <2>1, <2>2, <2>3 DEF Next, Others
<1> QED  BY <1>1, <1>2, PTL DEF Spec

-----------------------------------------------------------------------------
(* A worker that lost its lease *)

DurableKept == UNCHANGED <<rowVars, inbox, rows>>

LEMMA LateServeKeeps ==
    ASSUME NEW w \in Workers, holder # w, Serve(w)
    PROVE  DurableKept
  BY DEF DurableKept, Serve, Claim, IgnoreBlank, IgnoreOccupied, Complete, FailEvent,
         Acknowledge, Owned, OwnsLease, rowVars, leaseVars

LEMMA LateCollectKeeps ==
    ASSUME NEW w \in Workers, holder # w, Collect(w)
    PROVE  DurableKept
  BY DEF DurableKept, Collect, Examine, Append, SaveLocal, Ensure, Sync, OwnsLease,
         dbVars, rowVars, leaseVars

LEMMA LateAdvanceKeeps ==
    ASSUME NEW w \in Workers, holder # w, AdvanceCycle(w)
    PROVE  DurableKept
  BY DEF DurableKept, AdvanceCycle, Advance, Ask, Reject, Accept, Bump, Checkpoint, OwnsLease,
         dbVars, rowVars, leaseVars

LEMMA LateSettleKeeps ==
    ASSUME NEW w \in Workers, holder # w, Settle(w)
    PROVE  DurableKept
  BY DEF DurableKept, Settle, Transition, Wait, Conclude, Finish, Look, Release, OwnsLease,
         dbVars, rowVars, leaseVars

LEMMA LateWorkerKeeps ==
    ASSUME NEW w \in Workers, holder # w, Work(w) \/ Trouble(w)
    PROVE  DurableKept
<1>1. CASE Lock(w) \/ Trouble(w)
  BY <1>1 DEF DurableKept, Lock, Trouble, LockFails, CallFails, Crash, Cancelled, dbVars
<1> QED  BY <1>1, LateServeKeeps, LateCollectKeeps, LateAdvanceKeeps, LateSettleKeeps DEF Work

(* StaleWritesNothing: whatever a worker does after its lease was fenced or *)
(* taken, no column of the activation, event or code changes.               *)
THEOREM LateWritesNothing == Spec => StaleWritesNothing
<1> DEFINE Quiet(w) == pc[w] # "idle" /\ pc'[w] # pc[w] /\ holder # w
                           => UNCHANGED <<rowVars, inbox, rows>>
<1>1. ASSUME PcType, [Next]_vars, NEW w \in Workers
      PROVE  Quiet(w)
  <2> SUFFICES ASSUME pc[w] # "idle", pc'[w] # pc[w], holder # w PROVE DurableKept
    BY DEF DurableKept
  <2>1. PICK v \in Workers : Lease(v) \/ Work(v) \/ Trouble(v)
    BY <1>1, OthersStay DEF Next, Others, vars, workVars
  <2>2. v = w  BY <2>1, <1>1, WorkerMoves DEF Moves, Goto, PcType
  <2>3. ~Lease(w)  BY DEF Lease
  <2> QED  BY <2>1, <2>2, <2>3, LateWorkerKeeps
<1>2. PcType /\ [Next]_vars
        => [\A w \in Workers : pc[w] # "idle" /\ pc'[w] # pc[w] /\ holder # w
              => UNCHANGED <<rowVars, inbox, rows>>]_vars
  BY <1>1
<1> QED  BY <1>2, PcInvariance, PTL DEF Spec, StaleWritesNothing

-----------------------------------------------------------------------------
(* The account session lock *)

SessionType ==
    /\ session \in Session
    /\ mem \in [Workers -> Session]

LockOk == PcType /\ SessionType /\ LockInv

(* A worker that holds the lock acts on its own copy; the others wait.      *)
LEMMA HolderKeepsLock ==
    ASSUME LockOk, NEW w \in Workers, NEW p \in Place, pc[w] \notin Unlocked,
           Goto(w, p), gate' = gate, SessionType',
           \A v \in Workers \ {w} : mem'[v] = mem[v],
           p \in Copied => session' = mem'[w],
           p \in {"ask", "ask_again"} => session'.request = "dispatching"
    PROVE  LockInv'
<1>1. gate = w  BY DEF LockOk, LockInv
<1>2. pc'[w] = p /\ \A v \in Workers \ {w} : pc'[v] = pc[v] /\ pc[v] \in Unlocked
  BY <1>1 DEF LockOk, LockInv, PcType, Goto
<1> QED  BY <1>1, <1>2 DEF LockInv, Unlocked, Copied

(* A worker that leaves gives the lock back.                                *)
LEMMA LeaverKeepsLock ==
    ASSUME LockOk, NEW w \in Workers, Leave(w), session' = session
    PROVE  LockInv' /\ SessionType'
<1>1. pc'[w] = "idle" /\ \A v \in Workers \ {w} : pc'[v] = pc[v] /\ mem'[v] = mem[v]
  BY DEF Leave, Goto, LockOk, PcType, SessionType
<1>2. \A v \in Workers \ {w} : gate = v => gate' = v
  BY DEF Leave
<1>3. SessionType'
  BY DEF Leave, LockOk, SessionType, Session, NoSession, Requests
<1> QED  BY <1>1, <1>2, <1>3 DEF LockOk, LockInv, Unlocked, Copied

(* A step that touches neither the lock nor the session.                    *)
LEMMA AsideKeepsLock ==
    ASSUME LockOk, UNCHANGED <<pc, gate, session, mem>>
    PROVE  LockInv' /\ SessionType'
  BY DEF LockOk, LockInv, SessionType

LEMMA ApartKeepsLock ==
    ASSUME LockOk, NEW w \in Workers, Apart(w), pc[w] \notin Unlocked,
           UNCHANGED <<gate, session, mem>>
    PROVE  LockInv' /\ SessionType'
<1>1. PICK p \in Place \ Copied : Goto(w, p)  BY DEF Apart
<1>2. SessionType'  BY DEF LockOk, SessionType
<1> QED  BY <1>1, <1>2, HolderKeepsLock DEF Copied

LEMMA ServeKeepsLock ==
    ASSUME LockOk, NEW w \in Workers, Serve(w)
    PROVE  LockInv' /\ SessionType'
<1>1. UNCHANGED <<session, mem, gate>> /\ pc[w] \notin Unlocked
  BY DEF Serve, Claim, IgnoreBlank, IgnoreOccupied, Complete, FailEvent, Acknowledge, Keep, Unlocked
<1> QED  BY <1>1, ServeApart, ApartKeepsLock

LEMMA SettleKeepsLock ==
    ASSUME LockOk, NEW w \in Workers, Settle(w)
    PROVE  LockInv' /\ SessionType'
<1>1. CASE Leave(w) /\ UNCHANGED session  BY <1>1, LeaverKeepsLock
<1>2. CASE UNCHANGED <<session, mem, gate>> /\ pc[w] \notin Unlocked
  BY <1>2, SettleApart, ApartKeepsLock
<1> QED
  BY <1>1, <1>2 DEF Settle, Transition, Wait, Conclude, Finish, Look, Release, Keep, Unlocked, dbVars

LEMMA RestKeepsLock ==
    ASSUME LockOk, NEW w \in Workers, Lease(w) \/ Lock(w) \/ Trouble(w)
    PROVE  LockInv' /\ SessionType'
<1>1. CASE Leave(w) /\ UNCHANGED session  BY <1>1, LeaverKeepsLock
<1>2. CASE UNCHANGED <<session, mem, gate>> /\ pc[w] \notin Unlocked
  BY <1>2, RestApart, ApartKeepsLock
<1>3. CASE Lease(w) \/ LockFails(w)
  <2>1. pc'[w] \in Unlocked /\ \A v \in Workers \ {w} : pc'[v] = pc[v]
    BY <1>3 DEF Lease, LockFails, LockOk, PcType, Goto, Unlocked
  <2>2. UNCHANGED <<session, mem, gate>>
    BY <1>3 DEF Lease, LockFails, Keep, dbVars
  <2> QED  BY <2>1, <2>2 DEF LockOk, LockInv, SessionType, Unlocked, Copied
<1>4. CASE Lock(w)
  <2>1. pc'[w] \notin Copied /\ \A v \in Workers \ {w} : pc'[v] = pc[v]
    BY <1>4 DEF Lock, Branch, LockOk, PcType, Goto, Copied
  <2>2. UNCHANGED <<session, mem>> /\ gate = NoWorker /\ gate' = w
    BY <1>4 DEF Lock, dbVars
  <2>3. \A v \in Workers : pc[v] \in Unlocked
    BY <2>2, InboxNulls DEF LockOk, LockInv
  <2> QED  BY <2>1, <2>2, <2>3 DEF LockOk, LockInv, SessionType, Unlocked, Copied
<1> QED
  BY <1>1, <1>2, <1>3, <1>4 DEF Trouble, CallFails, Crash, Cancelled, Keep, dbVars,
     CallSteps, BusinessSteps, Unlocked

LEMMA CollectKeepsLock ==
    ASSUME LockOk, NEW w \in Workers, Collect(w), seen[w].cycle \in Nat
    PROVE  LockInv' /\ SessionType'
<1> USE DEF LockOk, SessionType, Unlocked, Copied
<1>0. PICK p \in Place : Goto(w, p)  BY CollectMoves DEF Moves
<1>1. CASE Examine(w) \/ Ensure(w)
  <2>1. UNCHANGED <<gate, session>> /\ mem' = [mem EXCEPT ![w] = session] /\ pc[w] \notin Unlocked
    BY <1>1 DEF Examine, Ensure, dbVars
  <2>2. p \notin {"ask", "ask_again"}
    BY <1>1, <1>0, OnePlace DEF Examine, Ensure, AfterExamine, AfterNone
  <2>3. SessionType' /\ mem'[w] = session /\ \A v \in Workers \ {w} : mem'[v] = mem[v]
    BY <2>1
  <2> QED  BY <2>1, <2>2, <2>3, <1>0, HolderKeepsLock
<1>2. CASE Append(w)
  <2>1. UNCHANGED <<gate, session, mem>> /\ pc[w] = "append"
    BY <1>2 DEF Append, Keep
  <2>2. p \notin {"ask", "ask_again"}
    BY <1>2, <1>0, AnsweredGoes, OnePlace DEF Append
  <2>3. session = mem[w]  BY <2>1 DEF LockInv
  <2> QED  BY <2>1, <2>2, <2>3, <1>0, HolderKeepsLock
<1>3. CASE SaveLocal(w) \/ Sync(w)
  <2>1. UNCHANGED <<gate, mem>> /\ pc[w] \notin Unlocked
    BY <1>3 DEF SaveLocal, Sync, Keep
  <2>2. p \notin Copied
    BY <1>3, <1>0, AnsweredGoes, OnePlace DEF SaveLocal, Sync, AfterEnsure
  <2>3. session' \in Session  BY <1>3 DEF SaveLocal, Sync, Session, Requests
  <2> QED  BY <2>1, <2>2, <2>3, <1>0, HolderKeepsLock
<1> QED  BY <1>1, <1>2, <1>3 DEF Collect

LEMMA AdvanceKeepsLock ==
    ASSUME LockOk, NEW w \in Workers, AdvanceCycle(w), cycle \in Nat
    PROVE  LockInv' /\ SessionType'
<1> USE DEF LockOk, SessionType, Unlocked, Copied
<1>0. PICK p \in Place : Goto(w, p)  BY AdvanceMoves DEF Moves
<1> DEFINE Marked(r) == [mem[w] EXCEPT !.request = r]
<1>a. \A r \in Requests : Marked(r) \in Session /\ Marked(r).request = r
  BY DEF Session
<1>b. "dispatching" \in Requests /\ "none" \in Requests /\ "accepted" \in Requests
  BY DEF Requests
<1>1. CASE Advance(w)
  <2>1. pc[w] = "advance" /\ gate' = gate  BY <1>1 DEF Advance
  <2>2. session = mem[w]  BY <2>1 DEF LockInv
  <2>3. CASE mem[w].request = "none"
    <3>1. session' = Marked("dispatching") /\ mem' = [mem EXCEPT ![w] = Marked("dispatching")]
      BY <1>1, <2>3 DEF Advance, Save
    <3> HIDE DEF Marked
    <3> QED  BY <3>1, <2>1, <1>0, <1>a, <1>b, HolderKeepsLock
  <2>4. CASE mem[w].request # "none"
    <3>1. UNCHANGED <<session, mem>> /\ (mem[w].request = "dispatching" \/ Goto(w, "bump"))
      BY <1>1, <2>4 DEF Advance
    <3>2. p \in {"ask", "ask_again"} => session.request = "dispatching"
      BY <3>1, <2>2, <1>0, OnePlace
    <3> QED  BY <3>1, <3>2, <2>1, <2>2, <1>0, HolderKeepsLock
  <2> QED  BY <2>3, <2>4
<1>2. CASE Ask(w)
  <2>1. UNCHANGED <<gate, session, mem>> /\ pc[w] \in {"ask", "ask_again"}
    BY <1>2 DEF Ask, Keep, dbVars
  <2>2. p \notin {"ask", "ask_again"}
    BY <1>2, <1>0, AnsweredGoes, OnePlace DEF Ask
  <2>3. session = mem[w]  BY <2>1 DEF LockInv
  <2> QED  BY <2>1, <2>2, <2>3, <1>0, HolderKeepsLock
<1>3. CASE Reject(w) \/ Accept(w)
  <2>1. PICK r \in Requests : session' = Marked(r) /\ mem' = [mem EXCEPT ![w] = Marked(r)]
    BY <1>3, <1>b DEF Reject, Accept, Save
  <2>2. gate' = gate /\ pc[w] \notin Unlocked  BY <1>3 DEF Reject, Accept
  <2>3. p \notin {"ask", "ask_again"}
    BY <1>3, <1>0, AnsweredGoes, OnePlace, OnErrorPlace DEF Reject, Accept
  <2> HIDE DEF Marked
  <2> QED  BY <2>1, <2>2, <2>3, <1>0, <1>a, HolderKeepsLock
<1>4. CASE Bump(w)
  <2>1. session' = session /\ gate' = gate /\ pc[w] \notin Unlocked  BY <1>4 DEF Bump
  <2>2. mem' = mem \/ mem' = [mem EXCEPT ![w] = [cycle |-> cycle + 1, request |-> "none"]]
    BY <1>4 DEF Bump
  <2>3. SessionType' /\ \A v \in Workers \ {w} : mem'[v] = mem[v]
    BY <2>1, <2>2, <1>b DEF Session
  <2>4. p \notin Copied
    BY <1>4, <1>0, AnsweredGoes, OnePlace, OnErrorPlace DEF Bump
  <2> QED  BY <2>1, <2>3, <2>4, <1>0, HolderKeepsLock
<1>5. CASE Checkpoint(w)
  <2>1. session' = mem[w] /\ UNCHANGED <<gate, mem>> /\ pc[w] \notin Unlocked
    BY <1>5 DEF Checkpoint, Keep
  <2>2. p \notin Copied
    BY <1>5, <1>0, AnsweredGoes, OnePlace DEF Checkpoint, AfterEnsure
  <2> QED  BY <2>1, <2>2, <1>0, HolderKeepsLock
<1> QED  BY <1>1, <1>2, <1>3, <1>4, <1>5 DEF AdvanceCycle

-----------------------------------------------------------------------------
(* Types *)

LEMMA LeastOfRelation ==
    ASSUME NEW R, IsWellFoundedOn(R, Nat), NEW S, S \subseteq Nat, S # {}
    PROVE  \E x \in S : \A y \in S : ~(<<y, x>> \in R)
  BY WFMin

LEMMA MinIsMember ==
    ASSUME NEW S \in SUBSET Nat, S # {}
    PROVE  Min(S) \in S /\ \A n \in S : Min(S) <= n
<1> DEFINE Less == OpToRel(<, Nat)
<1>1. \A m, n \in Nat : <<m, n>> \in Less <=> m < n
  BY DEF OpToRel
<1>2. IsWellFoundedOn(Less, Nat)  BY NatLessThanWellFounded
<1>3. S \subseteq Nat  OBVIOUS
<1> HIDE DEF Less
<1>4. \E x \in S : \A y \in S : ~(<<y, x>> \in Less)
  BY <1>2, <1>3, LeastOfRelation, Zenon
<1>5. PICK x \in S : \A y \in S : ~(<<y, x>> \in Less)
  BY <1>4
<1>6. \A y \in S : x <= y
  <2> TAKE y \in S
  <2>1. x \in Nat /\ y \in Nat  BY <1>3
  <2>2. ~(y < x)  BY <2>1, <1>1, <1>5
  <2> QED  BY <2>1, <2>2
<1> QED  BY <1>6 DEF Min

RowType ==
    /\ status \in Statuses /\ control \in Controls
    /\ cycle \in Nat
    /\ holder \in Workers \cup {NoWorker} /\ lapsed \in BOOLEAN
    /\ gate \in Workers \cup {NoWorker}
    /\ seen \in [Workers -> Seen]

TimeType ==
    /\ next \in {Now, Soon, Late} /\ wake \in {Now, Soon, Never}
    /\ inbox \in [Event -> InboxEvent]
    /\ due \in [Workers -> {Now, Soon, Late}]

CodeType ==
    /\ rows \in [Cycle -> Event \cup {PinCode, NoEvent}]
    /\ job \in [Workers -> Event \cup {NoEvent}]

LEMMA TypeParts == TypeOK <=> PcType /\ RowType /\ TimeType /\ CodeType /\ SessionType
  BY DEF TypeOK, PcType, RowType, TimeType, CodeType, SessionType

LEMMA LeaveRow ==
    ASSUME RowType, NEW w \in Workers, Leave(w), UNCHANGED rowVars
    PROVE  RowType'
  BY DEF RowType, Leave, rowVars, leaseVars, Seen, NotSeen, Controls

LEMMA KeepRow ==
    ASSUME RowType, Keep, UNCHANGED <<status, control, cycle, holder, lapsed>>
    PROVE  RowType'
  BY DEF RowType, Keep

LEMMA WorkerRow ==
    ASSUME RowType, NEW w \in Workers, Lease(w) \/ Work(w) \/ Trouble(w)
    PROVE  RowType'
<1>1. CASE Lease(w)
  BY <1>1 DEF Lease, RowType, Seen
<1>2. CASE Lock(w)
  BY <1>2 DEF Lock, RowType, dbVars, rowVars, leaseVars
<1>3. CASE Trouble(w)
  BY <1>3, KeepRow, LeaveRow
     DEF Trouble, LockFails, CallFails, Crash, Cancelled, dbVars, rowVars, leaseVars
<1>4. CASE Serve(w)
  BY <1>4 DEF Serve, Claim, IgnoreBlank, IgnoreOccupied, Complete, FailEvent, Acknowledge, Keep, RowType
<1>5. CASE Collect(w)
  BY <1>5 DEF Collect, Examine, Append, SaveLocal, Ensure, Sync, Keep, RowType, dbVars, rowVars, leaseVars
<1>6. CASE AdvanceCycle(w)
  BY <1>6 DEF AdvanceCycle, Advance, Ask, Reject, Accept, Bump, Checkpoint, Keep, RowType,
     dbVars, rowVars, leaseVars
<1>7. CASE Settle(w)
  <2>1. CASE Transition(w)  BY <2>1 DEF Transition, RowType, Keep, leaseVars, Statuses
  <2>2. CASE Finish(w)  BY <2>2 DEF Finish, End, RowType, Keep, Unleased, Statuses, Finished, Controls
  <2>3. CASE Wait(w) \/ Conclude(w)
    BY <2>3, KeepRow DEF Wait, Conclude, dbVars, rowVars, leaseVars
  <2>4. CASE Look(w)
    BY <2>4, LeaveRow DEF Look, RowType, dbVars, rowVars, leaseVars
  <2>5. CASE Release(w)
    BY <2>5 DEF Release, RowType, Leave, Unleased, leaseVars, Seen, NotSeen, Controls
  <2> QED  BY <1>7, <2>1, <2>2, <2>3, <2>4, <2>5 DEF Settle
<1> QED  BY <1>1, <1>2, <1>3, <1>4, <1>5, <1>6, <1>7 DEF Work

LEMMA OthersRow ==
    ASSUME RowType, Others
    PROVE  RowType'
<1>1. CASE Provider
  BY <1>1 DEF Provider, Issue, Ingest, IngestAgain, RowType, dbVars, rowVars, leaseVars, workVars
<1>2. CASE User
  BY <1>2 DEF User, Click, Stop, Unleased, RowType, Controls, workVars
<1>3. CASE Clock
  BY <1>3 DEF Clock, Tick, Expire, LeaseExpires, Lapse, RowType, workVars
<1> QED  BY <1>1, <1>2, <1>3 DEF Others

LEMMA RefreshedTyped ==
    ASSUME NEW box \in [Event -> InboxEvent]
    PROVE  Refreshed(box) \in {Now, Soon, Never}
<1>1. CASE Received(box) = {}
  BY <1>1 DEF Refreshed
<1>2. CASE Received(box) # {}
  <2> DEFINE S == {box[e].at : e \in Received(box)}
  <2>1. S # {} /\ S \in SUBSET {Now, Soon, Never}
    BY <1>2 DEF Received, InboxEvent
  <2>2. S \in SUBSET Nat
    BY <2>1 DEF Now, Soon, Never
  <2>3. Min(S) \in S  BY <2>1, <2>2, MinIsMember
  <2>4. Refreshed(box) = Min(S)  BY <1>2 DEF Refreshed
  <2> QED  BY <2>1, <2>3, <2>4
<1> QED  BY <1>1, <1>2

LEMMA NextEventTyped ==
    ASSUME NEW w \in Workers, Candidates(w) # {}
    PROVE  NextEvent(w) \in Candidates(w)
<1>1. Candidates(w) \in SUBSET Nat  BY DEF Candidates, Event
<1>2. Retaken(w) \subseteq Candidates(w)  BY DEF Retaken
<1> QED  BY <1>1, <1>2, MinIsMember DEF NextEvent

LEMMA WakeTyped ==
    ASSUME TimeType, NEW t \in {Now, Soon}, Wake(t)
    PROVE  next' \in {Now, Soon, Late} /\ wake' \in {Now, Soon, Never}
  BY DEF TimeType, Wake, Earlier, Now, Soon, Late, Never

(* An event keeps its fields when one of them changes.                      *)
LEMMA MarkTyped ==
    ASSUME inbox \in [Event -> InboxEvent], NEW e, NEW st \in {"processed", "ignored", "processing"}
    PROVE  [inbox EXCEPT ![e].st = st] \in [Event -> InboxEvent]
  BY DEF InboxEvent

LEMMA AcknowledgeTime ==
    ASSUME TimeType, NEW w \in Workers, NEW st \in {"processed", "ignored"}, NEW p,
           Acknowledge(w, st, p)
    PROVE  TimeType'
<1>1. CASE inbox' = Settled(w, st) /\ wake' = Refreshed(inbox')
  <2>1. inbox' \in [Event -> InboxEvent]
    BY <1>1, MarkTyped DEF Settled, TimeType
  <2>2. UNCHANGED <<next, due>>  BY DEF Acknowledge
  <2> QED  BY <1>1, <2>1, <2>2, RefreshedTyped DEF TimeType
<1>2. CASE UNCHANGED <<inbox, wake>>
  BY <1>2 DEF Acknowledge, TimeType
<1> QED  BY <1>1, <1>2 DEF Acknowledge

LEMMA ClaimTime ==
    ASSUME TimeType, NEW w \in Workers, Claim(w)
    PROVE  TimeType'
<1>0. UNCHANGED <<next, due>>  BY DEF Claim
<1>1. CASE UNCHANGED <<inbox, wake>>
  BY <1>0, <1>1 DEF TimeType
<1>2. CASE wake' = Refreshed(inbox) /\ inbox' = inbox
  BY <1>0, <1>2, RefreshedTyped DEF TimeType
<1>3. ASSUME NEW e, inbox' = [inbox EXCEPT ![e].st = "processing", ![e].claim = w],
             wake' = Refreshed(inbox')
      PROVE  TimeType'
  <2>1. inbox' \in [Event -> InboxEvent]
    BY <1>3 DEF TimeType, InboxEvent
  <2> QED  BY <1>0, <1>3, <2>1, RefreshedTyped DEF TimeType
<1>4. \/ UNCHANGED <<inbox, wake>>
      \/ wake' = Refreshed(inbox) /\ inbox' = inbox
      \/ \E e : /\ inbox' = [inbox EXCEPT ![e].st = "processing", ![e].claim = w]
                /\ wake' = Refreshed(inbox')
  BY Zenon DEF Claim
<1> QED  BY <1>1, <1>2, <1>3, <1>4

LEMMA FailTime ==
    ASSUME TimeType, NEW w \in Workers, FailEvent(w)
    PROVE  TimeType'
<1>0. UNCHANGED due  BY DEF FailEvent, Keep
<1>1. CASE UNCHANGED <<inbox, next, wake>>
  BY <1>0, <1>1 DEF TimeType
<1>2. CASE Wake(Soon) /\ inbox' = [inbox EXCEPT ![job[w]] =
                                     [st |-> "received", at |-> Soon, claim |-> NoWorker]]
  <2>1. inbox' \in [Event -> InboxEvent]
    BY <1>2 DEF TimeType, InboxEvent
  <2> QED  BY <1>0, <1>2, <2>1, WakeTyped DEF TimeType
<1> QED  BY <1>1, <1>2 DEF FailEvent

LEMMA LeaveTime ==
    ASSUME TimeType, NEW w \in Workers, Leave(w), UNCHANGED <<next, wake, inbox>>
    PROVE  TimeType'
  BY DEF TimeType, Leave

LEMMA QuietTime ==
    ASSUME TimeType, UNCHANGED <<next, wake, inbox, due>>
    PROVE  TimeType'
  BY DEF TimeType

LEMMA SettleTime ==
    ASSUME TimeType, NEW w \in Workers, Settle(w)
    PROVE  TimeType'
<1>1. CASE Transition(w) \/ Conclude(w)
  BY <1>1, QuietTime DEF Transition, Conclude, Keep, dbVars, rowVars, leaseVars
<1>2. CASE Wait(w)
  BY <1>2 DEF Wait, Keep, TimeType, Deadline
<1>3. CASE Finish(w)
  <2>1. UNCHANGED <<next, wake, due>>  BY <1>3 DEF Finish, Keep
  <2>2. CASE UNCHANGED inbox  BY <2>1, <2>2 DEF TimeType
  <2>3. CASE inbox' = Closed(inbox)
    <3>1. Closed(inbox) \in [Event -> InboxEvent]
      BY DEF Closed, TimeType, InboxEvent
    <3> QED  BY <2>1, <2>3, <3>1 DEF TimeType
  <2> QED  BY <1>3, <2>2, <2>3 DEF Finish
<1>4. CASE Look(w)
  <2>1. UNCHANGED <<next, wake, inbox>>  BY <1>4 DEF Look, dbVars, rowVars, leaseVars
  <2>2. CASE Leave(w)  BY <2>1, <2>2, LeaveTime
  <2>3. CASE due' = [due EXCEPT ![w] = next]  BY <2>1, <2>3 DEF TimeType
  <2> QED  BY <1>4, <2>2, <2>3 DEF Look
<1>5. CASE Release(w)
  <2>1. Leave(w) /\ UNCHANGED inbox  BY <1>5 DEF Release
  <2>2. due' \in [Workers -> {Now, Soon, Late}]  BY <2>1 DEF Leave, TimeType
  <2>3. CASE UNCHANGED leaseVars  BY <2>1, <2>2, <2>3 DEF TimeType, leaseVars
  <2>4. CASE /\ next' = Earlier(IF pc[w] = "error" THEN Soon ELSE due[w], wake)
             /\ wake' = Never
    BY <2>1, <2>2, <2>4 DEF TimeType, Earlier, Now, Soon, Late, Never
  <2> QED  BY <1>5, <2>3, <2>4 DEF Release
<1> QED  BY <1>1, <1>2, <1>3, <1>4, <1>5 DEF Settle

LEMMA WorkerTime ==
    ASSUME TimeType, NEW w \in Workers, Lease(w) \/ Work(w) \/ Trouble(w)
    PROVE  TimeType'
<1>1. CASE Lease(w)
  <2>1. UNCHANGED <<next, wake, due>>  BY <1>1 DEF Lease
  <2>2. inbox' = [e \in Event |-> IF inbox[e].claim = w
                                  THEN [inbox[e] EXCEPT !.claim = OldLease] ELSE inbox[e]]
    BY <1>1 DEF Lease
  <2>3. inbox' \in [Event -> InboxEvent]
    BY <2>2 DEF TimeType, InboxEvent
  <2> QED  BY <2>1, <2>3 DEF TimeType
<1>2. CASE Lock(w)
  BY <1>2, QuietTime DEF Lock, dbVars, rowVars, leaseVars
<1>3. CASE Trouble(w)
  BY <1>3, QuietTime, LeaveTime
     DEF Trouble, LockFails, CallFails, Crash, Cancelled, Keep, dbVars, rowVars, leaseVars
<1>4. CASE Serve(w)
  BY <1>4, ClaimTime, FailTime, AcknowledgeTime
     DEF Serve, IgnoreBlank, IgnoreOccupied, Complete
<1>5. CASE Collect(w)
  BY <1>5, QuietTime
     DEF Collect, Examine, Append, SaveLocal, Ensure, Sync, Keep, dbVars, rowVars, leaseVars
<1>6. CASE Bump(w)
  BY <1>6 DEF Bump, TimeType
<1>7. CASE AdvanceCycle(w) /\ ~Bump(w)
  BY <1>7, QuietTime
     DEF AdvanceCycle, Advance, Ask, Reject, Accept, Checkpoint, Keep, dbVars, rowVars, leaseVars
<1> QED  BY <1>1, <1>2, <1>3, <1>4, <1>5, <1>6, <1>7, SettleTime DEF Work

LEMMA OthersTime ==
    ASSUME TimeType, Others
    PROVE  TimeType'
<1>1. CASE User \/ Issue \/ LeaseExpires \/ Lapse
  BY <1>1 DEF User, Click, Stop, Unleased, Issue, LeaseExpires, Lapse, TimeType,
     dbVars, rowVars, leaseVars, workVars
<1>2. ASSUME NEW e \in Event, Ingest(e) PROVE TimeType'
  <2>1. PICK st \in {"received", "ignored"} : inbox' = [inbox EXCEPT ![e].st = st, ![e].at = Now]
    BY <1>2, Zenon DEF Ingest
  <2>2. inbox' \in [Event -> InboxEvent]  BY <2>1 DEF TimeType, InboxEvent
  <2>3. UNCHANGED due  BY <1>2 DEF Ingest, workVars
  <2>4. Wake(Now) \/ UNCHANGED <<next, wake>>  BY <1>2 DEF Ingest
  <2> QED  BY <2>2, <2>3, <2>4, WakeTyped DEF TimeType
<1>3. ASSUME NEW e \in Event, IngestAgain(e) PROVE TimeType'
  <2>1. UNCHANGED <<inbox, due>> /\ Wake(inbox[e].at)  BY <1>3 DEF IngestAgain, workVars
  <2>2. inbox[e].at \in {Now, Soon, Never}  BY DEF TimeType, InboxEvent
  <2>3. next' \in {Now, Soon, Late} /\ wake' \in {Now, Soon, Never}
    BY <2>1, <2>2 DEF TimeType, Wake, Earlier, Now, Soon, Late, Never
  <2> QED  BY <2>1, <2>3 DEF TimeType
<1>4. CASE Tick
  <2>1. inbox' = [e \in Event |-> [inbox[e] EXCEPT !.at = Sooner(@)]]  BY <1>4 DEF Tick
  <2>2. \A e \in Event : Sooner(inbox[e].at) \in {Now, Soon, Never}
    BY DEF Sooner, TimeType, InboxEvent
  <2>3. inbox' \in [Event -> InboxEvent]
    BY <2>1, <2>2 DEF TimeType, InboxEvent
  <2>4. next' \in {Now, Soon, Late} /\ wake' \in {Now, Soon, Never}
    BY <1>4 DEF Tick, Sooner, TimeType
  <2>5. due' \in [Workers -> {Now, Soon, Late}]
    BY <1>4 DEF Tick, Sooner, TimeType
  <2> QED  BY <2>3, <2>4, <2>5 DEF TimeType
<1>5. CASE Expire
  BY <1>5 DEF Expire, AtDeadline, TimeType
<1> QED  BY <1>1, <1>2, <1>3, <1>4, <1>5 DEF Others, Provider, Clock

LEMMA QuietCode ==
    ASSUME CodeType, UNCHANGED <<rows, job>>
    PROVE  CodeType'
  BY DEF CodeType

LEMMA LeaveCode ==
    ASSUME CodeType, NEW w \in Workers, Leave(w), UNCHANGED rows
    PROVE  CodeType'
  BY DEF CodeType, Leave

LEMMA ClaimCode ==
    ASSUME CodeType, NEW w \in Workers, Claim(w)
    PROVE  CodeType'
<1>1. rows' = rows  BY DEF Claim
<1>2. job' = job \/ (Candidates(w) # {} /\ job' = [job EXCEPT ![w] = NextEvent(w)])
  BY Zenon DEF Claim
<1>3. Candidates(w) # {} => NextEvent(w) \in Event
  BY NextEventTyped DEF Candidates
<1> QED  BY <1>1, <1>2, <1>3 DEF CodeType

LEMMA WorkerCode ==
    ASSUME CodeType, NEW w \in Workers, Lease(w) \/ Work(w) \/ Trouble(w)
    PROVE  CodeType'
<1>1. CASE Lease(w) \/ Lock(w)
  BY <1>1, QuietCode DEF Lease, Lock, dbVars
<1>2. CASE Trouble(w)
  BY <1>2, QuietCode, LeaveCode DEF Trouble, LockFails, CallFails, Crash, Cancelled, Keep, dbVars
<1>3. CASE Serve(w)
  BY <1>3, QuietCode, ClaimCode
     DEF Serve, IgnoreBlank, IgnoreOccupied, Complete, FailEvent, Acknowledge, Keep, CodeType
<1>4. CASE Append(w)
  BY <1>4 DEF Append, Keep, CodeType
<1>5. CASE Collect(w) /\ ~Append(w)
  BY <1>5, QuietCode DEF Collect, Examine, SaveLocal, Ensure, Sync, Keep, dbVars
<1>6. CASE AdvanceCycle(w)
  BY <1>6, QuietCode
     DEF AdvanceCycle, Advance, Ask, Reject, Accept, Bump, Checkpoint, Keep, dbVars
<1>7. CASE Settle(w)
  BY <1>7, QuietCode, LeaveCode
     DEF Settle, Transition, Wait, Conclude, Finish, Look, Release, Keep, dbVars
<1> QED  BY <1>1, <1>2, <1>3, <1>4, <1>5, <1>6, <1>7 DEF Work

LEMMA OthersAside ==
    ASSUME Others
    PROVE  UNCHANGED <<pc, gate, session, mem, rows, cycle, seen, job>>
  BY DEF Others, Provider, User, Clock, Issue, Ingest, IngestAgain, Click, Stop, Tick, Expire,
         LeaseExpires, Lapse, workVars, dbVars, rowVars

LockedTypes == TypeOK /\ LockInv

LEMMA WorkerLocked ==
    ASSUME LockedTypes, NEW w \in Workers, Lease(w) \/ Work(w) \/ Trouble(w)
    PROVE  LockedTypes'
<1>1. LockOk /\ RowType /\ TimeType /\ CodeType
  BY TypeParts DEF LockedTypes, LockOk
<1>2. seen[w].cycle \in Nat /\ cycle \in Nat
  BY <1>1 DEF RowType, Seen
<1>3. LockInv' /\ SessionType'
  BY <1>1, <1>2, ServeKeepsLock, SettleKeepsLock, RestKeepsLock, CollectKeepsLock,
     AdvanceKeepsLock DEF Work
<1>4. PcType'
  BY <1>1, WorkerMoves, GotoTyped DEF Moves, LockOk
<1>5. RowType' /\ TimeType' /\ CodeType'
  BY <1>1, WorkerRow, WorkerTime, WorkerCode
<1> QED  BY <1>3, <1>4, <1>5, TypeParts DEF LockedTypes, TypeOK, PcType, RowType, TimeType,
         CodeType, SessionType

LEMMA StepLocked ==
    ASSUME LockedTypes, [Next]_vars
    PROVE  LockedTypes'
<1>1. CASE UNCHANGED vars
  BY <1>1 DEF LockedTypes, TypeOK, LockInv, vars, dbVars, rowVars, leaseVars, workVars
<1>2. CASE Others
  <2>1. LockOk /\ RowType /\ TimeType /\ CodeType
    BY TypeParts DEF LockedTypes, LockOk
  <2>2. LockInv' /\ SessionType' /\ PcType'
    BY <1>2, <2>1, OthersAside, AsideKeepsLock DEF LockOk, PcType
  <2>3. RowType' /\ TimeType' /\ CodeType'
    BY <1>2, <2>1, OthersRow, OthersTime, OthersAside, QuietCode
  <2> QED  BY <2>2, <2>3 DEF LockedTypes, TypeOK, PcType, RowType, TimeType,
           CodeType, SessionType
<1> QED  BY <1>1, <1>2, WorkerLocked DEF Next, Others

LEMMA InitLocked == Init => LockedTypes
<1> SUFFICES ASSUME Init PROVE LockedTypes  OBVIOUS
<1>1. PcType  BY DEF Init, PcType, Place
<1>0. (cycle = 0 \/ cycle = 1) /\ (status = "pin_changed" \/ status = "subsequent")
  BY Zenon DEF Init
<1>2. RowType
  <2>1. status \in Statuses  BY <1>0 DEF Statuses
  <2>2. NotSeen \in Seen  BY DEF NotSeen, Seen, Controls
  <2>3. seen \in [Workers -> Seen]  BY <2>2 DEF Init
  <2>4. control \in Controls /\ holder = NoWorker /\ gate = NoWorker
    BY DEF Init, Controls
  <2>5. lapsed \in BOOLEAN  BY Zenon DEF Init
  <2>6. cycle \in Nat  BY <1>0
  <2> QED  BY <2>1, <2>3, <2>4, <2>5, <2>6, Zenon DEF RowType
<1>3. TimeType
  BY DEF Init, TimeType, Now, Soon, Late, Never, Fresh, InboxEvent
<1>4. CodeType  BY DEF Init, CodeType
<1>5. SessionType
  <2>1. [cycle |-> cycle, request |-> "none"] \in Session  BY <1>0 DEF Session, Requests
  <2>2. NoSession \in Session  BY DEF NoSession, Session, Requests
  <2>3. mem \in [Workers -> Session]  BY <2>2 DEF Init
  <2> QED  BY <2>1, <2>3 DEF Init, SessionType
<1>6. LockInv  BY DEF Init, LockInv, Unlocked, Copied
<1> QED  BY <1>1, <1>2, <1>3, <1>4, <1>5, <1>6, TypeParts DEF LockedTypes

(* Types and the session lock, the invariant that the rest builds on.       *)
THEOREM LockedTypesHold == Spec => []LockedTypes
  BY InitLocked, StepLocked, PTL DEF Spec

(* TypeOK: every column, queue and worker keeps its type.                   *)
THEOREM InboxTypeCorrect == Spec => []TypeOK
<1>1. LockedTypes => TypeOK  BY DEF LockedTypes
<1> QED  BY <1>1, LockedTypesHold, PTL

(* LockInv: under the account session lock a worker's copy of the session   *)
(* is the stored one.                                                       *)
THEOREM CopyIsCurrent == Spec => []LockInv
<1>1. LockedTypes => LockInv  BY DEF LockedTypes
<1> QED  BY <1>1, LockedTypesHold, PTL

(* AskIsRecorded: status=3 reaches the provider only while the stored       *)
(* session says that it is being dispatched.                                *)
THEOREM AskOnlyRecorded == Spec => AskIsRecorded
<1>1. ASSUME NEW w \in Workers, Lease(w) \/ Work(w) \/ Trouble(w), ~Ask(w)
      PROVE  unread' = unread
  <2>1. CASE Lease(w) \/ Lock(w) \/ Trouble(w)
    BY <2>1 DEF Lease, Lock, Trouble, LockFails, CallFails, Crash, Cancelled, worldVars
  <2>2. CASE Serve(w)
    BY <2>2 DEF Serve, Claim, IgnoreBlank, IgnoreOccupied, Complete, FailEvent, Acknowledge, worldVars
  <2>3. CASE Collect(w)
    BY <2>3 DEF Collect, Examine, Append, SaveLocal, Ensure, Sync, worldVars
  <2>4. CASE AdvanceCycle(w)
    BY <1>1, <2>4 DEF AdvanceCycle, Advance, Reject, Accept, Bump, Checkpoint, worldVars
  <2>5. CASE Settle(w)
    BY <2>5 DEF Settle, Transition, Wait, Conclude, Finish, Look, Release, worldVars
  <2> QED  BY <1>1, <2>1, <2>2, <2>3, <2>4, <2>5 DEF Work
<1>2. ASSUME Others, unread
      PROVE  unread'
  BY <1>2 DEF Others, Provider, User, Clock, Issue, Ingest, IngestAgain, Click, Stop, Tick, Expire,
     LeaseExpires, Lapse, worldVars
<1>3. ASSUME LockInv, [Next]_vars, unread, ~unread'
      PROVE  session.request = "dispatching"
  <2>1. \E w \in Workers : Ask(w)
    BY <1>1, <1>2, <1>3 DEF Next, Others, vars, worldVars
  <2> QED  BY <1>3, <2>1 DEF Ask, LockInv
<1>4. LockInv /\ [Next]_vars => [unread /\ ~unread' => session.request = "dispatching"]_vars
  BY <1>3
<1> QED  BY <1>4, CopyIsCurrent, PTL DEF Spec, AskIsRecorded

-----------------------------------------------------------------------------
(* The cycle and its code *)

LEMMA CyclesAreNumbers == Cycle = 0..(MaxEvents + 1) /\ MaxEvents \in Nat
  BY InboxBounds DEF Cycle

(* As many distinct codes as there are full cycles: none is left for a       *)
(* cycle above the bound.                                                   *)
LEMMA RoomForCycle ==
    ASSUME CodeType, RowsInOrder, cycle \in Cycle, rows[cycle] # NoEvent
    PROVE  cycle + 1 \in Cycle
<1> DEFINE Full == 0..cycle
           Code == Event \cup {PinCode}
           f == [c \in Full |-> rows[c]]
<1>1. cycle \in Nat /\ cycle <= MaxEvents + 1 /\ MaxEvents \in Nat
  BY CyclesAreNumbers
<1>2. Full \subseteq Cycle  BY <1>1, CyclesAreNumbers
<1>3. \A c \in Full : rows[c] # NoEvent
  BY <1>1, <1>2, CyclesAreNumbers DEF RowsInOrder
<1>4. f \in [Full -> Code]
  BY <1>2, <1>3 DEF CodeType
<1>5. IsFiniteSet(Full) /\ Cardinality(Full) = cycle + 1
  BY <1>1, FS_Interval
<1>6. IsFiniteSet(Code) /\ Cardinality(Code) <= MaxEvents + 1
  <2>1. IsFiniteSet(Event) /\ Cardinality(Event) = MaxEvents
    BY <1>1, FS_Interval DEF Event
  <2> QED  BY <1>1, <2>1, FS_AddElement
<1>7. \A c, d \in Full : f[c] = f[d] => c = d
  BY <1>2, <1>3 DEF RowsInOrder
<1> HIDE DEF Full, Code, f
<1>8. ~(Cardinality(Code) < Cardinality(Full))
  BY <1>4, <1>5, <1>6, <1>7, FS_PigeonHole
<1>9. Cardinality(Code) \in Nat  BY <1>6, FS_CardinalityType
<1> QED  BY <1>1, <1>5, <1>6, <1>8, <1>9, CyclesAreNumbers

LEMMA OtherOnCycle ==
    ASSUME NEW v \in Workers, OwnCycle(v), pc'[v] = pc[v], seen'[v] = seen[v], job'[v] = job[v],
           holder' = v => holder = v,
           cycle' = cycle \/ holder # v,
           rows' = rows \/ pc[v] # "append",
           Taken \subseteq Taken'
    PROVE  OwnCycle(v)'
<1>1. CASE rows' = rows
  BY <1>1 DEF OwnCycle, RowOf
<1>2. CASE pc[v] # "append"
  BY <1>2 DEF OwnCycle
<1> QED  BY <1>1, <1>2

(* A step of w that changes neither cycle nor rows.                         *)
LEMMA StepOnCycle ==
    ASSUME PcType, CycleInv, NEW w \in Workers, NEW p, Goto(w, p), UNCHANGED <<cycle, rows>>,
           \A v \in Workers \ {w} : seen'[v] = seen[v] /\ job'[v] = job[v],
           holder' \in {holder, NoWorker, w},
           OwnCycle(w)'
    PROVE  CycleInv'
<1>1. RowsInOrder' /\ cycle' \in Cycle
  BY DEF CycleInv, RowsInOrder
<1>2. ASSUME NEW v \in Workers \ {w} PROVE OwnCycle(v)'
  <2>1. pc'[v] = pc[v]  BY DEF PcType, Goto
  <2>2. holder' = v => holder = v  BY InboxNulls
  <2>3. Taken' = Taken  BY DEF Taken
  <2> QED  BY <2>1, <2>2, <2>3, OtherOnCycle DEF CycleInv
<1> QED  BY <1>1, <1>2 DEF CycleInv

LEMMA OffCycle ==
    ASSUME PcType, NEW w \in Workers, NEW p, p \notin OnCycle, Goto(w, p), seen'[w].cycle \in Cycle
    PROVE  OwnCycle(w)'
<1>1. pc'[w] \notin OnCycle  BY DEF PcType, Goto
<1> QED  BY <1>1 DEF OwnCycle, OnCycle, Advancing

LEMMA OnwardOnCycle ==
    ASSUME PcType, NEW w \in Workers, NEW p, OwnCycle(w), Goto(w, p), pc[w] \in OnCycle,
           UNCHANGED <<cycle, holder>>, seen'[w] = seen[w],
           p \in {"examine", "append"} => job'[w] \in Event,
           p = "append" => RowOf(job[w])' = {},
           p \in Advancing => \E c \in Taken' : c >= seen[w].cycle
    PROVE  OwnCycle(w)'
<1>1. pc'[w] = p  BY DEF PcType, Goto
<1> QED  BY <1>1 DEF OwnCycle

LEMMA ZeroInCycle == 0 \in Cycle
  BY CyclesAreNumbers

LEMMA LeaveOnCycle ==
    ASSUME LockedTypes, CycleInv, NEW w \in Workers, Leave(w), UNCHANGED <<cycle, rows>>,
           holder' \in {holder, NoWorker, w}
    PROVE  CycleInv'
<1>1. PcType /\ seen \in [Workers -> Seen] /\ job \in [Workers -> Event \cup {NoEvent}]
  BY DEF LockedTypes, TypeOK, PcType
<1>2. /\ seen'[w] = NotSeen
      /\ \A v \in Workers \ {w} : seen'[v] = seen[v] /\ job'[v] = job[v]
  BY <1>1 DEF Leave
<1>3. Goto(w, "idle") /\ "idle" \notin OnCycle  BY DEF Leave, OnCycle, Advancing
<1>0. NotSeen.cycle = 0  BY DEF NotSeen
<1>4. seen'[w].cycle \in Cycle  BY <1>0, <1>2, ZeroInCycle
<1>5. OwnCycle(w)'  BY <1>1, <1>3, <1>4, OffCycle
<1> QED  BY <1>1, <1>2, <1>3, <1>5, StepOnCycle

LEMMA AsideOnCycle ==
    ASSUME LockedTypes, CycleInv, NEW w \in Workers, NEW p, p \notin OnCycle, Goto(w, p),
           UNCHANGED <<cycle, rows, seen, job>>,
           holder' \in {holder, NoWorker, w}
    PROVE  CycleInv'
<1>1. PcType  BY DEF LockedTypes, TypeOK, PcType
<1>2. OwnCycle(w)'  BY <1>1, OffCycle DEF CycleInv, OwnCycle
<1> QED  BY <1>1, <1>2, StepOnCycle

LEMMA LeaseOnCycle ==
    ASSUME LockedTypes, CycleInv, NEW w \in Workers, Lease(w)
    PROVE  CycleInv'
<1>1. PcType /\ seen \in [Workers -> Seen]  BY DEF LockedTypes, TypeOK, PcType
<1>2. Goto(w, "lock") /\ UNCHANGED <<cycle, rows, job>> /\ holder' = w  BY DEF Lease
<1>3. \E st \in Statuses : \E co \in Controls :
          seen' = [seen EXCEPT ![w] = [status |-> st, control |-> co, cycle |-> cycle]]
  BY DEF Lease, LockedTypes, TypeOK
<1>4. seen'[w].cycle = cycle /\ \A v \in Workers \ {w} : seen'[v] = seen[v]
  BY <1>1, <1>3
<1>5. pc'[w] = "lock"  BY <1>1, <1>2 DEF PcType, Goto
<1>6. OwnCycle(w)'
  BY <1>2, <1>4, <1>5 DEF OwnCycle, CycleInv, Advancing
<1> QED  BY <1>1, <1>2, <1>4, <1>6, StepOnCycle

LEMMA LockOnCycle ==
    ASSUME LockedTypes, CycleInv, NEW w \in Workers, Lock(w)
    PROVE  CycleInv'
<1>1. PcType  BY DEF LockedTypes, TypeOK, PcType
<1>2. /\ Goto(w, Branch(w)) /\ pc[w] = "lock"
      /\ UNCHANGED <<cycle, rows, job, seen, holder>>
  BY DEF Lock, dbVars, rowVars, leaseVars
<1>3. Branch(w) \notin Advancing \cup {"examine", "append"}  BY DEF Branch, Advancing
<1>4. OwnCycle(w)'
  BY <1>1, <1>2, <1>3, OnwardOnCycle DEF CycleInv, OnCycle
<1> QED  BY <1>1, <1>2, <1>4, StepOnCycle

LEMMA ServeOnCycle ==
    ASSUME LockedTypes, CycleInv, NEW w \in Workers, Serve(w)
    PROVE  CycleInv'
<1>1. PcType /\ job \in [Workers -> Event \cup {NoEvent}]
  BY DEF LockedTypes, TypeOK, PcType
<1>2. UNCHANGED <<cycle, rows, seen, holder>>
  BY DEF Serve, Claim, IgnoreBlank, IgnoreOccupied, Complete, FailEvent, Acknowledge, Keep
<1>3. CASE Claim(w)
  <2>1. pc[w] = "claim"  BY <1>3 DEF Claim
  <2>2. CASE UNCHANGED job /\ \E p \in {"ensure", "error", "fail"} : Goto(w, p)
    <3>1. PICK p \in {"ensure", "error", "fail"} : Goto(w, p)  BY <2>2
    <3>2. OwnCycle(w)'
      BY <1>1, <1>2, <2>1, <3>1, OnwardOnCycle DEF CycleInv, OnCycle, Advancing
    <3> QED  BY <1>1, <1>2, <2>2, <3>1, <3>2, StepOnCycle
  <2>3. CASE /\ Candidates(w) # {} /\ job' = [job EXCEPT ![w] = NextEvent(w)]
             /\ \E p \in {"blank", "examine"} : Goto(w, p)
    <3>1. PICK p \in {"blank", "examine"} : Goto(w, p)  BY <2>3
    <3>2. NextEvent(w) \in Event  BY <2>3, NextEventTyped DEF Candidates
    <3>3. job'[w] \in Event /\ \A v \in Workers \ {w} : job'[v] = job[v]
      BY <1>1, <2>3, <3>2
    <3>4. OwnCycle(w)'
      BY <1>1, <1>2, <2>1, <3>1, <3>3, OnwardOnCycle DEF CycleInv, OnCycle, Advancing
    <3> QED  BY <1>1, <1>2, <3>1, <3>3, <3>4, StepOnCycle
  <2>4. \/ UNCHANGED job /\ (Answered(w, "ensure") \/ Goto(w, "error"))
        \/ /\ Candidates(w) # {} /\ job' = [job EXCEPT ![w] = NextEvent(w)]
           /\ \E p \in {"blank", "examine"} : Goto(w, p)
    <3>1. (IF NextEvent(w) \in blank THEN "blank" ELSE "examine") \in {"blank", "examine"}
      OBVIOUS
    <3> QED  BY <1>3, <3>1, Zenon DEF Claim
  <2> QED  BY <2>2, <2>3, <2>4, AnsweredGoes
<1>4. CASE IgnoreBlank(w)
  <2>1. pc[w] = "blank" /\ job' = [job EXCEPT ![w] = NoEvent]  BY <1>4 DEF IgnoreBlank
  <2>2. \E p \in {"claim", "wait_now", "error", "fail"} : Goto(w, p)
    BY <1>4, AnsweredGoes DEF IgnoreBlank, Acknowledge
  <2>3. PICK p \in {"claim", "wait_now", "error", "fail"} : Goto(w, p)  BY <2>2
  <2>4. \A v \in Workers \ {w} : job'[v] = job[v]  BY <1>1, <2>1
  <2>5. OwnCycle(w)'
    BY <1>1, <1>2, <2>1, <2>3, OnwardOnCycle DEF CycleInv, OnCycle, Advancing
  <2> QED  BY <1>1, <1>2, <2>3, <2>4, <2>5, StepOnCycle
<1>5. CASE IgnoreOccupied(w) \/ Complete(w) \/ FailEvent(w)
  <2>1. UNCHANGED job  BY <1>5 DEF IgnoreOccupied, Complete, FailEvent, Keep
  <2>2. \E p \in {"look", "wait", "error", "fail"} : Goto(w, p)
    BY <1>5, AnsweredGoes DEF IgnoreOccupied, Complete, FailEvent, Acknowledge
  <2>3. PICK p \in {"look", "wait", "error", "fail"} : Goto(w, p)  BY <2>2
  <2>4. p \notin OnCycle  BY DEF OnCycle, Advancing
  <2> QED  BY <1>2, <2>1, <2>3, <2>4, AsideOnCycle
<1> QED  BY <1>3, <1>4, <1>5 DEF Serve

LEMMA AppendOnCycle ==
    ASSUME LockedTypes, CycleInv, NEW w \in Workers, Append(w), OwnsLease(w)
    PROVE  /\ CycleInv'
           /\ rows' = rows \/ /\ rows[cycle] = NoEvent /\ job[w] \in Event
                              /\ \A c \in Cycle : rows[c] # job[w]
                              /\ rows' = [rows EXCEPT ![cycle] = job[w]]
<1>1. /\ PcType /\ job \in [Workers -> Event \cup {NoEvent}]
      /\ rows \in [Cycle -> Event \cup {PinCode, NoEvent}]
  BY DEF LockedTypes, TypeOK, PcType
<1>2. /\ pc[w] = "append" /\ holder = w
      /\ UNCHANGED <<cycle, seen, job, holder>>
  BY DEF Append, Keep, OwnsLease, rowVars, leaseVars
<1>3. /\ seen[w].cycle = cycle /\ cycle \in Cycle
      /\ job[w] \in Event /\ RowOf(job[w]) = {}
  BY <1>2 DEF CycleInv, OwnCycle, OnCycle
<1>4. rows' = [rows EXCEPT ![cycle] = IF @ = NoEvent THEN job[w] ELSE @]
  BY <1>3 DEF Append
<1>5. \A c \in Cycle : rows[c] # job[w]  BY <1>3 DEF RowOf
<1>6. \/ rows[cycle] = NoEvent /\ rows' = [rows EXCEPT ![cycle] = job[w]]
      \/ rows[cycle] # NoEvent /\ rows' = rows
  BY <1>1, <1>3, <1>4
<1>7. RowsInOrder'
  <2>1. CASE rows' = rows  BY <1>2, <2>1 DEF CycleInv, RowsInOrder
  <2>2. CASE rows' = [rows EXCEPT ![cycle] = job[w]]
    <3>1. rows'[cycle] = job[w] /\ \A c \in Cycle \ {cycle} : rows'[c] = rows[c]
      BY <1>1, <1>3, <2>2
    <3>2. \A c \in Cycle : c > cycle \/ c < cycle => c # cycle
      BY CyclesAreNumbers, <1>3
    <3> QED  BY <1>2, <1>3, <1>5, <3>1, <3>2, InboxNulls DEF CycleInv, RowsInOrder
  <2> QED  BY <1>6, <2>1, <2>2
<1>8. Taken \subseteq Taken' /\ rows'[cycle] # NoEvent
  BY <1>1, <1>3, <1>6, InboxNulls DEF Taken
<1>9. \E p \in {"advance", "fail", "error"} : Goto(w, p)
  BY AnsweredGoes DEF Append, OwnsLease
<1>10. PICK p \in {"advance", "fail", "error"} : Goto(w, p)  BY <1>9
<1>11. OwnCycle(w)'
  <2>1. cycle \in Taken' /\ cycle >= seen[w].cycle
    BY <1>3, <1>8, CyclesAreNumbers DEF Taken
  <2> QED  BY <1>1, <1>2, <1>10, <2>1, OnwardOnCycle DEF CycleInv, OnCycle
<1>12. ASSUME NEW v \in Workers \ {w} PROVE OwnCycle(v)'
  <2>1. gate = w  BY <1>2 DEF LockedTypes, LockInv, Unlocked
  <2>2. pc[v] # "append"  BY <2>1 DEF LockedTypes, LockInv, Unlocked
  <2>3. pc'[v] = pc[v]  BY <1>1, <1>10 DEF PcType, Goto
  <2> QED  BY <1>2, <1>8, <2>2, <2>3, OtherOnCycle DEF CycleInv
<1> QED  BY <1>2, <1>3, <1>5, <1>6, <1>7, <1>11, <1>12 DEF CycleInv

LEMMA CollectOnCycle ==
    ASSUME LockedTypes, CycleInv, NEW w \in Workers, Collect(w)
    PROVE  CycleInv'
<1>1. PcType  BY DEF LockedTypes, TypeOK, PcType
<1>2. CASE Examine(w)
  <2>1. /\ pc[w] = "examine" /\ Goto(w, AfterExamine(w))
        /\ UNCHANGED <<cycle, rows, job, seen, holder>>
    BY <1>2 DEF Examine, dbVars, rowVars, leaseVars
  <2>2. job[w] \in Event /\ seen[w].cycle \in Cycle  BY <2>1 DEF CycleInv, OwnCycle
  <2>3. AfterExamine(w) = "append" => RowOf(job[w])' = {}
    BY <2>1 DEF AfterExamine, RowOf
  <2>4. AfterExamine(w) \in Advancing => \E c \in Taken' : c >= seen[w].cycle
    <3>1. SUFFICES ASSUME AfterExamine(w) \in Advancing
                   PROVE  \E c \in Taken' : c >= seen[w].cycle
      OBVIOUS
    <3>2. \E c \in RowOf(job[w]) : ~(c < seen[w].cycle)
      BY <3>1 DEF AfterExamine, Advancing
    <3>3. PICK c \in RowOf(job[w]) : ~(c < seen[w].cycle)  BY <3>2
    <3>4. c \in Taken' /\ c \in Cycle
      BY <2>1, <2>2, InboxNulls DEF RowOf, Taken
    <3> QED  BY <2>2, <3>3, <3>4, CyclesAreNumbers
  <2>5. OwnCycle(w)'
    BY <1>1, <2>1, <2>2, <2>3, <2>4, OnwardOnCycle DEF CycleInv, OnCycle
  <2> QED  BY <1>1, <2>1, <2>5, StepOnCycle
<1>3. CASE Append(w) /\ ~OwnsLease(w)
  <2>1. Goto(w, "fail") /\ UNCHANGED <<cycle, rows, seen, job, holder>>
    BY <1>3 DEF Append, Keep, rowVars, leaseVars
  <2> QED  BY <2>1, AsideOnCycle DEF OnCycle, Advancing
<1>4. CASE SaveLocal(w) \/ Sync(w)
  <2>1. UNCHANGED <<cycle, rows, seen, job, holder>>
    BY <1>4 DEF SaveLocal, Sync, Keep, rowVars, leaseVars
  <2>2. \E p \in {"complete", "transition", "wait", "fail", "error"} : Goto(w, p)
    BY <1>4, AnsweredGoes DEF SaveLocal, Sync, AfterEnsure
  <2>3. PICK p \in {"complete", "transition", "wait", "fail", "error"} : Goto(w, p)
    BY <2>2
  <2> QED  BY <2>1, <2>3, AsideOnCycle DEF OnCycle, Advancing
<1>5. CASE Ensure(w)
  <2>1. /\ pc[w] = "ensure" /\ Goto(w, AfterNone(w))
        /\ UNCHANGED <<cycle, rows, job, seen, holder>>
    BY <1>5 DEF Ensure, dbVars, rowVars, leaseVars
  <2>2. seen[w].cycle \in Cycle  BY DEF CycleInv, OwnCycle
  <2>3. AfterNone(w) \notin {"examine", "append"}  BY DEF AfterNone
  <2>4. AfterNone(w) \in Advancing => \E c \in Taken' : c >= seen[w].cycle
    <3>1. SUFFICES ASSUME AfterNone(w) \in Advancing
                   PROVE  \E c \in Taken' : c >= seen[w].cycle
      OBVIOUS
    <3>2. \E c \in Taken : ~(c < seen[w].cycle)
      BY <3>1 DEF AfterNone, Advancing
    <3> QED  BY <2>1, <2>2, <3>2, CyclesAreNumbers DEF Taken
  <2>5. OwnCycle(w)'
    BY <1>1, <2>1, <2>3, <2>4, OnwardOnCycle DEF CycleInv, OnCycle
  <2> QED  BY <1>1, <2>1, <2>5, StepOnCycle
<1> QED  BY <1>2, <1>3, <1>4, <1>5, AppendOnCycle DEF Collect

LEMMA BumpOnCycle ==
    ASSUME LockedTypes, CycleInv, NEW w \in Workers, Bump(w), OwnsLease(w)
    PROVE  CycleInv' /\ cycle' = cycle + 1 /\ rows' = rows /\ rows[cycle] # NoEvent
<1>1. PcType /\ CodeType  BY DEF LockedTypes, TypeOK, PcType, CodeType
<1>2. /\ pc[w] = "bump" /\ holder = w /\ cycle' = cycle + 1
      /\ UNCHANGED <<rows, seen, job, holder>>
  BY DEF Bump, OwnsLease
<1>3. /\ cycle \in Cycle /\ seen[w].cycle = cycle
      /\ \E c \in Taken : c >= seen[w].cycle
  BY <1>2 DEF CycleInv, OwnCycle, OnCycle, Advancing
<1>4. rows[cycle] # NoEvent
  <2>1. PICK c \in Cycle : rows[c] # NoEvent /\ c >= cycle  BY <1>3 DEF Taken
  <2>2. c = cycle  BY <1>3, <2>1, CyclesAreNumbers DEF CycleInv, RowsInOrder
  <2> QED  BY <2>1, <2>2
<1>5. cycle' \in Cycle  BY <1>1, <1>2, <1>3, <1>4, RoomForCycle DEF CycleInv
<1>6. RowsInOrder'
  <2>1. \A c \in Cycle : /\ c < cycle + 1 => c < cycle \/ c = cycle
                         /\ c > cycle + 1 => c > cycle
    BY <1>3, CyclesAreNumbers
  <2> QED  BY <1>2, <1>4, <2>1 DEF CycleInv, RowsInOrder
<1>7. \E p \in {"checkpoint", "fail", "error"} : Goto(w, p)
  BY AnsweredGoes DEF Bump, OwnsLease
<1>8. PICK p \in {"checkpoint", "fail", "error"} : Goto(w, p)  BY <1>7
<1>9. OwnCycle(w)'
  BY <1>1, <1>2, <1>8, OffCycle DEF CycleInv, OwnCycle, OnCycle, Advancing
<1>10. ASSUME NEW v \in Workers \ {w} PROVE OwnCycle(v)'
  <2>1. pc'[v] = pc[v]  BY <1>1, <1>8 DEF PcType, Goto
  <2> QED  BY <1>2, <2>1, OtherOnCycle DEF CycleInv, Taken
<1> QED  BY <1>2, <1>4, <1>5, <1>6, <1>9, <1>10 DEF CycleInv

LEMMA AdvanceOnCycle ==
    ASSUME LockedTypes, CycleInv, NEW w \in Workers, AdvanceCycle(w)
    PROVE  CycleInv'
<1>1. PcType  BY DEF LockedTypes, TypeOK, PcType
<1>2. CASE Advance(w) \/ Ask(w) \/ Accept(w)
  <2>1. pc[w] \in Advancing /\ UNCHANGED <<cycle, rows, seen, job, holder>>
    BY <1>2 DEF Advance, Ask, Accept, Keep, dbVars, rowVars, leaseVars, Advancing
  <2>2. \E p \in {"ask", "ask_again", "accept", "bump", "reject", "fail", "error"} : Goto(w, p)
    BY <1>2, AnsweredGoes DEF Advance, Ask, Accept
  <2>3. PICK p \in {"ask", "ask_again", "accept", "bump", "reject", "fail", "error"} : Goto(w, p)
    BY <2>2
  <2>4. OwnCycle(w) /\ \E c \in Taken' : c >= seen[w].cycle
    BY <2>1 DEF CycleInv, OwnCycle, Taken
  <2>5. OwnCycle(w)'
    BY <1>1, <2>1, <2>3, <2>4, OnwardOnCycle DEF OnCycle
  <2> QED  BY <1>1, <2>1, <2>3, <2>5, StepOnCycle
<1>3. CASE Reject(w) \/ Checkpoint(w) \/ (Bump(w) /\ ~OwnsLease(w))
  <2>1. UNCHANGED <<cycle, rows, seen, job, holder>>
    BY <1>3 DEF Reject, Checkpoint, Bump, Keep, rowVars, leaseVars
  <2>2. \E p \in {"complete", "transition", "wait", "fail", "error"} : Goto(w, p)
    BY <1>3, AnsweredGoes, OnErrorPlace DEF Reject, Checkpoint, Bump, AfterEnsure
  <2>3. PICK p \in {"complete", "transition", "wait", "fail", "error"} : Goto(w, p)
    BY <2>2
  <2> QED  BY <2>1, <2>3, AsideOnCycle DEF OnCycle, Advancing
<1> QED  BY <1>2, <1>3, BumpOnCycle DEF AdvanceCycle

LEMMA SettleOnCycle ==
    ASSUME LockedTypes, CycleInv, NEW w \in Workers, Settle(w) \/ Trouble(w)
    PROVE  CycleInv'
<1>1. UNCHANGED <<cycle, rows>> /\ holder' \in {holder, NoWorker, w}
  BY DEF Settle, Transition, Wait, Conclude, Finish, Look, Release, Unleased, Trouble, LockFails,
     CallFails, Crash, Cancelled, dbVars, rowVars, leaseVars
<1>2. CASE Leave(w)  BY <1>1, <1>2, LeaveOnCycle
<1>3. CASE /\ UNCHANGED <<seen, job>>
           /\ \E p \in {"wait", "look", "finish", "finish_expired", "release", "fail", "error"} :
                 Goto(w, p)
  <2>1. PICK p \in {"wait", "look", "finish", "finish_expired", "release", "fail", "error"} :
            Goto(w, p)
    BY <1>3
  <2>2. p \notin OnCycle  BY DEF OnCycle, Advancing
  <2> QED  BY <1>1, <1>3, <2>1, <2>2, AsideOnCycle
<1>4. CASE Settle(w)
  BY <1>2, <1>3, <1>4, AnsweredGoes
     DEF Settle, Transition, Wait, Conclude, Finish, Look, Release, Keep
<1>5. CASE Trouble(w)
  BY <1>2, <1>3, <1>5, OnErrorPlace DEF Trouble, LockFails, CallFails, Crash, Cancelled, Keep
<1> QED  BY <1>4, <1>5

LEMMA OthersOnCycle ==
    ASSUME LockedTypes, CycleInv, Others
    PROVE  CycleInv'
<1>1. UNCHANGED <<pc, rows, cycle, seen, job>>  BY OthersAside
<1>2. holder' \in {holder, NoWorker}
  BY DEF Others, Provider, User, Clock, Issue, Ingest, IngestAgain, Click, Stop, Unleased, Tick,
     Expire, LeaseExpires, Lapse, dbVars, rowVars, leaseVars
<1>3. ASSUME NEW v \in Workers PROVE OwnCycle(v)'
  <2>1. holder' = v => holder = v  BY <1>2, InboxNulls
  <2> QED  BY <1>1, <2>1, OtherOnCycle DEF CycleInv, Taken
<1> QED  BY <1>1, <1>3 DEF CycleInv, RowsInOrder

InboxInv == LockedTypes /\ CycleInv

LEMMA InitOnCycle == Init => CycleInv
<1> SUFFICES ASSUME Init PROVE CycleInv  OBVIOUS
<1>1. cycle = 0 \/ cycle = 1  BY Zenon DEF Init
<1>2. cycle \in Cycle /\ 0 \in Cycle  BY <1>1, CyclesAreNumbers
<1>3. rows = [c \in Cycle |-> IF c = 0 THEN PinCode ELSE NoEvent]  BY DEF Init
<1>4. RowsInOrder  BY <1>1, <1>3, CyclesAreNumbers, InboxNulls DEF RowsInOrder
<1>5. ASSUME NEW w \in Workers PROVE OwnCycle(w)
  <2>1. NotSeen.cycle = 0  BY DEF NotSeen
  <2>2. seen[w] = NotSeen /\ pc[w] = "idle"  BY DEF Init
  <2> QED  BY <1>2, <2>1, <2>2 DEF OwnCycle, OnCycle, Advancing
<1> QED  BY <1>2, <1>4, <1>5 DEF CycleInv

LEMMA StepOnInbox ==
    ASSUME InboxInv, [Next]_vars
    PROVE  InboxInv'
<1>1. LockedTypes'  BY StepLocked DEF InboxInv
<1>2. CASE UNCHANGED vars
  BY <1>1, <1>2 DEF InboxInv, CycleInv, RowsInOrder, OwnCycle, Taken, RowOf, vars, dbVars, rowVars,
     leaseVars, workVars
<1>3. ASSUME NEW w \in Workers, Lease(w) \/ Work(w) \/ Trouble(w)
      PROVE  CycleInv'
  BY <1>3, LeaseOnCycle, LockOnCycle, ServeOnCycle, CollectOnCycle, AdvanceOnCycle, SettleOnCycle
     DEF InboxInv, Work
<1>4. CASE Others
  BY <1>1, <1>4, OthersOnCycle DEF InboxInv
<1> QED  BY <1>1, <1>2, <1>3, <1>4 DEF InboxInv, Next, Others

(* The inductive invariant: types, the session lock, the cycles in order.   *)
THEOREM InboxInvariance == Spec => []InboxInv
<1>1. Init => InboxInv  BY InitLocked, InitOnCycle DEF InboxInv
<1> QED  BY <1>1, StepOnInbox, PTL DEF Spec

(* CycleInv: the cycles fill in order, each with a code of its own, and the *)
(* worker with the lease is on the current one.                             *)
THEOREM CyclesInOrder == Spec => []CycleInv
<1>1. InboxInv => CycleInv  BY DEF InboxInv
<1> QED  BY <1>1, InboxInvariance, PTL

-----------------------------------------------------------------------------
(* The refinement of CodeLog *)

(* Most steps stutter on the log: they change no row and no cycle, and leave *)
(* the activation open or closed.                                           *)
Unlogged == UNCHANGED <<rows, cycle>> /\ Open' = Open
LogStep == Log!Open \/ Log!Close \/ (\E c \in Event \cup {PinCode} : Log!Show(c)) \/ Unlogged

LEMMA StatusKept ==
    ASSUME UNCHANGED <<status, rows, cycle>>
    PROVE  Unlogged
  BY DEF Unlogged, Open

LEMMA WorkerLogs ==
    ASSUME InboxInv, NEW w \in Workers, Lease(w) \/ Work(w) \/ Trouble(w)
    PROVE  LogStep
<1>1. CASE Append(w)
  <2>1. Open' = Open /\ cycle' = cycle  BY <1>1 DEF Append, Open, rowVars
  <2>2. CASE rows' = rows  BY <2>1, <2>2 DEF LogStep, Unlogged
  <2>3. CASE OwnsLease(w) /\ rows' # rows
    <3>1. /\ rows[cycle] = NoEvent /\ job[w] \in Event
          /\ \A c \in Cycle : rows[c] # job[w]
          /\ rows' = [rows EXCEPT ![cycle] = job[w]]
      BY <1>1, <2>3, AppendOnCycle DEF InboxInv
    <3>2. Open /\ cycle \in Cycle  BY <2>3 DEF OwnsLease, InboxInv, CycleInv
    <3>3. Log!Show(job[w])  BY <2>1, <3>1, <3>2 DEF Log!Show
    <3> QED  BY <3>1, <3>3 DEF LogStep
  <2> QED  BY <1>1, <2>2, <2>3 DEF Append
<1>2. CASE Bump(w)
  <2>1. Open' = Open /\ rows' = rows  BY <1>2 DEF Bump, Open
  <2>2. CASE cycle' = cycle  BY <2>1, <2>2 DEF LogStep, Unlogged
  <2>3. CASE OwnsLease(w)
    <3>1. cycle' = cycle + 1 /\ rows[cycle] # NoEvent  BY <1>2, <2>3, BumpOnCycle DEF InboxInv
    <3>2. Open /\ cycle \in Cycle  BY <2>3 DEF OwnsLease, InboxInv, CycleInv
    <3>3. Log!Open  BY <2>1, <3>1, <3>2 DEF Log!Open
    <3> QED  BY <3>3 DEF LogStep
  <2> QED  BY <1>2, <2>2, <2>3 DEF Bump
<1>3. CASE Finish(w)
  <2>1. UNCHANGED <<rows, cycle>>  BY <1>3 DEF Finish
  <2>2. CASE status' = status  BY <2>1, <2>2, StatusKept DEF LogStep
  <2>3. CASE status' = End(w)
    <3>1. ~Open'  BY <2>3 DEF End, Open, Finished
    <3>2. Log!Close  BY <2>1, <3>1 DEF Log!Close
    <3> QED  BY <3>2 DEF LogStep
  <2> QED  BY <1>3, <2>2, <2>3 DEF Finish
<1>4. CASE Transition(w)
  <2>1. UNCHANGED <<rows, cycle>>  BY <1>4 DEF Transition
  <2>2. status' = status \/ (status = "pin_changed" /\ status' = "subsequent")
    BY <1>4 DEF Transition
  <2>3. Open' = Open  BY <2>2 DEF Open, Finished
  <2> QED  BY <2>1, <2>3 DEF LogStep, Unlogged
<1>5. CASE Lease(w) \/ Lock(w) \/ Trouble(w)
  BY <1>5, StatusKept
     DEF LogStep, Lease, Lock, Trouble, LockFails, CallFails, Crash, Cancelled, dbVars, rowVars
<1>6. CASE Serve(w)
  BY <1>6, StatusKept
     DEF LogStep, Serve, Claim, IgnoreBlank, IgnoreOccupied, Complete, FailEvent, Acknowledge
<1>7. CASE Collect(w) /\ ~Append(w)
  BY <1>7, StatusKept DEF LogStep, Collect, Examine, SaveLocal, Ensure, Sync, dbVars, rowVars
<1>8. CASE AdvanceCycle(w) /\ ~Bump(w)
  BY <1>8, StatusKept
     DEF LogStep, AdvanceCycle, Advance, Ask, Reject, Accept, Checkpoint, dbVars, rowVars
<1>9. CASE Settle(w) /\ ~Finish(w) /\ ~Transition(w)
  BY <1>9, StatusKept DEF LogStep, Settle, Wait, Conclude, Look, Release, dbVars, rowVars
<1> QED  BY <1>1, <1>2, <1>3, <1>4, <1>5, <1>6, <1>7, <1>8, <1>9 DEF Work

LEMMA OthersLog ==
    ASSUME Others
    PROVE  LogStep
  BY StatusKept, OthersAside
     DEF LogStep, Others, Provider, User, Clock, Issue, Ingest, IngestAgain, Click, Stop, Tick, Expire,
         LeaseExpires, Lapse, dbVars, rowVars

(* ShowsAsLog: through crashes, lapsed leases and repeated callbacks, the   *)
(* codes an activation shows grow as CodeLog says.                          *)
THEOREM RefinesCodeLog == Spec => ShowsAsLog
<1>1. Init => Log!Init
  <2> SUFFICES ASSUME Init PROVE Log!Init  OBVIOUS
  <2>1. rows \in [Cycle -> (Event \cup {PinCode}) \cup {NoEvent}]  BY DEF Init
  <2>2. cycle \in Cycle  BY InitOnCycle DEF CycleInv
  <2>3. status = "pin_changed" \/ status = "subsequent"  BY Zenon DEF Init
  <2>4. Open  BY <2>3 DEF Open, Finished
  <2> QED  BY <2>1, <2>2, <2>4 DEF Log!Init
<1>2. InboxInv /\ [Next]_vars => [Log!Next]_(Log!logVars)
  <2> SUFFICES ASSUME InboxInv, [Next]_vars PROVE [Log!Next]_(Log!logVars)  OBVIOUS
  <2>1. LogStep
    <3>1. CASE UNCHANGED vars
      BY <3>1, StatusKept DEF LogStep, vars, dbVars, rowVars
    <3> QED  BY <3>1, WorkerLogs, OthersLog DEF Next, Others
  <2>2. CASE Unlogged  BY <2>2 DEF Unlogged, Log!logVars
  <2> QED  BY <2>1, <2>2 DEF LogStep, Log!Next
<1> QED  BY <1>1, <1>2, InboxInvariance, PTL DEF Spec, ShowsAsLog, Log!Spec

-----------------------------------------------------------------------------
(* The end of the inbox *)

StKept == \A e \in Event : inbox'[e].st = inbox[e].st

(* A worker leaves the activation open, or as it was with every event where *)
(* it was, or closes its inbox with it.                                     *)
LEMMA WorkerCloses ==
    ASSUME TimeType, NEW w \in Workers, Lease(w) \/ Work(w) \/ Trouble(w)
    PROVE  Open' \/ (Open' = Open /\ StKept) \/ inbox' = Closed(inbox)
<1>1. CASE Lease(w)
  BY <1>1 DEF Lease, Runnable, Open
<1>2. CASE UNCHANGED <<status, inbox>>
  BY <1>2 DEF Open, StKept
<1>3. CASE OwnsLease(w) /\ status' = status
  BY <1>3 DEF OwnsLease, Open
<1>4. CASE Transition(w)
  BY <1>4, <1>2 DEF Transition, Open, Finished
<1>5. CASE Finish(w)
  BY <1>5, <1>2 DEF Finish
<1>6. CASE Lock(w) \/ Trouble(w) \/ Collect(w) \/ AdvanceCycle(w)
  BY <1>6, <1>2, <1>3
     DEF Lock, Trouble, LockFails, CallFails, Crash, Cancelled, Collect, Examine, Append, SaveLocal,
         Ensure, Sync, AdvanceCycle, Advance, Ask, Reject, Accept, Bump, Checkpoint, dbVars, rowVars
<1>7. CASE Serve(w)
  BY <1>7, <1>2, <1>3
     DEF Serve, Claim, IgnoreBlank, IgnoreOccupied, Complete, FailEvent, Acknowledge, Owned
<1>8. CASE Settle(w) /\ ~Transition(w) /\ ~Finish(w)
  BY <1>8, <1>2 DEF Settle, Wait, Conclude, Look, Release, dbVars, rowVars
<1> QED  BY <1>1, <1>4, <1>5, <1>6, <1>7, <1>8 DEF Work

LEMMA OthersClose ==
    ASSUME TimeType, Others, InboxCloses
    PROVE  InboxCloses'
<1>1. status' = status
  BY DEF Others, Provider, User, Clock, Issue, Ingest, IngestAgain, Click, Stop, Tick, Expire,
         LeaseExpires, Lapse, dbVars, rowVars
<1>2. Open' = Open  BY <1>1 DEF Open
<1>3. CASE inbox' = inbox
  BY <1>2, <1>3 DEF InboxCloses
<1>4. CASE Tick
  <2>1. \A e \in Event : inbox'[e].st = inbox[e].st
    BY <1>4 DEF Tick, TimeType, InboxEvent
  <2> QED  BY <1>2, <2>1 DEF InboxCloses
<1>5. ASSUME NEW e \in Event, Ingest(e) PROVE InboxCloses'
  <2>1. SUFFICES ASSUME ~Open PROVE \A f \in Event : inbox'[f].st \notin Pending
    BY <1>2 DEF InboxCloses
  <2>2. inbox' = [inbox EXCEPT ![e].st = "ignored", ![e].at = Now]
    BY <1>5, <2>1 DEF Ingest
  <2>3. inbox'[e].st = "ignored" /\ \A f \in Event \ {e} : inbox'[f] = inbox[f]
    BY <2>2 DEF TimeType, InboxEvent
  <2> QED  BY <2>1, <2>3 DEF InboxCloses, Pending
<1> QED
  BY <1>3, <1>4, <1>5 DEF Others, Provider, User, Clock, Issue, IngestAgain, Click, Stop, Expire,
     LeaseExpires, Lapse, dbVars, rowVars

(* InboxCloses: no event of a finished activation waits for a worker,       *)
(* whether it came before its end or after it.                              *)
THEOREM FinishedInboxCloses == Spec => []InboxCloses
<1>1. Init => InboxCloses
  BY Zenon DEF Init, InboxCloses, Open, Finished, StartAssumption
<1>2. LockedTypes /\ InboxCloses /\ [Next]_vars => InboxCloses'
  <2> SUFFICES ASSUME LockedTypes, InboxCloses, [Next]_vars PROVE InboxCloses'  OBVIOUS
  <2>1. TimeType  BY TypeParts DEF LockedTypes
  <2>2. CASE UNCHANGED vars
    BY <2>2 DEF InboxCloses, Open, vars, dbVars, rowVars
  <2>3. ASSUME NEW w \in Workers, Lease(w) \/ Work(w) \/ Trouble(w) PROVE InboxCloses'
    <3>1. CASE Open'  BY <3>1 DEF InboxCloses
    <3>2. CASE Open' = Open /\ StKept  BY <3>2 DEF InboxCloses, StKept
    <3>3. CASE inbox' = Closed(inbox)
      BY <3>3, <2>1 DEF InboxCloses, Closed, Pending, TimeType, InboxEvent
    <3> QED  BY <2>1, <2>3, <3>1, <3>2, <3>3, WorkerCloses
  <2> QED  BY <2>1, <2>2, <2>3, OthersClose DEF Next, Others
<1> QED  BY <1>1, <1>2, LockedTypesHold, PTL DEF Spec

-----------------------------------------------------------------------------
(* A Stop is due *)

(* From a Stop on the request stays and, until the activation has ended, a  *)
(* worker with the lease claimed it with the request: it is on its way      *)
(* through processControl, and an error brings it back within a retry.      *)
StopPlaces == {"lock", "control", "finish", "error"}
Obeys(w) == holder = w /\ pc[w] # "idle" => seen[w].control = "delete" /\ pc[w] \in StopPlaces
StopInv ==
    stopped /\ Open =>
        /\ control = "delete"
        /\ holder = NoWorker => next <= Soon
        /\ \A w \in Workers : Obeys(w)

(* What a step of one worker leaves alone: the other workers' locals.       *)
Alone(w) == \A v \in Workers \ {w} : pc'[v] = pc[v] /\ seen'[v] = seen[v] /\ job'[v] = job[v]

LEMMA WorkerAlone ==
    ASSUME TypeOK, NEW w \in Workers, Lease(w) \/ Work(w) \/ Trouble(w)
    PROVE  Alone(w)
<1>1. \A v \in Workers \ {w} : pc'[v] = pc[v]
  BY WorkerMoves DEF Moves, Goto, TypeOK
<1>2. \/ UNCHANGED seen
      \/ \E s : seen' = [seen EXCEPT ![w] = s]
  <2>1. CASE Leave(w)  BY <2>1 DEF Leave
  <2>2. CASE Lease(w)  BY <2>2 DEF Lease
  <2> QED
    BY <2>1, <2>2 DEF Work, Trouble, Lock, LockFails, CallFails, Crash, Cancelled, Serve, Claim,
       IgnoreBlank, IgnoreOccupied, Complete, FailEvent, Acknowledge, Collect, Examine, Append,
       SaveLocal, Ensure, Sync, AdvanceCycle, Advance, Ask, Reject, Accept, Bump, Checkpoint,
       Settle, Transition, Wait, Conclude, Finish, Look, Release, Keep
<1>3. \/ UNCHANGED job
      \/ \E j : job' = [job EXCEPT ![w] = j]
  <2>1. CASE Leave(w)  BY <2>1 DEF Leave
  <2>2. CASE Claim(w)  BY <2>2, Zenon DEF Claim
  <2> QED
    BY <2>1, <2>2 DEF Work, Trouble, Lease, Lock, LockFails, CallFails, Crash, Cancelled, Serve,
       IgnoreBlank, IgnoreOccupied, Complete, FailEvent, Acknowledge, Collect, Examine, Append,
       SaveLocal, Ensure, Sync, AdvanceCycle, Advance, Ask, Reject, Accept, Bump, Checkpoint,
       Settle, Transition, Wait, Conclude, Finish, Look, Release, Keep
<1> QED  BY <1>1, <1>2, <1>3 DEF Alone, TypeOK

LEMMA ReopensNever ==
    ASSUME [Next]_vars, Open'
    PROVE  Open
<1>1. ASSUME NEW w \in Workers, Transition(w) \/ Finish(w) PROVE Open
  BY <1>1 DEF Transition, Finish, OwnsLease, Open, Finished
<1>2. CASE status' = status  BY <1>2 DEF Open
<1>3. CASE Others \/ UNCHANGED vars
  BY <1>2, <1>3 DEF Others, Provider, User, Clock, Issue, Ingest, IngestAgain, Click, Stop, Tick,
     Expire, LeaseExpires, Lapse, vars, dbVars, rowVars
<1>4. ASSUME NEW w \in Workers, Lease(w) \/ Work(w) \/ Trouble(w) PROVE Open
  BY <1>1, <1>2, <1>4
     DEF Work, Trouble, Lease, Lock, LockFails, CallFails, Crash, Cancelled, Serve, Claim,
       IgnoreBlank, IgnoreOccupied, Complete, FailEvent, Acknowledge, Collect, Examine, Append,
       SaveLocal, Ensure, Sync, AdvanceCycle, Advance, Ask, Reject, Accept, Bump, Checkpoint,
       Settle, Wait, Conclude, Look, Release, dbVars, rowVars
<1> QED  BY <1>3, <1>4 DEF Next, Others

LEMMA HolderStops ==
    ASSUME TypeOK, StopInv, stopped, Open, Open',
           NEW w \in Workers, holder = w, Work(w) \/ Trouble(w)
    PROVE  /\ control' = control
           /\ holder' = NoWorker => next' <= Soon
           /\ holder' \in {w, NoWorker}
           /\ holder' = w /\ pc'[w] # "idle" => seen'[w].control = "delete" /\ pc'[w] \in StopPlaces
<1>1. pc[w] # "idle"
  BY DEF Work, Trouble, Lock, LockFails, CallFails, Crash, Cancelled, Serve, Claim,
       IgnoreBlank, IgnoreOccupied, Complete, FailEvent, Acknowledge, Collect, Examine, Append,
       SaveLocal, Ensure, Sync, AdvanceCycle, Advance, Ask, Reject, Accept, Bump, Checkpoint,
       Settle, Transition, Wait, Conclude, Finish, Look, Release, CallSteps, BusinessSteps
<1>2. seen[w].control = "delete" /\ pc[w] \in StopPlaces
  BY <1>1 DEF StopInv, Obeys
<1>3. Lock(w) \/ Conclude(w) \/ Finish(w) \/ Release(w) \/ LockFails(w) \/ Crash(w)
  BY <1>2
     DEF Work, Trouble, CallFails, Cancelled, Serve, Claim,
       IgnoreBlank, IgnoreOccupied, Complete, FailEvent, Collect, Examine, Append,
       SaveLocal, Ensure, Sync, AdvanceCycle, Advance, Ask, Reject, Accept, Bump, Checkpoint,
       Settle, Transition, Wait, Look, CallSteps, BusinessSteps, StopPlaces
<1>n. NoWorker # w /\ pc \in [Workers -> Place]  BY InboxNulls DEF TypeOK
<1>4. CASE Lock(w)
  <2>1. pc'[w] = "control"  BY <1>2, <1>4, <1>n DEF Lock, Branch, Goto
  <2> QED  BY <1>2, <1>4, <1>n, <2>1 DEF Lock, dbVars, rowVars, leaseVars, StopPlaces
<1>5. CASE Conclude(w)
  <2>1. pc[w] = "control"  BY <1>2, <1>5 DEF Conclude, StopPlaces
  <2>2. pc'[w] \in StopPlaces  BY <1>5, <1>n, <2>1 DEF Conclude, Goto, StopPlaces
  <2> QED  BY <1>2, <1>5, <1>n, <2>2 DEF Conclude, Keep, dbVars, rowVars, leaseVars
<1>6. CASE Finish(w)
  <2>1. status' # End(w)  BY DEF Open, End, Finished
  <2>2. Goto(w, "error") /\ UNCHANGED <<control, holder, seen>>
    BY <1>6, <2>1 DEF Finish, Keep
  <2> QED  BY <1>2, <1>n, <2>2 DEF Goto, StopPlaces
<1>7. CASE Release(w)
  <2>1. pc[w] = "error"  BY <1>2, <1>7 DEF Release, StopPlaces
  <2>2. next' = Earlier(Soon, wake) /\ holder' = NoWorker /\ control' = control
    BY <1>7, <2>1 DEF Release, Unleased
  <2>3. next' <= Soon  BY <2>2 DEF Earlier, TypeOK, Now, Soon, Never
  <2> QED  BY <1>n, <2>2, <2>3
<1>8. CASE LockFails(w) \/ Crash(w)
  <2>1. pc'[w] \in {"idle", "error"}
    BY <1>8, <1>n DEF LockFails, Crash, Leave, Goto
  <2>2. UNCHANGED <<control, holder, next>>
    BY <1>8 DEF LockFails, Crash, dbVars, rowVars, leaseVars
  <2>3. pc'[w] = "error" => seen' = seen
    BY <1>8, <1>n DEF LockFails, Crash, Leave, Goto, Keep
  <2> QED  BY <1>2, <1>n, <2>1, <2>2, <2>3 DEF StopPlaces
<1> QED  BY <1>3, <1>4, <1>5, <1>6, <1>7, <1>8

LEMMA StepStops ==
    ASSUME TypeOK, StopInv, [Next]_vars
    PROVE  StopInv'
<1> SUFFICES ASSUME stopped', Open'
             PROVE  /\ control' = "delete"
                    /\ holder' = NoWorker => next' <= Soon
                    /\ \A w \in Workers : Obeys(w)'
  BY DEF StopInv
<1>1. Open  BY ReopensNever
<1>n. NoWorker \notin Workers  BY InboxNulls
<1>2. CASE Stop
  BY <1>2, <1>n DEF Stop, Unleased, Obeys, Now, Soon
<1>3. CASE ~Stop
  <2>1. stopped' = stopped
    <3>1. CASE Others \/ UNCHANGED vars
      BY <1>3, <3>1 DEF Others, Provider, User, Clock, Issue, Ingest, IngestAgain, Click, Tick,
         Expire, LeaseExpires, Lapse, vars, worldVars
    <3>2. ASSUME NEW w \in Workers, Lease(w) \/ Work(w) \/ Trouble(w) PROVE stopped' = stopped
      BY <3>2 DEF Work, Trouble, Lease, Lock, LockFails, CallFails, Crash, Cancelled, Serve, Claim,
       IgnoreBlank, IgnoreOccupied, Complete, FailEvent, Acknowledge, Collect, Examine, Append,
       SaveLocal, Ensure, Sync, AdvanceCycle, Advance, Ask, Reject, Accept, Bump, Checkpoint,
       Settle, Transition, Wait, Conclude, Finish, Look, Release, worldVars
    <3> QED  BY <3>1, <3>2 DEF Next, Others
  <2>2. /\ stopped /\ control = "delete"
        /\ holder = NoWorker => next <= Soon
        /\ \A w \in Workers : Obeys(w)
    BY <1>1, <2>1 DEF StopInv
  <2>3. ASSUME NEW w \in Workers, holder # w, Work(w) \/ Trouble(w)
        PROVE  /\ control' = "delete"
               /\ holder' = NoWorker => next' <= Soon
               /\ \A v \in Workers : Obeys(v)'
    <3>1. UNCHANGED <<control, holder, next>>
      BY <2>3, LateWorkerKeeps DEF DurableKept, rowVars, leaseVars
    <3>2. Alone(w)  BY <2>3, WorkerAlone
    <3> QED  BY <2>2, <2>3, <3>1, <3>2 DEF Alone, Obeys
  <2>4. ASSUME NEW w \in Workers, holder = w, Work(w) \/ Trouble(w)
        PROVE  /\ control' = "delete"
               /\ holder' = NoWorker => next' <= Soon
               /\ \A v \in Workers : Obeys(v)'
    <3>1. /\ control' = control
          /\ holder' = NoWorker => next' <= Soon
          /\ holder' \in {w, NoWorker}
          /\ holder' = w /\ pc'[w] # "idle"
                => seen'[w].control = "delete" /\ pc'[w] \in StopPlaces
      BY <1>1, <2>2, <2>4, HolderStops
    <3> QED  BY <1>n, <2>2, <3>1 DEF Obeys
  <2>5. ASSUME NEW w \in Workers, Lease(w)
        PROVE  /\ control' = "delete"
               /\ holder' = NoWorker => next' <= Soon
               /\ \A v \in Workers : Obeys(v)'
    <3>1. /\ control' = control /\ holder' = w /\ pc'[w] = "lock"
          /\ seen'[w].control = control
      BY <2>5 DEF Lease, Goto, TypeOK
    <3> QED  BY <1>n, <2>2, <3>1 DEF Obeys, StopPlaces
  <2>6. CASE Others
    <3>1. UNCHANGED <<pc, seen>>  BY <2>6, OthersAside
    <3>2. control' = control /\ holder' = holder
      BY <1>3, <2>2, <2>6
         DEF Others, Provider, User, Clock, Issue, Ingest, IngestAgain, Click, Tick, Expire,
             LeaseExpires, Lapse, dbVars, rowVars, leaseVars
    <3>3. next' = next \/ next' = Now \/ next' = Sooner(next) \/ next' = AtDeadline(next)
             \/ \E t \in {Now, Soon, Never} : next' = Earlier(next, t)
      <4>1. \A e \in Event : inbox[e].at \in {Now, Soon, Never}
        BY DEF TypeOK, InboxEvent
      <4> QED
        BY <1>3, <2>6, <4>1
           DEF Others, Provider, User, Clock, Issue, Ingest, IngestAgain, Click, Tick, Expire, Wake,
               LeaseExpires, Lapse, dbVars, rowVars, leaseVars
    <3>4. next <= Soon => next' <= Soon
      BY <3>3 DEF TypeOK, Earlier, Sooner, AtDeadline, Now, Soon, Late, Never
    <3> QED  BY <2>2, <3>1, <3>2, <3>4 DEF Obeys
  <2>7. CASE UNCHANGED vars
    BY <2>2, <2>7 DEF Obeys, vars, dbVars, rowVars, leaseVars, workVars
  <2> QED  BY <2>3, <2>4, <2>5, <2>6, <2>7 DEF Next, Others
<1> QED  BY <1>2, <1>3

(* StopIsDue: an open activation that was stopped and that no worker holds  *)
(* is at most a retry delay away from its next worker.                      *)
THEOREM StoppedIsDue == Spec => []StopIsDue
<1>1. Init => StopInv  BY Zenon DEF Init, StopInv
<1>2. LockedTypes => TypeOK  BY DEF LockedTypes
<1>3. StopInv => StopIsDue  BY DEF StopInv, StopIsDue
<1> QED  BY <1>1, <1>2, <1>3, StepStops, LockedTypesHold, PTL DEF Spec

-----------------------------------------------------------------------------
(* The wake-up of a stored callback *)

(* While a callback waits, somebody will look within a retry delay: by the  *)
(* schedule with no lease, by the schedule or the marker with one; a worker *)
(* past its claim leaves the marker for its release, and one before it will *)
(* look itself.                                                             *)
Unclaimed == {"idle", "lock", "claim", "control", "expire", "finish", "finish_expired", "error"}
WakesHolder(w) ==
    holder = w => Earlier(next, wake) <= Soon /\ (pc[w] \notin Unclaimed => wake <= Soon)
Wakes ==
    /\ holder = NoWorker => next <= Soon
    /\ \A w \in Workers : WakesHolder(w)
WakeInv ==
    /\ status # "pin_changed"
    /\ \A w \in Workers : seen[w].status # "pin_changed"
    /\ \A e \in Received(inbox) : inbox[e].at <= Soon
    /\ Open /\ Received(inbox) # {} => Wakes

LEMMA RefreshedNear ==
    ASSUME NEW box \in [Event -> InboxEvent], Received(box) # {},
           \A e \in Received(box) : box[e].at <= Soon
    PROVE  Refreshed(box) <= Soon
<1> DEFINE S == {box[e].at : e \in Received(box)}
<1>1. S # {} /\ S \in SUBSET {Now, Soon, Never}
  BY DEF Received, InboxEvent
<1>2. S \in SUBSET Nat
  BY <1>1 DEF Now, Soon, Never
<1>3. Min(S) \in S  BY <1>1, <1>2, MinIsMember
<1>4. Refreshed(box) = Min(S)  BY DEF Refreshed
<1> QED  BY <1>3, <1>4

LEMMA EarlierNear ==
    ASSUME NEW s \in {Now, Soon, Late, Never}, NEW t \in {Now, Soon, Late, Never}
    PROVE  /\ Earlier(s, t) \in {s, t}
           /\ Earlier(s, t) <= Soon <=> s <= Soon \/ t <= Soon
  BY DEF Earlier, Now, Soon, Late, Never

NearInv == \A e \in Received(inbox) : inbox[e].at <= Soon

(* A step that takes nothing into the inbox and delays nothing in it.       *)
LEMMA FewerNear ==
    ASSUME NearInv, \A e \in Event : inbox'[e].st = "received"
                                        => inbox[e].st = "received" /\ inbox'[e].at = inbox[e].at
    PROVE  NearInv' /\ (Received(inbox') # {} => Received(inbox) # {})
  BY DEF NearInv, Received

LEMMA MarkNear ==
    ASSUME TypeOK, NearInv, NEW e, NEW st \in {"processed", "ignored", "processing"},
           inbox' = [inbox EXCEPT ![e].st = st]
    PROVE  NearInv' /\ (Received(inbox') # {} => Received(inbox) # {})
<1>1. \A f \in Event : inbox'[f].st = "received"
                          => inbox[f].st = "received" /\ inbox'[f].at = inbox[f].at
  BY DEF TypeOK, InboxEvent
<1> QED  BY <1>1, FewerNear

LEMMA AcknowledgeNear ==
    ASSUME TypeOK, NearInv, NEW w \in Workers, NEW st \in {"processed", "ignored"}, NEW p,
           Acknowledge(w, st, p)
    PROVE  /\ NearInv'
           /\ \/ wake' = Refreshed(inbox')
              \/ Goto(w, "error") /\ UNCHANGED <<inbox, wake>>
           /\ UNCHANGED <<next, holder, status>>
<1>1. CASE inbox' = Settled(w, st) /\ wake' = Refreshed(inbox')
  BY <1>1, MarkNear DEF Acknowledge, Settled
<1>2. CASE Goto(w, "error") /\ UNCHANGED <<inbox, wake>>
  BY <1>2 DEF Acknowledge, NearInv
<1> QED  BY <1>1, <1>2 DEF Acknowledge

LEMMA ClaimNear ==
    ASSUME TypeOK, NearInv, NEW w \in Workers, Claim(w)
    PROVE  /\ NearInv'
           /\ \/ wake' = Refreshed(inbox')
              \/ Goto(w, "error") /\ UNCHANGED <<inbox, wake>>
           /\ UNCHANGED <<next, holder, status>>
<1>0. UNCHANGED <<next, holder, status>>  BY DEF Claim
<1>1. CASE Goto(w, "error") /\ UNCHANGED <<inbox, wake>>
  BY <1>0, <1>1 DEF NearInv
<1>2. CASE wake' = Refreshed(inbox) /\ inbox' = inbox
  BY <1>0, <1>2 DEF NearInv
<1>3. ASSUME NEW e, inbox' = [inbox EXCEPT ![e].st = "processing", ![e].claim = w],
             wake' = Refreshed(inbox')
      PROVE  NearInv'
  <2>1. \A f \in Event : inbox'[f].st = "received"
                            => inbox[f].st = "received" /\ inbox'[f].at = inbox[f].at
    BY <1>3 DEF TypeOK, InboxEvent
  <2> QED  BY <2>1, FewerNear
<1>4. \/ Goto(w, "error") /\ UNCHANGED <<inbox, wake>>
      \/ wake' = Refreshed(inbox) /\ inbox' = inbox
      \/ \E e : /\ inbox' = [inbox EXCEPT ![e].st = "processing", ![e].claim = w]
                /\ wake' = Refreshed(inbox')
  BY Zenon DEF Claim
<1> QED  BY <1>0, <1>1, <1>2, <1>3, <1>4

(* The worker at work keeps the wake-up: the lease holder's own steps.      *)
WakeKept(w) ==
    /\ NearInv'
    /\ Open' /\ Received(inbox') # {} =>
           /\ holder' \in {w, NoWorker}
           /\ holder' = NoWorker => next' <= Soon
           /\ WakesHolder(w)'

LEMMA ClaimedKeeps ==
    ASSUME TypeOK, WakeInv, NEW w \in Workers, holder = w, NearInv', TypeOK',
           UNCHANGED <<next, holder, status>>,
           \/ wake' = Refreshed(inbox')
           \/ Goto(w, "error") /\ UNCHANGED <<inbox, wake>>
    PROVE  WakeKept(w)
<1> SUFFICES ASSUME Open', Received(inbox') # {} PROVE WakesHolder(w)'
  BY InboxNulls DEF WakeKept
<1>t. next \in {Now, Soon, Late, Never} /\ wake' \in {Now, Soon, Late, Never}
  BY DEF TypeOK
<1>1. CASE wake' = Refreshed(inbox')
  <2>1. wake' <= Soon  BY <1>1, RefreshedNear DEF NearInv, TypeOK
  <2> QED  BY <1>t, <2>1, EarlierNear DEF WakesHolder
<1>2. CASE Goto(w, "error") /\ UNCHANGED <<inbox, wake>>
  <2>1. Wakes  BY <1>2 DEF WakeInv, Open
  <2>2. pc'[w] = "error"  BY <1>2 DEF Goto, TypeOK
  <2> QED  BY <1>2, <2>1, <2>2 DEF Wakes, WakesHolder, Unclaimed
<1> QED  BY <1>1, <1>2

(* A step that leaves schedule and inbox alone is within its part.          *)
LEMMA QuietKeeps ==
    ASSUME TypeOK, WakeInv, NEW w \in Workers, holder = w, NEW q, Goto(w, q),
           UNCHANGED <<wake, holder, inbox>>, Open' => Open,
           pc[w] \notin Unclaimed \/ (next' = next /\ q \in Unclaimed), TypeOK'
    PROVE  WakeKept(w)
<1>0. NearInv'  BY DEF WakeInv, NearInv
<1> SUFFICES ASSUME Open', Received(inbox') # {} PROVE WakesHolder(w)'
  BY <1>0, InboxNulls DEF WakeKept
<1>1. Wakes  BY DEF WakeInv
<1>2. pc'[w] = q  BY DEF Goto, TypeOK
<1>t. next' \in {Now, Soon, Late, Never} /\ wake' \in {Now, Soon, Late, Never}
  BY DEF TypeOK
<1>3. CASE pc[w] \notin Unclaimed
  BY <1>1, <1>3, <1>t, EarlierNear DEF Wakes, WakesHolder
<1>4. CASE next' = next /\ q \in Unclaimed
  BY <1>1, <1>2, <1>4 DEF Wakes, WakesHolder
<1> QED  BY <1>3, <1>4

LEMMA ServeKeepsWake ==
    ASSUME TypeOK, WakeInv, NEW w \in Workers, holder = w, Serve(w), TypeOK'
    PROVE  WakeKept(w)
<1>1. CASE Claim(w)
  BY <1>1, ClaimNear, ClaimedKeeps DEF WakeInv, NearInv
<1>2. CASE IgnoreBlank(w) \/ IgnoreOccupied(w) \/ Complete(w)
  BY <1>2, AcknowledgeNear, ClaimedKeeps
     DEF WakeInv, NearInv, IgnoreBlank, IgnoreOccupied, Complete
<1>3. CASE FailEvent(w)
  <2>1. Goto(w, "error") /\ pc[w] = "fail" /\ UNCHANGED <<holder, status>>
    BY <1>3 DEF FailEvent
  <2>2. CASE UNCHANGED <<inbox, next, wake>>
    BY <2>1, <2>2, QuietKeeps DEF Open, Unclaimed
  <2>3. CASE Wake(Soon) /\ inbox' = [inbox EXCEPT ![job[w]] =
                                       [st |-> "received", at |-> Soon, claim |-> NoWorker]]
    <3>1. \A e \in Event : inbox'[e] = inbox[e] \/ inbox'[e].at = Soon
      BY <2>3 DEF TypeOK
    <3>2. NearInv'
      BY <3>1 DEF WakeInv, NearInv, Received, Soon
    <3>3. wake' = Earlier(wake, Soon) /\ holder' = w
      BY <2>1, <2>3, InboxNulls DEF Wake
    <3>4. wake' <= Soon
      BY <3>3, EarlierNear DEF TypeOK, Soon
    <3>5. Earlier(next', wake') <= Soon
      BY <3>4, EarlierNear DEF TypeOK
    <3> QED  BY <3>2, <3>3, <3>4, <3>5, InboxNulls DEF WakeKept, WakesHolder
  <2> QED  BY <1>3, <2>2, <2>3 DEF FailEvent
<1> QED  BY <1>1, <1>2, <1>3 DEF Serve

LEMMA CollectKeepsWake ==
    ASSUME TypeOK, WakeInv, NEW w \in Workers, holder = w, Collect(w) \/ AdvanceCycle(w), TypeOK'
    PROVE  WakeKept(w)
<1>1. PICK q \in Place : Goto(w, q)  BY CollectMoves, AdvanceMoves DEF Moves
<1>2. UNCHANGED <<wake, holder, inbox, status>>
  BY DEF Collect, Examine, Append, SaveLocal, Ensure, Sync, AdvanceCycle, Advance, Ask, Reject,
         Accept, Bump, Checkpoint, dbVars, rowVars, leaseVars
<1>3. pc[w] \notin Unclaimed
  BY DEF Collect, Examine, Append, SaveLocal, Ensure, Sync, AdvanceCycle, Advance, Ask, Reject,
         Accept, Bump, Checkpoint, Unclaimed
<1> QED  BY <1>1, <1>2, <1>3, QuietKeeps DEF Open

LEMMA SettleKeepsWake ==
    ASSUME TypeOK, WakeInv, NEW w \in Workers, holder = w, Settle(w), TypeOK'
    PROVE  WakeKept(w)
<1>1. CASE Transition(w) \/ Wait(w)
  <2>1. PICK q \in Place : Goto(w, q)
    BY <1>1, SettleApart DEF Apart, Settle
  <2>2. UNCHANGED <<wake, holder, inbox>> /\ (Open' => Open) /\ pc[w] \notin Unclaimed
    BY <1>1 DEF Transition, Wait, leaseVars, Open, Finished, Unclaimed, OwnsLease
  <2> QED  BY <2>1, <2>2, QuietKeeps
<1>2. CASE Conclude(w)
  <2>1. PICK q \in {"finish", "finish_expired", "error"} : Goto(w, q)
    BY <1>2 DEF Conclude
  <2>2. UNCHANGED <<next, wake, holder, inbox, status>>
    BY <1>2 DEF Conclude, dbVars, rowVars, leaseVars
  <2> QED  BY <2>1, <2>2, QuietKeeps DEF Open, Unclaimed
<1>3. CASE Finish(w)
  <2>1. CASE Goto(w, "error") /\ UNCHANGED <<status, holder, inbox>>
    BY <1>3, <2>1, QuietKeeps DEF Finish, Open, Unclaimed
  <2>2. CASE status' = End(w) /\ inbox' = Closed(inbox)
    <3>1. ~Open'  BY <2>2 DEF End, Open, Finished
    <3>2. \A e \in Event : inbox'[e].st # "received"
      BY <2>2 DEF Closed, Pending, TypeOK, InboxEvent
    <3> QED  BY <3>1, <3>2 DEF WakeKept, NearInv, Received
  <2> QED  BY <1>3, <2>1, <2>2 DEF Finish
<1>4. CASE Look(w)
  <2>1. PICK q \in {"idle", "release"} : Goto(w, q)
    BY <1>4 DEF Look, Leave
  <2>2. UNCHANGED <<next, wake, holder, inbox, status>> /\ pc[w] \notin Unclaimed
    BY <1>4 DEF Look, dbVars, rowVars, leaseVars, Unclaimed
  <2> QED  BY <2>1, <2>2, QuietKeeps DEF Open
<1>5. CASE Release(w)
  <2>1. /\ holder' = NoWorker /\ UNCHANGED <<inbox, status>>
        /\ next' = Earlier(IF pc[w] = "error" THEN Soon ELSE due[w], wake)
    BY <1>5 DEF Release, Unleased
  <2>2. NearInv'  BY <2>1 DEF WakeInv, NearInv
  <2>3. ASSUME Open', Received(inbox') # {} PROVE next' <= Soon
    <3>1. Wakes  BY <2>1, <2>3 DEF WakeInv, Open
    <3>2. wake \in {Now, Soon, Late, Never} /\ due[w] \in {Now, Soon, Late, Never}
      BY DEF TypeOK
    <3>3. CASE pc[w] = "error"
      BY <2>1, <3>2, <3>3, EarlierNear DEF Soon
    <3>4. CASE pc[w] = "release"
      <4>1. wake <= Soon  BY <3>1, <3>4 DEF Wakes, WakesHolder, Unclaimed
      <4> QED  BY <2>1, <3>2, <3>4, <4>1, EarlierNear
    <3> QED  BY <1>5, <3>3, <3>4 DEF Release
  <2> QED  BY <2>1, <2>2, <2>3, InboxNulls DEF WakeKept, WakesHolder
<1> QED  BY <1>1, <1>2, <1>3, <1>4, <1>5 DEF Settle

LEMMA RestKeepsWake ==
    ASSUME TypeOK, WakeInv, NEW w \in Workers, holder = w, Lock(w) \/ Trouble(w), TypeOK'
    PROVE  WakeKept(w)
<1>0. UNCHANGED <<next, wake, holder, inbox, status>>
  BY DEF Lock, Trouble, LockFails, CallFails, Crash, Cancelled, dbVars, rowVars, leaseVars
<1>1. CASE Lock(w)
  <2>1. Goto(w, Branch(w)) /\ Branch(w) \in Unclaimed
    BY <1>1 DEF Lock, Branch, Unclaimed, WakeInv
  <2> QED  BY <1>0, <2>1, QuietKeeps DEF Open
<1>2. CASE LockFails(w) \/ Crash(w) \/ Cancelled(w)
  <2>1. PICK q \in {"idle", "error"} : Goto(w, q)
    BY <1>2 DEF LockFails, Crash, Cancelled, Leave
  <2> QED  BY <1>0, <2>1, QuietKeeps DEF Open, Unclaimed
<1>3. CASE CallFails(w)
  <2>1. CASE pc[w] = "look" /\ Leave(w)
    BY <1>0, <2>1, QuietKeeps DEF Open, Unclaimed, Leave
  <2>2. CASE pc[w] \in CallSteps /\ Goto(w, OnError(w))
    <3>1. pc[w] \notin Unclaimed \/ OnError(w) = "error"
      BY <2>2 DEF CallSteps, BusinessSteps, Unclaimed, OnError
    <3> QED  BY <1>0, <2>2, <3>1, QuietKeeps DEF Open, Unclaimed
  <2> QED  BY <1>3, <2>1, <2>2 DEF CallFails
<1> QED  BY <1>1, <1>2, <1>3 DEF Trouble

LEMMA SeenKept ==
    ASSUME TypeOK, [Next]_vars, status # "pin_changed",
           \A w \in Workers : seen[w].status # "pin_changed"
    PROVE  status' # "pin_changed" /\ \A w \in Workers : seen'[w].status # "pin_changed"
<1>1. CASE Others \/ UNCHANGED vars
  <2>1. status' = status /\ seen' = seen
    BY <1>1, OthersAside DEF Others, Provider, User, Clock, Issue, Ingest, IngestAgain, Click, Stop,
       Tick, Expire, LeaseExpires, Lapse, vars, workVars, dbVars, rowVars
  <2> QED  BY <2>1
<1>2. ASSUME NEW w \in Workers, Lease(w) \/ Work(w) \/ Trouble(w)
      PROVE  status' # "pin_changed" /\ \A v \in Workers : seen'[v].status # "pin_changed"
  <2>1. status' \in {status, "subsequent", End(w)}
    BY <1>2 DEF Work, Trouble, Lease, Lock, LockFails, CallFails, Crash, Cancelled, Serve, Claim,
       IgnoreBlank, IgnoreOccupied, Complete, FailEvent, Acknowledge, Collect, Examine, Append,
       SaveLocal, Ensure, Sync, AdvanceCycle, Advance, Ask, Reject, Accept, Bump, Checkpoint,
       Settle, Transition, Wait, Conclude, Finish, Look, Release, dbVars, rowVars
  <2>2. End(w) # "pin_changed"  BY DEF End
  <2>3. seen'[w] = seen[w] \/ seen'[w].status \in {status, ""}
    <3>1. CASE Leave(w)  BY <3>1 DEF Leave, TypeOK, NotSeen
    <3>2. CASE Lease(w)  BY <3>2 DEF Lease, TypeOK
    <3> QED
      BY <1>2, <3>1, <3>2
       DEF Work, Trouble, Lock, LockFails, CallFails, Crash, Cancelled, Serve, Claim,
       IgnoreBlank, IgnoreOccupied, Complete, FailEvent, Acknowledge, Collect, Examine, Append,
       SaveLocal, Ensure, Sync, AdvanceCycle, Advance, Ask, Reject, Accept, Bump, Checkpoint,
       Settle, Transition, Wait, Conclude, Finish, Look, Release, Keep
  <2>4. Alone(w)  BY <1>2, WorkerAlone
  <2> QED  BY <2>1, <2>2, <2>3, <2>4 DEF Alone
<1> QED  BY <1>1, <1>2 DEF Next, Others

LEMMA LeaseKeepsWake ==
    ASSUME TypeOK, WakeInv, NEW w \in Workers, Lease(w)
    PROVE  WakeKept(w)
<1>1. UNCHANGED <<next, wake, status>> /\ holder' = w /\ pc'[w] = "lock"
  BY DEF Lease, Goto, TypeOK
<1>2. \A e \in Event : inbox'[e].st = inbox[e].st /\ inbox'[e].at = inbox[e].at
  <2>1. inbox' = [e \in Event |-> IF inbox[e].claim = w
                                  THEN [inbox[e] EXCEPT !.claim = OldLease] ELSE inbox[e]]
    BY DEF Lease
  <2> QED  BY <2>1 DEF TypeOK, InboxEvent
<1>3. NearInv' /\ (Received(inbox') # {} => Received(inbox) # {})
  BY <1>2, FewerNear DEF WakeInv, NearInv
<1>4. ASSUME Open', Received(inbox') # {} PROVE Earlier(next, wake) <= Soon
  <2>1. Wakes  BY <1>1, <1>3, <1>4 DEF WakeInv, Open
  <2>2. CASE holder = NoWorker
    BY <2>1, <2>2, EarlierNear DEF Wakes, TypeOK
  <2>3. CASE holder \in Workers
    BY <2>1, <2>3 DEF Wakes, WakesHolder
  <2> QED  BY <2>2, <2>3 DEF TypeOK
<1> QED  BY <1>1, <1>3, <1>4, InboxNulls DEF WakeKept, WakesHolder, Unclaimed

LEMMA WorkerWakes ==
    ASSUME TypeOK, WakeInv, NEW w \in Workers, Lease(w) \/ Work(w) \/ Trouble(w), TypeOK'
    PROVE  NearInv' /\ (Open' /\ Received(inbox') # {} => Wakes')
<1>1. CASE Lease(w) \/ holder = w
  <2>1. WakeKept(w)
    BY <1>1, LeaseKeepsWake, ServeKeepsWake, CollectKeepsWake, SettleKeepsWake, RestKeepsWake
       DEF Work
  <2> QED  BY <2>1, InboxNulls DEF WakeKept, Wakes, WakesHolder
<1>2. CASE holder # w /\ ~Lease(w)
  <2>1. UNCHANGED <<status, next, wake, holder, inbox>>
    BY <1>2, LateWorkerKeeps DEF DurableKept, rowVars, leaseVars
  <2>2. Alone(w)  BY WorkerAlone
  <2>3. NearInv'  BY <2>1 DEF WakeInv, NearInv
  <2>4. Open' /\ Received(inbox') # {} => Wakes  BY <2>1 DEF WakeInv, Open
  <2> QED  BY <1>2, <2>1, <2>2, <2>3, <2>4 DEF Alone, Wakes, WakesHolder
<1> QED  BY <1>1, <1>2

(* Requests, callbacks and time only bring the wake-up nearer.              *)
LEMMA NearerWakes ==
    ASSUME Wakes, UNCHANGED pc, holder' \in {holder, NoWorker}, TypeOK, TypeOK',
           next <= Soon => next' <= Soon,
           holder' # NoWorker => (wake <= Soon => wake' <= Soon),
           holder' # holder => next' <= Soon
    PROVE  Wakes'
<1>1. holder' = NoWorker => next' <= Soon  BY DEF Wakes
<1>2. ASSUME NEW w \in Workers PROVE WakesHolder(w)'
  <2>1. SUFFICES ASSUME holder' = w PROVE WakesHolder(w)'  BY DEF WakesHolder
  <2>2. holder = w /\ holder' # NoWorker  BY <2>1, InboxNulls
  <2>3. WakesHolder(w)  BY DEF Wakes
  <2>t. /\ next \in {Now, Soon, Late, Never} /\ wake \in {Now, Soon, Late, Never}
        /\ next' \in {Now, Soon, Late, Never} /\ wake' \in {Now, Soon, Late, Never}
    BY DEF TypeOK
  <2> QED  BY <2>2, <2>3, <2>t, EarlierNear DEF WakesHolder
<1> QED  BY <1>1, <1>2 DEF Wakes

LEMMA OthersWake ==
    ASSUME TypeOK, WakeInv, Others, TypeOK'
    PROVE  NearInv' /\ (Open' /\ Received(inbox') # {} => Wakes')
<1>1. UNCHANGED <<pc, status>> /\ Open' = Open
  BY OthersAside DEF Others, Provider, User, Clock, Issue, Ingest, IngestAgain, Click, Stop, Tick,
     Expire, LeaseExpires, Lapse, dbVars, rowVars, Open
<1>n. NoWorker \notin Workers  BY InboxNulls
<1>2. CASE User \/ Issue \/ LeaseExpires \/ Lapse \/ Expire
  <2>1. inbox' = inbox /\ wake' = wake /\ next' \in {next, Now, AtDeadline(next)}
        /\ holder' \in {holder, NoWorker} /\ (holder' # holder => next' = Now)
    BY <1>2 DEF User, Click, Stop, Unleased, Issue, LeaseExpires, Lapse, Expire,
       dbVars, rowVars, leaseVars
  <2>2. next <= Soon => next' <= Soon
    BY <2>1 DEF TypeOK, AtDeadline, Now, Soon, Late
  <2>3. NearInv'  BY <2>1 DEF WakeInv, NearInv
  <2>4. ASSUME Open', Received(inbox') # {} PROVE Wakes'
    <3>1. Wakes  BY <1>1, <2>1, <2>4 DEF WakeInv
    <3> QED  BY <1>1, <2>1, <2>2, <3>1, NearerWakes DEF Now, Soon
  <2> QED  BY <2>3, <2>4
<1>3. ASSUME NEW e \in Event, Ingest(e)
      PROVE  NearInv' /\ (Open' /\ Received(inbox') # {} => Wakes')
  <2>0. PICK st : inbox' = [inbox EXCEPT ![e].st = st, ![e].at = Now]
    BY <1>3 DEF Ingest
  <2>1. \A f \in Event : inbox'[f] = inbox[f] \/ inbox'[f].at = Now
    BY <2>0 DEF TypeOK, InboxEvent
  <2>2. NearInv'
    BY <2>1 DEF WakeInv, NearInv, Received, Now, Soon
  <2>3. ASSUME Open PROVE Wakes'
    <3>1. Wake(Now) /\ UNCHANGED holder  BY <1>3, <2>3 DEF Ingest
    <3>2. CASE holder = NoWorker
      <4>1. next' = Earlier(next, Now)  BY <3>1, <3>2 DEF Wake
      <4>2. next' <= Soon  BY <4>1 DEF TypeOK, Earlier, Now, Soon, Late
      <4> QED  BY <1>n, <3>1, <3>2, <4>2 DEF Wakes, WakesHolder
    <3>3. CASE holder # NoWorker
      <4>1. wake' = Earlier(wake, Now)  BY <3>1, <3>3 DEF Wake
      <4>2. wake' <= Soon  BY <4>1 DEF TypeOK, Earlier, Now, Soon, Never
      <4>3. Earlier(next', wake') <= Soon
        BY <4>2 DEF TypeOK, Earlier, Now, Soon, Late, Never
      <4> QED  BY <3>1, <3>3, <4>2, <4>3 DEF Wakes, WakesHolder
    <3> QED  BY <3>2, <3>3
  <2> QED  BY <1>1, <2>2, <2>3
<1>4. ASSUME NEW e \in Event, IngestAgain(e)
      PROVE  NearInv' /\ (Open' /\ Received(inbox') # {} => Wakes')
  <2>1. UNCHANGED <<inbox, holder>> /\ Wake(inbox[e].at) /\ Open  BY <1>4 DEF IngestAgain
  <2>t. inbox[e].at \in {Now, Soon, Never}  BY DEF TypeOK, InboxEvent
  <2>2. next <= Soon => next' <= Soon
    BY <2>1, <2>t DEF Wake, Earlier, TypeOK, Now, Soon, Late, Never
  <2>3. holder # NoWorker => (wake <= Soon => wake' <= Soon)
    BY <2>1, <2>t DEF Wake, Earlier, TypeOK, Now, Soon, Late, Never
  <2>4. NearInv'  BY <2>1 DEF WakeInv, NearInv
  <2>5. ASSUME Received(inbox') # {} PROVE Wakes'
    <3>1. Wakes  BY <2>1, <2>5 DEF WakeInv
    <3> QED  BY <1>1, <2>1, <2>2, <2>3, <3>1, NearerWakes
  <2> QED  BY <2>4, <2>5
<1>5. CASE Tick
  <2>0. /\ inbox' = [e \in Event |-> [inbox[e] EXCEPT !.at = Sooner(@)]]
        /\ next' = Sooner(next) /\ wake' = Sooner(wake) /\ holder' = holder
    BY <1>5 DEF Tick
  <2>1. \A e \in Event : inbox'[e].st = inbox[e].st /\ inbox'[e].at = Sooner(inbox[e].at)
    BY <2>0 DEF TypeOK, InboxEvent
  <2>2. NearInv'
    <3>1. ASSUME NEW e \in Received(inbox') PROVE inbox'[e].at <= Soon
      <4>1. e \in Event /\ inbox[e].at <= Soon
        BY <2>1 DEF Received, WakeInv
      <4>2. inbox[e].at \in {Now, Soon, Never}  BY <4>1 DEF TypeOK, InboxEvent
      <4> QED  BY <2>1, <4>1, <4>2 DEF Sooner, Now, Soon, Never
    <3> QED  BY <3>1 DEF NearInv
  <2>3. Received(inbox') = Received(inbox)  BY <2>1 DEF Received
  <2>4. (next <= Soon => next' <= Soon) /\ (wake <= Soon => wake' <= Soon)
    BY <2>0 DEF TypeOK, Sooner, Now, Soon, Late, Never
  <2>5. ASSUME Open', Received(inbox') # {} PROVE Wakes'
    <3>1. Wakes  BY <1>1, <2>3, <2>5 DEF WakeInv
    <3> QED  BY <1>1, <2>0, <2>4, <3>1, NearerWakes
  <2> QED  BY <2>2, <2>5
<1> QED  BY <1>2, <1>3, <1>4, <1>5 DEF Others, Provider, Clock

LEMMA StepWakes ==
    ASSUME TypeOK, WakeInv, [Next]_vars, TypeOK'
    PROVE  WakeInv'
<1>1. status' # "pin_changed" /\ \A w \in Workers : seen'[w].status # "pin_changed"
  BY SeenKept DEF WakeInv
<1>2. NearInv' /\ (Open' /\ Received(inbox') # {} => Wakes')
  <2>1. CASE UNCHANGED vars
    BY <2>1 DEF WakeInv, NearInv, Wakes, WakesHolder, Open, vars, dbVars, rowVars, leaseVars, workVars
  <2> QED  BY <2>1, WorkerWakes, OthersWake DEF Next, Others
<1> QED  BY <1>1, <1>2 DEF WakeInv, NearInv

(* WakeIsKept, for an activation that collects follow-up codes: whatever    *)
(* expires, is fenced or dies in between, a stored callback that no running *)
(* worker holds is looked at within a retry delay.                          *)
THEOREM CollectingWakes ==
    ASSUME Starts = {"subsequent"}
    PROVE  Spec => []WakeIsKept
<1>1. Init => WakeInv
  <2> SUFFICES ASSUME Init PROVE WakeInv  OBVIOUS
  <2>1. status = "subsequent"  BY Zenon DEF Init
  <2>2. \A w \in Workers : seen[w].status = ""  BY DEF Init, NotSeen
  <2>3. \A e \in Event : inbox[e].st # "received"  BY DEF Init, Fresh
  <2> QED  BY <2>1, <2>2, <2>3 DEF WakeInv, Received
<1>2. LockedTypes /\ LockedTypes' /\ WakeInv /\ [Next]_vars => WakeInv'
  BY StepWakes DEF LockedTypes
<1>3. LockedTypes /\ WakeInv => WakeIsKept
  BY DEF WakeInv, Wakes, WakesHolder, WakeIsKept
<1> QED  BY <1>1, <1>2, <1>3, LockedTypesHold, PTL DEF Spec

-----------------------------------------------------------------------------
(* The code of a callback *)

(* A worker that serves a callback has claimed it, with an activation that  *)
(* collects follow-up codes; past the row it has stored it, and it drops it *)
(* only for one that has no row while another code took the cycle.          *)
WithJob == {"blank", "examine", "append", "occupied", "local", "complete", "fail"}
Stored == {"advance", "ask", "ask_again", "reject", "accept", "bump", "checkpoint", "local",
           "complete"}
Jobless == {"idle", "lock", "claim", "ensure", "sync", "transition", "control", "expire",
            "finish", "finish_expired"}
Level(w) ==
    /\ seen[w].cycle <= cycle
    /\ seen[w].status = "subsequent" => seen[w].cycle >= 1
    /\ pc[w] \in {"sync", "transition", "checkpoint"} => cycle >= 1
Known(w) ==
    /\ seen[w].status \in {"", "subsequent", "pin_changed"}
    /\ pc[w] # "idle" => seen[w].status # ""
    /\ pc[w] = "claim" \/ job[w] # NoEvent => seen[w].status = "subsequent"
Fit(w, q) ==
    /\ q \in Jobless => job[w] = NoEvent
    /\ q \in WithJob => job[w] # NoEvent
    /\ q \in WithJob \cup Stored /\ job[w] # NoEvent => inbox[job[w]].st = "processing"
    /\ q \in Stored /\ job[w] # NoEvent => RowOf(job[w]) # {}
    /\ q = "append" => rows[seen[w].cycle] = NoEvent
    /\ q = "occupied" => RowOf(job[w]) = {} /\ \E c \in Cycle : rows[c] \in Event
    /\ q = "blank" => job[w] \in blank
Fits(w) == Fit(w, pc[w])
PinFirst ==
    /\ status = "subsequent" => cycle >= 1
    /\ \A c \in Cycle : rows[c] = PinCode <=> c = 0
CodeInv == PinFirst /\ CodeIsKept /\ \A w \in Workers : Level(w) /\ Known(w) /\ Fits(w)

CodeBase == InboxInv /\ CodeInv

LEMMA BaseTypes ==
    ASSUME CodeBase
    PROVE  /\ TypeOK /\ PcType /\ LockInv /\ CycleInv
           /\ cycle \in Nat /\ \A w \in Workers : seen[w].cycle \in Nat
           /\ \A w \in Workers : seen[w].cycle \in Cycle /\ job[w] \in Event \cup {NoEvent}
  BY DEF CodeBase, InboxInv, LockedTypes, TypeOK, PcType, CycleInv, OwnCycle, Seen

LEMMA ProcessingIsEvent ==
    ASSUME CodeBase, NEW w \in Workers, job[w] # NoEvent
    PROVE  job[w] \in Event
  BY BaseTypes

(* A worker that waits for the lock or is on its way out minds no change    *)
(* that another makes under the lock.                                       *)
Rests(v) == pc'[v] = pc[v] /\ seen'[v] = seen[v] /\ job'[v] = job[v]

LEMMA OtherLevel ==
    ASSUME NEW v \in Workers, Level(v), Known(v), Rests(v), cycle \in Nat, cycle' \in Nat,
           seen[v].cycle \in Nat, cycle' >= cycle
    PROVE  Level(v)' /\ Known(v)'
<1>1. Level(v)'  BY DEF Level, Rests
<1>2. Known(v)'  BY DEF Known, Rests
<1> QED  BY <1>1, <1>2

LEMMA UnlockedFits ==
    ASSUME NEW v \in Workers, Fits(v), Rests(v), pc[v] \in Unlocked
    PROVE  Fits(v)'
<1>1. pc'[v] \in Unlocked /\ (pc'[v] \in Jobless => job'[v] = NoEvent)
  BY DEF Fits, Fit, Rests
<1> QED  BY <1>1 DEF Fits, Fit, Unlocked, WithJob, Stored

LEMMA SameFits ==
    ASSUME NEW v \in Workers, Fits(v), Rests(v), UNCHANGED <<rows, blank>>,
           job[v] # NoEvent /\ inbox[job[v]].st = "processing"
              => inbox'[job[v]].st = "processing"
    PROVE  Fits(v)'
<1>1. RowOf(job[v])' = RowOf(job[v])  BY DEF RowOf, Rests
<1> QED  BY <1>1 DEF Fits, Fit, Rests

(* What the worker that acts keeps of its claim.                            *)
LEMMA GoesKnown ==
    ASSUME CodeBase, NEW w \in Workers, NEW q, Goto(w, q), seen'[w] = seen[w],
           job'[w] \in {job[w], NoEvent}, cycle' \in Nat, cycle' >= cycle, pc[w] # "idle",
           q = "claim" => seen[w].status = "subsequent",
           q \in {"sync", "transition", "checkpoint"} => cycle' >= 1
    PROVE  Level(w)' /\ Known(w)' /\ pc'[w] = q
<1>1. pc'[w] = q  BY BaseTypes DEF Goto, PcType
<1>2. Level(w) /\ Known(w) /\ cycle \in Nat /\ seen[w].cycle \in Nat
  BY BaseTypes DEF CodeBase, CodeInv
<1>3. Level(w)'  BY <1>1, <1>2 DEF Level
<1>4. Known(w)'  BY <1>1, <1>2 DEF Known
<1> QED  BY <1>1, <1>3, <1>4

LEMMA LeaveKnown ==
    ASSUME CodeBase, NEW w \in Workers, Leave(w), cycle' = cycle
    PROVE  Level(w)' /\ Known(w)' /\ Fits(w)'
<1>1. pc'[w] = "idle" /\ job'[w] = NoEvent /\ seen'[w] = NotSeen
  BY BaseTypes DEF Leave, Goto, TypeOK
<1>2. cycle \in Nat  BY BaseTypes
<1>3. NotSeen.cycle = 0 /\ NotSeen.status = ""  BY DEF NotSeen
<1>4. seen'[w].cycle = 0 /\ seen'[w].status # "subsequent"  BY <1>1, <1>3
<1>6. Level(w)'  BY <1>1, <1>2, <1>4 DEF Level
<1>5. Known(w)' /\ Fits(w)'
  BY <1>1, <1>3 DEF Known, Fits, Fit, WithJob, Stored
<1> QED  BY <1>5, <1>6

(* A worker after an error: back to the inbox only with its code.           *)
LEMMA ErrorFits ==
    ASSUME CodeBase, NEW w \in Workers, NEW q, Goto(w, q), seen'[w] = seen[w],
           job'[w] = job[w], cycle' \in Nat, cycle' >= cycle, pc[w] # "idle",
           q = OnError(w) \/ q = "error",
           job[w] # NoEvent => inbox'[job[w]].st = inbox[job[w]].st
    PROVE  Level(w)' /\ Known(w)' /\ Fits(w)'
<1>1. q = "error" \/ /\ q = "fail" /\ pc[w] \in BusinessSteps /\ job[w] # NoEvent
  BY DEF OnError
<1>2. Level(w)' /\ Known(w)' /\ pc'[w] = q  BY <1>1, GoesKnown
<1>3. Fits(w)  BY DEF CodeBase, CodeInv
<1>4. CASE q = "error"
  BY <1>2, <1>4 DEF Fits, Fit, WithJob, Stored, Jobless
<1>5. CASE q = "fail" /\ pc[w] \in BusinessSteps /\ job[w] # NoEvent
  <2>1. pc[w] \in WithJob \cup Stored  BY <1>5 DEF BusinessSteps, WithJob, Stored
  <2>2. inbox[job[w]].st = "processing"  BY <1>3, <1>5, <2>1 DEF Fits, Fit
  <2> QED  BY <1>2, <1>5, <2>2 DEF Fits, Fit, WithJob, Stored, Jobless
<1> QED  BY <1>1, <1>2, <1>4, <1>5

(* A step under the lock meets no other worker there.                       *)
LEMMA AloneUnderLock ==
    ASSUME CodeBase, NEW w \in Workers, pc[w] \notin Unlocked, NEW v \in Workers \ {w}
    PROVE  pc[v] \in Unlocked
  BY BaseTypes DEF LockInv

LEMMA OthersFit ==
    ASSUME CodeBase, NEW w \in Workers, Lease(w) \/ Work(w) \/ Trouble(w),
           cycle' \in Nat, cycle' >= cycle, blank' = blank,
           \/ pc[w] \notin Unlocked
           \/ rows' = rows /\ \A e \in Event : inbox'[e].st = inbox[e].st,
           NEW v \in Workers \ {w}
    PROVE  Level(v)' /\ Known(v)' /\ Fits(v)'
<1>1. Alone(w)  BY BaseTypes, WorkerAlone
<1>2. /\ Level(v) /\ Known(v) /\ Fits(v) /\ pc'[v] = pc[v] /\ seen'[v] = seen[v] /\ job'[v] = job[v]
      /\ cycle \in Nat /\ seen[v].cycle \in Nat
  BY <1>1, BaseTypes DEF Alone, CodeBase, CodeInv
<1>a. Level(v)' /\ Known(v)'  BY <1>2, OtherLevel DEF Rests
<1>3. CASE pc[w] \notin Unlocked
  BY <1>2, <1>3, <1>a, AloneUnderLock, UnlockedFits DEF Rests
<1>4. CASE rows' = rows /\ \A e \in Event : inbox'[e].st = inbox[e].st
  <2>1. job[v] # NoEvent /\ inbox[job[v]].st = "processing"
           => inbox'[job[v]].st = "processing"
    BY <1>4, ProcessingIsEvent
  <2> QED  BY <1>2, <1>4, <1>a, <2>1, SameFits DEF Rests
<1> QED  BY <1>3, <1>4

(* A step that changes neither the rows nor what became of an event.        *)
LEMMA SameCodes ==
    ASSUME CodeInv, UNCHANGED <<rows, cycle, status, blank>>,
           \A e \in Event : inbox'[e].st = inbox[e].st
    PROVE  PinFirst' /\ CodeIsKept'
  BY DEF CodeInv, PinFirst, CodeIsKept, RowOf, Open

(* What the acting worker has to show.                                      *)
CodeKept(w) == PinFirst' /\ CodeIsKept' /\ Level(w)' /\ Known(w)' /\ Fits(w)'

LEMMA QuietFits ==
    ASSUME CodeBase, NEW w \in Workers, NEW q, Goto(w, q), UNCHANGED <<seen, job, cycle>>,
           UNCHANGED <<rows, status, blank>>, StKept, pc[w] # "idle",
           q = "claim" => seen[w].status = "subsequent",
           q \in {"sync", "transition", "checkpoint"} => cycle >= 1,
           Fit(w, q)
    PROVE  CodeKept(w)
<1>1. PinFirst' /\ CodeIsKept'  BY SameCodes DEF StKept, CodeBase
<1>2. cycle' \in Nat /\ cycle' >= cycle  BY BaseTypes
<1>3. Level(w)' /\ Known(w)' /\ pc'[w] = q  BY <1>2, GoesKnown
<1>4. Fits(w)'
  <2>1. job'[w] # NoEvent => inbox'[job'[w]].st = inbox[job[w]].st
    BY ProcessingIsEvent DEF StKept
  <2>2. RowOf(job[w])' = RowOf(job[w])  BY DEF RowOf
  <2> QED  BY <1>3, <2>1, <2>2 DEF Fits, Fit
<1> QED  BY <1>1, <1>3, <1>4 DEF CodeKept

LEMMA QuietErrs ==
    ASSUME CodeBase, NEW w \in Workers, NEW q, Goto(w, q), UNCHANGED <<seen, job, cycle>>,
           UNCHANGED <<rows, status, blank>>, StKept, pc[w] # "idle",
           q = OnError(w) \/ q = "error"
    PROVE  CodeKept(w)
<1>1. PinFirst' /\ CodeIsKept'  BY SameCodes DEF StKept, CodeBase
<1>2. cycle' \in Nat /\ cycle' >= cycle  BY BaseTypes
<1>3. job[w] # NoEvent => inbox'[job[w]].st = inbox[job[w]].st
  BY ProcessingIsEvent DEF StKept
<1>4. Level(w)' /\ Known(w)' /\ Fits(w)'  BY <1>2, <1>3, ErrorFits
<1> QED  BY <1>1, <1>4 DEF CodeKept

LEMMA QuietLeaves ==
    ASSUME CodeBase, NEW w \in Workers, Leave(w), UNCHANGED <<cycle, rows, status, blank>>, StKept
    PROVE  CodeKept(w)
  BY SameCodes, LeaveKnown DEF StKept, CodeBase, CodeKept

LEMMA QuietAnswered ==
    ASSUME CodeBase, NEW w \in Workers, NEW q, Answered(w, q), UNCHANGED <<seen, job, cycle>>,
           UNCHANGED <<rows, status, blank>>, StKept, pc[w] # "idle",
           q = "claim" => seen[w].status = "subsequent",
           q \in {"sync", "transition", "checkpoint"} => cycle >= 1,
           Fit(w, q)
    PROVE  CodeKept(w)
<1>1. CASE Goto(w, q)  BY <1>1, QuietFits
<1>2. CASE Goto(w, OnError(w))  BY <1>2, QuietErrs
<1> QED  BY <1>1, <1>2 DEF Answered

LEMMA AnyFits ==
    ASSUME CodeBase, NEW w \in Workers
    PROVE  /\ Known(w) /\ Level(w) /\ Fit(w, pc[w])
           /\ \A q : q \notin WithJob \cup Stored \cup Jobless => Fit(w, q)
           /\ job[w] = NoEvent => \A q : q \notin WithJob => Fit(w, q)
<1>1. Known(w) /\ Level(w) /\ Fit(w, pc[w])  BY DEF CodeBase, CodeInv, Fits
<1>2. ASSUME NEW q, q \notin WithJob \cup Stored \cup Jobless PROVE Fit(w, q)
  BY <1>2 DEF Fit, WithJob
<1>3. ASSUME NEW q, job[w] = NoEvent, q \notin WithJob PROVE Fit(w, q)
  BY <1>3 DEF Fit, WithJob
<1> QED  BY <1>1, <1>2, <1>3

LEMMA LeaseCodes ==
    ASSUME CodeBase, NEW w \in Workers, Lease(w)
    PROVE  CodeKept(w) /\ StKept
<1>1. /\ pc[w] = "idle" /\ UNCHANGED <<status, cycle, rows, blank, job>> /\ Open
      /\ inbox' = [e \in Event |-> IF inbox[e].claim = w
                                   THEN [inbox[e] EXCEPT !.claim = OldLease] ELSE inbox[e]]
  BY DEF Lease, Runnable, worldVars
<1>2. /\ seen'[w].status = status /\ seen'[w].cycle = cycle /\ pc'[w] = "lock"
  BY BaseTypes DEF Lease, Goto, TypeOK
<1>3. StKept  BY <1>1, BaseTypes DEF StKept, TypeOK, InboxEvent
<1>4. PinFirst' /\ CodeIsKept'  BY <1>1, <1>3, SameCodes DEF StKept, CodeBase
<1>5. job[w] = NoEvent  BY <1>1, AnyFits DEF Fit, Jobless
<1>6. status \in {"pin_changed", "subsequent"}
  BY <1>1, BaseTypes DEF TypeOK, Statuses, Open
<1>7. Level(w)'
  <2>1. cycle \in Nat /\ (status = "subsequent" => cycle >= 1)
    BY BaseTypes DEF CodeBase, CodeInv, PinFirst
  <2> QED  BY <1>1, <1>2, <2>1 DEF Level
<1>8. Known(w)'  BY <1>1, <1>2, <1>5, <1>6 DEF Known
<1>9. Fits(w)'  BY <1>1, <1>2, <1>5 DEF Fits, Fit, WithJob, Stored
<1> QED  BY <1>3, <1>4, <1>7, <1>8, <1>9 DEF CodeKept

LEMMA RestCodes ==
    ASSUME CodeBase, NEW w \in Workers, Lock(w) \/ Trouble(w)
    PROVE  CodeKept(w) /\ StKept
<1>0. UNCHANGED <<status, cycle, rows, blank, inbox>> /\ StKept
  BY DEF Lock, Trouble, LockFails, CallFails, Crash, Cancelled, dbVars, rowVars, worldVars, StKept
<1>1. CASE Lock(w)
  <2>1. pc[w] = "lock" /\ Goto(w, Branch(w)) /\ UNCHANGED <<seen, job>>
    BY <1>1 DEF Lock
  <2>2. job[w] = NoEvent /\ seen[w].status \in {"pin_changed", "subsequent"}
    BY <2>1, AnyFits DEF Fit, Jobless, Known
  <2>3. /\ Branch(w) \in {"control", "ensure", "expire", "claim"}
        /\ Branch(w) = "claim" => seen[w].status = "subsequent"
    BY <2>2 DEF Branch
  <2>4. Fit(w, Branch(w))  BY <2>2, <2>3, AnyFits DEF WithJob
  <2> QED  BY <1>0, <2>1, <2>3, <2>4, QuietFits
<1>2. CASE LockFails(w) \/ Crash(w) \/ Cancelled(w)
  <2>1. CASE Leave(w)  BY <1>0, <2>1, QuietLeaves
  <2>2. CASE Goto(w, "error") /\ Keep /\ pc[w] = "lock"
    BY <1>0, <2>2, QuietErrs DEF Keep
  <2> QED  BY <1>2, <2>1, <2>2 DEF LockFails, Crash, Cancelled
<1>3. CASE CallFails(w)
  <2>1. CASE Leave(w)  BY <1>0, <2>1, QuietLeaves
  <2>2. CASE Goto(w, OnError(w)) /\ Keep
    <3>1. pc[w] # "idle"  BY <1>3 DEF CallFails, CallSteps, BusinessSteps
    <3> QED  BY <1>0, <2>2, <3>1, QuietErrs DEF Keep
  <2> QED  BY <1>3, <2>1, <2>2 DEF CallFails
<1> QED  BY <1>0, <1>1, <1>2, <1>3 DEF Trouble

LEMMA AdvanceCodes ==
    ASSUME CodeBase, NEW w \in Workers, AdvanceCycle(w), ~Bump(w)
    PROVE  CodeKept(w)
<1>0. UNCHANGED <<status, cycle, rows, blank, inbox>> /\ StKept /\ UNCHANGED <<seen, job>>
  BY DEF AdvanceCycle, Advance, Ask, Reject, Accept, Checkpoint, dbVars, rowVars, worldVars, StKept, Keep
<1>1. pc[w] \in Stored /\ pc[w] # "idle"
  BY DEF AdvanceCycle, Advance, Ask, Reject, Accept, Checkpoint, Stored
<1>2. Fit(w, pc[w])  BY AnyFits
<1>3. ASSUME NEW q \in Stored \ {"local", "complete"} PROVE Fit(w, q)
  BY <1>1, <1>2 DEF Fit, Stored, WithJob, Jobless
<1>4. CASE Advance(w)
  <2>1. Answered(w, "ask") \/ Goto(w, "ask_again") \/ Goto(w, "bump")
    BY <1>4 DEF Advance
  <2> QED  BY <1>0, <1>1, <1>3, <2>1, QuietFits, QuietAnswered DEF Stored
<1>5. CASE Ask(w)
  <2>1. Answered(w, "accept") \/ Answered(w, "reject")
    BY <1>5 DEF Ask
  <2> QED  BY <1>0, <1>1, <1>3, <2>1, QuietAnswered DEF Stored
<1>6. CASE Reject(w)  BY <1>0, <1>1, <1>6, QuietErrs DEF Reject
<1>7. CASE Accept(w)  BY <1>0, <1>1, <1>3, <1>7, QuietAnswered DEF Accept, Stored
<1>8. CASE Checkpoint(w)
  <2>1. cycle >= 1  BY <1>8, AnyFits DEF Checkpoint, Level
  <2>2. CASE job[w] # NoEvent
    <3>1. Answered(w, "complete")  BY <1>8, <2>2 DEF Checkpoint
    <3>2. Fit(w, "complete")  BY <1>1, <1>2, <2>2 DEF Fit, Stored, WithJob, Jobless
    <3> QED  BY <1>0, <1>1, <3>1, <3>2, QuietAnswered
  <2>3. CASE job[w] = NoEvent
    <3>1. Answered(w, "transition") \/ Answered(w, "wait")
      BY <1>8, <2>3 DEF Checkpoint, AfterEnsure
    <3>2. Fit(w, "transition") /\ Fit(w, "wait")  BY <2>3, AnyFits DEF WithJob
    <3> QED  BY <1>0, <1>1, <2>1, <3>1, <3>2, QuietAnswered
  <2> QED  BY <2>2, <2>3
<1> QED  BY <1>4, <1>5, <1>6, <1>7, <1>8 DEF AdvanceCycle

LEMMA ExamineCodes ==
    ASSUME CodeBase, NEW w \in Workers, Examine(w)
    PROVE  CodeKept(w)
<1>0. /\ UNCHANGED <<status, cycle, rows, blank, seen, job>> /\ StKept
      /\ pc[w] = "examine" /\ Goto(w, AfterExamine(w))
  BY DEF Examine, dbVars, rowVars, worldVars, StKept
<1>1. Fit(w, "examine") /\ Known(w) /\ Level(w)  BY <1>0, AnyFits
<1>2. job[w] # NoEvent /\ inbox[job[w]].st = "processing"
  BY <1>1 DEF Fit, WithJob
<1>3. seen[w].cycle \in Cycle /\ seen[w].cycle >= 1
  BY <1>1, <1>2, BaseTypes DEF Known, Level
<1>4. Fit(w, AfterExamine(w))
  <2>1. CASE RowOf(job[w]) # {}
    <3>1. AfterExamine(w) \in {"local", "advance"}  BY <2>1 DEF AfterExamine
    <3> QED  BY <1>2, <2>1, <3>1 DEF Fit, WithJob, Stored, Jobless
  <2>2. CASE RowOf(job[w]) = {} /\ rows[seen[w].cycle] # NoEvent
    <3>1. AfterExamine(w) = "occupied"  BY <2>2 DEF AfterExamine
    <3>2. seen[w].cycle # 0  BY <1>3, BaseTypes
    <3>3. rows[seen[w].cycle] # PinCode
      BY <1>3, <3>2 DEF CodeBase, CodeInv, PinFirst
    <3>4. rows[seen[w].cycle] \in Event
      BY <1>3, <2>2, <3>3, BaseTypes DEF TypeOK
    <3> QED  BY <1>2, <1>3, <2>2, <3>1, <3>4 DEF Fit, WithJob, Stored, Jobless
  <2>3. CASE RowOf(job[w]) = {} /\ rows[seen[w].cycle] = NoEvent
    <3>1. AfterExamine(w) = "append"  BY <2>3 DEF AfterExamine
    <3> QED  BY <1>2, <2>3, <3>1 DEF Fit, WithJob, Stored, Jobless
  <2> QED  BY <2>1, <2>2, <2>3
<1>5. AfterExamine(w) \in {"local", "advance", "occupied", "append"}  BY DEF AfterExamine
<1> QED  BY <1>0, <1>4, <1>5, QuietFits

LEMMA AppendCodes ==
    ASSUME CodeBase, NEW w \in Workers, Append(w)
    PROVE  CodeKept(w)
<1>0. UNCHANGED <<status, cycle, inbox, blank, seen, job>> /\ StKept /\ pc[w] = "append"
  BY DEF Append, rowVars, worldVars, StKept, Keep
<1>1. Fit(w, "append") /\ Known(w) /\ Level(w)  BY <1>0, AnyFits
<1>2. /\ job[w] \in Event /\ inbox[job[w]].st = "processing"
      /\ rows[seen[w].cycle] = NoEvent
  BY <1>1, ProcessingIsEvent DEF Fit, WithJob
<1>3. CASE ~OwnsLease(w)
  <2>1. Goto(w, "fail") /\ rows' = rows  BY <1>3 DEF Append
  <2>2. Fit(w, "fail")
    BY <1>2, InboxNulls DEF Fit, WithJob, Stored, Jobless
  <2> QED  BY <1>0, <2>1, <2>2, QuietFits
<1>4. CASE OwnsLease(w)
  <2>1. seen[w].cycle = cycle /\ cycle \in Cycle /\ cycle >= 1
    <3>1. seen[w].cycle = cycle
      BY <1>0, <1>4, BaseTypes DEF CycleInv, OwnCycle, OnCycle, OwnsLease
    <3> QED  BY <1>1, <1>2, <3>1, BaseTypes, InboxNulls DEF Known, Level
  <2>2. rows' = [rows EXCEPT ![cycle] = job[w]]
    <3>1. rows' = [rows EXCEPT ![cycle] = IF @ = NoEvent THEN job[w] ELSE @]
      BY <1>4, <2>1 DEF Append
    <3> QED  BY <1>2, <2>1, <3>1
  <2>3. /\ rows \in [Cycle -> Event \cup {PinCode, NoEvent}]
        /\ cycle # 0 /\ rows[cycle] = NoEvent
    BY <1>2, <2>1, BaseTypes DEF TypeOK
  <2>4. rows'[cycle] = job[w] /\ \A c \in Cycle \ {cycle} : rows'[c] = rows[c]
    BY <2>1, <2>2, <2>3
  <2>5. PinFirst'
    BY <1>0, <1>2, <2>3, <2>4, InboxNulls DEF CodeBase, CodeInv, PinFirst
  <2>6. RowOf(job[w])' # {}
    BY <1>0, <2>1, <2>4 DEF RowOf
  <2>7. CodeIsKept'
    <3>1. SUFFICES ASSUME NEW e \in Event \ blank
                   PROVE  /\ inbox'[e].st = "processed" => RowOf(e)' # {}
                          /\ inbox'[e].st = "ignored" /\ Open' =>
                                 RowOf(e)' = {} /\ \E c \in Cycle : rows'[c] \in Event
      BY <1>0 DEF CodeIsKept
    <3>2. /\ inbox[e].st = "processed" => RowOf(e) # {}
          /\ inbox[e].st = "ignored" /\ Open =>
                 RowOf(e) = {} /\ \E c \in Cycle : rows[c] \in Event
      BY DEF CodeBase, CodeInv, CodeIsKept
    <3>3. RowOf(e) # {} => RowOf(e)' # {}
      BY <2>3, <2>4, InboxNulls DEF RowOf
    <3>4. (\E c \in Cycle : rows[c] \in Event) => \E c \in Cycle : rows'[c] \in Event
      BY <2>3, <2>4, InboxNulls
    <3>5. RowOf(e) = {} /\ e # job[w] => RowOf(e)' = {}
      BY <2>4 DEF RowOf
    <3> QED  BY <1>0, <1>2, <3>2, <3>3, <3>4, <3>5 DEF Open
  <2>8. \E q \in {"advance", "fail"} : Goto(w, q)
    <3>1. OnError(w) = "fail"  BY <1>0, <1>2, InboxNulls DEF OnError, BusinessSteps
    <3>2. Answered(w, "advance")  BY <1>4 DEF Append
    <3> QED  BY <3>1, <3>2 DEF Answered
  <2>9. PICK q \in {"advance", "fail"} : Goto(w, q)  BY <2>8
  <2>10. Level(w)' /\ Known(w)' /\ pc'[w] = q
    BY <1>0, <2>9, GoesKnown, BaseTypes
  <2>11. Fits(w)'
    BY <1>0, <1>2, <2>6, <2>9, <2>10, InboxNulls DEF Fits, Fit, WithJob, Stored, Jobless
  <2> QED  BY <2>5, <2>7, <2>10, <2>11 DEF CodeKept
<1> QED  BY <1>3, <1>4

LEMMA CollectCodes ==
    ASSUME CodeBase, NEW w \in Workers, SaveLocal(w) \/ Ensure(w) \/ Sync(w)
    PROVE  CodeKept(w)
<1>0. UNCHANGED <<status, cycle, rows, blank, inbox>> /\ StKept /\ UNCHANGED <<seen, job>>
  BY DEF SaveLocal, Ensure, Sync, dbVars, rowVars, worldVars, StKept, Keep
<1>1. CASE SaveLocal(w)
  <2>1. pc[w] = "local" /\ Answered(w, "complete")  BY <1>1 DEF SaveLocal
  <2>2. Fit(w, "complete")
    BY <2>1, AnyFits DEF Fit, WithJob, Stored, Jobless
  <2> QED  BY <1>0, <2>1, <2>2, QuietAnswered
<1>2. CASE Ensure(w)
  <2>1. pc[w] = "ensure" /\ Goto(w, AfterNone(w))  BY <1>2 DEF Ensure
  <2>2. job[w] = NoEvent  BY <2>1, AnyFits DEF Fit, Jobless
  <2>3. AfterNone(w) \in {"wait", "sync", "advance"}  BY DEF AfterNone
  <2>4. Fit(w, AfterNone(w))  BY <2>2, <2>3, AnyFits DEF WithJob
  <2>5. AfterNone(w) = "sync" => cycle >= 1
    <3>1. SUFFICES ASSUME AfterNone(w) = "sync" PROVE cycle >= 1  OBVIOUS
    <3>2. rows[0] = PinCode /\ 0 \in Cycle
      BY ZeroInCycle DEF CodeBase, CodeInv, PinFirst
    <3>3. 0 < seen[w].cycle
      BY <3>1, <3>2, InboxNulls DEF AfterNone, Taken
    <3> QED  BY <3>3, AnyFits, BaseTypes DEF Level
  <2> QED  BY <1>0, <2>1, <2>3, <2>4, <2>5, QuietFits
<1>3. CASE Sync(w)
  <2>1. /\ pc[w] = "sync"
        /\ Answered(w, "transition") \/ Answered(w, "wait")
    BY <1>3 DEF Sync, AfterEnsure
  <2>2. job[w] = NoEvent  BY <2>1, AnyFits DEF Fit, Jobless
  <2>3. Fit(w, "transition") /\ Fit(w, "wait")  BY <2>2, AnyFits DEF WithJob
  <2>4. cycle >= 1  BY <2>1, AnyFits DEF Level
  <2> QED  BY <1>0, <2>1, <2>3, <2>4, QuietAnswered
<1> QED  BY <1>1, <1>2, <1>3

LEMMA BumpCodes ==
    ASSUME CodeBase, NEW w \in Workers, Bump(w)
    PROVE  CodeKept(w) /\ cycle' \in Nat /\ cycle' >= cycle
<1>0. /\ UNCHANGED <<status, inbox, rows, blank, seen, job>> /\ StKept /\ pc[w] = "bump"
      /\ cycle \in Nat
  BY BaseTypes DEF Bump, worldVars, StKept
<1>1. Fit(w, "bump") /\ Known(w) /\ Level(w)  BY <1>0, AnyFits
<1>2. CASE ~OwnsLease(w)
  <2>1. Goto(w, OnError(w)) /\ cycle' = cycle  BY <1>2 DEF Bump
  <2> QED  BY <1>0, <2>1, QuietErrs
<1>3. CASE OwnsLease(w)
  <2>1. cycle' = cycle + 1 /\ Answered(w, "checkpoint")  BY <1>3 DEF Bump
  <2>2. PinFirst' /\ CodeIsKept'
    <3>1. PinFirst'  BY <1>0, <2>1 DEF CodeBase, CodeInv, PinFirst
    <3>2. CodeIsKept'  BY <1>0 DEF CodeBase, CodeInv, CodeIsKept, RowOf, Open
    <3> QED  BY <3>1, <3>2
  <2>3. cycle' \in Nat /\ cycle' >= cycle /\ cycle' >= 1  BY <1>0, <2>1
  <2>4. CASE Goto(w, OnError(w))
    <3>1. Level(w)' /\ Known(w)' /\ Fits(w)'
      BY <1>0, <2>3, <2>4, ErrorFits
    <3> QED  BY <2>2, <2>3, <3>1 DEF CodeKept
  <2>5. CASE Goto(w, "checkpoint")
    <3>1. Level(w)' /\ Known(w)' /\ pc'[w] = "checkpoint"
      BY <1>0, <2>3, <2>5, GoesKnown
    <3>2. RowOf(job[w])' = RowOf(job[w])  BY <1>0 DEF RowOf
    <3>3. Fits(w)'
      BY <1>0, <1>1, <3>1, <3>2 DEF Fits, Fit, WithJob, Stored, Jobless
    <3> QED  BY <2>2, <2>3, <3>1, <3>3 DEF CodeKept
  <2> QED  BY <2>1, <2>4, <2>5 DEF Answered
<1> QED  BY <1>2, <1>3

(* An answer about the claimed event, if it is a true one, keeps its code.  *)
LEMMA MarkedCodes ==
    ASSUME CodeBase, NEW e \in Event, UNCHANGED <<rows, status, cycle, blank>>,
           NEW st, inbox'[e].st = st,
           \A d \in Event \ {e} : inbox'[d] = inbox[d],
           st = "processed" /\ e \notin blank => RowOf(e) # {},
           st = "ignored" /\ e \notin blank /\ Open => RowOf(e) = {} /\ \E c \in Cycle : rows[c] \in Event
    PROVE  PinFirst' /\ CodeIsKept'
<1>1. PinFirst'  BY DEF CodeBase, CodeInv, PinFirst
<1>2. ASSUME NEW d \in Event \ blank
      PROVE  /\ inbox'[d].st = "processed" => RowOf(d) # {}
             /\ inbox'[d].st = "ignored" /\ Open => RowOf(d) = {} /\ \E c \in Cycle : rows[c] \in Event
  <2>1. CASE d = e  BY <2>1
  <2>2. CASE d # e  BY <2>2 DEF CodeBase, CodeInv, CodeIsKept
  <2> QED  BY <2>1, <2>2
<1> QED  BY <1>1, <1>2 DEF CodeIsKept, RowOf, Open

LEMMA JobIsMarked ==
    ASSUME CodeBase, NEW w \in Workers, job[w] \in Event, NEW st,
           inbox' = [inbox EXCEPT ![job[w]].st = st]
    PROVE  inbox'[job[w]].st = st /\ \A d \in Event \ {job[w]} : inbox'[d] = inbox[d]
  BY BaseTypes DEF TypeOK, InboxEvent

LEMMA ClaimCodes ==
    ASSUME CodeBase, NEW w \in Workers, Claim(w)
    PROVE  CodeKept(w)
<1>0. UNCHANGED <<status, cycle, rows, blank, seen>> /\ pc[w] = "claim"
  BY DEF Claim, worldVars
<1>1. Fit(w, "claim") /\ Known(w) /\ Level(w)  BY <1>0, AnyFits
<1>2. job[w] = NoEvent /\ seen[w].status = "subsequent"
  BY <1>0, <1>1 DEF Fit, Jobless, Known
<1>3. CASE /\ UNCHANGED <<inbox, job>>
           /\ Goto(w, "error") \/ Answered(w, "ensure")
  <2>1. Fit(w, "ensure")  BY <1>2, AnyFits DEF WithJob
  <2>2. StKept  BY <1>3 DEF StKept
  <2> QED  BY <1>0, <1>3, <2>1, <2>2, QuietErrs, QuietAnswered
<1>4. ASSUME NEW e \in Event, inbox' = [inbox EXCEPT ![e].st = "processing", ![e].claim = w],
             \/ /\ Goto(w, IF e \in blank THEN "blank" ELSE "examine")
                /\ job' = [job EXCEPT ![w] = e]
             \/ Goto(w, "error") /\ UNCHANGED job
      PROVE  CodeKept(w)
  <2>1. inbox'[e].st = "processing" /\ \A d \in Event \ {e} : inbox'[d] = inbox[d]
    BY <1>4, BaseTypes DEF TypeOK, InboxEvent
  <2>2. PinFirst' /\ CodeIsKept'  BY <1>0, <2>1, MarkedCodes
  <2>3. cycle' \in Nat /\ cycle' >= cycle  BY <1>0, BaseTypes
  <2>4. CASE Goto(w, "error") /\ UNCHANGED job
    <3>1. Level(w)' /\ Known(w)' /\ Fits(w)'
      BY <1>0, <1>2, <2>3, <2>4, ErrorFits
    <3> QED  BY <2>2, <3>1 DEF CodeKept
  <2>5. CASE /\ Goto(w, IF e \in blank THEN "blank" ELSE "examine")
             /\ job' = [job EXCEPT ![w] = e]
    <3>1. job'[w] = e /\ e # NoEvent  BY <2>5, BaseTypes, InboxNulls DEF TypeOK
    <3>2. pc'[w] = IF e \in blank THEN "blank" ELSE "examine"
      BY <2>5, BaseTypes DEF Goto, PcType
    <3>3. Level(w)'
      <4>1. pc'[w] \in {"blank", "examine"}  BY <3>2
      <4> QED  BY <1>0, <1>1, <4>1 DEF Level
    <3>4. Known(w)'  BY <1>0, <1>2, <3>2 DEF Known
    <3>5. Fits(w)'
      BY <1>0, <2>1, <3>1, <3>2 DEF Fits, Fit, WithJob, Stored, Jobless
    <3> QED  BY <2>2, <3>3, <3>4, <3>5 DEF CodeKept
  <2> QED  BY <1>4, <2>4, <2>5
<1>5. \/ UNCHANGED <<inbox, job>> /\ (Goto(w, "error") \/ Answered(w, "ensure"))
      \/ /\ Candidates(w) # {}
         /\ inbox' = [inbox EXCEPT ![NextEvent(w)].st = "processing", ![NextEvent(w)].claim = w]
         /\ \/ /\ Goto(w, IF NextEvent(w) \in blank THEN "blank" ELSE "examine")
               /\ job' = [job EXCEPT ![w] = NextEvent(w)]
            \/ Goto(w, "error") /\ UNCHANGED job
  BY Zenon DEF Claim
<1>6. Candidates(w) # {} => NextEvent(w) \in Event
  BY NextEventTyped DEF Candidates
<1> QED  BY <1>3, <1>4, <1>5, <1>6

(* IgnoreOccupied and Complete.                                             *)
LEMMA AnswerCodes ==
    ASSUME CodeBase, NEW w \in Workers, NEW st, NEW q, Acknowledge(w, st, q), UNCHANGED job,
           pc[w] \notin BusinessSteps, pc[w] # "idle", job[w] \in Event,
           q \notin WithJob \cup Stored \cup Jobless,
           st = "processed" => RowOf(job[w]) # {},
           st = "ignored" => RowOf(job[w]) = {} /\ \E c \in Cycle : rows[c] \in Event
    PROVE  CodeKept(w)
<1>0. UNCHANGED <<status, cycle, rows, blank, seen>>  BY DEF Acknowledge, worldVars
<1>1. OnError(w) = "error"  BY DEF OnError
<1>2. CASE Goto(w, "error") /\ UNCHANGED inbox
  BY <1>0, <1>2, QuietErrs DEF StKept
<1>3. CASE inbox' = Settled(w, st) /\ Answered(w, q)
  <2>1. PinFirst' /\ CodeIsKept'
    BY <1>0, <1>3, JobIsMarked, MarkedCodes DEF Settled
  <2>2. PICK p \in {q, "error"} : Goto(w, p)  BY <1>1, <1>3 DEF Answered
  <2>3. cycle' \in Nat /\ cycle' >= cycle  BY <1>0, BaseTypes
  <2>4. p \notin WithJob \cup Stored \cup Jobless
    BY <2>2 DEF WithJob, Stored, Jobless
  <2>5. Level(w)' /\ Known(w)' /\ pc'[w] = p
    BY <1>0, <2>2, <2>3, <2>4, GoesKnown DEF Jobless, Stored
  <2>6. Fits(w)'  BY <2>4, <2>5 DEF Fits, Fit, WithJob, Stored, Jobless
  <2> QED  BY <2>1, <2>5, <2>6 DEF CodeKept
<1> QED  BY <1>2, <1>3 DEF Acknowledge

LEMMA ServeCodes ==
    ASSUME CodeBase, NEW w \in Workers, Serve(w)
    PROVE  CodeKept(w)
<1>1. CASE IgnoreBlank(w)
  <2>0. UNCHANGED <<status, cycle, rows, blank, seen>> /\ pc[w] = "blank"
    BY <1>1 DEF IgnoreBlank, Acknowledge, worldVars
  <2>1. job[w] \in Event /\ job[w] \in blank /\ seen[w].status = "subsequent"
    BY <2>0, AnyFits, BaseTypes DEF Fit, WithJob, Known
  <2>2. job'[w] = NoEvent  BY <1>1, BaseTypes DEF IgnoreBlank, TypeOK
  <2>3. OnError(w) = "error"  BY <2>0 DEF OnError, BusinessSteps
  <2>4. /\ \/ UNCHANGED inbox
           \/ inbox' = [inbox EXCEPT ![job[w]].st = "ignored"]
        /\ \E p \in {"claim", "wait_now", "error"} : Goto(w, p)
    BY <1>1, <2>3 DEF IgnoreBlank, Acknowledge, Settled, Answered
  <2>5. PICK p \in {"claim", "wait_now", "error"} : Goto(w, p)  BY <2>4
  <2>6. PinFirst' /\ CodeIsKept'
    <3>1. CASE UNCHANGED inbox  BY <2>0, <3>1, SameCodes DEF CodeBase
    <3>2. CASE inbox' = [inbox EXCEPT ![job[w]].st = "ignored"]
      BY <2>0, <2>1, <3>2, JobIsMarked, MarkedCodes
    <3> QED  BY <2>4, <3>1, <3>2
  <2>7. cycle' \in Nat /\ cycle' >= cycle  BY <2>0, BaseTypes
  <2>8. Level(w)' /\ Known(w)' /\ pc'[w] = p
    BY <2>0, <2>1, <2>2, <2>5, <2>7, GoesKnown
  <2>9. Fits(w)'  BY <2>2, <2>5, <2>8 DEF Fits, Fit, WithJob
  <2> QED  BY <2>6, <2>8, <2>9 DEF CodeKept
<1>2. CASE IgnoreOccupied(w)
  <2>1. pc[w] = "occupied" /\ Acknowledge(w, "ignored", "look") /\ UNCHANGED job
    BY <1>2 DEF IgnoreOccupied
  <2>2. job[w] \in Event /\ RowOf(job[w]) = {} /\ \E c \in Cycle : rows[c] \in Event
    BY <2>1, AnyFits, BaseTypes DEF Fit, WithJob
  <2> QED  BY <2>1, <2>2, AnswerCodes DEF BusinessSteps, WithJob, Stored, Jobless
<1>3. CASE Complete(w)
  <2>1. pc[w] = "complete" /\ Acknowledge(w, "processed", "wait") /\ UNCHANGED job
    BY <1>3 DEF Complete
  <2>2. job[w] \in Event /\ RowOf(job[w]) # {}
    BY <2>1, AnyFits, BaseTypes DEF Fit, WithJob, Stored
  <2> QED  BY <2>1, <2>2, AnswerCodes DEF BusinessSteps, WithJob, Stored, Jobless
<1>4. CASE FailEvent(w)
  <2>0. /\ UNCHANGED <<status, cycle, rows, blank, seen, job>> /\ pc[w] = "fail"
        /\ Goto(w, "error")
    BY <1>4 DEF FailEvent, worldVars, Keep
  <2>1. job[w] \in Event  BY <2>0, AnyFits, BaseTypes DEF Fit, WithJob
  <2>2. CASE UNCHANGED inbox
    BY <2>0, <2>2, QuietErrs DEF StKept
  <2>3. CASE inbox' = [inbox EXCEPT ![job[w]] =
                          [st |-> "received", at |-> Soon, claim |-> NoWorker]]
    <3>1. inbox'[job[w]].st = "received" /\ \A d \in Event \ {job[w]} : inbox'[d] = inbox[d]
      BY <2>1, <2>3, BaseTypes DEF TypeOK
    <3>2. PinFirst' /\ CodeIsKept'  BY <2>0, <2>1, <3>1, MarkedCodes
    <3>3. cycle' \in Nat /\ cycle' >= cycle  BY <2>0, BaseTypes
    <3>4. Level(w)' /\ Known(w)' /\ pc'[w] = "error"
      BY <2>0, <3>3, GoesKnown
    <3>5. Fits(w)'  BY <3>4 DEF Fits, Fit, WithJob, Stored, Jobless
    <3> QED  BY <3>2, <3>4, <3>5 DEF CodeKept
  <2> QED  BY <1>4, <2>2, <2>3 DEF FailEvent
<1> QED  BY <1>1, <1>2, <1>3, <1>4, ClaimCodes DEF Serve

LEMMA SettleCodes ==
    ASSUME CodeBase, NEW w \in Workers, Settle(w)
    PROVE  CodeKept(w)
<1>1. CASE Transition(w)
  <2>0. UNCHANGED <<cycle, rows, blank, seen, job, inbox>> /\ pc[w] = "transition"
    BY <1>1 DEF Transition, worldVars, Keep
  <2>1. cycle >= 1 /\ cycle' \in Nat /\ cycle' >= cycle
    BY <2>0, AnyFits, BaseTypes DEF Level
  <2>2. PinFirst'  BY <2>0, <2>1 DEF CodeBase, CodeInv, PinFirst
  <2>3. Open' => Open  BY <1>1 DEF Transition, Open, Finished
  <2>4. CodeIsKept'  BY <2>0, <2>3 DEF CodeBase, CodeInv, CodeIsKept, RowOf
  <2>5. OnError(w) = "error"  BY <2>0 DEF OnError, BusinessSteps
  <2>6. \E p \in {"wait", "error"} : Goto(w, p)
    BY <1>1, <2>5 DEF Transition, Answered
  <2>7. PICK p \in {"wait", "error"} : Goto(w, p)  BY <2>6
  <2>8. Level(w)' /\ Known(w)' /\ pc'[w] = p  BY <2>0, <2>1, <2>7, GoesKnown
  <2>9. Fits(w)'  BY <2>8 DEF Fits, Fit, WithJob, Stored, Jobless
  <2> QED  BY <2>2, <2>4, <2>8, <2>9 DEF CodeKept
<1>2. CASE Finish(w)
  <2>0. UNCHANGED <<cycle, rows, blank, seen, job>> /\ pc[w] \in {"finish", "finish_expired"}
    BY <1>2 DEF Finish, worldVars, Keep
  <2>1. CASE Goto(w, "error") /\ UNCHANGED <<status, inbox>>
    BY <2>0, <2>1, QuietErrs DEF StKept
  <2>2. CASE status' = End(w) /\ inbox' = Closed(inbox) /\ Answered(w, "look")
    <3>1. ~Open' /\ status' # "subsequent"  BY <2>2 DEF End, Open, Finished
    <3>2. PinFirst'  BY <2>0, <3>1 DEF CodeBase, CodeInv, PinFirst
    <3>3. \A e \in Event : inbox'[e].st = "processed" => inbox[e].st = "processed"
      BY <2>2, BaseTypes DEF Closed, Pending, TypeOK, InboxEvent
    <3>4. CodeIsKept'  BY <2>0, <3>1, <3>3 DEF CodeBase, CodeInv, CodeIsKept, RowOf
    <3>5. OnError(w) = "error"  BY <2>0 DEF OnError, BusinessSteps
    <3>6. PICK p \in {"look", "error"} : Goto(w, p)  BY <2>2, <3>5 DEF Answered
    <3>7. cycle' \in Nat /\ cycle' >= cycle  BY <2>0, BaseTypes
    <3>8. Level(w)' /\ Known(w)' /\ pc'[w] = p  BY <2>0, <3>6, <3>7, GoesKnown
    <3>9. Fits(w)'  BY <3>8 DEF Fits, Fit, WithJob, Stored, Jobless
    <3> QED  BY <3>2, <3>4, <3>8, <3>9 DEF CodeKept
  <2> QED  BY <1>2, <2>1, <2>2 DEF Finish
<1>3. CASE Wait(w) \/ Conclude(w) \/ Look(w) \/ Release(w)
  <2>0. UNCHANGED <<status, cycle, rows, blank, inbox>> /\ StKept /\ pc[w] # "idle"
    BY <1>3 DEF Wait, Conclude, Look, Release, dbVars, rowVars, worldVars, StKept
  <2>1. CASE Leave(w)  BY <2>0, <2>1, QuietLeaves
  <2>2. CASE ~Leave(w) /\ UNCHANGED <<seen, job>>
    <3>1. pc[w] \notin BusinessSteps  BY <1>3 DEF Wait, Conclude, Look, Release, BusinessSteps
    <3>2. OnError(w) = "error"  BY <3>1 DEF OnError
    <3>3. CASE Goto(w, "error")  BY <2>0, <2>2, <3>3, QuietErrs
    <3>4. CASE Goto(w, "look") \/ Goto(w, "release")
      BY <2>0, <2>2, <3>4, AnyFits, QuietFits DEF WithJob, Stored, Jobless
    <3>5. CASE pc[w] \in {"control", "expire"} /\ (Goto(w, "finish") \/ Goto(w, "finish_expired"))
      <4>1. job[w] = NoEvent  BY <3>5, AnyFits DEF Fit, Jobless
      <4>2. Fit(w, "finish") /\ Fit(w, "finish_expired")  BY <4>1, AnyFits DEF WithJob
      <4> QED  BY <2>0, <2>2, <3>5, <4>2, QuietFits
    <3>6. Goto(w, "error") \/ Goto(w, "look") \/ Goto(w, "release")
            \/ (pc[w] \in {"control", "expire"} /\ (Goto(w, "finish") \/ Goto(w, "finish_expired")))
      BY <1>3, <2>2, <3>2 DEF Wait, Conclude, Look, Release, Answered
    <3> QED  BY <3>3, <3>4, <3>5, <3>6
  <2> QED  BY <1>3, <2>1, <2>2 DEF Wait, Conclude, Look, Release, Keep
<1> QED  BY <1>1, <1>2, <1>3 DEF Settle

LEMMA WorkerCodes ==
    ASSUME CodeBase, NEW w \in Workers, Lease(w) \/ Work(w) \/ Trouble(w)
    PROVE  CodeInv'
<1>1. CodeKept(w) /\ (pc[w] \notin Unlocked \/ StKept)
  <2>1. CASE Lease(w) \/ Lock(w) \/ Trouble(w)
    BY <2>1, LeaseCodes, RestCodes
  <2>2. CASE Serve(w) \/ Collect(w) \/ AdvanceCycle(w)
    <3>1. CodeKept(w)
      BY <2>2, ServeCodes, ExamineCodes, AppendCodes, CollectCodes, BumpCodes, AdvanceCodes
         DEF Collect
    <3>2. pc[w] \notin Unlocked
      BY <2>2 DEF Serve, Claim, IgnoreBlank, IgnoreOccupied, Complete, FailEvent, Collect, Examine,
         Append, SaveLocal, Ensure, Sync, AdvanceCycle, Advance, Ask, Reject, Accept, Bump,
         Checkpoint, Unlocked
    <3> QED  BY <3>1, <3>2
  <2>3. CASE Settle(w)
    <3>1. pc[w] \notin Unlocked \/ inbox' = inbox
      BY <2>3 DEF Settle, Transition, Wait, Conclude, Finish, Look, Release, Unlocked
    <3> QED  BY <2>3, <3>1, SettleCodes DEF StKept
  <2> QED  BY <2>1, <2>2, <2>3 DEF Work
<1>2. blank' = blank
  BY DEF Work, Trouble, Lease, Lock, LockFails, CallFails, Crash, Cancelled, Serve, Claim,
       IgnoreBlank, IgnoreOccupied, Complete, FailEvent, Acknowledge, Collect, Examine, Append,
       SaveLocal, Ensure, Sync, AdvanceCycle, Advance, Ask, Reject, Accept, Bump, Checkpoint,
       Settle, Transition, Wait, Conclude, Finish, Look, Release, worldVars
<1>3. cycle' \in Nat /\ cycle' >= cycle
  <2>1. CASE Bump(w)  BY <2>1, BumpCodes
  <2>2. CASE ~Bump(w)
    <3>1. cycle' = cycle
      BY <2>2 DEF Work, Trouble, Lease, Lock, LockFails, CallFails, Crash, Cancelled, Serve, Claim,
       IgnoreBlank, IgnoreOccupied, Complete, FailEvent, Acknowledge, Collect, Examine, Append,
       SaveLocal, Ensure, Sync, AdvanceCycle, Advance, Ask, Reject, Accept, Checkpoint,
       Settle, Transition, Wait, Conclude, Finish, Look, Release, dbVars, rowVars
    <3> QED  BY <3>1, BaseTypes
  <2> QED  BY <2>1, <2>2
<1>4. pc[w] \notin Unlocked \/ (rows' = rows /\ StKept)
  <2>1. pc[w] \notin Unlocked \/ rows' = rows
    BY DEF Work, Trouble, Lease, Lock, LockFails, CallFails, Crash, Cancelled, Serve, Claim,
       IgnoreBlank, IgnoreOccupied, Complete, FailEvent, Acknowledge, Collect, Examine, Append,
       SaveLocal, Ensure, Sync, AdvanceCycle, Advance, Ask, Reject, Accept, Bump, Checkpoint,
       Settle, Transition, Wait, Conclude, Finish, Look, Release, dbVars, rowVars, Unlocked
  <2> QED  BY <1>1, <2>1
<1>5. ASSUME NEW v \in Workers \ {w} PROVE Level(v)' /\ Known(v)' /\ Fits(v)'
  <2>1. StKept => \A e \in Event : inbox'[e].st = inbox[e].st  BY DEF StKept
  <2>2. pc[w] \notin Unlocked \/ (rows' = rows /\ \A e \in Event : inbox'[e].st = inbox[e].st)
    BY <1>4, <2>1
  <2> QED  BY <1>2, <1>3, <2>2, OthersFit
<1> QED  BY <1>1, <1>5 DEF CodeInv, CodeKept

LEMMA OthersCodes ==
    ASSUME CodeBase, Others
    PROVE  CodeInv'
<1>1. UNCHANGED <<pc, seen, job, rows, cycle, status, blank>>
  BY OthersAside DEF Others, Provider, User, Clock, Issue, Ingest, IngestAgain, Click, Stop, Tick,
     Expire, LeaseExpires, Lapse, dbVars, rowVars, worldVars
<1>2. \/ StKept
      \/ \E e \in Event : /\ inbox[e].st = "absent"
                          /\ inbox'[e].st = IF Open THEN "received" ELSE "ignored"
                          /\ \A d \in Event \ {e} : inbox'[d] = inbox[d]
  <2>1. CASE Tick
    <3>1. StKept  BY <2>1, BaseTypes DEF Tick, StKept, TypeOK, InboxEvent
    <3> QED  BY <3>1
  <2>2. ASSUME NEW e \in Event, Ingest(e)
        PROVE  /\ inbox[e].st = "absent"
               /\ inbox'[e].st = IF Open THEN "received" ELSE "ignored"
               /\ \A d \in Event \ {e} : inbox'[d] = inbox[d]
    <3> DEFINE st == IF Open THEN "received" ELSE "ignored"
    <3>1. inbox' = [inbox EXCEPT ![e].st = st, ![e].at = Now] /\ inbox[e].st = "absent"
      BY <2>2 DEF Ingest
    <3> HIDE DEF st
    <3>2. inbox'[e].st = st /\ \A d \in Event \ {e} : inbox'[d] = inbox[d]
      BY <3>1, BaseTypes DEF TypeOK, InboxEvent
    <3> QED  BY <3>1, <3>2 DEF st
  <2>3. CASE inbox' = inbox
    BY <2>3 DEF StKept
  <2> QED
    BY <2>1, <2>2, <2>3 DEF Others, Provider, User, Clock, Issue, IngestAgain, Click, Stop,
       Expire, LeaseExpires, Lapse, dbVars, rowVars
<1>3. PinFirst' /\ CodeIsKept'
  <2>1. CASE StKept  BY <1>1, <2>1, SameCodes DEF CodeBase, StKept
  <2>2. ASSUME NEW e \in Event, inbox'[e].st = IF Open THEN "received" ELSE "ignored",
               \A d \in Event \ {e} : inbox'[d] = inbox[d]
        PROVE  PinFirst' /\ CodeIsKept'
    <3>1. CASE Open
      <4>1. inbox'[e].st = "received"  BY <2>2, <3>1
      <4> QED  BY <1>1, <2>2, <4>1, MarkedCodes
    <3>2. CASE ~Open
      <4>1. inbox'[e].st = "ignored"  BY <2>2, <3>2
      <4> QED  BY <1>1, <2>2, <3>2, <4>1, MarkedCodes
    <3> QED  BY <3>1, <3>2
  <2> QED  BY <1>2, <2>1, <2>2
<1>4. ASSUME NEW v \in Workers PROVE Level(v)' /\ Known(v)' /\ Fits(v)'
  <2>1. /\ Level(v) /\ Known(v) /\ Fits(v) /\ Rests(v) /\ cycle' \in Nat /\ cycle \in Nat
        /\ cycle' >= cycle /\ seen[v].cycle \in Nat
    BY <1>1, BaseTypes DEF Rests, CodeBase, CodeInv
  <2>2. job[v] # NoEvent /\ inbox[job[v]].st = "processing" => inbox'[job[v]].st = "processing"
    BY <1>2, ProcessingIsEvent DEF StKept
  <2> QED  BY <1>1, <2>1, <2>2, OtherLevel, SameFits
<1> QED  BY <1>3, <1>4 DEF CodeInv

LEMMA StepCodes ==
    ASSUME CodeBase, [Next]_vars
    PROVE  CodeInv'
<1>1. CASE UNCHANGED vars
  <2>1. UNCHANGED <<pc, seen, job, rows, cycle, status, blank, inbox>>
    BY <1>1 DEF vars, dbVars, rowVars, workVars, worldVars
  <2>2. PinFirst' /\ CodeIsKept'  BY <2>1, SameCodes DEF CodeBase
  <2>3. ASSUME NEW v \in Workers PROVE Level(v)' /\ Known(v)' /\ Fits(v)'
    <3>1. /\ Level(v) /\ Known(v) /\ Fits(v) /\ Rests(v) /\ cycle' \in Nat /\ cycle \in Nat
          /\ cycle' >= cycle /\ seen[v].cycle \in Nat
      BY <2>1, BaseTypes DEF Rests, CodeBase, CodeInv
    <3> QED  BY <2>1, <3>1, OtherLevel, SameFits
  <2> QED  BY <2>2, <2>3 DEF CodeInv
<1> QED  BY <1>1, WorkerCodes, OthersCodes DEF Next, Others

LEMMA InitCodes == Init => CodeInv
<1> SUFFICES ASSUME Init PROVE CodeInv  OBVIOUS
<1>1. /\ rows = [c \in Cycle |-> IF c = 0 THEN PinCode ELSE NoEvent]
      /\ (status = "subsequent" => cycle = 1) /\ cycle \in {0, 1}
      /\ inbox = [e \in Event |-> Fresh]
  <2>1. \/ status = "pin_changed" /\ cycle = 0
        \/ status = "subsequent" /\ cycle = 1
    BY Zenon DEF Init
  <2> QED  BY <2>1 DEF Init
<1>2. PinFirst  BY <1>1, InboxNulls DEF PinFirst
<1>3. CodeIsKept  BY <1>1 DEF CodeIsKept, Fresh
<1>4. ASSUME NEW w \in Workers PROVE Level(w) /\ Known(w) /\ Fits(w)
  <2>1. pc[w] = "idle" /\ seen[w] = NotSeen /\ job[w] = NoEvent  BY DEF Init
  <2>2. NotSeen.cycle = 0 /\ NotSeen.status = ""  BY DEF NotSeen
  <2>3. seen[w].cycle = 0 /\ seen[w].status # "subsequent"  BY <2>1, <2>2
  <2>4. Level(w)  BY <1>1, <2>1, <2>3 DEF Level
  <2>5. Known(w) /\ Fits(w)  BY <2>1, <2>2 DEF Known, Fits, Fit, WithJob, Stored
  <2> QED  BY <2>4, <2>5
<1> QED  BY <1>2, <1>3, <1>4 DEF CodeInv

(* CodeIsKept: whatever crashes, lapses or is answered late, a callback is  *)
(* acknowledged only with its code stored, and dropped while the activation *)
(* runs only when another code took its cycle.                              *)
THEOREM CodesKept == Spec => []CodeIsKept
<1>1. InboxInv /\ CodeInv /\ [Next]_vars => CodeInv'  BY StepCodes DEF CodeBase
<1>2. CodeInv => CodeIsKept  BY DEF CodeInv
<1> QED  BY <1>1, <1>2, InitCodes, InboxInvariance, PTL DEF Spec

(* CallbacksAreKept, for an activation that collects follow-up codes:       *)
(* between storing a callback and showing its code neither is lost.         *)
THEOREM CollectingKeepsCallbacks ==
    ASSUME Starts = {"subsequent"}
    PROVE  Spec => []CallbacksAreKept
<1>1. WakeIsKept /\ CodeIsKept => CallbacksAreKept  BY DEF CallbacksAreKept
<1>2. Spec => []WakeIsKept  BY CollectingWakes
<1> QED  BY <1>1, <1>2, CodesKept, PTL
=============================================================================
