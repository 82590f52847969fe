----------------------------- MODULE SlotQuota -----------------------------
(***************************************************************************)
(* What the purchase protocol promises for a batch, without how: a batch   *)
(* hands out at most Quantity slots to requests, each request holds one    *)
(* slot from the moment it may cost money until it is settled, and ends    *)
(* either filled, which uses the slot up, or dropped, which gives it back. *)
(* A closed batch hands out nothing, and no request is served twice.       *)
(***************************************************************************)
EXTENDS Naturals, FiniteSets

CONSTANTS Batches, Requests, Quantity

VARIABLES
    phase,     \* "absent", "open" or "closed"
    pending,   \* requests that hold a slot of the batch
    filled,    \* requests that used a slot up
    used       \* requests that ever held a slot

quotaVars == <<phase, pending, filled, used>>

Init ==
    /\ phase = [b \in Batches |-> "absent"]
    /\ pending = [b \in Batches |-> {}]
    /\ filled = [b \in Batches |-> {}]
    /\ used = {}

OpenBatch(b) ==
    /\ phase[b] = "absent"
    /\ phase' = [phase EXCEPT ![b] = "open"]
    /\ UNCHANGED <<pending, filled, used>>

Take(b, r) ==
    /\ phase[b] = "open"
    /\ r \notin used
    /\ Cardinality(pending[b]) + Cardinality(filled[b]) < Quantity[b]
    /\ pending' = [pending EXCEPT ![b] = @ \cup {r}]
    /\ used' = used \cup {r}
    /\ UNCHANGED <<phase, filled>>

Drop(b, r) ==
    /\ r \in pending[b]
    /\ pending' = [pending EXCEPT ![b] = @ \ {r}]
    /\ UNCHANGED <<phase, filled, used>>

\* The last slot that is filled closes the batch.
Fill(b, r) ==
    /\ r \in pending[b]
    /\ pending' = [pending EXCEPT ![b] = @ \ {r}]
    /\ filled' = [filled EXCEPT ![b] = @ \cup {r}]
    /\ phase' = [phase EXCEPT ![b] =
         IF Cardinality(filled[b]) + 1 = Quantity[b] THEN "closed" ELSE @]
    /\ UNCHANGED used

\* Closing may drop requests that had cost nothing yet.
Close(b, R) ==
    /\ phase[b] # "absent"
    /\ phase' = [phase EXCEPT ![b] = "closed"]
    /\ R \subseteq pending[b]
    /\ pending' = [pending EXCEPT ![b] = @ \ R]
    /\ UNCHANGED <<filled, used>>

Next ==
    \E b \in Batches :
        \/ OpenBatch(b)
        \/ \E r \in Requests : Take(b, r) \/ Drop(b, r) \/ Fill(b, r)
        \/ \E R \in SUBSET Requests : Close(b, R)

Spec == Init /\ [][Next]_quotaVars
=============================================================================
