------------------------- MODULE BatchPurchaseQuota -------------------------
(* The purchase protocol implements SlotQuota.                              *)
EXTENDS BatchPurchase

Phase(b) ==
    CASE status[b] = "absent" -> "absent"
      [] status[b] = "running" -> "open"
      [] OTHER -> "closed"

\* A slot is taken by an attempt whose outcome is open, then by its activation.
Holding(b) == Unresolved(b) \cup Working(b)

Quota == INSTANCE SlotQuota WITH
    Requests <- Tokens,
    phase    <- [b \in Batches |-> Phase(b)],
    pending  <- [b \in Batches |-> Holding(b)],
    filled   <- [b \in Batches |-> Fulfilled(b)],
    used     <- {t \in Tokens : attempt[t] # "absent"}

\* Every step of the purchase protocol, of recovery, Stop and the workers takes,
\* keeps, drops or fills slots only as SlotQuota allows.
ImplementsSlotQuota == Quota!Spec
=============================================================================
