-------------------------- MODULE MCBatchPurchase --------------------------
(* Instances of BatchPurchase for TLC. *)
EXTENDS BatchPurchaseQuota, TLC

CONSTANTS b1, b2

OneBatch == {b1}
TwoBatches == {b1, b2}
QuantityTwo == [b \in Batches |-> 2]
PooledFirst == [b \in Batches |-> IF b = b1 THEN 1 ELSE 0]
QuantityMixed == [b \in Batches |-> IF b = b1 THEN 2 ELSE 1]
Direct == [b \in Batches |-> 0]
Pooled == [b \in Batches |-> 2]

Symmetry == Permutations(Tokens) \cup Permutations(Numbers)
=============================================================================
