---------------------------- MODULE MCDraftSync ----------------------------
(* Instances of DraftSync for TLC: `cut` stands for the forms that             *)
(* normalizeBatchForm changes, such as one whose quantity is out of range.     *)
EXTENDS DraftSync

CONSTANTS d0, d1, d2, cut

MCNormal == [f \in Forms |-> IF f = cut THEN d0 ELSE f]
=============================================================================
