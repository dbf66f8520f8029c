------------------------ MODULE MCSupervisedAttempt ------------------------
(* SupervisedAttempt with its dispatches as model values. *)
EXTENDS SupervisedAttempt, TLC

CONSTANTS d1, d2

OneDispatch == {d1}
TwoDispatches == {d1, d2}
Alike == Permutations(TwoDispatches)
=============================================================================
