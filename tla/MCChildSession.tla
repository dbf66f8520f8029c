--------------------------- MODULE MCChildSession ---------------------------
(* Instances of ChildSession for TLC.                                      *)
EXTENDS ChildSession, TLC

MCScenes == {[clashing |-> {}, outside |-> {}], [clashing |-> {1}, outside |-> {2}]}

OpSymmetry == Permutations(Ops)
=============================================================================
