------------------------ MODULE MCRollingDispatch ------------------------
(* RollingDispatch with its interchangeable vehicles and implements. *)
EXTENDS RollingDispatch, TLC

EquipmentSymmetry == Permutations(Implements)
=============================================================================
