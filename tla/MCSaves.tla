-------------------------------- MODULE MCSaves --------------------------------
(* Saves with the symmetry of its slots.                                    *)
EXTENDS Saves, TLC

Interchangeable == Permutations(Slots)
=============================================================================
