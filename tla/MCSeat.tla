------------------------------- MODULE MCSeat -------------------------------
(***************************************************************************)
(* The keyboard the runs of Seat use: the keys "a" and "b" have scancodes  *)
(* of their own, the two keys the keymap does not know both get 0.         *)
(***************************************************************************)
EXTENDS Seat

MCCode == [k \in Keys |-> IF k \in {"unknown1", "unknown2"} THEN "0" ELSE k]

(* The actions treat surfaces and slots alike. *)
Symmetry == Permutations(Surfaces) \cup Permutations(Slots)
=============================================================================
