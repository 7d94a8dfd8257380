------------------------------ MODULE Retaining ------------------------------
(***************************************************************************)
(* The part of a sequence at given positions: what Vec::retain and an      *)
(* iterator's filter leave.  SelectSeq of module Sequences says the same   *)
(* of a test on the elements; this form says it without recursion, so that *)
(* the proofs can follow it.                                               *)
(***************************************************************************)
EXTENDS Naturals, FiniteSets

(* The elements of q at the positions kept, in their order. *)
Retain(q, kept) ==
  [j \in 1 .. Cardinality(kept) |->
     q[CHOOSE i \in kept : Cardinality({k \in kept : k <= i}) = j]]
=============================================================================
