------------------------------- MODULE Serial -------------------------------
(***************************************************************************)
(* smithay's serials: SerialCounter wraps around and skips 0, and Serial's *)
(* order has to be that of issue although the numbers wrap.  Only the      *)
(* event loop's thread takes serials, so next_serial()'s two atomic        *)
(* operations are one step.                                                *)
(***************************************************************************)
EXTENDS Naturals

CONSTANTS
  MaxValue  \* u32::MAX

ASSUME MaxValueAssumption == MaxValue \in Nat /\ MaxValue >= 3 /\ MaxValue % 2 = 1

(* Far is where the order starts to take a distance for a wrap-around. *)
Far == MaxValue \div 2

Distance(a, b) == IF a > b THEN a - b ELSE b - a

(* Mutant: the order of numbers. *)
Older_Plain(a, b) == a < b

(* Serial::partial_cmp. *)
Older(a, b) == IF Distance(a, b) < Far THEN a < b ELSE b < a

(* Mutant: 0 is not skipped. *)
NextSerial_Zero(counter) == counter

(* next_serial(): what it returns, and what it leaves in the counter. *)
NextSerial(counter) == IF counter = 0 THEN 1 ELSE counter
Advance(counter) == (NextSerial(counter) + 1) % (MaxValue + 1)
=============================================================================
