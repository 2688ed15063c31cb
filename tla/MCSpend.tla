------------------------------- MODULE MCSpend -------------------------------
(***************************************************************************)
(* A spend statement under names that a module about the symbols of the     *)
(* analyser does not have, so that one module can hold the proofs about     *)
(* both.                                                                   *)
(***************************************************************************)
EXTENDS Naturals

CONSTANTS MaxElements, MaxClauses, Variants

VARIABLES target, clauses, stage, pos, used, hasDefault, maxIndex, errors,
          consumed, remaining, ran

Stmt == INSTANCE Spend

ASSUME SpendBounds == Stmt!Bounds

(* In an accepted statement a check of the runtime fails only on account   *)
(* of a clause that the analyser overlooks, and over an array always then. *)
OnlyOverlookedPanics == Stmt!OnlyOverlookedPanics

(* It has run every clause and consumed every element of the array whose   *)
(* length was recorded when it ends.                                       *)
ConsumesAll == Stmt!ConsumesAll
=============================================================================
