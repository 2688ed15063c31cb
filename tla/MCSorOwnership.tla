---------------------------- MODULE MCSorOwnership ----------------------------
(***************************************************************************)
(* The tracker of ownership, with arrays that are no resources and         *)
(* resources that are not composite, and the memory of a function that it  *)
(* decides about: two parts that do not read each other's state, in one    *)
(* run.  Variable names are interchangeable.                               *)
(***************************************************************************)
EXTENDS SorOwnership, TLC

CONSTANTS
  Params,                                     (* pointer parameters        *)
  Inits, FirstId,                             (* as in Reclaim             *)
  MaxLength, MaxShared, MaxNesting            (* bounds of the functions   *)

VARIABLES part, code, phase, decisions, pc, env, mem, handed, misfreed

R == INSTANCE Reclaim WITH Locals <- Names, Nobody <- NoPath, MaxDepth <- MaxNesting

ASSUME FunctionAssumption == R!ReclaimAssumption

function == <<code, phase, decisions, pc, env, mem, handed, misfreed>>

MCLetKinds == {[composite |-> TRUE, resource |-> FALSE], [composite |-> FALSE, resource |-> TRUE]}

MCInit ==
  \/ part = "tracker" /\ Init /\ R!Init
  \/ part = "function" /\ Init /\ R!Init

MCNext ==
  \/ part = "tracker" /\ Next /\ UNCHANGED <<part, function>>
  \/ part = "function" /\ R!Next /\ UNCHANGED <<part, objects, depth, scopeObjects, edges, errors>>

MCSpec == MCInit /\ [][MCNext]_<<part, vars, function>>

\* What no statement reads is left out: the errors.
Unreported == <<part, objects, depth, scopeObjects, edges, function>>

Symmetry == Permutations(Names)

(* What the emitted frees free is the function's own, once (stmtgen.go).   *)
FreesOnlyItsOwn == R!FreesOnlyItsOwn
(* What is returned or passed on outlives the function's scope (stmtgen.go). *)
HandedOutLives == R!HandedOutLives
=============================================================================
