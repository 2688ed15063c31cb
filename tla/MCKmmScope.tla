----------------------------- MODULE MCKmmScope -----------------------------
(***************************************************************************)
(* The scopes of one thread, and the survivor segment of several, in one    *)
(* run: an object leaves its scope by being copied, and from then on the    *)
(* two share nothing.  One of them moves.                                   *)
(***************************************************************************)
EXTENDS KmmScope, TLC

CONSTANTS Threads, Slots, WordBits, LargeCapacity, LargeSize, Batch, MaxCheckpoints

VARIABLES
  part, bitmap, free_hint, large_offset, committed, storage, sized, initialized, init_flag,
  thread, survivors, checkpoints, lost

S == INSTANCE KmmSurvivor WITH objects <- survivors

ASSUME SurvivorAssumption == S!SurvivorAssumption

segment == <<bitmap, free_hint, large_offset, committed, storage, sized, initialized, init_flag,
             thread, survivors, checkpoints, lost>>

MCInit == part \in {"scopes", "survivors"} /\ Init /\ S!Init

MCNext ==
  \/ part = "scopes" /\ Next /\ UNCHANGED <<part, segment>>
  \/ part = "survivors" /\ S!Next /\ UNCHANGED <<part, vars>>

MCSpec == MCInit /\ [][MCNext]_<<part, vars, segment>>

\* Nothing tells one thread from another, nor one block.
Symmetry == Permutations(Threads) \cup Permutations(Blocks)

(* What the survivor segment hands out is nobody else's.                   *)
SurvivorsApart == S!SurvivorsApart
=============================================================================
