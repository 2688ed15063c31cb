------------------------------ MODULE BlockPool ------------------------------
(***************************************************************************)
(* What the thread heaps and scopes need from the KMM pool: it hands out   *)
(* blocks of one size, a block that is handed out overlaps none of those   *)
(* already out, and only a reset takes blocks back, all of them at once.   *)
(***************************************************************************)
EXTENDS Integers

CONSTANT Size     (* size of a block                                       *)

VARIABLE blocks   (* the blocks that are out: [by |-> who, start |-> where] *)

Disjoint(a, b) == a.start + Size <= b.start \/ b.start + Size <= a.start

Init == blocks = {}

Grant ==
  \E b \in blocks' :
    /\ b \notin blocks
    /\ \A c \in blocks : Disjoint(b, c)
    /\ blocks' = blocks \union {b}

Clear == blocks' = {}

Next == Grant \/ Clear

Spec == Init /\ [][Next]_blocks

=============================================================================
