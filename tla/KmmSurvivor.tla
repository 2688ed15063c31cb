----------------------------- MODULE KmmSurvivor -----------------------------
(***************************************************************************)
(* The survivor segment of KMM (src/src/kmm_scoped_allocator_v4.h and .c):  *)
(* objects that outlive their scope are copied into the slots of a bucket,  *)
(* whose bits are set and cleared by CAS, or, when they are too large or    *)
(* the bucket is full, into an area that grows like a stack and is rewound. *)
(*                                                                          *)
(* One bucket stands for the nine, which share nothing.  A load, a store    *)
(* and a CAS are steps of their own where another thread can come between.  *)
(* Sizes are in units of KMM_V4_ALIGNMENT.                                  *)
(***************************************************************************)
EXTENDS Integers, FiniteSets

CONSTANTS
  Threads,
  Slots,          \* KMM_V4_SLAB_SLOTS
  WordBits,       \* slots that one word of the bitmap has
  LargeCapacity,  \* units in the area of large objects
  LargeSize,      \* units of an object that no bucket holds
  Batch,          \* KMM_BATCH_COMMIT_SIZE
  MaxCheckpoints  \* bound on the checkpoints that a thread holds

SurvivorAssumption ==
  /\ Slots \in Nat \ {0} /\ WordBits \in Nat \ {0}
  /\ LargeCapacity \in Nat /\ LargeSize \in Nat \ {0} /\ Batch \in Nat \ {0}

VARIABLES
  bitmap,       \* the bits that are set, by word
  free_hint,
  large_offset,
  committed,    \* g_survivor_committed_bytes
  storage,      \* there is memory: the last mmap has succeeded
  sized,        \* bucket_size, large_base and large_capacity have been set, once and for all
  initialized, init_flag,
  thread,       \* where each thread is in alloc_global, promote or survivor_free
  objects,      \* what alloc_global has returned and nobody has freed
  checkpoints,  \* the tokens of each thread
  lost          \* history: slots that kmm_v4_scope_promote_p_deep has given up

segment == <<bitmap, free_hint, large_offset, committed>>
setup == <<storage, sized, initialized, init_flag>>
vars == <<segment, setup, thread, objects, checkpoints, lost>>

SlotNumbers == 0 .. Slots - 1
Word(s) == s \div WordBits
Words == {Word(s) : s \in SlotNumbers}
BitsSet == UNION {bitmap[w] : w \in Words}

SlotsOf(O) == {o.start : o \in {p \in O : p.place = "slot"}}
Slot(s) == [place |-> "slot", start |-> s]
Large(o, n, t) == [place |-> "large", start |-> o, size |-> n, owner |-> t]

Idle == [at |-> "idle"]
At(t, where) == thread[t].at = where
Goto(t, r) == thread' = [thread EXCEPT ![t] = r]

Init ==
  /\ bitmap = [w \in Words |-> {}] /\ free_hint = 0
  /\ large_offset = 0 /\ committed = 0
  /\ storage = FALSE /\ sized = FALSE /\ initialized = FALSE /\ init_flag = 0
  /\ thread = [t \in Threads |-> Idle]
  /\ objects = {} /\ lost = {}
  /\ checkpoints = [t \in Threads |-> {}]
-----------------------------------------------------------------------------
(***************************************************************************)
(* kmm_v4_alloc_global, alone or for kmm_v4_promote and its deep forms.     *)
(***************************************************************************)
Begin(size) == [at |-> IF size = LargeSize THEN "large" ELSE "scan", size |-> size]

Alloc(t) ==
  /\ At(t, "idle")
  /\ \E size \in {1, LargeSize} :
       Goto(t, IF initialized THEN Begin(size) ELSE [at |-> "init", size |-> size])
  /\ UNCHANGED <<segment, setup, objects, checkpoints, lost>>

\* survivor_ensure_init: one thread sets up, the others wait for it.
InitWins(t) ==
  /\ At(t, "init") /\ ~initialized /\ init_flag = 0
  /\ init_flag' = 1
  /\ Goto(t, [thread[t] EXCEPT !.at = "setup"])
  /\ UNCHANGED <<segment, storage, sized, initialized, objects, checkpoints, lost>>

\* The mmap may fail, and nothing is set up then.
SetUp(t) ==
  /\ At(t, "setup")
  /\ \/ /\ bitmap' = [w \in Words |-> {}] /\ free_hint' = 0
        /\ large_offset' = 0 /\ committed' = 0
        /\ storage' = TRUE /\ sized' = TRUE /\ initialized' = TRUE
     \/ UNCHANGED <<segment, storage, sized, initialized>>
  /\ Goto(t, [thread[t] EXCEPT !.at = "release"])
  /\ UNCHANGED <<init_flag, objects, checkpoints, lost>>

InitReleases(t) ==
  /\ At(t, "release")
  /\ init_flag' = 2
  /\ Goto(t, Begin(thread[t].size))
  /\ UNCHANGED <<segment, storage, sized, initialized, objects, checkpoints, lost>>

SetUpElsewhere == init_flag = 2

InitWaited(t) ==
  /\ At(t, "init") /\ (initialized \/ SetUpElsewhere)
  /\ Goto(t, Begin(thread[t].size))
  /\ UNCHANGED <<segment, setup, objects, checkpoints, lost>>

\* kmm_v4_slab_alloc_from_bucket: the hint, then one slot after the other.
LoadHint(t) ==
  /\ At(t, "scan")
  /\ Goto(t, [at |-> "load", size |-> thread[t].size,
              slot |-> free_hint, tries |-> 0])
  /\ UNCHANGED <<segment, setup, objects, checkpoints, lost>>

Spill(r) == [at |-> "large", size |-> r.size]

LoadWord(t) ==
  LET r == thread[t] IN
  /\ At(t, "load")
  /\ IF r.tries = Slots THEN Goto(t, Spill(r))
     ELSE IF r.slot \in bitmap[Word(r.slot)]
     THEN Goto(t, [r EXCEPT !.slot = (@ + 1) % Slots, !.tries = @ + 1])
     ELSE Goto(t, [at |-> "cas", size |-> r.size,
                   slot |-> r.slot, tries |-> r.tries, old |-> bitmap[Word(r.slot)]])
  /\ UNCHANGED <<segment, setup, objects, checkpoints, lost>>

\* fault: the word is stored whatever it is by now.
Unconditional(w, old) == TRUE
Unchanged(w, old) == bitmap[w] = old

Reload(r) == [at |-> "load", size |-> r.size, slot |-> r.slot, tries |-> r.tries]

\* slots + slot * bucket_size: without memory slots is NULL, and bucket_size is
\* 0 or what a segment that has been destroyed has left.
NotNull(s) == storage \/ (sized /\ s # 0)

\* The CAS is weak: it may fail for nothing.
SetBit(t) ==
  LET r == thread[t] IN
  /\ At(t, "cas")
  /\ \/ /\ Unchanged(Word(r.slot), r.old)
        /\ bitmap' = [bitmap EXCEPT ![Word(r.slot)] = r.old \cup {r.slot}]
        /\ Goto(t, IF NotNull(r.slot) THEN [at |-> "hint", object |-> Slot(r.slot)]
                   ELSE [at |-> "null", size |-> r.size, slot |-> r.slot])
     \/ Goto(t, Reload(r)) /\ UNCHANGED bitmap
  /\ UNCHANGED <<free_hint, large_offset, committed, setup, objects, checkpoints, lost>>

StoreHint(t) ==
  /\ \/ /\ At(t, "hint")
        /\ free_hint' = (thread[t].object.start + 1) % Slots
        /\ Goto(t, [thread[t] EXCEPT !.at = "have"])
     \/ /\ At(t, "null")
        /\ free_hint' = (thread[t].slot + 1) % Slots
        /\ Goto(t, Spill(thread[t]))
  /\ UNCHANGED <<bitmap, large_offset, committed, setup, objects, checkpoints, lost>>

\* The area of large objects.  kmm_v4_destroy_pool leaves large_capacity and
\* large_base as they are.
Capacity == IF sized THEN LargeCapacity ELSE 0

LoadOffset(t) ==
  LET r == thread[t] IN
  /\ At(t, "large")
  /\ Goto(t, [at |-> "bump", size |-> r.size, offset |-> large_offset])
  /\ UNCHANGED <<segment, setup, objects, checkpoints, lost>>

Bump(t) ==
  LET r == thread[t]
      end == r.offset + r.size
  IN
  /\ At(t, "bump")
  /\ \/ end > Capacity /\ Goto(t, Idle) /\ UNCHANGED large_offset
     \/ /\ end <= Capacity /\ large_offset = r.offset
        /\ large_offset' = end
        /\ Goto(t, [at |-> "commit", object |-> Large(r.offset, r.size, t)])
     \/ /\ end <= Capacity
        /\ Goto(t, [r EXCEPT !.offset = large_offset]) /\ UNCHANGED large_offset
  /\ UNCHANGED <<bitmap, free_hint, committed, setup, objects, checkpoints, lost>>

\* survivor_commit_up_to, whose counter never goes back; without memory there is
\* nothing to commit.
CommitEnd(n) ==
  LET end == ((n + Batch - 1) \div Batch) * Batch
  IN IF end > LargeCapacity THEN LargeCapacity ELSE end

Commit(t) ==
  LET o == thread[t].object IN
  /\ At(t, "commit")
  /\ committed' = IF ~storage \/ o.start + o.size <= committed THEN committed
                  ELSE CommitEnd(o.start + o.size)
  /\ Goto(t, [thread[t] EXCEPT !.at = "have"])
  /\ UNCHANGED <<bitmap, free_hint, large_offset, setup, objects, checkpoints, lost>>

\* The object is there; the callback of the deep promotions has succeeded.
Return(t) ==
  /\ At(t, "have")
  /\ objects' = objects \cup {thread[t].object}
  /\ Goto(t, Idle)
  /\ UNCHANGED <<segment, setup, checkpoints, lost>>

\* A bucket without memory frees nothing.
Freeing(o) == IF o.place = "slot" /\ storage THEN [at |-> "free", object |-> o] ELSE Idle

\* The callback has failed: kmm_v4_promote_deep frees the copy, and
\* kmm_v4_scope_promote_p_deep forgets it.
CallbackFails(t) ==
  LET o == thread[t].object IN
  /\ At(t, "have")
  /\ \/ Goto(t, Freeing(o)) /\ UNCHANGED lost
     \/ Goto(t, Idle) /\ lost' = lost \cup SlotsOf({o})
  /\ UNCHANGED <<segment, setup, objects, checkpoints>>

(***************************************************************************)
(* kmm_v4_survivor_free, by the program or at the end of a realloc that     *)
(* has moved an object out of its slot: any thread may free what it has     *)
(* been given, once.  A large object is not freed.                          *)
(***************************************************************************)
Free(t) ==
  /\ At(t, "idle")
  /\ \E o \in objects :
       /\ o.place = "slot"
       /\ objects' = objects \ {o}
       /\ Goto(t, Freeing(o))
  /\ UNCHANGED <<segment, setup, checkpoints, lost>>

FreeLoads(t) ==
  LET o == thread[t].object IN
  /\ At(t, "free")
  /\ Goto(t, [at |-> "clear", object |-> o, old |-> bitmap[Word(o.start)]])
  /\ UNCHANGED <<segment, setup, objects, checkpoints, lost>>

\* A CAS that fails has loaded the word.
ClearBit(t) ==
  LET o == thread[t].object
      w == Word(o.start)
  IN
  /\ At(t, "clear")
  /\ \/ /\ bitmap[w] = thread[t].old
        /\ bitmap' = [bitmap EXCEPT ![w] = thread[t].old \ {o.start}]
        /\ Goto(t, Idle)
     \/ Goto(t, [thread[t] EXCEPT !.old = bitmap[w]]) /\ UNCHANGED bitmap
  /\ UNCHANGED <<free_hint, large_offset, committed, setup, objects, checkpoints, lost>>

(***************************************************************************)
(* kmm_v4_survivor_checkpoint and rewind.  As the header asks, no other     *)
(* thread has an object, or is about to have one, that a rewind takes.      *)
(***************************************************************************)
Checkpoint(t) ==
  /\ At(t, "idle") /\ Cardinality(checkpoints[t]) < MaxCheckpoints
  /\ checkpoints' = [checkpoints EXCEPT ![t] = @ \cup {large_offset}]
  /\ UNCHANGED <<segment, setup, thread, objects, lost>>

InHand(t) == IF "object" \in DOMAIN thread[t] THEN {thread[t].object} ELSE {}
Taken(cp) == {o \in objects \cup UNION {InHand(t) : t \in Threads} :
                o.place = "large" /\ o.start + o.size > cp}

Rewind(t) ==
  /\ At(t, "idle")
  /\ \E cp \in checkpoints[t] :
       /\ \A o \in Taken(cp) : o.owner = t
       /\ large_offset' = cp
       /\ objects' = objects \ Taken(cp)
       /\ checkpoints' = [checkpoints EXCEPT ![t] = @ \ {cp}]
  /\ UNCHANGED <<bitmap, free_hint, committed, setup, thread, lost>>

(***************************************************************************)
(* kmm_v4_destroy_pool and kmm_v4_reset, when no thread uses the segment or *)
(* anything in it.  Both end every object; a destroyed segment is set up    *)
(* again by the next use, and keeps its bits and its sizes until then.      *)
(***************************************************************************)
Destroy ==
  /\ \A t \in Threads : At(t, "idle")
  /\ IF storage
     THEN /\ storage' = FALSE /\ initialized' = FALSE
          /\ large_offset' = 0 /\ committed' = 0
     ELSE UNCHANGED <<storage, initialized, large_offset, committed>>
  /\ init_flag' = 0
  /\ objects' = {} /\ lost' = {}
  /\ checkpoints' = [t \in Threads |-> {}]
  /\ UNCHANGED <<bitmap, free_hint, sized, thread>>

Reset ==
  /\ \A t \in Threads : At(t, "idle")
  /\ bitmap' = [w \in Words |-> {}] /\ free_hint' = 0 /\ large_offset' = 0
  /\ objects' = {} /\ lost' = {}
  /\ UNCHANGED <<committed, setup, thread, checkpoints>>

Next ==
  \/ \E t \in Threads :
       \/ Alloc(t) \/ InitWins(t) \/ SetUp(t) \/ InitReleases(t) \/ InitWaited(t)
       \/ LoadHint(t) \/ LoadWord(t) \/ SetBit(t) \/ StoreHint(t)
       \/ LoadOffset(t) \/ Bump(t) \/ Commit(t) \/ Return(t) \/ CallbackFails(t)
       \/ Free(t) \/ FreeLoads(t) \/ ClearBit(t)
       \/ Checkpoint(t) \/ Rewind(t)
  \/ Destroy \/ Reset

Spec == Init /\ [][Next]_vars
-----------------------------------------------------------------------------
Held == objects \cup UNION {InHand(t) : t \in Threads}
LargeOf(O) == {o \in O : o.place = "large"}

TypeOK ==
  /\ bitmap \in [Words -> SUBSET SlotNumbers] /\ free_hint \in SlotNumbers
  /\ large_offset \in 0 .. LargeCapacity /\ committed \in 0 .. LargeCapacity
  /\ storage \in BOOLEAN /\ sized \in BOOLEAN /\ initialized \in BOOLEAN /\ init_flag \in 0 .. 2
  /\ lost \subseteq SlotNumbers
  /\ \A o \in Held :
       IF o.place = "slot" THEN o.start \in SlotNumbers ELSE o.start + o.size <= LargeCapacity

(***************************************************************************)
(* What alloc_global returns is nobody else's: a slot has one holder, the   *)
(* bits are those of the slots in use and no more, but for what             *)
(* kmm_v4_scope_promote_p_deep loses, and large objects lie below the       *)
(* offset, apart, in committed memory, however allocations, frees,          *)
(* promotions that fail, rewinds and the first use interleave.  It is       *)
(* memory that is there, unless a destroyed segment could not be set up     *)
(* again: then alloc_global goes on with the sizes of the old one and hands *)
(* out addresses where nothing is mapped, still no two that overlap.        *)
(***************************************************************************)
SurvivorsApart ==
  /\ Held # {} => storage \/ (sized /\ init_flag = 2)
  /\ SlotsOf(Held) \cup lost \subseteq BitsSet
  /\ \A t \in Threads : InHand(t) \cap objects = {}
  /\ \A t, u \in Threads : t # u => InHand(t) \cap InHand(u) = {}
  /\ storage => BitsSet \subseteq SlotsOf(Held) \cup lost
  /\ \A o \in LargeOf(Held) : o.start + o.size <= large_offset
  /\ storage => \A o \in LargeOf(objects) : o.start + o.size <= committed
  /\ \A o, p \in LargeOf(Held) :
       o # p => o.start + o.size <= p.start \/ p.start + p.size <= o.start
=============================================================================
