------------------------------- MODULE KmmPool -------------------------------
(***************************************************************************)
(* The KMM v4 global pool: how concurrent threads refill their thread      *)
(* heaps from it (src/src/kmm_scoped_allocator_v4.c).                      *)
(*                                                                         *)
(* One offset counts the bytes consumed, across a primary region of        *)
(* PrimaryCap bytes and a chain of extension segments that grow() appends. *)
(* A refill takes HeapSize bytes with a CAS on that offset, skipping the   *)
(* tail of a region the block does not fit in; when nothing fits it        *)
(* grows the chain under a CAS'd flag and retries.  Primary pages are      *)
(* committed after the CAS, before the block is installed as the thread's  *)
(* heap.  Sizes are in units of KMM_V4_ALIGNMENT; a segment of the chain   *)
(* is kept as its cumulative end, so that ends[i] - ends[i-1] is the       *)
(* capacity the code stores.                                               *)
(***************************************************************************)
EXTENDS Integers, Sequences

CONSTANTS
  Threads,      (* threads that allocate                                   *)
  PrimaryCap,   (* g_kmm_v4_pool_capacity: size of the primary region      *)
  HeapSize,     (* KMM_TLS_BUFFER_SIZE: bytes one refill takes             *)
  GrowSeg,      (* KMM_V4_GROW_SEG_SIZE: least size of a new segment       *)
  Page,         (* KMM_V4_PAGE_SIZE                                        *)
  Batch,        (* KMM_BATCH_COMMIT_SIZE                                   *)
  MaxSegs,      (* bound: malloc of a further segment fails                *)
  Single,       (* the thread of a program built with level 0              *)
  None          (* no heap installed                                       *)

ASSUME PoolAssumption ==
  /\ PrimaryCap \in Nat
  /\ HeapSize \in Nat \ {0}
  /\ GrowSeg \in Nat
  /\ Page \in Nat \ {0}
  /\ Batch \in Nat \ {0}
  /\ MaxSegs \in Nat
  /\ Single \in Threads
  /\ None \notin Nat

VARIABLES
  level,      (* KMM_THREAD_SAFETY_LEVEL: 0 (one thread) or 1              *)
  offset,     (* g_kmm_v4_offset                                           *)
  committed,  (* g_committed_bytes                                         *)
  ends,       (* the extension chain, as cumulative segment ends           *)
  extraCap,   (* g_kmm_v4_extra_capacity                                   *)
  growFlag,   (* g_grow_flag                                               *)
  pc,         (* where each thread is inside kmm_v4_thread_heap_refill     *)
  seen,       (* its local copy of the offset                              *)
  fit,        (* its local fit: the start of the block it is after         *)
  snap,       (* its local copy of g_committed_bytes                       *)
  heap,       (* g_kmm_v4_thread_heap.base of each thread, as an offset    *)
  grants      (* history: the blocks taken since the last reset, by whom   *)

local == <<seen, fit, snap>>
chain == <<ends, extraCap, growFlag>>
vars  == <<level, offset, committed, chain, pc, local, heap, grants>>

PCs == {"idle", "fit", "cas", "grow", "spin", "recheck", "append", "publish",
        "release", "commit", "commitCas", "install"}

(* The threads between taking g_grow_flag and giving it back.              *)
Growing == {t \in Threads : pc[t] \in {"recheck", "append", "publish", "release"}}

-----------------------------------------------------------------------------
(* Geometry of the pool.                                                   *)

Larger(a, b) == IF a >= b THEN a ELSE b

SegBegin(es, i) == IF i = 1 THEN 0 ELSE es[i - 1]
SegCapNegated(es, i) == SegBegin(es, i) - es[i]   \* fault: wrong sign
SegCap(es, i)   == es[i] - SegBegin(es, i)
ChainEnd(es)    == IF es = << >> THEN 0 ELSE es[Len(es)]

(* A block at extension position x lies inside segment i.                  *)
InSegment(es, i, x) == SegBegin(es, i) <= x /\ x + HeapSize <= es[i]

(* The pool bytes [b, b + HeapSize) are one region's: the primary's or one *)
(* segment's.                                                              *)
Backed(es, b) ==
  \/ b + HeapSize <= PrimaryCap
  \/ \E i \in DOMAIN es : b >= PrimaryCap /\ InSegment(es, i, b - PrimaryCap)

(* How far the offset is into the extension area.                          *)
ExtraUsed(off) == IF off > PrimaryCap THEN off - PrimaryCap ELSE 0

(* Where pool_fit_offset may place a block: at the offset itself, or, when *)
(* it does not fit there, at the beginning of a later region.              *)
Starts(off) ==
  {off} \union {PrimaryCap + SegBegin(ends, i) : i \in DOMAIN ends}

FitsUnsplit(off) ==   \* fault: ignores the borders between regions
  {b \in Starts(off) : b >= off /\ b + HeapSize <= PrimaryCap + ChainEnd(ends)}

Fits(off) == {b \in Starts(off) : b >= off /\ Backed(ends, b)}

(* pool_fit_offset returns the first of them.                              *)
IsFit(b, off) == b \in Fits(off) /\ \A c \in Fits(off) : b <= c

(* New segments are at least need and GrowSeg long, rounded up to a page.  *)
SegSizes(need) ==
  {s \in Larger(need, GrowSeg) .. (Larger(need, GrowSeg) + Page - 1) : s % Page = 0}

(* pool_commit_up_to rounds up to a commit batch inside the primary region. *)
CommitEndsDown(need) ==   \* fault: rounds down
  {c \in (need - Batch + 1) .. need : c % Batch = 0}

CommitEnds(need) ==
  {c \in need .. (need + Batch - 1) : c % Batch = 0 \/ c = PrimaryCap}

(* kmm_v4_pool_trim_tail: the segments that begin at or after the          *)
(* watermark are cut off the chain.                                        *)
KeptFull(es, watermark) ==   \* fault: drops the segment in use
  {i \in DOMAIN es : es[i] <= ExtraUsed(watermark)}

Kept(es, watermark) ==
  {i \in DOMAIN es : SegBegin(es, i) < ExtraUsed(watermark)}

-----------------------------------------------------------------------------
Init ==
  /\ level \in {0, 1}
  /\ offset = 0
  /\ committed = 0
  /\ ends = << >>
  /\ extraCap = 0
  /\ growFlag = 0
  /\ pc = [t \in Threads |-> "idle"]
  /\ seen = [t \in Threads |-> 0]
  /\ fit = [t \in Threads |-> 0]
  /\ snap = [t \in Threads |-> 0]
  /\ heap = [t \in Threads |-> None]
  /\ grants = {}

Goto(t, l) == pc' = [pc EXCEPT ![t] = l]

(* The allocation path finds the thread heap too short and calls refill,   *)
(* which reads the offset.                                                 *)
Refill(t) ==
  /\ pc[t] = "idle"
  /\ level = 0 => t = Single
  /\ seen' = [seen EXCEPT ![t] = offset]
  /\ Goto(t, "fit")
  /\ UNCHANGED <<level, offset, committed, chain, fit, snap, heap, grants>>

(* One walk of the chain by pool_fit_offset.                               *)
FitFound(t) ==
  /\ pc[t] = "fit"
  /\ \E b \in Fits(seen[t]) :
       /\ IsFit(b, seen[t])
       /\ fit' = [fit EXCEPT ![t] = b]
  /\ Goto(t, "cas")
  /\ UNCHANGED <<level, offset, committed, chain, seen, snap, heap, grants>>

FitMissing(t) ==
  /\ pc[t] = "fit"
  /\ Fits(seen[t]) = {}
  /\ Goto(t, "grow")
  /\ UNCHANGED <<level, offset, committed, chain, local, heap, grants>>

BlindStore(t) == TRUE   \* fault: the offset is stored, not compared
CasSucceeds(t) == offset = seen[t]

(* The CAS on the offset; a block of the primary region is committed next. *)
CasTake(t) ==
  /\ pc[t] = "cas"
  /\ CasSucceeds(t)
  /\ offset' = fit[t] + HeapSize
  /\ grants' = grants \union {[by |-> t, start |-> fit[t]]}
  /\ Goto(t, IF offset' <= PrimaryCap THEN "commit" ELSE "install")
  /\ UNCHANGED <<level, committed, chain, local, heap>>

(* A failed CAS leaves the current offset in the local copy; the weak CAS  *)
(* may fail although the offset is the one expected.                       *)
CasFail(t) ==
  /\ pc[t] = "cas"
  /\ level = 1
  /\ seen' = [seen EXCEPT ![t] = offset]
  /\ Goto(t, "fit")
  /\ UNCHANGED <<level, offset, committed, chain, fit, snap, heap, grants>>

FlagFree == growFlag = 0

(* kmm_v4_pool_grow: take the flag, or wait for the thread that has it.    *)
GrowEnter(t) ==
  /\ pc[t] = "grow"
  /\ IF FlagFree
     THEN /\ growFlag' = level
          /\ Goto(t, IF level = 1 THEN "recheck" ELSE "append")
     ELSE Goto(t, "spin") /\ UNCHANGED growFlag
  /\ UNCHANGED <<level, offset, committed, ends, extraCap, local, heap, grants>>

GrowSpin(t) ==
  /\ pc[t] = "spin"
  /\ growFlag = 0
  /\ Goto(t, "fit")
  /\ UNCHANGED <<level, offset, committed, chain, local, heap, grants>>

(* Another thread may have grown the chain before this one got the flag.   *)
AnyRoom == extraCap >= ExtraUsed(offset)   \* fault: not room for one block
Enough  == extraCap >= ExtraUsed(offset) + HeapSize

Recheck(t) ==
  /\ pc[t] = "recheck"
  /\ Goto(t, IF Enough THEN "release" ELSE "append")
  /\ UNCHANGED <<level, offset, committed, chain, local, heap, grants>>

(* What the new segment must hold: the deficit if it exceeds one block.    *)
Need == Larger(HeapSize, ExtraUsed(offset) + HeapSize - extraCap)

(* malloc succeeds: the segment is linked at the tail of the chain.        *)
LinkSegment(t) ==
  /\ pc[t] = "append"
  /\ Len(ends) < MaxSegs
  /\ \E s \in SegSizes(IF level = 1 THEN Need ELSE HeapSize) :
       ends' = Append(ends, ChainEnd(ends) + s)
  /\ Goto(t, "publish")
  /\ UNCHANGED <<level, offset, committed, extraCap, growFlag, local, heap, grants>>

(* malloc returns NULL: grow gives the flag back and refill returns NULL;  *)
(* the thread keeps the heap it had.                                       *)
GrowFails(t) ==
  /\ pc[t] = "append"
  /\ growFlag' = 0
  /\ Goto(t, "idle")
  /\ UNCHANGED <<level, offset, committed, ends, extraCap, local, heap, grants>>

(* The new capacity is published after the chain holds the segment.        *)
Publish(t) ==
  /\ pc[t] = "publish"
  /\ extraCap' = extraCap + SegCap(ends, Len(ends))
  /\ Goto(t, "release")
  /\ UNCHANGED <<level, offset, committed, ends, growFlag, local, heap, grants>>

Release(t) ==
  /\ pc[t] = "release"
  /\ growFlag' = 0
  /\ Goto(t, "fit")
  /\ UNCHANGED <<level, offset, committed, ends, extraCap, local, heap, grants>>

(* pool_commit_up_to(fit + HeapSize): nothing to do, or commit and CAS.    *)
Commit(t) ==
  /\ pc[t] = "commit"
  /\ snap' = [snap EXCEPT ![t] = committed]
  /\ Goto(t, IF fit[t] + HeapSize <= committed THEN "install" ELSE "commitCas")
  /\ UNCHANGED <<level, offset, committed, chain, seen, fit, heap, grants>>

CommitCas(t) ==
  /\ pc[t] = "commitCas"
  /\ IF committed = snap[t]
     THEN /\ \E c \in CommitEnds(fit[t] + HeapSize) :
               /\ \A d \in CommitEnds(fit[t] + HeapSize) : c <= d
               /\ committed' = c
          /\ Goto(t, "install")
          /\ UNCHANGED snap
     ELSE /\ snap' = [snap EXCEPT ![t] = committed]
          /\ Goto(t, IF fit[t] + HeapSize <= committed THEN "install" ELSE "commitCas")
          /\ UNCHANGED committed
  /\ UNCHANGED <<level, offset, chain, seen, fit, heap, grants>>

(* The block becomes the thread's heap.                                    *)
Install(t) ==
  /\ pc[t] = "install"
  /\ heap' = [heap EXCEPT ![t] = fit[t]]
  /\ Goto(t, "idle")
  /\ UNCHANGED <<level, offset, committed, chain, local, grants>>

(* kmm_v4_thread_heap_invalidate, by a scope_pop that finds another base.  *)
Invalidate(t) ==
  /\ pc[t] = "idle"
  /\ heap[t] # None
  /\ heap' = [heap EXCEPT ![t] = None]
  /\ UNCHANGED <<level, offset, committed, chain, pc, local, grants>>

(* At level 0 every scope_pop trims the chain down to the offset.          *)
PopTrim(t) ==
  /\ level = 0 /\ t = Single
  /\ pc[t] = "idle"
  /\ \E n \in 0 .. Len(ends) :
       /\ 1 .. n = Kept(ends, offset)
       /\ ends' = SubSeq(ends, 1, n)
  /\ extraCap' = ChainEnd(ends')
  /\ UNCHANGED <<level, offset, committed, growFlag, pc, local, heap, grants>>

(* kmm_v4_reset, which the header restricts to a single-threaded context:  *)
(* no refill is under way and no other thread keeps a heap.  It ends in    *)
(* kmm_v4_pool_trim_tail(0).                                               *)
Reset(t) ==
  /\ \A u \in Threads : pc[u] = "idle" /\ (u # t => heap[u] = None)
  /\ offset' = 0
  /\ heap' = [heap EXCEPT ![t] = None]
  /\ grants' = {}
  /\ ends' = << >>
  /\ extraCap' = 0
  /\ UNCHANGED <<level, committed, growFlag, pc, local>>

Next ==
  \E t \in Threads :
    \/ Refill(t) \/ FitFound(t) \/ FitMissing(t) \/ CasTake(t) \/ CasFail(t)
    \/ GrowEnter(t) \/ GrowSpin(t) \/ Recheck(t) \/ LinkSegment(t) \/ GrowFails(t)
    \/ Publish(t) \/ Release(t) \/ Commit(t) \/ CommitCas(t) \/ Install(t)
    \/ Invalidate(t) \/ PopTrim(t) \/ Reset(t)

Spec == Init /\ [][Next]_vars

(* A thread inside refill keeps running, and a weak CAS whose expected     *)
(* value is current does not fail forever.  Nothing makes a thread call    *)
(* refill, reset or invalidate its heap.                                   *)
Running(t) ==
  \/ FitFound(t) \/ FitMissing(t) \/ CasTake(t) \/ CasFail(t) \/ GrowEnter(t)
  \/ GrowSpin(t) \/ Recheck(t) \/ LinkSegment(t) \/ GrowFails(t) \/ Publish(t)
  \/ Release(t) \/ Commit(t) \/ CommitCas(t) \/ Install(t)

FairSpec ==
  /\ Spec
  /\ \A t \in Threads : WF_vars(Running(t)) /\ SF_vars(CasTake(t))

-----------------------------------------------------------------------------
(* Properties.                                                             *)

(* Types; every size is a size_t, so none may become negative.             *)
TypeOK ==
  /\ level \in {0, 1}
  /\ offset \in Nat
  /\ committed \in Nat
  /\ ends \in Seq(Nat)
  /\ extraCap \in Nat
  /\ growFlag \in {0, 1}
  /\ pc \in [Threads -> PCs]
  /\ seen \in [Threads -> Nat]
  /\ fit \in [Threads -> Nat]
  /\ snap \in [Threads -> Nat]
  /\ heap \in [Threads -> Nat \union {None}]
  /\ grants \subseteq [by : Threads, start : Nat]

Apart(a, b) == a + HeapSize <= b \/ b + HeapSize <= a

(* The refill CAS: two threads that refill at the same time, whoever grows *)
(* the chain in between, never end up with overlapping thread heaps.       *)
HeapsApart ==
  \A t, u \in Threads :
    t # u /\ heap[t] # None /\ heap[u] # None => Apart(heap[t], heap[u])

(* pool_fit_offset and pool_trim_tail: every block handed out stays inside *)
(* the primary region or inside one segment that is still in the chain; it *)
(* never straddles two regions and trimming never frees it.                *)
GrantsBacked == \A g \in grants : Backed(ends, g.start)

(* pool_commit_up_to under contention: a block of the primary region that  *)
(* is installed as a heap has its pages committed.                         *)
CommittedBeforeUse ==
  \A t \in Threads :
    heap[t] # None /\ heap[t] + HeapSize <= PrimaryCap =>
      heap[t] + HeapSize <= committed

(* g_grow_flag: one thread at a time modifies the chain, and outside that  *)
(* section the published capacity is the chain's.                          *)
ChainGuarded ==
  /\ \A t, u \in Growing : t = u
  /\ Growing = {} => extraCap = ChainEnd(ends)

(* The retry loop of kmm_v4_thread_heap_refill ends, with a heap or NULL,  *)
(* unless other threads start refills for ever: waiting on g_grow_flag and *)
(* retrying the CAS never becomes a livelock among the threads inside.     *)
RefillReturns ==
  \/ []<><<\E u \in Threads : Refill(u)>>_vars
  \/ \A t \in Threads : pc[t] # "idle" ~> pc[t] = "idle"

(* What the scopes above rely on: blocks that never overlap, until a reset *)
(* takes all of them back.                                                 *)
Blocks == INSTANCE BlockPool WITH Size <- HeapSize, blocks <- grants
ImplementsBlockPool == Blocks!Spec

=============================================================================
