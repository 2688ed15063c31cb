------------------------------- MODULE KmmScope -------------------------------
(***************************************************************************)
(* One thread's bump heap and the scopes that rewind it                    *)
(* (src/src/kmm_scoped_allocator_v4.h and the code the compiler emits).    *)
(*                                                                         *)
(* An allocation bumps the offset of the thread heap; when the heap is too *)
(* short a refill replaces it with a fresh block of the pool (BlockPool).  *)
(* Scopes nest and rewind the heap when they are left.  There are two      *)
(* kinds, both emitted by the code generator: a stack scope pushes         *)
(* {base, offset} on the thread's scope stack, and gives the heap up when  *)
(* it finds another base at the end; an offset scope saves the offset      *)
(* alone in a C local and writes it back.  Sizes are in units of           *)
(* KMM_V4_ALIGNMENT.                                                       *)
(***************************************************************************)
EXTENDS Integers, Sequences

CONSTANTS
  Blocks,      (* base addresses a refill can return                       *)
  NULL,        (* the null address                                         *)
  HeapSize,    (* KMM_TLS_BUFFER_SIZE                                      *)
  Sizes,       (* sizes the program asks for, aligned                      *)
  MaxDepth,    (* KMM_V4_MAX_SCOPE_DEPTH                                   *)
  WordSize,    (* size_t wraps at this value                               *)
  MaxNesting   (* bound: nesting of scopes of both kinds                   *)

ASSUME ScopeAssumption ==
  /\ NULL \notin Blocks
  /\ HeapSize \in Nat
  /\ Sizes \subseteq Nat \ {0}
  /\ MaxDepth \in Nat
  /\ WordSize \in Nat
  /\ HeapSize < WordSize
  /\ MaxNesting \in Nat

VARIABLES
  heap,     (* g_kmm_v4_thread_heap                                        *)
  scopes,   (* open scopes, outermost first, with what each one saved      *)
  objects,  (* live objects: where they are and the scope they belong to   *)
  granted,  (* blocks of the pool this thread has had since the last reset *)
  aborted,  (* the process has called abort()                              *)
  given_up, (* history: the heap has been given up inside an offset scope  *)
  astray    (* history: an object has been handed out without a block; to  *)
            (* use it ends the process                                     *)

history == <<given_up, astray>>
vars == <<heap, scopes, objects, granted, aborted, history>>

Running == ~aborted /\ ~astray

Heaps  == [base : Blocks \union {NULL}, offset : Nat, capacity : {0, HeapSize}]
Frames == [kind : {"stack", "offset"}, base : Blocks \union {NULL}, offset : Nat]

NoHeap == [base |-> NULL, offset |-> 0, capacity |-> 0]

Objects == [base : Blocks \union {NULL}, start : Nat, size : Nat, depth : Nat]

(* What is left of the heap, in size_t arithmetic.                         *)
Room == (heap.capacity - heap.offset) % WordSize

(* What a scope saves: {base, offset} on the stack, the offset in a local. *)
Saved(kind) ==
  [kind |-> kind, base |-> IF kind = "stack" THEN heap.base ELSE NULL,
   offset |-> heap.offset]

AnyBase(frame)  == TRUE   \* fault: the offset is restored on any heap
SameBase(frame) == heap.base = frame.base

OffsetOpen == \E i \in 1 .. Len(scopes) : scopes[i].kind = "offset"

StackDepth == Len(SelectSeq(scopes, LAMBDA s : s.kind = "stack"))

StackFull == StackDepth >= MaxDepth

Init ==
  /\ heap = NoHeap
  /\ scopes = << >>
  /\ objects = {}
  /\ granted = {}
  /\ aborted = FALSE
  /\ given_up = FALSE
  /\ astray = FALSE

Object(base, start, size) ==
  [base |-> base, start |-> start, size |-> size, depth |-> Len(scopes)]

(* kmm_v4_alloc_auto, kmm_v4_bump: the fast path, which does not look at   *)
(* the base.                                                               *)
Bump(size) ==
  /\ Running
  /\ size <= Room
  /\ objects' = objects \union {Object(heap.base, heap.offset, size)}
  /\ heap' = [heap EXCEPT !.offset = @ + size]
  /\ astray' = (heap.base = NULL)
  /\ UNCHANGED <<scopes, granted, aborted, given_up>>

(* The heap is too short and kmm_v4_thread_heap_refill returns a block.    *)
(* A size above HeapSize, or a refill that fails, leaves the heap as it is *)
(* (the object goes to the survivor segment, or bump returns NULL).        *)
RefillAndBump(size) ==
  /\ Running
  /\ size > Room
  /\ size <= HeapSize
  /\ \E b \in Blocks \ granted :
       /\ heap' = [base |-> b, offset |-> size, capacity |-> HeapSize]
       /\ objects' = objects \union {Object(b, 0, size)}
       /\ granted' = granted \union {b}
  /\ UNCHANGED <<scopes, aborted, history>>

(* kmm_v4_scope_push.                                                      *)
ScopePush ==
  /\ Running
  /\ Len(scopes) < MaxNesting
  /\ IF StackFull
     THEN aborted' = TRUE /\ UNCHANGED scopes
     ELSE scopes' = Append(scopes, Saved("stack")) /\ UNCHANGED aborted
  /\ UNCHANGED <<heap, objects, granted, history>>

(* Leaving the innermost scope ends the life of the objects allocated in it. *)
Leave ==
  /\ scopes' = SubSeq(scopes, 1, Len(scopes) - 1)
  /\ objects' = {o \in objects : o.depth < Len(scopes)}

(* kmm_v4_scope_pop.                                                       *)
ScopePop ==
  /\ Running
  /\ scopes # << >>
  /\ LET frame == scopes[Len(scopes)] IN
       /\ frame.kind = "stack"
       /\ heap' = IF SameBase(frame)
                  THEN [heap EXCEPT !.offset = frame.offset]
                  ELSE NoHeap
       /\ given_up' = (given_up \/ (OffsetOpen /\ heap.base # frame.base))
  /\ Leave
  /\ UNCHANGED <<granted, aborted, astray>>

(* kmm_v4_scope_pop without a matching push: the process aborts.           *)
ScopeUnderflow ==
  /\ Running
  /\ scopes = << >>
  /\ aborted' = TRUE
  /\ UNCHANGED <<heap, scopes, objects, granted, history>>

(* { size_t _scope_start = kmm_v4_offset_save();                           *)
OffsetSave ==
  /\ Running
  /\ Len(scopes) < MaxNesting
  /\ scopes' = Append(scopes, Saved("offset"))
  /\ UNCHANGED <<heap, objects, granted, aborted, history>>

(* kmm_v4_offset_restore(_scope_start); }                                  *)
OffsetRestore ==
  /\ Running
  /\ scopes # << >>
  /\ scopes[Len(scopes)].kind = "offset"
  /\ heap' = [heap EXCEPT !.offset = scopes[Len(scopes)].offset]
  /\ Leave
  /\ UNCHANGED <<granted, aborted, history>>

(* break, continue and return leave the C block of an offset scope before  *)
(* its restore is reached; a return pops the stack scopes itself.          *)
OffsetSkipped ==
  /\ Running
  /\ scopes # << >>
  /\ scopes[Len(scopes)].kind = "offset"
  /\ Leave
  /\ UNCHANGED <<heap, granted, aborted, history>>

(* kmm_v4_reset ends the life of every object and gives every block back;  *)
(* the scope stack, and the offsets in C locals, are left as they are.     *)
Reset ==
  /\ Running
  /\ heap' = NoHeap
  /\ objects' = {}
  /\ granted' = {}
  /\ given_up' = (given_up \/ OffsetOpen)
  /\ UNCHANGED <<scopes, aborted, astray>>

Next ==
  \/ \E size \in Sizes : Bump(size) \/ RefillAndBump(size)
  \/ ScopePush \/ ScopePop \/ ScopeUnderflow
  \/ OffsetSave \/ OffsetRestore \/ OffsetSkipped
  \/ Reset

Spec == Init /\ [][Next]_vars

-----------------------------------------------------------------------------
(* Properties.                                                             *)

(* Types; offsets are size_t and stay at or above zero.                    *)
TypeOK ==
  /\ heap \in Heaps
  /\ scopes \in Seq(Frames)
  /\ objects \subseteq Objects
  /\ granted \subseteq Blocks
  /\ aborted \in BOOLEAN
  /\ given_up \in BOOLEAN
  /\ astray \in BOOLEAN

EndOf(o) == o.start + o.size

(* Rewinding and refilling never hand out memory of an object that is      *)
(* still alive: no two live objects overlap.                               *)
LiveDisjoint ==
  \A o, p \in objects :
    o # p /\ o.base = p.base => (EndOf(o) <= p.start \/ EndOf(p) <= o.start)

(* Every live object lies inside a block the pool granted.                 *)
LiveInBlock ==
  \A o \in objects : o.base \in granted /\ EndOf(o) <= HeapSize

(* The unsigned "capacity - offset" of the fast path does not wrap while   *)
(* there is a heap.                                                        *)
RoomDoesNotWrap == heap.base # NULL => heap.offset <= heap.capacity

(* Scopes are memory safe, whatever stack and offset scopes, refills and   *)
(* resets they enclose: no allocation is given memory of a live object or  *)
(* memory outside a block, but for an offset that an offset scope has      *)
(* restored where there is no heap.  That takes a stack scope that gave    *)
(* the heap up, or a reset, inside an offset scope: every other program is *)
(* safe for ever, and that one until its first allocation from no heap.    *)
MemorySafe ==
  /\ ~astray => LiveDisjoint /\ LiveInBlock /\ RoomDoesNotWrap
  /\ astray => given_up

=============================================================================
