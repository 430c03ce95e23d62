---------------------------- MODULE SharedBuffer ----------------------------
(***************************************************************************)
(* lltl::raw_shbuffer and lltl::shbuffer (src/main/shbuffer.cpp and        *)
(* include/lsp-plug.in/lltl/shbuffer.h): handles on reference-counted      *)
(* buffers.  A handle is used by one thread at a time, as any C++ object,  *)
(* but the handles of one buffer belong to different threads, so the steps *)
(* of the calls on different handles interleave: one action is one atomic  *)
(* operation on the count, or one call of the deleter or of free().        *)
(*                                                                         *)
(* A handle that is destroyed and constructed again is a handle that is    *)
(* emptied and filled again: the destructor is Reset, the constructors are *)
(* the operations on an empty handle.                                      *)
(***************************************************************************)
EXTENDS Integers, FiniteSets

CONSTANTS
    Handles,        \* shbuffer objects
    Buffers,        \* heap blocks for buffer_t headers, none reused after free()
    Data,           \* memory that is given to map() with a deleter
    NULL,
    MaxReferences   \* bound: a count that clients do not raise any further

ASSUME NullAssumption == NULL \notin Buffers \cup Data
ASSUME HandlesAssumption == IsFiniteSet(Handles)
ASSUME BoundAssumption == MaxReferences \in Nat

VARIABLES
    ptr,            \* v.ptr of each handle
    pc,             \* where the reference_down() of a handle is
    replace,        \* its argument
    references,     \* hdr->references
    data,           \* hdr->data if hdr->deleter # NULL, else NULL
    heap,           \* what malloc() and free() made of each block
    fate,           \* history: what happened to the mapped memory
    lost            \* history: references that nobody holds and nobody gave up

vars == <<ptr, pc, replace, references, data, heap, fate, lost>>

TypeOK ==
    /\ ptr \in [Handles -> Buffers \cup {NULL}]
    /\ pc \in [Handles -> {"idle", "down", "delete", "free"}]
    /\ replace \in [Handles -> Buffers \cup {NULL}]
    /\ references \in [Buffers -> Nat]
    /\ data \in [Buffers -> Data \cup {NULL}]
    /\ heap \in [Buffers -> {"unused", "live", "freed"}]
    /\ fate \in [Data -> {"caller", "given", "deleted", "deleted_twice"}]
    /\ lost \in [Buffers -> Nat]

Init ==
    /\ ptr = [h \in Handles |-> NULL]
    /\ pc = [h \in Handles |-> "idle"]
    /\ replace = [h \in Handles |-> NULL]
    /\ references = [b \in Buffers |-> 0]
    /\ data = [b \in Buffers |-> NULL]
    /\ heap = [b \in Buffers |-> "unused"]
    /\ fate = [d \in Data |-> "caller"]
    /\ lost = [b \in Buffers |-> 0]

-----------------------------------------------------------------------------
Idle(h) == pc[h] = "idle"

(* The start of reference_down(r): an empty handle just takes r.           *)
Begin(h, r) ==
    IF ptr[h] = NULL
    THEN /\ ptr' = [ptr EXCEPT ![h] = r]
         /\ UNCHANGED <<pc, replace>>
    ELSE /\ pc' = [pc EXCEPT ![h] = "down"]
         /\ replace' = [replace EXCEPT ![h] = r]
         /\ UNCHANGED ptr

(* The rest of it: give the reference up, and if it was the last one call
   the deleter, free the header and only then let go of the pointer.       *)
Finish(h) ==
    /\ ptr' = [ptr EXCEPT ![h] = replace[h]]
    /\ replace' = [replace EXCEPT ![h] = NULL]
    /\ pc' = [pc EXCEPT ![h] = "idle"]

(* Mutant: the test of the count is off by one.                            *)
DownOffByOne(h) ==
    /\ pc[h] = "down"
    /\ references' = [references EXCEPT ![ptr[h]] = @ - 1]
    /\ IF references[ptr[h]] - 1 > 1
       THEN Finish(h)
       ELSE pc' = [pc EXCEPT ![h] = "delete"] /\ UNCHANGED <<ptr, replace>>
    /\ UNCHANGED <<data, heap, fate, lost>>

(* Mutant: the unsigned count is tested with >= 0, and nothing is freed.   *)
DownNeverLast(h) ==
    /\ pc[h] = "down"
    /\ references' = [references EXCEPT ![ptr[h]] = @ - 1]
    /\ Finish(h)
    /\ UNCHANGED <<data, heap, fate, lost>>

ReferenceDown(h) ==
    /\ pc[h] = "down"
    /\ references' = [references EXCEPT ![ptr[h]] = @ - 1]
    /\ IF references[ptr[h]] - 1 > 0
       THEN Finish(h)
       ELSE pc' = [pc EXCEPT ![h] = "delete"] /\ UNCHANGED <<ptr, replace>>
    /\ UNCHANGED <<data, heap, fate, lost>>

(* if (ptr->deleter != NULL) ptr->deleter(ptr->data)                       *)
CallDeleter(h) ==
    /\ pc[h] = "delete"
    /\ fate' = [d \in Data |->
                   IF d # data[ptr[h]] THEN fate[d]
                   ELSE IF fate[d] = "given" THEN "deleted" ELSE "deleted_twice"]
    /\ pc' = [pc EXCEPT ![h] = "free"]
    /\ UNCHANGED <<ptr, replace, references, data, heap, lost>>

Free(h) ==
    /\ pc[h] = "free"
    /\ heap' = [heap EXCEPT ![ptr[h]] = "freed"]
    /\ Finish(h)
    /\ UNCHANGED <<references, data, fate, lost>>

-----------------------------------------------------------------------------
(* map() with a deleter.  If malloc() fails the handle ends up empty and the
   memory stays with the caller.                                           *)
Map(h, d) ==
    /\ Idle(h) /\ fate[d] = "caller"
    /\ \/ /\ Begin(h, NULL)
          /\ UNCHANGED <<references, data, heap, fate>>
       \/ \E b \in Buffers :
            /\ heap[b] = "unused"
            /\ heap' = [heap EXCEPT ![b] = "live"]
            /\ references' = [references EXCEPT ![b] = 1]
            /\ data' = [data EXCEPT ![b] = d]
            /\ fate' = [fate EXCEPT ![d] = "given"]
            /\ Begin(h, b)
    /\ UNCHANGED lost

(* make(), and map() without a deleter                                     *)
Make(h) ==
    /\ Idle(h)
    /\ \/ /\ Begin(h, NULL)
          /\ UNCHANGED <<references, heap>>
       \/ \E b \in Buffers :
            /\ heap[b] = "unused"
            /\ heap' = [heap EXCEPT ![b] = "live"]
            /\ references' = [references EXCEPT ![b] = 1]
            /\ Begin(h, b)
    /\ UNCHANGED <<data, fate, lost>>

(* Mutant: the copy assignment takes the pointer without a reference.      *)
CopyWithoutUp(h, s) ==
    /\ Idle(h) /\ Idle(s)
    /\ Begin(h, ptr[s])
    /\ UNCHANGED <<references, data, heap, fate, lost>>

(* The copy constructor and operator = (const shbuffer &): reference_up() on
   the source, which nobody may be changing meanwhile, then reference_down. *)
Copy(h, s) ==
    /\ Idle(h) /\ Idle(s)
    /\ ptr[s] # NULL => references[ptr[s]] < MaxReferences
    /\ references' = IF ptr[s] = NULL THEN references
                     ELSE [references EXCEPT ![ptr[s]] = @ + 1]
    /\ Begin(h, ptr[s])
    /\ UNCHANGED <<data, heap, fate, lost>>

(* Mutant: the source of a move keeps its pointer.                         *)
MoveKeepsSource(h, s) ==
    /\ Idle(h) /\ Idle(s)
    /\ ptr' = [ptr EXCEPT ![h] = ptr[s]]
    /\ UNCHANGED <<pc, replace, references, data, heap, fate, lost>>

(* The move constructor and operator = (shbuffer &&): the pointer of the
   target is overwritten, whatever it was, without giving up its reference. *)
Move(h, s) ==
    /\ Idle(h) /\ Idle(s)
    /\ ptr' = [ptr EXCEPT ![h] = ptr[s], ![s] = NULL]
    /\ lost' = [b \in Buffers |-> IF b = ptr[h] THEN lost[b] + 1 ELSE lost[b]]
    /\ UNCHANGED <<pc, replace, references, data, heap, fate>>

(* reset(), operator = (nullptr_t) and the destructor                      *)
Reset(h) ==
    /\ Idle(h)
    /\ Begin(h, NULL)
    /\ UNCHANGED <<references, data, heap, fate, lost>>

Swap(h, s) ==
    /\ Idle(h) /\ Idle(s)
    /\ ptr' = [ptr EXCEPT ![h] = ptr[s], ![s] = ptr[h]]
    /\ UNCHANGED <<pc, replace, references, data, heap, fate, lost>>

-----------------------------------------------------------------------------
Down(h) == ReferenceDown(h) \/ CallDeleter(h) \/ Free(h)

Next ==
    \/ \E h \in Handles : Down(h) \/ Make(h) \/ Reset(h)
    \/ \E h \in Handles, d \in Data : Map(h, d)
    \/ \E h, s \in Handles : Copy(h, s) \/ Move(h, s) \/ Swap(h, s)

Spec == Init /\ [][Next]_vars

(* reference_down() never waits, so a call that has begun ends.            *)
FairSpec == Spec /\ \A h \in Handles : WF_vars(Down(h))

-----------------------------------------------------------------------------
(* Properties.                                                             *)

(* Handles that still count: h has not given its reference up yet.         *)
Counting(h) == ptr[h] # NULL /\ pc[h] \in {"idle", "down"}

Referrers(b) == {h \in Handles : Counting(h) /\ ptr[h] = b}
Incoming(b)  == {h \in Handles : replace[h] = b}

(* The count is exact: one for each handle that has not given its reference
   up, one for each assignment that is on its way to the buffer, and one for
   each reference that a move has overwritten.                             *)
CountIsExact ==
    \A b \in Buffers : heap[b] = "live" =>
        references[b] = Cardinality(Referrers(b)) + Cardinality(Incoming(b)) + lost[b]

(* references() is the number of references: when no call is under way, the
   number of handles of the buffer.                                        *)
ReferencesAreHandles ==
    (\A h \in Handles : Idle(h)) =>
        \A h \in Handles : ptr[h] # NULL =>
            references[ptr[h]] = Cardinality({g \in Handles : ptr[g] = ptr[h]})

(* No handle is left with a buffer that is freed, or about to be freed by
   another handle: what get() returns may be read.                         *)
NoDangling ==
    \A h \in Handles :
        /\ Counting(h) => heap[ptr[h]] = "live" /\ references[ptr[h]] > 0
        /\ replace[h] # NULL => heap[replace[h]] = "live" /\ references[replace[h]] > 0

(* The deleter of mapped memory is called once.                            *)
DeletedOnce == \A d \in Data : fate[d] # "deleted_twice"

(* Mapped memory outlives every handle: while one refers to its buffer it is
   not deleted.                                                            *)
MappedAlive ==
    \A h \in Handles : Counting(h) /\ data[ptr[h]] # NULL => fate[data[ptr[h]]] = "given"

(* No buffer is left behind: a live one is the buffer of a handle, or on its
   way to one, unless a move has overwritten a reference to it.            *)
NothingForgotten ==
    \A b \in Buffers : heap[b] = "live" =>
        lost[b] > 0 \/ \E h \in Handles : b \in {ptr[h], replace[h]}

(* The count, over the promise it is there to keep.                        *)
Refers == [h \in Handles |-> IF Idle(h) THEN ptr[h] ELSE replace[h]]

Promise == INSTANCE SharedValue WITH
    refers   <- Refers,
    released <- {b \in Buffers : heap[b] = "freed"}

KeepsPromise == Promise!Spec

(* Once no handle wants a buffer any more, by whatever race of reset(),
   assignments and destructors, its memory is freed, unless a move has
   overwritten a reference to it.                                          *)
BufferIsFreed ==
    \A b \in Buffers :
        heap[b] = "live" /\ lost[b] = 0 /\ (\A h \in Handles : Refers[h] # b)
            ~> heap[b] = "freed"
=============================================================================
