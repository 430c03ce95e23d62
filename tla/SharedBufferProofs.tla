------------------------- MODULE SharedBufferProofs -------------------------
(***************************************************************************)
(* What SharedBuffer guarantees for any finite number of handles, and any  *)
(* buffers and memory.                                                     *)
(***************************************************************************)
EXTENDS SharedBuffer, FiniteSetTheorems, TLAPS

(* The count, on which everything rests, is at the end of the argument: the
   types that need no argument come first.                                 *)
Typed ==
    /\ ptr \in [Handles -> Buffers \cup {NULL}]
    /\ pc \in [Handles -> {"idle", "down", "delete", "free"}]
    /\ replace \in [Handles -> Buffers \cup {NULL}]
    /\ references \in [Buffers -> Int]
    /\ data \in [Buffers -> Data \cup {NULL}]
    /\ heap \in [Buffers -> {"unused", "live", "freed"}]
    /\ fate \in [Data -> {"caller", "given", "deleted", "deleted_twice"}]
    /\ lost \in [Buffers -> Nat]

(* A call in progress has a buffer to give up; an idle handle replaces none. *)
Control ==
    \A h \in Handles : IF Idle(h) THEN replace[h] = NULL ELSE ptr[h] # NULL

(* A handle that counts, and an assignment on its way, have a live buffer. *)
Alive ==
    /\ \A h \in Handles : Counting(h) => heap[ptr[h]] = "live"
    /\ \A h \in Handles : replace[h] # NULL => heap[replace[h]] = "live"

Ending(h) == pc[h] \in {"delete", "free"}

(* The handle that saw the count at zero is alone with its buffer, and every
   live buffer whose count is zero has such a handle.                      *)
OneEnds ==
    /\ \A h \in Handles : Ending(h) =>
          heap[ptr[h]] = "live" /\ references[ptr[h]] = 0
    /\ \A g, h \in Handles : Ending(g) /\ Ending(h) /\ ptr[g] = ptr[h] => g = h
    /\ \A b \in Buffers : heap[b] = "live" /\ references[b] = 0 =>
          \E h \in Handles : Ending(h) /\ ptr[h] = b

(* A buffer that is not live has no references, and before it is allocated
   nothing has happened to it.                                             *)
Fresh ==
    /\ \A b \in Buffers : heap[b] # "live" => references[b] = 0
    /\ \A b \in Buffers : heap[b] = "unused" => lost[b] = 0 /\ data[b] = NULL

(* The memory of a live buffer is still there until its deleter is called,
   and no two buffers map the same memory.                                 *)
Memory ==
    /\ \A b \in Buffers : data[b] # NULL => fate[data[b]] # "caller"
    /\ \A b, c \in Buffers : data[b] # NULL /\ data[b] = data[c] => b = c
    /\ \A b \in Buffers :
          heap[b] = "live" /\ data[b] # NULL /\ (\A h \in Handles : pc[h] = "free" => ptr[h] # b)
              => fate[data[b]] = "given"
    /\ DeletedOnce

Shape == Typed /\ Control /\ Alive /\ Fresh

BufferInv == Shape /\ CountIsExact /\ OneEnds /\ Memory

Total(b) == Cardinality(Referrers(b)) + Cardinality(Incoming(b))

-----------------------------------------------------------------------------
(* How the two sets behind the count change when one handle changes.       *)

LEMMA CardOfHandles ==
    ASSUME NEW S \in SUBSET Handles
    PROVE  /\ Cardinality(S) \in Nat
           /\ Cardinality(S) = 0 <=> S = {}
           /\ \A h \in Handles : h \notin S => Cardinality(S \cup {h}) = Cardinality(S) + 1
           /\ \A h \in Handles : h \in S => Cardinality(S \ {h}) = Cardinality(S) - 1
<1>1. IsFiniteSet(S)
  BY FS_Subset, HandlesAssumption
<1>2. Cardinality(S) \in Nat /\ (Cardinality(S) = 0 <=> S = {})
  BY <1>1, FS_CardinalityType, FS_EmptySet
<1>3. ASSUME NEW h \in Handles, h \notin S PROVE Cardinality(S \cup {h}) = Cardinality(S) + 1
  BY <1>1, <1>3, FS_AddElement
<1>4. ASSUME NEW h \in Handles, h \in S PROVE Cardinality(S \ {h}) = Cardinality(S) - 1
  BY <1>1, <1>4, FS_RemoveElement
<1> QED BY <1>2, <1>3, <1>4

LEMMA TotalType ==
    ASSUME NEW b \in Buffers
    PROVE  /\ Total(b) \in Nat
           /\ Total(b) = 0 <=> Referrers(b) = {} /\ Incoming(b) = {}
<1>1. Referrers(b) \in SUBSET Handles /\ Incoming(b) \in SUBSET Handles
  BY DEF Referrers, Incoming
<1>2. /\ Cardinality(Referrers(b)) \in Nat
      /\ Cardinality(Incoming(b)) \in Nat
      /\ Cardinality(Referrers(b)) = 0 <=> Referrers(b) = {}
      /\ Cardinality(Incoming(b)) = 0 <=> Incoming(b) = {}
  BY <1>1, CardOfHandles
<1> QED BY <1>2 DEF Total

(* reference_down(r) takes one more reference to r with it, be it at once or
   by way of an assignment in progress.                                    *)
LEMMA BeginTotal ==
    ASSUME Typed, Control, NEW h \in Handles, Idle(h),
           NEW r \in Buffers \cup {NULL}, Begin(h, r), NEW b \in Buffers
    PROVE  Total(b)' = IF b = r THEN Total(b) + 1 ELSE Total(b)
<1>1. Referrers(b) \in SUBSET Handles /\ Incoming(b) \in SUBSET Handles
  BY DEF Referrers, Incoming
<1>2. h \notin Incoming(b)
  BY NullAssumption DEF Control, Incoming
<1>3. CASE ptr[h] = NULL
  <2>1. Incoming(b)' = Incoming(b)
    BY <1>3 DEF Begin, Incoming
  <2>2. h \notin Referrers(b)
    BY <1>3, NullAssumption DEF Referrers, Counting
  <2>3. Referrers(b)' = IF b = r THEN Referrers(b) \cup {h} ELSE Referrers(b)
    BY <1>3, NullAssumption DEF Begin, Referrers, Counting, Typed, Idle
  <2> QED BY <1>1, <2>1, <2>2, <2>3, CardOfHandles DEF Total
<1>4. CASE ptr[h] # NULL
  <2>1. Referrers(b)' = Referrers(b)
    BY <1>4 DEF Begin, Referrers, Counting, Typed, Idle
  <2>2. Incoming(b)' = IF b = r THEN Incoming(b) \cup {h} ELSE Incoming(b)
    BY <1>2, <1>4 DEF Begin, Incoming, Typed
  <2> QED BY <1>1, <1>2, <2>1, <2>2, CardOfHandles DEF Total
<1> QED BY <1>3, <1>4

(* Its end turns the assignment in progress into the handle's own reference:
   nothing is counted more; its old reference went before.                 *)
LEMMA FinishTotal ==
    ASSUME Typed, Control, NEW h \in Handles, pc[h] \in {"down", "free"}, Finish(h),
           NEW b \in Buffers
    PROVE  Total(b)' = IF pc[h] = "down" /\ b = ptr[h] THEN Total(b) - 1 ELSE Total(b)
<1>1. Referrers(b) \in SUBSET Handles /\ Incoming(b) \in SUBSET Handles
  BY DEF Referrers, Incoming
<1>2. Referrers(b)' = IF replace[h] = b THEN (Referrers(b) \ {h}) \cup {h} ELSE Referrers(b) \ {h}
  BY NullAssumption DEF Finish, Referrers, Counting, Typed
<1>3. Incoming(b)' = Incoming(b) \ {h}
  BY NullAssumption DEF Finish, Incoming, Typed
<1>4. h \in Incoming(b) <=> replace[h] = b
  BY DEF Incoming
<1>5. h \in Referrers(b) <=> pc[h] = "down" /\ ptr[h] = b
  BY NullAssumption DEF Referrers, Counting
<1>6. /\ Referrers(b) \ {h} \in SUBSET Handles
      /\ h \notin Referrers(b) \ {h}
      /\ h \notin Referrers(b) => Referrers(b) \ {h} = Referrers(b)
      /\ h \notin Incoming(b) => Incoming(b) \ {h} = Incoming(b)
  BY <1>1
<1>7. /\ Cardinality((Referrers(b) \ {h}) \cup {h}) = Cardinality(Referrers(b) \ {h}) + 1
      /\ Cardinality(Referrers(b)) \in Nat /\ Cardinality(Incoming(b)) \in Nat
      /\ h \in Referrers(b) => Cardinality(Referrers(b) \ {h}) = Cardinality(Referrers(b)) - 1
      /\ h \in Incoming(b) => Cardinality(Incoming(b) \ {h}) = Cardinality(Incoming(b)) - 1
  BY <1>1, <1>6, CardOfHandles
<1>8. Cardinality(Referrers(b)') = IF replace[h] = b THEN Cardinality(Referrers(b) \ {h}) + 1
                                  ELSE Cardinality(Referrers(b) \ {h})
  BY <1>2, <1>7
<1>9. Cardinality(Incoming(b)') = IF replace[h] = b THEN Cardinality(Incoming(b)) - 1
                                 ELSE Cardinality(Incoming(b))
  BY <1>3, <1>4, <1>6, <1>7
<1>10. Cardinality(Referrers(b) \ {h}) = IF pc[h] = "down" /\ b = ptr[h]
                                         THEN Cardinality(Referrers(b)) - 1
                                         ELSE Cardinality(Referrers(b))
  BY <1>5, <1>6, <1>7
<1>11. Total(b)' = Cardinality(Referrers(b)') + Cardinality(Incoming(b)')
  BY DEF Total
<1> QED BY <1>7, <1>8, <1>9, <1>10, <1>11 DEF Total

(* A call that saw the count at zero takes its handle out of the count.    *)
LEMMA LastTotal ==
    ASSUME Typed, NEW h \in Handles, pc[h] = "down", ptr[h] # NULL,
           pc' = [pc EXCEPT ![h] = "delete"], UNCHANGED <<ptr, replace>>, NEW b \in Buffers
    PROVE  Total(b)' = IF b = ptr[h] THEN Total(b) - 1 ELSE Total(b)
<1>1. Referrers(b) \in SUBSET Handles
  BY DEF Referrers
<1>2. Incoming(b)' = Incoming(b)
  BY DEF Incoming
<1>3. Referrers(b)' = Referrers(b) \ {h}
  BY DEF Referrers, Counting, Typed
<1>4. h \in Referrers(b) <=> ptr[h] = b
  BY DEF Referrers, Counting
<1>5. Cardinality(Referrers(b)') = IF b = ptr[h] THEN Cardinality(Referrers(b)) - 1
                                  ELSE Cardinality(Referrers(b))
  BY <1>1, <1>3, <1>4, CardOfHandles
<1>6. Cardinality(Referrers(b)) \in Nat /\ Cardinality(Incoming(b)) \in Nat
  BY CardOfHandles DEF Referrers, Incoming
<1> QED BY <1>2, <1>5, <1>6 DEF Total

(* A call that leaves the handles alone leaves the sets alone.             *)
LEMMA SameTotal ==
    ASSUME Typed, UNCHANGED <<ptr, replace>>, NEW b \in Buffers,
           \A h \in Handles : pc'[h] \in {"idle", "down"} <=> pc[h] \in {"idle", "down"}
    PROVE  Total(b)' = Total(b)
<1>1. Referrers(b)' = Referrers(b) /\ Incoming(b)' = Incoming(b)
  BY DEF Referrers, Incoming, Counting
<1> QED BY <1>1 DEF Total

(* A move takes a reference from the buffer whose handle it overwrites.    *)
LEMMA MoveTotal ==
    ASSUME Typed, NEW h \in Handles, NEW s \in Handles, Move(h, s), NEW b \in Buffers
    PROVE  Total(b)' = IF b = ptr[h] THEN Total(b) - 1 ELSE Total(b)
<1>1. Referrers(b) \in SUBSET Handles
  BY DEF Referrers
<1>2. Incoming(b)' = Incoming(b)
  BY DEF Incoming, Move
<1>3. /\ h \in Referrers(b) <=> ptr[h] = b
      /\ s \in Referrers(b) <=> ptr[s] = b
  BY NullAssumption DEF Referrers, Counting, Move, Idle
<1>4. Cardinality(Referrers(b)) \in Nat /\ Cardinality(Incoming(b)) \in Nat
  BY <1>1, CardOfHandles DEF Incoming
<1>5. CASE h = s
  <2>1. Referrers(b)' = Referrers(b) \ {h}
    BY <1>5, NullAssumption DEF Move, Referrers, Counting, Typed
  <2>2. h \notin Referrers(b) => Referrers(b) \ {h} = Referrers(b)
    OBVIOUS
  <2>3. Cardinality(Referrers(b) \ {h}) = IF b = ptr[h] THEN Cardinality(Referrers(b)) - 1
                                          ELSE Cardinality(Referrers(b))
    BY <1>1, <1>3, <2>2, CardOfHandles
  <2> QED BY <1>2, <1>4, <2>1, <2>3 DEF Total
<1>6. CASE h # s /\ ptr[s] = b
  <2> DEFINE R == Referrers(b) \ {s}
  <2>1. Referrers(b)' = R \cup {h}
    BY <1>6, NullAssumption DEF Move, Referrers, Counting, Typed, Idle
  <2>2. Cardinality(R) = Cardinality(Referrers(b)) - 1
    BY <1>1, <1>3, <1>6, CardOfHandles
  <2>3. R \in SUBSET Handles
    BY <1>1
  <2>4. Cardinality(R \cup {h}) = IF ptr[h] = b THEN Cardinality(R) ELSE Cardinality(R) + 1
    <3>1. CASE ptr[h] = b
      <4>1. R \cup {h} = R
        BY <1>3, <1>6, <3>1
      <4> QED BY <3>1, <4>1
    <3>2. CASE ptr[h] # b
      <4>1. h \notin R
        BY <1>3, <3>2
      <4> QED BY <2>3, <3>2, <4>1, CardOfHandles
    <3> QED BY <3>1, <3>2
  <2>5. Cardinality(Referrers(b)) \in Nat /\ Cardinality(Incoming(b)) \in Nat
    BY <1>1, CardOfHandles DEF Incoming
  <2> HIDE DEF R
  <2> QED BY <1>2, <2>1, <2>2, <2>4, <2>5 DEF Total
<1>7. CASE h # s /\ ptr[s] # b
  <2>1. Referrers(b)' = Referrers(b) \ {h}
    BY <1>7, NullAssumption DEF Move, Referrers, Counting, Typed
  <2>2. h \notin Referrers(b) => Referrers(b) \ {h} = Referrers(b)
    OBVIOUS
  <2>3. Cardinality(Referrers(b) \ {h}) = IF b = ptr[h] THEN Cardinality(Referrers(b)) - 1
                                          ELSE Cardinality(Referrers(b))
    BY <1>1, <1>3, <2>2, CardOfHandles
  <2> QED BY <1>2, <1>4, <2>1, <2>3 DEF Total
<1> QED BY <1>5, <1>6, <1>7

LEMMA SwapTotal ==
    ASSUME Typed, NEW h \in Handles, NEW s \in Handles, Swap(h, s), NEW b \in Buffers
    PROVE  Total(b)' = Total(b)
<1>1. Referrers(b) \in SUBSET Handles /\ Incoming(b)' = Incoming(b)
  BY DEF Referrers, Incoming, Swap
<1>2. /\ h \in Referrers(b) <=> ptr[h] = b
      /\ s \in Referrers(b) <=> ptr[s] = b
  BY NullAssumption DEF Referrers, Counting, Swap, Idle
<1>3. CASE ptr[h] = b /\ ptr[s] # b
  <2>1. Referrers(b)' = (Referrers(b) \ {h}) \cup {s}
    BY <1>3, NullAssumption DEF Swap, Referrers, Counting, Typed, Idle
  <2>2. Cardinality(Referrers(b) \ {h}) = Cardinality(Referrers(b)) - 1
    BY <1>1, <1>2, <1>3, CardOfHandles
  <2>3. Cardinality((Referrers(b) \ {h}) \cup {s}) = Cardinality(Referrers(b) \ {h}) + 1
    BY <1>1, <1>2, <1>3, CardOfHandles
  <2>4. Cardinality(Referrers(b)) \in Nat
    BY <1>1, CardOfHandles
  <2> QED BY <1>1, <2>1, <2>2, <2>3, <2>4 DEF Total
<1>4. CASE ptr[s] = b /\ ptr[h] # b
  <2>1. Referrers(b)' = (Referrers(b) \ {s}) \cup {h}
    BY <1>4, NullAssumption DEF Swap, Referrers, Counting, Typed, Idle
  <2>2. Cardinality(Referrers(b) \ {s}) = Cardinality(Referrers(b)) - 1
    BY <1>1, <1>2, <1>4, CardOfHandles
  <2>3. Cardinality((Referrers(b) \ {s}) \cup {h}) = Cardinality(Referrers(b) \ {s}) + 1
    BY <1>1, <1>2, <1>4, CardOfHandles
  <2>4. Cardinality(Referrers(b)) \in Nat
    BY <1>1, CardOfHandles
  <2> QED BY <1>1, <2>1, <2>2, <2>3, <2>4 DEF Total
<1>5. CASE (ptr[s] = b) = (ptr[h] = b)
  <2>1. Referrers(b)' = Referrers(b)
    BY <1>5, NullAssumption DEF Swap, Referrers, Counting, Typed
  <2> QED BY <1>1, <2>1 DEF Total
<1> QED BY <1>3, <1>4, <1>5

-----------------------------------------------------------------------------
(* The steps.                                                              *)

(* A buffer that a handle counts on, or that is on its way to one, has a
   positive count; a buffer whose handle is ending has neither.            *)
LEMMA PositiveCount ==
    ASSUME Shape, CountIsExact
    PROVE  /\ \A h \in Handles : Counting(h) => references[ptr[h]] > 0
           /\ \A h \in Handles : replace[h] # NULL => references[replace[h]] > 0
<1>1. ASSUME NEW h \in Handles, Counting(h) PROVE references[ptr[h]] > 0
  <2>1. ptr[h] \in Buffers /\ heap[ptr[h]] = "live" /\ lost[ptr[h]] \in Nat
    BY <1>1 DEF Shape, Typed, Alive, Counting
  <2>2. h \in Referrers(ptr[h])
    BY <1>1 DEF Referrers
  <2>3. Total(ptr[h]) \in Nat /\ Total(ptr[h]) # 0
    BY <2>1, <2>2, TotalType
  <2> QED BY <2>1, <2>3 DEF CountIsExact, Total
<1>2. ASSUME NEW h \in Handles, replace[h] # NULL PROVE references[replace[h]] > 0
  <2>1. replace[h] \in Buffers /\ heap[replace[h]] = "live" /\ lost[replace[h]] \in Nat
    BY <1>2 DEF Shape, Typed, Alive
  <2>2. h \in Incoming(replace[h])
    BY DEF Incoming
  <2>3. Total(replace[h]) \in Nat /\ Total(replace[h]) # 0
    BY <2>1, <2>2, TotalType
  <2> QED BY <2>1, <2>3 DEF CountIsExact, Total
<1> QED BY <1>1, <1>2

LEMMA ShapeNext == BufferInv /\ [Next]_vars => Shape'
<1> SUFFICES ASSUME BufferInv, [Next]_vars PROVE Shape'
  OBVIOUS
<1> USE NullAssumption DEF Shape, Typed, Control, Alive, Fresh, Counting, Idle
<1>1. ASSUME NEW h \in Handles, ReferenceDown(h) PROVE Shape'
  BY <1>1 DEF BufferInv, ReferenceDown, Finish
<1>2. ASSUME NEW h \in Handles, CallDeleter(h) PROVE Shape'
  BY <1>2 DEF BufferInv, CallDeleter
<1>3. ASSUME NEW h \in Handles, Free(h) PROVE Shape'
  <2>1. \A g \in Handles : /\ Counting(g) => ptr[g] # ptr[h]
                           /\ replace[g] # ptr[h]
    BY <1>3, PositiveCount DEF BufferInv, Free, OneEnds, Ending
  <2>2. references[ptr[h]] = 0
    BY <1>3 DEF BufferInv, Free, OneEnds, Ending
  <2> QED BY <1>3, <2>1, <2>2 DEF BufferInv, Free, Finish
<1>4. ASSUME NEW h \in Handles, Make(h) PROVE Shape'
  BY <1>4 DEF BufferInv, Make, Begin
<1>5. ASSUME NEW h \in Handles, NEW d \in Data, Map(h, d) PROVE Shape'
  BY <1>5 DEF BufferInv, Map, Begin
<1>6. ASSUME NEW h \in Handles, Reset(h) PROVE Shape'
  BY <1>6 DEF BufferInv, Reset, Begin
<1>7. ASSUME NEW h \in Handles, NEW s \in Handles, Copy(h, s) PROVE Shape'
  BY <1>7 DEF BufferInv, Copy, Begin
<1>8. ASSUME NEW h \in Handles, NEW s \in Handles, Move(h, s) PROVE Shape'
  BY <1>8 DEF BufferInv, Move
<1>9. ASSUME NEW h \in Handles, NEW s \in Handles, Swap(h, s) PROVE Shape'
  BY <1>9 DEF BufferInv, Swap
<1>10. CASE UNCHANGED vars
  BY <1>10 DEF BufferInv, vars
<1> QED BY <1>1, <1>2, <1>3, <1>4, <1>5, <1>6, <1>7, <1>8, <1>9, <1>10 DEF Next, Down

LEMMA CountNext == BufferInv /\ [Next]_vars => CountIsExact'
<1> SUFFICES ASSUME BufferInv, [Next]_vars, NEW b \in Buffers, heap'[b] = "live"
             PROVE  references'[b] = Total(b)' + lost'[b]
  BY DEF CountIsExact, Total
<1>1. /\ Typed /\ Control
      /\ heap[b] = "live" => references[b] = Total(b) + lost[b]
      /\ Total(b) \in Nat /\ lost[b] \in Nat /\ references[b] \in Int
  BY TotalType DEF BufferInv, Shape, CountIsExact, Total, Typed
<1>2. heap[b] # "live" => Total(b) = 0
  BY TotalType, NullAssumption DEF BufferInv, Shape, Alive, Referrers, Incoming
<1>3. ASSUME NEW h \in Handles, ReferenceDown(h) PROVE references'[b] = Total(b)' + lost'[b]
  <2>1. ptr[h] \in Buffers /\ pc[h] = "down" /\ ptr[h] # NULL
    BY <1>1, <1>3, NullAssumption DEF ReferenceDown, Control, Typed, Idle
  <2>2. Total(b)' = IF b = ptr[h] THEN Total(b) - 1 ELSE Total(b)
    BY <1>1, <1>3, <2>1, FinishTotal, LastTotal DEF ReferenceDown
  <2> QED BY <1>1, <1>3, <2>1, <2>2 DEF ReferenceDown, Typed
<1>4. ASSUME NEW h \in Handles, CallDeleter(h) PROVE references'[b] = Total(b)' + lost'[b]
  <2>1. Total(b)' = Total(b)
    BY <1>1, <1>4, SameTotal DEF CallDeleter, Typed
  <2> QED BY <1>1, <1>4, <2>1 DEF CallDeleter
<1>5. ASSUME NEW h \in Handles, Free(h) PROVE references'[b] = Total(b)' + lost'[b]
  <2>1. Total(b)' = Total(b)
    BY <1>1, <1>5, FinishTotal DEF Free
  <2> QED BY <1>1, <1>5, <2>1 DEF Free, Typed
<1>6. ASSUME NEW h \in Handles, Make(h) PROVE references'[b] = Total(b)' + lost'[b]
  <2>1. \A r \in Buffers \cup {NULL} :
           Begin(h, r) => Total(b)' = IF b = r THEN Total(b) + 1 ELSE Total(b)
    BY <1>1, <1>6, BeginTotal DEF Make
  <2> QED BY <1>1, <1>2, <1>6, <2>1, NullAssumption DEF Make, Typed, BufferInv, Shape, Fresh
<1>7. ASSUME NEW h \in Handles, NEW d \in Data, Map(h, d)
      PROVE  references'[b] = Total(b)' + lost'[b]
  <2>1. \A r \in Buffers \cup {NULL} :
           Begin(h, r) => Total(b)' = IF b = r THEN Total(b) + 1 ELSE Total(b)
    BY <1>1, <1>7, BeginTotal DEF Map
  <2> QED BY <1>1, <1>2, <1>7, <2>1, NullAssumption DEF Map, Typed, BufferInv, Shape, Fresh
<1>8. ASSUME NEW h \in Handles, Reset(h) PROVE references'[b] = Total(b)' + lost'[b]
  <2>1. Total(b)' = Total(b)
    BY <1>1, <1>8, BeginTotal, NullAssumption DEF Reset
  <2> QED BY <1>1, <1>8, <2>1 DEF Reset
<1>9. ASSUME NEW h \in Handles, NEW s \in Handles, Copy(h, s)
      PROVE  references'[b] = Total(b)' + lost'[b]
  <2>1. Total(b)' = IF b = ptr[s] THEN Total(b) + 1 ELSE Total(b)
    BY <1>1, <1>9, BeginTotal DEF Copy, Typed
  <2> QED BY <1>1, <1>9, <2>1, NullAssumption DEF Copy, Typed
<1>10. ASSUME NEW h \in Handles, NEW s \in Handles, Move(h, s)
      PROVE  references'[b] = Total(b)' + lost'[b]
  <2>1. Total(b)' = IF b = ptr[h] THEN Total(b) - 1 ELSE Total(b)
    BY <1>1, <1>10, MoveTotal
  <2> QED BY <1>1, <1>10, <2>1 DEF Move
<1>11. ASSUME NEW h \in Handles, NEW s \in Handles, Swap(h, s)
      PROVE  references'[b] = Total(b)' + lost'[b]
  <2>1. Total(b)' = Total(b)
    BY <1>1, <1>11, SwapTotal
  <2> QED BY <1>1, <1>11, <2>1 DEF Swap
<1>12. CASE UNCHANGED vars
  <2>1. Total(b)' = Total(b)
    BY <1>1, <1>12, SameTotal DEF vars
  <2> QED BY <1>1, <1>12, <2>1 DEF vars
<1> QED BY <1>3, <1>4, <1>5, <1>6, <1>7, <1>8, <1>9, <1>10, <1>11, <1>12 DEF Next, Down

LEMMA EndsNext == BufferInv /\ [Next]_vars => OneEnds'
<1> SUFFICES ASSUME BufferInv, [Next]_vars PROVE OneEnds'
  OBVIOUS
<1>1. /\ \A h \in Handles : Counting(h) => ptr[h] \in Buffers /\ references[ptr[h]] > 0
      /\ \A h \in Handles : Ending(h) => ptr[h] \in Buffers
  BY PositiveCount DEF BufferInv, Shape, Typed, Counting, Control, Ending, Idle
<1>2. Shape /\ OneEnds
  BY DEF BufferInv
<1> USE NullAssumption DEF OneEnds, Ending, Shape, Typed, Control, Fresh, Idle, Counting
<1>3. ASSUME NEW h \in Handles, ReferenceDown(h) PROVE OneEnds'
  BY <1>1, <1>2, <1>3 DEF ReferenceDown, Finish, Alive
<1>4. ASSUME NEW h \in Handles, CallDeleter(h) PROVE OneEnds'
  BY <1>2, <1>4 DEF CallDeleter
<1>5. ASSUME NEW h \in Handles, Free(h) PROVE OneEnds'
  BY <1>2, <1>5 DEF Free, Finish
<1>6. ASSUME NEW h \in Handles, Make(h) PROVE OneEnds'
  BY <1>2, <1>6 DEF Make, Begin
<1>7. ASSUME NEW h \in Handles, NEW d \in Data, Map(h, d) PROVE OneEnds'
  BY <1>2, <1>7 DEF Map, Begin
<1>8. ASSUME NEW h \in Handles, Reset(h) PROVE OneEnds'
  BY <1>2, <1>8 DEF Reset, Begin
<1>9. ASSUME NEW h \in Handles, NEW s \in Handles, Copy(h, s) PROVE OneEnds'
  BY <1>1, <1>2, <1>9 DEF Copy, Begin
<1>10. ASSUME NEW h \in Handles, NEW s \in Handles, Move(h, s) PROVE OneEnds'
  BY <1>2, <1>10 DEF Move
<1>11. ASSUME NEW h \in Handles, NEW s \in Handles, Swap(h, s) PROVE OneEnds'
  BY <1>2, <1>11 DEF Swap
<1>12. CASE UNCHANGED vars
  BY <1>2, <1>12 DEF vars
<1> QED BY <1>3, <1>4, <1>5, <1>6, <1>7, <1>8, <1>9, <1>10, <1>11, <1>12 DEF Next, Down

LEMMA MemoryNext == BufferInv /\ [Next]_vars => Memory'
<1> SUFFICES ASSUME BufferInv, [Next]_vars PROVE Memory'
  OBVIOUS
<1>1. Typed /\ Control /\ Fresh /\ OneEnds /\ Memory
  BY DEF BufferInv, Shape
<1> USE NullAssumption DEF Memory, DeletedOnce, Typed, Idle
<1>2. ASSUME NEW h \in Handles, ReferenceDown(h) PROVE Memory'
  BY <1>1, <1>2 DEF ReferenceDown, Finish, Control
<1>3. ASSUME NEW h \in Handles, CallDeleter(h) PROVE Memory'
  <2> DEFINE B == ptr[h]
  <2>1. /\ B \in Buffers /\ heap[B] = "live"
        /\ \A g \in Handles : pc[g] = "free" => ptr[g] # B
    BY <1>1, <1>3 DEF CallDeleter, Control, OneEnds, Ending
  <2>2. data[B] # NULL => fate[data[B]] = "given"
    BY <1>1, <2>1
  <2>3. ASSUME NEW b \in Buffers, heap[b] = "live", data[b] # NULL,
               \A g \in Handles : pc'[g] = "free" => ptr[g] # b
        PROVE  fate'[data[b]] = "given"
    <3>1. b # B /\ \A g \in Handles : pc[g] = "free" => ptr[g] # b
      BY <1>1, <1>3, <2>3 DEF CallDeleter
    <3>2. data[b] # data[B] /\ fate[data[b]] = "given" /\ data[b] \in Data
      BY <1>1, <2>1, <2>3, <3>1
    <3> QED BY <1>3, <3>2 DEF CallDeleter
  <2> QED BY <1>1, <1>3, <2>2, <2>3 DEF CallDeleter
<1>4. ASSUME NEW h \in Handles, Free(h) PROVE Memory'
  BY <1>1, <1>4 DEF Free, Finish, Control
<1>5. ASSUME NEW h \in Handles, Make(h) PROVE Memory'
  BY <1>1, <1>5 DEF Make, Begin, Fresh
<1>6. ASSUME NEW h \in Handles, NEW d \in Data, Map(h, d) PROVE Memory'
  BY <1>1, <1>6 DEF Map, Begin, Fresh
<1>7. ASSUME NEW h \in Handles, Reset(h) PROVE Memory'
  BY <1>1, <1>7 DEF Reset, Begin
<1>8. ASSUME NEW h \in Handles, NEW s \in Handles, Copy(h, s) PROVE Memory'
  BY <1>1, <1>8 DEF Copy, Begin
<1>9. ASSUME NEW h \in Handles, NEW s \in Handles, Move(h, s) PROVE Memory'
  BY <1>1, <1>9 DEF Move
<1>10. ASSUME NEW h \in Handles, NEW s \in Handles, Swap(h, s) PROVE Memory'
  BY <1>1, <1>10 DEF Swap
<1>11. CASE UNCHANGED vars
  BY <1>1, <1>11 DEF vars
<1> QED BY <1>2, <1>3, <1>4, <1>5, <1>6, <1>7, <1>8, <1>9, <1>10, <1>11 DEF Next, Down

-----------------------------------------------------------------------------
(* The results.                                                            *)

LEMMA InitBufferInv == Init => BufferInv
<1> SUFFICES ASSUME Init PROVE BufferInv
  OBVIOUS
<1>1. Shape /\ OneEnds /\ Memory
  BY NullAssumption DEF Init, Shape, Typed, Control, Alive, Fresh, OneEnds, Memory,
                        DeletedOnce, Counting, Idle, Ending
<1>2. CountIsExact
  BY DEF Init, CountIsExact
<1> QED BY <1>1, <1>2 DEF BufferInv

LEMMA BufferInvariant == Spec => []BufferInv
<1>1. BufferInv /\ [Next]_vars => BufferInv'
  BY ShapeNext, CountNext, EndsNext, MemoryNext DEF BufferInv
<1> QED BY <1>1, InitBufferInv, PTL DEF Spec

(* The variables keep their types; in particular no count ever passes below
   zero.                                                                   *)
THEOREM BufferTypeCorrect == Spec => []TypeOK
<1>1. BufferInv => TypeOK
  <2> SUFFICES ASSUME BufferInv PROVE TypeOK
    OBVIOUS
  <2>1. ASSUME NEW b \in Buffers PROVE references[b] \in Nat
    <3>1. CASE heap[b] = "live"
      BY <3>1, TotalType DEF BufferInv, Shape, Typed, CountIsExact, Total
    <3>2. CASE heap[b] # "live"
      BY <3>2 DEF BufferInv, Shape, Fresh
    <3> QED BY <3>1, <3>2
  <2> QED BY <2>1 DEF BufferInv, Shape, Typed, TypeOK
<1> QED BY <1>1, BufferInvariant, PTL

(* The count of a live buffer is the number of its handles, of the
   assignments on their way to it and of the references that moves have
   overwritten: reference_up() and reference_down() lose none of theirs.   *)
THEOREM CountAlwaysExact == Spec => []CountIsExact
<1>1. BufferInv => CountIsExact
  BY DEF BufferInv
<1> QED BY <1>1, BufferInvariant, PTL

(* No handle is left with a freed buffer, however the calls on the handles
   of one buffer interleave.                                               *)
THEOREM NeverDangling == Spec => []NoDangling
<1>1. BufferInv => NoDangling
  BY PositiveCount DEF BufferInv, Shape, Alive, NoDangling
<1> QED BY <1>1, BufferInvariant, PTL

(* The deleter gets mapped memory once.                                    *)
THEOREM DeletedAtMostOnce == Spec => []DeletedOnce
<1>1. BufferInv => DeletedOnce
  BY DEF BufferInv, Memory
<1> QED BY <1>1, BufferInvariant, PTL

(* Mapped memory is not deleted while a handle refers to it.               *)
THEOREM MappedStaysAlive == Spec => []MappedAlive
<1>1. BufferInv => MappedAlive
  <2> SUFFICES ASSUME BufferInv, NEW h \in Handles, Counting(h), data[ptr[h]] # NULL
               PROVE  fate[data[ptr[h]]] = "given"
    BY DEF MappedAlive
  <2>1. ptr[h] \in Buffers /\ heap[ptr[h]] = "live" /\ references[ptr[h]] > 0
    BY PositiveCount DEF BufferInv, Shape, Typed, Alive, Counting
  <2>2. \A g \in Handles : pc[g] = "free" => ptr[g] # ptr[h]
    BY <2>1 DEF BufferInv, OneEnds, Ending
  <2> QED BY <2>1, <2>2 DEF BufferInv, Memory
<1> QED BY <1>1, BufferInvariant, PTL

(* Without a move onto a handle in use, no buffer is left behind.          *)
THEOREM NothingLeft == Spec => []NothingForgotten
<1>1. BufferInv => NothingForgotten
  <2> SUFFICES ASSUME BufferInv, NEW b \in Buffers, heap[b] = "live", lost[b] = 0
               PROVE  \E h \in Handles : b \in {ptr[h], replace[h]}
    BY DEF BufferInv, Shape, Typed, NothingForgotten
  <2>1. references[b] = Total(b)
    BY TotalType DEF BufferInv, CountIsExact, Total
  <2>2. CASE references[b] = 0
    BY <2>2 DEF BufferInv, OneEnds
  <2>3. CASE references[b] # 0
    <3>1. Referrers(b) # {} \/ Incoming(b) # {}
      BY <2>1, <2>3, TotalType
    <3> QED BY <3>1 DEF Referrers, Incoming
  <2> QED BY <2>2, <2>3
<1> QED BY <1>1, BufferInvariant, PTL

-----------------------------------------------------------------------------
(* The refinement: a handle refers to what it has, or is about to have.    *)

LEMMA HeldIsLive ==
    ASSUME BufferInv, NEW b \in Buffers, heap[b] # "live" \/ references[b] = 0
    PROVE  b \notin Promise!Held
<1> SUFFICES ASSUME NEW h \in Handles, Refers[h] = b PROVE FALSE
  BY DEF Promise!Held
<1>1. b # NULL
  BY NullAssumption
<1>2. CASE Idle(h)
  <2>1. Counting(h) /\ ptr[h] = b
    BY <1>1, <1>2 DEF Refers, Counting, Idle
  <2> QED BY <2>1, PositiveCount DEF BufferInv, Shape, Typed, Alive
<1>3. CASE ~Idle(h)
  <2>1. replace[h] = b
    BY <1>3 DEF Refers
  <2> QED BY <1>1, <2>1, PositiveCount DEF BufferInv, Shape, Typed, Alive
<1> QED BY <1>2, <1>3

(* The start of reference_down(r) makes the handle refer to r.             *)
LEMMA BeginRefers ==
    ASSUME Typed, NEW h \in Handles, Idle(h), NEW r, Begin(h, r)
    PROVE  Refers' = [Refers EXCEPT ![h] = r]
  BY DEF Begin, Refers, Typed, Idle

LEMMA SharedStep == BufferInv /\ [Next]_vars => [Promise!Next]_(Promise!vars)
<1> SUFFICES ASSUME BufferInv, [Next]_vars PROVE [Promise!Next]_(Promise!vars)
  OBVIOUS
<1>1. Typed /\ Control
  BY DEF BufferInv, Shape
<1> DEFINE Released == {b \in Buffers : heap[b] = "freed"}
<1>2. ASSUME NEW h \in Handles, ReferenceDown(h) \/ CallDeleter(h)
      PROVE  UNCHANGED Promise!vars
  <2>1. Refers' = Refers
    BY <1>1, <1>2 DEF ReferenceDown, CallDeleter, Finish, Refers, Typed, Control, Idle
  <2>2. Released' = Released
    BY <1>2 DEF ReferenceDown, CallDeleter
  <2> QED BY <2>1, <2>2 DEF Promise!vars
<1>3. ASSUME NEW h \in Handles, NEW b \in Buffers, ptr[h] = b, Free(h)
      PROVE  Promise!Release(b)
  <2>1. heap[b] = "live" /\ references[b] = 0
    BY <1>3 DEF Free, BufferInv, OneEnds, Ending
  <2>2. b \notin Promise!Held
    BY <2>1, HeldIsLive
  <2>3. Refers' = Refers
    BY <1>1, <1>3 DEF Free, Finish, Refers, Typed, Idle
  <2>4. Released' = Released \cup {b} /\ b \notin Released
    BY <1>1, <1>3, <2>1 DEF Free, Typed
  <2> QED BY <2>2, <2>3, <2>4 DEF Promise!Release
<1>4. ASSUME NEW h \in Handles, Idle(h), NEW b \in Buffers, heap[b] = "unused",
             heap' = [heap EXCEPT ![b] = "live"], Begin(h, b)
      PROVE  Promise!Create(h, b)
  <2>1. b \notin Promise!Held
    BY <1>4, HeldIsLive
  <2>2. Refers' = [Refers EXCEPT ![h] = b]
    BY <1>1, <1>4, BeginRefers
  <2>3. Released' = Released /\ b \notin Released
    BY <1>1, <1>4 DEF Typed
  <2> QED BY <2>1, <2>2, <2>3 DEF Promise!Create
<1>5. ASSUME NEW h \in Handles, Idle(h), Begin(h, NULL), UNCHANGED heap
      PROVE  Promise!Drop(h)
  BY <1>1, <1>5, BeginRefers DEF Promise!Drop
<1>6. ASSUME NEW h \in Handles, Make(h) \/ Reset(h) \/ \E d \in Data : Map(h, d)
      PROVE  Promise!Next
  BY <1>4, <1>5, <1>6 DEF Make, Reset, Map, Promise!Next
<1>7. ASSUME NEW h \in Handles, NEW s \in Handles, Copy(h, s) PROVE Promise!Share(h, s)
  <2>1. Refers' = [Refers EXCEPT ![h] = Refers[s]]
    BY <1>1, <1>7, BeginRefers DEF Copy, Refers
  <2> QED BY <1>7, <2>1 DEF Copy, Promise!Share
<1>8. ASSUME NEW h \in Handles, NEW s \in Handles, Move(h, s) PROVE Promise!Move(h, s)
  <2>1. Refers' = [Refers EXCEPT ![h] = Refers[s], ![s] = NULL]
    BY <1>1, <1>8 DEF Move, Refers, Typed, Idle
  <2> QED BY <1>8, <2>1 DEF Move, Promise!Move
<1>9. ASSUME NEW h \in Handles, NEW s \in Handles, Swap(h, s) PROVE Promise!Exchange(h, s)
  <2>1. Refers' = [Refers EXCEPT ![h] = Refers[s], ![s] = Refers[h]]
    BY <1>1, <1>9 DEF Swap, Refers, Typed, Idle
  <2> QED BY <1>9, <2>1 DEF Swap, Promise!Exchange
<1>10. CASE UNCHANGED vars
  BY <1>10 DEF vars, Refers, Idle, Promise!vars
<1>11. ASSUME NEW h \in Handles, Free(h) PROVE Promise!Next
  <2>1. PICK b \in Buffers : ptr[h] = b
    BY <1>1, <1>11 DEF Free, Control, Typed, Idle
  <2> QED BY <1>3, <1>11, <2>1 DEF Promise!Next
<1>12. ASSUME NEW h \in Handles, NEW s \in Handles, Copy(h, s) \/ Move(h, s) \/ Swap(h, s)
       PROVE  Promise!Next
  BY <1>7, <1>8, <1>9, <1>12 DEF Promise!Next
<1>13. CASE Next
  <2>1. \/ \E h \in Handles : ReferenceDown(h) \/ CallDeleter(h)
        \/ \E h \in Handles : Free(h)
        \/ \E h \in Handles : Make(h) \/ Reset(h) \/ \E d \in Data : Map(h, d)
        \/ \E h, s \in Handles : Copy(h, s) \/ Move(h, s) \/ Swap(h, s)
    BY <1>13 DEF Next, Down
  <2> QED BY <1>2, <1>6, <1>11, <1>12, <2>1
<1> QED BY <1>10, <1>13

(* However the calls on the handles interleave, they look like a world in
   which handles just share buffers, and a buffer is released once, when
   nobody refers to it, and never comes back.                              *)
THEOREM BuffersKeepPromise == Spec => KeepsPromise
<1>1. Init => Promise!Init
  BY DEF Init, Promise!Init, Refers, Idle
<1> QED BY <1>1, SharedStep, BufferInvariant, PTL DEF Spec, KeepsPromise, Promise!Spec
=============================================================================
