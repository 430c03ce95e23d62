------------------------------- MODULE DDeque -------------------------------
(***************************************************************************)
(* lltl::raw_ddeque, src/main/ddeque.cpp: a deque kept in chunks of        *)
(* nChunkSize elements, with the chunks it does not need set aside for     *)
(* later.  Every action is one whole method, with the outcomes that        *)
(* malloc() allows; the methods are sequential.                            *)
(*                                                                         *)
(* A list of chunks linked by pPrev and pNext is a sequence of chunks.     *)
(* Where the code follows a null pointer or writes outside of a chunk,     *)
(* "fault" is set and nothing is said of the deque any more.               *)
(***************************************************************************)
EXTENDS Integers, FiniteSets, SequencesExt

CONSTANTS
    Values,         \* elements
    Junk,           \* content of memory that holds no element (any more)
    nChunkSize,     \* elements in a chunk
    MaxChunks,      \* bound: malloc() fails when this many chunks are allocated
    MaxBulk,        \* bound: longest array passed to a bulk method
    MaxReserve,     \* bound: largest capacity passed to reserve()
    ExactFit,       \* whether clients push to the back an array that fills the
                    \* tail exactly
    ReuseCleared,   \* whether clients push to the back of a deque that keeps
                    \* chunks of a clear()
    LongFront       \* whether clients push more than a chunk to the front of an
                    \* empty deque at once

ASSUME SizeAssumption == nChunkSize \in Nat \ {0} /\ {MaxChunks, MaxBulk, MaxReserve} \subseteq Nat
ASSUME JunkAssumption == Junk \notin Values
ASSUME ClientAssumption == {ExactFit, ReuseCleared, LongFront} \subseteq BOOLEAN

VARIABLES
    dq,             \* the fields of the structure
    fault,          \* history: the code has stepped on undefined behaviour
    call,           \* history: the last call, its array and number arguments
    ok,             \* history: its answer
    got             \* history: what it stored into the caller's array

vars == <<dq, fault, call, ok, got>>

Slots == 0..(nChunkSize - 1)

Chunk == [nHead : 0..nChunkSize, nTail : 0..nChunkSize, vData : [Slots -> Values \cup {Junk}]]

TypeOK ==
    /\ dq \in [used    : Seq(Chunk),    \* pHead ... pTail
               unused  : Seq(Chunk),    \* pUnused ...
               nItems  : Int,
               nChunks : Int,
               nUnused : Int]
    /\ fault \in BOOLEAN
    /\ ok \in BOOLEAN
    /\ got \in Seq(Values \cup {Junk})

Empty == [used |-> << >>, unused |-> << >>, nItems |-> 0, nChunks |-> 0, nUnused |-> 0]

Called(op, s, n) == [op |-> op, s |-> s, n |-> n]

Init ==
    /\ dq = Empty
    /\ fault = FALSE
    /\ call = Called("init", << >>, 0) /\ ok = TRUE /\ got = << >>

-----------------------------------------------------------------------------
(* Chunks.                                                                 *)

(* alloc_chunk()                                                           *)
NewChunk == [nHead |-> 0, nTail |-> 0, vData |-> [i \in Slots |-> Junk]]

(* The elements of a chunk and of a list of chunks.                        *)
Elements(c) == [i \in 1..(c.nTail - c.nHead) |-> c.vData[c.nHead + i - 1]]

Contents(chunks) ==
    LET upto[i \in 0..Len(chunks)] == IF i = 0 THEN << >> ELSE upto[i - 1] \o Elements(chunks[i])
    IN  upto[Len(chunks)]

CeilDiv(a, b) == (a + b - 1) \div b

(* Mutant of chunks_count: rounds down.                                    *)
RoundsDown(count) == count \div nChunkSize

chunks_count(count) == CeilDiv(count, nChunkSize)

(* What a method can do: the answer, the structure it leaves behind and the
   list of chunks it has acquired; the answer "fault" stands for undefined
   behaviour.                                                              *)
Acquired(d, list) == {[ans |-> "true", d |-> d, list |-> list]}
Done(d)   == Acquired(d, << >>)
Failed(d) == {[ans |-> "false", d |-> d, list |-> << >>]}
Broken(d) == {[ans |-> "fault", d |-> d, list |-> << >>]}

(* alloc_chunk() and alloc_chunk_list(), which frees what it has got if it
   cannot have all: n new chunks or none.                                  *)
Allocate(d, n) ==
    Failed(d) \cup
    (IF d.nChunks + n <= MaxChunks
     THEN Acquired([d EXCEPT !.nChunks = @ + n], [i \in 1..n |-> NewChunk])
     ELSE {})

(* The chunks in use and the count of their elements; the chunks set aside
   and their count.                                                        *)
Hold(d, chunks, n) == [d EXCEPT !.used = chunks, !.nItems = n]

SetAside(d, chunks, n) == [d EXCEPT !.unused = chunks, !.nUnused = n]

(* Mutant of acquire_chunk: does not count the chunk as used.              *)
AcquireUncounted(d) ==
    IF d.unused = << >> THEN Allocate(d, 1)
    ELSE Acquired([d EXCEPT !.unused = Tail(@)], <<Head(d.unused)>>)

(* acquire_chunk(): the first unused chunk as it is, or a new one.         *)
acquire_chunk(d) ==
    IF d.unused = << >> THEN Allocate(d, 1)
    ELSE Acquired(SetAside(d, Tail(d.unused), d.nUnused - 1), <<Head(d.unused)>>)

(* acquire_unused_chunk_list(count): the loop takes one chunk at least.    *)
acquire_unused_chunk_list(d, count) ==
    LET n == IF count = 0 THEN 1 ELSE count IN
    IF n > Len(d.unused) THEN Broken(d)
    ELSE Acquired(SetAside(d, SubSeq(d.unused, n + 1, Len(d.unused)), d.nUnused - count),
                  SubSeq(d.unused, 1, n))

(* acquire_chunk_list(count): all the unused chunks and as many new ones as
   are missing.                                                            *)
acquire_chunk_list(d, count) ==
    IF count <= d.nUnused THEN acquire_unused_chunk_list(d, count)
    ELSE UNION {IF o.ans = "false" \/ d.nUnused <= 0 THEN {o}
                ELSE Acquired(SetAside(o.d, << >>, 0), d.unused \o o.list) :
                o \in Allocate(d, count - d.nUnused)}

(* release_chunk()                                                         *)
release_chunk(d, c) ==
    SetAside(d, <<[nHead |-> 0, nTail |-> 0, vData |-> c.vData]>> \o d.unused, d.nUnused + 1)

(* The chunk with its elements narrowed down to the slots h..t-1.          *)
Narrow(c, h, t) ==
    [nHead |-> h, nTail |-> t,
     vData |-> [i \in Slots |-> IF h <= i /\ i < t THEN c.vData[i] ELSE Junk]]

AtHead(c) == [nHead |-> nChunkSize, nTail |-> nChunkSize, vData |-> c.vData]

-----------------------------------------------------------------------------
(* push_back(item) and push_front(item), and the forms without argument,
   whose caller fills the slot.                                            *)

(* The acquired chunks are linked after the tail, or before the head.      *)
LinkBack(outcomes) ==
    {[ans |-> o.ans, d |-> [o.d EXCEPT !.used = @ \o o.list], list |-> << >>] : o \in outcomes}

LinkFront(outcomes) ==
    {[ans |-> o.ans, d |-> [o.d EXCEPT !.used = o.list \o @], list |-> << >>] : o \in outcomes}

(* The head is filled downwards from its end.                              *)
Marked(o) ==
    IF o.ans = "true"
    THEN [o EXCEPT !.d = Hold(o.d, [o.d.used EXCEPT ![1] = AtHead(o.d.used[1])], o.d.nItems)]
    ELSE o

MarkHead(outcomes) == {Marked(o) : o \in outcomes}

StoreBack(d, x) ==
    LET k == Len(d.used)
        c == d.used[k]
        stored == [nHead |-> c.nHead, nTail |-> c.nTail + 1, vData |-> [c.vData EXCEPT ![c.nTail] = x]]
    IN  IF c.nTail >= nChunkSize THEN Broken(d)
        ELSE Done(Hold(d, [d.used EXCEPT ![k] = stored], d.nItems + 1))

push_back(d, x) ==
    LET tail == IF d.used = << >> THEN LinkBack(acquire_chunk(d)) ELSE Done(d)
        room == UNION {IF o.ans = "true" /\ Last(o.d.used).nTail >= nChunkSize
                       THEN LinkBack(acquire_chunk(o.d)) ELSE {o} : o \in tail}
    IN  UNION {IF o.ans = "true" THEN StoreBack(o.d, x) ELSE {o} : o \in room}

StoreFront(d, x) ==
    LET c == d.used[1]
        stored == [nHead |-> c.nHead - 1, nTail |-> c.nTail, vData |-> [c.vData EXCEPT ![c.nHead - 1] = x]]
    IN  Done(Hold(d, [d.used EXCEPT ![1] = stored], d.nItems + 1))

(* Mutant of push_front: takes a new chunk one element too late.           *)
PushFrontLate(d, x) ==
    LET head == IF d.used = << >> THEN MarkHead(LinkFront(acquire_chunk(d))) ELSE Done(d)
        room == UNION {IF o.ans = "true" /\ o.d.used[1].nHead < 0
                       THEN MarkHead(LinkFront(acquire_chunk(o.d))) ELSE {o} : o \in head}
    IN  UNION {IF o.ans = "true" THEN StoreFront(o.d, x) ELSE {o} : o \in room}

push_front(d, x) ==
    LET head == IF d.used = << >> THEN MarkHead(LinkFront(acquire_chunk(d))) ELSE Done(d)
        room == UNION {IF o.ans = "true" /\ o.d.used[1].nHead <= 0
                       THEN MarkHead(LinkFront(acquire_chunk(o.d))) ELSE {o} : o \in head}
    IN  UNION {IF o.ans = "true" THEN StoreFront(o.d, x) ELSE {o} : o \in room}

-----------------------------------------------------------------------------
(* Bulk push.  preallocate_back() and preallocate_front() link enough chunks
   and say in which one the copy starts.                                   *)

MinOf(a, b) == IF a < b THEN a ELSE b

(* The memory of a chunk with an array copied to slot "at" and those behind. *)
Copied(c, at, part) ==
    [i \in Slots |-> IF i \in at..(at + Len(part) - 1) THEN part[i - at + 1] ELSE c.vData[i]]

(* How many chunks preallocate_back() asks for, when it does not return the
   tail at once.                                                           *)
BackChunks(d, n) ==
    IF d.used = << >> THEN chunks_count(n)
    ELSE chunks_count(n + Last(d.used).nTail - nChunkSize)

FitsBack(d, n) == d.used # << >> /\ Last(d.used).nTail + n < nChunkSize

preallocate_back(d, n) ==
    IF FitsBack(d, n) THEN Done(d)
    ELSE LinkBack(acquire_chunk_list(d, BackChunks(d, n)))

(* The copy into chunk k and those after it.  The loop stops when all is
   copied; needing a chunk beyond the tail means following a null pointer. *)
FillBack(d, k, s) ==
    LET first == MinOf(Len(s), nChunkSize - d.used[k].nTail)
        Offset(j) == first + (j - k - 1) * nChunkSize
        Write(c, at, part) ==
            [nHead |-> c.nHead, nTail |-> at + Len(part), vData |-> Copied(c, at, part)]
        Filled(j) ==
            IF j < k \/ (j > k /\ Offset(j) >= Len(s)) THEN d.used[j]
            ELSE IF j = k THEN Write(d.used[k], d.used[k].nTail, SubSeq(s, 1, first))
            ELSE Write(d.used[j], 0,
                       SubSeq(s, Offset(j) + 1, MinOf(Offset(j) + nChunkSize, Len(s))))
    IN  IF Offset(Len(d.used) + 1) < Len(s) THEN Broken(d)
        ELSE Done(Hold(d, [j \in 1..Len(d.used) |-> Filled(j)], d.nItems + Len(s)))

push_back_bulk(d, s) ==
    LET start == IF d.used = << >> THEN 1 ELSE Len(d.used) IN
    UNION {IF o.ans = "true" THEN FillBack(o.d, start, s) ELSE {o} :
           o \in preallocate_back(d, Len(s))}

FrontChunks(d, n) ==
    chunks_count(IF d.used = << >> THEN n ELSE n - d.used[1].nHead)

(* On an empty deque the list of chunks becomes the deque and its head is
   marked as full; otherwise the list is linked before the head.           *)
preallocate_front(d, n) ==
    IF d.used = << >> THEN MarkHead(LinkFront(acquire_chunk_list(d, FrontChunks(d, n))))
    ELSE IF d.used[1].nHead >= n THEN Done(d)
    ELSE LinkFront(acquire_chunk_list(d, FrontChunks(d, n)))

(* The copy into chunk k and those before it, of elements that are to come
   out of the front in the order s.                                        *)
FillFront(d, k, s) ==
    LET n == Len(s)
        first == MinOf(n, d.used[k].nHead)
        Left(j) == n - first - (k - j - 1) * nChunkSize    \* not copied before chunk j
        Write(c, top, bottom, part) ==
            [nHead |-> bottom, nTail |-> top, vData |-> Copied(c, bottom, part)]
        Filled(j) ==
            LET c == d.used[j]
                m == MinOf(Left(j), nChunkSize)
            IN  IF j > k \/ (j < k /\ Left(j) <= 0) THEN c
                ELSE IF j = k THEN Write(c, c.nTail, c.nHead - first, SubSeq(s, n - first + 1, n))
                ELSE Write(c, nChunkSize, nChunkSize - m, SubSeq(s, Left(j) - m + 1, Left(j)))
    IN  IF Left(0) > 0 THEN Broken(d)
        ELSE Done(Hold(d, [j \in 1..Len(d.used) |-> Filled(j)], d.nItems + n))

(* Where the code starts: in the old head, behind the new chunks.          *)
FillFromHead(d, e, s) ==
    FillFront(e, IF d.used = << >> THEN 1 ELSE 1 + Len(e.used) - Len(d.used), s)

prepend(d, s) ==
    UNION {IF o.ans = "true" THEN FillFromHead(d, o.d, s) ELSE {o} :
           o \in preallocate_front(d, Len(s))}

(* Mutant of push_front_bulk: copies forward.                              *)
PushFrontForward(d, s) == prepend(d, s)

push_front_bulk(d, s) == prepend(d, Reverse(s))

-----------------------------------------------------------------------------
(* Extraction.  A result is the structure and what was read.               *)

(* Mutant of NewHead: keeps a chunk that has become empty.                 *)
KeepsEmptyHead(d, c) ==
    IF c.nHead <= c.nTail THEN Hold(d, [d.used EXCEPT ![1] = c], d.nItems)
    ELSE release_chunk(Hold(d, Tail(d.used), d.nItems), c)

(* The head, or the tail, has become c: an empty chunk is released.        *)
NewHead(d, c) ==
    IF c.nHead < c.nTail THEN Hold(d, [d.used EXCEPT ![1] = c], d.nItems)
    ELSE release_chunk(Hold(d, Tail(d.used), d.nItems), c)

NewTail(d, c) ==
    IF c.nTail > c.nHead THEN Hold(d, [d.used EXCEPT ![Len(d.used)] = c], d.nItems)
    ELSE release_chunk(Hold(d, Front(d.used), d.nItems), c)

Read(r, s) == [d |-> r, read |-> s]

pop_front(d) ==
    LET c == d.used[1] IN
    Read(NewHead([d EXCEPT !.nItems = @ - 1], Narrow(c, c.nHead + 1, c.nTail)),
         <<c.vData[c.nHead]>>)

pop_back(d) ==
    LET c == Last(d.used) IN
    Read(NewTail([d EXCEPT !.nItems = @ - 1], Narrow(c, c.nHead, c.nTail - 1)),
         <<c.vData[c.nTail - 1]>>)

(* One round of the loop of the bulk methods: min(left, size of the chunk)
   elements of the head or of the tail, forward.                           *)
TakeHead(r, left) ==
    LET c == r.d.used[1]
        m == MinOf(left, c.nTail - c.nHead)
    IN  IF left = 0 THEN r
        ELSE Read(NewHead(r.d, Narrow(c, c.nHead + m, c.nTail)),
                  r.read \o SubSeq(Elements(c), 1, m))

TakeTail(r, left) ==
    LET c == Last(r.d.used)
        m == MinOf(left, c.nTail - c.nHead)
        e == Elements(c)
    IN  IF left = 0 THEN r
        ELSE Read(NewTail(r.d, Narrow(c, c.nHead, c.nTail - m)),
                  SubSeq(e, Len(e) - m + 1, Len(e)) \o r.read)

(* A round empties its chunk or ends the loop: no more rounds than chunks. *)
pop_front_bulk(d, n) ==
    LET count == MinOf(n, d.nItems)
        round[k \in 0..Len(d.used)] ==
            IF k = 0 THEN Read(d, << >>)
            ELSE TakeHead(round[k - 1], count - Len(round[k - 1].read))
        r == round[Len(d.used)]
    IN  Read([r.d EXCEPT !.nItems = @ - count], r.read)

take_back(d, n) ==
    LET count == MinOf(n, d.nItems)
        round[k \in 0..Len(d.used)] ==
            IF k = 0 THEN Read(d, << >>)
            ELSE TakeTail(round[k - 1], count - Len(round[k - 1].read))
        r == round[Len(d.used)]
    IN  Read([r.d EXCEPT !.nItems = @ - count], r.read)

pop_back_bulk(d, n) ==
    LET r == take_back(d, n) IN Read(r.d, Reverse(r.read))

-----------------------------------------------------------------------------
(* clear(): the chunks in use are put before the unused ones, with their
   offsets.                                                                *)
clear(d) ==
    SetAside(Hold(d, << >>, 0),
             [i \in DOMAIN d.used |-> [d.used[i] EXCEPT !.vData = NewChunk.vData]] \o d.unused,
             IF d.used = << >> THEN d.nUnused ELSE d.nChunks)

truncate(d) ==
    SetAside([d EXCEPT !.nChunks = @ - d.nUnused], << >>, 0)

reserve(d, capacity) ==
    LET n == chunks_count(capacity - d.nChunks * nChunkSize) IN
    IF d.nChunks * nChunkSize >= capacity THEN Done(d)
    ELSE UNION {IF o.ans = "false" THEN {o}
                ELSE Done(SetAside(o.d, o.list \o o.d.unused, o.d.nUnused + Len(o.list))) :
                o \in Allocate(d, n)}

-----------------------------------------------------------------------------
(* The methods as actions.                                                 *)

Call(op, s, outcomes) ==
    \E o \in outcomes :
        /\ dq' = o.d
        /\ fault' = (o.ans = "fault")
        /\ call' = Called(op, s, 0) /\ ok' = (o.ans = "true") /\ got' = << >>

Extract(op, n, r) ==
    /\ dq' = r.d
    /\ fault' = FALSE
    /\ call' = Called(op, << >>, n) /\ ok' = (r.read # << >>) /\ got' = r.read

(* Taking an element from a chunk that has none at that end.               *)
Overrun(op) == Call(op, << >>, Broken(dq))

Bulk == UNION {[1..n -> Values] : n \in 0..MaxBulk}

(* What a careful client avoids, see the constants; nor does any client here
   push an empty array when that asks for zero chunks.                     *)
CleanBack == ReuseCleared \/ \A i \in DOMAIN dq.unused : dq.unused[i].nTail = 0

CarefulBack(s) ==
    \/ FitsBack(dq, Len(s)) \/ BackChunks(dq, Len(s)) # 0
    \/ ExactFit /\ s # << >>

CarefulFront(s) ==
    dq.used = << >> => s # << >> /\ (LongFront \/ Len(s) <= nChunkSize)

PushBack ==
    CleanBack /\ \E x \in Values : Call("push_back", <<x>>, push_back(dq, x))

PushFront == \E x \in Values : Call("push_front", <<x>>, push_front(dq, x))

PushBackBulk ==
    /\ CleanBack
    /\ \E s \in Bulk : CarefulBack(s) /\ Call("push_back", s, push_back_bulk(dq, s))

PushFrontBulk ==
    \E s \in Bulk : CarefulFront(s) /\ Call("push_front", s, push_front_bulk(dq, s))

Prepend == \E s \in Bulk : CarefulFront(s) /\ Call("prepend", s, prepend(dq, s))

PopNothing ==
    /\ dq.nItems <= 0
    /\ \E op \in {"pop_front", "pop_back"} : Extract(op, 1, Read(dq, << >>))

PopFront ==
    /\ dq.nItems > 0
    /\ IF dq.used[1].nHead >= nChunkSize THEN Overrun("pop_front")
       ELSE Extract("pop_front", 1, pop_front(dq))

PopBack ==
    /\ dq.nItems > 0
    /\ IF Last(dq.used).nTail <= 0 THEN Overrun("pop_back")
       ELSE Extract("pop_back", 1, pop_back(dq))

PopFrontBulk == \E n \in 0..MaxBulk : Extract("pop_front", n, pop_front_bulk(dq, n))

PopBackBulk == \E n \in 0..MaxBulk : Extract("pop_back", n, pop_back_bulk(dq, n))

TakeBack == \E n \in 0..MaxBulk : Extract("take_back", n, take_back(dq, n))

Clear == Call("clear", << >>, Done(clear(dq)))

Truncate == Call("truncate", << >>, Done(truncate(dq)))

Flush == Call("flush", << >>, Done(Empty))

Reserve == \E n \in 0..MaxReserve : Call("reserve", << >>, reserve(dq, n))

Next ==
    /\ ~fault
    /\ \/ PushBack \/ PushFront \/ PushBackBulk \/ PushFrontBulk \/ Prepend
       \/ PopNothing \/ PopFront \/ PopBack \/ PopFrontBulk \/ PopBackBulk \/ TakeBack
       \/ Clear \/ Truncate \/ Flush \/ Reserve

Spec == Init /\ [][Next]_vars

-----------------------------------------------------------------------------
(* Properties.                                                             *)

(* The counters that capacity(), used_chunks() and the next reserve() or
   bulk push rely on agree with the lists: nothing allocated is forgotten,
   nothing is counted twice.                                               *)
CountersAgree ==
    ~fault =>
        /\ dq.nChunks = Len(dq.used) + Len(dq.unused)
        /\ dq.nUnused = Len(dq.unused)
        /\ dq.nItems = Len(Contents(dq.used))

(* What get(), first(), last() and the iterators rely on when they step from
   chunk to chunk: no chunk in use is empty, and the elements leave no gap
   between the first chunk and the last.                                   *)
NoGaps ==
    ~fault =>
        \A i \in DOMAIN dq.used :
            /\ dq.used[i].nHead < dq.used[i].nTail
            /\ i > 1 => dq.used[i].nHead = 0
            /\ i < Len(dq.used) => dq.used[i].nTail = nChunkSize

(* No method follows a null pointer or writes outside of a chunk.          *)
NoFault == ~fault

(* The methods are those of a deque: what goes in at either end comes out
   in the right order, and a push that fails leaves the elements alone.    *)
Queue == INSTANCE Deque WITH items <- Contents(dq.used)

Implements == Queue!Spec
=============================================================================
