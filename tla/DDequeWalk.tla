----------------------------- MODULE DDequeWalk -----------------------------
(***************************************************************************)
(* The methods of raw_ddeque that look and do not touch: access by index,  *)
(* the inverse, and the iterators.  An address is a chunk (its position in *)
(* the list) and a slot of it.                                             *)
(***************************************************************************)
EXTENDS DDeque

NULL == << >>

Used(c) == c.nTail - c.nHead

Elem(p) == dq.used[p[1]].vData[p[2]]

(* One round of the search of get(), until there are no more chunks or the
   one has been found that the index does not pass.                        *)
Skip(p, chunks) ==
    LET used == Used(chunks[p.passed + 1]) IN
    IF p.passed = Len(chunks) \/ p.left < used THEN p
    ELSE [passed |-> p.passed + 1, left |-> p.left - used]

Search(chunks, index) ==
    LET round[r \in 0..Len(chunks)] ==
            IF r = 0 THEN [passed |-> 0, left |-> index] ELSE Skip(round[r - 1], chunks)
    IN  round[Len(chunks)]

FromHead(index) ==
    LET p == Search(dq.used, index)
        k == p.passed + 1
    IN  IF k > Len(dq.used) THEN NULL ELSE <<k, dq.used[k].nHead + p.left>>

FromTail(index) ==
    LET p == Search(Reverse(dq.used), index)
        k == Len(dq.used) - p.passed
    IN  IF k < 1 THEN NULL ELSE <<k, dq.used[k].nTail - p.left - 1>>

(* Mutant of get: counts from the tail one too many.                       *)
GetSkipsOne(index) ==
    IF index < dq.nItems \div 2 THEN FromHead(index)
    ELSE IF index < dq.nItems THEN FromTail(dq.nItems - index) ELSE NULL

(* get(): from the nearer end.                                             *)
get(index) ==
    IF index < dq.nItems \div 2 THEN FromHead(index)
    ELSE IF index < dq.nItems THEN FromTail(dq.nItems - index - 1)
    ELSE NULL

first == IF dq.nItems <= 0 THEN NULL ELSE <<1, dq.used[1].nHead>>

last == IF dq.nItems <= 0 THEN NULL ELSE <<Len(dq.used), Last(dq.used).nTail - 1>>

(* index_of() of an address inside chunk k, negative when no element of the
   deque is there: -1 for a chunk not in use.                              *)
Ahead(k) ==
    LET upto[j \in 0..Len(dq.used)] == IF j = 0 THEN 0 ELSE upto[j - 1] + Used(dq.used[j])
    IN  upto[k - 1]

index_of(k, slot) ==
    IF k \notin DOMAIN dq.used THEN -1
    ELSE IF slot < dq.used[k].nHead THEN -2
    ELSE IF slot >= dq.used[k].nTail THEN -3
    ELSE Ahead(k) + slot - dq.used[k].nHead

-----------------------------------------------------------------------------
(* Iterators.                                                              *)

To(item, offset, index) == [item |-> item, offset |-> offset, index |-> index]

INVALID == To(0, 0, 0)

iter ==
    IF dq.nItems <= 0 THEN INVALID
    ELSE To(1, dq.used[1].nHead, 0)

riter ==
    IF dq.nItems <= 0 THEN INVALID
    ELSE To(Len(dq.used), Last(dq.used).nTail - 1, dq.nItems - 1)

iter_get(i) == <<i.item, i.offset>>

(* One round of iter_move(): the iterator and how far it has to go still.
   Forward, on the end of a chunk, to the start of the next one.           *)
Round(i, left) == [at |-> i, left |-> left]

ForwardRound(p) ==
    LET i  == p.at
        c  == dq.used[i.item]
        do == MinOf(c.nTail - i.offset, p.left)
    IN  Round(IF i.offset + do < c.nTail THEN To(i.item, i.offset + do, i.index + do)
              ELSE IF i.item = Len(dq.used) THEN INVALID
              ELSE To(i.item + 1, dq.used[i.item + 1].nHead, i.index + do),
              p.left - do)

(* Mutant of BackwardRound: goes to the last element of the previous chunk
   without counting this step.                                             *)
BackUncounted(p) ==
    LET i     == p.at
        chunk == IF i.offset <= dq.used[i.item].nHead THEN i.item - 1 ELSE i.item
        from  == IF chunk = i.item THEN i.offset ELSE dq.used[chunk].nTail - 1
        do    == MinOf(from - dq.used[chunk].nHead, p.left)
    IN  IF chunk = 0 THEN Round(INVALID, p.left)
        ELSE Round(To(chunk, from - do, i.index - do), p.left - do)

(* Backward, on the start of a chunk, first to the end of the previous one. *)
BackwardRound(p) ==
    LET i     == p.at
        chunk == IF i.offset <= dq.used[i.item].nHead THEN i.item - 1 ELSE i.item
        from  == IF chunk = i.item THEN i.offset ELSE dq.used[chunk].nTail
        do    == MinOf(from - dq.used[chunk].nHead, p.left)
    IN  IF chunk = 0 THEN Round(INVALID, p.left)
        ELSE Round(To(chunk, from - do, i.index - do), p.left - do)

(* Until there is nothing left or there are no more chunks.                *)
Over(p) == p.left = 0 \/ p.at.item = 0

Move(p, n) == IF Over(p) THEN p ELSE IF n >= 0 THEN ForwardRound(p) ELSE BackwardRound(p)

(* A round leaves its chunk or is the last one.                            *)
iter_move(i, n) ==
    LET round[r \in 0..(Len(dq.used) + 1)] ==
            IF r = 0 THEN Round(i, IF n >= 0 THEN n ELSE -n) ELSE Move(round[r - 1], n)
    IN  round[Len(dq.used) + 1].at

(* raw_iterator::advance() of an iterator that came from iter() or riter(). *)
advance(i, n, reversive) ==
    IF i = INVALID THEN INVALID ELSE iter_move(i, IF reversive THEN -n ELSE n)

-----------------------------------------------------------------------------
(* Properties.                                                             *)

(* get(i), from whichever end it searches, finds the i-th element; first()
   and last() are its ends; index_of() gives i back for that address, and
   nothing for any other slot of a chunk in use.                           *)
IndexingAgrees ==
    LET s == Contents(dq.used) IN
    /\ \A i \in 0..(dq.nItems - 1) :
          /\ get(i) # NULL /\ Elem(get(i)) = s[i + 1]
          /\ index_of(get(i)[1], get(i)[2]) = i
    /\ get(dq.nItems) = NULL
    /\ first = get(0)
    /\ last = IF dq.nItems = 0 THEN NULL ELSE get(dq.nItems - 1)
    /\ \A k \in DOMAIN dq.used, slot \in Slots :
          index_of(k, slot) >= 0 => get(index_of(k, slot)) = <<k, slot>>

(* An iterator advanced from the start by i and then by n in either direction
   stands on the element i + n and knows its index; a step over either end
   makes it invalid.                                                       *)
IteratorsAgree ==
    \A reversive \in BOOLEAN :
        LET s  == Contents(dq.used)
            At(i) == IF reversive THEN Len(s) - 1 - i ELSE i
            Start == IF reversive THEN riter ELSE iter
        IN  \A i \in 0..(Len(s) - 1) : \A n \in (-i - 1)..(Len(s) - i) :
                LET p == advance(advance(Start, i, reversive), n, reversive) IN
                IF i + n \in 0..(Len(s) - 1)
                THEN p.index = At(i + n) /\ iter_get(p) = get(At(i + n))
                ELSE p = INVALID
=============================================================================
