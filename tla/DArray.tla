------------------------------- MODULE DArray -------------------------------
(***************************************************************************)
(* lltl::raw_darray and raw_parray, src/main/darray.cpp and parray.cpp:    *)
(* growing arrays of objects and of pointers.  They differ in how premove()*)
(* and qpremove() find an element, by its address or by its value, and in  *)
(* what qremove() and qpremove() return.  The memory of                    *)
(* an array is a sequence of nCapacity cells, of which the first nItems    *)
(* are elements; places count from 0 as in the code.  Every action is one  *)
(* whole method, with the outcomes that realloc() allows.                  *)
(***************************************************************************)
EXTENDS Integers, SequencesExt

CONSTANTS
    Names,          \* the arrays
    Values,         \* elements, in the order of the comparison: numbers
    Junk,           \* what fresh memory holds
    Sources,        \* sequences that clients copy from
    MinRoom,        \* least capacity that is allocated, 32 in the code
    MaxItems, MaxCap,   \* bounds: elements and cells of each array
    SizeMod,        \* number of values of a size_t
    PastEnd,        \* clients remove by address what is not all in the array
    ReadSlot,       \* clients read what qremove() of a darray returns the address of
    ShrinkReserve   \* clients reserve less than there are elements

ASSUME ArrayAssumption ==
    /\ Values \subseteq Nat /\ Junk \notin Values /\ Sources \subseteq Seq(Values)
    /\ MinRoom \in Nat \ {0} /\ SizeMod \in Nat \ {0}
    /\ MaxItems \in [Names -> 0..(SizeMod - 1)] /\ MaxCap \in [Names -> Nat]
    /\ {PastEnd, ReadSlot, ShrinkReserve} \subseteq BOOLEAN

VARIABLES
    arr,            \* nItems and the cells of each array
    call, ok, got   \* history: the last call, its answer, the elements it hands out

vars == <<arr, call, ok, got>>

Called(op, a, at, n, src, b) == [op |-> op, on |-> a, at |-> at, n |-> n, src |-> src, to |-> b]

nCapacity(d) == Len(d.vItems)

(* n cells from a place on; behind the block there may be anything.        *)
Part(d, idx, n) == [i \in 1..n |-> IF idx + i \in DOMAIN d.vItems THEN d.vItems[idx + i] ELSE Junk]

Items(d) == Part(d, 0, d.nItems)

TypeOK ==
    /\ arr \in [Names -> [nItems : 0..(SizeMod - 1), vItems : Seq(Values \cup {Junk})]]
    /\ ok \in BOOLEAN /\ got \in Seq(Values)

Fresh == [nItems |-> 0, vItems |-> << >>]

Init ==
    /\ arr = [a \in Names |-> Fresh]
    /\ call = Called("init", CHOOSE a \in Names : TRUE, 0, 0, << >>, CHOOSE a \in Names : TRUE)
    /\ ok = TRUE /\ got = << >>

-----------------------------------------------------------------------------
(* Memory.                                                                 *)

realloc(v, c) == [i \in 1..c |-> IF i \in DOMAIN v THEN v[i] ELSE Junk]

memcpy(v, dst, s) == [i \in DOMAIN v |-> IF i - dst \in DOMAIN s THEN s[i - dst] ELSE v[i]]

(* Mutant of memmove: cell after cell from the front, as memcpy() may.     *)
MoveFromFront(v, dst, src, n) ==
    LET Upto[k \in 0..n] ==
            IF k = 0 THEN v
            ELSE [i \in DOMAIN v |-> IF i = dst + k THEN Upto[k - 1][src + k] ELSE Upto[k - 1][i]]
    IN  Upto[n]

memmove(v, dst, src, n) ==
    [i \in DOMAIN v |-> IF i - dst \in 1..n /\ i - dst + src \in DOMAIN v THEN v[i - dst + src] ELSE v[i]]

AtLeast(c) == IF c < MinRoom THEN MinRoom ELSE c

Failed(d) == [ok |-> FALSE, d |-> d]
Good(d) == [ok |-> TRUE, d |-> d]

(* All that growing, cutting and making room for count more may leave.     *)
grow(d, c) == {Failed(d), Good([d EXCEPT !.vItems = realloc(@, AtLeast(c))])}

truncate(d, c) ==
    IF c = 0 THEN {Good(Fresh)}
    ELSE IF nCapacity(d) <= AtLeast(c) THEN {Good(d)}
    ELSE {Failed(d), Good([nItems |-> IF d.nItems > AtLeast(c) THEN AtLeast(c) ELSE d.nItems,
                           vItems |-> realloc(d.vItems, AtLeast(c))])}

nonzero(count, n) == IF count + n > 0 THEN n ELSE 1

(* Mutant of MakeRoom: looks for one place, whatever the count.            *)
MakeRoomForOne(d, n) ==
    IF d.nItems + 1 > nCapacity(d) THEN grow(d, nCapacity(d) + 1 + ((nCapacity(d) + 1) \div 2))
    ELSE {Good(d)}

MakeRoom(d, n) ==
    LET count == nonzero(d.nItems, n)
        dn == nCapacity(d) + count
    IN  IF d.nItems + count > nCapacity(d) THEN grow(d, dn + (dn \div 2)) ELSE {Good(d)}

-----------------------------------------------------------------------------
(* What the methods may leave of an array.                                 *)

append(d, s) ==
    LET Filled(e) == [nItems |-> e.nItems + Len(s), vItems |-> memcpy(e.vItems, e.nItems, s)]
    IN  {IF r.ok THEN Good(Filled(r.d)) ELSE r : r \in MakeRoom(d, Len(s))}

insert(d, index, s) ==
    LET Opened(e) ==
            IF index < e.nItems THEN memmove(e.vItems, index + Len(s), index, e.nItems - index) ELSE e.vItems
        Filled(e) == [nItems |-> e.nItems + Len(s), vItems |-> memcpy(Opened(e), index, s)]
    IN  {IF r.ok THEN Good(Filled(r.d)) ELSE r : r \in MakeRoom(d, Len(s))}

set(d, s) ==
    LET count == IF Len(s) > 0 THEN Len(s) ELSE 1
        fit == IF count > nCapacity(d) THEN grow(d, count)
               ELSE IF count < nCapacity(d) \div 2 THEN truncate(d, count) ELSE {Good(d)}
    IN  {IF r.ok THEN Good([nItems |-> Len(s), vItems |-> memcpy(r.d.vItems, 0, s)]) ELSE r : r \in fit}

(* Elements idx to idx + n are taken out and the others close up.          *)
Without(d, idx, n) ==
    LET last == idx + n IN
    [nItems |-> d.nItems - n,
     vItems |-> IF last < d.nItems THEN memmove(d.vItems, idx, last, d.nItems - last) ELSE d.vItems]

(* parray: the place of the first element that is v, or -1.                *)
index_of(d, v) ==
    LET found == {i \in 0..(d.nItems - 1) : d.vItems[i + 1] = v} IN IF found = {} THEN -1 ELSE Min(found)

-----------------------------------------------------------------------------
Return(c, yes, elements) == call' = c /\ ok' = yes /\ got' = elements

Refuse(c) == Return(c, FALSE, << >>) /\ UNCHANGED arr

Fits(a, d) == nCapacity(d) <= MaxCap[a] /\ d.nItems <= MaxItems[a]

Becomes(a, outcomes, c) ==
    \E r \in outcomes : Fits(a, r.d) /\ arr' = [arr EXCEPT ![a] = r.d] /\ Return(c, r.ok, << >>)

Append_(a, s) == Becomes(a, append(arr[a], s), Called("append", a, 0, 0, s, a))

Insert(a, index, s) ==
    LET c == Called("insert", a, index, 0, s, a) IN
    IF index > arr[a].nItems THEN Refuse(c) ELSE Becomes(a, insert(arr[a], index, s), c)

Assign(a, s) == Becomes(a, set(arr[a], s), Called("set", a, 0, 0, s, a))

Write(a, idx, s) ==
    LET c == Called("iset", a, idx, Len(s), s, a) IN
    IF idx + Len(s) > arr[a].nItems THEN Refuse(c)
    ELSE Becomes(a, {Good([arr[a] EXCEPT !.vItems = memcpy(@, idx, s)])}, c)

(* An array that loses elements, which are handed out.                     *)
Lose(a, d, c, elements) == arr' = [arr EXCEPT ![a] = d] /\ Return(c, TRUE, elements)

iremove(a, idx, n) ==
    LET c == Called("remove", a, idx, n, << >>, a) IN
    IF idx + n > arr[a].nItems THEN Refuse(c) ELSE Lose(a, Without(arr[a], idx, n), c, Part(arr[a], idx, n))

pop(a, n) ==
    LET size == arr[a].nItems - n IN
    IF size < 0 THEN Refuse(Called("remove", a, 0, n, << >>, a))
    ELSE Lose(a, [arr[a] EXCEPT !.nItems = size], Called("remove", a, size, n, << >>, a), Part(arr[a], size, n))

(* darray: premove() by an address, which may be that of the end; the overload
   that copies the elements out does not look where they end.              *)
premove(a, off, n) ==
    LET c == Called("remove", a, off, n, << >>, a) IN
    /\ off + n <= arr[a].nItems \/ PastEnd
    /\ IF off >= arr[a].nItems THEN Refuse(c)
       ELSE Lose(a, [Without(arr[a], off, n) EXCEPT !.nItems = @ % SizeMod], c, Part(arr[a], off, n))

(* parray: premove() of an element.                                        *)
PRemoveValue(a, v, n) ==
    IF index_of(arr[a], v) < 0 THEN Refuse(Called("remove", a, arr[a].nItems, n, << >>, a))
    ELSE iremove(a, index_of(arr[a], v), n)

(* pop(), iremove() and premove() into another array; the other may fail to
   take the elements, which then stay.                                     *)
MoveTo(a, idx, n, b) ==
    LET c == Called("move", a, idx, n, << >>, b) IN
    IF idx + n > arr[a].nItems THEN Refuse(c)
    ELSE \E r \in append(arr[b], Part(arr[a], idx, n)) :
            /\ Fits(b, r.d)
            /\ arr' = [arr EXCEPT ![b] = r.d, ![a] = IF r.ok THEN Without(@, idx, n) ELSE @]
            /\ Return(c, r.ok, IF r.ok THEN Part(arr[a], idx, n) ELSE << >>)

(* The last element comes into the place of the one taken out.             *)
Plugged(d, idx) ==
    LET size == d.nItems - 1 IN
    [nItems |-> size, vItems |-> IF idx < size THEN memmove(d.vItems, idx, size, 1) ELSE d.vItems]

(* darray: qremove() and qpremove() return the address of the place, where the
   last element is by then.  A client who does not read it only erases.    *)
qremove(a, idx) ==
    LET c == Called(IF ReadSlot THEN "qremove" ELSE "qerase", a, idx, 0, << >>, a)
        d == Plugged(arr[a], idx)
    IN  IF idx >= arr[a].nItems THEN Refuse(c)
        ELSE Lose(a, d, c, IF ReadSlot THEN Part(d, idx, 1) ELSE << >>)

(* parray: qremove() returns the element that was there.                   *)
QRemove(a, idx) ==
    LET c == Called("qremove", a, idx, 0, << >>, a) IN
    IF idx >= arr[a].nItems THEN Refuse(c)
    ELSE Lose(a, Plugged(arr[a], idx), c, Part(arr[a], idx, 1))

QPRemove(a, v) ==
    IF index_of(arr[a], v) < 0 THEN Refuse(Called("qremove", a, arr[a].nItems, 0, << >>, a))
    ELSE QRemove(a, index_of(arr[a], v))

xswap(a, i, j) ==
    LET c == Called("xswap", a, i, j, << >>, a)
        v == arr[a].vItems
    IN  IF i >= arr[a].nItems \/ j >= arr[a].nItems THEN Refuse(c)
        ELSE Becomes(a, {Good([arr[a] EXCEPT !.vItems = [v EXCEPT ![i + 1] = v[j + 1], ![j + 1] = v[i + 1]]])}, c)

swap(a, b) ==
    /\ Fits(a, arr[b]) /\ Fits(b, arr[a])
    /\ arr' = [arr EXCEPT ![a] = arr[b], ![b] = arr[a]]
    /\ Return(Called("swap", a, 0, 0, << >>, b), TRUE, << >>)

Truncate(a, size) == Becomes(a, truncate(arr[a], size), Called("truncate", a, 0, size, << >>, a))

Reserve(a, c) ==
    /\ c >= arr[a].nItems \/ ShrinkReserve
    /\ Becomes(a, grow(arr[a], c), Called("reserve", a, 0, c, << >>, a))

Clear(a) == Becomes(a, {Good([arr[a] EXCEPT !.nItems = 0])}, Called("clear", a, 0, 0, << >>, a))

(* flush() and release() leave no memory.                                  *)
Flush(a) == Becomes(a, {Good(Fresh)}, Called("clear", a, 0, 0, << >>, a))

(* qsort_r() and ssort_r() of the base library put the elements in order where
   they are.                                                               *)
Count(s, v) == Cardinality({i \in DOMAIN s : s[i] = v})

Sorted(s) ==
    {t \in [DOMAIN s -> {s[i] : i \in DOMAIN s}] :
        /\ \A i, j \in DOMAIN s : i < j => t[i] <= t[j]
        /\ \A i \in DOMAIN s : Count(t, s[i]) = Count(s, s[i])}

qsort(a) ==
    Becomes(a, {Good([arr[a] EXCEPT !.vItems = memcpy(@, 0, t)]) : t \in Sorted(Items(arr[a]))},
            Called("sort", a, 0, 0, << >>, a))

(* Sequences to copy from: a client's, or another array.                   *)
Given(a) == Sources \cup {Items(arr[b]) : b \in Names \ {a}}

Next ==
    \E a \in Names :
        LET places == 0..(arr[a].nItems + 1)
            others == Names \ {a}
        IN  \/ \E s \in Given(a) : Append_(a, s) \/ Assign(a, s)
            \/ \E at \in places, s \in Given(a) : Insert(a, at, s) \/ Write(a, at, s)
            \/ \E at \in places, n \in places : iremove(a, at, n) \/ premove(a, at, n) \/ xswap(a, at, n)
            \/ \E n \in places : pop(a, n) \/ qremove(a, n) \/ QRemove(a, n) \/ Truncate(a, n)
            \/ \E n \in places, b \in others : \E at \in places : MoveTo(a, at, n, b)
            \/ \E v \in Values : QPRemove(a, v) \/ \E n \in 0..2 : PRemoveValue(a, v, n)
            \/ \E c \in 0..MaxCap[a] : Reserve(a, c)
            \/ \E b \in others : swap(a, b)
            \/ Clear(a) \/ Flush(a) \/ qsort(a)

Spec == Init /\ [][Next]_vars

-----------------------------------------------------------------------------
(* Properties.                                                             *)

(* There are never more elements than memory: no method may come to write or
   read behind the block, whatever order growth, set(), truncate() and removals
   come in.                                                                *)
InBounds == \A a \in Names : arr[a].nItems <= nCapacity(arr[a])
=============================================================================
