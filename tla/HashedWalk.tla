----------------------------- MODULE HashedWalk -----------------------------
(***************************************************************************)
(* The iterators of the hash containers: iter(), riter() and iter_move()   *)
(* of raw_pphash (those of raw_phashset are the same text), of raw_ptrset  *)
(* and of raw_hash_index, over a table d.  "part" is the bin, "item" the   *)
(* place in it, counted from 1; 0 is a null tuple.                         *)
(***************************************************************************)
EXTENDS Integers, SequencesExt

INVALID == [item |-> 0, part |-> 0, index |-> 0]

At(item, part, index) == [item |-> item, part |-> part, index |-> index]

Size(d, b) == Len(d.bins[b].data)

Nonempty(d) == {b \in DOMAIN d.bins : Size(d, b) > 0}

iter(d) == IF d.size <= 0 THEN INVALID ELSE At(1, Min(Nonempty(d)), 0)

riter(d) ==
    IF d.size <= 0 THEN INVALID
    ELSE At(Size(d, Max(Nonempty(d))), Max(Nonempty(d)), d.size - 1)

Outside(d, i, n) == i.index + n < 0 \/ i.index + n >= d.size

-----------------------------------------------------------------------------
(* Chains.                                                                 *)

RECURSIVE ChainForward(_, _, _), ChainBackward(_, _, _)

(* A bin with fewer than the n tuples that are left is skipped.            *)
ChainForward(d, i, n) ==
    IF n = 0 THEN i
    ELSE IF i.item # 0 /\ i.item < Size(d, i.part)
    THEN ChainForward(d, At(i.item + 1, i.part, i.index + 1), n - 1)
    ELSE IF i.part = Len(d.bins) THEN INVALID
    ELSE LET size == d.bins[i.part + 1].size IN
         IF size < n THEN ChainForward(d, At(0, i.part + 1, i.index + size), n - size)
         ELSE ChainForward(d, At(1, i.part + 1, i.index + 1), n - 1)

(* prev_tuple(bin, NULL) is the last tuple of the bin.                     *)
prev_tuple(d, i) == IF i.item = 0 THEN Size(d, i.part) ELSE i.item - 1

ChainBackward(d, i, n) ==
    IF n = 0 THEN i
    ELSE IF prev_tuple(d, i) # 0
    THEN ChainBackward(d, At(prev_tuple(d, i), i.part, i.index - 1), n - 1)
    ELSE IF i.part = 1 THEN INVALID
    ELSE LET size == d.bins[i.part - 1].size IN
         IF size < n THEN ChainBackward(d, At(0, i.part - 1, i.index - size), n - size)
         ELSE ChainBackward(d, At(0, i.part - 1, i.index), n)

(* Mutant of chain_move: does not skip bins, but takes the first tuple of
   the next one wherever it is.                                            *)
ChainMoveOneBin(d, i, n) ==
    IF Outside(d, i, n) THEN INVALID
    ELSE IF n >= 0 /\ i.item + n > Size(d, i.part) /\ i.part < Len(d.bins)
    THEN At(1, i.part + 1, i.index + n)
    ELSE IF n >= 0 THEN ChainForward(d, i, n) ELSE ChainBackward(d, i, -n)

chain_move(d, i, n) ==
    IF Outside(d, i, n) THEN INVALID
    ELSE IF n >= 0 THEN ChainForward(d, i, n) ELSE ChainBackward(d, i, -n)

-----------------------------------------------------------------------------
(* Sorted bins.                                                            *)

next_bin(d, b) == {c \in Nonempty(d) : c > b}
prev_bin(d, b) == {c \in Nonempty(d) : c < b}

RECURSIVE SortedForward(_, _, _), SortedBackward(_, _, _)

SortedForward(d, i, n) ==
    IF i.item + n <= Size(d, i.part) THEN At(i.item + n, i.part, i.index + n)
    ELSE IF next_bin(d, i.part) = {} THEN INVALID
    ELSE LET advance == Size(d, i.part) - i.item + 1 IN
         SortedForward(d, At(1, Min(next_bin(d, i.part)), i.index + advance), n - advance)

SortedBackward(d, i, n) ==
    IF i.item - n >= 1 THEN At(i.item - n, i.part, i.index - n)
    ELSE IF prev_bin(d, i.part) = {} THEN INVALID
    ELSE LET b == Max(prev_bin(d, i.part)) IN
         SortedBackward(d, At(Size(d, b), b, i.index - i.item), n - i.item)

sorted_move(d, i, n) ==
    IF Outside(d, i, n) THEN INVALID
    ELSE IF n >= 0 THEN SortedForward(d, i, n) ELSE SortedBackward(d, i, -n)

-----------------------------------------------------------------------------
(* Lists of nodes of "room" places.                                        *)

NodeFirst(i, room) == i.item - ((i.item - 1) % room)

NodeLast(d, i, room) == Min({NodeFirst(i, room) + room - 1, Size(d, i.part)})

(* Over bins that are skipped, the index advances by what is left to go.   *)
RECURSIVE EnterForward(_, _, _), EnterBackward(_, _, _)

EnterForward(d, i, n) ==
    IF i.part = Len(d.bins) THEN [at |-> INVALID, left |-> 0]
    ELSE LET size == Size(d, i.part + 1) IN
         IF n < size THEN [at |-> At(1, i.part + 1, i.index), left |-> n]
         ELSE EnterForward(d, At(0, i.part + 1, i.index + n), n - size)

EnterBackward(d, i, n) ==
    IF i.part = 1 THEN [at |-> INVALID, left |-> 0]
    ELSE LET size == Size(d, i.part - 1) IN
         IF n < size THEN [at |-> At(size, i.part - 1, i.index), left |-> n]
         ELSE EnterBackward(d, At(0, i.part - 1, i.index - n), n - size)

RECURSIVE NodesForward(_, _, _, _), NodesBackward(_, _, _, _)

NodesForward(d, i, n, room) ==
    LET avail == NodeLast(d, i, room) - i.item + 1
        enter == EnterForward(d, At(0, i.part, i.index + avail), n - avail)
    IN  IF n < avail THEN At(i.item + n, i.part, i.index + n)
        ELSE IF i.item + avail <= Size(d, i.part)
        THEN NodesForward(d, At(i.item + avail, i.part, i.index + avail), n - avail, room)
        ELSE IF enter.left = 0 THEN enter.at ELSE NodesForward(d, enter.at, enter.left, room)

NodesBackward(d, i, n, room) ==
    LET avail == i.item - NodeFirst(i, room) + 1
        enter == EnterBackward(d, At(0, i.part, i.index - avail), n - avail)
    IN  IF n < avail THEN At(i.item - n, i.part, i.index - n)
        ELSE IF i.item > avail
        THEN NodesBackward(d, At(i.item - avail, i.part, i.index - avail), n - avail, room)
        ELSE IF enter.left = 0 THEN enter.at ELSE NodesBackward(d, enter.at, enter.left, room)

nodes_move(d, i, n, room) ==
    IF Outside(d, i, n) THEN INVALID
    ELSE IF n >= 0 THEN NodesForward(d, i, n, room) ELSE NodesBackward(d, i, -n, room)
=============================================================================
