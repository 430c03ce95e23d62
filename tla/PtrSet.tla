------------------------------- MODULE PtrSet -------------------------------
(***************************************************************************)
(* lltl::raw_ptrset, src/main/ptrset.cpp: a set of pointers, compared as   *)
(* pointers, in bins that are sorted arrays.  A pointer is its address, a  *)
(* number; NULL is 0.  Every action is one whole method; the methods are   *)
(* sequential.                                                             *)
(***************************************************************************)
EXTENDS Integers, SequencesExt

CONSTANTS
    Addresses,      \* pointers that clients put into the set
    Hash,           \* Hash[p]: the hash of a pointer that is not NULL
    NULL,           \* no pointer was given back
    InitialCap,     \* bins of the first allocation: 0x10 in the code
    FirstRoom,      \* room in the first array of a bin: ptrset_tuple_items >> 1
    FullBin,        \* size of a bin that makes the set grow: ptrset_tuple_items << 1
    MaxCap          \* bound: malloc() fails for more bins than this

AddressAssumption == Addresses \subseteq Nat /\ Hash \in [Addresses \ {0} -> Nat]
SizeAssumption ==
    /\ {InitialCap, FirstRoom, FullBin, MaxCap} \subseteq Nat \ {0}
    /\ InitialCap <= MaxCap /\ FirstRoom > 1

VARIABLES
    table,          \* size, cap and bins
    call,           \* history: the last call
    ok,             \* history: its answer
    old             \* history: the element it gave back, always none

vars == <<table, call, ok, old>>

hash(p) == IF p = 0 THEN 0 ELSE Hash[p]

NewBin == [cap |-> 0, data |-> << >>]

Empty == [size |-> 0, bins |-> << >>]

TypeOK ==
    /\ table \in [size : Nat, bins : Seq([cap : Nat, data : Seq(Addresses)])]
    /\ ok \in BOOLEAN
    /\ old = NULL

Called(op, k, v) == [op |-> op, key |-> k, value |-> v]

Init == table = Empty /\ call = Called("init", NULL, NULL) /\ ok = TRUE /\ old = NULL

cap(d) == Len(d.bins)

(* &bins[hval & (cap - 1)]                                                 *)
BinOf(d, p) == 1 + (hash(p) % cap(d))

Bin(p) == table.bins[BinOf(table, p)]

MaxOf(a, b) == IF a > b THEN a ELSE b

-----------------------------------------------------------------------------
(* A round of the loop of all three searches, in C numbering: the value can
   only be between first and last.  At the value itself they meet.         *)
Closer(data, value, s) ==
    LET mid == (s.first + s.last) \div 2 IN
    IF s.first >= s.last THEN s
    ELSE IF value < data[mid + 1] THEN [first |-> s.first, last |-> mid - 1]
    ELSE IF value > data[mid + 1] THEN [first |-> mid + 1, last |-> s.last]
    ELSE [first |-> mid, last |-> mid]

(* The binary search: it ends on the index of the value or on one next to
   which the value belongs, after as many rounds as there are elements at
   most, and further rounds change nothing.                                *)
Probe(data, value) ==
    LET After[n \in 0..Len(data)] ==
            IF n = 0 THEN [first |-> 0, last |-> Len(data) - 1]
            ELSE Closer(data, value, After[n - 1])
    IN  After[Len(data)].first

(* index_of(): -1 if the value is not there                                *)
index_of(data, value) ==
    IF data = << >> THEN -1
    ELSE IF data[Probe(data, value) + 1] = value THEN Probe(data, value) ELSE -1

(* Where to insert a value that is not there: before or after the element
   where the search has ended.                                             *)
Beside(data, value) ==
    IF value < data[Probe(data, value) + 1] THEN Probe(data, value) ELSE Probe(data, value) + 1

(* insert_index_of(): -1 if the value is there                             *)
insert_index_of(data, value) ==
    IF data = << >> THEN 0
    ELSE IF data[Probe(data, value) + 1] = value THEN -1 ELSE Beside(data, value)

-----------------------------------------------------------------------------
(* Bins.  insert() and append() make room for one element if there is none,
   which may fail: the outcomes are bins.                                  *)

Room(bin) == IF Len(bin.data) >= bin.cap THEN MaxOf(bin.cap + bin.cap \div 2, FirstRoom) ELSE bin.cap

insert(bin, value, index) ==
    [cap |-> Room(bin), data |-> InsertAt(bin.data, index + 1, value)]

remove(bin, index) == [cap |-> bin.cap, data |-> RemoveAt(bin.data, index + 1)]

append(bin, value) == [cap |-> Room(bin), data |-> Append(bin.data, value)]

-----------------------------------------------------------------------------
(* grow(): the values of each bin go to new bins in their order, each to the
   one of its hash.  Without memory on the way nothing changes.            *)

Part(data, bit, b) ==
    LET Upto[i \in 0..Len(data)] ==
            IF i = 0 THEN NewBin
            ELSE IF (hash(data[i]) \div bit) % 2 = b THEN append(Upto[i - 1], data[i])
            ELSE Upto[i - 1]
    IN  Upto[Len(data)]

(* Mutant of Doubled: all values go to the lower bin.                      *)
DoubledLow(d) ==
    LET c == cap(d) IN
    [size |-> d.size, bins |-> [i \in 1..(2 * c) |-> IF i <= c THEN d.bins[i] ELSE NewBin]]

Doubled(d) ==
    LET c == cap(d) IN
    [size |-> d.size,
     bins |-> [i \in 1..(2 * c) |->
                  IF i <= c THEN Part(d.bins[i].data, c, 0) ELSE Part(d.bins[i - c].data, c, 1)]]

grow(d) ==
    IF d.bins = << >> THEN [size |-> d.size, bins |-> [i \in 1..InitialCap |-> NewBin]]
    ELSE Doubled(d)

CanGrow(d) == 2 * cap(d) <= MaxCap

-----------------------------------------------------------------------------
Answer(op, k, v, yes) == call' = Called(op, k, v) /\ ok' = yes /\ old' = NULL

Refuse(op, k, v) == Answer(op, k, v, FALSE) /\ UNCHANGED table

WithInserted(d, p, index) ==
    [size |-> d.size + 1, bins |-> [d.bins EXCEPT ![BinOf(d, p)] = insert(@, p, index)]]

WithRemoved(d, p, index) ==
    [size |-> d.size - 1, bins |-> [d.bins EXCEPT ![BinOf(d, p)] = remove(@, index)]]

(* A full bin makes the set grow before the value is looked for.           *)
MustGrow(p) == table.bins = << >> \/ Len(Bin(p).data) >= FullBin

(* The end of put(): without room in the array of the bin, insert() may fail,
   and then the bins may have grown all the same.                          *)

PutInto(op, d, p) ==
    LET bin == d.bins[BinOf(d, p)]
        index == insert_index_of(bin.data, p)
    IN  \/ index >= 0 /\ table' = WithInserted(d, p, index) /\ Answer(op, p, p, TRUE)
        \/ /\ index < 0 \/ Len(bin.data) >= bin.cap
           /\ table' = d /\ Answer(op, p, p, FALSE)

put(op, p) ==
    IF MustGrow(p)
    THEN \/ CanGrow(table) /\ PutInto(op, grow(table), p)
         \/ Refuse(op, p, p)
    ELSE PutInto(op, table, p)

Put(p) == put("create", p)

(* toggle(): the value is inserted first; a bin that had others and is full
   now makes the set grow, and whether it does is not looked at.           *)
ToggleIn(p) ==
    LET d == WithInserted(table, p, insert_index_of(Bin(p).data, p)) IN
    \/ /\ Answer("toggle", p, p, TRUE)
       /\ \/ table' = d
          \/ /\ Bin(p).data # << >> /\ Len(Bin(p).data) + 1 >= FullBin
             /\ CanGrow(d) /\ table' = grow(d)
    \/ Len(Bin(p).data) >= Bin(p).cap /\ Refuse("toggle", p, p)

ToggleOut(p) ==
    /\ table' = WithRemoved(table, p, index_of(Bin(p).data, p))
    /\ Answer("toggle", p, p, TRUE)

Toggle(p) ==
    IF table.bins = << >> THEN put("toggle", p)
    ELSE IF index_of(Bin(p).data, p) >= 0 THEN ToggleOut(p) ELSE ToggleIn(p)

contains(p) == table.bins # << >> /\ index_of(Bin(p).data, p) >= 0

Discard(p) ==
    IF contains(p)
    THEN /\ table' = WithRemoved(table, p, index_of(Bin(p).data, p))
         /\ Answer("discard", p, NULL, TRUE)
    ELSE Refuse("discard", p, NULL)

(* clear() frees the arrays of the bins, flush() and the destructor all.   *)
Clear ==
    /\ table' = [size |-> 0, bins |-> [i \in DOMAIN table.bins |-> NewBin]]
    /\ Answer("clear", NULL, NULL, TRUE)

(* flush(), and the destructor; what swap() with an empty table leaves.    *)
Flush == table' = Empty /\ Answer("clear", NULL, NULL, TRUE)

Next ==
    \/ \E p \in Addresses : Put(p) \/ Toggle(p) \/ Discard(p)
    \/ Clear \/ Flush

Spec == Init /\ [][Next]_vars

-----------------------------------------------------------------------------
(* Properties.                                                             *)

(* What the binary searches rely on: each bin is sorted, without repetition,
   and holds pointers of its hash only; it fits into its array.            *)
BinsSorted ==
    \A b \in DOMAIN table.bins : LET data == table.bins[b].data IN
        /\ \A i, j \in DOMAIN data : i < j => data[i] < data[j]
        /\ \A i \in DOMAIN data : BinOf(table, data[i]) = b
        /\ Len(data) <= table.bins[b].cap

values ==
    LET Upto[b \in 0..cap(table)] == IF b = 0 THEN << >> ELSE Upto[b - 1] \o table.bins[b].data
    IN  Upto[cap(table)]

(* The searches find every pointer that is in some bin and no other, and
   size() says how many there are.                                         *)
SearchesAgree ==
    /\ \A p \in Addresses : contains(p) <=> p \in Range(values)
    /\ table.size = Len(values)

(* The set as a map from each pointer to itself.                           *)
Entries == [p \in Range(values) |-> p]
=============================================================================
