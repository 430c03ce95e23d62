---------------------------- MODULE MCSequences ----------------------------
(* Model checking the arrays, the snapshots that the hash containers put into
   them, the iterators over them and the bitset.  A
   behaviour works on one of the two components, chosen at the start.      *)
EXTENDS Snapshot, Iterator, TLC

CONSTANTS x, y, WordBits, MaxBits, SetAllCleared

VARIABLES active, nSize, vData, bitCall, answer

TheBits == INSTANCE BitSet WITH call <- bitCall, Patterns <-
    {[i \in 1..(MaxBits + 1) |-> i % 2], [i \in 1..(MaxBits + 1) |-> IF i % 3 = 0 THEN 0 ELSE 1]}

ASSUME BitsAssumption == TheBits!BitSetAssumption

MCSources == {<< >>, <<1>>, <<2>>, <<2, 1>>, <<1, 2, 2>>}

MCTables == {<< >>, <<<<1, 2>>>>, <<<<2, 1>>, <<1, 1>>>>}

MCItems == x :> 5 @@ y :> 2

MCCap == x :> 7 @@ y :> 3

bitVars == <<nSize, vData, bitCall, answer>>

all == <<active, vars, lost, bitVars>>

InitSequences == active \in {"arrays", "bitset"} /\ ClientInit /\ TheBits!Init

NextSequences ==
    /\ UNCHANGED active
    /\ \/ active = "arrays" /\ ClientNext /\ UNCHANGED bitVars
       \/ active = "bitset" /\ TheBits!Next /\ UNCHANGED <<vars, lost>>

Spec_ == InitSequences /\ [][NextSequences]_all

(* The last call is seen by the step that makes it; cells that hold no element
   are told apart by nothing.                                              *)
View == <<active, [a \in Names |-> <<nCapacity(arr[a]), arr[a].nItems, Items(arr[a])>>], lost, nSize, vData>>

-----------------------------------------------------------------------------
(* Properties.                                                             *)

TypesOK == TypeOK /\ TheBits!TypeOK

(* Every array method does to the elements, and hands out, what it would with
   a sequence, however the cells are moved; a call that finds no memory or
   elements changes nothing, in either of the arrays it is about.  Every
   method of the bitset does to the bits, and returns, what it would with a
   sequence of bits, wherever a range begins and ends in the words.        *)
TheArrays == INSTANCE Array WITH items <- [a \in Names |-> Items(arr[a])]

TheSequence == INSTANCE Bits WITH
    bits <- [i \in 1..nSize |-> TheBits!Get(i - 1)], call <- bitCall

Implements == TheArrays!Spec /\ TheSequence!Spec

HiddenBitsClear == TheBits!HiddenBitsClear

(* Where an iterator is after so many advances.                            *)
Advanced(start, n) ==
    LET Place[k \in 0..n] == IF k = 0 THEN start ELSE advance(Place[k - 1], 1) IN Place

(* Whatever direction an iterator has: from the first element, remaining()
   counts the advances until it is invalid and max_advance() those until the
   last element; moves add up; of two iterators the lesser is the one
   that has been advanced less; and diff() with an invalid one is
   what remains.                                                           *)
IteratorsMeasure ==
    \A a \in Names : \A start \in {iter(arr[a].nItems), riter(arr[a].nItems)} :
        LET n == arr[a].nItems
            Place == Advanced(start, n)
            Visited(k) == Place[k].index = IF start.reversive THEN n - 1 - k ELSE k
        IN  /\ Place[n] = INVALID
            /\ \A k \in 0..n : remaining(Place[k]) = n - k
            /\ \A k \in 0..(n - 1) :
                /\ Visited(k)
                /\ max_advance(Place[k]) = n - 1 - k
                /\ diff(Place[k], INVALID) = n - k /\ diff(INVALID, Place[k]) = n - k
                /\ \A j \in 0..n : advance(Place[k], j - k) = Place[j]
                /\ \A j \in 0..(n - 1) :
                    Less(Place[k], Place[j]) = (k < j) /\ Same(Place[k], Place[j]) = (k = j)
=============================================================================
