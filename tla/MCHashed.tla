------------------------------ MODULE MCHashed ------------------------------
(* Model checking the hash containers.  A behaviour works on one of them,
   chosen at the start: they share the variables and nothing else.         *)
EXTENDS PPHash

CONSTANTS
    one, three, five, cinq,     \* keys
    SetCopies,      \* how many equal objects there are of a class
    LastAddress,    \* pointers are 0 .. LastAddress
    AddressHash,    \* their hashes
    FirstRoom, FullBin, MaxCap,     \* sizes of the bins of a ptrset, and of all
    LongBins,       \* HashIndex: removal with two nodes behind
    SplitFails      \* HashIndex: no memory in the middle of a split

VARIABLES
    active,         \* the container at work
    heap, hung      \* those of HashIndex

(* With two bins at first and eight at the end: one key of the hash of NULL,
   three that are split from one another late, two that never are.         *)
MCHash == [k \in Keys |-> IF k = one THEN 1 ELSE IF k = three THEN 3
                          ELSE IF k \in {five, cinq} THEN 5 ELSE 0]

MCAddressHash == [p \in 1..LastAddress |-> p \div 2]

Set == INSTANCE PHashSet WITH Classes <- Keys, Copies <- 1..SetCopies

Ptr == INSTANCE PtrSet WITH Addresses <- 0..LastAddress, Hash <- AddressHash

(* Two instances of hash_index: in the first nodes are half full and full and
   growth splits a bin inside a node; in the second a bin has up to three nodes, and the
   table grows until a split takes nodes from the ones before.             *)
IndexKeys == {one, three, five, cinq}

Wide == INSTANCE HashIndex WITH Keys <- IndexKeys, Hash <- [k \in IndexKeys |-> MCHash[k]],
                                NodeSize <- 2, InitialCap <- 1, Load <- 4

NarrowHash == [k \in IndexKeys |-> IF k = one THEN 2 ELSE IF k = three THEN 3 ELSE 1]

Narrow == INSTANCE HashIndex WITH Keys <- IndexKeys, Hash <- NarrowHash,
                                  NodeSize <- 1, InitialCap <- 1, Load <- 2

ASSUME SetAssumption == Set!ClassesAssumption
ASSUME PtrAssumption == Ptr!AddressAssumption /\ Ptr!SizeAssumption
ASSUME NodesAssumption == Wide!IndexAssumption /\ Narrow!IndexAssumption /\ IndexKeys \subseteq Keys

all == <<active, heap, hung, vars>>

Containers == {"pphash", "phashset", "ptrset", "wide", "narrow"}

InitHashed == active \in Containers /\ heap = [nodes |-> 0, lost |-> 0] /\ hung = FALSE /\ Init

NextHashed ==
    /\ UNCHANGED active
    /\ \/ active = "pphash" /\ Next /\ UNCHANGED <<heap, hung>>
       \/ active = "phashset" /\ Set!Next /\ UNCHANGED <<clones, heap, hung>>
       \/ active = "ptrset" /\ Ptr!Next /\ UNCHANGED <<clones, heap, hung>>
       \/ active = "wide" /\ Wide!Next /\ UNCHANGED clones
       \/ active = "narrow" /\ Narrow!Next /\ UNCHANGED clones

Spec_ == InitHashed /\ [][NextHashed]_all

(* The last call says what the step into a state did and nothing of what can
   follow: every step is checked, but states that differ in it only are one.
   The nodes that are lost only add up.                                    *)
View == <<active, table, clones, heap.nodes - heap.lost, hung>>

Working(c) == active = c

-----------------------------------------------------------------------------
(* Properties.                                                             *)

(* The table, what it has allocated and its answers are of their types.    *)
TypesOK ==
    /\ Working("pphash") => TypeOK
    /\ Working("phashset") => Set!TypeOK
    /\ Working("ptrset") => Ptr!TypeOK
    /\ Working("wide") => Wide!TypeOK
    /\ Working("narrow") => Narrow!TypeOK

(* What is stored is found: after any growth and removal, a search for the
   key of an entry finds that entry, in the bin of its hash and only there;
   the bins of a ptrset are sorted and its binary searches agree.          *)
EntriesFindable ==
    /\ Working("pphash") => Findable
    /\ Working("phashset") => Set!Findable
    /\ Working("ptrset") => Ptr!BinsSorted /\ Ptr!SearchesAgree
    /\ Working("wide") => Wide!Findable
    /\ Working("narrow") => Narrow!Findable

(* The counters of the bins and of the table agree with the entries.       *)
CountersAgree ==
    /\ Working("pphash") => SizesAgree
    /\ Working("phashset") => Set!SizesAgree
    /\ Working("wide") => Wide!SizesAgree
    /\ Working("narrow") => Narrow!SizesAgree

(* What is allocated is owned: a pphash has one copy of each key it holds and
   no other, the nodes of a hash_index are in its bins, but for those that
   remove() loses.                                                         *)
MemoryOwned ==
    /\ Working("pphash") => KeysOwned
    /\ Working("wide") => Wide!NodesOwned
    /\ Working("narrow") => Narrow!NodesOwned

(* No lookup of a key, in any state of the map, compares it with a NULL key. *)
NoNullCompared == Working("pphash") => NullNotCompared

(* The elements of the container at work, as a map.                        *)
Shown ==
    CASE Working("pphash") -> Entries
      [] Working("phashset") -> Set!Entries
      [] Working("wide") -> Wide!Entries
      [] Working("narrow") -> Narrow!Entries
      [] Working("ptrset") -> << >>

(* What a map sees that is not called.                                     *)
NoCall == Called("init", NULL, NULL)

TheMap == INSTANCE Map WITH
    Keys    <- KeysOrNull,
    Values  <- Values \cup Set!Pointers,
    entries <- Shown,
    call    <- IF Working("ptrset") THEN NoCall ELSE call,
    ok      <- Working("ptrset") \/ ok,
    old     <- IF Working("ptrset") THEN NULL ELSE old

ThePointers == INSTANCE Map WITH
    Keys    <- 0..LastAddress,
    Values  <- 0..LastAddress,
    entries <- IF Working("ptrset") THEN Ptr!Entries ELSE << >>,
    call    <- IF Working("ptrset") THEN call ELSE NoCall,
    ok      <- Working("ptrset") => ok,
    old     <- IF Working("ptrset") THEN old ELSE NULL

(* The methods are those of a map, or of a set, which is a map from what is
   compared to the element that stands for it; a call that fails, for want
   of memory above all, changes nothing.                                   *)
Implements == TheMap!Spec /\ ThePointers!Spec
=============================================================================
