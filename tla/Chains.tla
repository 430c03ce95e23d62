------------------------------- MODULE Chains -------------------------------
(***************************************************************************)
(* The table behind raw_pphash and raw_phashset (src/main/pphash.cpp and   *)
(* phashset.cpp): an array of bins, each a chain of tuples that carry      *)
(* their hash.  The array has no bins, or InitialCap times a power of two. *)
(*                                                                         *)
(* A tuple is [hash, key, value].  A chain linked by "next" is a sequence. *)
(***************************************************************************)
EXTENDS Integers, SequencesExt

CONSTANTS
    NULL,
    InitialCap,     \* bins of the first allocation: 0x10 in the code
    Load            \* elements per bin that make the table grow: 4 in the code

ASSUME TableAssumption == {InitialCap, Load} \subseteq Nat \ {0}

Empty == [size |-> 0, bins |-> << >>]

cap(d) == Len(d.bins)

NewBin == [size |-> 0, data |-> << >>]

(* &bins[hash & (cap - 1)]                                                 *)
BinOf(d, hash) == 1 + (hash % cap(d))

Chain(d, hash) == IF d.bins = << >> THEN << >> ELSE d.bins[BinOf(d, hash)].data

(* The tuples, bin after bin.                                              *)
Tuples(d) ==
    LET Upto[b \in 0..Len(d.bins)] == IF b = 0 THEN << >> ELSE Upto[b - 1] \o d.bins[b].data
    IN  Upto[Len(d.bins)]

Stored(d) == UNION {Range(bin.data) : bin \in Range(d.bins)}

-----------------------------------------------------------------------------
(* Searching.  A NULL key is looked up by itself; another key is compared
   with the key of every tuple that has its hash, a NULL one included.     *)
Stops(t, key, hash) ==
    IF key = NULL THEN t.key = NULL ELSE t.hash = hash /\ t.key = key

(* The position in its chain of the tuple where the search stops, or 0.    *)
Search(d, key, hash) ==
    LET stops == {i \in DOMAIN Chain(d, hash) : Stops(Chain(d, hash)[i], key, hash)}
    IN  IF stops = {} THEN 0 ELSE Min(stops)

(* The search passes a NULL key to the comparison, which strcmp() and
   memcmp() would follow; the functions that only look at the pointers would
   say that it is another key.                                             *)
ComparesNull(d, key, hash) ==
    /\ key # NULL
    /\ \E i \in DOMAIN Chain(d, hash) :
          /\ Chain(d, hash)[i].key = NULL /\ Chain(d, hash)[i].hash = hash
          /\ Search(d, key, hash) \in {0} \cup i..Len(Chain(d, hash))

-----------------------------------------------------------------------------
(* Changing one bin: it has other tuples now, n more than before.          *)
WithBin(d, b, n, data) ==
    [size |-> d.size + n, bins |-> [d.bins EXCEPT ![b] = [size |-> @.size + n, data |-> data]]]

Link(d, t) ==
    LET b == BinOf(d, t.hash) IN WithBin(d, b, 1, <<t>> \o d.bins[b].data)

Unlink(d, hash, i) ==
    LET b == BinOf(d, hash) IN WithBin(d, b, -1, RemoveAt(d.bins[b].data, i))

Store(d, hash, i, value) ==
    LET b == BinOf(d, hash) IN
    WithBin(d, b, 0, [d.bins[b].data EXCEPT ![i] = [hash |-> @.hash, key |-> @.key, value |-> value]])

-----------------------------------------------------------------------------
(* Growth.  Each bin is split in two by the bit of the hash that the longer
   mask adds: the tuples that have it are put one by one before those of the
   new bin, so they change their order.                                    *)
Chosen(chain, bit, b) ==
    LET Upto[i \in 0..Len(chain)] ==
            IF i = 0 THEN << >>
            ELSE IF (chain[i].hash \div bit) % 2 = b THEN Append(Upto[i - 1], chain[i])
            ELSE Upto[i - 1]
    IN  Upto[Len(chain)]

Moved(chain, bit) == Chosen(chain, bit, 1)
Kept(chain, bit)  == Chosen(chain, bit, 0)

Doubled(d) ==
    LET c == cap(d)
        Old(bin) == [size |-> bin.size - Len(Moved(bin.data, c)), data |-> Kept(bin.data, c)]
        New(bin) == [size |-> Len(Moved(bin.data, c)), data |-> Reverse(Moved(bin.data, c))]
    IN  [size |-> d.size,
         bins |-> [i \in 1..(2 * c) |-> IF i <= c THEN Old(d.bins[i]) ELSE New(d.bins[i - c])]]

(* The bins of the first allocation.                                       *)
Allocated(d) == [size |-> d.size, bins |-> [i \in 1..InitialCap |-> NewBin]]

Grown(d) ==
    IF d.bins = << >> THEN Allocated(d)
    ELSE Doubled(d)

(* create_tuple() grows the table if the elements are too many for it, and
   only then chooses the bin.                                              *)
Placed(d, t) == Link(IF d.size >= cap(d) * Load THEN Grown(d) ELSE d, t)

-----------------------------------------------------------------------------
(* clear(): the bins stay, their chains are freed.                         *)
Cleared(d) == [size |-> 0, bins |-> [i \in DOMAIN d.bins |-> NewBin]]
=============================================================================
