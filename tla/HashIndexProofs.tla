-------------------------- MODULE HashIndexProofs --------------------------
(***************************************************************************)
(* What HashIndex guarantees, for any keys, values, hashes and any size of *)
(* a node, to clients that make none of the calls which are known to break *)
(* it: every entry is found, the counters count, no node is lost but those *)
(* that remove() loses, and the methods are those of a map.  What is said  *)
(* of tables alone, in the first parts, holds of the chains of pphash and  *)
(* phashset too.                                                           *)
(***************************************************************************)
EXTENDS HashIndex, Recursion, FiniteSetTheorems, SequenceTheorems

-----------------------------------------------------------------------------
(* Tables.                                                                 *)

LEMMA Constants ==
    ASSUME IndexAssumption
    PROVE  /\ NULL \notin Keys
           /\ \A k \in KeysOrNull : hash(k) \in Nat
           /\ NodeSize \in Nat /\ NodeSize > 0
           /\ InitialCap \in Nat /\ InitialCap > 0
BY TableAssumption DEF IndexAssumption, KeysOrNull, hash

(* The entries of bin b of n: all have its hash, and no key is there twice.*)
Own(data, n, b) ==
    /\ data \in Seq(Entry)
    /\ \A i \in 1..Len(data) : data[i].hash = hash(data[i].key) /\ 1 + (data[i].hash % n) = b
    /\ \A i, j \in 1..Len(data) : data[i].key = data[j].key => i = j

(* Tables that have every entry in its bin, and count them.                *)
Well(d) ==
    /\ d \in [size : Nat, bins : Seq([size : Nat, data : Seq(Entry)])]
    /\ \A b \in 1..Len(d.bins) :
          d.bins[b].size = Len(d.bins[b].data) /\ Own(d.bins[b].data, Len(d.bins), b)
    /\ IsFiniteSet(Stored(d)) /\ d.size = Cardinality(Stored(d))

Holds(d, k) == \E t \in Stored(d) : t.key = k

LEMMA EntryFields ==
    ASSUME NEW t \in Entry
    PROVE  t.hash \in Nat /\ t.key \in KeysOrNull /\ t.value \in Values
BY DEF Entry

LEMMA Ranges ==
    ASSUME NEW T, NEW s \in Seq(T)
    PROVE  Range(s) = {s[i] : i \in 1..Len(s)} /\ DOMAIN s = 1..Len(s) /\ Range(s) \subseteq T
BY DEF Range

(* What is stored is in some place of some bin.                            *)
LEMMA StoredAt ==
    ASSUME NEW d, d \in [size : Nat, bins : Seq([size : Nat, data : Seq(Entry)])], NEW t
    PROVE  t \in Stored(d) <=> \E b \in 1..Len(d.bins) : t \in Range(d.bins[b].data)
<1>1. d.bins \in Seq([size : Nat, data : Seq(Entry)])
  OBVIOUS
<1>2. Range(d.bins) = {d.bins[b] : b \in 1..Len(d.bins)}
  BY <1>1, Ranges
<1> QED BY <1>2 DEF Stored

(* The parts of a table.                                                   *)
LEMMA Parts ==
    ASSUME NEW d, Well(d), NEW b \in 1..Len(d.bins)
    PROVE  /\ Len(d.bins) \in Nat /\ Len(d.bins) > 0 /\ d.size \in Nat
           /\ d.bins \in Seq([size : Nat, data : Seq(Entry)])
           /\ d.bins[b].data \in Seq(Entry) /\ d.bins[b].size = Len(d.bins[b].data)
           /\ d.bins[b] = [size |-> d.bins[b].size, data |-> d.bins[b].data]
           /\ Own(d.bins[b].data, Len(d.bins), b)
           /\ Range(d.bins[b].data) \subseteq Stored(d)
<1>1. d \in [size : Nat, bins : Seq([size : Nat, data : Seq(Entry)])]
  BY DEF Well
<1>2. d.bins[b] \in [size : Nat, data : Seq(Entry)]
  <2> DEFINE T == [size : Nat, data : Seq(Entry)]
             bins == d.bins
  <2>1. bins \in Seq(T) /\ b \in 1..Len(bins)
    BY <1>1
  <2> HIDE DEF T, bins
  <2>2. bins[b] \in T
    BY <2>1
  <2> QED BY <2>2 DEF T, bins
<1>3. Range(d.bins[b].data) \subseteq Stored(d)
  BY <1>1, StoredAt
<1> QED BY <1>1, <1>2, <1>3 DEF Well

(* The bin of an entry.                                                    *)
LEMMA StoredIn ==
    ASSUME NEW d, Well(d), NEW t \in Stored(d)
    PROVE  /\ t \in Entry /\ t.hash = hash(t.key) /\ BinOf(d, t.hash) \in 1..Len(d.bins)
           /\ \E i \in 1..Len(d.bins[BinOf(d, t.hash)].data) : d.bins[BinOf(d, t.hash)].data[i] = t
<1>1. d \in [size : Nat, bins : Seq([size : Nat, data : Seq(Entry)])]
  BY DEF Well
<1>2. PICK b \in 1..Len(d.bins) : t \in Range(d.bins[b].data)
  BY <1>1, StoredAt
<1> DEFINE data == d.bins[b].data
<1>3. data \in Seq(Entry) /\ Own(data, Len(d.bins), b)
  BY Parts
<1>4. PICK i \in 1..Len(data) : data[i] = t
  BY <1>2, <1>3, Ranges
<1>5. t.hash = hash(t.key) /\ 1 + (t.hash % Len(d.bins)) = b
  BY <1>3, <1>4 DEF Own
<1>6. t \in Entry
  BY <1>3, <1>4
<1> QED BY <1>4, <1>5, <1>6 DEF BinOf, cap

(* No key is there twice.                                                  *)
LEMMA OneForEachKey ==
    ASSUME NEW d, Well(d), NEW s \in Stored(d), NEW t \in Stored(d), s.key = t.key
    PROVE  s = t
<1> DEFINE b == BinOf(d, s.hash)
           data == d.bins[b].data
<1>1. s.hash = hash(s.key) /\ t.hash = hash(t.key)
  BY StoredIn
<1>2. b \in 1..Len(d.bins) /\ b = BinOf(d, t.hash)
  BY <1>1, StoredIn
<1>3. PICK i \in 1..Len(data) : data[i] = s
  BY StoredIn
<1>4. PICK j \in 1..Len(data) : data[j] = t
  BY <1>2, StoredIn
<1>5. Own(data, Len(d.bins), b)
  BY <1>2, Parts
<1>6. i = j
  BY <1>3, <1>4, <1>5 DEF Own
<1> QED BY <1>3, <1>4, <1>6

(* The bin of a hash.                                                      *)
LEMMA BinOfHash ==
    ASSUME NEW d, d.bins \in Seq([size : Nat, data : Seq(Entry)]), d.bins # << >>, NEW h \in Nat
    PROVE  /\ BinOf(d, h) \in 1..Len(d.bins) /\ Chain(d, h) = d.bins[BinOf(d, h)].data
           /\ Chain(d, h) \in Seq(Entry)
<1> DEFINE T == [size : Nat, data : Seq(Entry)]
           bins == d.bins
           b == BinOf(d, h)
<1>1. bins \in Seq(T) /\ bins # << >>
  OBVIOUS
<1>2. b = 1 + (h % Len(bins)) /\ Chain(d, h) = bins[b].data
  BY DEF BinOf, cap, Chain
<1> HIDE DEF T, bins, b
<1>3. Len(bins) \in Nat /\ Len(bins) > 0
  BY <1>1
<1>4. b \in 1..Len(bins)
  BY <1>2, <1>3
<1>5. bins[b] \in T
  BY <1>1, <1>4
<1>6. bins[b].data \in Seq(Entry)
  BY <1>5 DEF T
<1> QED BY <1>2, <1>4, <1>6 DEF bins, b

-----------------------------------------------------------------------------
(* Searching.                                                              *)

LEMMA OnlyOne == ASSUME NEW i PROVE Min({i}) = i
<1>1. \A x \in {i} : \A y \in {i} : x = i
  OBVIOUS
<1> SUFFICES (CHOOSE x \in {i} : \A y \in {i} : x <= y) = i
  BY DEF Min
<1> QED BY <1>1

(* The search stops at the entry with the key.                             *)
LEMMA StopsAt ==
    ASSUME NEW data, NEW n, NEW b, Own(data, n, b), NEW k, NEW i \in 1..Len(data)
    PROVE  Stops(data[i], k, hash(k)) <=> data[i].key = k
BY DEF Own, Stops

LEMMA SearchChain ==
    ASSUME IndexAssumption, NEW d, Well(d), d.bins # << >>, NEW k \in KeysOrNull,
           NEW i \in 1..Len(Chain(d, hash(k))), Chain(d, hash(k))[i].key = k
    PROVE  Search(d, k, hash(k)) = i
<1> DEFINE b == BinOf(d, hash(k))
           data == Chain(d, hash(k))
<1>1. d.bins \in Seq([size : Nat, data : Seq(Entry)]) /\ hash(k) \in Nat
  BY Constants DEF Well
<1>2. b \in 1..Len(d.bins) /\ data = d.bins[b].data
  BY <1>1, BinOfHash
<1>3. Own(data, Len(d.bins), b)
  BY <1>2, Parts
<1> DEFINE stops == {j \in DOMAIN data : Stops(data[j], k, hash(k))}
<1>4. Search(d, k, hash(k)) = IF stops = {} THEN 0 ELSE Min(stops)
  BY DEF Search
<1>5. DOMAIN data = 1..Len(data)
  BY <1>3 DEF Own
<1>a. i \in 1..Len(data) /\ data[i].key = k
  OBVIOUS
<1> HIDE DEF data, b
<1>6. \A j \in 1..Len(data) : Stops(data[j], k, hash(k)) <=> data[j].key = k
  BY <1>3, StopsAt
<1>7. \A j \in 1..Len(data) : data[j].key = k <=> j = i
  BY <1>3, <1>a DEF Own
<1>8. stops = {i}
  BY <1>5, <1>6, <1>7, <1>a
<1> QED BY <1>4, <1>8, OnlyOne

LEMMA SearchFinds ==
    ASSUME IndexAssumption, NEW d, Well(d), NEW k \in KeysOrNull
    PROVE  /\ Search(d, k, hash(k)) # 0 <=> Holds(d, k)
           /\ Search(d, k, hash(k)) # 0 =>
                 /\ d.bins # << >>
                 /\ Search(d, k, hash(k)) \in 1..Len(Chain(d, hash(k)))
                 /\ Chain(d, hash(k))[Search(d, k, hash(k))].key = k
                 /\ Chain(d, hash(k))[Search(d, k, hash(k))] \in Stored(d)
<1> DEFINE place == Search(d, k, hash(k))
           b == BinOf(d, hash(k))
           data == Chain(d, hash(k))
           stops == {j \in DOMAIN data : Stops(data[j], k, hash(k))}
<1>1. place = IF stops = {} THEN 0 ELSE Min(stops)
  BY DEF Search
<1>2. CASE d.bins = << >>
  <2>1. data = << >> /\ stops = {}
    BY <1>2 DEF Chain
  <2>2. ~Holds(d, k)
    BY <1>2, StoredIn DEF Holds, Well
  <2> QED BY <1>1, <2>1, <2>2
<1>3. CASE d.bins # << >>
  <2>1. d.bins \in Seq([size : Nat, data : Seq(Entry)]) /\ hash(k) \in Nat
    BY Constants DEF Well
  <2>2. b \in 1..Len(d.bins) /\ data = d.bins[b].data
    BY <2>1, <1>3, BinOfHash
  <2>3. Own(data, Len(d.bins), b) /\ Range(data) \subseteq Stored(d)
    BY <2>2, Parts
  <2>4. data \in Seq(Entry) /\ DOMAIN data = 1..Len(data)
    BY <2>3 DEF Own
  <2>5. ASSUME Holds(d, k)
        PROVE  \E i \in 1..Len(data) : data[i].key = k
    <3>1. PICK t \in Stored(d) : t.key = k
      BY <2>5 DEF Holds
    <3>2. t.hash = hash(k)
      BY <3>1, StoredIn
    <3> QED BY <2>2, <3>1, <3>2, StoredIn
  <2>6. ASSUME NEW i \in 1..Len(data), data[i].key = k
        PROVE  place = i /\ i # 0 /\ data[i] \in Stored(d)
    <3>1. place = i
      BY <1>3, <2>6, SearchChain
    <3>2. data[i] \in Range(data)
      BY <2>4, Ranges
    <3> QED BY <3>1, <3>2, <2>3
  <2>7. ASSUME ~\E i \in 1..Len(data) : data[i].key = k
        PROVE  place = 0
    <3> HIDE DEF data
    <3>1. \A j \in 1..Len(data) : Stops(data[j], k, hash(k)) <=> data[j].key = k
      BY <2>3, StopsAt
    <3>2. stops = {}
      BY <2>4, <2>7, <3>1
    <3> QED BY <1>1, <3>2
  <2>8. ASSUME NEW i \in 1..Len(data), data[i].key = k
        PROVE  Holds(d, k)
    BY <2>6, <2>8 DEF Holds
  <2> HIDE DEF place, data
  <2>9. CASE Holds(d, k)
    <3>1. PICK i \in 1..Len(data) : data[i].key = k
      BY <2>5, <2>9
    <3>2. place = i /\ i # 0 /\ data[i] \in Stored(d)
      BY <2>6, <3>1
    <3> QED BY <1>3, <2>9, <3>1, <3>2 DEF place, data
  <2>10. CASE ~Holds(d, k)
    <3>1. place = 0
      BY <2>7, <2>8, <2>10
    <3> QED BY <2>10, <3>1 DEF place, data
  <2> QED BY <2>9, <2>10
<1> QED BY <1>2, <1>3

(* Every entry is the one that a search for its key finds.                 *)
LEMMA AllFound ==
    ASSUME IndexAssumption, NEW d, Well(d), NEW b \in 1..Len(d.bins), NEW i \in 1..Len(d.bins[b].data)
    PROVE  /\ d.bins[b].data[i].hash = hash(d.bins[b].data[i].key)
           /\ BinOf(d, d.bins[b].data[i].hash) = b
           /\ Search(d, d.bins[b].data[i].key, d.bins[b].data[i].hash) = i
<1> DEFINE data == d.bins[b].data
           t == data[i]
<1>1. Own(data, Len(d.bins), b) /\ data \in Seq(Entry)
      /\ d.bins \in Seq([size : Nat, data : Seq(Entry)]) /\ Len(d.bins) > 0
  BY Parts
<1>a. d.bins # << >>
  BY <1>1, EmptySeq
<1>2. t \in Entry /\ t.hash = hash(t.key) /\ 1 + (t.hash % Len(d.bins)) = b
  BY <1>1 DEF Own
<1>3. BinOf(d, t.hash) = b
  BY <1>2 DEF BinOf, cap
<1>4. t.hash \in Nat /\ t.key \in KeysOrNull
  BY <1>2, EntryFields
<1>5. Chain(d, t.hash) = data
  BY <1>1, <1>a, <1>3, <1>4, BinOfHash
<1>6. i \in 1..Len(Chain(d, hash(t.key))) /\ Chain(d, hash(t.key))[i].key = t.key
  BY <1>2, <1>5
<1>7. Search(d, t.key, hash(t.key)) = i
  BY <1>1, <1>a, <1>4, <1>6, SearchChain
<1> QED BY <1>2, <1>3, <1>7

-----------------------------------------------------------------------------
(* Changing one bin.                                                       *)

(* Table e is d with other entries in bin b, and n more or less.           *)
Rebinned(e, d, b, n, data) ==
    /\ e.size = d.size + n /\ e.size \in Nat
    /\ e \in [size : Nat, bins : Seq([size : Nat, data : Seq(Entry)])]
    /\ Len(e.bins) = Len(d.bins)
    /\ \A c \in 1..Len(d.bins) : e.bins[c].data = IF c = b THEN data ELSE d.bins[c].data
    /\ \A c \in 1..Len(d.bins) : e.bins[c].size = Len(e.bins[c].data)

(* The same, of some entries.                                              *)
Rechained(e, d, b, n) ==
    \E data : Rebinned(e, d, b, n, data) /\ Len(data) = Len(d.bins[b].data) + n

LEMMA WithBinParts ==
    ASSUME NEW d, Well(d), NEW b \in 1..Len(d.bins),
           NEW n \in Int, NEW data \in Seq(Entry), Len(data) = Len(d.bins[b].data) + n, d.size + n \in Nat,
           NEW e, e = WithBin(d, b, n, data)
    PROVE  Rebinned(e, d, b, n, data)
<1> DEFINE T == [size : Nat, data : Seq(Entry)]
           bins == d.bins
           new == [size |-> Len(data), data |-> data]
<1>1. bins \in Seq(T) /\ b \in 1..Len(bins) /\ d.bins[b].size = Len(d.bins[b].data)
  BY Parts
<1>2. new \in T
  BY LenProperties
<1>3. bins[b].size + n = Len(data)
  BY <1>1
<1>4. e = [size |-> d.size + n, bins |-> [bins EXCEPT ![b] = new]]
  BY <1>3 DEF WithBin
<1>5. \A c \in 1..Len(bins) : bins[c].size = Len(bins[c].data)
  BY Parts
<1>6. new.size = Len(new.data) /\ new.data = data
  OBVIOUS
<1> HIDE DEF T, bins, new
<1>7. /\ [bins EXCEPT ![b] = new] \in Seq(T)
      /\ Len([bins EXCEPT ![b] = new]) = Len(bins)
      /\ \A c \in 1..Len(bins) : [bins EXCEPT ![b] = new][c] = IF c = b THEN new ELSE bins[c]
  BY <1>1, <1>2, ExceptSeq
<1>8. e \in [size : Nat, bins : Seq(T)] /\ e.bins = [bins EXCEPT ![b] = new] /\ e.size = d.size + n
  BY <1>4, <1>7
<1>9. \A c \in 1..Len(bins) : e.bins[c] = IF c = b THEN new ELSE bins[c]
  BY <1>7, <1>8
<1>10. \A c \in 1..Len(bins) : e.bins[c].data = IF c = b THEN new.data ELSE bins[c].data
  BY <1>9
<1>11. \A c \in 1..Len(bins) : e.bins[c].size = Len(e.bins[c].data)
  BY <1>9, <1>5, <1>6
<1>12. Len(e.bins) = Len(bins)
  BY <1>7, <1>8
<1> HIDE <1>4, <1>7, <1>9
<1> QED BY <1>6, <1>8, <1>10, <1>11, <1>12 DEF T, bins, Rebinned

(* If the entries of a bin are replaced by others of it, then the table holds
   these instead.                                                          *)
LEMMA WithBinStores ==
    ASSUME NEW d, Well(d), NEW b \in 1..Len(d.bins),
           NEW n \in Int, NEW data, Own(data, Len(d.bins), b), Len(data) = Len(d.bins[b].data) + n,
           d.size + n \in Nat, NEW e, e = WithBin(d, b, n, data)
    PROVE  Stored(e) = (Stored(d) \ Range(d.bins[b].data)) \cup Range(data)
<1> DEFINE w == Len(d.bins)
           before == d.bins[b].data
<1>1. d \in [size : Nat, bins : Seq([size : Nat, data : Seq(Entry)])] /\ data \in Seq(Entry)
  BY DEF Well, Own
<1>3. Rebinned(e, d, b, n, data)
  BY <1>1, WithBinParts
<1>2. /\ e \in [size : Nat, bins : Seq([size : Nat, data : Seq(Entry)])]
      /\ Len(e.bins) = w
      /\ \A c \in 1..w : e.bins[c].data = IF c = b THEN data ELSE d.bins[c].data
  BY <1>3 DEF Rebinned
<1>4. ASSUME NEW t PROVE t \in Stored(e) <=> \E c \in 1..w : t \in Range(e.bins[c].data)
  BY <1>2, StoredAt
<1>5. ASSUME NEW t PROVE t \in Stored(d) <=> \E c \in 1..w : t \in Range(d.bins[c].data)
  BY <1>1, StoredAt
<1>6. ASSUME NEW c \in 1..w, NEW t \in Range(d.bins[c].data) PROVE 1 + (t.hash % w) = c
  <2> DEFINE s == d.bins[c].data
  <2>1. Own(s, w, c)
    BY Parts
  <2> HIDE DEF s
  <2>2. s \in Seq(Entry) /\ \A i \in 1..Len(s) : 1 + (s[i].hash % w) = c
    BY <2>1 DEF Own
  <2>3. Range(s) = {s[i] : i \in 1..Len(s)}
    BY <2>2, Ranges
  <2> QED BY <2>2, <2>3 DEF s
<1> HIDE DEF w
<1>7. ASSUME NEW t
      PROVE  t \in Stored(e) <=> t \in (Stored(d) \ Range(before)) \cup Range(data)
  <2>1. t \in Stored(e) <=> t \in Range(data) \/ \E c \in 1..w : c # b /\ t \in Range(d.bins[c].data)
    BY <1>2, <1>4 DEF w
  <2>2. t \in Stored(d) /\ t \notin Range(before) <=> \E c \in 1..w : c # b /\ t \in Range(d.bins[c].data)
    BY <1>5, <1>6 DEF w
  <2> QED BY <2>1, <2>2
<1> QED BY <1>7

(* It is as good as before if its size counts them.                        *)
LEMMA WithBinWell ==
    ASSUME NEW d, Well(d), NEW b \in 1..Len(d.bins),
           NEW n \in Int, NEW data, Own(data, Len(d.bins), b), Len(data) = Len(d.bins[b].data) + n,
           d.size + n \in Nat, NEW e, e = WithBin(d, b, n, data),
           IsFiniteSet(Stored(e)), Cardinality(Stored(e)) = d.size + n
    PROVE  Well(e)
<1> DEFINE w == Len(d.bins)
<1>1. data \in Seq(Entry)
  BY DEF Own
<1>3. Rebinned(e, d, b, n, data)
  BY <1>1, WithBinParts
<1>2. /\ e \in [size : Nat, bins : Seq([size : Nat, data : Seq(Entry)])]
      /\ Len(e.bins) = w /\ e.size = d.size + n
      /\ \A c \in 1..w : e.bins[c].data = IF c = b THEN data ELSE d.bins[c].data
      /\ \A c \in 1..w : e.bins[c].size = Len(e.bins[c].data)
  BY <1>3 DEF Rebinned
<1>4. ASSUME NEW c \in 1..w PROVE Own(e.bins[c].data, w, c)
  <2>1. CASE c = b
    BY <1>2, <2>1
  <2>2. CASE c # b
    BY <1>2, <2>2, Parts
  <2> QED BY <2>1, <2>2
<1> QED BY <1>2, <1>4 DEF Well

-----------------------------------------------------------------------------
(* Changing the entries of a bin.                                          *)

(* Entries that are taken from different places of a bin.                  *)
TakenFrom(f, new, data) ==
    /\ \A i, j \in 1..Len(new) : f[i] = f[j] => i = j
    /\ \A i \in 1..Len(new) : new[i] = data[f[i]]

AllIn(new, m, c) == \A i \in 1..Len(new) : 1 + (new[i].hash % m) = c

LEMMA Taken ==
    ASSUME NEW data, NEW n, NEW b, Own(data, n, b), NEW new \in Seq(Entry),
           NEW f \in [1..Len(new) -> 1..Len(data)], TakenFrom(f, new, data),
           NEW m, NEW c, AllIn(new, m, c)
    PROVE  Own(new, m, c)
<1>1. \A i \in 1..Len(data) : data[i].hash = hash(data[i].key)
  BY DEF Own
<1>2. \A i, j \in 1..Len(data) : data[i].key = data[j].key => i = j
  BY DEF Own
<1>3. \A i \in 1..Len(new) : new[i].hash = hash(new[i].key)
  BY <1>1 DEF TakenFrom
<1>4. ASSUME NEW i \in 1..Len(new), NEW j \in 1..Len(new), new[i].key = new[j].key
      PROVE  i = j
  <2>1. f[i] \in 1..Len(data) /\ f[j] \in 1..Len(data)
    OBVIOUS
  <2>2. data[f[i]].key = data[f[j]].key
    BY <1>4 DEF TakenFrom
  <2> QED BY <1>2, <2>1, <2>2 DEF TakenFrom
<1> QED BY <1>3, <1>4 DEF Own, AllIn

LEMMA Added ==
    ASSUME NEW data, NEW n, NEW b, Own(data, n, b), NEW t \in Entry, t.hash = hash(t.key),
           1 + (t.hash % n) = b, \A i \in 1..Len(data) : data[i].key # t.key,
           NEW new, new \in {<<t>> \o data, Append(data, t)}
    PROVE  Own(new, n, b) /\ Len(new) = Len(data) + 1 /\ Range(new) = Range(data) \cup {t}
<1>1. data \in Seq(Entry) /\ Len(data) \in Nat
  BY DEF Own
<1>2. new \in Seq(Entry) /\ Len(new) = Len(data) + 1
  <2>1. <<t>> \in Seq(Entry) /\ Len(<<t>>) = 1
    OBVIOUS
  <2>2. CASE new = <<t>> \o data
    BY <1>1, <2>1, <2>2, ConcatProperties
  <2>3. CASE new = Append(data, t)
    BY <1>1, <2>3, AppendProperties
  <2> QED BY <2>2, <2>3
<1>3. PICK p \in 1..Len(new) :
         /\ new[p] = t
         /\ \A i \in 1..Len(new) : i < p => i \in 1..Len(data) /\ new[i] = data[i]
         /\ \A i \in 1..Len(new) : i > p => i - 1 \in 1..Len(data) /\ new[i] = data[i - 1]
         /\ p = 1 \/ p = Len(new)
  <2>1. CASE new = <<t>> \o data
    <3>1. new[1] = t /\ \A i \in 1..Len(new) : i > 1 => i - 1 \in 1..Len(data) /\ new[i] = data[i - 1]
      BY <1>1, <1>2, <2>1
    <3> QED BY <1>1, <1>2, <3>1
  <2>2. CASE new = Append(data, t)
    <3>1. new[Len(new)] = t /\ \A i \in 1..Len(new) : i < Len(new) => i \in 1..Len(data) /\ new[i] = data[i]
      BY <1>1, <1>2, <2>2
    <3> QED BY <1>1, <1>2, <3>1
  <2> QED BY <2>1, <2>2
<1>4. \A i \in 1..Len(data) : data[i].hash = hash(data[i].key) /\ 1 + (data[i].hash % n) = b
  BY DEF Own
<1>5. \A i, j \in 1..Len(data) : data[i].key = data[j].key => i = j
  BY DEF Own
<1>6. ASSUME NEW i \in 1..Len(new)
      PROVE  new[i].hash = hash(new[i].key) /\ 1 + (new[i].hash % n) = b
  <2>1. i < p \/ i = p \/ i > p
    BY <1>1, <1>2
  <2> QED BY <1>3, <1>4, <2>1
<1>7. ASSUME NEW i \in 1..Len(new), NEW j \in 1..Len(new), new[i].key = new[j].key
      PROVE  i = j
  <2>1. (i < p \/ i = p \/ i > p) /\ (j < p \/ j = p \/ j > p)
    BY <1>1, <1>2
  <2>2. CASE i = p
    BY <1>3, <1>7, <2>1, <2>2
  <2>3. CASE j = p
    BY <1>3, <1>7, <2>1, <2>3
  <2>4. CASE i # p /\ j # p
    <3>1. CASE p = 1
      <4>1. i > p /\ j > p /\ i - 1 \in 1..Len(data) /\ j - 1 \in 1..Len(data)
            /\ new[i] = data[i - 1] /\ new[j] = data[j - 1]
        BY <1>2, <1>3, <2>4, <3>1
      <4>2. i - 1 = j - 1
        BY <1>5, <1>7, <4>1
      <4> QED BY <4>2
    <3>2. CASE p = Len(new)
      <4>1. i < p /\ j < p /\ i \in 1..Len(data) /\ j \in 1..Len(data)
            /\ new[i] = data[i] /\ new[j] = data[j]
        BY <1>1, <1>2, <1>3, <2>4, <3>2
      <4> QED BY <1>5, <1>7, <4>1
    <3> QED BY <1>3, <3>1, <3>2
  <2> QED BY <2>2, <2>3, <2>4
<1>8. Own(new, n, b)
  BY <1>2, <1>6, <1>7 DEF Own
<1>9. Range(data) = {data[i] : i \in 1..Len(data)} /\ Range(new) = {new[i] : i \in 1..Len(new)}
  BY <1>1, <1>2, Ranges
<1>10. \A i \in 1..Len(new) : new[i] \in {data[j] : j \in 1..Len(data)} \cup {t}
  <2> TAKE i \in 1..Len(new)
  <2>1. i < p \/ i = p \/ i > p
    BY <1>1, <1>2
  <2> QED BY <1>3, <2>1
<1>11. \A j \in 1..Len(data) : data[j] \in {new[i] : i \in 1..Len(new)}
  <2> TAKE j \in 1..Len(data)
  <2>1. CASE p = 1
    <3>1. j + 1 \in 1..Len(new) /\ j + 1 > p /\ (j + 1) - 1 = j
      BY <1>1, <1>2, <2>1
    <3> QED BY <1>3, <3>1
  <2>2. CASE p = Len(new)
    <3>1. j \in 1..Len(new) /\ j < p
      BY <1>1, <1>2, <2>2
    <3> QED BY <1>3, <3>1
  <2> QED BY <1>3, <2>1, <2>2
<1>12. t \in {new[i] : i \in 1..Len(new)}
  BY <1>3
<1> QED BY <1>2, <1>8, <1>9, <1>10, <1>11, <1>12

(* The places that are left when one is taken out, and the places they had. *)
LeavesOut(f, new, data, i) ==
    /\ \A p, q \in 1..Len(new) : f[p] = f[q] => p = q
    /\ \A p \in 1..Len(new) : f[p] # i /\ new[p] = data[f[p]]
    /\ \A q \in 1..Len(data) : q # i => \E p \in 1..Len(new) : f[p] = q

LEMMA DroppedPlaces ==
    ASSUME NEW T, NEW data \in Seq(T), NEW i \in 1..Len(data),
           NEW new, new \in {RemoveAt(data, i), Filled(data, i)}
    PROVE  /\ new \in Seq(T) /\ Len(new) = Len(data) - 1
           /\ \E f \in [1..Len(new) -> 1..Len(data)] : LeavesOut(f, new, data, i)
<1> DEFINE n == Len(data)
<1>1. n \in Nat /\ n > 0
  OBVIOUS
<1>2. CASE new = RemoveAt(data, i)
  <2> DEFINE a == SubSeq(data, 1, i - 1)
             z == SubSeq(data, i + 1, n)
             f == [p \in 1..(n - 1) |-> IF p < i THEN p ELSE p + 1]
  <2>1. a \in Seq(T) /\ Len(a) = i - 1 /\ \A p \in 1..(i - 1) : a[p] = data[p]
    BY <1>1, SubSeqProperties
  <2>2. z \in Seq(T) /\ Len(z) = n - i /\ \A p \in 1..(n - i) : z[p] = data[i + p]
    BY <1>1, SubSeqProperties
  <2>3. new = a \o z
    BY <1>2 DEF RemoveAt
  <2> HIDE DEF a, z
  <2>4. new \in Seq(T) /\ Len(new) = n - 1
        /\ \A p \in 1..(n - 1) : new[p] = IF p <= Len(a) THEN a[p] ELSE z[p - Len(a)]
    BY <1>1, <2>1, <2>2, <2>3, ConcatProperties
  <2>5. ASSUME NEW p \in 1..(n - 1)
        PROVE  f[p] \in 1..n /\ f[p] # i /\ new[p] = data[f[p]]
    <3>1. CASE p < i
      BY <1>1, <2>1, <2>4, <3>1
    <3>2. CASE p >= i
      <4>1. p - Len(a) \in 1..(n - i) /\ i + (p - Len(a)) = p + 1
        BY <1>1, <2>1, <3>2
      <4>2. new[p] = z[p - Len(a)]
        BY <1>1, <2>1, <2>4, <3>2
      <4>3. z[p - Len(a)] = data[i + (p - Len(a))]
        BY <2>2, <4>1
      <4> QED BY <1>1, <3>2, <4>1, <4>2, <4>3
    <3> QED BY <1>1, <3>1, <3>2
  <2>6. \A p, q \in 1..(n - 1) : f[p] = f[q] => p = q
    BY <1>1
  <2>7. ASSUME NEW q \in 1..n, q # i
        PROVE  \E p \in 1..(n - 1) : f[p] = q
    <3>1. CASE q < i
      <4>1. q \in 1..(n - 1) /\ f[q] = q
        BY <1>1, <3>1
      <4> QED BY <4>1
    <3>2. CASE q > i
      <4>1. q - 1 \in 1..(n - 1) /\ (q - 1) + 1 = q /\ ~(q - 1 < i)
        BY <1>1, <3>2
      <4> QED BY <4>1
    <3> QED BY <1>1, <2>7, <3>1, <3>2
  <2>8. f \in [1..(n - 1) -> 1..n]
    BY <2>5
  <2>9. n - 1 = Len(new)
    BY <2>4
  <2> HIDE DEF f
  <2>10. LeavesOut(f, new, data, i)
    BY <2>5, <2>6, <2>7, <2>9 DEF LeavesOut
  <2> QED BY <2>4, <2>8, <2>9, <2>10
<1>3. CASE new = Filled(data, i)
  <2> DEFINE g == [data EXCEPT ![i] = data[n]]
             f == [p \in 1..(n - 1) |-> IF p = i THEN n ELSE p]
  <2>1. g \in Seq(T) /\ Len(g) = n /\ \A p \in 1..n : g[p] = IF p = i THEN data[n] ELSE data[p]
    BY <1>1, ExceptSeq
  <2>2. new = SubSeq(g, 1, Len(g) - 1)
    BY <1>3 DEF Filled, Front, Last
  <2> HIDE DEF g
  <2>3. new \in Seq(T) /\ Len(new) = n - 1 /\ \A p \in 1..(n - 1) : new[p] = g[p]
    <3>1. new = SubSeq(g, 1, n - 1)
      BY <2>1, <2>2
    <3>2. \A p \in 1..(n - 1) : g[p] \in T
      BY <1>1, <2>1
    <3>a. n - 1 \in Int
      BY <1>1
    <3> HIDE DEF n
    <3>3. new \in Seq(T) /\ Len(new) = (IF 1 <= n - 1 THEN (n - 1) - 1 + 1 ELSE 0)
          /\ \A p \in 1..((n - 1) - 1 + 1) : new[p] = g[1 + p - 1]
      BY <3>a, <3>1, <3>2, SubSeqProperties
    <3>4. (n - 1) - 1 + 1 = n - 1 /\ \A p \in 1..(n - 1) : 1 + p - 1 = p
      BY <1>1
    <3>5. Len(new) = n - 1
      BY <1>1, <3>3
    <3> QED BY <3>3, <3>4, <3>5
  <2>5. ASSUME NEW p \in 1..(n - 1)
        PROVE  f[p] \in 1..n /\ f[p] # i /\ new[p] = data[f[p]]
    BY <1>1, <2>1, <2>3
  <2>6. \A p, q \in 1..(n - 1) : f[p] = f[q] => p = q
    BY <1>1
  <2>7. ASSUME NEW q \in 1..n, q # i
        PROVE  \E p \in 1..(n - 1) : f[p] = q
    <3>1. CASE q < n
      <4>1. q \in 1..(n - 1) /\ f[q] = q
        BY <1>1, <2>7, <3>1
      <4> QED BY <4>1
    <3>2. CASE q = n
      <4>1. i \in 1..(n - 1)
        BY <1>1, <2>7, <3>2
      <4> QED BY <3>2, <4>1
    <3> QED BY <1>1, <2>7, <3>1, <3>2
  <2>8. f \in [1..(n - 1) -> 1..n]
    BY <2>5
  <2>9. n - 1 = Len(new)
    BY <2>3
  <2> HIDE DEF f
  <2>10. LeavesOut(f, new, data, i)
    BY <2>5, <2>6, <2>7, <2>9 DEF LeavesOut
  <2> QED BY <2>3, <2>8, <2>9, <2>10
<1> QED BY <1>2, <1>3

LEMMA Dropped ==
    ASSUME NEW data, NEW n, NEW b, Own(data, n, b), NEW i \in 1..Len(data),
           NEW new, new \in {RemoveAt(data, i), Filled(data, i)}
    PROVE  Own(new, n, b) /\ Len(new) = Len(data) - 1 /\ Range(new) = Range(data) \ {data[i]}
<1>1. data \in Seq(Entry)
  BY DEF Own
<1>2. new \in Seq(Entry) /\ Len(new) = Len(data) - 1
  BY <1>1, DroppedPlaces
<1>3. PICK f \in [1..Len(new) -> 1..Len(data)] : LeavesOut(f, new, data, i)
  BY <1>1, DroppedPlaces
<1>4. /\ \A p, q \in 1..Len(new) : f[p] = f[q] => p = q
      /\ \A p \in 1..Len(new) : f[p] # i /\ new[p] = data[f[p]]
      /\ \A q \in 1..Len(data) : q # i => \E p \in 1..Len(new) : f[p] = q
  BY <1>3 DEF LeavesOut
<1>5. \A q \in 1..Len(data) : 1 + (data[q].hash % n) = b
  BY DEF Own
<1>6. \A q, r \in 1..Len(data) : data[q].key = data[r].key => q = r
  BY DEF Own
<1>7. \A p \in 1..Len(new) : f[p] \in 1..Len(data)
  OBVIOUS
<1>8. AllIn(new, n, b)
  BY <1>4, <1>5, <1>7 DEF AllIn
<1>a. TakenFrom(f, new, data)
  BY <1>4 DEF TakenFrom
<1>9. Own(new, n, b)
  BY <1>2, <1>a, <1>8, Taken
<1>10. Range(data) = {data[q] : q \in 1..Len(data)} /\ Range(new) = {new[p] : p \in 1..Len(new)}
  BY <1>1, <1>2, Ranges
<1>11. ASSUME NEW p \in 1..Len(new) PROVE new[p] \in {data[q] : q \in 1..Len(data)} \ {data[i]}
  <2>1. f[p] \in 1..Len(data) /\ f[p] # i /\ new[p] = data[f[p]]
    BY <1>4
  <2>2. data[f[p]] # data[i]
    BY <1>6, <2>1
  <2> QED BY <2>1, <2>2
<1>12. ASSUME NEW q \in 1..Len(data), data[q] # data[i] PROVE data[q] \in {new[p] : p \in 1..Len(new)}
  <2>1. PICK p \in 1..Len(new) : f[p] = q
    BY <1>4, <1>12
  <2> QED BY <1>4, <2>1
<1>13. Range(new) = Range(data) \ {data[i]}
  BY <1>10, <1>11, <1>12
<1> QED BY <1>2, <1>9, <1>13

With(data, i, t) == [data EXCEPT ![i] = t]

LEMMA Replaced ==
    ASSUME NEW data, NEW n, NEW b, Own(data, n, b), NEW i \in 1..Len(data),
           NEW t \in Entry, t.key = data[i].key, t.hash = data[i].hash,
           NEW new, new = With(data, i, t)
    PROVE  Own(new, n, b) /\ Len(new) = Len(data) /\ Range(new) = (Range(data) \ {data[i]}) \cup {t}
<1>1. data \in Seq(Entry)
  BY DEF Own
<1>2. new \in Seq(Entry) /\ Len(new) = Len(data)
      /\ \A j \in 1..Len(data) : new[j] = IF j = i THEN t ELSE data[j]
  BY <1>1, ExceptSeq DEF With
<1>3. \A q \in 1..Len(data) : data[q].hash = hash(data[q].key) /\ 1 + (data[q].hash % n) = b
  BY DEF Own
<1>4. \A q, r \in 1..Len(data) : data[q].key = data[r].key => q = r
  BY DEF Own
<1>5. \A q \in 1..Len(new) : new[q].hash = data[q].hash /\ new[q].key = data[q].key
  BY <1>2
<1>a. ASSUME NEW q \in 1..Len(new) PROVE new[q].hash = hash(new[q].key) /\ 1 + (new[q].hash % n) = b
  BY <1>2, <1>3, <1>5
<1>b. ASSUME NEW q \in 1..Len(new), NEW r \in 1..Len(new), new[q].key = new[r].key PROVE q = r
  BY <1>2, <1>4, <1>5, <1>b
<1>6. Own(new, n, b)
  BY <1>2, <1>a, <1>b DEF Own
<1>7. Range(data) = {data[q] : q \in 1..Len(data)} /\ Range(new) = {new[p] : p \in 1..Len(new)}
  BY <1>1, <1>2, Ranges
<1>8. \A q \in 1..Len(data) : data[q] = data[i] => q = i
  BY <1>4
<1>c. ASSUME NEW q \in 1..Len(new) PROVE new[q] \in (Range(data) \ {data[i]}) \cup {t}
  BY <1>2, <1>7, <1>8
<1>d. ASSUME NEW q \in 1..Len(data), data[q] # data[i] PROVE data[q] \in Range(new)
  <2>1. q \in 1..Len(new) /\ new[q] = data[q]
    BY <1>2, <1>d
  <2> QED BY <1>7, <2>1
<1>e. t \in Range(new)
  BY <1>2, <1>7
<1>9. Range(new) = (Range(data) \ {data[i]}) \cup {t}
  BY <1>7, <1>c, <1>d, <1>e
<1> QED BY <1>2, <1>6, <1>9

-----------------------------------------------------------------------------
(* Changing a table.                                                       *)

(* The table has one entry more.                                           *)
LEMMA TableAdds ==
    ASSUME NEW d, Well(d), d.bins # << >>, NEW t \in Entry, t.hash = hash(t.key), ~Holds(d, t.key),
           NEW e, e \in {Link(d, t), Appended(d, t)}
    PROVE  /\ Well(e) /\ Stored(e) = Stored(d) \cup {t} /\ Len(e.bins) = Len(d.bins)
           /\ Rechained(e, d, BinOf(d, t.hash), 1)
<1> DEFINE b == BinOf(d, t.hash)
           data == d.bins[b].data
           w == Len(d.bins)
<1>1. t.hash \in Nat /\ d.bins \in Seq([size : Nat, data : Seq(Entry)])
  BY EntryFields DEF Well
<1>2. b \in 1..w /\ 1 + (t.hash % w) = b
  BY <1>1, BinOfHash DEF BinOf, cap
<1>3. data \in Seq(Entry) /\ Own(data, w, b) /\ Range(data) \subseteq Stored(d) /\ d.size \in Nat
  BY <1>2, Parts
<1>4. \A i \in 1..Len(data) : data[i].key # t.key
  BY <1>3, Ranges DEF Holds
<1>a. Link(d, t) = WithBin(d, b, 1, <<t>> \o data) /\ Appended(d, t) = WithBin(d, b, 1, Append(data, t))
  BY DEF Link, Appended
<1>5. PICK new \in {<<t>> \o data, Append(data, t)} : e = WithBin(d, b, 1, new)
  BY <1>a
<1> HIDE DEF data, b
<1>6. Own(new, w, b) /\ Len(new) = Len(data) + 1 /\ Range(new) = Range(data) \cup {t}
  BY <1>2, <1>3, <1>4, Added, SMTT(20), ZenonT(20)
<1>7. Stored(e) = (Stored(d) \ Range(data)) \cup Range(new)
  <2> DEFINE more == 1
  <2>1. /\ more \in Int /\ d.size + more \in Nat /\ e = WithBin(d, b, more, new)
        /\ Len(new) = Len(d.bins[b].data) + more /\ Own(new, Len(d.bins), b) /\ b \in 1..Len(d.bins)
    BY <1>2, <1>3, <1>5, <1>6 DEF data
  <2> HIDE DEF more
  <2>2. Stored(e) = (Stored(d) \ Range(d.bins[b].data)) \cup Range(new)
    BY <2>1, WithBinStores
  <2> QED BY <2>2 DEF data
<1>8. Stored(e) = Stored(d) \cup {t}
  BY <1>3, <1>6, <1>7
<1>9. t \notin Stored(d)
  BY DEF Holds
<1>10. IsFiniteSet(Stored(d)) /\ d.size = Cardinality(Stored(d))
  BY DEF Well
<1>11. IsFiniteSet(Stored(e)) /\ Cardinality(Stored(e)) = d.size + 1
  BY <1>8, <1>9, <1>10, FS_AddElement
<1>12. Well(e)
  <2> DEFINE more == 1
  <2>1. /\ more \in Int /\ d.size + more \in Nat /\ e = WithBin(d, b, more, new)
        /\ Len(new) = Len(d.bins[b].data) + more /\ Own(new, Len(d.bins), b) /\ b \in 1..Len(d.bins)
        /\ IsFiniteSet(Stored(e)) /\ Cardinality(Stored(e)) = d.size + more
    BY <1>2, <1>3, <1>5, <1>6, <1>11 DEF data
  <2> HIDE DEF more
  <2> QED BY <2>1, WithBinWell
<1>13. new \in Seq(Entry)
  BY <1>6 DEF Own
<1>14. Rebinned(e, d, b, 1, new)
  BY <1>2, <1>3, <1>5, <1>6, <1>13, WithBinParts DEF data
<1>15. Rechained(e, d, b, 1)
  BY <1>6, <1>14 DEF Rechained, data
<1> QED BY <1>8, <1>12, <1>14, <1>15 DEF Rebinned, b

(* The place where a search has stopped.                                   *)
Place(d, k) == Search(d, k, hash(k))

LEMMA PlaceOf ==
    ASSUME IndexAssumption, NEW d, Well(d), NEW k \in KeysOrNull, Holds(d, k)
    PROVE  /\ BinOf(d, hash(k)) \in 1..Len(d.bins)
           /\ Chain(d, hash(k)) = d.bins[BinOf(d, hash(k))].data
           /\ Place(d, k) \in 1..Len(Chain(d, hash(k)))
           /\ Chain(d, hash(k))[Place(d, k)] \in Stored(d)
           /\ Chain(d, hash(k))[Place(d, k)].key = k
           /\ Chain(d, hash(k))[Place(d, k)].hash = hash(k)
           /\ d.size \in Nat /\ d.size > 0
<1> DEFINE t == Chain(d, hash(k))[Place(d, k)]
<1>1. d.bins # << >> /\ Place(d, k) \in 1..Len(Chain(d, hash(k))) /\ t.key = k /\ t \in Stored(d)
  BY SearchFinds DEF Place
<1>2. d.bins \in Seq([size : Nat, data : Seq(Entry)]) /\ hash(k) \in Nat
  BY Constants DEF Well
<1>3. BinOf(d, hash(k)) \in 1..Len(d.bins) /\ Chain(d, hash(k)) = d.bins[BinOf(d, hash(k))].data
  BY <1>1, <1>2, BinOfHash
<1>4. t.hash = hash(k)
  BY <1>1, StoredIn
<1>5. IsFiniteSet(Stored(d)) /\ d.size = Cardinality(Stored(d)) /\ d.size \in Nat
  BY DEF Well
<1>6. d.size # 0
  BY <1>1, <1>5, FS_EmptySet
<1> QED BY <1>1, <1>3, <1>4, <1>5, <1>6

(* The table has one entry less.                                           *)
LEMMA TableDrops ==
    ASSUME IndexAssumption, NEW d, Well(d), NEW k \in KeysOrNull, Holds(d, k),
           NEW e, e \in {Unlink(d, hash(k), Place(d, k)), remove_entry(d, hash(k), Place(d, k))}
    PROVE  /\ Well(e) /\ Len(e.bins) = Len(d.bins)
           /\ Stored(e) = Stored(d) \ {Chain(d, hash(k))[Place(d, k)]}
           /\ Rechained(e, d, BinOf(d, hash(k)), -1)
<1> DEFINE b == BinOf(d, hash(k))
           data == d.bins[b].data
           i == Place(d, k)
           w == Len(d.bins)
<1>1. b \in 1..w /\ Chain(d, hash(k)) = data /\ i \in 1..Len(data) /\ data[i] \in Stored(d)
      /\ d.size \in Nat /\ d.size > 0
  BY PlaceOf
<1>2. data \in Seq(Entry) /\ Own(data, w, b) /\ Range(data) \subseteq Stored(d)
  BY <1>1, Parts
<1>3. PICK new \in {RemoveAt(data, i), Filled(data, i)} : e = WithBin(d, b, -1, new)
  BY DEF Unlink, remove_entry
<1> HIDE DEF data, b, i
<1>4. Own(new, w, b) /\ Len(new) = Len(data) - 1 /\ Range(new) = Range(data) \ {data[i]}
  BY <1>1, <1>2, Dropped
<1>5. -1 \in Int /\ Len(new) = Len(data) + (-1) /\ d.size + (-1) \in Nat
  BY <1>1, <1>2, <1>4
<1>6. Stored(e) = (Stored(d) \ Range(data)) \cup Range(new)
  <2> DEFINE less == -1
  <2>1. /\ less \in Int /\ d.size + less \in Nat /\ e = WithBin(d, b, less, new)
        /\ Len(new) = Len(d.bins[b].data) + less /\ Own(new, Len(d.bins), b) /\ b \in 1..Len(d.bins)
    BY <1>1, <1>3, <1>4, <1>5 DEF data
  <2> HIDE DEF less
  <2>2. Stored(e) = (Stored(d) \ Range(d.bins[b].data)) \cup Range(new)
    BY <2>1, WithBinStores
  <2> QED BY <2>2 DEF data
<1>7. data[i] \in Range(data)
  BY <1>1, <1>2, Ranges
<1>8. Stored(e) = Stored(d) \ {data[i]}
  BY <1>2, <1>4, <1>6, <1>7
<1>10. IsFiniteSet(Stored(d)) /\ d.size = Cardinality(Stored(d))
  BY DEF Well
<1>11. IsFiniteSet(Stored(e)) /\ Cardinality(Stored(e)) = d.size + (-1)
  BY <1>1, <1>8, <1>10, FS_RemoveElement
<1>12. Well(e)
  <2> DEFINE less == -1
  <2>1. /\ less \in Int /\ d.size + less \in Nat /\ e = WithBin(d, b, less, new)
        /\ Len(new) = Len(d.bins[b].data) + less /\ Own(new, Len(d.bins), b) /\ b \in 1..Len(d.bins)
        /\ IsFiniteSet(Stored(e)) /\ Cardinality(Stored(e)) = d.size + less
    BY <1>1, <1>3, <1>4, <1>5, <1>11 DEF data
  <2> HIDE DEF less
  <2> QED BY <2>1, WithBinWell
<1>13. new \in Seq(Entry)
  BY <1>4 DEF Own
<1>14. Rebinned(e, d, b, -1, new)
  BY <1>1, <1>3, <1>5, <1>13, WithBinParts DEF data
<1>15. Rechained(e, d, b, -1)
  BY <1>5, <1>14 DEF Rechained, data
<1> QED BY <1>1, <1>8, <1>12, <1>14, <1>15 DEF Rebinned, i, b

(* An entry of the table has another value.                                *)
Valued(t, v) == [hash |-> t.hash, key |-> t.key, value |-> v]

LEMMA TableStores ==
    ASSUME IndexAssumption, NEW d, Well(d), NEW k \in KeysOrNull, Holds(d, k), NEW v \in Values,
           NEW e, e = Store(d, hash(k), Place(d, k), v)
    PROVE  /\ Well(e) /\ Len(e.bins) = Len(d.bins)
           /\ Stored(e) = (Stored(d) \ {Chain(d, hash(k))[Place(d, k)]})
                             \cup {Valued(Chain(d, hash(k))[Place(d, k)], v)}
           /\ Rechained(e, d, BinOf(d, hash(k)), 0)
<1> DEFINE b == BinOf(d, hash(k))
           data == d.bins[b].data
           i == Place(d, k)
           w == Len(d.bins)
           t == Valued(data[i], v)
           new == [data EXCEPT ![i] = t]
<1>1. b \in 1..w /\ Chain(d, hash(k)) = data /\ i \in 1..Len(data) /\ data[i] \in Stored(d)
      /\ d.size \in Nat /\ d.size > 0 /\ data[i].key = k
  BY PlaceOf
<1>2. data \in Seq(Entry) /\ Own(data, w, b) /\ Range(data) \subseteq Stored(d)
  BY <1>1, Parts
<1>3. e = WithBin(d, b, 0, new)
  BY DEF Store, Valued
<1>a. data[i] \in Entry
  BY <1>1, <1>2
<1> HIDE DEF data, b, i
<1>b. t \in Entry /\ t.key = data[i].key /\ t.hash = data[i].hash
  BY <1>a DEF Valued, Entry
<1> HIDE DEF t
<1>c. new = With(data, i, t)
  BY DEF With
<1> HIDE DEF new
<1>4. Own(new, w, b) /\ Len(new) = Len(data) /\ Range(new) = (Range(data) \ {data[i]}) \cup {t}
  BY <1>1, <1>2, <1>b, <1>c, Replaced
<1>5. 0 \in Int /\ Len(new) = Len(data) + 0 /\ d.size + 0 \in Nat
  BY <1>1, <1>2, <1>4
<1>6. Stored(e) = (Stored(d) \ Range(data)) \cup Range(new)
  BY <1>1, <1>3, <1>4, <1>5, WithBinStores DEF data
<1>7. data[i] \in Range(data)
  BY <1>1, <1>2, Ranges
<1>8. t \in Stored(d) => t = data[i]
  BY <1>1, <1>b, OneForEachKey
<1>9. Stored(e) = (Stored(d) \ {data[i]}) \cup {t}
  BY <1>2, <1>4, <1>6, <1>7
<1>10. IsFiniteSet(Stored(d)) /\ d.size = Cardinality(Stored(d))
  BY DEF Well
<1>11. IsFiniteSet(Stored(e)) /\ Cardinality(Stored(e)) = d.size + 0
  <2> DEFINE rest == Stored(d) \ {data[i]}
  <2>1. IsFiniteSet(rest) /\ Cardinality(rest) = d.size - 1
    BY <1>1, <1>10, FS_RemoveElement
  <2>2. t \notin rest
    BY <1>8
  <2> HIDE DEF rest
  <2>3. IsFiniteSet(rest \cup {t}) /\ Cardinality(rest \cup {t}) = Cardinality(rest) + 1
    BY <2>1, <2>2, FS_AddElement
  <2> QED BY <1>1, <1>9, <2>1, <2>3 DEF rest
<1>12. Well(e)
  BY <1>1, <1>3, <1>4, <1>5, <1>11, WithBinWell DEF data
<1>13. new \in Seq(Entry)
  BY <1>4 DEF Own
<1>14. Rebinned(e, d, b, 0, new)
  BY <1>1, <1>3, <1>5, <1>13, WithBinParts DEF data
<1>15. Rechained(e, d, b, 0)
  BY <1>5, <1>14 DEF Rechained, data
<1> QED BY <1>1, <1>9, <1>12, <1>14, <1>15 DEF Rebinned, i, t, b

-----------------------------------------------------------------------------
(* Splitting a chain.                                                      *)

ChosenStep(chain, bit, b, i, x) ==
    IF (chain[i].hash \div bit) % 2 = b THEN Append(x, chain[i]) ELSE x

(* f has the chosen entries among the first i, for each i.                 *)
ChosenUp(f, chain, bit, b) ==
    /\ f \in [0..Len(chain) -> Seq(Entry)] /\ f[0] = << >>
    /\ \A i \in 1..Len(chain) : f[i] = ChosenStep(chain, bit, b, i, f[i - 1])

LEMMA ChosenByPlace ==
    ASSUME NEW chain \in Seq(Entry), NEW bit, NEW b
    PROVE  \E f : ChosenUp(f, chain, bit, b) /\ Chosen(chain, bit, b) = f[Len(chain)]
<1> DEFINE T == Seq(Entry)
           n == Len(chain)
           step == [p \in (1..n) \X T |-> ChosenStep(chain, bit, b, p[1], p[2])]
           Rule(g) == [i \in 0..n |-> IF i = 0 THEN << >> ELSE ChosenStep(chain, bit, b, i, g[i - 1])]
           g == CHOOSE h : h = Rule(h)
<1>1. n \in Nat /\ << >> \in T /\ \A i \in 1..n : chain[i] \in Entry
  BY EmptySeq, ElementOfSeq
<1>2. \A i \in 1..n, x \in T : ChosenStep(chain, bit, b, i, x) \in T
  BY <1>1, AppendProperties DEF ChosenStep
<1>3. step \in [(1..n) \X T -> T]
  BY <1>2
<1>4. \A i \in 1..n, x \in T : step[<<i, x>>] = ChosenStep(chain, bit, b, i, x)
  OBVIOUS
<1> HIDE DEF step, n, T
<1>5. PICK f \in [0..n -> T] : f[0] = << >> /\ \A i \in 1..n : f[i] = step[<<i, f[i - 1]>>]
  <2> DEFINE base == << >>
  <2>1. base \in T /\ n \in Nat
    BY <1>1
  <2> HIDE DEF base
  <2>2. \E f \in [0..n -> T] : Follows(f, n, base, step)
    BY <1>3, <2>1, RecursiveFunction, Zenon
  <2> QED BY <2>2 DEF base, Follows
<1>6. ASSUME NEW i \in 1..n PROVE f[i] = ChosenStep(chain, bit, b, i, f[i - 1])
  <2>1. f[i - 1] \in T
    BY <1>1
  <2> QED BY <1>4, <1>5, <2>1
<1>7. f = Rule(f)
  <2>1. ASSUME NEW i \in 0..n PROVE f[i] = IF i = 0 THEN << >> ELSE ChosenStep(chain, bit, b, i, f[i - 1])
    <3>1. CASE i = 0
      BY <1>5, <3>1
    <3>2. CASE i # 0
      <4>1. i \in 1..n
        BY <1>1, <3>2
      <4> QED BY <1>6, <3>2, <4>1
    <3> QED BY <3>1, <3>2
  <2> QED BY <2>1
<1>8. g = Rule(g)
  BY <1>7
<1> HIDE DEF g
<1>9. g[0] = << >> /\ \A i \in 1..n : g[i] = ChosenStep(chain, bit, b, i, g[i - 1])
  BY <1>1, <1>8
<1>10. \A i \in 0..n : g[i] = f[i]
  <2> DEFINE S == {i \in 0..n : g[i] = f[i]}
  <2>1. 0 \in S
    BY <1>1, <1>5, <1>9
  <2>2. ASSUME NEW i \in 0..(n - 1), i \in S PROVE i + 1 \in S
    <3>1. i + 1 \in 1..n /\ (i + 1) - 1 = i /\ i + 1 \in 0..n
      BY <1>1
    <3>2. f[i + 1] = ChosenStep(chain, bit, b, i + 1, f[(i + 1) - 1]) /\ g[i + 1] = ChosenStep(chain, bit, b, i + 1, g[(i + 1) - 1])
      BY <1>6, <1>9, <3>1
    <3>3. g[(i + 1) - 1] = f[(i + 1) - 1]
      BY <2>2, <3>1
    <3>4. g[i + 1] = f[i + 1]
      BY <3>2, <3>3
    <3> QED BY <3>1, <3>4
  <2> HIDE DEF S
  <2>3. 0..n \subseteq S
    BY <1>1, <2>1, <2>2, InductionUpTo
  <2> QED BY <2>3 DEF S
<1>11. Chosen(chain, bit, b) = g[n]
  BY DEF Chosen, ChosenStep, g, n
<1>12. Chosen(chain, bit, b) = f[n]
  BY <1>1, <1>10, <1>11
<1>13. ChosenUp(f, chain, bit, b)
  BY <1>5, <1>6 DEF ChosenUp, n, T
<1> QED BY <1>12, <1>13 DEF n

Bit(t, bit) == (t.hash \div bit) % 2

(* new has the entries of the first i places of the chain that have the bit b,
   and f is where they have been.                                          *)
Chooses(f, new, chain, i, bit, b) ==
    /\ TakenFrom(f, new, chain)
    /\ \A p \in 1..Len(new) : Bit(chain[f[p]], bit) = b
    /\ \A q \in 1..i : Bit(chain[q], bit) = b => \E p \in 1..Len(new) : f[p] = q

LEMMA ChoosesNext ==
    ASSUME NEW chain \in Seq(Entry), NEW bit, NEW b, NEW i \in 0..(Len(chain) - 1),
           NEW s \in Seq(Entry), NEW f \in [1..Len(s) -> 1..i], Chooses(f, s, chain, i, bit, b),
           NEW t, t = ChosenStep(chain, bit, b, i + 1, s)
    PROVE  t \in Seq(Entry) /\ \E g \in [1..Len(t) -> 1..(i + 1)] : Chooses(g, t, chain, i + 1, bit, b)
<1>1. i + 1 \in 1..Len(chain) /\ chain[i + 1] \in Entry /\ i \in Nat
  OBVIOUS
<1>2. /\ \A p, q \in 1..Len(s) : f[p] = f[q] => p = q
      /\ \A p \in 1..Len(s) : s[p] = chain[f[p]] /\ f[p] \in 1..i
      /\ \A p \in 1..Len(s) : Bit(chain[f[p]], bit) = b
      /\ \A q \in 1..i : Bit(chain[q], bit) = b => \E p \in 1..Len(s) : f[p] = q
  BY DEF Chooses, TakenFrom
<1>3. CASE Bit(chain[i + 1], bit) # b
  <2>1. t = s
    BY <1>3 DEF ChosenStep, Bit
  <2>2. f \in [1..Len(s) -> 1..(i + 1)]
    BY <1>1, <1>2
  <2>3. \A q \in 1..(i + 1) : Bit(chain[q], bit) = b => \E p \in 1..Len(s) : f[p] = q
    BY <1>1, <1>2, <1>3
  <2>4. Chooses(f, s, chain, i + 1, bit, b)
    BY <1>2, <2>3 DEF Chooses, TakenFrom
  <2> QED BY <2>1, <2>2, <2>4
<1>4. CASE Bit(chain[i + 1], bit) = b
  <2> DEFINE m == Len(s)
             g == [p \in 1..(m + 1) |-> IF p <= m THEN f[p] ELSE i + 1]
  <2>1. t = Append(s, chain[i + 1])
    BY <1>4 DEF ChosenStep, Bit
  <2>2. m \in Nat /\ t \in Seq(Entry) /\ Len(t) = m + 1 /\ t[m + 1] = chain[i + 1]
        /\ \A p \in 1..m : t[p] = s[p]
    <3> DEFINE x == chain[i + 1]
    <3>1. t = Append(s, x) /\ x \in Entry /\ s \in Seq(Entry)
      BY <1>1, <2>1
    <3> HIDE DEF x
    <3>2. Append(s, x) \in Seq(Entry) /\ Len(Append(s, x)) = Len(s) + 1 /\ Append(s, x)[Len(s) + 1] = x
          /\ \A p \in 1..Len(s) : Append(s, x)[p] = s[p]
      BY <3>1, AppendProperties
    <3> QED BY <3>1, <3>2, LenProperties DEF x
  <2>3. \A p \in 1..(m + 1) : p \in 1..m \/ p = m + 1
    BY <2>2
  <2>4. g \in [1..(m + 1) -> 1..(i + 1)] /\ g[m + 1] = i + 1 /\ \A p \in 1..m : g[p] = f[p] /\ f[p] \in 1..i
    BY <1>1, <1>2, <2>2
  <2> HIDE DEF m, g
  <2>5. \A p, q \in 1..(m + 1) : g[p] = g[q] => p = q
    <3> SUFFICES ASSUME NEW p \in 1..(m + 1), NEW q \in 1..(m + 1), g[p] = g[q] PROVE p = q
      OBVIOUS
    <3>1. \A r \in 1..m : f[r] # i + 1
      BY <1>1, <2>4
    <3>2. CASE p = m + 1 /\ q \in 1..m
      BY <2>4, <3>1, <3>2
    <3>3. CASE q = m + 1 /\ p \in 1..m
      BY <2>4, <3>1, <3>3
    <3>4. CASE p \in 1..m /\ q \in 1..m
      BY <1>2, <2>4, <3>4 DEF m
    <3> QED BY <2>3, <3>2, <3>3, <3>4
  <2>6. \A p \in 1..(m + 1) : t[p] = chain[g[p]] /\ Bit(chain[g[p]], bit) = b
    BY <1>2, <1>4, <2>2, <2>3, <2>4 DEF m
  <2>7. ASSUME NEW q \in 1..(i + 1), Bit(chain[q], bit) = b
        PROVE  \E p \in 1..(m + 1) : g[p] = q
    <3>1. CASE q = i + 1
      <4>1. m + 1 \in 1..(m + 1)
        BY <2>2
      <4> QED BY <2>4, <3>1, <4>1
    <3>2. CASE q # i + 1
      <4>1. q \in 1..i
        BY <1>1, <3>2
      <4>2. PICK p \in 1..m : f[p] = q
        BY <1>2, <2>7, <4>1 DEF m
      <4>3. p \in 1..(m + 1)
        BY <2>2
      <4> QED BY <2>4, <4>2, <4>3
    <3> QED BY <3>1, <3>2
  <2>8. Chooses(g, t, chain, i + 1, bit, b)
    BY <2>2, <2>5, <2>6, <2>7 DEF Chooses, TakenFrom
  <2> QED BY <2>2, <2>4, <2>8
<1> QED BY <1>3, <1>4

LEMMA ChosenPlaces ==
    ASSUME NEW chain \in Seq(Entry), NEW bit, NEW b
    PROVE  /\ Chosen(chain, bit, b) \in Seq(Entry)
           /\ \E f \in [1..Len(Chosen(chain, bit, b)) -> 1..Len(chain)] :
                 Chooses(f, Chosen(chain, bit, b), chain, Len(chain), bit, b)
<1> DEFINE n == Len(chain)
<1>1. PICK u : ChosenUp(u, chain, bit, b) /\ Chosen(chain, bit, b) = u[n]
  BY ChosenByPlace
<1>2. n \in Nat
  OBVIOUS
<1>3. u[0] = << >> /\ \A i \in 0..n : u[i] \in Seq(Entry)
  BY <1>1 DEF ChosenUp
<1> DEFINE S == {i \in 0..n : \E f \in [1..Len(u[i]) -> 1..i] : Chooses(f, u[i], chain, i, bit, b)}
<1>4. 0 \in S
  <2> DEFINE f == [p \in 1..0 |-> 0]
  <2>1. f \in [1..Len(u[0]) -> 1..0] /\ Len(u[0]) = 0 /\ 1..0 = {}
    BY <1>3
  <2> HIDE DEF f
  <2>2. \A p \in 1..Len(u[0]) : FALSE
    BY <2>1
  <2>3. Chooses(f, u[0], chain, 0, bit, b)
    BY <2>1, <2>2 DEF Chooses, TakenFrom
  <2>4. \E h \in [1..Len(u[0]) -> 1..0] : Chooses(h, u[0], chain, 0, bit, b)
    BY <2>1, <2>3
  <2>5. 0 \in 0..n
    BY <1>2
  <2> QED BY <2>4, <2>5
<1>5. ASSUME NEW i \in 0..(n - 1), i \in S PROVE i + 1 \in S
  <2>1. PICK f \in [1..Len(u[i]) -> 1..i] : Chooses(f, u[i], chain, i, bit, b)
    BY <1>5
  <2>2. i + 1 \in 1..n /\ (i + 1) - 1 = i /\ i + 1 \in 0..n /\ i \in 0..n
    BY <1>2
  <2>3. u[i + 1] = ChosenStep(chain, bit, b, i + 1, u[(i + 1) - 1])
    BY <1>1, <2>2 DEF ChosenUp
  <2>4. u[i + 1] = ChosenStep(chain, bit, b, i + 1, u[i])
    BY <2>2, <2>3
  <2> DEFINE s == u[i]
             t == u[i + 1]
  <2>5. s \in Seq(Entry) /\ f \in [1..Len(s) -> 1..i] /\ Chooses(f, s, chain, i, bit, b)
        /\ t = ChosenStep(chain, bit, b, i + 1, s)
    BY <1>3, <2>1, <2>2, <2>4
  <2> HIDE DEF s, t
  <2>6. \E g \in [1..Len(t) -> 1..(i + 1)] : Chooses(g, t, chain, i + 1, bit, b)
    BY <2>5, ChoosesNext
  <2> QED BY <2>2, <2>6 DEF t
<1> HIDE DEF S
<1>6. 0..n \subseteq S
  BY <1>2, <1>4, <1>5, InductionUpTo
<1>7. n \in S
  BY <1>2, <1>6
<1>8. \E f \in [1..Len(u[n]) -> 1..n] : Chooses(f, u[n], chain, n, bit, b)
  BY <1>7 DEF S
<1> QED BY <1>1, <1>2, <1>3, <1>8

(* An entry either stays or moves.                                         *)
LEMMA ChosenLengths ==
    ASSUME NEW chain \in Seq(Entry), NEW bit \in Nat, bit > 0
    PROVE  Len(Kept(chain, bit)) + Len(Moved(chain, bit)) = Len(chain)
<1> DEFINE n == Len(chain)
<1>1. PICK k : ChosenUp(k, chain, bit, 0) /\ Chosen(chain, bit, 0) = k[n]
  BY ChosenByPlace
<1>2. PICK m : ChosenUp(m, chain, bit, 1) /\ Chosen(chain, bit, 1) = m[n]
  BY ChosenByPlace
<1>3. n \in Nat
  OBVIOUS
<1>4. \A i \in 0..n : k[i] \in Seq(Entry) /\ m[i] \in Seq(Entry)
  BY <1>1, <1>2 DEF ChosenUp
<1> DEFINE S == {i \in 0..n : Len(k[i]) + Len(m[i]) = i}
<1>5. 0 \in S
  BY <1>1, <1>2, <1>3 DEF ChosenUp
<1>6. ASSUME NEW i \in 0..(n - 1), i \in S PROVE i + 1 \in S
  <2>1. i + 1 \in 1..n /\ (i + 1) - 1 = i /\ i + 1 \in 0..n /\ i \in 0..n
    BY <1>3
  <2>2. k[i + 1] = ChosenStep(chain, bit, 0, i + 1, k[(i + 1) - 1])
        /\ m[i + 1] = ChosenStep(chain, bit, 1, i + 1, m[(i + 1) - 1])
    BY <1>1, <1>2, <2>1 DEF ChosenUp
  <2>3. k[i + 1] = ChosenStep(chain, bit, 0, i + 1, k[i])
        /\ m[i + 1] = ChosenStep(chain, bit, 1, i + 1, m[i])
    BY <2>1, <2>2
  <2>4. chain[i + 1] \in Entry
    BY <2>1
  <2>5. Bit(chain[i + 1], bit) \in {0, 1}
    BY <2>4, EntryFields, SplitHash DEF Bit
  <2>6. k[i] \in Seq(Entry) /\ m[i] \in Seq(Entry) /\ Len(k[i]) + Len(m[i]) = i
    BY <1>4, <1>6, <2>1
  <2>7. CASE Bit(chain[i + 1], bit) = 0
    <3>1. k[i + 1] = Append(k[i], chain[i + 1]) /\ m[i + 1] = m[i]
      BY <2>3, <2>7 DEF ChosenStep, Bit
    <3>2. Len(k[i + 1]) = Len(k[i]) + 1
      BY <2>4, <2>6, <3>1, AppendProperties
    <3>3. Len(k[i]) \in Nat /\ Len(m[i]) \in Nat
      BY <2>6, LenProperties
    <3> DEFINE x == Len(k[i])
               y == Len(m[i])
    <3>a. x \in Nat /\ y \in Nat /\ x + y = i
      BY <2>6, <3>3
    <3> HIDE DEF x, y
    <3>4. (x + 1) + y = i + 1 /\ x + (y + 1) = i + 1
      BY <3>a
    <3>5. Len(k[i + 1]) + Len(m[i + 1]) = i + 1
      BY <3>1, <3>2, <3>4 DEF x, y
    <3> QED BY <2>1, <3>5
  <2>8. CASE Bit(chain[i + 1], bit) = 1
    <3>1. m[i + 1] = Append(m[i], chain[i + 1]) /\ k[i + 1] = k[i]
      BY <2>3, <2>8 DEF ChosenStep, Bit
    <3>2. Len(m[i + 1]) = Len(m[i]) + 1
      BY <2>4, <2>6, <3>1, AppendProperties
    <3>3. Len(k[i]) \in Nat /\ Len(m[i]) \in Nat
      BY <2>6, LenProperties
    <3> DEFINE x == Len(k[i])
               y == Len(m[i])
    <3>a. x \in Nat /\ y \in Nat /\ x + y = i
      BY <2>6, <3>3
    <3> HIDE DEF x, y
    <3>4. (x + 1) + y = i + 1 /\ x + (y + 1) = i + 1
      BY <3>a
    <3>5. Len(k[i + 1]) + Len(m[i + 1]) = i + 1
      BY <3>1, <3>2, <3>4 DEF x, y
    <3> QED BY <2>1, <3>5
  <2> QED BY <2>5, <2>7, <2>8
<1> HIDE DEF S
<1>7. 0..n \subseteq S
  BY <1>3, <1>5, <1>6, InductionUpTo
<1>8. n \in S
  BY <1>3, <1>7
<1> QED BY <1>1, <1>2, <1>8 DEF S, Kept, Moved

(* What the halves of a bin hold, and where they belong.                   *)
LEMMA HalfOwn ==
    ASSUME NEW data, NEW n \in Nat, n > 0, NEW b \in 1..n, Own(data, n, b), NEW v \in {0, 1},
           NEW new, new = Chosen(data, n, v)
    PROVE  /\ Own(new, 2 * n, b + n * v)
           /\ \A t : t \in Range(new) <=> t \in Range(data) /\ Bit(t, n) = v
<1>1. data \in Seq(Entry) /\ \A i \in 1..Len(data) : 1 + (data[i].hash % n) = b
  BY DEF Own
<1>2. new \in Seq(Entry)
  BY <1>1, ChosenPlaces
<1>3. PICK f \in [1..Len(new) -> 1..Len(data)] : Chooses(f, new, data, Len(data), n, v)
  BY <1>1, ChosenPlaces
<1>4. /\ TakenFrom(f, new, data)
      /\ \A p \in 1..Len(new) : new[p] = data[f[p]] /\ f[p] \in 1..Len(data)
      /\ \A p \in 1..Len(new) : Bit(data[f[p]], n) = v
      /\ \A q \in 1..Len(data) : Bit(data[q], n) = v => \E p \in 1..Len(new) : f[p] = q
  BY <1>3 DEF Chooses, TakenFrom
<1>5. ASSUME NEW p \in 1..Len(new)
      PROVE  1 + (new[p].hash % (2 * n)) = b + n * v
  <2> DEFINE h == new[p].hash
  <2>1. h \in Nat
    BY <1>2, EntryFields
  <2>2. (h \div n) % 2 = v /\ 1 + (h % n) = b
    BY <1>1, <1>4 DEF Bit
  <2> HIDE DEF h
  <2>3. h % (2 * n) = IF (h \div n) % 2 = 0 THEN h % n ELSE (h % n) + n
    BY <2>1, SplitHash
  <2>4. h % n \in 0..(n - 1)
    BY <2>1, Division
  <2>5. CASE v = 0
    <3>1. n * 0 = 0
      OBVIOUS
    <3>2. 1 + (h % (2 * n)) = b + 0 /\ b \in Nat
      BY <2>2, <2>3, <2>4, <2>5
    <3> QED BY <2>5, <3>1, <3>2 DEF h
  <2>6. CASE v = 1
    <3>1. n * 1 = n
      OBVIOUS
    <3>2. 1 + (h % (2 * n)) = b + n
      BY <2>2, <2>3, <2>4, <2>6
    <3> QED BY <2>6, <3>1, <3>2 DEF h
  <2> QED BY <2>5, <2>6
<1>6. AllIn(new, 2 * n, b + n * v)
  BY <1>5 DEF AllIn
<1>7. Own(new, 2 * n, b + n * v)
  BY <1>2, <1>4, <1>6, Taken
<1>8. Range(new) = {new[p] : p \in 1..Len(new)} /\ Range(data) = {data[q] : q \in 1..Len(data)}
  BY <1>1, <1>2, Ranges
<1>9. ASSUME NEW t PROVE t \in Range(new) <=> t \in Range(data) /\ Bit(t, n) = v
  <2>1. ASSUME t \in Range(new) PROVE t \in Range(data) /\ Bit(t, n) = v
    <3>1. PICK p \in 1..Len(new) : t = new[p]
      BY <1>8, <2>1
    <3> QED BY <1>4, <1>8, <3>1
  <2>2. ASSUME t \in Range(data), Bit(t, n) = v PROVE t \in Range(new)
    <3>1. PICK q \in 1..Len(data) : t = data[q]
      BY <1>8, <2>2
    <3>2. PICK p \in 1..Len(new) : f[p] = q
      BY <1>4, <2>2, <3>1
    <3>3. new[p] = t
      BY <1>4, <3>1, <3>2
    <3> QED BY <1>8, <3>3
  <2> QED BY <2>1, <2>2
<1> QED BY <1>7, <1>9

LEMMA ReverseOwn ==
    ASSUME NEW data, NEW n, NEW b, Own(data, n, b), NEW new, new = Reverse(data)
    PROVE  Own(new, n, b) /\ Range(new) = Range(data) /\ Len(new) = Len(data)
<1> DEFINE m == Len(data)
           f == [p \in 1..m |-> (m - p) + 1]
<1>1. data \in Seq(Entry) /\ m \in Nat /\ \A i \in 1..m : 1 + (data[i].hash % n) = b
  BY DEF Own
<1>2. \A p \in 1..m : (m - p) + 1 \in 1..m
  BY <1>1
<1>3. new = [p \in 1..m |-> data[(m - p) + 1]]
  BY DEF Reverse
<1>4. new \in Seq(Entry) /\ Len(new) = m /\ \A p \in 1..m : new[p] = data[(m - p) + 1]
  BY <1>1, <1>2, <1>3
<1>5. f \in [1..m -> 1..m] /\ \A p \in 1..m : f[p] = (m - p) + 1
  BY <1>2
<1>6. \A p, q \in 1..m : (m - p) + 1 = (m - q) + 1 => p = q
  BY <1>1
<1> HIDE DEF f
<1>7. TakenFrom(f, new, data)
  BY <1>4, <1>5, <1>6 DEF TakenFrom
<1>8. AllIn(new, n, b)
  BY <1>1, <1>2, <1>4 DEF AllIn
<1>9. Own(new, n, b)
  BY <1>4, <1>5, <1>7, <1>8, Taken
<1>10. Range(new) = {new[p] : p \in 1..m} /\ Range(data) = {data[q] : q \in 1..m}
  BY <1>1, <1>4, Ranges
<1>11. \A q \in 1..m : (m - q) + 1 \in 1..m /\ new[(m - q) + 1] = data[q]
  <2> TAKE q \in 1..m
  <2>1. (m - q) + 1 \in 1..m /\ (m - ((m - q) + 1)) + 1 = q
    BY <1>1
  <2> QED BY <1>4, <2>1
<1>a. ASSUME NEW p \in 1..m PROVE new[p] \in Range(data)
  BY <1>2, <1>4, <1>10
<1>b. ASSUME NEW q \in 1..m PROVE data[q] \in Range(new)
  BY <1>10, <1>11
<1>12. Range(new) = Range(data)
  BY <1>10, <1>a, <1>b
<1> QED BY <1>4, <1>9, <1>12

-----------------------------------------------------------------------------
(* Changing the number of bins.                                            *)

(* Table e has the entries of table d, half of each bin in a bin of its own.*)
Halved(e, d) ==
    /\ e.size = d.size
    /\ e.bins \in Seq([size : Nat, data : Seq(Entry)])
    /\ Len(e.bins) = 2 * Len(d.bins)
    /\ \A i \in 1..Len(d.bins) : e.bins[i].data = Kept(d.bins[i].data, Len(d.bins))
    /\ \A i \in 1..Len(d.bins) :
          e.bins[i + Len(d.bins)].data \in {Moved(d.bins[i].data, Len(d.bins)),
                                            Reverse(Moved(d.bins[i].data, Len(d.bins)))}
    /\ \A i \in 1..Len(e.bins) : e.bins[i].size = Len(e.bins[i].data)
    /\ e \in [size : Nat, bins : Seq([size : Nat, data : Seq(Entry)])]

LEMMA DoubledHalves ==
    ASSUME NEW d, Well(d), d.bins # << >>, NEW e, e \in {Doubled(d), SplitTable(d)}
    PROVE  Halved(e, d)
<1> DEFINE c == Len(d.bins)
           T == [size : Nat, data : Seq(Entry)]
           low(i) == [size |-> d.bins[i].size - Len(Moved(d.bins[i].data, c)), data |-> Kept(d.bins[i].data, c)]
           moved(i) == Moved(d.bins[i].data, c)
           high(i, s) == [size |-> Len(moved(i)), data |-> s]
<1>1. c \in Nat /\ c > 0 /\ d.size \in Nat
  <2>1. d.bins \in Seq([size : Nat, data : Seq(Entry)])
    BY DEF Well
  <2> QED BY <2>1, EmptySeq DEF Well
<1>2. ASSUME NEW i \in 1..c
      PROVE  /\ low(i) \in T /\ low(i).data = Kept(d.bins[i].data, c)
             /\ low(i).size = Len(low(i).data)
             /\ high(i, moved(i)) \in T /\ high(i, Reverse(moved(i))) \in T
             /\ high(i, moved(i)).size = Len(moved(i)) /\ high(i, Reverse(moved(i))).size = Len(Reverse(moved(i)))
  <2> DEFINE data == d.bins[i].data
             k == Kept(data, c)
             m == Moved(data, c)
             r == Reverse(m)
  <2>1. data \in Seq(Entry) /\ d.bins[i].size = Len(data) /\ Own(data, c, i)
    BY Parts
  <2> HIDE DEF data
  <2>2. k \in Seq(Entry) /\ m \in Seq(Entry)
    BY <2>1, ChosenPlaces DEF Kept, Moved
  <2>3. Len(k) + Len(m) = Len(data)
    BY <1>1, <2>1, ChosenLengths
  <2>4. Own(m, 2 * c, i + c * 1)
    BY <1>1, <2>1, HalfOwn DEF Moved
  <2> HIDE DEF k, m
  <2>5. Own(r, 2 * c, i + c * 1) /\ Len(r) = Len(m)
    BY <2>4, ReverseOwn
  <2>6. r \in Seq(Entry)
    BY <2>5 DEF Own
  <2> HIDE DEF r
  <2>7. Len(k) \in Nat /\ Len(m) \in Nat /\ Len(data) - Len(m) = Len(k)
    BY <2>2, <2>3, LenProperties
  <2>8. low(i) = [size |-> Len(k), data |-> k]
    BY <2>1, <2>7 DEF k, m, data
  <2>9. high(i, moved(i)) = [size |-> Len(m), data |-> m] /\ high(i, Reverse(moved(i))) = [size |-> Len(m), data |-> r]
    BY DEF m, r, data
  <2> HIDE DEF low, high, moved, c
  <2>10. low(i) \in T /\ low(i).data = k /\ low(i).size = Len(low(i).data)
    BY <2>2, <2>7, <2>8
  <2>11. high(i, moved(i)) \in T /\ high(i, moved(i)).size = Len(m)
    BY <2>2, <2>7, <2>9
  <2>12. high(i, Reverse(moved(i))) \in T /\ high(i, Reverse(moved(i))).size = Len(r)
    BY <2>5, <2>6, <2>7, <2>9
  <2>13. moved(i) = m /\ k = Kept(d.bins[i].data, c) /\ r = Reverse(moved(i))
    BY DEF moved, m, k, data, r
  <2> QED BY <2>10, <2>11, <2>12, <2>13
<1> DEFINE s(i) == IF e = Doubled(d) THEN Reverse(moved(i)) ELSE moved(i)
           B == [i \in 1..(2 * c) |-> IF i <= c THEN low(i) ELSE high(i - c, s(i - c))]
<1>3. e = [size |-> d.size, bins |-> B]
  <2>1. CASE e = Doubled(d)
    BY <2>1 DEF Doubled, cap
  <2>2. CASE e # Doubled(d)
    <3>1. e = SplitTable(d)
      BY <2>2
    <3> QED BY <2>2, <3>1 DEF SplitTable, SplitBin, NewFrom, cap
  <2> QED BY <2>1, <2>2
<1>4. ASSUME NEW i \in 1..c
      PROVE  /\ low(i) \in T /\ low(i).data = Kept(d.bins[i].data, c) /\ low(i).size = Len(low(i).data)
             /\ high(i, s(i)) \in T /\ high(i, s(i)).data \in {moved(i), Reverse(moved(i))}
             /\ high(i, s(i)).size = Len(high(i, s(i)).data)
  BY <1>2
<1> HIDE DEF low, high, moved, s, c, T
<1>5. ASSUME NEW i \in 1..(2 * c), ~(i <= c) PROVE i - c \in 1..c
  BY <1>1, <1>5
<1>6. \A i \in 1..(2 * c) : B[i] = IF i <= c THEN low(i) ELSE high(i - c, s(i - c))
  OBVIOUS
<1>7. ASSUME NEW i \in 1..(2 * c) PROVE B[i] \in T /\ B[i].size = Len(B[i].data)
  <2>1. CASE i <= c
    <3>1. i \in 1..c /\ B[i] = low(i)
      BY <1>1, <1>6, <2>1
    <3> QED BY <1>4, <3>1
  <2>2. CASE ~(i <= c)
    <3>1. i - c \in 1..c /\ B[i] = high(i - c, s(i - c))
      BY <1>5, <1>6, <2>2
    <3> QED BY <1>4, <3>1
  <2> QED BY <2>1, <2>2
<1>8. ASSUME NEW i \in 1..c
      PROVE  B[i] = low(i) /\ B[i + c] = high(i, s(i))
  <2>1. i \in 1..(2 * c) /\ i <= c /\ i + c \in 1..(2 * c) /\ ~(i + c <= c) /\ (i + c) - c = i
    BY <1>1
  <2>2. B[i + c] = high((i + c) - c, s((i + c) - c))
    BY <1>6, <2>1
  <2> QED BY <1>6, <2>1, <2>2
<1>9. B \in Seq(T) /\ Len(B) = 2 * c
  <2>1. B \in [1..(2 * c) -> T]
    BY <1>7
  <2>2. 2 * c \in Nat
    BY <1>1
  <2> HIDE DEF B
  <2> QED BY <2>1, <2>2
<1> HIDE DEF B
<1>10. e.bins = B /\ e.size = d.size /\ e \in [size : Nat, bins : Seq(T)]
  BY <1>1, <1>3, <1>9
<1>11. ASSUME NEW i \in 1..c
       PROVE  /\ e.bins[i].data = Kept(d.bins[i].data, c)
              /\ e.bins[i + c].data \in {Moved(d.bins[i].data, c), Reverse(Moved(d.bins[i].data, c))}
  BY <1>4, <1>8, <1>10 DEF moved
<1>12. Len(e.bins) = 2 * c
  BY <1>9, <1>10
<1>13. ASSUME NEW i \in 1..Len(e.bins) PROVE e.bins[i].size = Len(e.bins[i].data)
  BY <1>7, <1>10, <1>12
<1> QED BY <1>9, <1>10, <1>11, <1>12, <1>13 DEF Halved, T, c

(* Growth loses no entry, and leaves none in a bin of another hash.        *)
LEMMA HalvesWell ==
    ASSUME NEW d, Well(d), d.bins # << >>, NEW e, Halved(e, d)
    PROVE  Well(e) /\ Stored(e) = Stored(d)
<1> DEFINE c == Len(d.bins)
           was(i) == d.bins[i].data
           now(i) == e.bins[i].data
<1>1. c \in Nat /\ c > 0 /\ d \in [size : Nat, bins : Seq([size : Nat, data : Seq(Entry)])]
  <2>1. d.bins \in Seq([size : Nat, data : Seq(Entry)])
    BY DEF Well
  <2> QED BY <2>1, EmptySeq DEF Well
<1>2. e \in [size : Nat, bins : Seq([size : Nat, data : Seq(Entry)])] /\ Len(e.bins) = 2 * c
  BY DEF Halved
<1>3. ASSUME NEW i \in 1..c
      PROVE  /\ Own(now(i), 2 * c, i)
             /\ \A t : t \in Range(now(i)) <=> t \in Range(was(i)) /\ Bit(t, c) = 0
  <2> DEFINE k == Chosen(was(i), c, 0)
  <2>1. now(i) = k
    BY DEF Halved, Kept
  <2>2. Own(was(i), c, i)
    BY Parts
  <2>a. c * 0 = 0 /\ i + 0 = i
    BY <1>1
  <2> HIDE DEF was, now
  <2>3. Own(k, 2 * c, i + c * 0) /\ \A t : t \in Range(k) <=> t \in Range(was(i)) /\ Bit(t, c) = 0
    BY <1>1, <2>2, HalfOwn
  <2> QED BY <2>1, <2>3, <2>a
<1>4. ASSUME NEW i \in 1..c
      PROVE  /\ Own(now(i + c), 2 * c, i + c)
             /\ \A t : t \in Range(now(i + c)) <=> t \in Range(was(i)) /\ Bit(t, c) = 1
  <2> DEFINE m == Chosen(was(i), c, 1)
             r == Reverse(m)
  <2>1. now(i + c) \in {m, r}
    BY DEF Halved, Moved
  <2>2. Own(was(i), c, i)
    BY Parts
  <2>a. c * 1 = c
    BY <1>1
  <2> HIDE DEF was, now
  <2>3. Own(m, 2 * c, i + c * 1) /\ \A t : t \in Range(m) <=> t \in Range(was(i)) /\ Bit(t, c) = 1
    BY <1>1, <2>2, HalfOwn
  <2> HIDE DEF m
  <2>4. Own(r, 2 * c, i + c * 1) /\ Range(r) = Range(m)
    BY <2>3, ReverseOwn
  <2> HIDE DEF r
  <2> QED BY <2>1, <2>3, <2>4, <2>a
<1>5. ASSUME NEW i \in 1..(2 * c)
      PROVE  i \in 1..c \/ \E j \in 1..c : i = j + c
  <2>1. i > c => i - c \in 1..c /\ i = (i - c) + c
    BY <1>1
  <2>2. CASE i > c
    BY <2>1, <2>2
  <2>3. CASE ~(i > c)
    BY <1>1, <2>3
  <2> QED BY <2>2, <2>3
<1>6. ASSUME NEW t PROVE t \in Stored(e) <=> \E i \in 1..(2 * c) : t \in Range(now(i))
  BY <1>2, StoredAt
<1>7. ASSUME NEW t PROVE t \in Stored(d) <=> \E i \in 1..c : t \in Range(was(i))
  BY <1>1, StoredAt
<1>8. \A i \in 1..c : i \in 1..(2 * c) /\ i + c \in 1..(2 * c)
  BY <1>1
<1>9. ASSUME NEW t, t \in Stored(d) PROVE Bit(t, c) \in {0, 1}
  <2>1. t \in Entry
    BY <1>9, StoredIn
  <2> QED BY <1>1, <2>1, EntryFields, SplitHash DEF Bit
<1>10. \A i \in 1..(2 * c) : e.bins[i].size = Len(e.bins[i].data)
  BY <1>2 DEF Halved
<1> HIDE DEF now, was, c
<1>11. ASSUME NEW t PROVE t \in Stored(e) <=> t \in Stored(d)
  <2>1. ASSUME t \in Stored(e) PROVE t \in Stored(d)
    <3>1. PICK i \in 1..(2 * c) : t \in Range(now(i))
      BY <1>6, <2>1
    <3>2. CASE i \in 1..c
      BY <1>3, <1>7, <3>1, <3>2
    <3>3. CASE \E j \in 1..c : i = j + c
      BY <1>4, <1>7, <3>1, <3>3
    <3> QED BY <1>5, <3>2, <3>3
  <2>2. ASSUME t \in Stored(d) PROVE t \in Stored(e)
    <3>1. PICK i \in 1..c : t \in Range(was(i))
      BY <1>7, <2>2
    <3>2. CASE Bit(t, c) = 0
      BY <1>3, <1>6, <1>8, <3>1, <3>2
    <3>3. CASE Bit(t, c) = 1
      BY <1>4, <1>6, <1>8, <3>1, <3>3
    <3> QED BY <1>9, <2>2, <3>2, <3>3
  <2> QED BY <2>1, <2>2
<1>12. Stored(e) = Stored(d)
  BY <1>11
<1>13. ASSUME NEW i \in 1..(2 * c) PROVE Own(now(i), 2 * c, i)
  BY <1>3, <1>4, <1>5
<1>14. IsFiniteSet(Stored(e)) /\ e.size = Cardinality(Stored(e))
  BY <1>12 DEF Well, Halved
<1> QED BY <1>2, <1>10, <1>12, <1>13, <1>14 DEF Well, now

(* A table of empty bins.                                                  *)
LEMMA BlankWell ==
    ASSUME NEW n \in Nat, NEW e, e = [size |-> 0, bins |-> [i \in 1..n |-> NewBin]]
    PROVE  Well(e) /\ Stored(e) = {} /\ Len(e.bins) = n
<1> DEFINE T == [size : Nat, data : Seq(Entry)]
           B == [i \in 1..n |-> NewBin]
<1>1. NewBin \in T /\ NewBin.data = << >> /\ NewBin.size = 0
  BY DEF NewBin
<1> HIDE DEF T
<1>2. B \in Seq(T) /\ Len(B) = n /\ \A i \in 1..n : B[i] = NewBin
  BY <1>1
<1> HIDE DEF B
<1>3. e.bins = B /\ e.size = 0 /\ e \in [size : Nat, bins : Seq(T)]
  BY <1>2 DEF B
<1>4. \A b \in 1..Len(e.bins) : e.bins[b].data = << >> /\ e.bins[b].size = 0
  BY <1>1, <1>2, <1>3
<1>5. Range(<< >>) = {}
  BY DEF Range
<1>6. Stored(e) = {}
  BY <1>3, <1>4, <1>5, StoredAt DEF T
<1>7. \A b : Own(<< >>, Len(e.bins), b)
  BY DEF Own
<1>8. IsFiniteSet(Stored(e)) /\ e.size = Cardinality(Stored(e))
  BY <1>3, <1>6, FS_EmptySet
<1>9. \A b \in 1..Len(e.bins) : e.bins[b].size = Len(e.bins[b].data) /\ Own(e.bins[b].data, Len(e.bins), b)
  BY <1>4, <1>7
<1> QED BY <1>2, <1>3, <1>6, <1>8, <1>9 DEF Well, T

LEMMA EmptyWell == Well(Empty) /\ Stored(Empty) = {}
<1>1. Empty = [size |-> 0, bins |-> [i \in 1..0 |-> NewBin]]
  <2>1. << >> = [i \in 1..0 |-> NewBin]
    OBVIOUS
  <2> QED BY <2>1 DEF Empty
<1> QED BY <1>1, BlankWell

LEMMA ClearedWell ==
    ASSUME NEW d, Well(d)
    PROVE  Well(Cleared(d)) /\ Stored(Cleared(d)) = {}
<1>1. d.bins \in Seq([size : Nat, data : Seq(Entry)])
  BY DEF Well
<1>2. DOMAIN d.bins = 1..Len(d.bins) /\ Len(d.bins) \in Nat
  BY <1>1
<1>3. Cleared(d) = [size |-> 0, bins |-> [i \in 1..Len(d.bins) |-> NewBin]]
  BY <1>2 DEF Cleared
<1> QED BY <1>2, <1>3, BlankWell

(* The first allocation.                                                   *)
LEMMA AllocatedWell ==
    ASSUME NEW d, Well(d), d.bins = << >>
    PROVE  Well(Allocated(d)) /\ Stored(Allocated(d)) = {} /\ Stored(d) = {}
           /\ Len(Allocated(d).bins) = InitialCap /\ Allocated(d).bins # << >>
<1>1. Stored(d) = {}
  BY StoredIn DEF Well
<1>2. d.size = 0
  BY <1>1, FS_EmptySet DEF Well
<1>3. InitialCap \in Nat /\ InitialCap > 0
  BY TableAssumption
<1>4. Allocated(d) = [size |-> 0, bins |-> [i \in 1..InitialCap |-> NewBin]]
  BY <1>2 DEF Allocated
<1>5. Well(Allocated(d)) /\ Stored(Allocated(d)) = {} /\ Len(Allocated(d).bins) = InitialCap
  BY <1>3, <1>4, BlankWell
<1> QED BY <1>1, <1>3, <1>5

LEMMA GrownWell ==
    ASSUME NEW d, Well(d)
    PROVE  Well(Grown(d)) /\ Stored(Grown(d)) = Stored(d) /\ Grown(d).bins # << >>
<1>1. CASE d.bins = << >>
  BY <1>1, AllocatedWell DEF Grown
<1>2. CASE d.bins # << >>
  <2> DEFINE e == Doubled(d)
  <2>1. Halved(e, d)
    BY <1>2, DoubledHalves
  <2>2. Grown(d) = e
    BY <1>2 DEF Grown
  <2> HIDE DEF e
  <2>3. Well(e) /\ Stored(e) = Stored(d)
    BY <1>2, <2>1, HalvesWell
  <2>4. Len(e.bins) = 2 * Len(d.bins) /\ Len(d.bins) \in Nat /\ Len(d.bins) > 0
    <3>1. d.bins \in Seq([size : Nat, data : Seq(Entry)])
      BY DEF Well
    <3> QED BY <1>2, <2>1, <3>1, EmptySeq DEF Halved
  <2>5. e.bins # << >>
    BY <2>4
  <2> QED BY <2>2, <2>3, <2>5
<1> QED BY <1>1, <1>2

(* A new entry comes into a table that has grown before, if it must.       *)
LEMMA PlacedWell ==
    ASSUME IndexAssumption, NEW d, Well(d), NEW t \in Entry, t.hash = hash(t.key), ~Holds(d, t.key)
    PROVE  Well(Placed(d, t)) /\ Stored(Placed(d, t)) = Stored(d) \cup {t}
<1> DEFINE g == IF d.size >= cap(d) * Load THEN Grown(d) ELSE d
<1>1. Well(g) /\ Stored(g) = Stored(d) /\ g.bins # << >>
  <2>1. CASE d.size >= cap(d) * Load
    BY <2>1, GrownWell
  <2>2. CASE ~(d.size >= cap(d) * Load)
    <3>1. d.bins # << >>
      <4> SUFFICES ASSUME d.bins = << >> PROVE FALSE
        OBVIOUS
      <4>1. cap(d) = 0 /\ d.size \in Nat /\ Load \in Nat
        BY TableAssumption DEF cap, Well
      <4>2. cap(d) * Load = 0
        BY <4>1
      <4> QED BY <2>2, <4>1, <4>2
    <3> QED BY <2>2, <3>1
  <2> QED BY <2>1, <2>2
<1>2. ~Holds(g, t.key)
  BY <1>1 DEF Holds
<1>3. Placed(d, t) = Link(g, t)
  BY DEF Placed
<1> HIDE DEF g
<1>4. Well(Link(g, t)) /\ Stored(Link(g, t)) = Stored(g) \cup {t}
  BY <1>1, <1>2, TableAdds
<1> QED BY <1>1, <1>3, <1>4

-----------------------------------------------------------------------------
(* All entries of a table, one after another.                              *)

(* f has the entries of the first i bins, for each i.                      *)
TuplesUp(f, d) ==
    /\ f \in [0..Len(d.bins) -> Seq(Entry)] /\ f[0] = << >>
    /\ \A i \in 1..Len(d.bins) : f[i] = f[i - 1] \o d.bins[i].data

LEMMA TuplesByBin ==
    ASSUME NEW d, Well(d)
    PROVE  \E f : TuplesUp(f, d) /\ Tuples(d) = f[Len(d.bins)]
<1> DEFINE T == Seq(Entry)
           n == Len(d.bins)
           step == [p \in (1..n) \X T |-> p[2] \o d.bins[p[1]].data]
           Rule(g) == [i \in 0..n |-> IF i = 0 THEN << >> ELSE g[i - 1] \o d.bins[i].data]
           g == CHOOSE h : h = Rule(h)
<1>1. n \in Nat /\ << >> \in T /\ \A i \in 1..n : d.bins[i].data \in Seq(Entry)
  <2>1. d.bins \in Seq([size : Nat, data : Seq(Entry)])
    BY DEF Well
  <2>2. n \in Nat
    BY <2>1, LenProperties
  <2>3. \A i \in 1..n : d.bins[i].data \in Seq(Entry)
    BY Parts
  <2> QED BY <2>2, <2>3, EmptySeq
<1>2. \A i \in 1..n, x \in T : x \o d.bins[i].data \in T
  BY <1>1, ConcatProperties
<1>3. step \in [(1..n) \X T -> T]
  BY <1>2
<1>4. \A i \in 1..n, x \in T : step[<<i, x>>] = x \o d.bins[i].data
  OBVIOUS
<1> HIDE DEF step, n, T
<1>a. n \in Nat
  BY <1>1
<1>5. PICK f \in [0..n -> T] : f[0] = << >> /\ \A i \in 1..n : f[i] = step[<<i, f[i - 1]>>]
  <2> DEFINE base == << >>
  <2>1. base \in T /\ n \in Nat
    BY <1>1
  <2> HIDE DEF base
  <2>2. \E f \in [0..n -> T] : Follows(f, n, base, step)
    BY <1>3, <2>1, RecursiveFunction, Zenon
  <2> QED BY <2>2 DEF base, Follows
<1>6. ASSUME NEW i \in 1..n PROVE f[i] = f[i - 1] \o d.bins[i].data
  <2>1. f[i - 1] \in T
    BY <1>1
  <2> QED BY <1>4, <1>5, <2>1
<1>7. f = Rule(f)
  <2>1. ASSUME NEW i \in 0..n PROVE f[i] = IF i = 0 THEN << >> ELSE f[i - 1] \o d.bins[i].data
    <3>1. CASE i = 0
      BY <1>5, <3>1
    <3>2. CASE i # 0
      <4>1. i \in 1..n
        BY <1>1, <3>2
      <4> QED BY <1>6, <3>2, <4>1
    <3> QED BY <3>1, <3>2
  <2> QED BY <2>1
<1>8. g = Rule(g)
  BY <1>7
<1> HIDE DEF g
<1>9. g[0] = << >> /\ \A i \in 1..n : g[i] = g[i - 1] \o d.bins[i].data
  <2>1. \A i \in 0..n : g[i] = IF i = 0 THEN << >> ELSE g[i - 1] \o d.bins[i].data
    BY <1>8
  <2>2. 0 \in 0..n /\ \A i \in 1..n : i \in 0..n /\ i # 0
    BY <1>1
  <2> QED BY <2>1, <2>2, Zenon
<1>10. \A i \in 0..n : g[i] = f[i]
  <2> DEFINE S == {i \in 0..n : g[i] = f[i]}
  <2>1. 0 \in S
    BY <1>1, <1>5, <1>9
  <2>2. ASSUME NEW i \in 0..(n - 1), i \in S PROVE i + 1 \in S
    <3>1. i + 1 \in 1..n /\ (i + 1) - 1 = i /\ i + 1 \in 0..n
      BY <1>a
    <3>2. f[i + 1] = f[(i + 1) - 1] \o d.bins[i + 1].data /\ g[i + 1] = g[(i + 1) - 1] \o d.bins[i + 1].data
      BY <1>6, <1>9, <3>1
    <3>3. g[(i + 1) - 1] = f[(i + 1) - 1]
      BY <2>2, <3>1
    <3>4. g[i + 1] = f[i + 1]
      BY <3>2, <3>3
    <3> QED BY <3>1, <3>4
  <2> HIDE DEF S
  <2>3. 0..n \subseteq S
    BY <1>1, <2>1, <2>2, InductionUpTo
  <2> QED BY <2>3 DEF S
<1>11. Tuples(d) = g[n]
  BY DEF Tuples, g, n
<1>12. Tuples(d) = f[n]
  BY <1>1, <1>10, <1>11
<1>13. TuplesUp(f, d)
  BY <1>5, <1>6 DEF TuplesUp, n, T
<1> QED BY <1>12, <1>13 DEF n

(* A list of the entries of the first i bins, without repetition.          *)
Lists(s, d, i) ==
    /\ s \in Seq(Entry)
    /\ \A p, q \in 1..Len(s) : s[p] = s[q] => p = q
    /\ \A t : t \in Range(s) <=> \E b \in 1..i : t \in Range(d.bins[b].data)

LEMMA ListsNext ==
    ASSUME NEW d, Well(d), NEW i \in 0..(Len(d.bins) - 1), NEW s, Lists(s, d, i)
    PROVE  Lists(s \o d.bins[i + 1].data, d, i + 1)
<1> DEFINE w == Len(d.bins)
           e == d.bins[i + 1].data
           m == Len(s)
           n == Len(e)
           z == s \o e
<1>1. w \in Nat /\ i \in Nat /\ i + 1 \in 1..w
  <2>1. d.bins \in Seq([size : Nat, data : Seq(Entry)])
    BY DEF Well
  <2>2. w \in Nat
    BY <2>1, LenProperties
  <2> QED BY <2>2
<1>2. Own(e, w, i + 1)
  BY <1>1, Parts
<1> HIDE DEF e
<1>3. s \in Seq(Entry) /\ e \in Seq(Entry) /\ m \in Nat /\ n \in Nat
  BY <1>2, LenProperties DEF Lists, Own
<1>4. z \in Seq(Entry) /\ Len(z) = m + n /\ \A p \in 1..(m + n) : z[p] = IF p <= m THEN s[p] ELSE e[p - m]
  BY <1>3, ConcatProperties
<1>5. \A p, q \in 1..m : s[p] = s[q] => p = q
  BY DEF Lists
<1>6. \A p, q \in 1..n : e[p] = e[q] => p = q
  BY <1>2 DEF Own
<1>7. Range(s) = {s[p] : p \in 1..m} /\ Range(e) = {e[p] : p \in 1..n} /\ Range(z) = {z[p] : p \in 1..(m + n)}
  BY <1>3, <1>4, Ranges
<1>8. ASSUME NEW p \in 1..m, NEW q \in 1..n PROVE s[p] # e[q]
  <2>1. PICK b \in 1..i : s[p] \in Range(d.bins[b].data)
    BY <1>7 DEF Lists
  <2> DEFINE data == d.bins[b].data
  <2>2. b \in 1..w
    BY <1>1
  <2>3. Own(data, w, b)
    BY <2>2, Parts
  <2> HIDE DEF data
  <2>4. data \in Seq(Entry)
    BY <2>3 DEF Own
  <2>a. Range(data) = {data[r] : r \in 1..Len(data)}
    BY <2>4, Ranges
  <2>b. s[p] \in Range(data)
    BY <2>1 DEF data
  <2>5. PICK r \in 1..Len(data) : s[p] = data[r]
    BY <2>a, <2>b
  <2>6. 1 + (s[p].hash % w) = b
    BY <2>3, <2>5 DEF Own
  <2>7. 1 + (e[q].hash % w) = i + 1
    BY <1>2 DEF Own
  <2>8. b # i + 1
    BY <1>1
  <2> QED BY <2>6, <2>7, <2>8
<1> HIDE DEF z, m, n
<1>9. \A p \in 1..(m + n) : (p \in 1..m /\ z[p] = s[p]) \/ (~(p <= m) /\ p - m \in 1..n /\ z[p] = e[p - m])
  BY <1>3, <1>4
<1>10. ASSUME NEW p \in 1..(m + n), NEW q \in 1..(m + n), z[p] = z[q] PROVE p = q
  <2>1. CASE p \in 1..m /\ z[p] = s[p] /\ q \in 1..m /\ z[q] = s[q]
    BY <1>5, <1>10, <2>1
  <2>2. CASE p \in 1..m /\ z[p] = s[p] /\ q - m \in 1..n /\ z[q] = e[q - m]
    BY <1>8, <1>10, <2>2
  <2>3. CASE p - m \in 1..n /\ z[p] = e[p - m] /\ q \in 1..m /\ z[q] = s[q]
    BY <1>8, <1>10, <2>3
  <2>4. CASE p - m \in 1..n /\ z[p] = e[p - m] /\ q - m \in 1..n /\ z[q] = e[q - m]
    <3>1. p - m = q - m
      BY <1>6, <1>10, <2>4
    <3> QED BY <1>3, <3>1
  <2> QED BY <1>9, <2>1, <2>2, <2>3, <2>4
<1>11. Range(z) = Range(s) \cup Range(e)
  <2>1. \A p \in 1..(m + n) : z[p] \in Range(s) \cup Range(e)
    BY <1>7, <1>9
  <2>2. \A p \in 1..m : s[p] \in Range(z)
    <3> TAKE p \in 1..m
    <3>1. p \in 1..(m + n) /\ p <= m
      BY <1>3
    <3> QED BY <1>4, <1>7, <3>1
  <2>3. \A p \in 1..n : e[p] \in Range(z)
    <3> TAKE p \in 1..n
    <3>1. p + m \in 1..(m + n) /\ ~(p + m <= m) /\ (p + m) - m = p
      BY <1>3
    <3>2. z[p + m] = e[(p + m) - m]
      BY <1>4, <3>1
    <3> QED BY <1>7, <3>1, <3>2
  <2> QED BY <1>7, <2>1, <2>2, <2>3
<1>12. ASSUME NEW t PROVE t \in Range(z) <=> \E b \in 1..(i + 1) : t \in Range(d.bins[b].data)
  <2>1. t \in Range(s) <=> \E b \in 1..i : t \in Range(d.bins[b].data)
    BY DEF Lists
  <2>2. \A b \in 1..(i + 1) : b \in 1..i \/ b = i + 1
    BY <1>1
  <2>3. i + 1 \in 1..(i + 1) /\ \A b \in 1..i : b \in 1..(i + 1)
    BY <1>1
  <2> QED BY <1>11, <2>1, <2>2, <2>3 DEF e
<1>13. \A p, q \in 1..Len(z) : z[p] = z[q] => p = q
  BY <1>4, <1>10
<1>14. Lists(z, d, i + 1)
  BY <1>4, <1>12, <1>13 DEF Lists
<1> QED BY <1>14 DEF z, e

LEMMA TuplesList ==
    ASSUME NEW d, Well(d)
    PROVE  Lists(Tuples(d), d, Len(d.bins))
<1> DEFINE n == Len(d.bins)
<1>1. PICK u : TuplesUp(u, d) /\ Tuples(d) = u[n]
  BY TuplesByBin
<1>2. n \in Nat
  <2>1. d.bins \in Seq([size : Nat, data : Seq(Entry)])
    BY DEF Well
  <2> QED BY <2>1, LenProperties
<1> DEFINE S == {i \in 0..n : Lists(u[i], d, i)}
<1>3. 0 \in S
  <2>1. u[0] = << >> /\ Range(<< >>) = {} /\ Len(<< >>) = 0
    BY <1>1 DEF TuplesUp, Range
  <2>2. Lists(u[0], d, 0)
    BY <2>1 DEF Lists
  <2> QED BY <1>2, <2>2
<1>4. ASSUME NEW i \in 0..(n - 1), i \in S PROVE i + 1 \in S
  <2>1. i + 1 \in 1..n /\ (i + 1) - 1 = i /\ i + 1 \in 0..n
    BY <1>2
  <2>2. u[i + 1] = u[(i + 1) - 1] \o d.bins[i + 1].data
    BY <1>1, <2>1 DEF TuplesUp
  <2>3. u[i + 1] = u[i] \o d.bins[i + 1].data
    BY <2>1, <2>2
  <2>4. Lists(u[i], d, i)
    BY <1>4
  <2>5. Lists(u[i + 1], d, i + 1)
    BY <2>3, <2>4, ListsNext
  <2> QED BY <2>1, <2>5
<1> HIDE DEF S
<1>5. 0..n \subseteq S
  BY <1>2, <1>3, <1>4, InductionUpTo
<1>6. n \in S
  BY <1>2, <1>5
<1> QED BY <1>1, <1>6 DEF S

(* There are as many places in the list as entries in the table, and as many
   with a key as entries with one.                                         *)
LEMMA TuplesCount ==
    ASSUME NEW d, Well(d)
    PROVE  /\ Len(Tuples(d)) = Cardinality(Stored(d)) /\ Len(Tuples(d)) = d.size
           /\ Cardinality({i \in DOMAIN Tuples(d) : Tuples(d)[i].key # NULL})
                 = Cardinality({t \in Stored(d) : t.key # NULL})
<1> DEFINE s == Tuples(d)
           n == Len(s)
           K == {i \in 1..n : s[i].key # NULL}
           E == {t \in Stored(d) : t.key # NULL}
<1>1. d \in [size : Nat, bins : Seq([size : Nat, data : Seq(Entry)])]
  BY DEF Well
<1>2. Lists(s, d, Len(d.bins))
  BY TuplesList
<1>3. s \in Seq(Entry) /\ n \in Nat /\ DOMAIN s = 1..n /\ \A p, q \in 1..n : s[p] = s[q] => p = q
  BY <1>2, LenProperties DEF Lists
<1>4. ASSUME NEW t PROVE t \in Range(s) <=> t \in Stored(d)
  BY <1>1, <1>2, StoredAt DEF Lists
<1>5. Range(s) = {s[p] : p \in 1..n}
  BY <1>3, Ranges
<1>6. Stored(d) = {s[p] : p \in 1..n}
  BY <1>4, <1>5
<1> HIDE DEF s, n
<1>7. Cardinality(Stored(d)) = n
  <2> DEFINE f == [p \in 1..n |-> s[p]]
  <2>1. f \in [1..n -> Stored(d)]
    BY <1>6
  <2>2. f \in Injection(1..n, Stored(d))
    BY <1>3, <2>1 DEF Injection, IsInjective
  <2>3. f \in Surjection(1..n, Stored(d))
    BY <1>6, <2>1 DEF Surjection
  <2>4. ExistsBijection(1..n, Stored(d))
    BY <2>2, <2>3 DEF ExistsBijection, Bijection
  <2> QED BY <1>3, <2>4, FS_CountingElements
<1>8. Cardinality(K) = Cardinality(E)
  <2> DEFINE f == [p \in K |-> s[p]]
  <2>1. f \in [K -> E]
    BY <1>6
  <2>2. f \in Injection(K, E)
    BY <1>3, <2>1 DEF Injection, IsInjective
  <2>3. f \in Surjection(K, E)
    <3>1. \A t \in E : \E p \in K : f[p] = t
      BY <1>6
    <3> QED BY <2>1, <3>1 DEF Surjection
  <2>4. ExistsBijection(K, E)
    BY <2>2, <2>3 DEF ExistsBijection, Bijection
  <2>5. IsFiniteSet(1..n) /\ K \subseteq 1..n
    BY <1>3, FS_Interval
  <2>6. IsFiniteSet(K)
    BY <2>5, FS_Subset
  <2> HIDE DEF K, E
  <2> QED BY <2>4, <2>6, FS_Bijection
<1> QED BY <1>3, <1>7, <1>8 DEF s, n, Well

-----------------------------------------------------------------------------
(* Nodes.                                                                  *)

(* As many nodes as entries need: one more whenever the last is full.      *)
LEMMA NodesForEntries ==
    ASSUME IndexAssumption
    PROVE  /\ NodesFor(0) = 0
           /\ \A n \in Nat : NodesFor(n) \in Nat
           /\ \A n \in Nat : NodesFor(n + 1) = NodesFor(n) + (IF n % NodeSize = 0 THEN 1 ELSE 0)
<1> DEFINE c == NodeSize
<1>1. c \in Nat /\ c > 0
  BY Constants
<1> HIDE DEF c
<1>2. ASSUME NEW q \in Int, NEW r \in 0..(c - 1) PROVE (c * q + r) \div c = q
  <2> DEFINE x == c * q + r
  <2>1. x \in Int /\ x \div c \in Int /\ x % c \in 0..(c - 1) /\ x = c * (x \div c) + (x % c)
    BY <1>1
  <2>2. c * q + r = c * (x \div c) + (x % c)
    BY <2>1
  <2> QED BY <1>1, <2>1, <2>2, UniqueDivision
<1>3. NodesFor(0) = 0
  <2>1. c - 1 \in 0..(c - 1) /\ c * 0 = 0 /\ 0 + c - 1 = 0 + (c - 1)
    BY <1>1
  <2>2. (0 + c - 1) \div c = 0
    BY <1>2, <2>1
  <2> QED BY <2>2 DEF NodesFor, c
<1>4. ASSUME NEW n \in Nat PROVE NodesFor(n) \in Nat
  <2>1. n + c - 1 \in Nat
    BY <1>1
  <2>2. (n + c - 1) \div c \in Nat
    BY <1>1, <2>1
  <2> QED BY <2>2 DEF NodesFor, c
<1>5. ASSUME NEW n \in Nat PROVE NodesFor(n + 1) = NodesFor(n) + (IF n % NodeSize = 0 THEN 1 ELSE 0)
  <2> DEFINE q == n \div c
             r == n % c
  <2>1. q \in Nat /\ r \in 0..(c - 1) /\ n = c * q + r
    BY <1>1, Division
  <2> HIDE DEF q, r
  <2>2. c * (q + 1) = c * q + c /\ c * q \in Nat
    BY <1>1, <2>1
  <2> DEFINE p == c * q
  <2>3. (n + 1) + c - 1 = c * (q + 1) + r
    <3>1. p \in Nat /\ c * (q + 1) = p + c /\ n = p + r
      BY <2>1, <2>2
    <3> HIDE DEF p
    <3> QED BY <1>1, <2>1, <3>1
  <2>4. NodesFor(n + 1) = q + 1
    <3>1. q + 1 \in Int
      BY <2>1
    <3>2. ((n + 1) + c - 1) \div c = q + 1
      BY <1>2, <2>1, <2>3, <3>1
    <3> QED BY <3>2 DEF NodesFor, c
  <2>5. CASE r = 0
    <3>1. n + c - 1 = c * q + (c - 1) /\ c - 1 \in 0..(c - 1)
      <4>1. p \in Nat /\ n = p
        BY <2>1, <2>2, <2>5
      <4> HIDE DEF p
      <4>2. n + c - 1 = p + (c - 1) /\ c - 1 \in 0..(c - 1)
        BY <1>1, <4>1
      <4> QED BY <4>2 DEF p
    <3>2. (n + c - 1) \div c = q
      BY <1>2, <2>1, <3>1
    <3> QED BY <2>1, <2>4, <2>5, <3>2 DEF NodesFor, c, r
  <2>6. CASE r # 0
    <3>1. n + c - 1 = c * (q + 1) + (r - 1) /\ r - 1 \in 0..(c - 1)
      <4>1. p \in Nat /\ n = p + r /\ c * (q + 1) = p + c
        BY <2>1, <2>2
      <4> HIDE DEF p
      <4> QED BY <1>1, <2>1, <2>6, <4>1
    <3>2. (n + c - 1) \div c = q + 1
      <4>1. q + 1 \in Int
        BY <2>1
      <4> QED BY <1>2, <3>1, <4>1
    <3> QED BY <2>1, <2>4, <2>6, <3>2 DEF NodesFor, c, r
  <2> QED BY <2>5, <2>6
<1> QED BY <1>3, <1>4, <1>5

(* f has the nodes of the first i bins, for each i.                        *)
InBinsUp(f, d) ==
    /\ f \in [0..Len(d.bins) -> Nat] /\ f[0] = 0
    /\ \A i \in 1..Len(d.bins) : f[i] = f[i - 1] + NodesFor(Len(d.bins[i].data))

LEMMA InBinsByBin ==
    ASSUME IndexAssumption, NEW d, Well(d)
    PROVE  \E f : InBinsUp(f, d) /\ InBins(d) = f[Len(d.bins)]
<1> DEFINE T == Nat
           n == Len(d.bins)
           step == [p \in (1..n) \X T |-> p[2] + NodesFor(Len(d.bins[p[1]].data))]
           Rule(g) == [i \in 0..n |-> IF i = 0 THEN 0 ELSE g[i - 1] + NodesFor(Len(d.bins[i].data))]
           g == CHOOSE h : h = Rule(h)
<1>1. n \in Nat /\ 0 \in T /\ \A i \in 1..n : NodesFor(Len(d.bins[i].data)) \in Nat
  <2>1. d.bins \in Seq([size : Nat, data : Seq(Entry)])
    BY DEF Well
  <2>2. n \in Nat
    BY <2>1, LenProperties
  <2>3. ASSUME NEW i \in 1..n PROVE NodesFor(Len(d.bins[i].data)) \in Nat
    <3>1. d.bins[i].data \in Seq(Entry)
      BY Parts
    <3> QED BY <3>1, LenProperties, NodesForEntries
  <2> QED BY <2>2, <2>3
<1>2. \A i \in 1..n, x \in T : x + NodesFor(Len(d.bins[i].data)) \in T
  BY <1>1
<1>3. step \in [(1..n) \X T -> T]
  BY <1>2
<1>4. \A i \in 1..n, x \in T : step[<<i, x>>] = x + NodesFor(Len(d.bins[i].data))
  OBVIOUS
<1> HIDE DEF step, n, T
<1>a. n \in Nat
  BY <1>1
<1>5. PICK f \in [0..n -> T] : f[0] = 0 /\ \A i \in 1..n : f[i] = step[<<i, f[i - 1]>>]
  <2> DEFINE base == 0
  <2>1. base \in T /\ n \in Nat
    BY <1>1
  <2> HIDE DEF base
  <2>2. \E f \in [0..n -> T] : Follows(f, n, base, step)
    BY <1>3, <2>1, RecursiveFunction, Zenon
  <2> QED BY <2>2 DEF base, Follows
<1>6. ASSUME NEW i \in 1..n PROVE f[i] = f[i - 1] + NodesFor(Len(d.bins[i].data))
  <2>1. f[i - 1] \in T
    BY <1>1
  <2> QED BY <1>4, <1>5, <2>1
<1>7. f = Rule(f)
  <2>1. ASSUME NEW i \in 0..n PROVE f[i] = IF i = 0 THEN 0 ELSE f[i - 1] + NodesFor(Len(d.bins[i].data))
    <3>1. CASE i = 0
      BY <1>5, <3>1
    <3>2. CASE i # 0
      <4>1. i \in 1..n
        BY <1>1, <3>2
      <4> QED BY <1>6, <3>2, <4>1
    <3> QED BY <3>1, <3>2
  <2> QED BY <2>1
<1>8. g = Rule(g)
  BY <1>7
<1> HIDE DEF g
<1>9. g[0] = 0 /\ \A i \in 1..n : g[i] = g[i - 1] + NodesFor(Len(d.bins[i].data))
  BY <1>1, <1>8
<1>10. \A i \in 0..n : g[i] = f[i]
  <2> DEFINE S == {i \in 0..n : g[i] = f[i]}
  <2>1. 0 \in S
    BY <1>1, <1>5, <1>9
  <2>2. ASSUME NEW i \in 0..(n - 1), i \in S PROVE i + 1 \in S
    <3>1. i + 1 \in 1..n /\ (i + 1) - 1 = i /\ i + 1 \in 0..n
      BY <1>a
    <3>2. f[i + 1] = f[(i + 1) - 1] + NodesFor(Len(d.bins[i + 1].data)) /\ g[i + 1] = g[(i + 1) - 1] + NodesFor(Len(d.bins[i + 1].data))
      BY <1>6, <1>9, <3>1
    <3>3. g[(i + 1) - 1] = f[(i + 1) - 1]
      BY <2>2, <3>1
    <3>4. g[i + 1] = f[i + 1]
      BY <3>2, <3>3
    <3> QED BY <3>1, <3>4
  <2> HIDE DEF S
  <2>3. 0..n \subseteq S
    BY <1>1, <2>1, <2>2, InductionUpTo
  <2> QED BY <2>3 DEF S
<1>11. InBins(d) = g[n]
  BY DEF InBins, g, n
<1>12. InBins(d) = f[n]
  BY <1>1, <1>10, <1>11
<1>13. InBinsUp(f, d)
  BY <1>5, <1>6 DEF InBinsUp, n, T
<1> QED BY <1>12, <1>13 DEF n

(* The nodes of a table of which one bin has changed.                      *)
LEMMA BinNodes ==
    ASSUME IndexAssumption, NEW d, Well(d), NEW e, Well(e), NEW b \in 1..Len(d.bins),
           NEW n, NEW data, Rebinned(e, d, b, n, data)
    PROVE  /\ InBins(d) \in Nat /\ InBins(e) \in Nat
           /\ InBins(e) = InBins(d) + (NodesFor(Len(data)) - NodesFor(Len(d.bins[b].data)))
<1> DEFINE w == Len(d.bins)
           was(i) == NodesFor(Len(d.bins[i].data))
           is(i) == NodesFor(Len(e.bins[i].data))
           m == NodesFor(Len(data)) - was(b)
<1>1. w \in Nat /\ b \in 1..w /\ Len(e.bins) = w
  BY Parts DEF Rebinned
<1>2. PICK f : InBinsUp(f, d) /\ InBins(d) = f[w]
  BY InBinsByBin
<1>3. PICK g : InBinsUp(g, e) /\ InBins(e) = g[w]
  BY <1>1, InBinsByBin
<1>4. \A i \in 1..w : is(i) = IF i = b THEN was(i) + m ELSE was(i)
  <2>1. ASSUME NEW i \in 1..w, i # b PROVE is(i) = was(i)
    BY <2>1 DEF Rebinned
  <2>2. is(b) = was(b) + m
    <3>1. e.bins[b].data = data
      BY DEF Rebinned
    <3>2. d.bins[b].data \in Seq(Entry) /\ e.bins[b].data \in Seq(Entry)
      BY <1>1, Parts
    <3>3. Len(d.bins[b].data) \in Nat /\ Len(data) \in Nat
      BY <3>1, <3>2, LenProperties
    <3>4. was(b) \in Nat /\ NodesFor(Len(data)) \in Nat
      BY <3>3, NodesForEntries
    <3>5. is(b) = NodesFor(Len(data))
      BY <3>1
    <3> HIDE DEF was, is
    <3> QED BY <3>4, <3>5
  <2> QED BY <2>1, <2>2
<1>5. \A i \in 0..w : f[i] \in Nat /\ g[i] \in Nat
  BY <1>1, <1>2, <1>3 DEF InBinsUp
<1>6. \A i \in 1..w : f[i] = f[i - 1] + was(i) /\ g[i] = g[i - 1] + is(i)
  BY <1>1, <1>2, <1>3 DEF InBinsUp
<1>7. \A i \in 1..w : was(i) \in Nat /\ m \in Int
  <2>1. ASSUME NEW i \in 1..w PROVE was(i) \in Nat
    <3>1. d.bins[i].data \in Seq(Entry)
      BY Parts
    <3> QED BY <3>1, LenProperties, NodesForEntries
  <2>2. NodesFor(Len(data)) \in Nat
    <3>1. e.bins[b].data = data /\ e.bins[b].data \in Seq(Entry)
      BY <1>1, Parts DEF Rebinned
    <3> QED BY <3>1, LenProperties, NodesForEntries
  <2> QED BY <2>1, <2>2
<1> HIDE DEF w, was, is, m
<1> DEFINE S == {i \in 0..w : g[i] = f[i] + IF i >= b THEN m ELSE 0}
<1>8. 0 \in S
  BY <1>1, <1>2, <1>3 DEF InBinsUp
<1>9. ASSUME NEW i \in 0..(w - 1), i \in S PROVE i + 1 \in S
  <2>1. i + 1 \in 1..w /\ (i + 1) - 1 = i /\ i + 1 \in 0..w /\ i \in 0..w
    BY <1>1
  <2>2. f[i + 1] = f[i] + was(i + 1) /\ g[i + 1] = g[i] + is(i + 1)
    BY <1>6, <2>1
  <2>3. is(i + 1) = (IF i + 1 = b THEN was(i + 1) + m ELSE was(i + 1)) /\ was(i + 1) \in Nat /\ m \in Int
    BY <1>4, <1>7, <2>1
  <2>4. g[i] = f[i] + (IF i >= b THEN m ELSE 0) /\ f[i] \in Nat /\ g[i] \in Nat
    BY <1>5, <1>9, <2>1
  <2>5. g[i + 1] = f[i + 1] + IF i + 1 >= b THEN m ELSE 0
    <3>1. CASE i + 1 = b
      BY <1>1, <2>1, <2>2, <2>3, <2>4, <3>1
    <3>2. CASE i + 1 # b
      BY <1>1, <2>1, <2>2, <2>3, <2>4, <3>2
    <3> QED BY <3>1, <3>2
  <2> QED BY <2>1, <2>5
<1> HIDE DEF S
<1>10. w \in S
  <2>1. 0..w \subseteq S
    BY <1>1, <1>8, <1>9, InductionUpTo
  <2> QED BY <1>1, <2>1
<1>11. g[w] = f[w] + m
  BY <1>1, <1>10 DEF S
<1> QED BY <1>1, <1>2, <1>3, <1>5, <1>11 DEF m, was

(* Empty bins have none.                                                   *)
LEMMA BlankNodes ==
    ASSUME IndexAssumption, NEW d, Well(d), \A b \in 1..Len(d.bins) : d.bins[b].data = << >>
    PROVE  InBins(d) = 0
<1> DEFINE w == Len(d.bins)
<1>1. w \in Nat
  <2>1. d.bins \in Seq([size : Nat, data : Seq(Entry)])
    BY DEF Well
  <2> QED BY <2>1, LenProperties
<1>2. PICK f : InBinsUp(f, d) /\ InBins(d) = f[w]
  BY InBinsByBin
<1>3. \A i \in 1..w : f[i] = f[i - 1] + 0
  <2> TAKE i \in 1..w
  <2>1. Len(d.bins[i].data) = 0
    BY EmptySeq
  <2> QED BY <1>2, <2>1, NodesForEntries DEF InBinsUp
<1> DEFINE S == {i \in 0..w : f[i] = 0}
<1>4. 0 \in S
  BY <1>1, <1>2 DEF InBinsUp
<1> HIDE DEF w
<1>5. ASSUME NEW i \in 0..(w - 1), i \in S PROVE i + 1 \in S
  <2>1. i + 1 \in 1..w /\ (i + 1) - 1 = i /\ i + 1 \in 0..w
    BY <1>1
  <2>2. f[i + 1] = f[i] + 0
    BY <1>3, <2>1
  <2> QED BY <1>5, <2>1, <2>2
<1> HIDE DEF S
<1>6. w \in S
  <2>1. 0..w \subseteq S
    BY <1>1, <1>4, <1>5, InductionUpTo
  <2> QED BY <1>1, <2>1
<1> QED BY <1>2, <1>6 DEF S, w

-----------------------------------------------------------------------------
(* Nodes in growth.                                                        *)

(* The free list and the nodes allocated when bin i is split too.          *)
Needed(d, i)   == NodesFor(Len(Moved(d.bins[i].data, Len(d.bins))))
Staying(d, i)  == NodesFor(Len(Kept(d.bins[i].data, Len(d.bins))))
Holding(d, i)  == NodesFor(Len(d.bins[i].data))

SplitStep(d, i, before) ==
    [free |-> Free(before.free - Needed(d, i)) + (Holding(d, i) - Staying(d, i)),
     made |-> before.made + Free(Needed(d, i) - before.free)]

SplitUp(f, d) ==
    /\ f \in [0..Len(d.bins) -> [free : Int, made : Int]] /\ f[0] = [free |-> 0, made |-> 0]
    /\ \A i \in 1..Len(d.bins) : f[i] = SplitStep(d, i, f[i - 1])

LEMMA SplitCounts ==
    ASSUME IndexAssumption, NEW d, Well(d), NEW i \in 1..Len(d.bins)
    PROVE  Needed(d, i) \in Nat /\ Staying(d, i) \in Nat /\ Holding(d, i) \in Nat
<1> DEFINE data == d.bins[i].data
           k == Kept(data, Len(d.bins))
           m == Moved(data, Len(d.bins))
<1>1. data \in Seq(Entry)
  BY Parts
<1> HIDE DEF data
<1>2. k \in Seq(Entry) /\ m \in Seq(Entry)
  BY <1>1, ChosenPlaces DEF Kept, Moved
<1>3. Len(k) \in Nat /\ Len(m) \in Nat /\ Len(data) \in Nat
  BY <1>1, <1>2, LenProperties
<1>4. NodesFor(Len(k)) \in Nat /\ NodesFor(Len(m)) \in Nat /\ NodesFor(Len(data)) \in Nat
  BY <1>3, NodesForEntries
<1> QED BY <1>4 DEF Needed, Staying, Holding, data

LEMMA SplitByBin ==
    ASSUME IndexAssumption, NEW d, Well(d)
    PROVE  \E f : SplitUp(f, d) /\ SplitNodes(d)[cap(d)] = f[Len(d.bins)]
<1> DEFINE T == [free : Int, made : Int]
           n == Len(d.bins)
           step == [p \in (1..n) \X T |-> SplitStep(d, p[1], p[2])]
           Rule(g) == [i \in 0..n |-> IF i = 0 THEN [free |-> 0, made |-> 0] ELSE SplitStep(d, i, g[i - 1])]
           g == CHOOSE h : h = Rule(h)
<1>1. n \in Nat /\ [free |-> 0, made |-> 0] \in T /\ \A i \in 1..n : Needed(d, i) \in Nat /\ Staying(d, i) \in Nat /\ Holding(d, i) \in Nat
  <2>1. d.bins \in Seq([size : Nat, data : Seq(Entry)])
    BY DEF Well
  <2>2. n \in Nat
    BY <2>1, LenProperties
  <2> QED BY <2>2, SplitCounts
<1>2. \A i \in 1..n, x \in T : SplitStep(d, i, x) \in T
  <2> TAKE i \in 1..n, x \in T
  <2>1. x.free \in Int /\ x.made \in Int
    OBVIOUS
  <2>2. \A y \in Int : Free(y) \in Int
    BY DEF Free
  <2>3. Needed(d, i) \in Int /\ Staying(d, i) \in Int /\ Holding(d, i) \in Int
    <3>1. Needed(d, i) \in Nat /\ Staying(d, i) \in Nat /\ Holding(d, i) \in Nat
      BY <1>1
    <3> QED BY <3>1
  <2> DEFINE less == x.free - Needed(d, i)
             more == Needed(d, i) - x.free
  <2>a. less \in Int /\ more \in Int
    BY <2>1, <2>3
  <2> HIDE DEF less, more
  <2>b. Free(less) \in Int /\ Free(more) \in Int
    BY <2>2, <2>a
  <2>4. Free(less) + (Holding(d, i) - Staying(d, i)) \in Int
    BY <2>3, <2>b
  <2>5. x.made + Free(more) \in Int
    BY <2>1, <2>b
  <2> QED BY <2>4, <2>5 DEF SplitStep, less, more
<1>3. step \in [(1..n) \X T -> T]
  BY <1>2
<1>4. \A i \in 1..n, x \in T : step[<<i, x>>] = SplitStep(d, i, x)
  OBVIOUS
<1> HIDE DEF step, n, T
<1>a. n \in Nat
  BY <1>1
<1>5. PICK f \in [0..n -> T] : f[0] = [free |-> 0, made |-> 0] /\ \A i \in 1..n : f[i] = step[<<i, f[i - 1]>>]
  <2> DEFINE base == [free |-> 0, made |-> 0]
  <2>1. base \in T /\ n \in Nat
    BY <1>1
  <2> HIDE DEF base
  <2>2. \E f \in [0..n -> T] : Follows(f, n, base, step)
    BY <1>3, <2>1, RecursiveFunction, Zenon
  <2> QED BY <2>2 DEF base, Follows
<1>6. ASSUME NEW i \in 1..n PROVE f[i] = SplitStep(d, i, f[i - 1])
  <2>1. f[i - 1] \in T
    BY <1>1
  <2> QED BY <1>4, <1>5, <2>1
<1>7. f = Rule(f)
  <2>1. ASSUME NEW i \in 0..n PROVE f[i] = IF i = 0 THEN [free |-> 0, made |-> 0] ELSE SplitStep(d, i, f[i - 1])
    <3>1. CASE i = 0
      BY <1>5, <3>1
    <3>2. CASE i # 0
      <4>1. i \in 1..n
        BY <1>1, <3>2
      <4> QED BY <1>6, <3>2, <4>1
    <3> QED BY <3>1, <3>2
  <2> QED BY <2>1
<1>8. g = Rule(g)
  BY <1>7
<1> HIDE DEF g
<1>9. g[0] = [free |-> 0, made |-> 0] /\ \A i \in 1..n : g[i] = SplitStep(d, i, g[i - 1])
  BY <1>1, <1>8
<1>10. \A i \in 0..n : g[i] = f[i]
  <2> DEFINE S == {i \in 0..n : g[i] = f[i]}
  <2>1. 0 \in S
    BY <1>1, <1>5, <1>9
  <2>2. ASSUME NEW i \in 0..(n - 1), i \in S PROVE i + 1 \in S
    <3>1. i + 1 \in 1..n /\ (i + 1) - 1 = i /\ i + 1 \in 0..n
      BY <1>a
    <3>2. f[i + 1] = SplitStep(d, i + 1, f[(i + 1) - 1]) /\ g[i + 1] = SplitStep(d, i + 1, g[(i + 1) - 1])
      BY <1>6, <1>9, <3>1
    <3>3. g[(i + 1) - 1] = f[(i + 1) - 1]
      BY <2>2, <3>1
    <3>4. g[i + 1] = f[i + 1]
      BY <3>2, <3>3
    <3> QED BY <3>1, <3>4
  <2> HIDE DEF S
  <2>3. 0..n \subseteq S
    BY <1>1, <2>1, <2>2, InductionUpTo
  <2> QED BY <2>3 DEF S
<1>11. SplitNodes(d)[cap(d)] = g[n]
  BY DEF SplitNodes, SplitStep, Needed, Staying, Holding, cap, g, n
<1>12. SplitNodes(d)[cap(d)] = f[n]
  BY <1>1, <1>10, <1>11
<1>13. SplitUp(f, d)
  BY <1>5, <1>6 DEF SplitUp, n, T
<1> QED BY <1>12, <1>13 DEF n

(* Growth allocates the nodes that the bins have more than before, and those
   that it frees at the end.                                               *)
LEMMA SplitNodesOwned ==
    ASSUME IndexAssumption, NEW d, Well(d), d.bins # << >>, NEW e, e = SplitTable(d),
           NEW s, s = SplitNodes(d)[cap(d)]
    PROVE  s.made \in Int /\ s.free \in Int /\ InBins(e) = InBins(d) + (s.made - s.free)
<1> DEFINE c == Len(d.bins)
           T == [free : Int, made : Int]
<1>1. c \in Nat /\ c > 0
  <2>1. d.bins \in Seq([size : Nat, data : Seq(Entry)])
    BY DEF Well
  <2> QED BY <2>1, EmptySeq
<1>2. Halved(e, d) /\ Well(e)
  BY DoubledHalves, HalvesWell
<1>3. Len(e.bins) = 2 * c
  BY <1>2 DEF Halved
<1>4. PICK f : InBinsUp(f, d) /\ InBins(d) = f[c]
  BY InBinsByBin
<1>5. PICK g : InBinsUp(g, e) /\ InBins(e) = g[2 * c]
  BY <1>2, <1>3, InBinsByBin
<1>6. PICK u : SplitUp(u, d) /\ s = u[c]
  BY SplitByBin
<1>7. \A i \in 0..c : f[i] \in Nat /\ u[i] \in T
  BY <1>4, <1>6 DEF InBinsUp, SplitUp
<1>8. \A i \in 0..(2 * c) : g[i] \in Nat
  BY <1>3, <1>5 DEF InBinsUp
<1>9. \A i \in 1..c : f[i] = f[i - 1] + Holding(d, i)
  BY <1>4 DEF InBinsUp, Holding
<1>10. \A i \in 1..c : u[i] = SplitStep(d, i, u[i - 1])
  BY <1>6 DEF SplitUp
<1>11. \A i \in 1..c : g[i] = g[i - 1] + Staying(d, i)
  <2> TAKE i \in 1..c
  <2>1. i \in 1..(2 * c)
    BY <1>1
  <2>2. e.bins[i].data = Kept(d.bins[i].data, c)
    BY <1>2 DEF Halved
  <2> QED BY <1>3, <1>5, <2>1, <2>2 DEF InBinsUp, Staying
<1>12. \A i \in 1..c : g[i + c] = g[(i + c) - 1] + Needed(d, i)
  <2> TAKE i \in 1..c
  <2> DEFINE data == d.bins[i].data
             m == Moved(data, c)
             z == e.bins[i + c].data
  <2>1. i + c \in 1..(2 * c)
    BY <1>1
  <2>2. z \in {m, Reverse(m)}
    BY <1>2 DEF Halved
  <2>3. Own(data, c, i)
    BY Parts
  <2> HIDE DEF data
  <2>4. Own(m, 2 * c, i + c * 1)
    BY <1>1, <2>3, HalfOwn DEF Moved
  <2>5. Len(Reverse(m)) = Len(m)
    <3> DEFINE r == Reverse(m)
               w == 2 * c
               b == i + c * 1
    <3> HIDE DEF m
    <3>1. r = Reverse(m) /\ Own(m, w, b)
      BY <2>4
    <3> HIDE DEF r, w, b
    <3>2. Len(r) = Len(m)
      BY <3>1, ReverseOwn
    <3> QED BY <3>1, <3>2
  <2>6. Len(z) = Len(m)
    BY <2>2, <2>5
  <2>7. g[i + c] = g[(i + c) - 1] + NodesFor(Len(z))
    BY <1>3, <1>5, <2>1 DEF InBinsUp
  <2> QED BY <2>6, <2>7 DEF Needed, data
<1>13. \A i \in 1..c : Needed(d, i) \in Nat /\ Staying(d, i) \in Nat /\ Holding(d, i) \in Nat
  BY SplitCounts
<1> HIDE DEF c
<1> DEFINE S == {i \in 0..c : g[i] + (g[i + c] - g[c]) = f[i] + (u[i].made - u[i].free)}
<1>14. 0 \in S
  <2>1. f[0] = 0 /\ g[0] = 0
    BY <1>4, <1>5 DEF InBinsUp
  <2>2. u[0] = [free |-> 0, made |-> 0]
    BY <1>6 DEF SplitUp
  <2>3. u[0].free = 0 /\ u[0].made = 0
    BY <2>2
  <2>4. g[c] \in Nat /\ 0 + c = c /\ 0 \in 0..c
    <3>1. c \in 0..(2 * c)
      BY <1>1
    <3> QED BY <1>1, <1>8, <3>1
  <2>5. g[0] + (g[0 + c] - g[c]) = f[0] + (u[0].made - u[0].free)
    BY <2>1, <2>3, <2>4
  <2> QED BY <2>4, <2>5
<1>15. ASSUME NEW i \in 0..(c - 1), i \in S PROVE i + 1 \in S
  <2>1. /\ i + 1 \in 1..c /\ (i + 1) - 1 = i /\ i + 1 \in 0..c /\ i \in 0..c
        /\ c \in 0..(2 * c) /\ i + c \in 0..(2 * c) /\ (i + 1) + c \in 0..(2 * c) /\ ((i + 1) + c) - 1 = i + c
    BY <1>1
  <2> DEFINE need == Needed(d, i + 1)
             stay == Staying(d, i + 1)
             hold == Holding(d, i + 1)
             free == u[i].free
             made == u[i].made
  <2>2. f[i + 1] = f[i] + hold /\ g[i + 1] = g[i] + stay /\ g[(i + 1) + c] = g[i + c] + need
    <3>1. g[(i + 1) + c] = g[((i + 1) + c) - 1] + Needed(d, i + 1)
      BY <1>12, <2>1
    <3>2. f[i + 1] = f[(i + 1) - 1] + hold /\ g[i + 1] = g[(i + 1) - 1] + stay
      BY <1>9, <1>11, <2>1
    <3> QED BY <2>1, <3>1, <3>2
  <2>3. u[i + 1] = SplitStep(d, i + 1, u[i])
    <3>1. u[i + 1] = SplitStep(d, i + 1, u[(i + 1) - 1])
      BY <1>10, <2>1
    <3> QED BY <2>1, <3>1
  <2>4. u[i + 1].free = Free(free - need) + (hold - stay) /\ u[i + 1].made = made + Free(need - free)
    BY <2>3 DEF SplitStep
  <2>5. need \in Nat /\ stay \in Nat /\ hold \in Nat
    BY <1>13, <2>1
  <2>6. free \in Int /\ made \in Int
    <3>1. u[i] \in T
      BY <1>7, <2>1
    <3> QED BY <3>1
  <2>7. f[i] \in Nat /\ g[i] \in Nat /\ g[i + c] \in Nat /\ g[c] \in Nat
    <3>1. i \in 0..(2 * c)
      BY <1>1
    <3> QED BY <1>7, <1>8, <2>1, <3>1
  <2>8. g[i] + (g[i + c] - g[c]) = f[i] + (made - free)
    BY <1>15
  <2> HIDE DEF need, stay, hold, free, made
  <2>9. Free(need - free) - Free(free - need) = need - free /\ Free(need - free) \in Int /\ Free(free - need) \in Int
    BY <2>5, <2>6 DEF Free
  <2>10. g[i + 1] + (g[(i + 1) + c] - g[c]) = f[i + 1] + (u[i + 1].made - u[i + 1].free)
    <3> DEFINE x == Free(need - free)
               y == Free(free - need)
    <3>1. x - y = need - free /\ x \in Int /\ y \in Int /\ u[i + 1].free = y + (hold - stay) /\ u[i + 1].made = made + x
      BY <2>4, <2>9
    <3> HIDE DEF x, y
    <3>2. (made + x) - (y + (hold - stay)) = ((made - free) + need) - (hold - stay)
      BY <2>5, <2>6, <3>1
    <3>3. (g[i] + stay) + ((g[i + c] + need) - g[c]) = (f[i] + hold) + (((made - free) + need) - (hold - stay))
      <4> DEFINE a == g[i]
                 p == g[i + c]
                 q == g[c]
                 z == f[i]
      <4>1. a \in Nat /\ p \in Nat /\ q \in Nat /\ z \in Nat /\ a + (p - q) = z + (made - free)
        BY <2>7, <2>8
      <4> HIDE DEF a, p, q, z
      <4>2. (a + stay) + ((p + need) - q) = (a + (p - q)) + (stay + need)
        BY <2>5, <4>1
      <4>3. (z + hold) + (((made - free) + need) - (hold - stay)) = (z + (made - free)) + (stay + need)
        BY <2>5, <2>6, <4>1
      <4> QED BY <4>1, <4>2, <4>3 DEF a, p, q, z
    <3> QED BY <2>2, <3>1, <3>2, <3>3
  <2> QED BY <2>1, <2>10
<1> HIDE DEF S
<1>16. c \in S
  <2>1. 0..c \subseteq S
    BY <1>1, <1>14, <1>15, InductionUpTo
  <2> QED BY <1>1, <2>1
<1>17. g[c] + (g[c + c] - g[c]) = f[c] + (u[c].made - u[c].free)
  BY <1>16 DEF S
<1>18. /\ c + c = 2 * c /\ c \in 0..(2 * c) /\ 2 * c \in 0..(2 * c) /\ c \in 0..c
       /\ g[c] \in Nat /\ g[2 * c] \in Nat /\ f[c] \in Nat /\ u[c] \in T
  <2>1. c + c = 2 * c /\ c \in 0..(2 * c) /\ 2 * c \in 0..(2 * c) /\ c \in 0..c
    BY <1>1
  <2> QED BY <1>7, <1>8, <2>1
<1>19. s.made \in Int /\ s.free \in Int
  BY <1>6, <1>18 DEF c
<1>20. g[c] + (g[2 * c] - g[c]) = f[c] + (s.made - s.free)
  <2>1. s = u[c]
    BY <1>6 DEF c
  <2> QED BY <1>17, <1>18, <2>1
<1>21. g[2 * c] = f[c] + (s.made - s.free)
  BY <1>18, <1>19, <1>20
<1> QED BY <1>4, <1>5, <1>19, <1>21 DEF c

-----------------------------------------------------------------------------
(* The nodes of a map are those of its bins and those that are lost.       *)
NodesRight(d, h) == h \in [nodes : Nat, lost : Nat] /\ h.nodes = InBins(d) + h.lost

LEMMA ChangedNodes ==
    ASSUME IndexAssumption, NEW d, Well(d), NEW e, Well(e), NEW b \in 1..Len(d.bins), NEW n,
           Rechained(e, d, b, n)
    PROVE  /\ InBins(d) \in Nat /\ InBins(e) \in Nat
           /\ InBins(e) = InBins(d) + (NodesFor(Len(d.bins[b].data) + n) - NodesFor(Len(d.bins[b].data)))
<1>1. PICK data : Rebinned(e, d, b, n, data) /\ Len(data) = Len(d.bins[b].data) + n
  BY DEF Rechained
<1>2. /\ InBins(d) \in Nat /\ InBins(e) \in Nat
      /\ InBins(e) = InBins(d) + (NodesFor(Len(data)) - NodesFor(Len(d.bins[b].data)))
  BY <1>1, BinNodes
<1> QED BY <1>1, <1>2

LEMMA TableNodes ==
    ASSUME IndexAssumption, NEW d, Well(d)
    PROVE  InBins(d) \in Nat
<1>1. PICK f : InBinsUp(f, d) /\ InBins(d) = f[Len(d.bins)]
  BY InBinsByBin
<1>2. d.bins \in Seq([size : Nat, data : Seq(Entry)])
  BY DEF Well
<1>3. Len(d.bins) \in 0..Len(d.bins)
  BY <1>2, LenProperties
<1> QED BY <1>1, <1>3 DEF InBinsUp

(* A new entry takes a node if the last one of its bin is full.            *)
LEMMA AppendNodes ==
    ASSUME IndexAssumption, NEW d, Well(d), d.bins # << >>, NEW t \in Entry, t.hash = hash(t.key),
           ~Holds(d, t.key), NEW e, e = Appended(d, t)
    PROVE  InBins(e) = InBins(d) + (IF NeedsNode(d, t) THEN 1 ELSE 0)
<1> DEFINE b == BinOf(d, t.hash)
           n == Len(d.bins[b].data)
<1>1. Well(e) /\ Rechained(e, d, b, 1)
  BY TableAdds
<1>2. t.hash \in Nat /\ d.bins \in Seq([size : Nat, data : Seq(Entry)])
  BY EntryFields DEF Well
<1>3. b \in 1..Len(d.bins) /\ Chain(d, t.hash) = d.bins[b].data /\ Chain(d, t.hash) \in Seq(Entry)
  BY <1>2, BinOfHash
<1> HIDE DEF b
<1>4. InBins(d) \in Nat /\ InBins(e) = InBins(d) + (NodesFor(n + 1) - NodesFor(n))
  BY <1>1, <1>3, ChangedNodes
<1>5. n \in Nat
  BY <1>3, LenProperties
<1>6. NeedsNode(d, t) <=> n % NodeSize = 0
  BY <1>3 DEF NeedsNode
<1> HIDE DEF n
<1>7. NodesFor(n + 1) = NodesFor(n) + (IF n % NodeSize = 0 THEN 1 ELSE 0) /\ NodesFor(n) \in Nat
  BY <1>5, NodesForEntries
<1> QED BY <1>4, <1>6, <1>7

(* A removal empties a node if the entry that fills the hole is its first. *)
LEMMA RemoveNodes ==
    ASSUME IndexAssumption, NEW d, Well(d), NEW k \in KeysOrNull, Holds(d, k),
           NEW e, e = remove_entry(d, hash(k), Place(d, k))
    PROVE  /\ InBins(e) \in Nat
           /\ InBins(d) = InBins(e) + (IF (Len(Chain(d, hash(k))) - 1) % NodeSize = 0 THEN 1 ELSE 0)
<1> DEFINE b == BinOf(d, hash(k))
           n == Len(d.bins[b].data)
<1>1. Well(e) /\ Rechained(e, d, b, -1)
  BY TableDrops
<1>2. b \in 1..Len(d.bins) /\ Chain(d, hash(k)) = d.bins[b].data /\ Place(d, k) \in 1..Len(Chain(d, hash(k)))
  BY PlaceOf
<1>3. d.bins[b].data \in Seq(Entry)
  BY <1>2, Parts
<1>4. n \in Nat /\ n > 0 /\ Len(Chain(d, hash(k))) = n
  BY <1>2, <1>3, LenProperties
<1> HIDE DEF b
<1>5. InBins(d) \in Nat /\ InBins(e) \in Nat /\ InBins(e) = InBins(d) + (NodesFor(n + -1) - NodesFor(n))
  BY <1>1, <1>2, ChangedNodes
<1> HIDE DEF n
<1> DEFINE m == n - 1
<1>6. m \in Nat /\ m + 1 = n /\ n + -1 = m
  BY <1>4
<1> HIDE DEF m
<1>7. NodesFor(m + 1) = NodesFor(m) + (IF m % NodeSize = 0 THEN 1 ELSE 0) /\ NodesFor(m) \in Nat
  BY <1>6, NodesForEntries
<1>8. InBins(d) = InBins(e) + (IF m % NodeSize = 0 THEN 1 ELSE 0)
  BY <1>5, <1>6, <1>7
<1> QED BY <1>4, <1>5, <1>8 DEF m

LEMMA StoreNodes ==
    ASSUME IndexAssumption, NEW d, Well(d), NEW k \in KeysOrNull, Holds(d, k), NEW v \in Values,
           NEW e, e = Store(d, hash(k), Place(d, k), v)
    PROVE  InBins(e) = InBins(d)
<1> DEFINE b == BinOf(d, hash(k))
           n == Len(d.bins[b].data)
<1>1. Well(e) /\ Rechained(e, d, b, 0)
  BY TableStores
<1>2. b \in 1..Len(d.bins)
  BY PlaceOf
<1>3. d.bins[b].data \in Seq(Entry)
  BY <1>2, Parts
<1>4. n \in Nat /\ n + 0 = n
  BY <1>3, LenProperties
<1> HIDE DEF b
<1>5. InBins(d) \in Nat /\ InBins(e) = InBins(d) + (NodesFor(n + 0) - NodesFor(n))
  BY <1>1, <1>2, ChangedNodes
<1> HIDE DEF n
<1>6. NodesFor(n) \in Nat
  BY <1>4, NodesForEntries
<1> QED BY <1>4, <1>5, <1>6

(* The outcomes of growth: the same entries, and no node too many.         *)
LEMMA GrowOutcomes ==
    ASSUME IndexAssumption, ~SplitFails, NEW d, Well(d), NEW h, NodesRight(d, h), NEW g \in grow(d, h)
    PROVE  /\ g.ok \in BOOLEAN /\ Well(g.d) /\ Stored(g.d) = Stored(d) /\ NodesRight(g.d, g.heap)
           /\ g.ok => g.d.bins # << >>
<1> DEFINE Outcome(yes, e, m) == [ok |-> yes, d |-> e, heap |-> m]
<1>1. CASE g = Outcome(FALSE, d, h)
  BY <1>1
<1>2. CASE d.bins = << >> /\ g = Outcome(TRUE, Allocated(d), h)
  <2> DEFINE e == Allocated(d)
  <2>1. Well(e) /\ Stored(e) = {} /\ Stored(d) = {} /\ e.bins # << >> /\ Len(e.bins) = InitialCap
    BY <1>2, AllocatedWell
  <2>2. \A b \in 1..Len(e.bins) : e.bins[b].data = << >>
    BY <2>1 DEF Allocated, NewBin
  <2>3. InBins(d) = 0
    <3>1. \A b \in 1..Len(d.bins) : d.bins[b].data = << >>
      BY <1>2, EmptySeq
    <3> QED BY <3>1, BlankNodes
  <2> HIDE DEF e
  <2>4. InBins(e) = 0
    BY <2>1, <2>2, BlankNodes
  <2> QED BY <1>2, <2>1, <2>3, <2>4 DEF NodesRight, e
<1>3. CASE d.bins # << >> /\ g = Outcome(TRUE, SplitTable(d), Split(d, h).heap)
  <2> DEFINE e == SplitTable(d)
             s == SplitNodes(d)[cap(d)]
  <2>1. Halved(e, d)
    BY <1>3, DoubledHalves
  <2>2. Well(e) /\ Stored(e) = Stored(d)
    BY <1>3, <2>1, HalvesWell
  <2>3. g.heap = [nodes |-> h.nodes + s.made - s.free, lost |-> h.lost]
    BY <1>3 DEF Split
  <2>4. e.bins # << >>
    <3>1. d.bins \in Seq([size : Nat, data : Seq(Entry)])
      BY DEF Well
    <3>2. Len(e.bins) = 2 * Len(d.bins) /\ Len(d.bins) \in Nat /\ Len(d.bins) > 0
      BY <1>3, <2>1, <3>1, EmptySeq DEF Halved
    <3> QED BY <3>2, EmptySeq
  <2> HIDE DEF e, s
  <2>5. s.made \in Int /\ s.free \in Int /\ InBins(e) = InBins(d) + (s.made - s.free)
    BY <1>3, SplitNodesOwned DEF e, s
  <2>6. InBins(e) \in Nat /\ InBins(d) \in Nat
    BY <2>2, TableNodes
  <2>7. h.nodes \in Nat /\ h.lost \in Nat /\ h.nodes = InBins(d) + h.lost
    BY DEF NodesRight
  <2>8. h.nodes + s.made - s.free = InBins(e) + h.lost
    BY <2>5, <2>6, <2>7
  <2>9. g.heap \in [nodes : Nat, lost : Nat] /\ g.heap.nodes = InBins(e) + g.heap.lost
    BY <2>3, <2>6, <2>7, <2>8
  <2>10. g.d = e /\ g.ok = TRUE
    BY <1>3 DEF e
  <2> QED BY <2>2, <2>4, <2>9, <2>10 DEF NodesRight
<1>4. \/ g = Outcome(FALSE, d, h)
      \/ d.bins = << >> /\ g = Outcome(TRUE, Allocated(d), h)
      \/ d.bins # << >> /\ g = Outcome(TRUE, SplitTable(d), Split(d, h).heap)
  BY DEF grow, Split
<1> QED BY <1>1, <1>2, <1>3, <1>4

(* The outcomes of adding an entry.                                        *)
Takes(o, d, t) ==
    /\ o.ok \in BOOLEAN /\ Well(o.d) /\ NodesRight(o.d, o.heap)
    /\ Stored(o.d) = IF o.ok THEN Stored(d) \cup {t} ELSE Stored(d)

LEMMA AddOutcomes ==
    ASSUME IndexAssumption, NEW d, Well(d), d.bins # << >>, NEW h, NodesRight(d, h),
           NEW t \in Entry, t.hash = hash(t.key), ~Holds(d, t.key), NEW o \in AddTo(d, h, t)
    PROVE  Takes(o, d, t)
<1> DEFINE e == Appended(d, t)
           In(node) == [ok |-> TRUE, d |-> e, heap |-> [nodes |-> h.nodes + node, lost |-> h.lost]]
           n == IF NeedsNode(d, t) THEN 1 ELSE 0
<1>1. o = In(n) \/ o = [ok |-> FALSE, d |-> d, heap |-> h]
  BY DEF AddTo
<1>2. Well(e) /\ Stored(e) = Stored(d) \cup {t}
  BY TableAdds
<1>3. InBins(e) = InBins(d) + n
  BY AppendNodes
<1> HIDE DEF e
<1>4. CASE o = In(n)
  <2>1. o.ok = TRUE /\ o.d = e /\ o.heap = [nodes |-> h.nodes + n, lost |-> h.lost]
    BY <1>4
  <2>2. h.nodes \in Nat /\ h.lost \in Nat /\ h.nodes = InBins(d) + h.lost /\ n \in Nat
    BY DEF NodesRight
  <2>3. InBins(d) \in Nat
    BY TableNodes
  <2> HIDE DEF n
  <2>4. o.heap \in [nodes : Nat, lost : Nat] /\ o.heap.nodes = InBins(e) + o.heap.lost
    BY <1>3, <2>1, <2>2, <2>3
  <2>5. NodesRight(o.d, o.heap)
    BY <2>1, <2>4 DEF NodesRight
  <2> QED BY <1>2, <2>1, <2>5 DEF Takes
<1>5. CASE o = [ok |-> FALSE, d |-> d, heap |-> h]
  <2>1. o.ok = FALSE /\ o.d = d /\ o.heap = h
    BY <1>5
  <2> QED BY <2>1 DEF Takes
<1> QED BY <1>1, <1>4, <1>5

(* The outcomes of an insertion.                                           *)
NewEntry(k, v) == [hash |-> hash(k), key |-> k, value |-> v]

LEMMA CreateOutcomes ==
    ASSUME IndexAssumption, ~SplitFails, Well(table), NodesRight(table, heap), NEW k \in KeysOrNull,
           NEW v \in Values, ~Holds(table, k), NEW o \in create_item(k, v)
    PROVE  /\ o.ok \in BOOLEAN /\ Well(o.d) /\ NodesRight(o.d, o.heap)
           /\ Stored(o.d) = IF o.ok THEN Stored(table) \cup {NewEntry(k, v)} ELSE Stored(table)
<1> DEFINE t == NewEntry(k, v)
<1>1. t \in Entry /\ t.hash = hash(t.key) /\ t.key = k
  BY Constants DEF NewEntry, Entry
<1>2. CASE table.size >= cap(table) * Load
  <2>1. o \in UNION {IF g.ok THEN AddTo(g.d, g.heap, t) ELSE {g} : g \in grow(table, heap)}
    BY <1>2 DEF create_item, NewEntry
  <2>2. PICK g \in grow(table, heap) : o \in IF g.ok THEN AddTo(g.d, g.heap, t) ELSE {g}
    BY <2>1
  <2> HIDE DEF t
  <2>3. /\ g.ok \in BOOLEAN /\ Well(g.d) /\ Stored(g.d) = Stored(table) /\ NodesRight(g.d, g.heap)
        /\ g.ok => g.d.bins # << >>
    BY <2>2, GrowOutcomes
  <2>4. CASE g.ok
    <3>c. PICK d, h : d = g.d /\ h = g.heap
      OBVIOUS
    <3>1. Well(d) /\ NodesRight(d, h) /\ d.bins # << >> /\ o \in AddTo(d, h, t)
      BY <2>2, <2>3, <2>4, <3>c
    <3>a. Stored(d) = Stored(table)
      BY <2>3, <3>c
    <3>2. ~Holds(d, t.key)
      BY <1>1, <3>a DEF Holds
    <3>b. t \in Entry /\ t.hash = hash(t.key)
      BY <1>1
    <3>4. Takes(o, d, t)
      BY <3>1, <3>2, <3>b, AddOutcomes
    <3>3. /\ o.ok \in BOOLEAN /\ Well(o.d) /\ NodesRight(o.d, o.heap)
          /\ Stored(o.d) = IF o.ok THEN Stored(d) \cup {t} ELSE Stored(d)
      BY <3>4 DEF Takes
    <3> QED BY <3>a, <3>3 DEF t
  <2>5. CASE ~g.ok
    <3>1. o = g
      BY <2>2, <2>5
    <3> QED BY <2>3, <2>5, <3>1
  <2> QED BY <2>4, <2>5
<1>3. CASE ~(table.size >= cap(table) * Load)
  <2>1. o \in AddTo(table, heap, t)
    BY <1>3 DEF create_item, NewEntry
  <2>2. table.bins # << >>
    <3>1. SUFFICES ASSUME table.bins = << >> PROVE FALSE
      OBVIOUS
    <3>2. cap(table) = 0
      BY <3>1, EmptySeq DEF cap
    <3>3. cap(table) * Load = 0 /\ table.size \in Nat
      BY <3>2, TableAssumption DEF Well
    <3> QED BY <1>3, <3>3
  <2>a. t \in Entry /\ t.hash = hash(t.key) /\ ~Holds(table, t.key) /\ Well(table) /\ NodesRight(table, heap)
    BY <1>1
  <2> HIDE DEF t
  <2>3. Takes(o, table, t)
    BY <2>1, <2>2, <2>a, AddOutcomes
  <2>4. /\ o.ok \in BOOLEAN /\ Well(o.d) /\ NodesRight(o.d, o.heap)
        /\ Stored(o.d) = IF o.ok THEN Stored(table) \cup {t} ELSE Stored(table)
    BY <2>3 DEF Takes
  <2> QED BY <2>4 DEF t
<1> QED BY <1>2, <1>3

-----------------------------------------------------------------------------
(* The table as a map.                                                     *)
EntriesOf(d) ==
    [k \in {t.key : t \in Stored(d)} |-> (CHOOSE t \in Stored(d) : t.key = k).value]

Extended(f, k, v) == [j \in DOMAIN f \cup {k} |-> IF j = k THEN v ELSE f[j]]
Shortened(f, k)   == [j \in DOMAIN f \ {k} |-> f[j]]

(* Table e has entry t and otherwise those of d; or those without a key.   *)
Overlaid(e, d, t) == t \in Stored(e) /\ \A s : s.key # t.key => (s \in Stored(e) <=> s \in Stored(d))
Bereft(e, d, k)   == \A s : s \in Stored(e) <=> s \in Stored(d) /\ s.key # k

LEMMA EntryAt ==
    ASSUME NEW d, Well(d), NEW k
    PROVE  /\ k \in DOMAIN EntriesOf(d) <=> Holds(d, k)
           /\ \A t \in Stored(d) : t.key = k => EntriesOf(d)[k] = t.value
<1>1. k \in DOMAIN EntriesOf(d) <=> Holds(d, k)
  BY DEF EntriesOf, Holds
<1>2. ASSUME NEW t \in Stored(d), t.key = k PROVE EntriesOf(d)[k] = t.value
  <2> DEFINE s == CHOOSE x \in Stored(d) : x.key = k
  <2>1. s \in Stored(d) /\ s.key = k
    BY <1>2
  <2>2. s = t
    BY <1>2, <2>1, OneForEachKey
  <2>3. k \in {x.key : x \in Stored(d)}
    BY <1>2
  <2>4. EntriesOf(d)[k] = s.value
    BY <2>3 DEF EntriesOf
  <2> QED BY <2>2, <2>4
<1> QED BY <1>1, <1>2

LEMMA EntriesAre ==
    ASSUME NEW d, Well(d), NEW S, NEW f, f = [k \in S |-> f[k]],
           \A k : k \in S <=> Holds(d, k), \A t \in Stored(d) : f[t.key] = t.value
    PROVE  EntriesOf(d) = f
<1> DEFINE e == EntriesOf(d)
<1>1. e = [k \in DOMAIN e |-> e[k]]
  BY DEF EntriesOf
<1>2. \A k : k \in DOMAIN e <=> k \in S
  BY EntryAt
<1>3. DOMAIN e = S
  BY <1>2
<1>4. ASSUME NEW k \in S PROVE e[k] = f[k]
  <2>1. PICK t \in Stored(d) : t.key = k
    BY DEF Holds
  <2>2. e[k] = t.value
    BY <2>1, EntryAt
  <2> QED BY <2>1, <2>2
<1> HIDE DEF e
<1>5. e = f
  BY <1>1, <1>3, <1>4
<1> QED BY <1>5 DEF e

LEMMA MapExtends ==
    ASSUME NEW d, Well(d), NEW e, Well(e), NEW t, Overlaid(e, d, t)
    PROVE  EntriesOf(e) = Extended(EntriesOf(d), t.key, t.value)
<1> DEFINE m == EntriesOf(d)
           S == DOMAIN m \cup {t.key}
           f == Extended(m, t.key, t.value)
<1>1. f = [k \in S |-> IF k = t.key THEN t.value ELSE m[k]]
  BY DEF Extended
<1>2. f = [k \in S |-> f[k]]
  BY <1>1
<1>3. t \in Stored(e) /\ \A s : s.key # t.key => (s \in Stored(e) <=> s \in Stored(d))
  BY DEF Overlaid
<1>4. ASSUME NEW k PROVE k \in S <=> Holds(e, k)
  <2>1. k \in DOMAIN m <=> Holds(d, k)
    BY EntryAt
  <2> HIDE DEF m
  <2> QED BY <1>3, <2>1 DEF Holds
<1>5. ASSUME NEW s \in Stored(e) PROVE f[s.key] = s.value
  <2>1. CASE s.key = t.key
    <3>1. s = t
      BY <1>3, <2>1, OneForEachKey
    <3> QED BY <1>1, <3>1
  <2>2. CASE s.key # t.key
    <3>1. s \in Stored(d)
      BY <1>3, <2>2
    <3>2. m[s.key] = s.value /\ s.key \in DOMAIN m
      BY <3>1, EntryAt DEF Holds
    <3> HIDE DEF m
    <3> QED BY <1>1, <2>2, <3>2
  <2> QED BY <2>1, <2>2
<1> HIDE DEF S, f
<1>6. EntriesOf(e) = f
  BY <1>2, <1>4, <1>5, EntriesAre
<1> QED BY <1>6 DEF f

LEMMA MapShortens ==
    ASSUME NEW d, Well(d), NEW e, Well(e), NEW k, Bereft(e, d, k)
    PROVE  EntriesOf(e) = Shortened(EntriesOf(d), k)
<1> DEFINE m == EntriesOf(d)
           S == DOMAIN m \ {k}
           f == Shortened(m, k)
<1>1. f = [j \in S |-> m[j]]
  BY DEF Shortened
<1>2. f = [j \in S |-> f[j]]
  BY <1>1
<1>3. \A s : s \in Stored(e) <=> s \in Stored(d) /\ s.key # k
  BY DEF Bereft
<1>4. ASSUME NEW j PROVE j \in S <=> Holds(e, j)
  <2>1. j \in DOMAIN m <=> Holds(d, j)
    BY EntryAt
  <2> HIDE DEF m
  <2> QED BY <1>3, <2>1 DEF Holds
<1>5. ASSUME NEW s \in Stored(e) PROVE f[s.key] = s.value
  <2>1. s \in Stored(d) /\ s.key # k
    BY <1>3
  <2>2. m[s.key] = s.value /\ s.key \in DOMAIN m
    BY <2>1, EntryAt DEF Holds
  <2> HIDE DEF m
  <2> QED BY <1>1, <2>1, <2>2
<1> HIDE DEF S, f
<1>6. EntriesOf(e) = f
  BY <1>2, <1>4, <1>5, EntriesAre
<1> QED BY <1>6 DEF f

LEMMA NoEntries ==
    ASSUME NEW d, Stored(d) = {}
    PROVE  EntriesOf(d) = << >>
<1>1. EntriesOf(d) = [k \in {} |-> (CHOOSE t \in Stored(d) : t.key = k).value]
  BY DEF EntriesOf
<1>2. << >> = [k \in {} |-> (CHOOSE t \in Stored(d) : t.key = k).value]
  OBVIOUS
<1> QED BY <1>1, <1>2

(* The same entries make the same map.                                     *)
LEMMA SameEntries ==
    ASSUME NEW d, NEW e, Stored(e) = Stored(d)
    PROVE  EntriesOf(e) = EntriesOf(d)
BY DEF EntriesOf

(* What each change of the table does to the map.                          *)
LEMMA MapInserts ==
    ASSUME NEW d, Well(d), NEW k, NEW v, ~Holds(d, k), NEW e, Well(e),
           Stored(e) = Stored(d) \cup {NewEntry(k, v)}
    PROVE  k \notin DOMAIN EntriesOf(d) /\ EntriesOf(e) = Extended(EntriesOf(d), k, v)
<1> DEFINE t == NewEntry(k, v)
<1>1. t.key = k /\ t.value = v
  BY DEF NewEntry
<1>2. Overlaid(e, d, t)
  <2>1. t \in Stored(e)
    OBVIOUS
  <2>2. ASSUME NEW s, s.key # t.key PROVE s \in Stored(e) <=> s \in Stored(d)
    BY <2>2
  <2> HIDE DEF t
  <2> QED BY <2>1, <2>2 DEF Overlaid
<1> HIDE DEF t
<1>3. EntriesOf(e) = Extended(EntriesOf(d), t.key, t.value)
  BY <1>2, MapExtends
<1>4. k \notin DOMAIN EntriesOf(d)
  BY EntryAt
<1> QED BY <1>1, <1>3, <1>4

LEMMA MapStores ==
    ASSUME IndexAssumption, NEW d, Well(d), NEW k \in KeysOrNull, Holds(d, k), NEW v \in Values,
           NEW e, e = Store(d, hash(k), Place(d, k), v)
    PROVE  /\ k \in DOMAIN EntriesOf(d) /\ EntriesOf(d)[k] = Chain(d, hash(k))[Place(d, k)].value
           /\ EntriesOf(e) = Extended(EntriesOf(d), k, v)
<1> DEFINE s == Chain(d, hash(k))[Place(d, k)]
           t == Valued(s, v)
<1>1. s \in Stored(d) /\ s.key = k
  BY PlaceOf
<1>2. Well(e) /\ Stored(e) = (Stored(d) \ {s}) \cup {t}
  BY TableStores
<1>3. t.key = k /\ t.value = v
  BY <1>1 DEF Valued
<1> HIDE DEF s, t
<1>4. Overlaid(e, d, t)
  <2>1. ASSUME NEW x, x.key # t.key PROVE x \in Stored(e) <=> x \in Stored(d)
    <3>1. x # t /\ x # s
      BY <1>1, <1>3, <2>1
    <3> QED BY <1>2, <3>1
  <2> QED BY <1>2, <2>1 DEF Overlaid
<1>5. EntriesOf(e) = Extended(EntriesOf(d), t.key, t.value)
  BY <1>2, <1>4, MapExtends
<1>6. k \in DOMAIN EntriesOf(d) /\ EntriesOf(d)[k] = s.value
  BY <1>1, EntryAt
<1> QED BY <1>3, <1>5, <1>6 DEF s

LEMMA MapDrops ==
    ASSUME IndexAssumption, NEW d, Well(d), NEW k \in KeysOrNull, Holds(d, k),
           NEW e, e \in {Unlink(d, hash(k), Place(d, k)), remove_entry(d, hash(k), Place(d, k))}
    PROVE  /\ k \in DOMAIN EntriesOf(d) /\ EntriesOf(d)[k] = Chain(d, hash(k))[Place(d, k)].value
           /\ EntriesOf(e) = Shortened(EntriesOf(d), k)
<1> DEFINE s == Chain(d, hash(k))[Place(d, k)]
<1>1. s \in Stored(d) /\ s.key = k
  BY PlaceOf
<1>2. Well(e) /\ Stored(e) = Stored(d) \ {s}
  BY TableDrops
<1> HIDE DEF s
<1>3. Bereft(e, d, k)
  <2>1. ASSUME NEW x PROVE x \in Stored(e) <=> x \in Stored(d) /\ x.key # k
    <3>1. x \in Stored(d) /\ x.key = k => x = s
      BY <1>1, OneForEachKey
    <3> QED BY <1>1, <1>2, <3>1
  <2> QED BY <2>1 DEF Bereft
<1>4. EntriesOf(e) = Shortened(EntriesOf(d), k)
  BY <1>2, <1>3, MapShortens
<1>5. k \in DOMAIN EntriesOf(d) /\ EntriesOf(d)[k] = s.value
  BY <1>1, EntryAt
<1> QED BY <1>4, <1>5 DEF s

-----------------------------------------------------------------------------
(* The steps.                                                              *)

(* What holds of every state: the table is as it should be, and the nodes. *)
IndexInv ==
    /\ Well(table) /\ NodesRight(table, heap)
    /\ ok \in BOOLEAN /\ old \in Values \cup {NULL} /\ hung = FALSE

(* The map that is promised.                                               *)
TheMap == INSTANCE Map WITH Keys <- KeysOrNull, entries <- Entries

LEMMA MapOfTable == Entries = EntriesOf(table) /\ Entries' = EntriesOf(table')
BY DEF Entries, EntriesOf

(* A search finds a key if it is in the map.                               *)
LEMMA ExistsInMap ==
    ASSUME IndexAssumption, Well(table), NEW k \in KeysOrNull
    PROVE  /\ Exists(k) <=> Holds(table, k)
           /\ Exists(k) <=> TheMap!Present(k)
<1>1. Exists(k) <=> Holds(table, k)
  BY SearchFinds DEF Exists, find_node
<1>2. k \in DOMAIN EntriesOf(table) <=> Holds(table, k)
  BY EntryAt
<1> QED BY <1>1, <1>2, MapOfTable DEF TheMap!Present

LEMMA UpdateStep ==
    ASSUME IndexAssumption, IndexInv, NEW op, NEW k \in KeysOrNull, NEW v \in Values, Exists(k), Update(op, k, v)
    PROVE  IndexInv' /\ TheMap!Asked(op, k, v) /\ TheMap!Update(k, v)
<1>1. Well(table) /\ NodesRight(table, heap) /\ hung = FALSE
  BY DEF IndexInv
<1>2. Holds(table, k)
  BY <1>1, ExistsInMap
<1>3. table' = Store(table, hash(k), Place(table, k), v)
  BY DEF Update, find_node, Place
<1>4. Well(table')
  BY <1>1, <1>2, <1>3, TableStores
<1>5. InBins(table') = InBins(table)
  BY <1>1, <1>2, <1>3, StoreNodes
<1>6. /\ EntriesOf(table)[k] = Chain(table, hash(k))[Place(table, k)].value
      /\ EntriesOf(table') = Extended(EntriesOf(table), k, v)
  BY <1>1, <1>2, <1>3, MapStores
<1>7. heap' = heap /\ hung' = hung /\ ok' = TRUE /\ call' = Called(op, k, v)
      /\ old' = Chain(table, hash(k))[Place(table, k)].value
  BY DEF Update, Answer, Found, find_node, Place
<1>8. old' \in Values
  <2> DEFINE t == Chain(table, hash(k))[Place(table, k)]
  <2>1. t \in Stored(table)
    BY <1>1, <1>2, PlaceOf
  <2>2. t \in Entry
    BY <1>1, <2>1, StoredIn
  <2> QED BY <1>7, <2>2, EntryFields
<1>9. NodesRight(table', heap')
  BY <1>1, <1>5, <1>7 DEF NodesRight
<1>10. IndexInv'
  BY <1>1, <1>4, <1>7, <1>8, <1>9 DEF IndexInv
<1>11. TheMap!Asked(op, k, v)
  BY <1>7 DEF TheMap!Asked, TheMap!Called, Called
<1>12. TheMap!Update(k, v)
  BY <1>6, <1>7, MapOfTable DEF TheMap!Update, TheMap!Answer, TheMap!With, Extended
<1> QED BY <1>10, <1>11, <1>12

LEMMA InsertStep ==
    ASSUME IndexAssumption, ~SplitFails, IndexInv, NEW op, NEW k \in KeysOrNull, NEW v \in Values,
           ~Exists(k), Insert(op, k, v)
    PROVE  IndexInv' /\ TheMap!Asked(op, k, v) /\ TheMap!Insert(k, v)
<1>1. Well(table) /\ NodesRight(table, heap) /\ hung = FALSE
  BY DEF IndexInv
<1>2. ~Holds(table, k)
  BY <1>1, ExistsInMap
<1>3. PICK o \in create_item(k, v) :
          table' = o.d /\ heap' = o.heap /\ call' = Called(op, k, v) /\ ok' = o.ok /\ old' = NULL
  BY DEF Insert, Answer
<1>4. hung' = hung
  BY DEF Insert
<1>5. o.ok \in BOOLEAN /\ Well(o.d)
  BY <1>1, <1>2, CreateOutcomes
<1>6. NodesRight(o.d, o.heap)
  BY <1>1, <1>2, CreateOutcomes
<1>7. Stored(o.d) = IF o.ok THEN Stored(table) \cup {NewEntry(k, v)} ELSE Stored(table)
  BY <1>1, <1>2, CreateOutcomes
<1>8. IndexInv'
  BY <1>1, <1>3, <1>4, <1>5, <1>6 DEF IndexInv
<1>9. TheMap!Asked(op, k, v)
  BY <1>3 DEF TheMap!Asked, TheMap!Called, Called
<1>10. TheMap!Insert(k, v)
  <2>1. CASE o.ok = TRUE
    <3>1. EntriesOf(o.d) = Extended(EntriesOf(table), k, v)
      BY <1>1, <1>2, <1>5, <1>7, <2>1, MapInserts
    <3> QED BY <1>3, <2>1, <3>1, MapOfTable DEF TheMap!Insert, TheMap!Answer, TheMap!With, Extended
  <2>2. CASE o.ok = FALSE
    <3>1. EntriesOf(o.d) = EntriesOf(table)
      BY <1>7, <2>2, SameEntries
    <3> QED BY <1>3, <2>2, <3>1, MapOfTable DEF TheMap!Insert, TheMap!Answer, TheMap!Refuse
  <2> QED BY <1>5, <2>1, <2>2
<1> QED BY <1>8, <1>9, <1>10

LEMMA RefuseStep ==
    ASSUME IndexInv, NEW op, NEW k, NEW v, Refuse(op, k, v)
    PROVE  IndexInv' /\ TheMap!Asked(op, k, v) /\ TheMap!Refuse
<1>1. table' = table /\ heap' = heap /\ hung' = hung /\ ok' = FALSE /\ old' = NULL /\ call' = Called(op, k, v)
  BY DEF Refuse, Answer
<1>2. IndexInv'
  BY <1>1 DEF IndexInv
<1>3. TheMap!Asked(op, k, v)
  BY <1>1 DEF TheMap!Asked, TheMap!Called, Called
<1>4. TheMap!Refuse
  BY <1>1, MapOfTable DEF TheMap!Refuse, TheMap!Answer
<1> QED BY <1>2, <1>3, <1>4

LEMMA RemoveStep ==
    ASSUME IndexAssumption, ~LongBins, IndexInv, NEW k \in KeysOrNull, RemoveKey(k)
    PROVE  IndexInv' /\ TheMap!Remove(k)
<1>1. Well(table) /\ NodesRight(table, heap) /\ hung = FALSE
  BY DEF IndexInv
<1>2. CASE ~Exists(k)
  <2>1. Refuse("remove", k, NULL)
    BY <1>2 DEF RemoveKey
  <2>2. IndexInv' /\ TheMap!Asked("remove", k, NULL) /\ TheMap!Refuse
    BY <2>1, RefuseStep
  <2>3. ~TheMap!Present(k)
    BY <1>1, <1>2, ExistsInMap
  <2> QED BY <2>2, <2>3 DEF TheMap!Remove
<1>3. CASE Exists(k)
  <2> DEFINE n == Len(Chain(table, hash(k)))
             lost == IF (n - 1) % NodeSize = 0 THEN 1 ELSE 0
             e == remove_entry(table, hash(k), Place(table, k))
  <2>1. RemoveFound(k)
    BY <1>3 DEF RemoveKey
  <2>2. Holds(table, k)
    BY <1>1, <1>3, ExistsInMap
  <2>3. table' = e
    BY <2>1 DEF RemoveFound, find_node, Place
  <2>4. heap' = [nodes |-> heap.nodes, lost |-> heap.lost + lost]
    BY <2>1 DEF RemoveFound
  <2>5. hung' = hung /\ call' = Called("remove", k, NULL) /\ ok' = TRUE
        /\ old' = Chain(table, hash(k))[Place(table, k)].value
    BY <2>1 DEF RemoveFound, Answer, Found, find_node, Place
  <2> HIDE DEF e
  <2>6. Well(e)
    BY <1>1, <2>2, TableDrops DEF e
  <2>7. InBins(e) \in Nat /\ InBins(table) = InBins(e) + lost
    BY <1>1, <2>2, RemoveNodes DEF e
  <2>8. EntriesOf(table)[k] = Chain(table, hash(k))[Place(table, k)].value
        /\ EntriesOf(e) = Shortened(EntriesOf(table), k)
    BY <1>1, <2>2, MapDrops DEF e
  <2>9. lost \in Nat
    OBVIOUS
  <2> HIDE DEF lost
  <2>10. NodesRight(e, heap')
    <3>1. heap.nodes \in Nat /\ heap.lost \in Nat /\ heap.nodes = InBins(table) + heap.lost
      BY <1>1 DEF NodesRight
    <3>2. heap.lost + lost \in Nat /\ heap.nodes = InBins(e) + (heap.lost + lost)
      BY <2>7, <2>9, <3>1
    <3> QED BY <2>4, <3>1, <3>2 DEF NodesRight
  <2>11. old' \in Values
    <3> DEFINE t == Chain(table, hash(k))[Place(table, k)]
    <3>1. t \in Stored(table)
      BY <1>1, <2>2, PlaceOf
    <3>2. t \in Entry
      BY <1>1, <3>1, StoredIn
    <3> QED BY <2>5, <3>2, EntryFields
  <2>12. IndexInv'
    BY <1>1, <2>3, <2>5, <2>6, <2>10, <2>11 DEF IndexInv
  <2>13. TheMap!Asked("remove", k, NULL)
    BY <2>5 DEF TheMap!Asked, TheMap!Called, Called
  <2>14. TheMap!Delete(k, Entries[k])
    BY <2>3, <2>5, <2>8, MapOfTable DEF TheMap!Delete, TheMap!Answer, TheMap!Without, Shortened
  <2>15. TheMap!Present(k)
    BY <1>1, <1>3, ExistsInMap
  <2> QED BY <2>12, <2>13, <2>14, <2>15 DEF TheMap!Remove
<1> QED BY <1>2, <1>3

LEMMA ClearStep ==
    ASSUME IndexAssumption, IndexInv, Clear \/ Flush
    PROVE  IndexInv' /\ TheMap!Clear
<1>1. Well(table) /\ NodesRight(table, heap) /\ hung = FALSE
  BY DEF IndexInv
<1>2. PICK d \in {Cleared(table), Empty} : Destroy(d)
  BY DEF Clear, Flush
<1>3. Well(d) /\ Stored(d) = {}
  BY <1>1, <1>2, ClearedWell, EmptyWell
<1>4. table' = d /\ heap' = [nodes |-> heap.nodes - InBins(table), lost |-> heap.lost] /\ hung' = hung
      /\ call' = Called("clear", NULL, NULL) /\ ok' = TRUE /\ old' = NULL
  BY <1>2 DEF Destroy, Answer
<1>5. InBins(d) = 0
  <2>1. ASSUME NEW b \in 1..Len(d.bins) PROVE d.bins[b].data = << >>
    <3> DEFINE data == d.bins[b].data
    <3>1. data \in Seq(Entry) /\ Range(data) \subseteq {}
      BY <1>3, Parts
    <3> HIDE DEF data
    <3>2. \A i \in 1..Len(data) : data[i] \in Range(data)
      BY <3>1, Ranges
    <3>3. Len(data) \in Nat
      BY <3>1, LenProperties
    <3>4. Len(data) = 0
      <4> DEFINE n == Len(data)
      <4>1. n \in Nat /\ ~(1 \in 1..n)
        BY <3>1, <3>2, <3>3
      <4> HIDE DEF n
      <4>2. n = 0
        BY <4>1
      <4> QED BY <4>2 DEF n
    <3>5. data = << >>
      BY <3>1, <3>4, EmptySeq
    <3> QED BY <3>5 DEF data
  <2> QED BY <1>3, <2>1, BlankNodes
<1>6. NodesRight(d, heap')
  <2>1. heap.nodes \in Nat /\ heap.lost \in Nat /\ heap.nodes = InBins(table) + heap.lost /\ InBins(table) \in Nat
    BY <1>1, TableNodes DEF NodesRight
  <2>2. heap.nodes - InBins(table) = heap.lost
    BY <2>1
  <2> QED BY <1>4, <1>5, <2>1, <2>2 DEF NodesRight
<1>7. IndexInv'
  BY <1>1, <1>3, <1>4, <1>6 DEF IndexInv
<1>8. EntriesOf(d) = << >>
  BY <1>3, NoEntries
<1>9. TheMap!Clear
  BY <1>4, <1>8, MapOfTable DEF TheMap!Clear, TheMap!Asked, TheMap!Called, TheMap!Answer, Called
<1> QED BY <1>7, <1>9

-----------------------------------------------------------------------------
(* The invariant, and what it implies.                                     *)

LEMMA IndexInit ==
    ASSUME IndexAssumption, Init
    PROVE  IndexInv /\ TheMap!Init
<1>1. table = Empty /\ heap = [nodes |-> 0, lost |-> 0] /\ hung = FALSE
      /\ call = Called("init", NULL, NULL) /\ ok = TRUE /\ old = NULL
  BY DEF Init
<1>2. Well(table) /\ Stored(table) = {}
  BY <1>1, EmptyWell
<1>3. InBins(table) = 0
  <2>1. Len(table.bins) = 0
    BY <1>1, EmptySeq DEF Empty
  <2>2. \A b \in 1..Len(table.bins) : table.bins[b].data = << >>
    BY <2>1
  <2> QED BY <1>2, <2>2, BlankNodes
<1>4. NodesRight(table, heap)
  BY <1>1, <1>3 DEF NodesRight
<1>5. EntriesOf(table) = << >>
  BY <1>2, NoEntries
<1>6. IndexInv
  BY <1>1, <1>2, <1>4 DEF IndexInv
<1>7. TheMap!Init
  BY <1>1, <1>5, MapOfTable DEF TheMap!Init, TheMap!Called, Called
<1> QED BY <1>6, <1>7

LEMMA IndexNext ==
    ASSUME IndexAssumption, ~LongBins, ~SplitFails, IndexInv, Next
    PROVE  IndexInv' /\ TheMap!Next
<1>1. ASSUME NEW k \in KeysOrNull, NEW v \in Values, Put(k, v)
      PROVE  IndexInv' /\ TheMap!Put(k, v) /\ TheMap!Asked("put", k, v)
  <2>1. Exists(k) <=> TheMap!Present(k)
    BY ExistsInMap DEF IndexInv
  <2>2. CASE Exists(k)
    BY <1>1, <2>1, <2>2, UpdateStep DEF Put, TheMap!Put
  <2>3. CASE ~Exists(k)
    BY <1>1, <2>1, <2>3, InsertStep DEF Put, TheMap!Put
  <2> QED BY <2>2, <2>3
<1>2. ASSUME NEW k \in KeysOrNull, NEW v \in Values, Create(k, v)
      PROVE  IndexInv' /\ TheMap!Create(k, v) /\ TheMap!Asked("create", k, v)
  <2>1. Exists(k) <=> TheMap!Present(k)
    BY ExistsInMap DEF IndexInv
  <2>2. CASE Exists(k)
    BY <1>2, <2>1, <2>2, RefuseStep DEF Create, TheMap!Create
  <2>3. CASE ~Exists(k)
    BY <1>2, <2>1, <2>3, InsertStep DEF Create, TheMap!Create
  <2> QED BY <2>2, <2>3
<1>3. ASSUME NEW k \in KeysOrNull, NEW v \in Values, Replace(k, v)
      PROVE  IndexInv' /\ TheMap!Replace(k, v) /\ TheMap!Asked("replace", k, v)
  <2>1. Exists(k) <=> TheMap!Present(k)
    BY ExistsInMap DEF IndexInv
  <2>2. CASE Exists(k)
    BY <1>3, <2>1, <2>2, UpdateStep DEF Replace, TheMap!Replace
  <2>3. CASE ~Exists(k)
    BY <1>3, <2>1, <2>3, RefuseStep DEF Replace, TheMap!Replace
  <2> QED BY <2>2, <2>3
<1>4. ASSUME NEW k \in KeysOrNull, RemoveKey(k)
      PROVE  IndexInv' /\ TheMap!Remove(k)
  BY <1>4, RemoveStep
<1>5. ASSUME NEW op, NEW k, NEW v, TheMap!Asked(op, k, v)
      PROVE  call'.key = k
  BY <1>5 DEF TheMap!Asked, TheMap!Called
<1>6. ASSUME NEW k \in KeysOrNull, NEW v \in Values, Put(k, v) \/ Create(k, v) \/ Replace(k, v)
      PROVE  IndexInv' /\ TheMap!Method(k)
  <2>1. CASE Put(k, v)
    <3>1. IndexInv' /\ TheMap!Put(k, v) /\ call'.key = k
      BY <1>1, <1>5, <2>1
    <3> QED BY <3>1 DEF TheMap!Method
  <2>2. CASE Create(k, v)
    <3>1. IndexInv' /\ TheMap!Create(k, v) /\ call'.key = k
      BY <1>2, <1>5, <2>2
    <3> QED BY <3>1 DEF TheMap!Method
  <2>3. CASE Replace(k, v)
    <3>1. IndexInv' /\ TheMap!Replace(k, v) /\ call'.key = k
      BY <1>3, <1>5, <2>3
    <3> QED BY <3>1 DEF TheMap!Method
  <2> QED BY <1>6, <2>1, <2>2, <2>3
<1>7. ASSUME NEW k \in KeysOrNull, RemoveKey(k)
      PROVE  IndexInv' /\ TheMap!Method(k)
  <2>1. IndexInv' /\ TheMap!Remove(k)
    BY <1>4, <1>7
  <2>2. call'.key = k
    BY <1>5, <2>1 DEF TheMap!Remove
  <2> QED BY <2>1, <2>2 DEF TheMap!Method
<1>8. ASSUME Clear \/ Flush PROVE IndexInv' /\ TheMap!Clear
  BY <1>8, ClearStep
<1>9. \/ \E k \in KeysOrNull, v \in Values : Put(k, v) \/ Create(k, v) \/ Replace(k, v)
      \/ \E k \in KeysOrNull : RemoveKey(k)
      \/ Clear \/ Flush
  BY DEF Next
<1> QED BY <1>6, <1>7, <1>8, <1>9 DEF TheMap!Next

LEMMA IndexStutter ==
    ASSUME IndexInv, UNCHANGED vars
    PROVE  IndexInv' /\ UNCHANGED TheMap!vars
<1>1. table' = table /\ heap' = heap /\ hung' = hung /\ call' = call /\ ok' = ok /\ old' = old
  BY DEF vars
<1>2. IndexInv'
  BY <1>1 DEF IndexInv
<1>3. Entries' = Entries
  BY <1>1, MapOfTable
<1> QED BY <1>1, <1>2, <1>3 DEF TheMap!vars

(* What the invariant says of a table.                                     *)
LEMMA WellFindable ==
    ASSUME IndexAssumption, Well(table)
    PROVE  Findable
<1>1. table.bins \in Seq([size : Nat, data : Seq(Entry)])
  BY DEF Well
<1>2. DOMAIN table.bins = 1..Len(table.bins)
  BY <1>1, LenProperties
<1>3. ASSUME NEW b \in 1..Len(table.bins) PROVE DOMAIN table.bins[b].data = 1..Len(table.bins[b].data)
  <2> DEFINE data == table.bins[b].data
  <2>1. data \in Seq(Entry)
    BY Parts
  <2> HIDE DEF data
  <2>2. DOMAIN data = 1..Len(data)
    BY <2>1, LenProperties
  <2> QED BY <2>2 DEF data
<1>4. \A b \in 1..Len(table.bins) : \A i \in 1..Len(table.bins[b].data) :
          /\ table.bins[b].data[i].hash = hash(table.bins[b].data[i].key)
          /\ BinOf(table, table.bins[b].data[i].hash) = b
          /\ Search(table, table.bins[b].data[i].key, table.bins[b].data[i].hash) = i
  BY AllFound
<1> QED BY <1>2, <1>3, <1>4 DEF Findable

LEMMA WellSizes ==
    ASSUME Well(table)
    PROVE  SizesAgree
<1>1. table.bins \in Seq([size : Nat, data : Seq(Entry)])
  BY DEF Well
<1>2. DOMAIN table.bins = 1..Len(table.bins)
  BY <1>1, LenProperties
<1>3. \A b \in 1..Len(table.bins) : table.bins[b].size = Len(table.bins[b].data)
  BY Parts
<1>4. Len(Tuples(table)) = table.size
  BY TuplesCount
<1> QED BY <1>2, <1>3, <1>4 DEF SizesAgree

LEMMA IndexProperties ==
    ASSUME IndexAssumption, IndexInv
    PROVE  TypeOK /\ Findable /\ SizesAgree /\ NodesOwned
<1>1. TypeOK
  BY DEF IndexInv, TypeOK, Well, NodesRight
<1>2. Findable /\ SizesAgree
  BY WellFindable, WellSizes DEF IndexInv
<1>3. NodesOwned
  BY DEF IndexInv, NodesRight, NodesOwned
<1> QED BY <1>1, <1>2, <1>3

(* In every state of raw_hash_index, if no client removes an entry with two
   nodes behind its own and memory does not run out inside a split, the table
   is one in which each entry is in the bin of its hash, under one key only,
   and the counters are right.                                             *)
THEOREM IndexInvariant ==
    ASSUME IndexAssumption, ~LongBins, ~SplitFails
    PROVE  Spec => []IndexInv
<1>1. Init => IndexInv
  BY IndexInit
<1>2. IndexInv /\ [Next]_vars => IndexInv'
  <2>1. CASE Next
    BY <2>1, IndexNext
  <2>2. CASE UNCHANGED vars
    BY <2>2, IndexStutter
  <2> QED BY <2>1, <2>2
<1> QED BY <1>1, <1>2, PTL DEF Spec

(* So a search finds every entry, the counters agree with the entries, and
   the nodes that are allocated are those of the bins and those that remove()
   has lost, for every size of a node.                                     *)
THEOREM IndexRight ==
    ASSUME IndexAssumption, ~LongBins, ~SplitFails
    PROVE  Spec => [](TypeOK /\ Findable /\ SizesAgree /\ NodesOwned)
<1>1. IndexInv => TypeOK /\ Findable /\ SizesAgree /\ NodesOwned
  BY IndexProperties
<1>2. Spec => []IndexInv
  BY IndexInvariant
<1> QED BY <1>1, <1>2, PTL

(* The methods of raw_hash_index are those of a map: only an insertion fails,
   for want of memory, and then the map is what it was, though the table may
   have grown.                                                             *)
THEOREM IndexIsMap ==
    ASSUME IndexAssumption, ~LongBins, ~SplitFails
    PROVE  Spec => TheMap!Spec
<1>1. Init => TheMap!Init
  BY IndexInit
<1>2. IndexInv /\ [Next]_vars => [TheMap!Next]_(TheMap!vars)
  <2>1. CASE Next
    BY <2>1, IndexNext
  <2>2. CASE UNCHANGED vars
    BY <2>2, IndexStutter
  <2> QED BY <2>1, <2>2
<1>3. Spec => []IndexInv
  BY IndexInvariant
<1> QED BY <1>1, <1>2, <1>3, PTL DEF Spec, TheMap!Spec
=============================================================================
