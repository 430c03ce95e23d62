---------------------------- MODULE HashedProofs ----------------------------
(***************************************************************************)
(* What the hash containers guarantee, each of them and MCHashed, which is *)
(* all of them, for any keys, values, hashes and sizes.  The tables of     *)
(* pphash, of phashset and of the two instances of hash_index are those of *)
(* HashIndexProofs with other constants: what it proves holds of them.     *)
(***************************************************************************)
EXTENDS MCHashed, Recursion, FiniteSetTheorems, SequenceTheorems, TLAPS

USE TableAssumption

-----------------------------------------------------------------------------
(* Maps with a value more and a key less.                                  *)
Extended(f, k, v) == [j \in DOMAIN f \cup {k} |-> IF j = k THEN v ELSE f[j]]
Shortened(f, k)   == [j \in DOMAIN f \ {k} |-> f[j]]

(* What a step does to a map f, which becomes g, when it answers y and gives
   back o.                                                                 *)
Stays(f, g, y, o)         == y = FALSE /\ o = NULL /\ g = f
Sets(f, g, k, v, y, o)    == y = TRUE /\ o = f[k] /\ g = Extended(f, k, v)
Deletes(f, g, k, x, y, o) == y = TRUE /\ o = x /\ g = Shortened(f, k)
Adds(f, g, k, v, y, o)    == (y = TRUE /\ o = NULL /\ g = Extended(f, k, v)) \/ Stays(f, g, y, o)
Empties(g, y, o)          == y = TRUE /\ o = NULL /\ g = << >>

(* The methods with a value, and those without one; c is the call.         *)
Setting(f, g, c, y, o, k, v) ==
    \/ c = Called("put", k, v) /\ IF k \in DOMAIN f THEN Sets(f, g, k, v, y, o) ELSE Adds(f, g, k, v, y, o)
    \/ c = Called("create", k, v) /\ IF k \in DOMAIN f THEN Stays(f, g, y, o) ELSE Adds(f, g, k, v, y, o)
    \/ c = Called("replace", k, v) /\ IF k \in DOMAIN f THEN Sets(f, g, k, v, y, o) ELSE Stays(f, g, y, o)
    \/ c = Called("toggle", k, v) /\ IF k \in DOMAIN f THEN Deletes(f, g, k, NULL, y, o)
                                     ELSE Adds(f, g, k, v, y, o)

Dropping(f, g, c, y, o, k) ==
    \/ c = Called("remove", k, NULL) /\ IF k \in DOMAIN f THEN Deletes(f, g, k, f[k], y, o) ELSE Stays(f, g, y, o)
    \/ c = Called("discard", k, NULL) /\ IF k \in DOMAIN f THEN Deletes(f, g, k, NULL, y, o) ELSE Stays(f, g, y, o)

(* A step of a map with keys K and values V.                               *)
MapMoves(K, V, f, g, c, y, o) ==
    \/ c = Called("clear", NULL, NULL) /\ Empties(g, y, o)
    \/ \E k \in K, v \in V : Setting(f, g, c, y, o, k, v)
    \/ \E k \in K : Dropping(f, g, c, y, o, k)

LEMMA MoreKeys ==
    ASSUME NEW K, NEW V, NEW L, NEW W, K \subseteq L, V \subseteq W,
           NEW f, NEW g, NEW c, NEW y, NEW o, MapMoves(K, V, f, g, c, y, o)
    PROVE  MapMoves(L, W, f, g, c, y, o)
BY DEF MapMoves

-----------------------------------------------------------------------------
(* The two abstract maps, of which the one that is not at work rests.      *)

MapCall == IF Working("ptrset") THEN NoCall ELSE call
MapOk   == Working("ptrset") \/ ok
MapOld  == IF Working("ptrset") THEN NULL ELSE old

(* The pointers are the keys and the values of the second.                 *)
Addrs == 0..LastAddress

PointersShown == IF Working("ptrset") THEN Ptr!Entries ELSE << >>
PointersCall  == IF Working("ptrset") THEN call ELSE NoCall
PointersOk    == Working("ptrset") => ok
PointersOld   == IF Working("ptrset") THEN old ELSE NULL

(* A step answers yes or no.                                               *)
LEMMA MovesAnswer ==
    ASSUME NEW K, NEW V, NEW f, NEW g, NEW c, NEW y, NEW o, MapMoves(K, V, f, g, c, y, o)
    PROVE  y \in BOOLEAN
<1>1. /\ \A k : Dropping(f, g, c, y, o, k) => y \in BOOLEAN
      /\ \A k, v : Setting(f, g, c, y, o, k, v) => y \in BOOLEAN
      /\ Empties(g, y, o) => y \in BOOLEAN
  BY DEF Dropping, Setting, Stays, Sets, Deletes, Adds, Empties
<1> QED BY <1>1 DEF MapMoves

(* A step of the kind that MapMoves says is one of the abstract map.       *)
LEMMA TheMapSteps ==
    ASSUME MapMoves(KeysOrNull, Values \cup Set!Pointers, Shown, Shown', MapCall', MapOk', MapOld')
    PROVE  TheMap!Next
<1> DEFINE f == Shown
           g == Shown'
           c == MapCall'
           y == MapOk'
           o == MapOld'
<1>1. /\ \A op, k, v : TheMap!Asked(op, k, v) <=> c = Called(op, k, v)
      /\ \A op, k, v : Called(op, k, v).key = k
  BY DEF TheMap!Asked, TheMap!Called, Called, MapCall
<1>2. \A a, x : TheMap!Answer(a, x) <=> y = a /\ o = x
  BY DEF TheMap!Answer, MapOk, MapOld
<1>3. /\ \A k : TheMap!Present(k) <=> k \in DOMAIN f
      /\ \A k, v : TheMap!With(k, v) = Extended(f, k, v)
      /\ \A k : TheMap!Without(k) = Shortened(f, k)
  BY DEF TheMap!Present, TheMap!With, TheMap!Without, Extended, Shortened, Shown
<1>4. /\ Stays(f, g, y, o) => TheMap!Refuse
      /\ \A k, v : y = TRUE /\ o = NULL /\ g = TheMap!With(k, v) => TheMap!Insert(k, v)
      /\ \A k, v : y = TRUE /\ o = f[k] /\ g = TheMap!With(k, v) => TheMap!Update(k, v)
      /\ \A k, x : y = TRUE /\ o = x /\ g = TheMap!Without(k) => TheMap!Delete(k, x)
  <2>1. Stays(f, g, y, o) => TheMap!Refuse
    BY <1>2 DEF TheMap!Refuse, Stays, Shown
  <2>2. ASSUME NEW k, NEW v, y = TRUE, o = NULL, g = TheMap!With(k, v) PROVE TheMap!Insert(k, v)
    BY <1>2, <2>2 DEF TheMap!Insert, Shown
  <2>3. ASSUME NEW k, NEW v, y = TRUE, o = f[k], g = TheMap!With(k, v) PROVE TheMap!Update(k, v)
    BY <1>2, <2>3 DEF TheMap!Update, Shown
  <2>4. ASSUME NEW k, NEW x, y = TRUE, o = x, g = TheMap!Without(k) PROVE TheMap!Delete(k, x)
    BY <1>2, <2>4 DEF TheMap!Delete, Shown
  <2> QED BY <2>1, <2>2, <2>3, <2>4
<1> HIDE DEF f, g, c, y, o
<1>5. /\ \A k, v : Adds(f, g, k, v, y, o) => TheMap!Insert(k, v)
      /\ \A k, v : Sets(f, g, k, v, y, o) => TheMap!Update(k, v)
      /\ \A k, x : Deletes(f, g, k, x, y, o) => TheMap!Delete(k, x)
  <2>1. ASSUME NEW k, NEW v, Adds(f, g, k, v, y, o) PROVE TheMap!Insert(k, v)
    BY <1>3, <1>4, <2>1 DEF Adds, TheMap!Insert
  <2>2. ASSUME NEW k, NEW v, Sets(f, g, k, v, y, o) PROVE TheMap!Update(k, v)
    BY <1>3, <1>4, <2>2 DEF Sets
  <2>3. ASSUME NEW k, NEW x, Deletes(f, g, k, x, y, o) PROVE TheMap!Delete(k, x)
    BY <1>3, <1>4, <2>3 DEF Deletes
  <2> QED BY <2>1, <2>2, <2>3
<1>6. ASSUME NEW k, NEW v, Setting(f, g, c, y, o, k, v)
      PROVE  TheMap!Put(k, v) \/ TheMap!Create(k, v) \/ TheMap!Replace(k, v) \/ TheMap!Toggle(k, v)
  BY <1>1, <1>3, <1>4, <1>5, <1>6 DEF Setting, TheMap!Put, TheMap!Create, TheMap!Replace, TheMap!Toggle
<1>7. ASSUME NEW k, Dropping(f, g, c, y, o, k)
      PROVE  TheMap!Remove(k) \/ TheMap!Discard(k)
  <2>1. Shown = f
    BY DEF f
  <2> QED BY <1>1, <1>3, <1>4, <1>5, <1>7, <2>1 DEF Dropping, TheMap!Remove, TheMap!Discard, Shown
<1>8. ASSUME NEW k, NEW v, Setting(f, g, c, y, o, k, v) \/ Dropping(f, g, c, y, o, k)
      PROVE  c.key = k
  BY <1>1, <1>8 DEF Setting, Dropping
<1>9. c = MapCall' /\ g = Shown'
  BY DEF c, g
<1>10. ASSUME c = Called("clear", NULL, NULL), Empties(g, y, o) PROVE TheMap!Clear
  BY <1>1, <1>2, <1>9, <1>10 DEF Empties, TheMap!Clear, Shown
<1>11. ASSUME NEW k \in KeysOrNull, NEW v \in Values \cup Set!Pointers, Setting(f, g, c, y, o, k, v) PROVE TheMap!Method(k)
  BY <1>6, <1>8, <1>9, <1>11 DEF TheMap!Method, MapCall
<1>12. ASSUME NEW k \in KeysOrNull, Dropping(f, g, c, y, o, k) PROVE TheMap!Method(k)
  BY <1>7, <1>8, <1>9, <1>12 DEF TheMap!Method, MapCall
<1>13. MapMoves(KeysOrNull, Values \cup Set!Pointers, f, g, c, y, o)
  BY DEF f, g, c, y, o
<1> QED BY <1>10, <1>11, <1>12, <1>13 DEF MapMoves, TheMap!Next

LEMMA ThePointersSteps ==
    ASSUME MapMoves(Addrs, Addrs, PointersShown, PointersShown', PointersCall', PointersOk', PointersOld')
    PROVE  ThePointers!Next
<1> DEFINE f == PointersShown
           g == PointersShown'
           c == PointersCall'
           y == PointersOk'
           o == PointersOld'
<1>1. /\ \A op, k, v : ThePointers!Asked(op, k, v) <=> c = Called(op, k, v)
      /\ \A op, k, v : Called(op, k, v).key = k
  BY DEF ThePointers!Asked, ThePointers!Called, Called, PointersCall
<1>2. \A a, x : ThePointers!Answer(a, x) <=> y = a /\ o = x
  BY DEF ThePointers!Answer, PointersOk, PointersOld
<1>3. /\ \A k : ThePointers!Present(k) <=> k \in DOMAIN f
      /\ \A k, v : ThePointers!With(k, v) = Extended(f, k, v)
      /\ \A k : ThePointers!Without(k) = Shortened(f, k)
  BY DEF ThePointers!Present, ThePointers!With, ThePointers!Without, Extended, Shortened, PointersShown
<1>4. /\ Stays(f, g, y, o) => ThePointers!Refuse
      /\ \A k, v : y = TRUE /\ o = NULL /\ g = ThePointers!With(k, v) => ThePointers!Insert(k, v)
      /\ \A k, v : y = TRUE /\ o = f[k] /\ g = ThePointers!With(k, v) => ThePointers!Update(k, v)
      /\ \A k, x : y = TRUE /\ o = x /\ g = ThePointers!Without(k) => ThePointers!Delete(k, x)
  <2>1. Stays(f, g, y, o) => ThePointers!Refuse
    BY <1>2 DEF ThePointers!Refuse, Stays, PointersShown
  <2>2. ASSUME NEW k, NEW v, y = TRUE, o = NULL, g = ThePointers!With(k, v) PROVE ThePointers!Insert(k, v)
    BY <1>2, <2>2 DEF ThePointers!Insert, PointersShown
  <2>3. ASSUME NEW k, NEW v, y = TRUE, o = f[k], g = ThePointers!With(k, v) PROVE ThePointers!Update(k, v)
    BY <1>2, <2>3 DEF ThePointers!Update, PointersShown
  <2>4. ASSUME NEW k, NEW x, y = TRUE, o = x, g = ThePointers!Without(k) PROVE ThePointers!Delete(k, x)
    BY <1>2, <2>4 DEF ThePointers!Delete, PointersShown
  <2> QED BY <2>1, <2>2, <2>3, <2>4
<1> HIDE DEF f, g, c, y, o
<1>5. /\ \A k, v : Adds(f, g, k, v, y, o) => ThePointers!Insert(k, v)
      /\ \A k, v : Sets(f, g, k, v, y, o) => ThePointers!Update(k, v)
      /\ \A k, x : Deletes(f, g, k, x, y, o) => ThePointers!Delete(k, x)
  <2>1. ASSUME NEW k, NEW v, Adds(f, g, k, v, y, o) PROVE ThePointers!Insert(k, v)
    BY <1>3, <1>4, <2>1 DEF Adds, ThePointers!Insert
  <2>2. ASSUME NEW k, NEW v, Sets(f, g, k, v, y, o) PROVE ThePointers!Update(k, v)
    BY <1>3, <1>4, <2>2 DEF Sets
  <2>3. ASSUME NEW k, NEW x, Deletes(f, g, k, x, y, o) PROVE ThePointers!Delete(k, x)
    BY <1>3, <1>4, <2>3 DEF Deletes
  <2> QED BY <2>1, <2>2, <2>3
<1>6. ASSUME NEW k, NEW v, Setting(f, g, c, y, o, k, v)
      PROVE  ThePointers!Put(k, v) \/ ThePointers!Create(k, v) \/ ThePointers!Replace(k, v) \/ ThePointers!Toggle(k, v)
  BY <1>1, <1>3, <1>4, <1>5, <1>6 DEF Setting, ThePointers!Put, ThePointers!Create, ThePointers!Replace, ThePointers!Toggle
<1>7. ASSUME NEW k, Dropping(f, g, c, y, o, k)
      PROVE  ThePointers!Remove(k) \/ ThePointers!Discard(k)
  <2>1. PointersShown = f
    BY DEF f
  <2> QED BY <1>1, <1>3, <1>4, <1>5, <1>7, <2>1 DEF Dropping, ThePointers!Remove, ThePointers!Discard, PointersShown
<1>8. ASSUME NEW k, NEW v, Setting(f, g, c, y, o, k, v) \/ Dropping(f, g, c, y, o, k)
      PROVE  c.key = k
  BY <1>1, <1>8 DEF Setting, Dropping
<1>9. c = PointersCall' /\ g = PointersShown'
  BY DEF c, g
<1>10. ASSUME c = Called("clear", NULL, NULL), Empties(g, y, o) PROVE ThePointers!Clear
  BY <1>1, <1>2, <1>9, <1>10 DEF Empties, ThePointers!Clear, PointersShown
<1>11. ASSUME NEW k \in Addrs, NEW v \in Addrs, Setting(f, g, c, y, o, k, v) PROVE ThePointers!Method(k)
  BY <1>6, <1>8, <1>9, <1>11 DEF ThePointers!Method, PointersCall, Addrs
<1>12. ASSUME NEW k \in Addrs, Dropping(f, g, c, y, o, k) PROVE ThePointers!Method(k)
  BY <1>7, <1>8, <1>9, <1>12 DEF ThePointers!Method, PointersCall
<1>13. MapMoves(Addrs, Addrs, f, g, c, y, o)
  BY DEF f, g, c, y, o
<1> QED BY <1>10, <1>11, <1>12, <1>13 DEF MapMoves, ThePointers!Next, Addrs

-----------------------------------------------------------------------------
(* ptrset: its bins are sorted, and the searches are binary.               *)

Sorted(data) == \A i, j \in 1..Len(data) : i < j => data[i] < data[j]

Content(data) == {data[i] : i \in 1..Len(data)}

-----------------------------------------------------------------------------
(* The binary search.                                                      *)

(* f has the bounds of the search after each number of rounds.             *)
Rounds(data) == [first : 0..Len(data), last : -1..Len(data)]

ProbeUp(f, data, value) ==
    /\ f \in [0..Len(data) -> Rounds(data)]
    /\ f[0] = [first |-> 0, last |-> Len(data) - 1]
    /\ \A i \in 1..Len(data) : f[i] = Ptr!Closer(data, value, f[i - 1])

(* A round stays between its bounds, and closes in.                        *)
LEMMA CloserRounds ==
    ASSUME NEW data, Len(data) \in Nat, NEW value, NEW s \in Rounds(data)
    PROVE  Ptr!Closer(data, value, s) \in Rounds(data)
<1> DEFINE a == s.first
           z == s.last
           mid == (a + z) \div 2
<1>1. a \in 0..Len(data) /\ z \in -1..Len(data) /\ s = [first |-> a, last |-> z]
  BY DEF Rounds
<1>2. ASSUME a < z PROVE mid \in a..(z - 1)
  BY <1>1, <1>2
<1>3. \A m \in a..(z - 1) : /\ [first |-> a, last |-> m - 1] \in Rounds(data)
                            /\ [first |-> m + 1, last |-> z] \in Rounds(data)
                            /\ [first |-> m, last |-> m] \in Rounds(data)
  BY <1>1 DEF Rounds
<1>4. \/ Ptr!Closer(data, value, s) = s
      \/ /\ a < z
         /\ \/ Ptr!Closer(data, value, s) = [first |-> a, last |-> mid - 1]
            \/ Ptr!Closer(data, value, s) = [first |-> mid + 1, last |-> z]
            \/ Ptr!Closer(data, value, s) = [first |-> mid, last |-> mid]
  <2>1. CASE a >= z
    BY <2>1 DEF Ptr!Closer
  <2>2. CASE a < z
    BY <1>1, <2>2 DEF Ptr!Closer
  <2> QED BY <1>1, <2>1, <2>2
<1> HIDE DEF a, z, mid
<1> QED BY <1>2, <1>3, <1>4

LEMMA ProbeByRounds ==
    ASSUME NEW data, Len(data) \in Nat \ {0}, NEW value
    PROVE  \E f : ProbeUp(f, data, value) /\ Ptr!Probe(data, value) = f[Len(data)].first
<1> DEFINE T == Rounds(data)
           n == Len(data)
           step == [p \in (1..n) \X T |-> Ptr!Closer(data, value, p[2])]
           Rule(g) == [i \in 0..n |-> IF i = 0 THEN [first |-> 0, last |-> Len(data) - 1] ELSE Ptr!Closer(data, value, g[i - 1])]
           g == CHOOSE h : h = Rule(h)
<1>1. n \in Nat /\ [first |-> 0, last |-> Len(data) - 1] \in T
  BY DEF Rounds
<1>2. \A i \in 1..n, x \in T : Ptr!Closer(data, value, x) \in T
  BY CloserRounds
<1>3. step \in [(1..n) \X T -> T]
  BY <1>2
<1>4. \A i \in 1..n, x \in T : step[<<i, x>>] = Ptr!Closer(data, value, x)
  OBVIOUS
<1> HIDE DEF step, n, T
<1>a. n \in Nat
  BY <1>1
<1>5. PICK f \in [0..n -> T] : f[0] = [first |-> 0, last |-> Len(data) - 1] /\ \A i \in 1..n : f[i] = step[<<i, f[i - 1]>>]
  <2> DEFINE base == [first |-> 0, last |-> Len(data) - 1]
  <2>1. base \in T /\ n \in Nat
    BY <1>1
  <2> HIDE DEF base
  <2>2. \E f \in [0..n -> T] : Follows(f, n, base, step)
    BY <1>3, <2>1, RecursiveFunction, Zenon
  <2> QED BY <2>2 DEF base, Follows
<1>6. ASSUME NEW i \in 1..n PROVE f[i] = Ptr!Closer(data, value, f[i - 1])
  <2>1. f[i - 1] \in T
    BY <1>1
  <2> QED BY <1>4, <1>5, <2>1
<1>7. f = Rule(f)
  <2>1. ASSUME NEW i \in 0..n PROVE f[i] = IF i = 0 THEN [first |-> 0, last |-> Len(data) - 1] ELSE Ptr!Closer(data, value, f[i - 1])
    <3>1. CASE i = 0
      BY <1>5, <3>1
    <3>2. CASE i # 0
      <4>1. i \in 1..n
        BY <1>1, <3>2
      <4> QED BY <1>6, <3>2, <4>1
    <3> QED BY <3>1, <3>2
  <2> QED BY <2>1
<1>8. g = Rule(g)
  BY <1>7
<1> HIDE DEF g
<1>9. g[0] = [first |-> 0, last |-> Len(data) - 1] /\ \A i \in 1..n : g[i] = Ptr!Closer(data, value, g[i - 1])
  BY <1>1, <1>8
<1>10. \A i \in 0..n : g[i] = f[i]
  <2> DEFINE S == {i \in 0..n : g[i] = f[i]}
  <2>1. 0 \in S
    BY <1>1, <1>5, <1>9
  <2>2. ASSUME NEW i \in 0..(n - 1), i \in S PROVE i + 1 \in S
    <3>1. i + 1 \in 1..n /\ (i + 1) - 1 = i /\ i + 1 \in 0..n
      BY <1>a
    <3>2. f[i + 1] = Ptr!Closer(data, value, f[(i + 1) - 1]) /\ g[i + 1] = Ptr!Closer(data, value, g[(i + 1) - 1])
      BY <1>6, <1>9, <3>1
    <3>3. g[(i + 1) - 1] = f[(i + 1) - 1]
      BY <2>2, <3>1
    <3>4. g[i + 1] = f[i + 1]
      BY <3>2, <3>3
    <3> QED BY <3>1, <3>4
  <2> HIDE DEF S
  <2>3. 0..n \subseteq S
    BY <1>1, <2>1, <2>2, InductionUpTo
  <2> QED BY <2>3 DEF S
<1>11. Ptr!Probe(data, value) = g[n].first
  BY DEF Ptr!Probe, g, n
<1>12. Ptr!Probe(data, value) = f[n].first
  BY <1>1, <1>10, <1>11
<1>13. ProbeUp(f, data, value)
  BY <1>5, <1>6 DEF ProbeUp, n, T
<1> QED BY <1>12, <1>13 DEF n

(* The bounds enclose the place of the value.                              *)
Encloses(data, value, s) ==
    /\ s.first \in 0..(Len(data) - 1) /\ s.last \in -1..(Len(data) - 1)
    /\ \A i \in 1..Len(data) : (i - 1 < s.first => data[i] < value) /\ (i - 1 > s.last => data[i] > value)

LEMMA Middle ==
    ASSUME NEW a \in Int, NEW z \in Int, a < z
    PROVE  (a + z) \div 2 \in a..(z - 1)
OBVIOUS

LEMMA CloserEncloses ==
    ASSUME NEW data \in Seq(Nat), Sorted(data), NEW value \in Nat, NEW s, Encloses(data, value, s), NEW t,
           t = Ptr!Closer(data, value, s)
    PROVE  Encloses(data, value, t) /\ (t.first >= t.last \/ t.last - t.first < s.last - s.first)
<1> DEFINE n == Len(data)
           a == s.first
           z == s.last
           m == (a + z) \div 2
           x == data[m + 1]
<1>1. n \in Nat /\ a \in 0..(n - 1) /\ z \in -1..(n - 1) /\ \A i \in 1..n : data[i] \in Nat
  BY LenProperties DEF Encloses
<1>2. \A i \in 1..n : (i - 1 < a => data[i] < value) /\ (i - 1 > z => data[i] > value)
  BY DEF Encloses
<1>a. a \in Int /\ z \in Int
  BY <1>1
<1>3. CASE a >= z
  <2>1. t = s
    BY <1>3 DEF Ptr!Closer
  <2> QED BY <1>3, <2>1
<1>4. CASE a < z
  <2>1. m \in a..(z - 1)
    <3> HIDE DEF a, z
    <3> QED BY <1>a, <1>4, Middle
  <2>2. \/ value < x /\ t = [first |-> a, last |-> m - 1]
        \/ value > x /\ t = [first |-> m + 1, last |-> z]
        \/ ~(value < x) /\ ~(value > x) /\ t = [first |-> m, last |-> m]
    <3>1. ~(a >= z)
      BY <1>a, <1>4
    <3> QED BY <3>1 DEF Ptr!Closer
  <2>a. \A i, j \in 1..n : i < j => data[i] < data[j]
    BY DEF Sorted
  <2> HIDE DEF n, a, z, m
  <2>3. m + 1 \in 1..n /\ m \in Int
    BY <1>1, <2>1
  <2>4. x \in Nat
    BY <1>1, <2>3
  <2>5. \A i \in 1..n : (i < m + 1 => data[i] < x) /\ (i > m + 1 => data[i] > x)
    <3> TAKE i \in 1..n
    <3>1. data[i] \in Nat /\ i \in Int
      BY <1>1
    <3>2. CASE i < m + 1
      BY <2>a, <2>3, <3>1, <3>2
    <3>3. CASE i > m + 1
      <4>1. x < data[i]
        BY <2>a, <2>3, <3>3
      <4> QED BY <2>3, <2>4, <3>1, <3>3, <4>1
    <3> QED BY <2>3, <3>1, <3>2, <3>3
  <2>b. data[m + 1] = x
    OBVIOUS
  <2> HIDE DEF x
  <2>6. \A i \in 1..n : data[i] \in Nat /\ i \in Int /\ (i = m + 1 => data[i] = x)
    BY <1>1, <2>b
  <2>7. CASE value < x /\ t = [first |-> a, last |-> m - 1]
    <3>1. t.first = a /\ t.last = m - 1
      BY <2>7
    <3>2. \A i \in 1..n : i - 1 > m - 1 => data[i] > value
      BY <2>3, <2>4, <2>5, <2>6, <2>7
    <3>3. t.first \in 0..(n - 1) /\ t.last \in -1..(n - 1) /\ t.last - t.first < z - a
      BY <1>1, <2>1, <3>1
    <3> QED BY <1>2, <3>1, <3>2, <3>3 DEF Encloses, n, a, z
  <2>8. CASE value > x /\ t = [first |-> m + 1, last |-> z]
    <3>1. t.first = m + 1 /\ t.last = z
      BY <2>8
    <3>2. \A i \in 1..n : i - 1 < m + 1 => data[i] < value
      BY <2>3, <2>4, <2>5, <2>6, <2>8
    <3>3. t.first \in 0..(n - 1) /\ t.last \in -1..(n - 1) /\ t.last - t.first < z - a
      BY <1>1, <2>1, <3>1
    <3> QED BY <1>2, <3>1, <3>2, <3>3 DEF Encloses, n, a, z
  <2>9. CASE ~(value < x) /\ ~(value > x) /\ t = [first |-> m, last |-> m]
    <3>1. t.first = m /\ t.last = m /\ value = x
      BY <2>4, <2>9
    <3>2. \A i \in 1..n : (i - 1 < m => data[i] < value) /\ (i - 1 > m => data[i] > value)
      BY <2>3, <2>5, <2>6, <3>1
    <3>3. t.first \in 0..(n - 1) /\ t.last \in -1..(n - 1) /\ t.first >= t.last
      BY <1>1, <2>1, <3>1
    <3> QED BY <3>1, <3>2, <3>3 DEF Encloses, n
  <2> QED BY <2>2, <2>7, <2>8, <2>9
<1> QED BY <1>a, <1>3, <1>4

(* The value is at index p, or belongs next to it.                         *)
Splits(data, value, p) ==
    /\ p \in 0..(Len(data) - 1)
    /\ \A i \in 1..Len(data) : (i - 1 < p => data[i] < value) /\ (i - 1 > p => data[i] > value)

LEMMA OneLess ==
    ASSUME NEW x \in Int, NEW y \in Int, NEW n \in Int, NEW i \in Int, x < y, y <= n - 1 - i
    PROVE  x <= n - 1 - (i + 1)
OBVIOUS

(* So the search ends.                                                     *)
LEMMA ProbeEnds ==
    ASSUME NEW data \in Seq(Nat), Sorted(data), Len(data) > 0, NEW value \in Nat
    PROVE  Splits(data, value, Ptr!Probe(data, value))
<1> DEFINE n == Len(data)
<1>1. n \in Nat /\ n > 0
  BY LenProperties
<1>2. PICK f : ProbeUp(f, data, value) /\ Ptr!Probe(data, value) = f[n].first
  BY <1>1, ProbeByRounds
<1> DEFINE Closed(i) == f[i].first >= f[i].last \/ f[i].last - f[i].first <= n - 1 - i
           S == {i \in 0..n : Encloses(data, value, f[i]) /\ Closed(i)}
<1>3. f[0].first = 0 /\ f[0].last = n - 1
  BY <1>2 DEF ProbeUp
<1>4. 0 \in S
  BY <1>1, <1>3 DEF Encloses
<1>5. ASSUME NEW i \in 0..(n - 1), i \in S PROVE i + 1 \in S
  <2> DEFINE s == f[i]
             t == f[i + 1]
  <2>1. i + 1 \in 1..n /\ i + 1 \in 0..n /\ (i + 1) - 1 = i
    BY <1>1
  <2>2. t = Ptr!Closer(data, value, s)
    BY <1>2, <2>1 DEF ProbeUp
  <2>3. Encloses(data, value, s) /\ (s.first >= s.last \/ s.last - s.first <= n - 1 - i)
    BY <1>5
  <2> HIDE DEF s, t, n
  <2>4. Encloses(data, value, t) /\ (t.first >= t.last \/ t.last - t.first < s.last - s.first)
    BY <2>2, <2>3, CloserEncloses
  <2>5. t.first \in Int /\ t.last \in Int /\ s.first \in Int /\ s.last \in Int
    BY <1>1, <2>3, <2>4 DEF Encloses
  <2>6. s.first >= s.last => t = s
    BY <2>2 DEF Ptr!Closer
  <2>7. t.first >= t.last \/ t.last - t.first <= n - 1 - (i + 1)
    <3>1. CASE s.first >= s.last
      BY <2>6, <3>1
    <3>2. CASE ~(s.first >= s.last)
      <4>1. s.last - s.first <= n - 1 - i
        BY <2>3, <3>2
      <4>2. i \in Int /\ n \in Int
        BY <1>1
      <4>3. s.last - s.first \in Int /\ t.last - t.first \in Int
        BY <2>5
      <4>4. CASE t.last - t.first < s.last - s.first
        BY <4>1, <4>2, <4>3, <4>4, OneLess
      <4> QED BY <2>4, <4>4
    <3> QED BY <3>1, <3>2
  <2> QED BY <2>1, <2>4, <2>7 DEF t
<1> HIDE DEF S
<1>6. 0..n \subseteq S
  BY <1>1, <1>4, <1>5, InductionUpTo
<1>7. n \in S
  BY <1>1, <1>6
<1> DEFINE s == f[n]
<1>8. Encloses(data, value, s) /\ (s.first >= s.last \/ s.last - s.first <= n - 1 - n)
  BY <1>7 DEF S
<1>9. Ptr!Probe(data, value) = s.first
  BY <1>2
<1> HIDE DEF s, n
<1>10. s.first \in 0..(n - 1) /\ s.last \in -1..(n - 1)
  BY <1>8 DEF Encloses, n
<1>11. s.first >= s.last
  BY <1>1, <1>8, <1>10
<1>12. \A i \in 1..n : (i - 1 < s.first => data[i] < value) /\ (i - 1 > s.last => data[i] > value)
  BY <1>8 DEF Encloses, n
<1>13. \A i \in 1..n : i - 1 > s.first => data[i] > value
  BY <1>1, <1>10, <1>11, <1>12
<1> QED BY <1>9, <1>10, <1>12, <1>13 DEF n, Splits

LEMMA IndexOf ==
    ASSUME NEW data \in Seq(Nat), Sorted(data), NEW value \in Nat, NEW x, x = Ptr!index_of(data, value)
    PROVE  /\ value \in Content(data) => x \in 0..(Len(data) - 1) /\ data[x + 1] = value /\ x >= 0
           /\ value \notin Content(data) => x = -1 /\ ~(x >= 0)
<1> DEFINE n == Len(data)
           p == Ptr!Probe(data, value)
<1>1. n \in Nat /\ (data = << >> <=> n = 0) /\ Content(data) = {data[i] : i \in 1..n}
  BY LenProperties, EmptySeq DEF Content
<1>2. CASE data = << >>
  BY <1>1, <1>2 DEF Ptr!index_of
<1>3. CASE data # << >>
  <2>a. x = IF data[p + 1] = value THEN p ELSE -1
    BY <1>3, Zenon DEF Ptr!index_of
  <2>b. n > 0
    BY <1>1, <1>3
  <2>1. n > 0 /\ x = IF data[p + 1] = value THEN p ELSE -1
    BY <2>a, <2>b
  <2>2. p \in 0..(n - 1) /\ \A i \in 1..n : (i - 1 < p => data[i] < value) /\ (i - 1 > p => data[i] > value)
    <3>1. Splits(data, value, p)
      BY <2>b, ProbeEnds
    <3> HIDE DEF p
    <3> QED BY <3>1 DEF Splits
  <2> HIDE DEF p
  <2>3. p + 1 \in 1..n
    BY <1>1, <2>2
  <2>4. CASE data[p + 1] = value
    BY <1>1, <2>1, <2>2, <2>3, <2>4
  <2>5. CASE data[p + 1] # value
    <3>1. ASSUME NEW i \in 1..n PROVE data[i] # value
      <4>1. data[i] \in Nat
        BY <1>1
      <4>2. i = p + 1 \/ i - 1 < p \/ i - 1 > p
        BY <1>1, <2>2
      <4> QED BY <2>2, <2>5, <4>1, <4>2
    <3> QED BY <1>1, <2>1, <2>5, <3>1
  <2> QED BY <2>4, <2>5
<1> QED BY <1>2, <1>3

LEMMA InsertIndexOf ==
    ASSUME NEW data \in Seq(Nat), Sorted(data), NEW value \in Nat, NEW x, x = Ptr!insert_index_of(data, value)
    PROVE  /\ value \in Content(data) => x = -1 /\ ~(x >= 0) /\ x < 0
           /\ value \notin Content(data) =>
                 /\ x \in 0..Len(data) /\ x >= 0 /\ ~(x < 0)
                 /\ \A i \in 1..Len(data) : (i <= x => data[i] < value) /\ (i > x => data[i] > value)
<1> DEFINE n == Len(data)
           p == Ptr!Probe(data, value)
           m == data[p + 1]
<1>1. n \in Nat /\ (data = << >> <=> n = 0) /\ Content(data) = {data[i] : i \in 1..n}
      /\ \A i \in 1..n : data[i] \in Nat
  BY LenProperties, EmptySeq DEF Content
<1>2. CASE data = << >>
  BY <1>1, <1>2 DEF Ptr!insert_index_of
<1>3. CASE data # << >>
  <2>a. x = IF m = value THEN -1 ELSE IF value < m THEN p ELSE p + 1
    BY <1>3, Zenon DEF Ptr!insert_index_of, Ptr!Beside
  <2>b. n > 0
    BY <1>1, <1>3
  <2>1. n > 0 /\ x = IF m = value THEN -1 ELSE IF value < m THEN p ELSE p + 1
    BY <2>a, <2>b
  <2>2. p \in 0..(n - 1) /\ \A i \in 1..n : (i - 1 < p => data[i] < value) /\ (i - 1 > p => data[i] > value)
    <3>1. Splits(data, value, p)
      BY <2>b, ProbeEnds
    <3> HIDE DEF p
    <3> QED BY <3>1 DEF Splits
  <2> HIDE DEF p
  <2>3. p + 1 \in 1..n /\ data[p + 1] = m
    BY <1>1, <2>2
  <2>4. m \in Nat
    BY <1>1, <2>3
  <2> HIDE DEF m
  <2>5. CASE m = value
    BY <1>1, <2>1, <2>3, <2>5
  <2>6. CASE m # value
    <3>1. ASSUME NEW i \in 1..n PROVE data[i] # value
      <4>1. i = p + 1 \/ i - 1 < p \/ i - 1 > p
        BY <1>1, <2>2
      <4> QED BY <1>1, <2>2, <2>3, <2>6, <4>1
    <3>2. value \notin Content(data)
      BY <1>1, <3>1
    <3>3. CASE value < m
      <4>1. x = p
        BY <2>1, <2>6, <3>3
      <4>2. ASSUME NEW i \in 1..n PROVE (i <= p => data[i] < value) /\ (i > p => data[i] > value)
        <5>1. i = p + 1 \/ i - 1 < p \/ i - 1 > p
          BY <1>1, <2>2
        <5>2. (i <= p <=> i - 1 < p) /\ (i > p <=> i = p + 1 \/ i - 1 > p)
          BY <2>2
        <5> QED BY <2>2, <2>3, <2>4, <3>3, <5>1, <5>2
      <4> QED BY <1>1, <2>2, <3>2, <4>1, <4>2
    <3>4. CASE ~(value < m)
      <4>1. x = p + 1 /\ m < value
        BY <2>1, <2>4, <2>6, <3>4
      <4>2. ASSUME NEW i \in 1..n PROVE (i <= p + 1 => data[i] < value) /\ (i > p + 1 => data[i] > value)
        <5>1. i = p + 1 \/ i - 1 < p \/ i - 1 > p
          BY <1>1, <2>2
        <5>2. (i <= p + 1 <=> i = p + 1 \/ i - 1 < p) /\ (i > p + 1 <=> i - 1 > p)
          BY <2>2
        <5> QED BY <2>2, <2>3, <4>1, <5>1, <5>2
      <4>3. p + 1 \in 0..n /\ p + 1 >= 0
        BY <1>1, <2>2
      <4> QED BY <1>1, <3>2, <4>1, <4>2, <4>3
    <3> QED BY <3>3, <3>4
  <2> QED BY <2>5, <2>6
<1> QED BY <1>2, <1>3

(* The places of a sequence with an element more, and with one less.       *)
WithOne(s, T, data, x, v) ==
    /\ s \in Seq(T) /\ Len(s) = Len(data) + 1
    /\ \A i \in 1..(Len(data) + 1) : s[i] = IF i <= x THEN data[i] ELSE IF i = x + 1 THEN v ELSE data[i - 1]

WithoutOne(s, T, data, x) ==
    /\ s \in Seq(T) /\ Len(s) = Len(data) - 1
    /\ \A i \in 1..(Len(data) - 1) : s[i] = IF i <= x THEN data[i] ELSE data[i + 1]

LEMMA InsertAtPlaces ==
    ASSUME NEW T, NEW data \in Seq(T), NEW v \in T, NEW x \in 0..Len(data), NEW s,
           s = Ptr!InsertAt(data, x + 1, v)
    PROVE  WithOne(s, T, data, x, v)
<1> DEFINE n == Len(data)
           a == SubSeq(data, 1, x)
           z == SubSeq(data, x + 1, n)
<1>1. n \in Nat /\ x \in 0..n /\ (x + 1) - 1 = x
  BY LenProperties
<1>2. s = (a \o <<v>>) \o z
  BY <1>1 DEF Ptr!InsertAt
<1>3. a \in Seq(T) /\ Len(a) = x /\ \A i \in 1..x : a[i] = data[i]
  BY <1>1
<1>4. z \in Seq(T) /\ Len(z) = n - x /\ \A i \in 1..(n - x) : z[i] = data[x + i]
  BY <1>1
<1>5. <<v>> \in Seq(T) /\ Len(<<v>>) = 1 /\ <<v>>[1] = v
  OBVIOUS
<1> DEFINE b == a \o <<v>>
           u == <<v>>
<1> HIDE DEF a, z, n, u
<1>6. b \in Seq(T) /\ Len(b) = x + 1 /\ \A i \in 1..(x + 1) : b[i] = IF i <= x THEN a[i] ELSE v
  <2>1. u \in Seq(T) /\ Len(u) = 1 /\ u[1] = v /\ b = a \o u
    BY <1>5 DEF u
  <2>2. /\ a \o u \in Seq(T) /\ Len(a \o u) = Len(a) + Len(u)
        /\ \A i \in 1..(Len(a) + Len(u)) : (a \o u)[i] = IF i <= Len(a) THEN a[i] ELSE u[i - Len(a)]
    BY <1>3, <2>1, ConcatProperties
  <2>3. ASSUME NEW i \in 1..(x + 1) PROVE b[i] = IF i <= x THEN a[i] ELSE v
    <3>1. i <= x \/ i - x = 1
      BY <1>1
    <3> QED BY <1>3, <2>1, <2>2, <3>1
  <2> QED BY <1>3, <2>1, <2>2, <2>3
<1> HIDE DEF b
<1>7. /\ b \o z \in Seq(T) /\ Len(b \o z) = Len(b) + Len(z)
      /\ \A i \in 1..(Len(b) + Len(z)) : (b \o z)[i] = IF i <= Len(b) THEN b[i] ELSE z[i - Len(b)]
  BY <1>4, <1>6, ConcatProperties
<1>8. s = b \o z
  BY <1>2 DEF b
<1>9. Len(b) + Len(z) = n + 1
  BY <1>1, <1>4, <1>6
<1>10. ASSUME NEW i \in 1..(n + 1)
       PROVE  s[i] = IF i <= x THEN data[i] ELSE IF i = x + 1 THEN v ELSE data[i - 1]
  <2>1. CASE i <= x
    <3>1. i \in 1..x /\ i \in 1..(x + 1) /\ i <= x + 1
      BY <1>1, <2>1
    <3> QED BY <1>3, <1>6, <1>7, <1>8, <1>9, <2>1, <3>1
  <2>2. CASE i = x + 1
    <3>1. i \in 1..(x + 1) /\ ~(i <= x) /\ i <= x + 1
      BY <1>1, <2>2
    <3> QED BY <1>6, <1>7, <1>8, <1>9, <2>2, <3>1
  <2>3. CASE i > x + 1
    <3>1. ~(i <= x) /\ i # x + 1 /\ ~(i <= x + 1) /\ i - (x + 1) \in 1..(n - x) /\ x + (i - (x + 1)) = i - 1
      BY <1>1, <2>3
    <3> QED BY <1>4, <1>6, <1>7, <1>8, <1>9, <3>1
  <2> QED BY <1>1, <2>1, <2>2, <2>3
<1> QED BY <1>7, <1>8, <1>9, <1>10 DEF n, WithOne

LEMMA RemoveAtPlaces ==
    ASSUME NEW T, NEW data \in Seq(T), NEW x \in 0..(Len(data) - 1), NEW s, s = Ptr!RemoveAt(data, x + 1)
    PROVE  WithoutOne(s, T, data, x)
<1> DEFINE n == Len(data)
           a == SubSeq(data, 1, x)
           z == SubSeq(data, x + 2, n)
<1>1. n \in Nat /\ x \in 0..(n - 1) /\ (x + 1) - 1 = x /\ (x + 1) + 1 = x + 2
  BY LenProperties
<1>2. s = a \o z
  BY <1>1 DEF Ptr!RemoveAt
<1>3. a \in Seq(T) /\ Len(a) = x /\ \A i \in 1..x : a[i] = data[i]
  BY <1>1
<1>4. z \in Seq(T) /\ Len(z) = n - 1 - x /\ \A i \in 1..(n - 1 - x) : z[i] = data[x + 1 + i]
  BY <1>1
<1> HIDE DEF a, z, n
<1>5. /\ a \o z \in Seq(T) /\ Len(a \o z) = Len(a) + Len(z)
      /\ \A i \in 1..(Len(a) + Len(z)) : (a \o z)[i] = IF i <= Len(a) THEN a[i] ELSE z[i - Len(a)]
  BY <1>3, <1>4, ConcatProperties
<1>6. Len(a) + Len(z) = n - 1
  BY <1>1, <1>3, <1>4
<1>7. ASSUME NEW i \in 1..(n - 1) PROVE s[i] = IF i <= x THEN data[i] ELSE data[i + 1]
  <2>1. CASE i <= x
    <3>1. i \in 1..x
      BY <1>1, <2>1
    <3>2. s[i] = a[i]
      BY <1>2, <1>3, <1>5, <1>6, <2>1
    <3> QED BY <1>3, <2>1, <3>1, <3>2
  <2>2. CASE i > x
    <3>1. ~(i <= x) /\ i - x \in 1..(n - 1 - x) /\ x + 1 + (i - x) = i + 1
      BY <1>1, <2>2
    <3>2. s[i] = z[i - x]
      BY <1>2, <1>3, <1>5, <1>6, <3>1
    <3>3. z[i - x] = data[i + 1]
      BY <1>4, <3>1
    <3> QED BY <3>1, <3>2, <3>3
  <2> QED BY <1>1, <2>1, <2>2
<1> QED BY <1>2, <1>5, <1>6, <1>7 DEF n, WithoutOne

-----------------------------------------------------------------------------
(* Bins.                                                                   *)

PtrBin == [cap : Nat, data : Seq(Addrs)]

(* A sorted bin, number b of n, that fits into its array.                  *)
PtrOwn(bin, n, b) ==
    /\ Sorted(bin.data) /\ Len(bin.data) <= bin.cap
    /\ \A i \in 1..Len(bin.data) : 1 + (Ptr!hash(bin.data[i]) % n) = b

LEMMA AddressHashes ==
    /\ Addrs \subseteq Nat
    /\ \A p \in Addrs : Ptr!hash(p) \in Nat
<1>1. Addrs \subseteq Nat /\ AddressHash \in [Addrs \ {0} -> Nat]
  BY PtrAssumption DEF Ptr!AddressAssumption, Addrs
<1> QED BY <1>1 DEF Ptr!hash

LEMMA BinParts ==
    ASSUME NEW bin \in PtrBin
    PROVE  /\ bin.cap \in Nat /\ bin.data \in Seq(Addrs) /\ bin.data \in Seq(Nat) /\ Len(bin.data) \in Nat
           /\ DOMAIN bin.data = 1..Len(bin.data) /\ Content(bin.data) \subseteq Addrs
           /\ \A i \in 1..Len(bin.data) : bin.data[i] \in Addrs /\ bin.data[i] \in Nat
<1> DEFINE data == bin.data
<1>1. bin.cap \in Nat /\ data \in Seq(Addrs)
  BY DEF PtrBin
<1> HIDE DEF data
<1>2. Len(data) \in Nat /\ DOMAIN data = 1..Len(data) /\ \A i \in 1..Len(data) : data[i] \in Addrs /\ data[i] \in Nat
  BY <1>1, LenProperties, AddressHashes
<1>3. data \in Seq(Nat)
  <2>1. data \in [1..Len(data) -> Nat]
    <3>1. data = [i \in 1..Len(data) |-> data[i]]
      BY <1>1
    <3> QED BY <1>2, <3>1
  <2> DEFINE n == Len(data)
  <2>2. n \in Nat /\ data \in [1..n -> Nat]
    BY <1>2, <2>1
  <2> HIDE DEF n
  <2> QED BY <2>2, SeqDef
<1> QED BY <1>1, <1>2, <1>3 DEF data, Content

(* There is always room for one element more.                              *)
LEMMA RoomForOne ==
    ASSUME NEW bin \in PtrBin, Len(bin.data) <= bin.cap
    PROVE  Ptr!Room(bin) \in Nat /\ Len(bin.data) + 1 <= Ptr!Room(bin)
<1>1. bin.cap \in Nat /\ Len(bin.data) \in Nat
  BY BinParts
<1>2. FirstRoom \in Nat /\ FirstRoom > 1
  BY PtrAssumption DEF Ptr!SizeAssumption
<1> QED BY <1>1, <1>2 DEF Ptr!Room, Ptr!MaxOf

LEMMA InsertedBin ==
    ASSUME NEW bin \in PtrBin, NEW n, NEW b, PtrOwn(bin, n, b), NEW p \in Addrs, p \notin Content(bin.data),
           1 + (Ptr!hash(p) % n) = b, NEW new, new = Ptr!insert(bin, p, Ptr!insert_index_of(bin.data, p))
    PROVE  new \in PtrBin /\ PtrOwn(new, n, b) /\ Content(new.data) = Content(bin.data) \cup {p}
<1> DEFINE data == bin.data
           m == Len(data)
           x == Ptr!insert_index_of(data, p)
           s == new.data
<1>1. data \in Seq(Addrs) /\ data \in Seq(Nat) /\ m \in Nat /\ p \in Nat
      /\ \A i \in 1..m : data[i] \in Nat
  BY BinParts, AddressHashes
<1>2. Sorted(data) /\ m <= bin.cap /\ \A i \in 1..m : 1 + (Ptr!hash(data[i]) % n) = b
  BY DEF PtrOwn
<1>3. new = [cap |-> Ptr!Room(bin), data |-> Ptr!InsertAt(data, x + 1, p)]
  BY DEF Ptr!insert
<1>4. s = Ptr!InsertAt(data, x + 1, p) /\ new.cap = Ptr!Room(bin)
  BY <1>3
<1>a. p \notin Content(data)
  OBVIOUS
<1> HIDE DEF x, data
<1>5. x \in 0..m /\ \A i \in 1..m : (i <= x => data[i] < p) /\ (i > x => data[i] > p)
  BY <1>1, <1>2, <1>a, InsertIndexOf DEF x
<1> HIDE DEF s
<1>6. /\ s \in Seq(Addrs) /\ Len(s) = m + 1
      /\ \A i \in 1..(m + 1) : s[i] = IF i <= x THEN data[i] ELSE IF i = x + 1 THEN p ELSE data[i - 1]
  <2>1. x \in 0..Len(data)
    BY <1>5
  <2>2. WithOne(s, Addrs, data, x, p)
    BY <1>1, <1>4, <2>1, InsertAtPlaces
  <2> QED BY <2>2 DEF WithOne
<1>b. \A i, j \in 1..m : i < j => data[i] < data[j]
  BY <1>2 DEF Sorted
<1> HIDE DEF m
<1>7. ASSUME NEW i \in 1..(m + 1), NEW j \in 1..(m + 1), i < j PROVE s[i] < s[j]
  <2>1. CASE j <= x
    <3>1. i <= x /\ i \in 1..m /\ j \in 1..m
      BY <1>1, <1>5, <1>7, <2>1
    <3>2. s[i] = data[i] /\ s[j] = data[j]
      BY <1>6, <2>1, <3>1
    <3> QED BY <1>b, <1>7, <3>1, <3>2
  <2>2. CASE j = x + 1
    <3>1. i <= x /\ i \in 1..m /\ ~(j <= x)
      BY <1>1, <1>5, <1>7, <2>2
    <3>2. s[i] = data[i] /\ s[j] = p
      BY <1>6, <2>2, <3>1
    <3> QED BY <1>5, <3>1, <3>2
  <2>3. CASE j > x + 1
    <3>1. ~(j <= x) /\ j # x + 1 /\ j - 1 \in 1..m /\ j - 1 > x
      BY <1>1, <1>5, <2>3
    <3>2. s[j] = data[j - 1]
      BY <1>6, <3>1
    <3>3. CASE i <= x
      <4>1. i \in 1..m /\ s[i] = data[i] /\ i < j - 1
        BY <1>1, <1>5, <1>6, <2>3, <3>3
      <4> QED BY <1>b, <3>1, <3>2, <4>1
    <3>4. CASE i = x + 1
      <4>1. s[i] = p /\ data[j - 1] > p
        BY <1>5, <1>6, <3>1, <3>4
      <4>2. data[j - 1] \in Nat
        BY <1>1, <3>1
      <4> QED BY <1>1, <3>2, <4>1, <4>2
    <3>5. CASE i > x + 1
      <4>1. ~(i <= x) /\ i # x + 1 /\ i - 1 \in 1..m /\ i - 1 < j - 1
        BY <1>1, <1>5, <1>7, <3>5
      <4>2. s[i] = data[i - 1]
        BY <1>6, <4>1
      <4> QED BY <1>b, <3>1, <3>2, <4>1, <4>2
    <3> QED BY <1>5, <3>3, <3>4, <3>5
  <2> QED BY <1>5, <2>1, <2>2, <2>3
<1>8. ASSUME NEW i \in 1..(m + 1) PROVE s[i] \in Content(data) \cup {p} /\ 1 + (Ptr!hash(s[i]) % n) = b
  <2>1. CASE i <= x
    <3>1. i \in 1..m /\ s[i] = data[i]
      BY <1>1, <1>5, <1>6, <2>1
    <3> QED BY <1>2, <3>1 DEF Content, m
  <2>2. CASE i = x + 1
    <3>1. s[i] = p
      BY <1>5, <1>6, <2>2
    <3> QED BY <3>1
  <2>3. CASE i > x + 1
    <3>1. ~(i <= x) /\ i # x + 1 /\ i - 1 \in 1..m
      BY <1>1, <1>5, <2>3
    <3>2. s[i] = data[i - 1]
      BY <1>6, <3>1
    <3> QED BY <1>2, <3>1, <3>2 DEF Content, m
  <2> QED BY <1>5, <2>1, <2>2, <2>3
<1>9. ASSUME NEW q \in Content(data) \cup {p} PROVE \E i \in 1..(m + 1) : s[i] = q
  <2>1. CASE q = p
    <3>1. x + 1 \in 1..(m + 1) /\ ~(x + 1 <= x)
      BY <1>1, <1>5
    <3> QED BY <1>6, <2>1, <3>1
  <2>2. CASE q \in Content(data)
    <3>1. PICK i \in 1..m : data[i] = q
      BY <2>2 DEF Content, m
    <3>2. CASE i <= x
      <4>1. i \in 1..(m + 1)
        BY <1>1
      <4> QED BY <1>6, <3>1, <3>2, <4>1
    <3>3. CASE i > x
      <4>1. i + 1 \in 1..(m + 1) /\ ~(i + 1 <= x) /\ i + 1 # x + 1 /\ (i + 1) - 1 = i
        BY <1>1, <1>5, <3>3
      <4>2. s[i + 1] = data[i]
        BY <1>6, <4>1
      <4> QED BY <3>1, <4>1, <4>2
    <3> QED BY <1>5, <3>2, <3>3
  <2> QED BY <2>1, <2>2
<1>10. Content(s) = Content(data) \cup {p}
  <2>1. Content(s) = {s[i] : i \in 1..(m + 1)}
    BY <1>6 DEF Content
  <2> QED BY <1>8, <1>9, <2>1
<1>11. Ptr!Room(bin) \in Nat /\ m + 1 <= Ptr!Room(bin)
  BY <1>2, RoomForOne DEF m, data
<1>12. new \in PtrBin
  BY <1>3, <1>4, <1>6, <1>11 DEF PtrBin
<1>13. PtrOwn(new, n, b)
  <2>1. Sorted(s)
    BY <1>6, <1>7 DEF Sorted
  <2>2. \A i \in 1..Len(s) : 1 + (Ptr!hash(s[i]) % n) = b
    BY <1>6, <1>8
  <2>3. Len(s) <= new.cap
    BY <1>4, <1>6, <1>11
  <2> QED BY <2>1, <2>2, <2>3 DEF PtrOwn, s
<1> QED BY <1>10, <1>12, <1>13 DEF s, data

LEMMA RemovedBin ==
    ASSUME NEW bin \in PtrBin, NEW n, NEW b, PtrOwn(bin, n, b), NEW p \in Content(bin.data),
           NEW new, new = Ptr!remove(bin, Ptr!index_of(bin.data, p))
    PROVE  new \in PtrBin /\ PtrOwn(new, n, b) /\ Content(new.data) = Content(bin.data) \ {p}
<1> DEFINE data == bin.data
           m == Len(data)
           x == Ptr!index_of(data, p)
           s == new.data
<1>1. data \in Seq(Addrs) /\ data \in Seq(Nat) /\ m \in Nat /\ p \in Nat /\ bin.cap \in Nat
      /\ \A i \in 1..m : data[i] \in Nat
  BY BinParts, AddressHashes
<1>2. Sorted(data) /\ m <= bin.cap /\ \A i \in 1..m : 1 + (Ptr!hash(data[i]) % n) = b
  BY DEF PtrOwn
<1>3. new = [cap |-> bin.cap, data |-> Ptr!RemoveAt(data, x + 1)]
  BY DEF Ptr!remove
<1>4. s = Ptr!RemoveAt(data, x + 1) /\ new.cap = bin.cap
  BY <1>3
<1>a. p \in Content(data)
  OBVIOUS
<1> HIDE DEF x, data
<1>5. x \in 0..(m - 1) /\ data[x + 1] = p
  BY <1>1, <1>2, <1>a, IndexOf DEF x
<1> HIDE DEF s
<1>6. /\ s \in Seq(Addrs) /\ Len(s) = m - 1
      /\ \A i \in 1..(m - 1) : s[i] = IF i <= x THEN data[i] ELSE data[i + 1]
  <2>1. x \in 0..(Len(data) - 1)
    BY <1>5
  <2>2. WithoutOne(s, Addrs, data, x)
    BY <1>1, <1>4, <2>1, RemoveAtPlaces
  <2> QED BY <2>2 DEF WithoutOne
<1>b. \A i, j \in 1..m : i < j => data[i] < data[j]
  BY <1>2 DEF Sorted
<1>c. Content(data) = {data[i] : i \in 1..m}
  BY DEF Content
<1> DEFINE Place(i) == IF i <= x THEN i ELSE i + 1
<1> HIDE DEF m
<1>7. ASSUME NEW i \in 1..(m - 1)
      PROVE  Place(i) \in 1..m /\ Place(i) # x + 1 /\ s[i] = data[Place(i)]
  <2>1. CASE i <= x
    BY <1>1, <1>5, <1>6, <2>1
  <2>2. CASE ~(i <= x)
    BY <1>1, <1>5, <1>6, <2>2
  <2> QED BY <2>1, <2>2
<1>8. ASSUME NEW i \in 1..(m - 1), NEW j \in 1..(m - 1), i < j PROVE s[i] < s[j]
  <2>1. Place(i) < Place(j)
    BY <1>1, <1>5, <1>8
  <2> HIDE DEF Place
  <2> QED BY <1>7, <1>b, <2>1
<1>9. ASSUME NEW i \in 1..m, i # x + 1 PROVE \E j \in 1..(m - 1) : Place(j) = i
  <2>1. CASE i <= x
    <3>1. i \in 1..(m - 1) /\ Place(i) = i
      BY <1>1, <1>5, <2>1
    <3> QED BY <3>1
  <2>2. CASE i > x
    <3>1. i - 1 \in 1..(m - 1) /\ ~(i - 1 <= x) /\ (i - 1) + 1 = i
      BY <1>1, <1>5, <1>9, <2>2
    <3> QED BY <3>1
  <2> QED BY <1>5, <2>1, <2>2
<1> HIDE DEF Place
<1>10. ASSUME NEW i \in 1..m PROVE data[i] = p <=> i = x + 1
  <2>1. i < x + 1 \/ i = x + 1 \/ x + 1 < i
    BY <1>5
  <2>2. x + 1 \in 1..m
    BY <1>1, <1>5
  <2> QED BY <1>1, <1>5, <1>b, <2>1, <2>2
<1>11. ASSUME NEW i \in 1..(m - 1) PROVE s[i] \in Content(data) \ {p} /\ 1 + (Ptr!hash(s[i]) % n) = b
  <2>1. Place(i) \in 1..m /\ Place(i) # x + 1 /\ s[i] = data[Place(i)]
    BY <1>7
  <2> QED BY <1>2, <1>10, <1>c, <2>1 DEF m
<1>12. ASSUME NEW q \in Content(data) \ {p} PROVE \E i \in 1..(m - 1) : s[i] = q
  <2>1. PICK i \in 1..m : data[i] = q
    BY <1>c, <1>12
  <2>2. PICK j \in 1..(m - 1) : Place(j) = i
    BY <1>9, <1>10, <1>12, <2>1
  <2> QED BY <1>7, <2>1, <2>2
<1>13. Content(s) = Content(data) \ {p}
  <2>1. Content(s) = {s[i] : i \in 1..(m - 1)}
    BY <1>6 DEF Content
  <2> QED BY <1>11, <1>12, <2>1
<1>14. new \in PtrBin
  BY <1>1, <1>3, <1>4, <1>6 DEF PtrBin
<1>15. PtrOwn(new, n, b)
  <2>1. Sorted(s)
    BY <1>6, <1>8 DEF Sorted
  <2>2. \A i \in 1..Len(s) : 1 + (Ptr!hash(s[i]) % n) = b
    BY <1>6, <1>11
  <2>3. Len(s) <= new.cap
    BY <1>1, <1>2, <1>4, <1>6 DEF m
  <2> QED BY <2>1, <2>2, <2>3 DEF PtrOwn, s
<1> QED BY <1>13, <1>14, <1>15 DEF s, data

(* An element behind all others.                                           *)
LEMMA AppendedBin ==
    ASSUME NEW bin \in PtrBin, Sorted(bin.data), Len(bin.data) <= bin.cap, NEW p \in Addrs,
           \A q \in Content(bin.data) : q < p, NEW new, new = Ptr!append(bin, p)
    PROVE  /\ new \in PtrBin /\ Sorted(new.data) /\ Len(new.data) <= new.cap
           /\ Content(new.data) = Content(bin.data) \cup {p}
<1> DEFINE data == bin.data
           m == Len(data)
           s == Append(data, p)
<1>1. data \in Seq(Addrs) /\ m \in Nat /\ \A i \in 1..m : data[i] \in Addrs
  BY BinParts
<1>2. new = [cap |-> Ptr!Room(bin), data |-> s]
  BY DEF Ptr!append
<1>3. Ptr!Room(bin) \in Nat /\ m + 1 <= Ptr!Room(bin)
  BY RoomForOne
<1>4. s \in Seq(Addrs) /\ Len(s) = m + 1 /\ s[m + 1] = p /\ \A i \in 1..m : s[i] = data[i]
  BY <1>1
<1>5. \A i, j \in 1..m : i < j => data[i] < data[j]
  BY DEF Sorted
<1>6. Content(data) = {data[i] : i \in 1..m}
  BY DEF Content
<1>a. \A q \in Content(data) : q < p
  OBVIOUS
<1> HIDE DEF s, m, data
<1>7. ASSUME NEW i \in 1..(m + 1), NEW j \in 1..(m + 1), i < j PROVE s[i] < s[j]
  <2>1. i \in 1..m
    BY <1>1, <1>7
  <2>2. CASE j = m + 1
    <3>1. s[i] = data[i] /\ data[i] \in Content(data) /\ s[j] = p
      BY <1>4, <1>6, <2>1, <2>2
    <3> QED BY <1>a, <3>1
  <2>3. CASE j # m + 1
    <3>1. j \in 1..m
      BY <1>1, <2>3
    <3> QED BY <1>4, <1>5, <1>7, <2>1, <3>1
  <2> QED BY <2>2, <2>3
<1>8. Content(s) = Content(data) \cup {p}
  <2>1. Content(s) = {s[i] : i \in 1..(m + 1)}
    BY <1>4 DEF Content
  <2>2. 1..(m + 1) = 1..m \cup {m + 1}
    BY <1>1
  <2> QED BY <1>4, <1>6, <2>1, <2>2
<1>9. new \in PtrBin /\ new.data = s /\ new.cap = Ptr!Room(bin)
  BY <1>2, <1>3, <1>4 DEF PtrBin
<1>10. Sorted(s)
  BY <1>4, <1>7 DEF Sorted
<1> QED BY <1>3, <1>4, <1>8, <1>9, <1>10 DEF data

-----------------------------------------------------------------------------
(* Tables.                                                                 *)

Members(d) == {p \in Addrs : \E b \in 1..Len(d.bins) : p \in Content(d.bins[b].data)}

PtrShape(d) == d \in [size : Nat, bins : Seq(PtrBin)]

PtrWell(d) ==
    /\ PtrShape(d)
    /\ \A b \in 1..Len(d.bins) : PtrOwn(d.bins[b], Len(d.bins), b)
    /\ IsFiniteSet(Members(d)) /\ d.size = Cardinality(Members(d))

LEMMA PtrParts ==
    ASSUME NEW d, PtrShape(d)
    PROVE  /\ d.bins \in Seq(PtrBin) /\ Len(d.bins) \in Nat /\ d.size \in Nat /\ DOMAIN d.bins = 1..Len(d.bins)
           /\ (d.bins = << >> <=> Len(d.bins) = 0)
           /\ \A b \in 1..Len(d.bins) : d.bins[b] \in PtrBin
<1> DEFINE bins == d.bins
<1>1. bins \in Seq(PtrBin) /\ d.size \in Nat
  BY DEF PtrShape
<1> HIDE DEF bins
<1>2. Len(bins) \in Nat /\ DOMAIN bins = 1..Len(bins) /\ \A b \in 1..Len(bins) : bins[b] \in PtrBin
  BY <1>1, LenProperties
<1>3. bins = << >> <=> Len(bins) = 0
  BY <1>1, EmptySeq
<1> QED BY <1>1, <1>2, <1>3 DEF bins

LEMMA PtrBinOf ==
    ASSUME NEW d, PtrShape(d), d.bins # << >>, NEW p \in Addrs
    PROVE  Ptr!BinOf(d, p) \in 1..Len(d.bins) /\ Ptr!BinOf(d, p) = 1 + (Ptr!hash(p) % Len(d.bins))
<1> DEFINE n == Len(d.bins)
           h == Ptr!hash(p)
<1>1. n \in Nat /\ n > 0 /\ h \in Nat
  BY PtrParts, AddressHashes
<1>2. Ptr!BinOf(d, p) = 1 + (h % n)
  BY DEF Ptr!BinOf, Ptr!cap
<1> HIDE DEF n, h
<1>3. h % n \in 0..(n - 1)
  BY <1>1
<1>4. 1 + (h % n) \in 1..n
  BY <1>1, <1>3
<1> QED BY <1>2, <1>4 DEF n, h

(* An element can only be in the bin of its hash.                          *)
LEMMA MemberInBin ==
    ASSUME NEW d, PtrWell(d), d.bins # << >>, NEW p \in Addrs
    PROVE  p \in Members(d) <=> p \in Content(d.bins[Ptr!BinOf(d, p)].data)
<1> DEFINE b == Ptr!BinOf(d, p)
           n == Len(d.bins)
<1>1. PtrShape(d) /\ \A c \in 1..n : PtrOwn(d.bins[c], n, c)
  BY DEF PtrWell
<1>2. b \in 1..n /\ b = 1 + (Ptr!hash(p) % n)
  BY <1>1, PtrBinOf
<1> HIDE DEF b, n
<1>3. ASSUME NEW c \in 1..n, p \in Content(d.bins[c].data) PROVE c = b
  <2>1. PICK i \in 1..Len(d.bins[c].data) : d.bins[c].data[i] = p
    BY <1>3 DEF Content
  <2>2. PtrOwn(d.bins[c], n, c)
    BY <1>1
  <2> QED BY <1>2, <2>1, <2>2 DEF PtrOwn
<1>4. p \in Members(d) <=> \E c \in 1..n : p \in Content(d.bins[c].data)
  BY DEF Members, n
<1> QED BY <1>2, <1>3, <1>4 DEF b

LEMMA NoMembers ==
    ASSUME NEW d, PtrShape(d), d.bins = << >>
    PROVE  Members(d) = {}
<1>1. Len(d.bins) = 0 /\ 1..0 = {}
  BY PtrParts
<1> QED BY <1>1 DEF Members

(* Another bin in the place of one.                                        *)
LEMMA BinReplaced ==
    ASSUME NEW d, PtrShape(d), NEW b \in 1..Len(d.bins), NEW new \in PtrBin, NEW n, d.size + n \in Nat,
           NEW e, e = [size |-> d.size + n, bins |-> [d.bins EXCEPT ![b] = new]]
    PROVE  /\ PtrShape(e) /\ e.size = d.size + n /\ Len(e.bins) = Len(d.bins)
           /\ \A c \in 1..Len(d.bins) : e.bins[c] = IF c = b THEN new ELSE d.bins[c]
<1> DEFINE bins == d.bins
           then == [bins EXCEPT ![b] = new]
<1>1. bins \in Seq(PtrBin) /\ b \in 1..Len(bins)
  BY PtrParts
<1>2. e.size = d.size + n /\ e.bins = then /\ e = [size |-> d.size + n, bins |-> then]
  OBVIOUS
<1> HIDE DEF bins
<1>3. /\ then \in Seq(PtrBin) /\ Len(then) = Len(bins)
      /\ \A c \in 1..Len(bins) : then[c] = IF c = b THEN new ELSE bins[c]
  BY <1>1, ExceptSeq
<1> HIDE DEF then
<1>4. PtrShape(e)
  BY <1>2, <1>3 DEF PtrShape
<1> QED BY <1>2, <1>3, <1>4 DEF bins

(* The sets have the same elements but for p.                              *)
SameBut(A, B, p) == \A q : q # p => (q \in A <=> q \in B)

(* Table e is d, n more or less elements, with p if it is in the new bin.  *)
Exchanged(e, d, n, new, p) ==
    /\ PtrShape(e) /\ e.size = d.size + n
    /\ \A c \in 1..Len(e.bins) : PtrOwn(e.bins[c], Len(e.bins), c)
    /\ SameBut(Members(e), Members(d), p)
    /\ p \in Members(e) <=> p \in Content(new.data)

(* The members then.                                                       *)
LEMMA MembersReplaced ==
    ASSUME NEW d, PtrWell(d), NEW b \in 1..Len(d.bins), NEW new \in PtrBin, PtrOwn(new, Len(d.bins), b),
           NEW n, d.size + n \in Nat, NEW p \in Addrs, Ptr!BinOf(d, p) = b,
           SameBut(Content(new.data), Content(d.bins[b].data), p),
           NEW e, e = [size |-> d.size + n, bins |-> [d.bins EXCEPT ![b] = new]]
    PROVE  Exchanged(e, d, n, new, p)
<1> DEFINE m == Len(d.bins)
<1>1. PtrShape(d) /\ \A c \in 1..m : PtrOwn(d.bins[c], m, c)
  BY DEF PtrWell
<1>2. /\ PtrShape(e) /\ e.size = d.size + n /\ Len(e.bins) = m
      /\ \A c \in 1..m : e.bins[c] = IF c = b THEN new ELSE d.bins[c]
  BY <1>1, BinReplaced
<1>3. b \in 1..m /\ PtrOwn(new, m, b) /\ b = Ptr!BinOf(d, p)
  OBVIOUS
<1>4. ASSUME NEW c \in 1..m PROVE PtrOwn(e.bins[c], m, c)
  BY <1>1, <1>2, <1>3
<1>a. \A q : q # p => (q \in Content(new.data) <=> q \in Content(d.bins[b].data))
  BY DEF SameBut
<1>5. /\ \A q : q \in Members(e) <=> q \in Addrs /\ \E c \in 1..m : q \in Content(e.bins[c].data)
      /\ \A q : q \in Members(d) <=> q \in Addrs /\ \E c \in 1..m : q \in Content(d.bins[c].data)
  BY <1>2 DEF Members
<1>6. ASSUME NEW c \in 1..m, c # b PROVE p \notin Content(d.bins[c].data)
  <2>1. d.bins # << >>
    BY <1>1, <1>3, PtrParts
  <2>2. b = 1 + (Ptr!hash(p) % m)
    BY <1>1, <1>3, <2>1, PtrBinOf
  <2>3. ASSUME NEW i \in 1..Len(d.bins[c].data) PROVE d.bins[c].data[i] # p
    <3>1. PtrOwn(d.bins[c], m, c)
      BY <1>1
    <3>2. 1 + (Ptr!hash(d.bins[c].data[i]) % m) = c
      BY <3>1 DEF PtrOwn
    <3> QED BY <1>6, <2>2, <3>2
  <2> QED BY <2>3 DEF Content
<1> HIDE DEF m
<1> DEFINE X(c) == Content(e.bins[c].data)
           Y(c) == Content(d.bins[c].data)
           Z == Content(new.data)
<1>b. \A c \in 1..m : X(c) = IF c = b THEN Z ELSE Y(c)
  BY <1>2
<1>c. /\ \A q : q \in Members(e) <=> q \in Addrs /\ \E c \in 1..m : q \in X(c)
      /\ \A q : q \in Members(d) <=> q \in Addrs /\ \E c \in 1..m : q \in Y(c)
      /\ \A q : q # p => (q \in Z <=> q \in Y(b))
      /\ \A c \in 1..m : c # b => p \notin Y(c)
      /\ b \in 1..m /\ p \in Addrs
  BY <1>3, <1>5, <1>6, <1>a
<1> HIDE DEF X, Y, Z
<1>7. ASSUME NEW q, q # p PROVE q \in Members(e) <=> q \in Members(d)
  <2>1. \A c \in 1..m : q \in X(c) <=> q \in Y(c)
    BY <1>b, <1>c, <1>7
  <2> QED BY <1>c, <2>1
<1>8. p \in Members(e) <=> p \in Z
  <2>1. p \in Members(e) <=> \E c \in 1..m : p \in X(c)
    BY <1>c
  <2>2. p \in X(b) <=> p \in Z
    BY <1>b, <1>c
  <2>3. \A c \in 1..m : c # b => p \notin X(c)
    BY <1>b, <1>c
  <2> QED BY <1>c, <2>1, <2>2, <2>3
<1> QED BY <1>2, <1>4, <1>7, <1>8 DEF Exchanged, SameBut, Z, m

LEMMA Inserts ==
    ASSUME NEW d, PtrWell(d), d.bins # << >>, NEW p \in Addrs, p \notin Members(d),
           NEW e, e = Ptr!WithInserted(d, p, Ptr!insert_index_of(d.bins[Ptr!BinOf(d, p)].data, p))
    PROVE  PtrWell(e) /\ Members(e) = Members(d) \cup {p}
<1> DEFINE b == Ptr!BinOf(d, p)
           bin == d.bins[b]
           new == Ptr!insert(bin, p, Ptr!insert_index_of(bin.data, p))
           n == Len(d.bins)
<1>1. PtrShape(d) /\ d.size \in Nat /\ IsFiniteSet(Members(d)) /\ d.size = Cardinality(Members(d))
  BY PtrParts DEF PtrWell
<1>2. b \in 1..n /\ b = 1 + (Ptr!hash(p) % n)
  BY <1>1, PtrBinOf
<1>3. bin \in PtrBin /\ PtrOwn(bin, n, b)
  BY <1>1, <1>2, PtrParts DEF PtrWell
<1>4. p \notin Content(bin.data)
  BY MemberInBin
<1>5. e = [size |-> d.size + 1, bins |-> [d.bins EXCEPT ![b] = new]]
  BY DEF Ptr!WithInserted
<1> HIDE DEF bin
<1>6. new \in PtrBin /\ PtrOwn(new, n, b) /\ Content(new.data) = Content(bin.data) \cup {p}
  BY <1>2, <1>3, <1>4, InsertedBin
<1> HIDE DEF new, b
<1>7. Ptr!BinOf(d, p) = b /\ d.size + 1 \in Nat
      /\ SameBut(Content(new.data), Content(d.bins[b].data), p)
  BY <1>1, <1>6 DEF b, bin, SameBut
<1>8. Exchanged(e, d, 1, new, p)
  BY <1>2, <1>5, <1>6, <1>7, MembersReplaced
<1>9. Members(e) = Members(d) \cup {p}
  BY <1>6, <1>8 DEF Exchanged, SameBut
<1>10. IsFiniteSet(Members(e)) /\ Cardinality(Members(e)) = d.size + 1
  BY <1>1, <1>9, FS_AddElement
<1> QED BY <1>8, <1>9, <1>10 DEF PtrWell, Exchanged

LEMMA Drops ==
    ASSUME NEW d, PtrWell(d), d.bins # << >>, NEW p \in Members(d),
           NEW e, e = Ptr!WithRemoved(d, p, Ptr!index_of(d.bins[Ptr!BinOf(d, p)].data, p))
    PROVE  PtrWell(e) /\ Members(e) = Members(d) \ {p}
<1> DEFINE b == Ptr!BinOf(d, p)
           bin == d.bins[b]
           new == Ptr!remove(bin, Ptr!index_of(bin.data, p))
           n == Len(d.bins)
<1>1. PtrShape(d) /\ d.size \in Nat /\ IsFiniteSet(Members(d)) /\ d.size = Cardinality(Members(d)) /\ p \in Addrs
  BY PtrParts DEF PtrWell, Members
<1>2. b \in 1..n /\ b = 1 + (Ptr!hash(p) % n)
  BY <1>1, PtrBinOf
<1>3. bin \in PtrBin /\ PtrOwn(bin, n, b)
  BY <1>1, <1>2, PtrParts DEF PtrWell
<1>4. p \in Content(bin.data)
  BY <1>1, MemberInBin
<1>5. e = [size |-> d.size - 1, bins |-> [d.bins EXCEPT ![b] = new]]
  BY DEF Ptr!WithRemoved
<1> HIDE DEF bin
<1>6. new \in PtrBin /\ PtrOwn(new, n, b) /\ Content(new.data) = Content(bin.data) \ {p}
  BY <1>3, <1>4, RemovedBin
<1> HIDE DEF new, b
<1>a. IsFiniteSet(Members(d) \ {p}) /\ Cardinality(Members(d) \ {p}) = d.size - 1
  BY <1>1, FS_RemoveElement
<1>b. d.size - 1 \in Nat
  BY <1>a, FS_CardinalityType
<1> DEFINE less == -1
<1>7. Ptr!BinOf(d, p) = b /\ d.size + less \in Nat /\ d.size - 1 = d.size + less
      /\ SameBut(Content(new.data), Content(d.bins[b].data), p)
  BY <1>1, <1>6, <1>b DEF b, bin, SameBut
<1> HIDE DEF less, n
<1>c. e = [size |-> d.size + less, bins |-> [d.bins EXCEPT ![b] = new]]
  BY <1>5, <1>7
<1>d. b \in 1..Len(d.bins) /\ PtrOwn(new, Len(d.bins), b)
  BY <1>2, <1>6 DEF n
<1>8. Exchanged(e, d, less, new, p)
  BY <1>1, <1>c, <1>d, <1>6, <1>7, MembersReplaced
<1>9. Members(e) = Members(d) \ {p}
  BY <1>6, <1>8 DEF Exchanged, SameBut
<1> QED BY <1>7, <1>8, <1>9, <1>a DEF PtrWell, Exchanged

-----------------------------------------------------------------------------
(* Growth.                                                                 *)

HashBit(p, bit) == (Ptr!hash(p) \div bit) % 2

PartStep(data, bit, b, i, x) ==
    IF (Ptr!hash(data[i]) \div bit) % 2 = b THEN Ptr!append(x, data[i]) ELSE x

(* f has what the new bin is after each element of the old one.            *)
PartUp(f, data, bit, b) ==
    /\ f \in [0..Len(data) -> PtrBin] /\ f[0] = Ptr!NewBin
    /\ \A i \in 1..Len(data) : f[i] = PartStep(data, bit, b, i, f[i - 1])

LEMMA PartSteps ==
    ASSUME NEW data \in Seq(Addrs), NEW bit, NEW b, NEW i \in 1..Len(data), NEW x \in PtrBin
    PROVE  PartStep(data, bit, b, i, x) \in PtrBin
<1>1. data[i] \in Addrs
  OBVIOUS
<1>2. x.cap \in Nat /\ x.data \in Seq(Addrs) /\ Len(x.data) \in Nat
  BY BinParts
<1>3. Append(x.data, data[i]) \in Seq(Addrs)
  BY <1>1, <1>2
<1>4. Ptr!Room(x) \in Nat
  <2>1. FirstRoom \in Nat
    BY PtrAssumption DEF Ptr!SizeAssumption
  <2> QED BY <1>2, <2>1 DEF Ptr!Room, Ptr!MaxOf
<1>5. Ptr!append(x, data[i]) \in PtrBin
  BY <1>3, <1>4 DEF Ptr!append, PtrBin
<1> QED BY <1>5 DEF PartStep

LEMMA NewPtrBin ==
    /\ Ptr!NewBin \in PtrBin /\ Ptr!NewBin.data = << >> /\ Ptr!NewBin.cap = 0
    /\ Content(Ptr!NewBin.data) = {} /\ Sorted(Ptr!NewBin.data) /\ Len(Ptr!NewBin.data) = 0
<1>1. Ptr!NewBin = [cap |-> 0, data |-> << >>]
  BY DEF Ptr!NewBin
<1>2. Ptr!NewBin \in PtrBin
  BY <1>1 DEF PtrBin
<1>3. Len(<< >>) = 0 /\ 1..0 = {}
  OBVIOUS
<1> QED BY <1>1, <1>2, <1>3 DEF Content, Sorted

LEMMA PartByStep ==
    ASSUME NEW data \in Seq(Addrs), NEW bit, NEW b
    PROVE  \E f : PartUp(f, data, bit, b) /\ Ptr!Part(data, bit, b) = f[Len(data)]
<1> DEFINE T == PtrBin
           n == Len(data)
           step == [p \in (1..n) \X T |-> PartStep(data, bit, b, p[1], p[2])]
           Rule(g) == [i \in 0..n |-> IF i = 0 THEN Ptr!NewBin ELSE PartStep(data, bit, b, i, g[i - 1])]
           g == CHOOSE h : h = Rule(h)
<1>1. n \in Nat /\ Ptr!NewBin \in T
  BY NewPtrBin, LenProperties
<1>2. \A i \in 1..n, x \in T : PartStep(data, bit, b, i, x) \in T
  BY PartSteps
<1>3. step \in [(1..n) \X T -> T]
  BY <1>2
<1>4. \A i \in 1..n, x \in T : step[<<i, x>>] = PartStep(data, bit, b, i, x)
  OBVIOUS
<1> HIDE DEF step, n, T
<1>a. n \in Nat
  BY <1>1
<1>5. PICK f \in [0..n -> T] : f[0] = Ptr!NewBin /\ \A i \in 1..n : f[i] = step[<<i, f[i - 1]>>]
  <2> DEFINE base == Ptr!NewBin
  <2>1. base \in T /\ n \in Nat
    BY <1>1
  <2> HIDE DEF base
  <2>2. \E f \in [0..n -> T] : Follows(f, n, base, step)
    BY <1>3, <2>1, RecursiveFunction, Zenon
  <2> QED BY <2>2 DEF base, Follows
<1>6. ASSUME NEW i \in 1..n PROVE f[i] = PartStep(data, bit, b, i, f[i - 1])
  <2>1. f[i - 1] \in T
    BY <1>1
  <2> QED BY <1>4, <1>5, <2>1
<1>7. f = Rule(f)
  <2>1. ASSUME NEW i \in 0..n PROVE f[i] = IF i = 0 THEN Ptr!NewBin ELSE PartStep(data, bit, b, i, f[i - 1])
    <3>1. CASE i = 0
      BY <1>5, <3>1
    <3>2. CASE i # 0
      <4>1. i \in 1..n
        BY <1>1, <3>2
      <4> QED BY <1>6, <3>2, <4>1
    <3> QED BY <3>1, <3>2
  <2> QED BY <2>1
<1>8. g = Rule(g)
  BY <1>7
<1> HIDE DEF g
<1>9. g[0] = Ptr!NewBin /\ \A i \in 1..n : g[i] = PartStep(data, bit, b, i, g[i - 1])
  BY <1>1, <1>8
<1>10. \A i \in 0..n : g[i] = f[i]
  <2> DEFINE S == {i \in 0..n : g[i] = f[i]}
  <2>1. 0 \in S
    BY <1>1, <1>5, <1>9
  <2>2. ASSUME NEW i \in 0..(n - 1), i \in S PROVE i + 1 \in S
    <3>1. i + 1 \in 1..n /\ (i + 1) - 1 = i /\ i + 1 \in 0..n
      BY <1>a
    <3>2. f[i + 1] = PartStep(data, bit, b, i + 1, f[(i + 1) - 1]) /\ g[i + 1] = PartStep(data, bit, b, i + 1, g[(i + 1) - 1])
      BY <1>6, <1>9, <3>1
    <3>3. g[(i + 1) - 1] = f[(i + 1) - 1]
      BY <2>2, <3>1
    <3>4. g[i + 1] = f[i + 1]
      BY <3>2, <3>3
    <3> QED BY <3>1, <3>4
  <2> HIDE DEF S
  <2>3. 0..n \subseteq S
    BY <1>1, <2>1, <2>2, InductionUpTo
  <2> QED BY <2>3 DEF S
<1>11. Ptr!Part(data, bit, b) = g[n]
  BY DEF Ptr!Part, PartStep, g, n
<1>12. Ptr!Part(data, bit, b) = f[n]
  BY <1>1, <1>10, <1>11
<1>13. PartUp(f, data, bit, b)
  BY <1>5, <1>6 DEF PartUp, n, T
<1> QED BY <1>12, <1>13 DEF n

(* The bin has those of the first i elements whose bit is b.               *)
Gathers(bin, data, i, bit, b) ==
    /\ bin \in PtrBin /\ Sorted(bin.data) /\ Len(bin.data) <= bin.cap
    /\ \A q : q \in Content(bin.data) <=> \E j \in 1..i : data[j] = q /\ HashBit(data[j], bit) = b

LEMMA PartStepGathers ==
    ASSUME NEW data \in Seq(Addrs), Sorted(data), NEW bit, NEW b, NEW i \in 0..(Len(data) - 1), NEW x,
           Gathers(x, data, i, bit, b), NEW y, y = PartStep(data, bit, b, i + 1, x)
    PROVE  Gathers(y, data, i + 1, bit, b)
<1> DEFINE n == Len(data)
           p == data[i + 1]
           C == Content(x.data)
<1>1. n \in Nat /\ i + 1 \in 1..n /\ i \in Nat /\ \A j \in 1..n : data[j] \in Addrs
  BY LenProperties
<1>2. \A j \in 1..n : j < i + 1 => data[j] < p
  BY <1>1 DEF Sorted
<1>3. 1..(i + 1) = 1..i \cup {i + 1} /\ \A j \in 1..i : j \in 1..n /\ j < i + 1
  BY <1>1
<1>4. /\ x \in PtrBin /\ Sorted(x.data) /\ Len(x.data) <= x.cap
      /\ \A q : q \in C <=> \E j \in 1..i : data[j] = q /\ HashBit(data[j], bit) = b
  BY DEF Gathers
<1>5. p \in Addrs /\ \A q \in C : q < p
  BY <1>1, <1>2, <1>3, <1>4
<1> DEFINE Has(q, k) == \E j \in 1..k : data[j] = q /\ HashBit(data[j], bit) = b
<1>6. \A q : Has(q, i + 1) <=> Has(q, i) \/ (q = p /\ HashBit(p, bit) = b)
  BY <1>3
<1>7. CASE HashBit(p, bit) = b
  <2>1. y = Ptr!append(x, p)
    BY <1>7 DEF PartStep, HashBit
  <2> HIDE DEF p
  <2>2. y \in PtrBin /\ Sorted(y.data) /\ Len(y.data) <= y.cap /\ Content(y.data) = C \cup {p}
    BY <1>4, <1>5, <2>1, AppendedBin
  <2> HIDE DEF C, Has
  <2>3. \A q : q \in Content(y.data) <=> Has(q, i + 1)
    <3>1. \A q : q \in C <=> Has(q, i)
      BY <1>4 DEF Has
    <3> QED BY <1>6, <1>7, <2>2, <3>1
  <2> QED BY <2>2, <2>3 DEF Gathers, Has
<1>8. CASE HashBit(p, bit) # b
  <2>1. y = x
    BY <1>8 DEF PartStep, HashBit
  <2> HIDE DEF p, C, Has
  <2>2. \A q : q \in C <=> Has(q, i + 1)
    <3>1. \A q : q \in C <=> Has(q, i)
      BY <1>4 DEF Has
    <3> QED BY <1>6, <1>8, <3>1
  <2> QED BY <1>4, <2>1, <2>2 DEF Gathers, Has, C
<1> QED BY <1>7, <1>8

LEMMA PartGathers ==
    ASSUME NEW data \in Seq(Addrs), Sorted(data), NEW bit, NEW b
    PROVE  Gathers(Ptr!Part(data, bit, b), data, Len(data), bit, b)
<1> DEFINE n == Len(data)
<1>1. n \in Nat
  BY LenProperties
<1>2. PICK f : PartUp(f, data, bit, b) /\ Ptr!Part(data, bit, b) = f[n]
  BY PartByStep
<1> DEFINE S == {i \in 0..n : Gathers(f[i], data, i, bit, b)}
<1>3. 0 \in S
  <2>1. f[0] = Ptr!NewBin /\ 1..0 = {} /\ 0 \in 0..n
    BY <1>1, <1>2 DEF PartUp
  <2>2. Gathers(f[0], data, 0, bit, b)
    BY <2>1, NewPtrBin DEF Gathers
  <2> QED BY <2>1, <2>2
<1>4. ASSUME NEW i \in 0..(n - 1), i \in S PROVE i + 1 \in S
  <2>1. i + 1 \in 1..n /\ i + 1 \in 0..n /\ (i + 1) - 1 = i
    BY <1>1
  <2>2. f[i + 1] = PartStep(data, bit, b, i + 1, f[i])
    BY <1>2, <2>1 DEF PartUp
  <2>3. Gathers(f[i], data, i, bit, b)
    BY <1>4
  <2>4. Gathers(f[i + 1], data, i + 1, bit, b)
    BY <2>2, <2>3, PartStepGathers
  <2> QED BY <2>1, <2>4
<1> HIDE DEF S
<1>5. 0..n \subseteq S
  BY <1>1, <1>3, <1>4, InductionUpTo
<1>6. n \in S
  BY <1>1, <1>5
<1> QED BY <1>2, <1>6 DEF S

(* Tables without elements.                                                *)
LEMMA BlankPtrs ==
    ASSUME NEW n \in Nat, NEW e, e = [size |-> 0, bins |-> [i \in 1..n |-> Ptr!NewBin]]
    PROVE  PtrWell(e) /\ Members(e) = {} /\ Len(e.bins) = n
<1> DEFINE bins == [i \in 1..n |-> Ptr!NewBin]
<1>1. bins \in [1..n -> PtrBin]
  BY NewPtrBin
<1>2. bins \in Seq(PtrBin) /\ Len(bins) = n /\ \A i \in 1..n : bins[i] = Ptr!NewBin
  <2>1. bins \in Seq(PtrBin)
    BY <1>1, SeqDef
  <2>2. DOMAIN bins = 1..n
    OBVIOUS
  <2> QED BY <2>1, <2>2, LenProperties
<1>3. e.bins = bins /\ e.size = 0 /\ e = [size |-> 0, bins |-> bins]
  OBVIOUS
<1> HIDE DEF bins
<1>4. Len(e.bins) = n /\ \A i \in 1..n : e.bins[i] = Ptr!NewBin
  BY <1>2, <1>3
<1>5. PtrShape(e)
  BY <1>2, <1>3 DEF PtrShape
<1>6. Members(e) = {}
  BY <1>4, NewPtrBin DEF Members
<1>7. ASSUME NEW i \in 1..n PROVE PtrOwn(e.bins[i], n, i)
  <2>1. Sorted(e.bins[i].data) /\ Len(e.bins[i].data) = 0 /\ e.bins[i].cap = 0 /\ 1..0 = {}
    BY <1>4, NewPtrBin
  <2> QED BY <2>1 DEF PtrOwn
<1>8. IsFiniteSet(Members(e)) /\ Cardinality(Members(e)) = 0
  BY <1>6, FS_EmptySet
<1> QED BY <1>3, <1>4, <1>5, <1>6, <1>7, <1>8 DEF PtrWell

(* A bin of twice as many, with the elements of bin i that have bit b.     *)
HalfOf(new, bin, n, i, b) ==
    /\ new \in PtrBin /\ PtrOwn(new, 2 * n, IF b = 0 THEN i ELSE i + n)
    /\ \A q : q \in Content(new.data) <=> q \in Content(bin.data) /\ HashBit(q, n) = b

(* The two bins that a bin becomes.                                        *)
LEMMA PartOwn ==
    ASSUME NEW bin \in PtrBin, NEW n \in Nat, n > 0, NEW i \in 1..n, PtrOwn(bin, n, i),
           NEW b \in {0, 1}, NEW new, new = Ptr!Part(bin.data, n, b)
    PROVE  HalfOf(new, bin, n, i, b)
<1> DEFINE data == bin.data
           m == Len(data)
           c == IF b = 0 THEN i ELSE i + n
<1>1. data \in Seq(Addrs) /\ m \in Nat /\ \A j \in 1..m : data[j] \in Addrs
  BY BinParts
<1>2. Sorted(data) /\ \A j \in 1..m : 1 + (Ptr!hash(data[j]) % n) = i
  BY DEF PtrOwn
<1>3. Gathers(new, data, m, n, b)
  BY <1>1, <1>2, PartGathers
<1>4. /\ new \in PtrBin /\ Sorted(new.data) /\ Len(new.data) <= new.cap
      /\ \A q : q \in Content(new.data) <=> \E j \in 1..m : data[j] = q /\ HashBit(data[j], n) = b
  BY <1>3 DEF Gathers
<1>5. \A q : q \in Content(data) <=> \E j \in 1..m : data[j] = q
  BY DEF Content
<1> HIDE DEF m, data, c
<1>6. \A q : q \in Content(new.data) <=> q \in Content(data) /\ HashBit(q, n) = b
  BY <1>4, <1>5
<1>7. ASSUME NEW q \in Content(new.data) PROVE 1 + (Ptr!hash(q) % (2 * n)) = c
  <2>1. PICK j \in 1..m : data[j] = q /\ HashBit(q, n) = b
    BY <1>4, <1>7
  <2> DEFINE h == Ptr!hash(q)
             r == h % n
             w == h % (2 * n)
  <2>2. h \in Nat /\ 1 + r = i
    BY <1>1, <1>2, <2>1, AddressHashes
  <2>3. (h \div n) % 2 = b
    BY <2>1 DEF HashBit
  <2> HIDE DEF h
  <2>4. w = IF (h \div n) % 2 = 0 THEN r ELSE r + n
    BY <2>2, SplitHash
  <2>a. r \in Int
    BY <2>2
  <2> HIDE DEF r, w
  <2>5. 1 + w = c
    BY <2>a, <2>2, <2>3, <2>4 DEF c
  <2> QED BY <2>5 DEF w, h
<1>8. ASSUME NEW j \in 1..Len(new.data) PROVE 1 + (Ptr!hash(new.data[j]) % (2 * n)) = c
  <2>1. new.data[j] \in Content(new.data)
    BY DEF Content
  <2> QED BY <1>7, <2>1
<1>9. PtrOwn(new, 2 * n, c)
  BY <1>4, <1>8 DEF PtrOwn
<1> QED BY <1>4, <1>6, <1>9 DEF c, data, HalfOf

LEMMA DoubledPtrs ==
    ASSUME NEW d, PtrWell(d), d.bins # << >>, NEW e, e = Ptr!Doubled(d)
    PROVE  PtrWell(e) /\ Members(e) = Members(d) /\ e.bins # << >>
<1> DEFINE n == Len(d.bins)
           w == 2 * n
           Half(i) == IF i <= n THEN Ptr!Part(d.bins[i].data, n, 0) ELSE Ptr!Part(d.bins[i - n].data, n, 1)
           bins == [i \in 1..w |-> Half(i)]
<1>1. /\ PtrShape(d) /\ \A c \in 1..n : PtrOwn(d.bins[c], n, c)
      /\ IsFiniteSet(Members(d)) /\ d.size = Cardinality(Members(d))
  BY DEF PtrWell
<1>2. n \in Nat /\ n > 0 /\ d.size \in Nat /\ \A c \in 1..n : d.bins[c] \in PtrBin
  BY <1>1, PtrParts
<1>3. e = [size |-> d.size, bins |-> bins]
  BY DEF Ptr!Doubled, Ptr!cap
<1> HIDE DEF n
<1>4. /\ w \in Nat /\ w > 0 /\ 1..w = 1..n \cup (n + 1)..w
      /\ \A i \in 1..n : i <= n /\ i + n \in (n + 1)..w /\ ~(i + n <= n) /\ (i + n) - n = i
      /\ \A i \in (n + 1)..w : i - n \in 1..n /\ (i - n) + n = i /\ ~(i <= n)
  BY <1>2
<1>a. \A i \in (n + 1)..w : i - n \in 1..n /\ (i - n) + n = i
  BY <1>2
<1>5. ASSUME NEW i \in 1..n
      PROVE  /\ Half(i) \in PtrBin /\ PtrOwn(Half(i), w, i)
             /\ \A q : q \in Content(Half(i).data) <=> q \in Content(d.bins[i].data) /\ HashBit(q, n) = 0
             /\ Half(i + n) \in PtrBin /\ PtrOwn(Half(i + n), w, i + n)
             /\ \A q : q \in Content(Half(i + n).data) <=> q \in Content(d.bins[i].data) /\ HashBit(q, n) = 1
  <2> DEFINE bin == d.bins[i]
             low == Ptr!Part(bin.data, n, 0)
             high == Ptr!Part(bin.data, n, 1)
  <2>1. bin \in PtrBin /\ PtrOwn(bin, n, i)
    BY <1>1, <1>2
  <2>2. Half(i) = low /\ Half(i + n) = high
    BY <1>4
  <2> HIDE DEF bin, Half
  <2>3. /\ low \in PtrBin /\ PtrOwn(low, w, i)
        /\ \A q : q \in Content(low.data) <=> q \in Content(bin.data) /\ HashBit(q, n) = 0
    <3>1. HalfOf(low, bin, n, i, 0)
      BY <1>2, <2>1, PartOwn
    <3> HIDE DEF low
    <3> QED BY <3>1 DEF HalfOf, w
  <2>4. /\ high \in PtrBin /\ PtrOwn(high, w, i + n)
        /\ \A q : q \in Content(high.data) <=> q \in Content(bin.data) /\ HashBit(q, n) = 1
    <3>1. HalfOf(high, bin, n, i, 1)
      BY <1>2, <2>1, PartOwn
    <3> HIDE DEF high
    <3> QED BY <3>1 DEF HalfOf, w
  <2> HIDE DEF low, high, w
  <2> QED BY <2>2, <2>3, <2>4 DEF bin
<1> HIDE DEF Half, w
<1>6. ASSUME NEW i \in 1..w PROVE Half(i) \in PtrBin /\ PtrOwn(Half(i), w, i)
  <2>1. CASE i \in 1..n
    BY <1>5, <2>1
  <2>2. CASE i \in (n + 1)..w
    <3>1. i - n \in 1..n /\ (i - n) + n = i
      BY <1>a, <2>2
    <3> QED BY <1>5, <3>1
  <2> QED BY <1>4, <2>1, <2>2
<1>7. bins \in Seq(PtrBin) /\ Len(bins) = w /\ \A i \in 1..w : bins[i] = Half(i)
  <2>1. bins \in [1..w -> PtrBin]
    BY <1>6
  <2>2. bins \in Seq(PtrBin)
    BY <1>4, <2>1, SeqDef
  <2>3. DOMAIN bins = 1..w
    OBVIOUS
  <2> QED BY <1>4, <2>2, <2>3, LenProperties
<1> HIDE DEF bins
<1>8. PtrShape(e) /\ e.bins = bins /\ e.size = d.size
  BY <1>2, <1>3, <1>7 DEF PtrShape
<1>9. Len(e.bins) = w /\ \A i \in 1..w : e.bins[i] = Half(i)
  BY <1>7, <1>8
<1>10. ASSUME NEW i \in 1..Len(e.bins) PROVE PtrOwn(e.bins[i], Len(e.bins), i)
  BY <1>6, <1>9
<1>11. Members(e) = Members(d)
  <2> DEFINE X(i) == Content(Half(i).data)
             Y(i) == Content(d.bins[i].data)
  <2>1. \A q : q \in Members(e) <=> q \in Addrs /\ \E i \in 1..w : q \in X(i)
    BY <1>9 DEF Members
  <2>2. \A q : q \in Members(d) <=> q \in Addrs /\ \E i \in 1..n : q \in Y(i)
    BY DEF Members, n
  <2>3. \A i \in 1..n : /\ \A q : q \in X(i) <=> q \in Y(i) /\ HashBit(q, n) = 0
                        /\ \A q : q \in X(i + n) <=> q \in Y(i) /\ HashBit(q, n) = 1
    BY <1>5
  <2> HIDE DEF X, Y
  <2>4. ASSUME NEW q, NEW i \in 1..w, q \in X(i) PROVE \E j \in 1..n : q \in Y(j)
    <3>1. CASE i \in 1..n
      BY <2>3, <2>4, <3>1
    <3>2. CASE i \in (n + 1)..w
      <4>1. i - n \in 1..n /\ (i - n) + n = i
        BY <1>a, <3>2
      <4> QED BY <2>3, <2>4, <4>1
    <3> QED BY <1>4, <3>1, <3>2
  <2>5. ASSUME NEW q \in Addrs, NEW i \in 1..n, q \in Y(i) PROVE \E j \in 1..w : q \in X(j)
    <3>1. HashBit(q, n) \in {0, 1}
      BY <1>2, AddressHashes, SplitHash DEF HashBit
    <3>2. i \in 1..w /\ i + n \in 1..w
      BY <1>4
    <3> QED BY <2>3, <2>5, <3>1, <3>2
  <2> QED BY <2>1, <2>2, <2>4, <2>5
<1>12. e.bins # << >>
  <2>1. Len(e.bins) > 0
    BY <1>4, <1>9
  <2> QED BY <1>8, <2>1, PtrParts
<1> QED BY <1>1, <1>8, <1>10, <1>11, <1>12 DEF PtrWell

LEMMA GrownPtrs ==
    ASSUME NEW d, PtrWell(d), NEW e, e = Ptr!grow(d)
    PROVE  PtrWell(e) /\ Members(e) = Members(d) /\ e.bins # << >>
<1>1. CASE d.bins = << >>
  <2>1. PtrShape(d) /\ Members(d) = {}
    BY <1>1, NoMembers DEF PtrWell
  <2>2. d.size = 0
    BY <2>1, FS_EmptySet DEF PtrWell
  <2>3. InitialCap \in Nat /\ InitialCap > 0
    BY TableAssumption
  <2>4. e = [size |-> 0, bins |-> [i \in 1..InitialCap |-> Ptr!NewBin]]
    BY <1>1, <2>2 DEF Ptr!grow
  <2>5. PtrWell(e) /\ Members(e) = {} /\ Len(e.bins) = InitialCap
    BY <2>3, <2>4, BlankPtrs
  <2>6. e.bins # << >>
    BY <2>3, <2>5, PtrParts DEF PtrWell
  <2> QED BY <2>1, <2>5, <2>6
<1>2. CASE d.bins # << >>
  BY <1>2, DoubledPtrs DEF Ptr!grow
<1> QED BY <1>1, <1>2

-----------------------------------------------------------------------------
(* All elements, one after another.                                        *)

(* f has the elements of the first i bins, for each i.                     *)
ValuesUp(f, d) ==
    /\ f \in [0..Len(d.bins) -> Seq(Addrs)] /\ f[0] = << >>
    /\ \A i \in 1..Len(d.bins) : f[i] = f[i - 1] \o d.bins[i].data

ValuesOf(d) ==
    LET Upto[b \in 0..Len(d.bins)] == IF b = 0 THEN << >> ELSE Upto[b - 1] \o d.bins[b].data
    IN  Upto[Len(d.bins)]

LEMMA ValuesOfTable == Ptr!values = ValuesOf(table) /\ Ptr!values' = ValuesOf(table')
BY DEF Ptr!values, Ptr!cap, ValuesOf

ValuesStep(d, i, s) == s \o d.bins[i].data

LEMMA ValuesByBin ==
    ASSUME NEW d, PtrShape(d)
    PROVE  \E f : ValuesUp(f, d) /\ ValuesOf(d) = f[Len(d.bins)]
<1> DEFINE T == Seq(Addrs)
           n == Len(d.bins)
           step == [p \in (1..n) \X T |-> ValuesStep(d, p[1], p[2])]
           Rule(g) == [i \in 0..n |-> IF i = 0 THEN << >> ELSE ValuesStep(d, i, g[i - 1])]
           g == CHOOSE h : h = Rule(h)
<1>1. n \in Nat /\ << >> \in T /\ \A i \in 1..n : d.bins[i].data \in Seq(Addrs)
  BY PtrParts, BinParts
<1>2. \A i \in 1..n, x \in T : ValuesStep(d, i, x) \in T
  BY <1>1 DEF ValuesStep
<1>3. step \in [(1..n) \X T -> T]
  BY <1>2
<1>4. \A i \in 1..n, x \in T : step[<<i, x>>] = ValuesStep(d, i, x)
  OBVIOUS
<1> HIDE DEF step, n, T
<1>a. n \in Nat
  BY <1>1
<1>5. PICK f \in [0..n -> T] : f[0] = << >> /\ \A i \in 1..n : f[i] = step[<<i, f[i - 1]>>]
  <2> DEFINE base == << >>
  <2>1. base \in T /\ n \in Nat
    BY <1>1
  <2> HIDE DEF base
  <2>2. \E f \in [0..n -> T] : Follows(f, n, base, step)
    BY <1>3, <2>1, RecursiveFunction, Zenon
  <2> QED BY <2>2 DEF base, Follows
<1>6. ASSUME NEW i \in 1..n PROVE f[i] = ValuesStep(d, i, f[i - 1])
  <2>1. f[i - 1] \in T
    BY <1>1
  <2> QED BY <1>4, <1>5, <2>1
<1>7. f = Rule(f)
  <2>1. ASSUME NEW i \in 0..n PROVE f[i] = IF i = 0 THEN << >> ELSE ValuesStep(d, i, f[i - 1])
    <3>1. CASE i = 0
      BY <1>5, <3>1
    <3>2. CASE i # 0
      <4>1. i \in 1..n
        BY <1>1, <3>2
      <4> QED BY <1>6, <3>2, <4>1
    <3> QED BY <3>1, <3>2
  <2> QED BY <2>1
<1>8. g = Rule(g)
  BY <1>7
<1> HIDE DEF g
<1>9. g[0] = << >> /\ \A i \in 1..n : g[i] = ValuesStep(d, i, g[i - 1])
  BY <1>1, <1>8
<1>10. \A i \in 0..n : g[i] = f[i]
  <2> DEFINE S == {i \in 0..n : g[i] = f[i]}
  <2>1. 0 \in S
    BY <1>1, <1>5, <1>9
  <2>2. ASSUME NEW i \in 0..(n - 1), i \in S PROVE i + 1 \in S
    <3>1. i + 1 \in 1..n /\ (i + 1) - 1 = i /\ i + 1 \in 0..n
      BY <1>a
    <3>2. f[i + 1] = ValuesStep(d, i + 1, f[(i + 1) - 1]) /\ g[i + 1] = ValuesStep(d, i + 1, g[(i + 1) - 1])
      BY <1>6, <1>9, <3>1
    <3>3. g[(i + 1) - 1] = f[(i + 1) - 1]
      BY <2>2, <3>1
    <3>4. g[i + 1] = f[i + 1]
      BY <3>2, <3>3
    <3> QED BY <3>1, <3>4
  <2> HIDE DEF S
  <2>3. 0..n \subseteq S
    BY <1>1, <2>1, <2>2, InductionUpTo
  <2> QED BY <2>3 DEF S
<1>11. ValuesOf(d) = g[n]
  BY DEF ValuesOf, ValuesStep, g, n
<1>12. ValuesOf(d) = f[n]
  BY <1>1, <1>10, <1>11
<1>13. ValuesUp(f, d)
  BY <1>5, <1>6 DEF ValuesUp, ValuesStep, n, T
<1> QED BY <1>12, <1>13 DEF n

(* Nothing is in the sequence twice.                                       *)
Once(s) == \A x, y \in 1..Len(s) : s[x] = s[y] => x = y

(* The sequence has the elements of the first i bins, each once.           *)
ListsUp(s, d, i) ==
    /\ s \in Seq(Addrs) /\ Once(s)
    /\ \A q : q \in Content(s) <=> \E c \in 1..i : q \in Content(d.bins[c].data)

Apart(s, t) == \A q : ~(q \in Content(s) /\ q \in Content(t))

LEMMA BothLists ==
    ASSUME NEW T, NEW s \in Seq(T), NEW t \in Seq(T), NEW u, u = s \o t, Once(s), Once(t), Apart(s, t)
    PROVE  u \in Seq(T) /\ Once(u) /\ \A q : q \in Content(u) <=> q \in Content(s) \/ q \in Content(t)
<1> DEFINE m == Len(s)
           n == Len(t)
           w == Len(u)
           A(q) == q \in Content(s)
           B(q) == q \in Content(t)
           C(q) == q \in Content(u)
<1>1. m \in Nat /\ n \in Nat
  BY LenProperties
<1>2. u \in Seq(T) /\ w = m + n /\ \A x \in 1..(m + n) : u[x] = IF x <= m THEN s[x] ELSE t[x - m]
  BY ConcatProperties
<1>3. /\ \A q : A(q) <=> \E x \in 1..m : s[x] = q
      /\ \A q : B(q) <=> \E x \in 1..n : t[x] = q
      /\ \A q : C(q) <=> \E x \in 1..w : u[x] = q
  <2>1. \A q : A(q) <=> \E x \in 1..m : s[x] = q
    BY DEF Content
  <2>2. \A q : B(q) <=> \E x \in 1..n : t[x] = q
    BY DEF Content
  <2>3. \A q : C(q) <=> \E x \in 1..w : u[x] = q
    BY DEF Content
  <2> QED BY <2>1, <2>2, <2>3
<1>a. /\ \A x, y \in 1..m : s[x] = s[y] => x = y
      /\ \A x, y \in 1..n : t[x] = t[y] => x = y
      /\ \A q : ~(A(q) /\ B(q))
  BY DEF Once, Apart
<1> HIDE DEF m, n, w, A, B, C
<1>4. ASSUME NEW x \in 1..m PROVE x \in 1..w /\ u[x] = s[x]
  <2>1. x \in 1..(m + n) /\ x <= m
    BY <1>1
  <2> QED BY <1>2, <2>1
<1>5. ASSUME NEW x \in 1..n PROVE x + m \in 1..w /\ u[x + m] = t[x]
  <2>1. x + m \in 1..(m + n) /\ ~(x + m <= m) /\ (x + m) - m = x
    BY <1>1
  <2> QED BY <1>2, <2>1
<1>6. ASSUME NEW x \in 1..w PROVE x \in 1..m \/ \E y \in 1..n : x = y + m
  <2>1. x \in 1..m \/ (x - m \in 1..n /\ x = (x - m) + m)
    BY <1>1, <1>2
  <2> QED BY <2>1
<1>7. ASSUME NEW q PROVE C(q) <=> A(q) \/ B(q)
  <2>1. ASSUME C(q) PROVE A(q) \/ B(q)
    <3>1. PICK x \in 1..w : u[x] = q
      BY <1>3, <2>1
    <3>2. CASE x \in 1..m
      BY <1>3, <1>4, <3>1, <3>2
    <3>3. ASSUME NEW y \in 1..n, x = y + m PROVE B(q)
      <4>1. t[y] = q
        BY <1>5, <3>1, <3>3
      <4> QED BY <1>3, <4>1
    <3> QED BY <1>6, <3>2, <3>3
  <2>2. ASSUME A(q) PROVE C(q)
    BY <1>3, <1>4, <2>2
  <2>3. ASSUME B(q) PROVE C(q)
    <3>1. PICK y \in 1..n : t[y] = q
      BY <1>3, <2>3
    <3>2. y + m \in 1..w /\ u[y + m] = q
      BY <1>5, <3>1
    <3> QED BY <1>3, <3>2
  <2> QED BY <2>1, <2>2, <2>3
<1>8. ASSUME NEW x \in 1..w, NEW y \in 1..w, u[x] = u[y] PROVE x = y
  <2>1. CASE x \in 1..m /\ y \in 1..m
    BY <1>4, <1>8, <1>a, <2>1
  <2>2. ASSUME NEW a \in 1..n, x = a + m, NEW b \in 1..n, y = b + m PROVE x = y
    <3>1. t[a] = t[b]
      BY <1>5, <1>8, <2>2
    <3> QED BY <1>a, <2>2, <3>1
  <2>3. ASSUME NEW a \in 1..m, NEW b \in 1..n PROVE s[a] # t[b]
    <3>1. A(s[a]) /\ B(t[b])
      BY <1>3
    <3> QED BY <1>a, <3>1
  <2>4. ASSUME x \in 1..m, NEW b \in 1..n, y = b + m PROVE FALSE
    <3>1. s[x] = t[b]
      BY <1>4, <1>5, <1>8, <2>4
    <3> QED BY <2>3, <2>4, <3>1
  <2>5. ASSUME y \in 1..m, NEW a \in 1..n, x = a + m PROVE FALSE
    <3>1. s[y] = t[a]
      BY <1>4, <1>5, <1>8, <2>5
    <3> QED BY <2>3, <2>5, <3>1
  <2> QED BY <1>6, <2>1, <2>2, <2>4, <2>5
<1>9. Once(u)
  BY <1>8 DEF Once, w
<1> QED BY <1>2, <1>7, <1>9 DEF A, B, C

LEMMA ValuesListed ==
    ASSUME NEW d, PtrWell(d)
    PROVE  ListsUp(ValuesOf(d), d, Len(d.bins))
<1> DEFINE n == Len(d.bins)
<1>1. PtrShape(d) /\ \A c \in 1..n : PtrOwn(d.bins[c], n, c)
  BY DEF PtrWell
<1>2. n \in Nat /\ \A c \in 1..n : d.bins[c] \in PtrBin
  BY <1>1, PtrParts
<1>3. PICK f : ValuesUp(f, d) /\ ValuesOf(d) = f[n]
  BY <1>1, ValuesByBin
<1> DEFINE S == {i \in 0..n : ListsUp(f[i], d, i)}
<1>4. 0 \in S
  <2>1. f[0] = << >> /\ Len(<< >>) = 0 /\ 1..0 = {} /\ 0 \in 0..n /\ << >> \in Seq(Addrs)
    BY <1>2, <1>3 DEF ValuesUp
  <2>2. ListsUp(f[0], d, 0)
    BY <2>1 DEF ListsUp, Once, Content
  <2> QED BY <2>1, <2>2
<1>5. ASSUME NEW i \in 0..(n - 1), i \in S PROVE i + 1 \in S
  <2> DEFINE s == f[i]
             data == d.bins[i + 1].data
             t == f[i + 1]
             Y(c) == Content(d.bins[c].data)
  <2>1. i + 1 \in 1..n /\ i + 1 \in 0..n /\ (i + 1) - 1 = i /\ 1..(i + 1) = 1..i \cup {i + 1}
        /\ \A c \in 1..i : c \in 1..n /\ c # i + 1
    BY <1>2
  <2>2. t = s \o data
    BY <1>3, <2>1 DEF ValuesUp
  <2>3. /\ s \in Seq(Addrs) /\ Once(s)
        /\ \A q : q \in Content(s) <=> \E c \in 1..i : q \in Y(c)
    BY <1>5 DEF ListsUp
  <2>4. /\ data \in Seq(Addrs) /\ Len(data) \in Nat /\ \A x \in 1..Len(data) : data[x] \in Nat
        /\ \A x, y \in 1..Len(data) : x < y => data[x] < data[y]
    BY <1>1, <1>2, <2>1, BinParts DEF PtrOwn, Sorted
  <2>5. Once(data)
    <3> HIDE DEF data
    <3>1. ASSUME NEW x \in 1..Len(data), NEW y \in 1..Len(data), data[x] = data[y] PROVE x = y
      <4>1. x < y \/ x = y \/ y < x
        OBVIOUS
      <4> QED BY <2>4, <3>1, <4>1
    <3> QED BY <3>1 DEF Once
  <2>6. ASSUME NEW q, NEW c \in 1..n, NEW e \in 1..n, q \in Y(c), q \in Y(e) PROVE c = e
    <3>1. PICK x \in 1..Len(d.bins[c].data) : d.bins[c].data[x] = q
      BY <2>6 DEF Content
    <3>2. PICK y \in 1..Len(d.bins[e].data) : d.bins[e].data[y] = q
      BY <2>6 DEF Content
    <3>3. PtrOwn(d.bins[c], n, c) /\ PtrOwn(d.bins[e], n, e)
      BY <1>1
    <3>4. 1 + (Ptr!hash(q) % n) = c
      BY <3>1, <3>3 DEF PtrOwn
    <3>5. 1 + (Ptr!hash(q) % n) = e
      BY <3>2, <3>3 DEF PtrOwn
    <3> QED BY <3>4, <3>5
  <2>7. Content(data) = Y(i + 1)
    OBVIOUS
  <2> HIDE DEF s, t, data, Y
  <2>8. Apart(s, data)
    BY <2>1, <2>3, <2>6, <2>7 DEF Apart
  <2>9. /\ t \in Seq(Addrs) /\ Once(t)
        /\ \A q : q \in Content(t) <=> q \in Content(s) \/ q \in Content(data)
    BY <2>2, <2>3, <2>4, <2>5, <2>8, BothLists
  <2>10. \A q : q \in Content(t) <=> \E c \in 1..(i + 1) : q \in Y(c)
    BY <2>1, <2>3, <2>7, <2>9
  <2>11. ListsUp(t, d, i + 1)
    BY <2>9, <2>10 DEF ListsUp, Y
  <2> QED BY <2>1, <2>11 DEF t
<1> HIDE DEF S
<1>6. 0..n \subseteq S
  BY <1>2, <1>4, <1>5, InductionUpTo
<1>7. n \in S
  BY <1>2, <1>6
<1> QED BY <1>3, <1>7 DEF S

(* They are the elements of the set, and as many as its size.              *)
LEMMA ValuesRight ==
    ASSUME NEW d, PtrWell(d)
    PROVE  Ptr!Range(ValuesOf(d)) = Members(d) /\ Len(ValuesOf(d)) = d.size
<1> DEFINE s == ValuesOf(d)
           n == Len(s)
           f == [x \in 1..n |-> s[x]]
           M == Members(d)
<1>1. ListsUp(s, d, Len(d.bins))
  BY ValuesListed
<1> HIDE DEF s
<1>2. s \in Seq(Addrs) /\ n \in Nat /\ DOMAIN s = 1..n /\ \A x, y \in 1..n : s[x] = s[y] => x = y
  BY <1>1, LenProperties DEF ListsUp, Once
<1>3. Content(s) = {s[x] : x \in 1..n} /\ Ptr!Range(s) = {s[x] : x \in 1..n}
  BY <1>2 DEF Content, Ptr!Range
<1>4. \A x \in 1..n : s[x] \in Addrs
  BY <1>2
<1>5. Content(s) = M
  <2>1. \A q : q \in Content(s) <=> \E c \in 1..Len(d.bins) : q \in Content(d.bins[c].data)
    BY <1>1 DEF ListsUp
  <2>2. \A q : q \in Content(s) => q \in Addrs
    BY <1>3, <1>4
  <2> DEFINE C == Content(s)
  <2> HIDE DEF C
  <2>3. \A q : q \in C <=> q \in M
    BY <2>1, <2>2 DEF Members, C
  <2> HIDE DEF M
  <2> QED BY <2>3 DEF C
<1>6. IsFiniteSet(M) /\ d.size = Cardinality(M)
  BY DEF PtrWell
<1> HIDE DEF n, M
<1>7. f \in [1..n -> M]
  BY <1>3, <1>5
<1>8. f \in Injection(1..n, M)
  BY <1>2, <1>7 DEF Injection, IsInjective
<1>9. f \in Surjection(1..n, M)
  BY <1>3, <1>5, <1>7 DEF Surjection
<1>10. ExistsBijection(1..n, M)
  BY <1>8, <1>9 DEF ExistsBijection, Bijection
<1>11. Cardinality(M) = n
  BY <1>2, <1>10, FS_CountingElements
<1> QED BY <1>3, <1>5, <1>6, <1>11 DEF s, n, M

Ident(S) == [p \in S |-> p]

LEMMA PtrEntries ==
    /\ PtrWell(table) => Ptr!Entries = Ident(Members(table))
    /\ PtrWell(table') => Ptr!Entries' = Ident(Members(table'))
BY ValuesRight, ValuesOfTable DEF Ptr!Entries, Ident

LEMMA ContainsRight ==
    ASSUME PtrWell(table), NEW p \in Addrs
    PROVE  /\ Ptr!contains(p) <=> p \in Members(table)
           /\ table.bins # << >> => (Ptr!index_of(Ptr!Bin(p).data, p) >= 0 <=> p \in Members(table))
<1>1. CASE table.bins = << >>
  BY <1>1, NoMembers DEF Ptr!contains, PtrWell
<1>2. CASE table.bins # << >>
  <2> DEFINE b == Ptr!BinOf(table, p)
             bin == table.bins[b]
  <2>1. PtrShape(table) /\ b \in 1..Len(table.bins)
    BY <1>2, PtrBinOf DEF PtrWell
  <2>2. bin \in PtrBin /\ Sorted(bin.data)
    BY <2>1, PtrParts DEF PtrWell, PtrOwn
  <2>3. bin.data \in Seq(Nat) /\ p \in Nat
    BY <2>2, BinParts, AddressHashes
  <2>4. p \in Members(table) <=> p \in Content(bin.data)
    BY <1>2, MemberInBin
  <2> DEFINE data == bin.data
             x == Ptr!index_of(data, p)
  <2> HIDE DEF bin, data
  <2>5. data \in Seq(Nat) /\ Sorted(data)
    BY <2>2, <2>3 DEF data
  <2>6. x >= 0 <=> p \in Content(data)
    BY <2>3, <2>5, IndexOf
  <2>7. Ptr!Bin(p).data = data
    BY DEF Ptr!Bin, bin, data
  <2> QED BY <1>2, <2>4, <2>6, <2>7 DEF Ptr!contains, x, data
<1> QED BY <1>1, <1>2

-----------------------------------------------------------------------------
(* The methods of ptrset, as those of a map from each element to itself.   *)

PtrInv == PtrWell(table) /\ ok \in BOOLEAN /\ old = NULL

LEMMA IdentOf ==
    ASSUME NEW S, NEW p
    PROVE  /\ DOMAIN Ident(S) = S /\ Ident({}) = << >>
           /\ Extended(Ident(S), p, p) = Ident(S \cup {p})
           /\ Shortened(Ident(S), p) = Ident(S \ {p})
<1>1. Ident({}) = << >>
  <2>1. << >> = [q \in {} |-> q]
    OBVIOUS
  <2> QED BY <2>1 DEF Ident
<1> QED BY <1>1 DEF Ident, Extended, Shortened

(* What becomes of the map when p comes or goes.                           *)
LEMMA PtrEffects ==
    ASSUME PtrWell(table), PtrWell(table'), NEW p
    PROVE  /\ DOMAIN Ptr!Entries = Members(table)
           /\ Members(table') = Members(table) => Ptr!Entries' = Ptr!Entries
           /\ Members(table') = Members(table) \cup {p} => Ptr!Entries' = Extended(Ptr!Entries, p, p)
           /\ Members(table') = Members(table) \ {p} => Ptr!Entries' = Shortened(Ptr!Entries, p)
           /\ Members(table') = {} => Ptr!Entries' = << >>
<1> DEFINE S == Members(table)
           R == Members(table')
<1>1. Ptr!Entries = Ident(S) /\ Ptr!Entries' = Ident(R)
  BY PtrEntries
<1> HIDE DEF S, R
<1>2. /\ DOMAIN Ident(S) = S /\ Ident({}) = << >>
      /\ Extended(Ident(S), p, p) = Ident(S \cup {p}) /\ Shortened(Ident(S), p) = Ident(S \ {p})
  BY IdentOf
<1>3. DOMAIN Ptr!Entries = S
  BY <1>1, <1>2
<1>4. R = S => Ptr!Entries' = Ptr!Entries
  BY <1>1
<1>5. R = S \cup {p} => Ptr!Entries' = Extended(Ptr!Entries, p, p)
  BY <1>1, <1>2, Zenon
<1>6. R = S \ {p} => Ptr!Entries' = Shortened(Ptr!Entries, p)
  BY <1>1, <1>2, Zenon
<1>7. R = {} => Ptr!Entries' = << >>
  BY <1>1, <1>2, Zenon
<1> QED BY <1>3, <1>4, <1>5, <1>6, <1>7 DEF S, R

(* Without a change.                                                       *)
LEMMA PtrRefuse ==
    ASSUME PtrInv, NEW op, NEW k, NEW v, Ptr!Refuse(op, k, v)
    PROVE  PtrInv' /\ call' = Called(op, k, v) /\ Stays(Ptr!Entries, Ptr!Entries', ok', old')
<1>1. table' = table /\ ok' = FALSE /\ old' = NULL /\ call' = Called(op, k, v)
  BY DEF Ptr!Refuse, Ptr!Answer, Ptr!Called, Called
<1>2. PtrInv' /\ PtrWell(table')
  BY <1>1 DEF PtrInv
<1>3. Ptr!Entries' = Ptr!Entries
  BY <1>1, <1>2, PtrEffects DEF PtrInv
<1> QED BY <1>1, <1>2, <1>3 DEF Stays

(* The outcomes of an insertion, and of one that may find the element.     *)
Came(p) == PtrInv' /\ Adds(Ptr!Entries, Ptr!Entries', p, p, ok', old')

PutOrFound(p) ==
    /\ PtrInv'
    /\ IF p \in DOMAIN Ptr!Entries THEN Stays(Ptr!Entries, Ptr!Entries', ok', old')
       ELSE Adds(Ptr!Entries, Ptr!Entries', p, p, ok', old')

LEMMA PtrPutInto ==
    ASSUME PtrInv, NEW op, NEW p \in Addrs, NEW d, PtrWell(d), d.bins # << >>,
           Members(d) = Members(table), Ptr!PutInto(op, d, p)
    PROVE  call' = Called(op, p, p) /\ PutOrFound(p)
<1> DEFINE b == Ptr!BinOf(d, p)
           bin == d.bins[b]
           x == Ptr!insert_index_of(bin.data, p)
<1>1. PtrWell(table)
  BY DEF PtrInv
<1>2. x >= 0 <=> p \notin Members(d)
  <2>1. PtrShape(d) /\ b \in 1..Len(d.bins)
    BY PtrBinOf DEF PtrWell
  <2>2. bin \in PtrBin /\ Sorted(bin.data)
    BY <2>1, PtrParts DEF PtrWell, PtrOwn
  <2>3. bin.data \in Seq(Nat) /\ p \in Nat
    BY <2>2, BinParts, AddressHashes
  <2>4. p \in Members(d) <=> p \in Content(bin.data)
    BY MemberInBin
  <2> DEFINE data == bin.data
             y == Ptr!insert_index_of(data, p)
  <2> HIDE DEF data, bin
  <2>5. data \in Seq(Nat) /\ Sorted(data)
    BY <2>2, <2>3 DEF data
  <2>6. y >= 0 <=> p \notin Content(data)
    BY <2>3, <2>5, InsertIndexOf
  <2> QED BY <2>4, <2>6 DEF data, y
<1>3. \/ x >= 0 /\ table' = Ptr!WithInserted(d, p, x) /\ Ptr!Answer(op, p, p, TRUE)
      \/ table' = d /\ Ptr!Answer(op, p, p, FALSE)
  BY DEF Ptr!PutInto
<1>4. CASE x >= 0 /\ table' = Ptr!WithInserted(d, p, x) /\ Ptr!Answer(op, p, p, TRUE)
  <2>1. p \notin Members(d)
    BY <1>2, <1>4
  <2>2. PtrWell(table') /\ Members(table') = Members(d) \cup {p}
    BY <1>4, <2>1, Inserts
  <2>3. ok' = TRUE /\ old' = NULL /\ call' = Called(op, p, p)
    BY <1>4 DEF Ptr!Answer, Ptr!Called, Called
  <2>4. PtrInv'
    BY <2>2, <2>3 DEF PtrInv
  <2>5. p \notin DOMAIN Ptr!Entries /\ Ptr!Entries' = Extended(Ptr!Entries, p, p)
    BY <1>1, <2>1, <2>2, PtrEffects
  <2> QED BY <2>3, <2>4, <2>5 DEF PutOrFound, Adds
<1>5. CASE table' = d /\ Ptr!Answer(op, p, p, FALSE)
  <2>1. PtrWell(table') /\ Members(table') = Members(table)
    BY <1>5
  <2>2. ok' = FALSE /\ old' = NULL /\ call' = Called(op, p, p)
    BY <1>5 DEF Ptr!Answer, Ptr!Called, Called
  <2>3. PtrInv'
    BY <2>1, <2>2 DEF PtrInv
  <2>4. Ptr!Entries' = Ptr!Entries
    BY <1>1, <2>1, PtrEffects
  <2> QED BY <2>2, <2>3, <2>4 DEF PutOrFound, Adds, Stays
<1> QED BY <1>3, <1>4, <1>5

LEMMA PtrPut ==
    ASSUME PtrInv, NEW op, NEW p \in Addrs, Ptr!put(op, p)
    PROVE  call' = Called(op, p, p) /\ PutOrFound(p)
<1>1. PtrWell(table)
  BY DEF PtrInv
<1>2. CASE Ptr!MustGrow(p)
  <2> DEFINE d == Ptr!grow(table)
  <2>1. CASE Ptr!PutInto(op, d, p)
    <3>1. PtrWell(d) /\ Members(d) = Members(table) /\ d.bins # << >>
      BY <1>1, GrownPtrs
    <3> HIDE DEF d
    <3> QED BY <2>1, <3>1, PtrPutInto
  <2>2. CASE Ptr!Refuse(op, p, p)
    BY <2>2, PtrRefuse DEF PutOrFound, Adds
  <2> QED BY <1>2, <2>1, <2>2 DEF Ptr!put
<1>3. CASE ~Ptr!MustGrow(p)
  <2>1. Ptr!PutInto(op, table, p) /\ table.bins # << >>
    BY <1>3 DEF Ptr!put, Ptr!MustGrow
  <2> QED BY <1>1, <2>1, PtrPutInto
<1> QED BY <1>2, <1>3

LEMMA PtrToggleIn ==
    ASSUME PtrInv, NEW p \in Addrs, table.bins # << >>, p \notin Members(table), Ptr!ToggleIn(p)
    PROVE  call' = Called("toggle", p, p) /\ Came(p)
<1> DEFINE d == Ptr!WithInserted(table, p, Ptr!insert_index_of(Ptr!Bin(p).data, p))
<1>1. PtrWell(table)
  BY DEF PtrInv
<1>2. PtrWell(d) /\ Members(d) = Members(table) \cup {p}
  BY <1>1, Inserts DEF Ptr!Bin
<1>3. \/ Ptr!Answer("toggle", p, p, TRUE) /\ (table' = d \/ table' = Ptr!grow(d))
      \/ Ptr!Refuse("toggle", p, p)
  BY DEF Ptr!ToggleIn
<1> HIDE DEF d
<1>4. CASE Ptr!Answer("toggle", p, p, TRUE) /\ (table' = d \/ table' = Ptr!grow(d))
  <2>1. PtrWell(table') /\ Members(table') = Members(table) \cup {p}
    BY <1>2, <1>4, GrownPtrs
  <2>2. ok' = TRUE /\ old' = NULL /\ call' = Called("toggle", p, p)
    BY <1>4 DEF Ptr!Answer, Ptr!Called, Called
  <2>3. PtrInv'
    BY <2>1, <2>2 DEF PtrInv
  <2>4. Ptr!Entries' = Extended(Ptr!Entries, p, p)
    BY <1>1, <2>1, PtrEffects
  <2> QED BY <2>2, <2>3, <2>4 DEF Came, Adds
<1>5. CASE Ptr!Refuse("toggle", p, p)
  BY <1>5, PtrRefuse DEF Came, Adds
<1> QED BY <1>3, <1>4, <1>5

(* A removal.                                                              *)
LEMMA PtrDrop ==
    ASSUME PtrInv, NEW p \in Members(table), table.bins # << >>, NEW op, NEW k, NEW v,
           table' = Ptr!WithRemoved(table, p, Ptr!index_of(Ptr!Bin(p).data, p)), Ptr!Answer(op, k, v, TRUE)
    PROVE  PtrInv' /\ call' = Called(op, k, v) /\ Deletes(Ptr!Entries, Ptr!Entries', p, NULL, ok', old')
<1>1. PtrWell(table)
  BY DEF PtrInv
<1>2. PtrWell(table') /\ Members(table') = Members(table) \ {p}
  BY <1>1, Drops DEF Ptr!Bin
<1>3. ok' = TRUE /\ old' = NULL /\ call' = Called(op, k, v)
  BY DEF Ptr!Answer, Ptr!Called, Called
<1>4. PtrInv'
  BY <1>2, <1>3 DEF PtrInv
<1>5. Ptr!Entries' = Shortened(Ptr!Entries, p)
  BY <1>1, <1>2, PtrEffects
<1> QED BY <1>3, <1>4, <1>5 DEF Deletes

LEMMA PtrClear ==
    ASSUME PtrInv, Ptr!Clear \/ Ptr!Flush
    PROVE  PtrInv' /\ call' = Called("clear", NULL, NULL) /\ Empties(Ptr!Entries', ok', old')
<1>1. PtrWell(table) /\ PtrShape(table)
  BY DEF PtrInv, PtrWell
<1>2. ok' = TRUE /\ old' = NULL /\ call' = Called("clear", NULL, NULL)
  BY DEF Ptr!Clear, Ptr!Flush, Ptr!Answer, Ptr!Called, Called
<1>3. PtrWell(table') /\ Members(table') = {}
  <2>1. CASE Ptr!Clear
    <3> DEFINE n == Len(table.bins)
    <3>1. n \in Nat /\ DOMAIN table.bins = 1..n
      BY <1>1, PtrParts
    <3>2. table' = [size |-> 0, bins |-> [i \in DOMAIN table.bins |-> Ptr!NewBin]]
      BY <2>1 DEF Ptr!Clear
    <3> HIDE DEF n
    <3>3. table' = [size |-> 0, bins |-> [i \in 1..n |-> Ptr!NewBin]]
      BY <3>1, <3>2
    <3> QED BY <3>1, <3>3, BlankPtrs
  <2>2. CASE Ptr!Flush
    <3>1. << >> = [i \in 1..0 |-> Ptr!NewBin]
      OBVIOUS
    <3>2. table' = [size |-> 0, bins |-> << >>]
      BY <2>2 DEF Ptr!Flush, Ptr!Empty
    <3>3. table' = [size |-> 0, bins |-> [i \in 1..0 |-> Ptr!NewBin]]
      BY <3>1, <3>2
    <3> DEFINE n == 0
    <3>4. n \in Nat /\ table' = [size |-> 0, bins |-> [i \in 1..n |-> Ptr!NewBin]]
      BY <3>3
    <3> HIDE DEF n
    <3> QED BY <3>4, BlankPtrs
  <2> QED BY <2>1, <2>2
<1>4. PtrInv'
  BY <1>2, <1>3 DEF PtrInv
<1>5. Ptr!Entries' = << >>
  BY <1>1, <1>3, PtrEffects
<1> QED BY <1>2, <1>4, <1>5 DEF Empties

(* Every method of ptrset is one of the map.                               *)
LEMMA PtrNext ==
    ASSUME PtrInv, Ptr!Next
    PROVE  PtrInv' /\ MapMoves(Addrs, Addrs, Ptr!Entries, Ptr!Entries', call', ok', old')
<1> DEFINE f == Ptr!Entries
           g == Ptr!Entries'
           Moves(k, v) == Setting(f, g, call', ok', old', k, v)
           Leaves(k) == Dropping(f, g, call', ok', old', k)
<1>1. PtrWell(table) /\ DOMAIN f = Members(table)
  BY PtrEntries, IdentOf DEF PtrInv
<1>2. ASSUME NEW p \in Addrs, Ptr!Put(p) PROVE PtrInv' /\ Moves(p, p)
  <2>1. call' = Called("create", p, p) /\ PutOrFound(p)
    BY <1>2, PtrPut DEF Ptr!Put
  <2> QED BY <2>1 DEF PutOrFound, Setting
<1>3. ASSUME NEW p \in Addrs, Ptr!Toggle(p) PROVE PtrInv' /\ Moves(p, p)
  <2>1. CASE table.bins = << >>
    <3>1. Ptr!put("toggle", p)
      BY <1>3, <2>1 DEF Ptr!Toggle
    <3>2. call' = Called("toggle", p, p) /\ PutOrFound(p)
      BY <3>1, PtrPut
    <3>3. p \notin DOMAIN f
      BY <1>1, <2>1, NoMembers DEF PtrWell
    <3> QED BY <3>2, <3>3 DEF PutOrFound, Setting
  <2>2. CASE table.bins # << >> /\ p \in Members(table)
    <3>1. Ptr!ToggleOut(p)
      BY <1>1, <1>3, <2>2, ContainsRight DEF Ptr!Toggle
    <3>2. PtrInv' /\ call' = Called("toggle", p, p) /\ Deletes(f, g, p, NULL, ok', old')
      BY <2>2, <3>1, PtrDrop DEF Ptr!ToggleOut
    <3> QED BY <1>1, <2>2, <3>2 DEF Setting
  <2>3. CASE table.bins # << >> /\ p \notin Members(table)
    <3>1. Ptr!ToggleIn(p)
      BY <1>1, <1>3, <2>3, ContainsRight DEF Ptr!Toggle
    <3>2. call' = Called("toggle", p, p) /\ Came(p)
      BY <2>3, <3>1, PtrToggleIn
    <3> QED BY <1>1, <2>3, <3>2 DEF Setting, Came
  <2> QED BY <2>1, <2>2, <2>3
<1>4. ASSUME NEW p \in Addrs, Ptr!Discard(p) PROVE PtrInv' /\ Leaves(p)
  <2>1. CASE Ptr!contains(p)
    <3>1. p \in Members(table) /\ table.bins # << >>
      BY <1>1, <2>1, ContainsRight DEF Ptr!contains
    <3>2. PtrInv' /\ call' = Called("discard", p, NULL) /\ Deletes(f, g, p, NULL, ok', old')
      BY <1>4, <2>1, <3>1, PtrDrop DEF Ptr!Discard
    <3> QED BY <1>1, <3>1, <3>2 DEF Dropping
  <2>2. CASE ~Ptr!contains(p)
    <3>1. p \notin Members(table)
      BY <1>1, <2>2, ContainsRight
    <3>2. PtrInv' /\ call' = Called("discard", p, NULL) /\ Stays(f, g, ok', old')
      BY <1>4, <2>2, PtrRefuse DEF Ptr!Discard
    <3> QED BY <1>1, <3>1, <3>2 DEF Dropping
  <2> QED BY <2>1, <2>2
<1>5. ASSUME Ptr!Clear \/ Ptr!Flush
      PROVE  PtrInv' /\ call' = Called("clear", NULL, NULL) /\ Empties(g, ok', old')
  BY <1>5, PtrClear
<1> HIDE DEF f, g
<1>6. (\E p \in Addrs : Ptr!Put(p) \/ Ptr!Toggle(p) \/ Ptr!Discard(p)) \/ Ptr!Clear \/ Ptr!Flush
  BY DEF Ptr!Next, Addrs
<1> QED BY <1>2, <1>3, <1>4, <1>5, <1>6 DEF MapMoves, f, g

LEMMA PtrInit ==
    ASSUME Init
    PROVE  PtrInv /\ Ptr!Entries = << >>
<1> DEFINE n == 0
<1>1. table = [size |-> 0, bins |-> << >>] /\ ok = TRUE /\ old = NULL
  BY DEF Init, Empty
<1>2. << >> = [i \in 1..n |-> Ptr!NewBin] /\ n \in Nat
  OBVIOUS
<1> HIDE DEF n
<1>3. table = [size |-> 0, bins |-> [i \in 1..n |-> Ptr!NewBin]]
  BY <1>1, <1>2
<1>4. PtrWell(table) /\ Members(table) = {}
  BY <1>2, <1>3, BlankPtrs
<1>5. Ptr!Entries = << >>
  BY <1>4, PtrEntries, IdentOf
<1> QED BY <1>1, <1>4, <1>5 DEF PtrInv

LEMMA PtrStutter ==
    ASSUME PtrInv, UNCHANGED vars
    PROVE  PtrInv' /\ Ptr!Entries' = Ptr!Entries
<1>1. table' = table /\ call' = call /\ ok' = ok /\ old' = old
  BY DEF vars
<1>2. PtrInv' /\ PtrWell(table) /\ PtrWell(table')
  BY <1>1 DEF PtrInv
<1> QED BY <1>1, <1>2, PtrEffects

LEMMA PtrProperties ==
    ASSUME PtrInv
    PROVE  Ptr!TypeOK /\ Ptr!BinsSorted /\ Ptr!SearchesAgree
<1>1. PtrWell(table) /\ PtrShape(table)
  BY DEF PtrInv, PtrWell
<1>2. Ptr!TypeOK
  BY <1>1 DEF PtrInv, PtrShape, PtrBin, Addrs, Ptr!TypeOK
<1>3. Ptr!BinsSorted
  <2> SUFFICES ASSUME NEW b \in DOMAIN table.bins
               PROVE  LET data == table.bins[b].data IN
                      /\ \A i, j \in DOMAIN data : i < j => data[i] < data[j]
                      /\ \A i \in DOMAIN data : Ptr!BinOf(table, data[i]) = b
                      /\ Len(data) <= table.bins[b].cap
    BY DEF Ptr!BinsSorted
  <2> DEFINE data == table.bins[b].data
             n == Len(table.bins)
  <2>1. b \in 1..n
    BY <1>1, PtrParts
  <2>2. table.bins[b] \in PtrBin /\ PtrOwn(table.bins[b], n, b)
    BY <1>1, <2>1, PtrParts DEF PtrWell
  <2>3. DOMAIN data = 1..Len(data)
    BY <2>2, BinParts
  <2>4. /\ \A i, j \in 1..Len(data) : i < j => data[i] < data[j]
        /\ \A i \in 1..Len(data) : 1 + (Ptr!hash(data[i]) % n) = b
        /\ Len(data) <= table.bins[b].cap
    BY <2>2 DEF PtrOwn, Sorted
  <2> QED BY <2>3, <2>4 DEF Ptr!BinOf, Ptr!cap
<1>4. Ptr!SearchesAgree
  <2>1. Ptr!Range(Ptr!values) = Members(table) /\ Len(Ptr!values) = table.size
    BY <1>1, ValuesOfTable, ValuesRight
  <2>2. \A p \in Addrs : Ptr!contains(p) <=> p \in Members(table)
    BY <1>1, ContainsRight
  <2> QED BY <2>1, <2>2 DEF Ptr!SearchesAgree, Addrs
<1> QED BY <1>2, <1>3, <1>4

-----------------------------------------------------------------------------
(* pphash: the tables are those of HashIndexProofs.                        *)
Pp == INSTANCE HashIndexProofs WITH NodeSize <- 1

LEMMA SameNames ==
    /\ KeysOrNull = Pp!KeysOrNull /\ Tuple = Pp!Entry /\ Empty = Pp!Empty
    /\ \A k : hash(k) = Pp!hash(k)
BY DEF KeysOrNull, Pp!KeysOrNull, Tuple, Pp!Entry, Empty, Pp!Empty, hash, Pp!hash

LEMMA SameSearch ==
    /\ \A d, h : Chain(d, h) = Pp!Chain(d, h)
    /\ \A d, k, h : Search(d, k, h) = Pp!Search(d, k, h)
BY DEF Chain, Pp!Chain, Search, Pp!Search, Stops, Pp!Stops, BinOf, Pp!BinOf, cap, Pp!cap, Min, Pp!Min

LEMMA SameChanges ==
    /\ \A d, t : Link(d, t) = Pp!Link(d, t)
    /\ \A d, h, i : Unlink(d, h, i) = Pp!Unlink(d, h, i)
    /\ \A d, h, i, v : Store(d, h, i, v) = Pp!Store(d, h, i, v)
    /\ \A d : Cleared(d) = Pp!Cleared(d)
BY DEF Link, Pp!Link, Unlink, Pp!Unlink, Store, Pp!Store, WithBin, Pp!WithBin, Cleared, Pp!Cleared,
       NewBin, Pp!NewBin, BinOf, Pp!BinOf, cap, Pp!cap, RemoveAt, Pp!RemoveAt

LEMMA SamePlaced == \A d, t : Placed(d, t) = Pp!Placed(d, t)
BY DEF Placed, Pp!Placed, Link, Pp!Link, WithBin, Pp!WithBin, Grown, Pp!Grown, Doubled, Pp!Doubled,
       Allocated, Pp!Allocated, NewBin, Pp!NewBin, Moved, Pp!Moved, Kept, Pp!Kept, Chosen, Pp!Chosen,
       Reverse, Pp!Reverse, BinOf, Pp!BinOf, cap, Pp!cap

LEMMA SameContents ==
    /\ \A d : Stored(d) = Pp!Stored(d)
    /\ \A d : Tuples(d) = Pp!Tuples(d)
    /\ Entries = Pp!Entries /\ Entries' = Pp!Entries'
BY DEF Stored, Pp!Stored, Tuples, Pp!Tuples, Range, Pp!Range, Entries, Pp!Entries

LEMMA SameCardinality ==
    /\ \A S : Cardinality(S) = Pp!Cardinality(S)
    /\ \A S : IsFiniteSet(S) <=> Pp!IsFiniteSet(S)
BY DEF Cardinality, Pp!Cardinality, IsFiniteSet, Pp!IsFiniteSet

LEMMA PpAssumed == Pp!IndexAssumption
BY KeysAssumption, NodesAssumption DEF Pp!IndexAssumption, Wide!IndexAssumption

-----------------------------------------------------------------------------
(* The steps of pphash.                                                    *)

(* The copies of keys, counted by the keys of the map.                     *)
LEMMA CopiesCounted ==
    ASSUME NEW d, Pp!Well(d)
    PROVE  /\ IsFiniteSet(DOMAIN Pp!EntriesOf(d))
           /\ CopiedKeys(d) = Cardinality(DOMAIN Pp!EntriesOf(d) \ {NULL})
<1> DEFINE S == Stored(d)
           E == {t \in S : t.key # NULL}
           D == DOMAIN Pp!EntriesOf(d)
           K == D \ {NULL}
           f == [t \in S |-> t.key]
           g == [t \in E |-> t.key]
<1>1. S = Pp!Stored(d)
  BY SameContents
<1>2. IsFiniteSet(S)
  BY <1>1, SameCardinality DEF Pp!Well
<1>3. \A s, t \in S : s.key = t.key => s = t
  BY <1>1, Pp!OneForEachKey
<1>4. D = {t.key : t \in S}
  BY <1>1 DEF Pp!EntriesOf
<1>5. CopiedKeys(d) = Cardinality(E)
  BY SameContents, SameCardinality, Pp!TuplesCount DEF CopiedKeys
<1> HIDE DEF S, D
<1>6. IsFiniteSet(D)
  <2>1. f \in Surjection(S, D)
    <3>1. f \in [S -> D] /\ \A k \in D : \E t \in S : f[t] = k
      BY <1>4
    <3> QED BY <3>1 DEF Surjection
  <2> QED BY <1>2, <2>1, FS_Surjection
<1>7. Cardinality(E) = Cardinality(K)
  <2>1. g \in [E -> K] /\ \A s, t \in E : g[s] = g[t] => s = t
    BY <1>3, <1>4
  <2>2. \A k \in K : \E t \in E : g[t] = k
    BY <1>4
  <2>3. g \in Bijection(E, K)
    BY <2>1, <2>2 DEF Bijection, Injection, Surjection, IsInjective
  <2>4. ExistsBijection(E, K)
    BY <2>3 DEF ExistsBijection
  <2>5. IsFiniteSet(E)
    BY <1>2, FS_Subset
  <2> HIDE DEF E, K
  <2> QED BY <2>4, <2>5, FS_Bijection
<1> QED BY <1>5, <1>6, <1>7 DEF D

PpInv ==
    /\ Pp!Well(table) /\ clones = CopiedKeys(table)
    /\ ok \in BOOLEAN /\ old \in Values \cup {NULL}

LEMMA PpEntries == Entries = Pp!EntriesOf(table) /\ Entries' = Pp!EntriesOf(table')
BY SameContents, Pp!MapOfTable

LEMMA PpExists ==
    ASSUME Pp!Well(table), NEW k \in KeysOrNull
    PROVE  /\ Exists(k) <=> Pp!Holds(table, k)
           /\ Exists(k) <=> k \in DOMAIN Entries
<1>1. k \in Pp!KeysOrNull
  BY SameNames
<1>2. Pp!Search(table, k, Pp!hash(k)) # 0 <=> Pp!Holds(table, k)
  BY <1>1, PpAssumed, Pp!SearchFinds
<1>3. Exists(k) <=> Pp!Holds(table, k)
  BY <1>2, SameNames, SameSearch DEF Exists, find_tuple
<1>4. k \in DOMAIN Pp!EntriesOf(table) <=> Pp!Holds(table, k)
  BY Pp!EntryAt
<1> QED BY <1>3, <1>4, PpEntries

(* The entry that a search finds.                                          *)
LEMMA PpFound ==
    ASSUME Pp!Well(table), NEW k \in KeysOrNull, Exists(k)
    PROVE  /\ find_tuple(k) = Pp!Place(table, k)
           /\ Found(k) = Pp!Chain(table, Pp!hash(k))[Pp!Place(table, k)]
           /\ Found(k).key = k /\ Found(k).value \in Values
<1>1. k \in Pp!KeysOrNull /\ Pp!Holds(table, k)
  BY SameNames, PpExists
<1>2. find_tuple(k) = Pp!Place(table, k)
  BY SameNames, SameSearch DEF find_tuple, Pp!Place
<1>3. Found(k) = Pp!Chain(table, Pp!hash(k))[Pp!Place(table, k)]
  BY <1>2, SameNames, SameSearch DEF Found
<1> DEFINE t == Pp!Chain(table, Pp!hash(k))[Pp!Place(table, k)]
<1>4. t \in Pp!Stored(table) /\ t.key = k
  BY <1>1, PpAssumed, Pp!PlaceOf
<1>5. t \in Pp!Entry
  BY <1>4, Pp!StoredIn
<1>6. t.value \in Values
  BY <1>5, Pp!EntryFields
<1> QED BY <1>2, <1>3, <1>4, <1>6

LEMMA PpUpdate ==
    ASSUME PpInv, NEW op, NEW k \in KeysOrNull, NEW v \in Values, Exists(k), Update(op, k, v)
    PROVE  PpInv' /\ call' = Called(op, k, v) /\ Sets(Entries, Entries', k, v, ok', old')
<1>1. Pp!Well(table) /\ clones = CopiedKeys(table) /\ k \in Pp!KeysOrNull /\ Pp!Holds(table, k)
  BY SameNames, PpExists DEF PpInv
<1>2. table' = Pp!Store(table, Pp!hash(k), Pp!Place(table, k), v)
  BY <1>1, SameNames, SameChanges, PpFound DEF Update
<1>3. Pp!Well(table')
  BY <1>1, <1>2, PpAssumed, Pp!TableStores
<1>4. /\ k \in DOMAIN Pp!EntriesOf(table)
      /\ Pp!EntriesOf(table)[k] = Pp!Chain(table, Pp!hash(k))[Pp!Place(table, k)].value
      /\ Pp!EntriesOf(table') = Pp!Extended(Pp!EntriesOf(table), k, v)
  BY <1>1, <1>2, PpAssumed, Pp!MapStores
<1>5. Found(k) = Pp!Chain(table, Pp!hash(k))[Pp!Place(table, k)] /\ Found(k).value \in Values
  BY <1>1, PpFound
<1>6. clones' = clones /\ call' = Called(op, k, v) /\ ok' = TRUE /\ old' = Found(k).value
  BY DEF Update, Answer
<1>7. DOMAIN Pp!EntriesOf(table') = DOMAIN Pp!EntriesOf(table)
  BY <1>4 DEF Pp!Extended
<1>8. clones' = CopiedKeys(table')
  BY <1>1, <1>3, <1>6, <1>7, CopiesCounted
<1>9. PpInv'
  BY <1>3, <1>5, <1>6, <1>8 DEF PpInv
<1>10. Sets(Entries, Entries', k, v, ok', old')
  BY <1>4, <1>5, <1>6, PpEntries DEF Sets, Extended, Pp!Extended
<1> QED BY <1>6, <1>9, <1>10

LEMMA PpInsert ==
    ASSUME PpInv, NEW op, NEW k \in KeysOrNull, NEW v \in Values, ~Exists(k), Insert(op, k, v)
    PROVE  PpInv' /\ call' = Called(op, k, v) /\ Adds(Entries, Entries', k, v, ok', old')
<1>1. Pp!Well(table) /\ clones = CopiedKeys(table) /\ k \in Pp!KeysOrNull /\ ~Pp!Holds(table, k)
  BY SameNames, PpExists DEF PpInv
<1>2. PICK o \in create_tuple(k, v) :
          table' = o.d /\ clones' = o.clones /\ call' = Called(op, k, v) /\ ok' = o.ok /\ old' = NULL
  BY DEF Insert, Answer
<1>3. CASE o = Outcome(FALSE, table, 0)
  <2>1. table' = table /\ ok' = FALSE
    BY <1>2, <1>3 DEF Outcome
  <2>2. clones' = clones
    <3>1. clones \in Nat
      <4>1. IsFiniteSet(DOMAIN Pp!EntriesOf(table) \ {NULL})
        BY <1>1, CopiesCounted, FS_Subset
      <4> QED BY <1>1, <4>1, CopiesCounted, FS_CardinalityType
    <3>2. clones' = clones + 0
      BY <1>2, <1>3 DEF Outcome
    <3> QED BY <3>1, <3>2
  <2>3. PpInv'
    BY <1>1, <1>2, <2>1, <2>2 DEF PpInv
  <2> QED BY <1>2, <2>1, <2>3, PpEntries DEF Adds, Stays
<1>4. CASE o = Outcome(TRUE, Placed(table, [hash |-> hash(k), key |-> k, value |-> v]), CopiesOf(k))
  <2> DEFINE t == Pp!NewEntry(k, v)
             e == Pp!Placed(table, t)
             D == DOMAIN Pp!EntriesOf(table)
  <2>1. table' = e /\ ok' = TRUE /\ clones' = clones + CopiesOf(k)
    BY <1>2, <1>4, SameNames, SamePlaced DEF Outcome, Pp!NewEntry
  <2>2. t \in Pp!Entry /\ t.hash = Pp!hash(t.key) /\ t.key = k
    BY <1>1, PpAssumed, Pp!Constants DEF Pp!NewEntry, Pp!Entry
  <2> HIDE DEF t
  <2>3. Pp!Well(e) /\ Pp!Stored(e) = Pp!Stored(table) \cup {t}
    BY <1>1, <2>2, PpAssumed, Pp!PlacedWell
  <2> HIDE DEF e
  <2>4. k \notin D /\ Pp!EntriesOf(e) = Pp!Extended(Pp!EntriesOf(table), k, v)
    BY <1>1, <2>3, Pp!MapInserts DEF t
  <2>5. DOMAIN Pp!EntriesOf(e) = D \cup {k}
    BY <2>4 DEF Pp!Extended
  <2>6. IsFiniteSet(D) /\ clones = Cardinality(D \ {NULL}) /\ CopiedKeys(e) = Cardinality((D \cup {k}) \ {NULL})
    BY <1>1, <2>3, <2>5, CopiesCounted
  <2> HIDE DEF D
  <2>7. clones + CopiesOf(k) = CopiedKeys(e)
    <3> DEFINE C == D \ {NULL}
    <3>1. IsFiniteSet(C) /\ Cardinality(C) \in Nat
      BY <2>6, FS_Subset, FS_CardinalityType
    <3>2. CASE k = NULL
      <4>1. (D \cup {k}) \ {NULL} = C
        BY <3>2
      <4> QED BY <2>6, <3>1, <3>2, <4>1 DEF CopiesOf
    <3>3. CASE k # NULL
      <4>1. (D \cup {k}) \ {NULL} = C \cup {k} /\ k \notin C
        BY <2>4, <3>3
      <4> HIDE DEF C
      <4>2. Cardinality(C \cup {k}) = Cardinality(C) + 1
        BY <3>1, <4>1, FS_AddElement
      <4>3. CopiesOf(k) = 1
        BY <3>3 DEF CopiesOf
      <4> QED BY <2>6, <4>1, <4>2, <4>3 DEF C
    <3> QED BY <3>2, <3>3
  <2>8. PpInv'
    BY <1>2, <2>1, <2>3, <2>7 DEF PpInv
  <2> QED BY <1>2, <2>1, <2>4, <2>8, PpEntries DEF Adds, Extended, Pp!Extended
<1> QED BY <1>2, <1>3, <1>4 DEF create_tuple

LEMMA PpRefuse ==
    ASSUME PpInv, NEW op, NEW k, NEW v, Refuse(op, k, v)
    PROVE  PpInv' /\ call' = Called(op, k, v) /\ Stays(Entries, Entries', ok', old')
<1>1. table' = table /\ clones' = clones /\ ok' = FALSE /\ old' = NULL /\ call' = Called(op, k, v)
  BY DEF Refuse, Answer
<1>2. PpInv'
  BY <1>1 DEF PpInv
<1> QED BY <1>1, <1>2, PpEntries DEF Stays

LEMMA PpRemove ==
    ASSUME PpInv, NEW k \in KeysOrNull, RemoveKey(k)
    PROVE  PpInv' /\ Dropping(Entries, Entries', call', ok', old', k)
<1>1. Pp!Well(table) /\ clones = CopiedKeys(table) /\ k \in Pp!KeysOrNull
  BY SameNames DEF PpInv
<1>2. CASE ~Exists(k)
  <2>1. Refuse("remove", k, NULL)
    BY <1>2 DEF RemoveKey
  <2>2. PpInv' /\ call' = Called("remove", k, NULL) /\ Stays(Entries, Entries', ok', old')
    BY <2>1, PpRefuse
  <2>3. k \notin DOMAIN Entries
    BY <1>1, <1>2, PpExists
  <2> QED BY <2>2, <2>3 DEF Dropping
<1>3. CASE Exists(k)
  <2> DEFINE D == DOMAIN Pp!EntriesOf(table)
             e == Pp!Unlink(table, Pp!hash(k), Pp!Place(table, k))
  <2>1. Pp!Holds(table, k)
    BY <1>1, <1>3, PpExists
  <2>2. Found(k) = Pp!Chain(table, Pp!hash(k))[Pp!Place(table, k)] /\ Found(k).value \in Values /\ Found(k).key = k
    BY <1>1, <1>3, PpFound
  <2>3. table' = e /\ clones' = clones - CopiesOf(k)
    BY <1>1, <1>3, <2>2, SameNames, SameChanges, PpFound DEF RemoveKey
  <2>4. call' = Called("remove", k, NULL) /\ ok' = TRUE /\ old' = Found(k).value
    BY <1>3 DEF RemoveKey, Answer
  <2>5. Pp!Well(e)
    BY <1>1, <2>1, PpAssumed, Pp!TableDrops
  <2>6. /\ k \in D /\ Pp!EntriesOf(table)[k] = Pp!Chain(table, Pp!hash(k))[Pp!Place(table, k)].value
        /\ Pp!EntriesOf(e) = Pp!Shortened(Pp!EntriesOf(table), k)
    BY <1>1, <2>1, PpAssumed, Pp!MapDrops
  <2> HIDE DEF e
  <2>7. DOMAIN Pp!EntriesOf(e) = D \ {k}
    BY <2>6 DEF Pp!Shortened
  <2>8. IsFiniteSet(D) /\ clones = Cardinality(D \ {NULL}) /\ CopiedKeys(e) = Cardinality((D \ {k}) \ {NULL})
    BY <1>1, <2>5, <2>7, CopiesCounted
  <2>a. k \in D
    BY <2>6
  <2> HIDE DEF D
  <2>9. clones - CopiesOf(k) = CopiedKeys(e)
    <3> DEFINE C == D \ {NULL}
    <3>1. IsFiniteSet(C) /\ Cardinality(C) \in Nat
      BY <2>8, FS_Subset, FS_CardinalityType
    <3>2. CASE k = NULL
      <4>1. (D \ {k}) \ {NULL} = C
        BY <3>2
      <4> QED BY <2>8, <3>1, <3>2, <4>1 DEF CopiesOf
    <3>3. CASE k # NULL
      <4>1. (D \ {k}) \ {NULL} = C \ {k} /\ k \in C
        BY <2>a, <3>3
      <4> HIDE DEF C
      <4>2. Cardinality(C \ {k}) = Cardinality(C) - 1
        BY <3>1, <4>1, FS_RemoveElement
      <4>3. CopiesOf(k) = 1
        BY <3>3 DEF CopiesOf
      <4> QED BY <2>8, <4>1, <4>2, <4>3 DEF C
    <3> QED BY <3>2, <3>3
  <2>10. PpInv'
    BY <2>2, <2>3, <2>4, <2>5, <2>9 DEF PpInv
  <2>11. Deletes(Entries, Entries', k, Entries[k], ok', old')
    BY <2>2, <2>3, <2>4, <2>6, PpEntries DEF Deletes, Shortened, Pp!Shortened
  <2>12. k \in DOMAIN Entries
    BY <1>1, <1>3, PpExists
  <2> QED BY <2>4, <2>10, <2>11, <2>12 DEF Dropping
<1> QED BY <1>2, <1>3

(* A table without entries, and without copies of keys.                    *)
LEMMA PpNone ==
    ASSUME NEW d, d \in {Cleared(table), Empty}, Pp!Well(table)
    PROVE  Pp!Well(d) /\ Pp!EntriesOf(d) = << >> /\ CopiedKeys(d) = 0
<1>1. Pp!Well(d) /\ Pp!Stored(d) = {}
  BY SameNames, SameChanges, Pp!ClearedWell, Pp!EmptyWell
<1>2. Pp!EntriesOf(d) = << >>
  BY <1>1, Pp!NoEntries
<1>3. DOMAIN Pp!EntriesOf(d) \ {NULL} = {}
  BY <1>1 DEF Pp!EntriesOf
<1>4. CopiedKeys(d) = 0
  BY <1>1, <1>3, CopiesCounted, FS_EmptySet
<1> QED BY <1>1, <1>2, <1>4

LEMMA PpClear ==
    ASSUME PpInv, Clear \/ Flush
    PROVE  PpInv' /\ call' = Called("clear", NULL, NULL) /\ Empties(Entries', ok', old')
<1>1. Pp!Well(table) /\ clones = CopiedKeys(table)
  BY DEF PpInv
<1>2. PICK d \in {Cleared(table), Empty} : Destroy(d)
  BY DEF Clear, Flush
<1>3. Pp!Well(d) /\ Pp!EntriesOf(d) = << >> /\ CopiedKeys(d) = 0
  BY <1>1, <1>2, PpNone
<1>4. table' = d /\ clones' = clones - CopiedKeys(table) /\ call' = Called("clear", NULL, NULL)
      /\ ok' = TRUE /\ old' = NULL
  BY <1>2 DEF Destroy, Answer
<1>5. clones' = 0
  <2>1. IsFiniteSet(DOMAIN Pp!EntriesOf(table) \ {NULL})
    BY <1>1, CopiesCounted, FS_Subset
  <2>2. CopiedKeys(table) \in Nat
    BY <1>1, <2>1, CopiesCounted, FS_CardinalityType
  <2> QED BY <1>1, <1>4, <2>2
<1>6. PpInv'
  BY <1>3, <1>4, <1>5 DEF PpInv
<1> QED BY <1>3, <1>4, <1>6, PpEntries DEF Empties

LEMMA PpInit ==
    ASSUME Init
    PROVE  PpInv /\ Entries = << >>
<1>1. table = Empty /\ clones = 0 /\ ok = TRUE /\ old = NULL
  BY DEF Init
<1>2. Pp!Well(table)
  BY <1>1, SameNames, Pp!EmptyWell
<1>3. Pp!EntriesOf(table) = << >> /\ CopiedKeys(table) = 0
  BY <1>1, <1>2, PpNone
<1> QED BY <1>1, <1>2, <1>3, PpEntries DEF PpInv

(* Every method of pphash is one of the map.                               *)
LEMMA PpNext ==
    ASSUME PpInv, Next
    PROVE  PpInv' /\ MapMoves(KeysOrNull, Values, Entries, Entries', call', ok', old')
<1>1. \A k \in KeysOrNull : Exists(k) <=> k \in DOMAIN Entries
  BY PpExists DEF PpInv
<1>2. ASSUME NEW k \in KeysOrNull, NEW v \in Values, Put(k, v) \/ Create(k, v) \/ Replace(k, v)
      PROVE  PpInv' /\ Setting(Entries, Entries', call', ok', old', k, v)
  <2>1. CASE Put(k, v)
    <3>1. CASE Exists(k)
      BY <1>1, <2>1, <3>1, PpUpdate DEF Put, Setting
    <3>2. CASE ~Exists(k)
      BY <1>1, <2>1, <3>2, PpInsert DEF Put, Setting
    <3> QED BY <3>1, <3>2
  <2>2. CASE Create(k, v)
    <3>1. CASE Exists(k)
      BY <1>1, <2>2, <3>1, PpRefuse DEF Create, Setting
    <3>2. CASE ~Exists(k)
      BY <1>1, <2>2, <3>2, PpInsert DEF Create, Setting
    <3> QED BY <3>1, <3>2
  <2>3. CASE Replace(k, v)
    <3>1. CASE Exists(k)
      BY <1>1, <2>3, <3>1, PpUpdate DEF Replace, Setting
    <3>2. CASE ~Exists(k)
      BY <1>1, <2>3, <3>2, PpRefuse DEF Replace, Setting
    <3> QED BY <3>1, <3>2
  <2> QED BY <1>2, <2>1, <2>2, <2>3
<1>3. ASSUME NEW k \in KeysOrNull, RemoveKey(k)
      PROVE  PpInv' /\ Dropping(Entries, Entries', call', ok', old', k)
  BY <1>3, PpRemove
<1>4. ASSUME Clear \/ Flush
      PROVE  PpInv' /\ call' = Called("clear", NULL, NULL) /\ Empties(Entries', ok', old')
  BY <1>4, PpClear
<1> QED BY <1>2, <1>3, <1>4 DEF Next, MapMoves

LEMMA PpStutter ==
    ASSUME PpInv, UNCHANGED vars
    PROVE  PpInv' /\ Entries' = Entries
<1>1. table' = table /\ clones' = clones /\ call' = call /\ ok' = ok /\ old' = old
  BY DEF vars
<1> QED BY <1>1, PpEntries DEF PpInv

LEMMA PpProperties ==
    ASSUME PpInv
    PROVE  TypeOK /\ Findable /\ SizesAgree /\ KeysOwned
<1>1. Pp!Well(table) /\ clones = CopiedKeys(table)
  BY DEF PpInv
<1>2. clones \in Nat
  <2>1. IsFiniteSet(DOMAIN Pp!EntriesOf(table) \ {NULL})
    BY <1>1, CopiesCounted, FS_Subset
  <2> QED BY <1>1, <2>1, CopiesCounted, FS_CardinalityType
<1>3. TypeOK
  BY <1>1, <1>2, SameNames DEF PpInv, TypeOK, Pp!Well
<1>4. Findable
  <2>1. Pp!Findable
    BY <1>1, PpAssumed, Pp!WellFindable
  <2> QED BY <2>1, SameNames, SameSearch DEF Findable, Pp!Findable, BinOf, Pp!BinOf, cap, Pp!cap
<1>5. SizesAgree
  <2>1. Pp!SizesAgree
    BY <1>1, Pp!WellSizes
  <2> QED BY <2>1, SameContents DEF SizesAgree, Pp!SizesAgree
<1> QED BY <1>1, <1>3, <1>4, <1>5 DEF KeysOwned

-----------------------------------------------------------------------------
(* phashset: the same tables, with classes of objects for keys and objects
   for values.                                                             *)
Sp == INSTANCE HashIndexProofs WITH Values <- Set!Pointers, NodeSize <- 1

LEMMA SetNames ==
    /\ KeysOrNull = Sp!KeysOrNull /\ Set!Tuple = Sp!Entry /\ Set!Empty = Sp!Empty
    /\ \A k, h : Set!Search(table, k, h) = Sp!Search(table, k, h)
    /\ \A h : Set!Chain(table, h) = Sp!Chain(table, h)
<1>1. KeysOrNull = Sp!KeysOrNull /\ Set!Tuple = Sp!Entry /\ Set!Empty = Sp!Empty
  BY DEF KeysOrNull, Sp!KeysOrNull, Set!Tuple, Sp!Entry, Set!Empty, Sp!Empty
<1>2. \A h : Set!Chain(table, h) = Sp!Chain(table, h)
  BY DEF Set!Chain, Sp!Chain, Set!BinOf, Sp!BinOf, Set!cap, Sp!cap
<1>3. \A k, h : Set!Search(table, k, h) = Sp!Search(table, k, h)
  BY DEF Set!Chain, Sp!Chain, Set!Search, Sp!Search, Set!Stops, Sp!Stops, Set!BinOf, Sp!BinOf,
         Set!cap, Sp!cap, Set!Min, Sp!Min
<1> QED BY <1>1, <1>2, <1>3

LEMMA SetChanges ==
    /\ \A h, i : Set!Unlink(table, h, i) = Sp!Unlink(table, h, i)
    /\ \A h, i, v : Set!Store(table, h, i, v) = Sp!Store(table, h, i, v)
    /\ \A t : Set!Placed(table, t) = Sp!Placed(table, t)
    /\ Set!Cleared(table) = Sp!Cleared(table)
<1>1. /\ \A h, i : Set!Unlink(table, h, i) = Sp!Unlink(table, h, i)
      /\ \A h, i, v : Set!Store(table, h, i, v) = Sp!Store(table, h, i, v)
      /\ Set!Cleared(table) = Sp!Cleared(table)
  BY DEF Set!Unlink, Sp!Unlink, Set!Store, Sp!Store, Set!WithBin, Sp!WithBin, Set!Cleared, Sp!Cleared,
         Set!NewBin, Sp!NewBin, Set!BinOf, Sp!BinOf, Set!cap, Sp!cap, Set!RemoveAt, Sp!RemoveAt
<1>2. \A t : Set!Placed(table, t) = Sp!Placed(table, t)
  BY DEF Set!Placed, Sp!Placed, Set!Link, Sp!Link, Set!WithBin, Sp!WithBin, Set!Grown, Sp!Grown,
         Set!Doubled, Sp!Doubled, Set!Allocated, Sp!Allocated, Set!NewBin, Sp!NewBin, Set!Moved,
         Sp!Moved, Set!Kept, Sp!Kept, Set!Chosen, Sp!Chosen, Set!Reverse, Sp!Reverse,
         Set!BinOf, Sp!BinOf, Set!cap, Sp!cap
<1> QED BY <1>1, <1>2

LEMMA SetContents ==
    /\ Set!Tuples(table) = Sp!Tuples(table)
    /\ Set!Entries = Sp!EntriesOf(table) /\ Set!Entries' = Sp!EntriesOf(table')
<1>1. Set!Tuples(table) = Sp!Tuples(table)
  BY DEF Set!Tuples, Sp!Tuples
<1>2. Set!Entries = Sp!EntriesOf(table) /\ Set!Entries' = Sp!EntriesOf(table')
  BY DEF Set!Entries, Sp!EntriesOf, Set!Stored, Sp!Stored, Set!Range, Sp!Range
<1> QED BY <1>1, <1>2

(* The class and the hash of an object, as those of a key.                 *)
LEMMA Objects ==
    /\ Sp!IndexAssumption
    /\ \A p \in Set!Pointers : Set!class(p) \in KeysOrNull /\ Sp!hash(Set!class(p)) = Set!hash(p)
<1>1. Sp!IndexAssumption
  BY KeysAssumption, NodesAssumption DEF Sp!IndexAssumption, Wide!IndexAssumption
<1>2. NULL \notin Keys /\ NULL \notin Keys \X (1..SetCopies)
  BY SetAssumption DEF Set!ClassesAssumption
<1>3. ASSUME NEW p \in Keys \X (1..SetCopies)
      PROVE  Set!class(p) \in KeysOrNull /\ Sp!hash(Set!class(p)) = Set!hash(p)
  <2>1. p # NULL /\ p[1] \in Keys /\ p[1] # NULL
    BY <1>2, <1>3
  <2> QED BY <2>1 DEF Set!class, Set!hash, Sp!hash, KeysOrNull
<1>4. Set!class(NULL) \in KeysOrNull /\ Sp!hash(Set!class(NULL)) = Set!hash(NULL)
  BY DEF Set!class, Set!hash, Sp!hash, KeysOrNull
<1> QED BY <1>1, <1>3, <1>4 DEF Set!Pointers

(* Each element stands under its own class.                                *)
Classed(d) == \A t \in Sp!Stored(d) : t.key = Set!class(t.value)

SpInv ==
    /\ Sp!Well(table) /\ Classed(table)
    /\ ok \in BOOLEAN /\ old \in Set!Pointers

LEMMA SpExists ==
    ASSUME Sp!Well(table), NEW p \in Set!Pointers
    PROVE  /\ Set!Exists(p) <=> Sp!Holds(table, Set!class(p))
           /\ Set!Exists(p) <=> Set!class(p) \in DOMAIN Set!Entries
<1> DEFINE k == Set!class(p)
<1>1. k \in Sp!KeysOrNull /\ Sp!hash(k) = Set!hash(p)
  BY Objects, SetNames
<1>2. Set!Exists(p) <=> Sp!Search(table, k, Sp!hash(k)) # 0
  BY <1>1, SetNames DEF Set!Exists, Set!find_tuple
<1> HIDE DEF k
<1>3. Sp!Search(table, k, Sp!hash(k)) # 0 <=> Sp!Holds(table, k)
  BY <1>1, Objects, Sp!SearchFinds
<1>4. k \in DOMAIN Sp!EntriesOf(table) <=> Sp!Holds(table, k)
  BY Sp!EntryAt
<1> QED BY <1>2, <1>3, <1>4, SetContents DEF k

LEMMA SpFound ==
    ASSUME Sp!Well(table), NEW p \in Set!Pointers, NEW k, k = Set!class(p), Set!Exists(p)
    PROVE  /\ Set!find_tuple(p) = Sp!Place(table, k) /\ Set!hash(p) = Sp!hash(k)
           /\ k \in Sp!KeysOrNull /\ Sp!Holds(table, k)
           /\ Set!Found(p) = Sp!Chain(table, Sp!hash(k))[Sp!Place(table, k)]
           /\ Set!Found(p) \in Sp!Stored(table) /\ Set!Found(p).key = k /\ Set!Found(p).value \in Set!Pointers
<1>1. k \in Sp!KeysOrNull /\ Sp!hash(k) = Set!hash(p) /\ Sp!Holds(table, k)
  BY Objects, SetNames, SpExists
<1>2. Set!find_tuple(p) = Sp!Place(table, k)
  BY <1>1, SetNames DEF Set!find_tuple, Sp!Place
<1>3. Set!Found(p) = Sp!Chain(table, Sp!hash(k))[Sp!Place(table, k)]
  BY <1>1, <1>2, SetNames DEF Set!Found
<1> DEFINE t == Sp!Chain(table, Sp!hash(k))[Sp!Place(table, k)]
<1>4. t \in Sp!Stored(table) /\ t.key = k
  BY <1>1, Objects, Sp!PlaceOf
<1>5. t \in Sp!Entry
  BY <1>4, Sp!StoredIn
<1>6. t.value \in Set!Pointers
  BY <1>5, Sp!EntryFields
<1> QED BY <1>1, <1>2, <1>3, <1>4, <1>6

(* put() of an element that has an equal one in the set.                   *)
LEMMA SpUpdate ==
    ASSUME SpInv, NEW p \in Set!Pointers, Set!Exists(p), Set!Put(p)
    PROVE  SpInv' /\ call' = Called("put", Set!class(p), p)
           /\ Sets(Set!Entries, Set!Entries', Set!class(p), p, ok', old')
<1> DEFINE k == Set!class(p)
           s == Set!Found(p)
           e == Sp!Store(table, Sp!hash(k), Sp!Place(table, k), p)
<1>1. Sp!Well(table) /\ Classed(table)
  BY DEF SpInv
<1>2. /\ Set!find_tuple(p) = Sp!Place(table, k) /\ Set!hash(p) = Sp!hash(k)
      /\ k \in Sp!KeysOrNull /\ Sp!Holds(table, k)
      /\ s = Sp!Chain(table, Sp!hash(k))[Sp!Place(table, k)]
      /\ s \in Sp!Stored(table) /\ s.key = k /\ s.value \in Set!Pointers
  BY <1>1, SpFound
<1>3. table' = e /\ call' = Called("put", k, p) /\ ok' = TRUE /\ old' = s.value
  BY <1>2, SetChanges DEF Set!Put, Set!Answer, Set!Called, Called
<1> HIDE DEF k, s, e
<1>4. Sp!Well(e) /\ Sp!Stored(e) = (Sp!Stored(table) \ {s}) \cup {Sp!Valued(s, p)}
  BY <1>1, <1>2, Objects, Sp!TableStores DEF e
<1>5. /\ k \in DOMAIN Sp!EntriesOf(table) /\ Sp!EntriesOf(table)[k] = s.value
      /\ Sp!EntriesOf(e) = Sp!Extended(Sp!EntriesOf(table), k, p)
  BY <1>1, <1>2, Objects, Sp!MapStores DEF e
<1>6. Classed(e)
  <2>1. Sp!Valued(s, p).key = k /\ Sp!Valued(s, p).value = p
    BY <1>2 DEF Sp!Valued
  <2> QED BY <1>1, <1>4, <2>1 DEF Classed, k
<1>7. SpInv'
  BY <1>2, <1>3, <1>4, <1>6 DEF SpInv
<1>8. Sets(Set!Entries, Set!Entries', k, p, ok', old')
  BY <1>3, <1>5, SetContents DEF Sets, Extended, Sp!Extended
<1> QED BY <1>3, <1>7, <1>8 DEF k

LEMMA SpInsert ==
    ASSUME SpInv, NEW op, NEW p \in Set!Pointers, ~Set!Exists(p), Set!Insert(op, p)
    PROVE  SpInv' /\ call' = Called(op, Set!class(p), p)
           /\ Adds(Set!Entries, Set!Entries', Set!class(p), p, ok', old')
<1> DEFINE k == Set!class(p)
           t == Sp!NewEntry(k, p)
           e == Sp!Placed(table, t)
<1>1. Sp!Well(table) /\ Classed(table) /\ ~Sp!Holds(table, k)
  BY SpExists DEF SpInv
<1>2. k \in Sp!KeysOrNull /\ Sp!hash(k) = Set!hash(p)
  BY Objects, SetNames
<1>3. PICK o \in Set!create_tuple(p) :
          table' = o.d /\ call' = Called(op, k, p) /\ ok' = o.ok /\ old' = NULL
  BY DEF Set!Insert, Set!Answer, Set!Called, Called
<1>4. NULL \in Set!Pointers
  BY DEF Set!Pointers
<1>5. CASE o = [ok |-> FALSE, d |-> table]
  <2>1. table' = table /\ ok' = FALSE
    BY <1>3, <1>5
  <2>2. SpInv'
    BY <1>1, <1>3, <1>4, <2>1 DEF SpInv, Classed
  <2>3. Set!Entries' = Set!Entries
    BY <2>1, SetContents
  <2> QED BY <1>3, <2>1, <2>2, <2>3 DEF Adds, Stays
<1>6. CASE o = [ok |-> TRUE, d |-> Set!Placed(table, [hash |-> Set!hash(p), key |-> Set!class(p), value |-> p])]
  <2>1. table' = e /\ ok' = TRUE
    BY <1>2, <1>3, <1>6, SetChanges DEF Sp!NewEntry
  <2>2. t \in Sp!Entry /\ t.hash = Sp!hash(t.key) /\ t.key = k /\ t.value = p
    BY <1>2, Objects, Sp!Constants DEF Sp!NewEntry, Sp!Entry
  <2>3. t = Sp!NewEntry(k, p)
    OBVIOUS
  <2> HIDE DEF t, k
  <2>4. Sp!Well(e) /\ Sp!Stored(e) = Sp!Stored(table) \cup {t}
    BY <1>1, <2>2, Objects, Sp!PlacedWell
  <2> HIDE DEF e
  <2>5. Sp!EntriesOf(e) = Sp!Extended(Sp!EntriesOf(table), k, p)
    BY <1>1, <2>3, <2>4, Sp!MapInserts
  <2>6. Classed(e)
    BY <1>1, <2>2, <2>4 DEF Classed, k
  <2>7. SpInv'
    BY <1>3, <1>4, <2>1, <2>4, <2>6 DEF SpInv
  <2>8. Adds(Set!Entries, Set!Entries', k, p, ok', old')
    BY <1>3, <2>1, <2>5, SetContents DEF Adds, Extended, Sp!Extended
  <2> QED BY <1>3, <2>7, <2>8 DEF k
<1> QED BY <1>3, <1>5, <1>6 DEF Set!create_tuple

LEMMA SpDrop ==
    ASSUME SpInv, NEW p \in Set!Pointers, Set!Exists(p), table' = Set!remove_tuple(p)
    PROVE  /\ Sp!Well(table') /\ Classed(table')
           /\ Set!Entries[Set!class(p)] = Set!Found(p).value /\ Set!Found(p).value \in Set!Pointers
           /\ Set!Entries' = Shortened(Set!Entries, Set!class(p))
<1> DEFINE k == Set!class(p)
           s == Set!Found(p)
           e == Sp!Unlink(table, Sp!hash(k), Sp!Place(table, k))
<1>1. Sp!Well(table) /\ Classed(table)
  BY DEF SpInv
<1>2. /\ Set!find_tuple(p) = Sp!Place(table, k) /\ Set!hash(p) = Sp!hash(k)
      /\ k \in Sp!KeysOrNull /\ Sp!Holds(table, k)
      /\ s = Sp!Chain(table, Sp!hash(k))[Sp!Place(table, k)]
      /\ s.value \in Set!Pointers
  BY <1>1, SpFound
<1>3. table' = e
  BY <1>2, SetChanges DEF Set!remove_tuple
<1> HIDE DEF k, s, e
<1>4. Sp!Well(e) /\ Sp!Stored(e) = Sp!Stored(table) \ {s}
  BY <1>1, <1>2, Objects, Sp!TableDrops DEF e
<1>5. Sp!EntriesOf(table)[k] = s.value /\ Sp!EntriesOf(e) = Sp!Shortened(Sp!EntriesOf(table), k)
  BY <1>1, <1>2, Objects, Sp!MapDrops DEF e
<1>6. Classed(e)
  BY <1>1, <1>4 DEF Classed
<1> QED BY <1>2, <1>3, <1>4, <1>5, <1>6, SetContents DEF Shortened, Sp!Shortened, k, s

LEMMA SpNone ==
    ASSUME NEW d, d \in {Set!Cleared(table), Set!Empty}, Sp!Well(table)
    PROVE  Sp!Well(d) /\ Classed(d) /\ Sp!EntriesOf(d) = << >>
<1>1. Sp!Well(d) /\ Sp!Stored(d) = {}
  BY SetNames, SetChanges, Sp!ClearedWell, Sp!EmptyWell
<1> QED BY <1>1, Sp!NoEntries DEF Classed

(* Every method of phashset is one of the map from classes to elements.    *)
LEMMA SpNext ==
    ASSUME SpInv, Set!Next
    PROVE  SpInv' /\ MapMoves(KeysOrNull, Set!Pointers, Set!Entries, Set!Entries', call', ok', old')
<1> DEFINE f == Set!Entries
           g == Set!Entries'
           Moves(k, v) == Setting(f, g, call', ok', old', k, v)
           Leaves(k) == Dropping(f, g, call', ok', old', k)
<1>1. Sp!Well(table) /\ Classed(table) /\ NULL \in Set!Pointers /\ ok \in BOOLEAN
  BY DEF SpInv, Set!Pointers
<1>2. ASSUME NEW p \in Set!Pointers
      PROVE  Set!class(p) \in KeysOrNull /\ (Set!Exists(p) <=> Set!class(p) \in DOMAIN f)
  BY <1>1, Objects, SpExists
<1>3. ASSUME table' = table PROVE g = f
  BY <1>3, SetContents
<1>4. ASSUME NEW p \in Set!Pointers, Set!Put(p) PROVE SpInv' /\ Moves(Set!class(p), p)
  <2>1. CASE Set!Exists(p)
    BY <1>2, <1>4, <2>1, SpUpdate DEF Setting
  <2>2. CASE ~Set!Exists(p)
    <3>1. Set!Insert("put", p)
      BY <1>4, <2>2 DEF Set!Put
    <3> QED BY <1>2, <2>2, <3>1, SpInsert DEF Setting
  <2> QED BY <2>1, <2>2
<1>5. ASSUME NEW p \in Set!Pointers, Set!Create(p) PROVE SpInv' /\ Moves(Set!class(p), p)
  <2>1. CASE Set!Exists(p)
    <3>1. table' = table /\ call' = Called("create", Set!class(p), p) /\ ok' = FALSE /\ old' = NULL
      BY <1>5, <2>1 DEF Set!Create, Set!Answer, Set!Called, Called
    <3>2. SpInv'
      BY <1>1, <3>1 DEF SpInv, Classed
    <3>3. g = f
      BY <1>3, <3>1
    <3> QED BY <1>2, <2>1, <3>1, <3>2, <3>3 DEF Setting, Stays
  <2>2. CASE ~Set!Exists(p)
    <3>1. Set!Insert("create", p)
      BY <1>5, <2>2 DEF Set!Create
    <3> QED BY <1>2, <2>2, <3>1, SpInsert DEF Setting
  <2> QED BY <2>1, <2>2
<1>6. ASSUME NEW p \in Set!Pointers, Set!RemoveValue(p) PROVE SpInv' /\ Leaves(Set!class(p))
  <2>1. CASE Set!Exists(p)
    <3>1. /\ table' = Set!remove_tuple(p) /\ call' = Called("remove", Set!class(p), NULL)
          /\ ok' = TRUE /\ old' = Set!Found(p).value
      BY <1>6, <2>1 DEF Set!RemoveValue, Set!Answer, Set!Called, Called
    <3>2. /\ Sp!Well(table') /\ Classed(table') /\ f[Set!class(p)] = Set!Found(p).value
          /\ Set!Found(p).value \in Set!Pointers /\ g = Shortened(f, Set!class(p))
      BY <2>1, <3>1, SpDrop
    <3>3. SpInv'
      BY <3>1, <3>2 DEF SpInv
    <3> QED BY <1>2, <2>1, <3>1, <3>2, <3>3 DEF Dropping, Deletes
  <2>2. CASE ~Set!Exists(p)
    <3>1. table' = table /\ call' = Called("remove", Set!class(p), NULL) /\ ok' = FALSE /\ old' = NULL
      BY <1>6, <2>2 DEF Set!RemoveValue, Set!Answer, Set!Called, Called
    <3>2. SpInv'
      BY <1>1, <3>1 DEF SpInv, Classed
    <3>3. g = f
      BY <1>3, <3>1
    <3> QED BY <1>2, <2>2, <3>1, <3>2, <3>3 DEF Dropping, Stays
  <2> QED BY <2>1, <2>2
<1>7. ASSUME NEW p \in Set!Pointers, Set!Toggle(p) PROVE SpInv' /\ Moves(Set!class(p), p)
  <2>1. CASE Set!Exists(p)
    <3>1. /\ table' = Set!remove_tuple(p) /\ call' = Called("toggle", Set!class(p), p)
          /\ ok' = TRUE /\ old' = NULL
      BY <1>7, <2>1 DEF Set!Toggle, Set!Answer, Set!Called, Called
    <3>2. Sp!Well(table') /\ Classed(table') /\ g = Shortened(f, Set!class(p))
      BY <2>1, <3>1, SpDrop
    <3>3. SpInv'
      BY <1>1, <3>1, <3>2 DEF SpInv
    <3> QED BY <1>2, <2>1, <3>1, <3>2, <3>3 DEF Setting, Deletes
  <2>2. CASE ~Set!Exists(p)
    <3>1. Set!Insert("toggle", p)
      BY <1>7, <2>2 DEF Set!Toggle
    <3> QED BY <1>2, <2>2, <3>1, SpInsert DEF Setting
  <2> QED BY <2>1, <2>2
<1>8. ASSUME Set!Clear \/ Set!Flush
      PROVE  SpInv' /\ call' = Called("clear", NULL, NULL) /\ Empties(g, ok', old')
  <2>1. PICK d \in {Set!Cleared(table), Set!Empty} : table' = d
    BY <1>8 DEF Set!Clear, Set!Flush
  <2>2. call' = Called("clear", NULL, NULL) /\ ok' = TRUE /\ old' = NULL
    BY <1>8 DEF Set!Clear, Set!Flush, Set!Answer, Set!Called, Called, Set!class
  <2>3. Sp!Well(d) /\ Classed(d) /\ Sp!EntriesOf(d) = << >>
    BY <1>1, <2>1, SpNone
  <2>4. SpInv'
    BY <1>1, <2>1, <2>2, <2>3 DEF SpInv
  <2> QED BY <2>1, <2>2, <2>3, <2>4, SetContents DEF Empties
<1> HIDE DEF f, g
<1>9. ASSUME NEW p \in Set!Pointers, Set!Put(p) \/ Set!Create(p) \/ Set!Toggle(p)
      PROVE  SpInv' /\ \E k \in KeysOrNull, v \in Set!Pointers : Moves(k, v)
  <2>1. SpInv' /\ Moves(Set!class(p), p)
    BY <1>4, <1>5, <1>7, <1>9
  <2> QED BY <1>2, <2>1
<1>10. ASSUME NEW p \in Set!Pointers, Set!RemoveValue(p)
       PROVE  SpInv' /\ \E k \in KeysOrNull : Leaves(k)
  <2>1. SpInv' /\ Leaves(Set!class(p))
    BY <1>6, <1>10
  <2> QED BY <1>2, <2>1
<1>11. \/ \E p \in Set!Pointers : Set!Put(p) \/ Set!Create(p) \/ Set!RemoveValue(p) \/ Set!Toggle(p)
       \/ Set!Clear \/ Set!Flush
  BY DEF Set!Next
<1> QED BY <1>8, <1>9, <1>10, <1>11 DEF MapMoves, f, g

LEMMA SpInit ==
    ASSUME Init
    PROVE  SpInv /\ Set!Entries = << >>
<1>1. table = Empty /\ ok = TRUE /\ old = NULL
  BY DEF Init
<1>2. table = Set!Empty /\ Sp!Well(table)
  BY <1>1, SetNames, Sp!EmptyWell DEF Empty, Set!Empty
<1>3. Classed(table) /\ Sp!EntriesOf(table) = << >>
  BY <1>2, SpNone
<1> QED BY <1>1, <1>2, <1>3, SetContents DEF SpInv, Set!Pointers

LEMMA SpStutter ==
    ASSUME SpInv, UNCHANGED vars
    PROVE  SpInv' /\ Set!Entries' = Set!Entries
<1>1. table' = table /\ call' = call /\ ok' = ok /\ old' = old
  BY DEF vars
<1> QED BY <1>1, SetContents DEF SpInv, Classed

LEMMA SpProperties ==
    ASSUME SpInv
    PROVE  Set!TypeOK /\ Set!Findable /\ Set!SizesAgree
<1>1. Sp!Well(table) /\ Classed(table)
  BY DEF SpInv
<1>2. Set!TypeOK
  BY <1>1, SetNames DEF SpInv, Set!TypeOK, Sp!Well
<1>3. Set!Findable
  <2>1. Sp!Findable
    BY <1>1, Objects, Sp!WellFindable
  <2>2. table.bins \in Seq([size : Nat, data : Seq(Sp!Entry)])
    BY <1>1 DEF Sp!Well
  <2>3. ASSUME NEW b \in DOMAIN table.bins, NEW i \in DOMAIN table.bins[b].data, NEW t, t = table.bins[b].data[i]
        PROVE  t.key = Set!class(t.value) /\ Set!hash(t.value) = Sp!hash(t.key)
    <3> DEFINE data == table.bins[b].data
    <3>1. b \in 1..Len(table.bins)
      BY <2>2
    <3>2. data \in Seq(Sp!Entry) /\ Sp!Range(data) \subseteq Sp!Stored(table)
      BY <1>1, <3>1, Sp!Parts
    <3>3. t \in Sp!Range(data)
      BY <2>3 DEF Sp!Range
    <3>4. t.key = Set!class(t.value)
      BY <1>1, <3>2, <3>3 DEF Classed
    <3>5. t.value \in Set!Pointers
      <4>1. t \in Sp!Entry
        BY <1>1, <3>2, <3>3, Sp!StoredIn
      <4> QED BY <4>1, Sp!EntryFields
    <3> QED BY <3>4, <3>5, Objects
  <2>4. \A h : Set!BinOf(table, h) = Sp!BinOf(table, h)
    BY DEF Set!BinOf, Sp!BinOf, Set!cap, Sp!cap
  <2>5. ASSUME NEW b \in DOMAIN table.bins, NEW i \in DOMAIN table.bins[b].data, NEW t, t = table.bins[b].data[i]
        PROVE  /\ t.hash = Set!hash(t.value) /\ t.key = Set!class(t.value)
               /\ Set!BinOf(table, t.hash) = b /\ Set!Search(table, t.key, t.hash) = i
    <3>1. t.hash = Sp!hash(t.key) /\ Sp!BinOf(table, t.hash) = b /\ Sp!Search(table, t.key, t.hash) = i
      BY <2>1, <2>5 DEF Sp!Findable
    <3> QED BY <2>3, <2>4, <2>5, <3>1, SetNames
  <2> QED BY <2>5 DEF Set!Findable
<1>4. Set!SizesAgree
  <2>1. Sp!SizesAgree
    BY <1>1, Sp!WellSizes
  <2> QED BY <2>1, SetContents DEF Set!SizesAgree, Sp!SizesAgree
<1> QED BY <1>2, <1>3, <1>4

-----------------------------------------------------------------------------
(* hash_index with two entries to a node.                                  *)
Wp == INSTANCE HashIndexProofs WITH Keys <- IndexKeys, Hash <- [k \in IndexKeys |-> MCHash[k]],
                                    NodeSize <- 2, InitialCap <- 1, Load <- 4

LEMMA WideAssumed == Wp!IndexAssumption
BY NodesAssumption DEF Wp!IndexAssumption, Wide!IndexAssumption

LEMMA WideNames ==
    /\ Wide!KeysOrNull = Wp!KeysOrNull /\ Wide!Entry = Wp!Entry /\ Wide!Empty = Wp!Empty
    /\ \A k : Wide!hash(k) = Wp!hash(k)
    /\ \A d, h : Wide!Chain(d, h) = Wp!Chain(d, h)
    /\ \A d, k, h : Wide!Search(d, k, h) = Wp!Search(d, k, h)
BY DEF Wide!KeysOrNull, Wp!KeysOrNull, Wide!Entry, Wp!Entry, Wide!Empty, Wp!Empty, Wide!hash,
       Wp!hash, Wide!Chain, Wp!Chain, Wide!Search, Wp!Search, Wide!Stops, Wp!Stops,
       Wide!BinOf, Wp!BinOf, Wide!cap, Wp!cap, Wide!Min, Wp!Min

LEMMA WideTables ==
    /\ \A d, t : Wide!Appended(d, t) = Wp!Appended(d, t)
    /\ \A d, h, i : Wide!remove_entry(d, h, i) = Wp!remove_entry(d, h, i)
    /\ \A d, h, i, v : Wide!Store(d, h, i, v) = Wp!Store(d, h, i, v)
    /\ \A d : Wide!Cleared(d) = Wp!Cleared(d)
    /\ \A d : Wide!Allocated(d) = Wp!Allocated(d)
    /\ \A d : Wide!SplitTable(d) = Wp!SplitTable(d)
    /\ \A d : Wide!cap(d) = Wp!cap(d)
BY DEF Wide!Appended, Wp!Appended, Wide!remove_entry, Wp!remove_entry, Wide!Store, Wp!Store,
       Wide!Cleared, Wp!Cleared, Wide!Allocated, Wp!Allocated, Wide!SplitTable,
       Wp!SplitTable, Wide!SplitBin, Wp!SplitBin, Wide!NewFrom, Wp!NewFrom, Wide!Moved,
       Wp!Moved, Wide!Kept, Wp!Kept, Wide!Chosen, Wp!Chosen, Wide!WithBin, Wp!WithBin,
       Wide!Filled, Wp!Filled, Wide!Front, Wp!Front, Wide!Last, Wp!Last, Wide!NewBin,
       Wp!NewBin, Wide!BinOf, Wp!BinOf, Wide!cap, Wp!cap

LEMMA WideNodes ==
    /\ \A p : Wide!NodeOf(p) = Wp!NodeOf(p)
    /\ \A n : Wide!NodesFor(n) = Wp!NodesFor(n)
    /\ \A d : Wide!InBins(d) = Wp!InBins(d)
    /\ \A d : Wide!SplitNodes(d) = Wp!SplitNodes(d)
    /\ \A d, t : Wide!NeedsNode(d, t) <=> Wp!NeedsNode(d, t)
BY DEF Wide!NodeOf, Wp!NodeOf, Wide!NodesFor, Wp!NodesFor, Wide!InBins, Wp!InBins,
       Wide!SplitNodes, Wp!SplitNodes, Wide!NeedsNode, Wp!NeedsNode, Wide!Free, Wp!Free,
       Wide!Moved, Wp!Moved, Wide!Kept, Wp!Kept, Wide!Chosen, Wp!Chosen, Wide!Chain,
       Wp!Chain, Wide!BinOf, Wp!BinOf, Wide!cap, Wp!cap

LEMMA WideGrows ==
    /\ \A d, h : Wide!grow(d, h) = Wp!grow(d, h)
    /\ \A k, v : Wide!create_item(k, v) = Wp!create_item(k, v)
<1>1. \A d, h : Wide!Split(d, h) = Wp!Split(d, h)
  BY WideTables, WideNodes DEF Wide!Split, Wp!Split
<1>2. \A d, h, b, p : Wide!Interrupted(d, h, b, p) = Wp!Interrupted(d, h, b, p)
  BY DEF Wide!Interrupted, Wp!Interrupted, Wide!SplitBin, Wp!SplitBin, Wide!Moved, Wp!Moved,
       Wide!Kept, Wp!Kept, Wide!Chosen, Wp!Chosen, Wide!cap, Wp!cap, Wide!SplitNodes,
       Wp!SplitNodes, Wide!InBins, Wp!InBins, Wide!NodesFor, Wp!NodesFor, Wide!Free,
       Wp!Free
<1>3. \A d : Wide!Interruptions(d) = Wp!Interruptions(d)
  BY DEF Wide!Interruptions, Wp!Interruptions, Wide!Moved, Wp!Moved, Wide!Kept, Wp!Kept,
       Wide!Chosen, Wp!Chosen, Wide!cap, Wp!cap, Wide!SplitNodes, Wp!SplitNodes,
       Wide!NodesFor, Wp!NodesFor, Wide!Free, Wp!Free
<1>4. \A d, h : Wide!grow(d, h) = Wp!grow(d, h)
  BY <1>1, <1>2, <1>3, WideTables DEF Wide!grow, Wp!grow
<1>5. \A d, h, t : Wide!AddTo(d, h, t) = Wp!AddTo(d, h, t)
  BY WideTables, WideNodes DEF Wide!AddTo, Wp!AddTo
<1>6. \A k, v : Wide!create_item(k, v) = Wp!create_item(k, v)
  BY <1>4, <1>5, WideTables, WideNames DEF Wide!create_item, Wp!create_item
<1> QED BY <1>4, <1>6

LEMMA WideSteps ==
    /\ Wide!Next <=> Wp!Next
    /\ Wide!vars = Wp!vars /\ Wide!vars' = Wp!vars'
    /\ Wide!Entries = Wp!Entries /\ Wide!Entries' = Wp!Entries'
    /\ Wide!Init <=> Wp!Init
<1>1. /\ Wide!vars = Wp!vars /\ Wide!vars' = Wp!vars'
      /\ Wide!Entries = Wp!Entries /\ Wide!Entries' = Wp!Entries'
  BY DEF Wide!vars, Wp!vars, Wide!Entries, Wp!Entries, Wide!Stored, Wp!Stored, Wide!Range,
       Wp!Range
<1>2. Wide!Init <=> Wp!Init
  BY WideNames DEF Wide!Init, Wp!Init, Wide!Called, Wp!Called
<1>3. /\ \A k : Wide!find_node(k) = Wp!find_node(k)
      /\ \A k : Wide!Exists(k) <=> Wp!Exists(k)
      /\ \A k : Wide!Found(k) = Wp!Found(k)
  BY WideNames DEF Wide!find_node, Wp!find_node, Wide!Exists, Wp!Exists, Wide!Found, Wp!Found
<1>4. \A op, k, v, y, x : Wide!Answer(op, k, v, y, x) <=> Wp!Answer(op, k, v, y, x)
  BY DEF Wide!Answer, Wp!Answer, Wide!Called, Wp!Called
<1>5. \A op, k, v : Wide!Insert(op, k, v) <=> Wp!Insert(op, k, v)
  BY <1>4, WideGrows DEF Wide!Insert, Wp!Insert
<1>6. \A op, k, v : Wide!Update(op, k, v) <=> Wp!Update(op, k, v)
  BY <1>3, <1>4, WideNames, WideTables DEF Wide!Update, Wp!Update
<1>7. \A op, k, v : Wide!Refuse(op, k, v) <=> Wp!Refuse(op, k, v)
  BY <1>4 DEF Wide!Refuse, Wp!Refuse
<1>8. \A k : Wide!RemoveFound(k) <=> Wp!RemoveFound(k)
  BY <1>3, <1>4, WideNames, WideTables DEF Wide!RemoveFound, Wp!RemoveFound
<1>9. \A k : Wide!RemoveHangs(k) <=> Wp!RemoveHangs(k)
  BY <1>3, WideNames, WideNodes DEF Wide!RemoveHangs, Wp!RemoveHangs, Wide!BinOf, Wp!BinOf, Wide!cap, Wp!cap
<1>10. \A k : Wide!RemoveKey(k) <=> Wp!RemoveKey(k)
  BY <1>3, <1>7, <1>8, <1>9, WideNames, WideNodes DEF Wide!RemoveKey, Wp!RemoveKey, Wide!Endless, Wp!Endless
<1>11. \A d : Wide!Destroy(d) <=> Wp!Destroy(d)
  BY <1>4, WideNodes DEF Wide!Destroy, Wp!Destroy
<1>12. Wide!Next <=> Wp!Next
  BY <1>3, <1>5, <1>6, <1>7, <1>10, <1>11, WideNames, WideTables
  DEF Wide!Next, Wp!Next, Wide!Put, Wp!Put, Wide!Create, Wp!Create, Wide!Replace, Wp!Replace,
       Wide!Clear, Wp!Clear, Wide!Flush, Wp!Flush
<1> QED BY <1>1, <1>2, <1>12

(* Every method of hash_index is one of the map.                           *)
LEMMA WideNext ==
    ASSUME ~LongBins, ~SplitFails, Wp!IndexInv, Wide!Next
    PROVE  Wp!IndexInv' /\ MapMoves(KeysOrNull, Values, Wide!Entries, Wide!Entries', call', ok', old')
<1> DEFINE f == Wide!Entries
           g == Wide!Entries'
           L == Wp!KeysOrNull
<1>1. Wp!IndexInv' /\ Wp!TheMap!Next
  BY WideAssumed, WideSteps, Wp!IndexNext
<1>2. f = Wp!Entries /\ g = Wp!Entries'
  BY WideSteps
<1>3. L \subseteq KeysOrNull
  BY NodesAssumption DEF Wp!KeysOrNull, KeysOrNull
<1>4. /\ \A op, k, v : Wp!TheMap!Asked(op, k, v) <=> call' = Called(op, k, v)
      /\ \A y, x : Wp!TheMap!Answer(y, x) <=> ok' = y /\ old' = x
      /\ \A k : Wp!TheMap!Present(k) <=> k \in DOMAIN f
      /\ \A k, v : Wp!TheMap!With(k, v) = Extended(f, k, v)
      /\ \A k : Wp!TheMap!Without(k) = Shortened(f, k)
  BY <1>2 DEF Wp!TheMap!Asked, Wp!TheMap!Called, Called, Wp!TheMap!Answer, Wp!TheMap!Present,
     Wp!TheMap!With, Wp!TheMap!Without, Extended, Shortened
<1> HIDE DEF f, g, L
<1>5. /\ Wp!TheMap!Refuse <=> Stays(f, g, ok', old')
      /\ \A k, v : Wp!TheMap!Insert(k, v) <=> Adds(f, g, k, v, ok', old')
      /\ \A k, v : Wp!TheMap!Update(k, v) <=> Sets(f, g, k, v, ok', old')
      /\ \A k, x : Wp!TheMap!Delete(k, x) <=> Deletes(f, g, k, x, ok', old')
  BY <1>2, <1>4 DEF Wp!TheMap!Refuse, Wp!TheMap!Insert, Wp!TheMap!Update, Wp!TheMap!Delete,
     Stays, Adds, Sets, Deletes
<1>6. /\ \A k, v : Wp!TheMap!Put(k, v) => Setting(f, g, call', ok', old', k, v)
      /\ \A k, v : Wp!TheMap!Create(k, v) => Setting(f, g, call', ok', old', k, v)
      /\ \A k, v : Wp!TheMap!Replace(k, v) => Setting(f, g, call', ok', old', k, v)
      /\ \A k, v : Wp!TheMap!Toggle(k, v) => Setting(f, g, call', ok', old', k, v)
  BY <1>4, <1>5 DEF Wp!TheMap!Put, Wp!TheMap!Create, Wp!TheMap!Replace, Wp!TheMap!Toggle, Setting
<1>7. /\ \A k : Wp!TheMap!Remove(k) => Dropping(f, g, call', ok', old', k)
      /\ \A k : Wp!TheMap!Discard(k) => Dropping(f, g, call', ok', old', k)
  BY <1>2, <1>4, <1>5 DEF Wp!TheMap!Remove, Wp!TheMap!Discard, Dropping
<1>8. Wp!TheMap!Clear => call' = Called("clear", NULL, NULL) /\ Empties(g, ok', old')
  BY <1>2, <1>4 DEF Wp!TheMap!Clear, Empties
<1>9. MapMoves(L, Values, f, g, call', ok', old')
  BY <1>1, <1>6, <1>7, <1>8 DEF Wp!TheMap!Next, Wp!TheMap!Method, MapMoves, L
<1>10. MapMoves(KeysOrNull, Values, f, g, call', ok', old')
  BY <1>3, <1>9, MoreKeys
<1> QED BY <1>1, <1>10 DEF f, g

LEMMA WideOthers ==
    /\ Wide!Init => Wp!IndexInv /\ Wide!Entries = << >>
    /\ Wp!IndexInv /\ UNCHANGED Wide!vars => Wp!IndexInv' /\ Wide!Entries' = Wide!Entries
    /\ Wp!IndexInv => Wide!TypeOK /\ Wide!Findable /\ Wide!SizesAgree /\ Wide!NodesOwned
<1>1. Wide!Init => Wp!IndexInv /\ Wide!Entries = << >>
  BY WideAssumed, WideSteps, Wp!IndexInit DEF Wp!TheMap!Init
<1>2. Wp!IndexInv /\ UNCHANGED Wide!vars => Wp!IndexInv' /\ Wide!Entries' = Wide!Entries
  BY WideSteps, Wp!IndexStutter DEF Wp!TheMap!vars
<1>3. ASSUME Wp!IndexInv PROVE Wide!TypeOK /\ Wide!Findable /\ Wide!SizesAgree /\ Wide!NodesOwned
  <2>1. Wp!TypeOK /\ Wp!Findable /\ Wp!SizesAgree /\ Wp!NodesOwned
    BY <1>3, WideAssumed, Wp!IndexProperties
  <2>2. Wide!TypeOK
    BY <2>1, WideNames DEF Wide!TypeOK, Wp!TypeOK
  <2>3. Wide!Findable
    BY <2>1, WideNames DEF Wide!Findable, Wp!Findable, Wide!BinOf, Wp!BinOf, Wide!cap, Wp!cap
  <2>4. Wide!SizesAgree
    BY <2>1 DEF Wide!SizesAgree, Wp!SizesAgree, Wide!Tuples, Wp!Tuples
  <2>5. Wide!NodesOwned
    BY <2>1, WideNodes DEF Wide!NodesOwned, Wp!NodesOwned
  <2> QED BY <2>2, <2>3, <2>4, <2>5
<1> QED BY <1>1, <1>2, <1>3

-----------------------------------------------------------------------------
(* hash_index with one entry to a node.                                    *)
Np == INSTANCE HashIndexProofs WITH Keys <- IndexKeys, Hash <- NarrowHash,
                                    NodeSize <- 1, InitialCap <- 1, Load <- 2

LEMMA NarrowAssumed == Np!IndexAssumption
BY NodesAssumption DEF Np!IndexAssumption, Narrow!IndexAssumption

LEMMA NarrowNames ==
    /\ Narrow!KeysOrNull = Np!KeysOrNull /\ Narrow!Entry = Np!Entry /\ Narrow!Empty = Np!Empty
    /\ \A k : Narrow!hash(k) = Np!hash(k)
    /\ \A d, h : Narrow!Chain(d, h) = Np!Chain(d, h)
    /\ \A d, k, h : Narrow!Search(d, k, h) = Np!Search(d, k, h)
BY DEF Narrow!KeysOrNull, Np!KeysOrNull, Narrow!Entry, Np!Entry, Narrow!Empty, Np!Empty,
       Narrow!hash, Np!hash, Narrow!Chain, Np!Chain, Narrow!Search, Np!Search,
       Narrow!Stops, Np!Stops, Narrow!BinOf, Np!BinOf, Narrow!cap, Np!cap, Narrow!Min,
       Np!Min

LEMMA NarrowTables ==
    /\ \A d, t : Narrow!Appended(d, t) = Np!Appended(d, t)
    /\ \A d, h, i : Narrow!remove_entry(d, h, i) = Np!remove_entry(d, h, i)
    /\ \A d, h, i, v : Narrow!Store(d, h, i, v) = Np!Store(d, h, i, v)
    /\ \A d : Narrow!Cleared(d) = Np!Cleared(d)
    /\ \A d : Narrow!Allocated(d) = Np!Allocated(d)
    /\ \A d : Narrow!SplitTable(d) = Np!SplitTable(d)
    /\ \A d : Narrow!cap(d) = Np!cap(d)
BY DEF Narrow!Appended, Np!Appended, Narrow!remove_entry, Np!remove_entry, Narrow!Store,
       Np!Store, Narrow!Cleared, Np!Cleared, Narrow!Allocated, Np!Allocated,
       Narrow!SplitTable, Np!SplitTable, Narrow!SplitBin, Np!SplitBin, Narrow!NewFrom,
       Np!NewFrom, Narrow!Moved, Np!Moved, Narrow!Kept, Np!Kept, Narrow!Chosen,
       Np!Chosen, Narrow!WithBin, Np!WithBin, Narrow!Filled, Np!Filled, Narrow!Front,
       Np!Front, Narrow!Last, Np!Last, Narrow!NewBin, Np!NewBin, Narrow!BinOf, Np!BinOf,
       Narrow!cap, Np!cap

LEMMA NarrowNodes ==
    /\ \A p : Narrow!NodeOf(p) = Np!NodeOf(p)
    /\ \A n : Narrow!NodesFor(n) = Np!NodesFor(n)
    /\ \A d : Narrow!InBins(d) = Np!InBins(d)
    /\ \A d : Narrow!SplitNodes(d) = Np!SplitNodes(d)
    /\ \A d, t : Narrow!NeedsNode(d, t) <=> Np!NeedsNode(d, t)
BY DEF Narrow!NodeOf, Np!NodeOf, Narrow!NodesFor, Np!NodesFor, Narrow!InBins, Np!InBins,
       Narrow!SplitNodes, Np!SplitNodes, Narrow!NeedsNode, Np!NeedsNode, Narrow!Free,
       Np!Free, Narrow!Moved, Np!Moved, Narrow!Kept, Np!Kept, Narrow!Chosen, Np!Chosen,
       Narrow!Chain, Np!Chain, Narrow!BinOf, Np!BinOf, Narrow!cap, Np!cap

LEMMA NarrowGrows ==
    /\ \A d, h : Narrow!grow(d, h) = Np!grow(d, h)
    /\ \A k, v : Narrow!create_item(k, v) = Np!create_item(k, v)
<1>1. \A d, h : Narrow!Split(d, h) = Np!Split(d, h)
  BY NarrowTables, NarrowNodes DEF Narrow!Split, Np!Split
<1>2. \A d, h, b, p : Narrow!Interrupted(d, h, b, p) = Np!Interrupted(d, h, b, p)
  BY DEF Narrow!Interrupted, Np!Interrupted, Narrow!SplitBin, Np!SplitBin, Narrow!Moved,
       Np!Moved, Narrow!Kept, Np!Kept, Narrow!Chosen, Np!Chosen, Narrow!cap, Np!cap,
       Narrow!SplitNodes, Np!SplitNodes, Narrow!InBins, Np!InBins, Narrow!NodesFor,
       Np!NodesFor, Narrow!Free, Np!Free
<1>3. \A d : Narrow!Interruptions(d) = Np!Interruptions(d)
  BY DEF Narrow!Interruptions, Np!Interruptions, Narrow!Moved, Np!Moved, Narrow!Kept, Np!Kept,
       Narrow!Chosen, Np!Chosen, Narrow!cap, Np!cap, Narrow!SplitNodes, Np!SplitNodes,
       Narrow!NodesFor, Np!NodesFor, Narrow!Free, Np!Free
<1>4. \A d, h : Narrow!grow(d, h) = Np!grow(d, h)
  BY <1>1, <1>2, <1>3, NarrowTables DEF Narrow!grow, Np!grow
<1>5. \A d, h, t : Narrow!AddTo(d, h, t) = Np!AddTo(d, h, t)
  BY NarrowTables, NarrowNodes DEF Narrow!AddTo, Np!AddTo
<1>6. \A k, v : Narrow!create_item(k, v) = Np!create_item(k, v)
  BY <1>4, <1>5, NarrowTables, NarrowNames DEF Narrow!create_item, Np!create_item
<1> QED BY <1>4, <1>6

LEMMA NarrowSteps ==
    /\ Narrow!Next <=> Np!Next
    /\ Narrow!vars = Np!vars /\ Narrow!vars' = Np!vars'
    /\ Narrow!Entries = Np!Entries /\ Narrow!Entries' = Np!Entries'
    /\ Narrow!Init <=> Np!Init
<1>1. /\ Narrow!vars = Np!vars /\ Narrow!vars' = Np!vars'
      /\ Narrow!Entries = Np!Entries /\ Narrow!Entries' = Np!Entries'
  BY DEF Narrow!vars, Np!vars, Narrow!Entries, Np!Entries, Narrow!Stored, Np!Stored,
       Narrow!Range, Np!Range
<1>2. Narrow!Init <=> Np!Init
  BY NarrowNames DEF Narrow!Init, Np!Init, Narrow!Called, Np!Called
<1>3. /\ \A k : Narrow!find_node(k) = Np!find_node(k)
      /\ \A k : Narrow!Exists(k) <=> Np!Exists(k)
      /\ \A k : Narrow!Found(k) = Np!Found(k)
  BY NarrowNames DEF Narrow!find_node, Np!find_node, Narrow!Exists, Np!Exists, Narrow!Found, Np!Found
<1>4. \A op, k, v, y, x : Narrow!Answer(op, k, v, y, x) <=> Np!Answer(op, k, v, y, x)
  BY DEF Narrow!Answer, Np!Answer, Narrow!Called, Np!Called
<1>5. \A op, k, v : Narrow!Insert(op, k, v) <=> Np!Insert(op, k, v)
  BY <1>4, NarrowGrows DEF Narrow!Insert, Np!Insert
<1>6. \A op, k, v : Narrow!Update(op, k, v) <=> Np!Update(op, k, v)
  BY <1>3, <1>4, NarrowNames, NarrowTables DEF Narrow!Update, Np!Update
<1>7. \A op, k, v : Narrow!Refuse(op, k, v) <=> Np!Refuse(op, k, v)
  BY <1>4 DEF Narrow!Refuse, Np!Refuse
<1>8. \A k : Narrow!RemoveFound(k) <=> Np!RemoveFound(k)
  BY <1>3, <1>4, NarrowNames, NarrowTables DEF Narrow!RemoveFound, Np!RemoveFound
<1>9. \A k : Narrow!RemoveHangs(k) <=> Np!RemoveHangs(k)
  BY <1>3, NarrowNames, NarrowNodes DEF Narrow!RemoveHangs, Np!RemoveHangs, Narrow!BinOf, Np!BinOf, Narrow!cap, Np!cap
<1>10. \A k : Narrow!RemoveKey(k) <=> Np!RemoveKey(k)
  BY <1>3, <1>7, <1>8, <1>9, NarrowNames, NarrowNodes DEF Narrow!RemoveKey, Np!RemoveKey, Narrow!Endless, Np!Endless
<1>11. \A d : Narrow!Destroy(d) <=> Np!Destroy(d)
  BY <1>4, NarrowNodes DEF Narrow!Destroy, Np!Destroy
<1>12. Narrow!Next <=> Np!Next
  BY <1>3, <1>5, <1>6, <1>7, <1>10, <1>11, NarrowNames, NarrowTables
  DEF Narrow!Next, Np!Next, Narrow!Put, Np!Put, Narrow!Create, Np!Create, Narrow!Replace,
       Np!Replace, Narrow!Clear, Np!Clear, Narrow!Flush, Np!Flush
<1> QED BY <1>1, <1>2, <1>12

(* Every method of hash_index is one of the map.                           *)
LEMMA NarrowNext ==
    ASSUME ~LongBins, ~SplitFails, Np!IndexInv, Narrow!Next
    PROVE  Np!IndexInv' /\ MapMoves(KeysOrNull, Values, Narrow!Entries, Narrow!Entries', call', ok', old')
<1> DEFINE f == Narrow!Entries
           g == Narrow!Entries'
           L == Np!KeysOrNull
<1>1. Np!IndexInv' /\ Np!TheMap!Next
  BY NarrowAssumed, NarrowSteps, Np!IndexNext
<1>2. f = Np!Entries /\ g = Np!Entries'
  BY NarrowSteps
<1>3. L \subseteq KeysOrNull
  BY NodesAssumption DEF Np!KeysOrNull, KeysOrNull
<1>4. /\ \A op, k, v : Np!TheMap!Asked(op, k, v) <=> call' = Called(op, k, v)
      /\ \A y, x : Np!TheMap!Answer(y, x) <=> ok' = y /\ old' = x
      /\ \A k : Np!TheMap!Present(k) <=> k \in DOMAIN f
      /\ \A k, v : Np!TheMap!With(k, v) = Extended(f, k, v)
      /\ \A k : Np!TheMap!Without(k) = Shortened(f, k)
  BY <1>2 DEF Np!TheMap!Asked, Np!TheMap!Called, Called, Np!TheMap!Answer, Np!TheMap!Present,
     Np!TheMap!With, Np!TheMap!Without, Extended, Shortened
<1> HIDE DEF f, g, L
<1>5. /\ Np!TheMap!Refuse <=> Stays(f, g, ok', old')
      /\ \A k, v : Np!TheMap!Insert(k, v) <=> Adds(f, g, k, v, ok', old')
      /\ \A k, v : Np!TheMap!Update(k, v) <=> Sets(f, g, k, v, ok', old')
      /\ \A k, x : Np!TheMap!Delete(k, x) <=> Deletes(f, g, k, x, ok', old')
  BY <1>2, <1>4 DEF Np!TheMap!Refuse, Np!TheMap!Insert, Np!TheMap!Update, Np!TheMap!Delete,
     Stays, Adds, Sets, Deletes
<1>6. /\ \A k, v : Np!TheMap!Put(k, v) => Setting(f, g, call', ok', old', k, v)
      /\ \A k, v : Np!TheMap!Create(k, v) => Setting(f, g, call', ok', old', k, v)
      /\ \A k, v : Np!TheMap!Replace(k, v) => Setting(f, g, call', ok', old', k, v)
      /\ \A k, v : Np!TheMap!Toggle(k, v) => Setting(f, g, call', ok', old', k, v)
  BY <1>4, <1>5 DEF Np!TheMap!Put, Np!TheMap!Create, Np!TheMap!Replace, Np!TheMap!Toggle, Setting
<1>7. /\ \A k : Np!TheMap!Remove(k) => Dropping(f, g, call', ok', old', k)
      /\ \A k : Np!TheMap!Discard(k) => Dropping(f, g, call', ok', old', k)
  BY <1>2, <1>4, <1>5 DEF Np!TheMap!Remove, Np!TheMap!Discard, Dropping
<1>8. Np!TheMap!Clear => call' = Called("clear", NULL, NULL) /\ Empties(g, ok', old')
  BY <1>2, <1>4 DEF Np!TheMap!Clear, Empties
<1>9. MapMoves(L, Values, f, g, call', ok', old')
  BY <1>1, <1>6, <1>7, <1>8 DEF Np!TheMap!Next, Np!TheMap!Method, MapMoves, L
<1>10. MapMoves(KeysOrNull, Values, f, g, call', ok', old')
  BY <1>3, <1>9, MoreKeys
<1> QED BY <1>1, <1>10 DEF f, g

LEMMA NarrowOthers ==
    /\ Narrow!Init => Np!IndexInv /\ Narrow!Entries = << >>
    /\ Np!IndexInv /\ UNCHANGED Narrow!vars => Np!IndexInv' /\ Narrow!Entries' = Narrow!Entries
    /\ Np!IndexInv => Narrow!TypeOK /\ Narrow!Findable /\ Narrow!SizesAgree /\ Narrow!NodesOwned
<1>1. Narrow!Init => Np!IndexInv /\ Narrow!Entries = << >>
  BY NarrowAssumed, NarrowSteps, Np!IndexInit DEF Np!TheMap!Init
<1>2. Np!IndexInv /\ UNCHANGED Narrow!vars => Np!IndexInv' /\ Narrow!Entries' = Narrow!Entries
  BY NarrowSteps, Np!IndexStutter DEF Np!TheMap!vars
<1>3. ASSUME Np!IndexInv PROVE Narrow!TypeOK /\ Narrow!Findable /\ Narrow!SizesAgree /\ Narrow!NodesOwned
  <2>1. Np!TypeOK /\ Np!Findable /\ Np!SizesAgree /\ Np!NodesOwned
    BY <1>3, NarrowAssumed, Np!IndexProperties
  <2>2. Narrow!TypeOK
    BY <2>1, NarrowNames DEF Narrow!TypeOK, Np!TypeOK
  <2>3. Narrow!Findable
    BY <2>1, NarrowNames DEF Narrow!Findable, Np!Findable, Narrow!BinOf, Np!BinOf, Narrow!cap, Np!cap
  <2>4. Narrow!SizesAgree
    BY <2>1 DEF Narrow!SizesAgree, Np!SizesAgree, Narrow!Tuples, Np!Tuples
  <2>5. Narrow!NodesOwned
    BY <2>1, NarrowNodes DEF Narrow!NodesOwned, Np!NodesOwned
  <2> QED BY <2>2, <2>3, <2>4, <2>5
<1> QED BY <1>1, <1>2, <1>3

-----------------------------------------------------------------------------
(* The steps of each container, as those of the two maps.                  *)
LEMMA OneMapMoves ==
    ASSUME active' = active, ~Working("ptrset"), MapMoves(KeysOrNull, Values \cup Set!Pointers, Shown, Shown', call', ok', old')
    PROVE  TheMap!Next /\ UNCHANGED ThePointers!vars
<1>1. ~Working("ptrset") /\ ~Working("ptrset")'
  BY DEF Working
<1>2. ok' \in BOOLEAN
  BY MovesAnswer
<1>3. MapCall' = call' /\ MapOk' = ok' /\ MapOld' = old'
  BY <1>1, <1>2 DEF MapCall, MapOk, MapOld
<1>4. TheMap!Next
  BY <1>3, TheMapSteps
<1>5. NoCall' = NoCall
  BY DEF NoCall, Called
<1>6. UNCHANGED ThePointers!vars
  BY <1>1, <1>5 DEF ThePointers!vars
<1> QED BY <1>4, <1>6

LEMMA PointersMove ==
    ASSUME active' = active, Working("ptrset"), MapMoves(Addrs, Addrs, Ptr!Entries, Ptr!Entries', call', ok', old')
    PROVE  ThePointers!Next /\ UNCHANGED TheMap!vars
<1>1. Working("ptrset") /\ Working("ptrset")'
  BY DEF Working
<1>2. ok' \in BOOLEAN
  BY MovesAnswer
<1>3. /\ PointersCall' = call' /\ PointersOk' = ok' /\ PointersOld' = old'
      /\ PointersShown = Ptr!Entries /\ PointersShown' = Ptr!Entries'
  BY <1>1, <1>2 DEF PointersCall, PointersOk, PointersOld, PointersShown
<1>4. ThePointers!Next
  BY <1>3, ThePointersSteps
<1>5. NoCall' = NoCall
  BY DEF NoCall, Called
<1>6. Shown = << >> /\ Shown' = << >>
  BY <1>1 DEF Shown, Working
<1>7. UNCHANGED TheMap!vars
  BY <1>1, <1>5, <1>6 DEF TheMap!vars
<1> QED BY <1>4, <1>7

(* What each container shows.                                              *)
LEMMA ShownBy ==
    ASSUME active' = active
    PROVE  /\ Working("pphash") => Shown = Entries /\ Shown' = Entries'
           /\ Working("phashset") => Shown = Set!Entries /\ Shown' = Set!Entries'
           /\ Working("wide") => Shown = Wide!Entries /\ Shown' = Wide!Entries'
           /\ Working("narrow") => Shown = Narrow!Entries /\ Shown' = Narrow!Entries'
           /\ Working("ptrset") => Shown = << >> /\ Shown' = << >>
BY DEF Shown, Working

-----------------------------------------------------------------------------
(* All of them together.                                                   *)

(* The invariant: that of the container at work.                           *)
HashedInv ==
    /\ active \in Containers
    /\ Working("pphash") => PpInv
    /\ Working("phashset") => SpInv
    /\ Working("ptrset") => PtrInv
    /\ Working("wide") => Wp!IndexInv
    /\ Working("narrow") => Np!IndexInv

LEMMA HashedInit ==
    ASSUME InitHashed
    PROVE  HashedInv /\ TheMap!Init /\ ThePointers!Init
<1>1. active \in Containers /\ Init
  BY DEF InitHashed
<1>2. PpInv /\ Entries = << >> /\ SpInv /\ Set!Entries = << >> /\ PtrInv /\ Ptr!Entries = << >>
  BY <1>1, PpInit, SpInit, PtrInit
<1>3. /\ table = Empty /\ heap = [nodes |-> 0, lost |-> 0] /\ hung = FALSE
      /\ call = NoCall /\ ok = TRUE /\ old = NULL
  BY DEF InitHashed, Init, NoCall
<1>4. Wide!Init /\ Narrow!Init
  BY <1>3 DEF Wide!Init, Narrow!Init, Wide!Empty, Narrow!Empty, Empty, NoCall, Called, Wide!Called, Narrow!Called
<1>5. Wp!IndexInv /\ Wide!Entries = << >> /\ Np!IndexInv /\ Narrow!Entries = << >>
  BY <1>4, WideOthers, NarrowOthers
<1>6. Shown = << >>
  BY <1>1, <1>2, <1>5 DEF Shown, Containers, Working
<1>7. TheMap!Init
  BY <1>3, <1>6 DEF TheMap!Init, TheMap!Called, NoCall, Called
<1>8. ThePointers!Init
  BY <1>2, <1>3 DEF ThePointers!Init, ThePointers!Called, NoCall, Called
<1> QED BY <1>1, <1>2, <1>5, <1>7, <1>8 DEF HashedInv

(* A step of the container at work.                                        *)
LEMMA HashedNext ==
    ASSUME ~LongBins, ~SplitFails, HashedInv, NextHashed
    PROVE  /\ HashedInv'
           /\ [TheMap!Next]_(TheMap!vars) /\ [ThePointers!Next]_(ThePointers!vars)
<1>1. active' = active /\ active \in Containers /\ active' \in Containers
  BY DEF NextHashed, HashedInv
<1> DEFINE V == Values \cup Set!Pointers
<1>2. Values \subseteq V /\ Set!Pointers \subseteq V /\ KeysOrNull \subseteq KeysOrNull
  OBVIOUS
<1>3. CASE active = "pphash"
  <2>1. PpInv /\ Next
    BY <1>3 DEF HashedInv, NextHashed, Working
  <2>2. PpInv' /\ MapMoves(KeysOrNull, Values, Entries, Entries', call', ok', old')
    BY <2>1, PpNext
  <2>3. MapMoves(KeysOrNull, V, Entries, Entries', call', ok', old')
    BY <1>2, <2>2, MoreKeys
  <2>4. Shown = Entries /\ Shown' = Entries' /\ ~Working("ptrset")
    BY <1>1, <1>3, ShownBy DEF Working
  <2>5. TheMap!Next /\ UNCHANGED ThePointers!vars
    BY <1>1, <2>3, <2>4, OneMapMoves
  <2>6. HashedInv'
    BY <1>1, <1>3, <2>2 DEF HashedInv, Working
  <2> QED BY <2>5, <2>6
<1>4. CASE active = "phashset"
  <2>1. SpInv /\ Set!Next
    BY <1>4 DEF HashedInv, NextHashed, Working
  <2>2. SpInv' /\ MapMoves(KeysOrNull, Set!Pointers, Set!Entries, Set!Entries', call', ok', old')
    BY <2>1, SpNext
  <2>3. MapMoves(KeysOrNull, V, Set!Entries, Set!Entries', call', ok', old')
    BY <1>2, <2>2, MoreKeys
  <2>4. Shown = Set!Entries /\ Shown' = Set!Entries' /\ ~Working("ptrset")
    BY <1>1, <1>4, ShownBy DEF Working
  <2>5. TheMap!Next /\ UNCHANGED ThePointers!vars
    BY <1>1, <2>3, <2>4, OneMapMoves
  <2>6. HashedInv'
    BY <1>1, <1>4, <2>2 DEF HashedInv, Working
  <2> QED BY <2>5, <2>6
<1>5. CASE active = "ptrset"
  <2>1. PtrInv /\ Ptr!Next
    BY <1>5 DEF HashedInv, NextHashed, Working
  <2>2. PtrInv' /\ MapMoves(Addrs, Addrs, Ptr!Entries, Ptr!Entries', call', ok', old')
    BY <2>1, PtrNext
  <2>3. ThePointers!Next /\ UNCHANGED TheMap!vars
    BY <1>1, <1>5, <2>2, PointersMove DEF Working
  <2>4. HashedInv'
    BY <1>1, <1>5, <2>2 DEF HashedInv, Working
  <2> QED BY <2>3, <2>4
<1>6. CASE active = "wide"
  <2>1. Wp!IndexInv /\ Wide!Next
    BY <1>6 DEF HashedInv, NextHashed, Working
  <2>2. Wp!IndexInv' /\ MapMoves(KeysOrNull, Values, Wide!Entries, Wide!Entries', call', ok', old')
    BY <2>1, WideNext
  <2>3. MapMoves(KeysOrNull, V, Wide!Entries, Wide!Entries', call', ok', old')
    BY <1>2, <2>2, MoreKeys
  <2>4. Shown = Wide!Entries /\ Shown' = Wide!Entries' /\ ~Working("ptrset")
    BY <1>1, <1>6, ShownBy DEF Working
  <2>5. TheMap!Next /\ UNCHANGED ThePointers!vars
    BY <1>1, <2>3, <2>4, OneMapMoves
  <2>6. HashedInv'
    BY <1>1, <1>6, <2>2 DEF HashedInv, Working
  <2> QED BY <2>5, <2>6
<1>7. CASE active = "narrow"
  <2>1. Np!IndexInv /\ Narrow!Next
    BY <1>7 DEF HashedInv, NextHashed, Working
  <2>2. Np!IndexInv' /\ MapMoves(KeysOrNull, Values, Narrow!Entries, Narrow!Entries', call', ok', old')
    BY <2>1, NarrowNext
  <2>3. MapMoves(KeysOrNull, V, Narrow!Entries, Narrow!Entries', call', ok', old')
    BY <1>2, <2>2, MoreKeys
  <2>4. Shown = Narrow!Entries /\ Shown' = Narrow!Entries' /\ ~Working("ptrset")
    BY <1>1, <1>7, ShownBy DEF Working
  <2>5. TheMap!Next /\ UNCHANGED ThePointers!vars
    BY <1>1, <2>3, <2>4, OneMapMoves
  <2>6. HashedInv'
    BY <1>1, <1>7, <2>2 DEF HashedInv, Working
  <2> QED BY <2>5, <2>6
<1> QED BY <1>1, <1>3, <1>4, <1>5, <1>6, <1>7 DEF Containers

LEMMA HashedStutter ==
    ASSUME HashedInv, UNCHANGED all
    PROVE  HashedInv' /\ UNCHANGED TheMap!vars /\ UNCHANGED ThePointers!vars
<1>1. /\ active' = active /\ active \in Containers /\ UNCHANGED vars
      /\ heap' = heap /\ hung' = hung /\ table' = table /\ call' = call /\ ok' = ok /\ old' = old
  BY DEF all, vars, HashedInv
<1>2. UNCHANGED Wide!vars /\ UNCHANGED Narrow!vars
  BY <1>1 DEF Wide!vars, Narrow!vars
<1>3. /\ Working("pphash") => PpInv' /\ Entries' = Entries
      /\ Working("phashset") => SpInv' /\ Set!Entries' = Set!Entries
      /\ Working("ptrset") => PtrInv' /\ Ptr!Entries' = Ptr!Entries
      /\ Working("wide") => Wp!IndexInv' /\ Wide!Entries' = Wide!Entries
      /\ Working("narrow") => Np!IndexInv' /\ Narrow!Entries' = Narrow!Entries
  BY <1>1, <1>2, PpStutter, SpStutter, PtrStutter, WideOthers, NarrowOthers DEF HashedInv
<1>4. HashedInv'
  BY <1>1, <1>3 DEF HashedInv, Working
<1>5. Shown' = Shown
  BY <1>1, <1>3, ShownBy DEF Containers, Working
<1>6. NoCall' = NoCall
  BY DEF NoCall, Called
<1>7. UNCHANGED TheMap!vars
  BY <1>1, <1>5, <1>6 DEF TheMap!vars, Working
<1>8. UNCHANGED ThePointers!vars
  BY <1>1, <1>3, <1>6 DEF ThePointers!vars, Working
<1> QED BY <1>4, <1>7, <1>8

-----------------------------------------------------------------------------
(* The theorems.  LongBins and SplitFails let raw_hash_index do what its
   findings and its README entry say; without them:                        *)

(* Of the container at work, the table is one in which searches find what is
   stored, and the map that it stands for is the one it shows.             *)
THEOREM HashedInvariant ==
    ASSUME ~LongBins, ~SplitFails
    PROVE  Spec_ => []HashedInv
<1>1. InitHashed => HashedInv
  BY HashedInit
<1>2. HashedInv /\ [NextHashed]_all => HashedInv'
  <2>1. CASE NextHashed
    BY <2>1, HashedNext
  <2>2. CASE UNCHANGED all
    BY <2>2, HashedStutter
  <2> QED BY <2>1, <2>2
<1> QED BY <1>1, <1>2, PTL DEF Spec_

LEMMA HashedProperties ==
    ASSUME HashedInv
    PROVE  TypesOK /\ EntriesFindable /\ CountersAgree /\ MemoryOwned
<1>1. /\ Working("pphash") => TypeOK /\ Findable /\ SizesAgree /\ KeysOwned
      /\ Working("phashset") => Set!TypeOK /\ Set!Findable /\ Set!SizesAgree
      /\ Working("ptrset") => Ptr!TypeOK /\ Ptr!BinsSorted /\ Ptr!SearchesAgree
      /\ Working("wide") => Wide!TypeOK /\ Wide!Findable /\ Wide!SizesAgree /\ Wide!NodesOwned
      /\ Working("narrow") => Narrow!TypeOK /\ Narrow!Findable /\ Narrow!SizesAgree /\ Narrow!NodesOwned
  BY PpProperties, SpProperties, PtrProperties, WideOthers, NarrowOthers DEF HashedInv
<1> QED BY <1>1 DEF TypesOK, EntriesFindable, CountersAgree, MemoryOwned

(* The tables, the calls and their answers are of their types.             *)
THEOREM HashedTypes ==
    ASSUME ~LongBins, ~SplitFails
    PROVE  Spec_ => []TypesOK
<1>1. HashedInv => TypesOK
  BY HashedProperties
<1>2. Spec_ => []HashedInv
  BY HashedInvariant
<1> QED BY <1>1, <1>2, PTL

(* A search for the key of any entry finds that entry, in the bin of its hash
   and nowhere else, after any growth, removal and failed allocation; the
   bins of a ptrset stay sorted and its binary searches find what is there. *)
THEOREM HashedFindable ==
    ASSUME ~LongBins, ~SplitFails
    PROVE  Spec_ => []EntriesFindable
<1>1. HashedInv => EntriesFindable
  BY HashedProperties
<1>2. Spec_ => []HashedInv
  BY HashedInvariant
<1> QED BY <1>1, <1>2, PTL

(* The counter of each bin, and that of the table, is the number of entries. *)
THEOREM HashedCounters ==
    ASSUME ~LongBins, ~SplitFails
    PROVE  Spec_ => []CountersAgree
<1>1. HashedInv => CountersAgree
  BY HashedProperties
<1>2. Spec_ => []HashedInv
  BY HashedInvariant
<1> QED BY <1>1, <1>2, PTL

(* A pphash has one copy of each key it holds and no other; the nodes of a
   hash_index that are allocated are those of its bins and the lost ones.  *)
THEOREM HashedMemory ==
    ASSUME ~LongBins, ~SplitFails
    PROVE  Spec_ => []MemoryOwned
<1>1. HashedInv => MemoryOwned
  BY HashedProperties
<1>2. Spec_ => []HashedInv
  BY HashedInvariant
<1> QED BY <1>1, <1>2, PTL

(* The methods are those of a map: only an insertion can fail, and a call
   that fails changes nothing of the map.                                  *)
THEOREM HashedIsMap ==
    ASSUME ~LongBins, ~SplitFails
    PROVE  Spec_ => Implements
<1>1. InitHashed => TheMap!Init /\ ThePointers!Init
  BY HashedInit
<1>2. HashedInv /\ [NextHashed]_all => [TheMap!Next]_(TheMap!vars) /\ [ThePointers!Next]_(ThePointers!vars)
  <2>1. CASE NextHashed
    BY <2>1, HashedNext
  <2>2. CASE UNCHANGED all
    BY <2>2, HashedStutter
  <2> QED BY <2>1, <2>2
<1>3. Spec_ => []HashedInv
  BY HashedInvariant
<1> QED BY <1>1, <1>2, <1>3, PTL DEF Spec_, Implements, TheMap!Spec, ThePointers!Spec
=============================================================================
