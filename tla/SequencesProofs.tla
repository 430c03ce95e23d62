---------------------------- MODULE SequencesProofs ----------------------------
(***************************************************************************)
(* What the arrays, the snapshots, the iterators and the bitset guarantee  *)
(* for any elements, capacities and widths of a word: nothing is written   *)
(* or read behind the memory of an array, no block is lost, iterators      *)
(* measure right, and every method is the one of a sequence.               *)
(***************************************************************************)
EXTENDS MCSequences, Recursion, SequenceTheorems

(* Memory of a length, whatever is in the cells.                           *)
Block(v) == Len(v) \in Nat /\ DOMAIN v = 1..Len(v)

(* An array whose elements are in its memory.                              *)
Sound(d) ==
    /\ d = [nItems |-> d.nItems, vItems |-> d.vItems]
    /\ d.nItems \in Nat /\ Block(d.vItems) /\ d.nItems <= Len(d.vItems)

-----------------------------------------------------------------------------
(* The cells.                                                              *)

(* A function on 1..n is a block of n cells.                               *)
LEMMA FunctionIsBlock ==
    ASSUME NEW n \in Nat, NEW v, v = [i \in 1..n |-> v[i]]
    PROVE  Block(v) /\ Len(v) = n
<1> DEFINE S == {v[i] : i \in 1..n}
<1>1. v \in [1..n -> S]
  OBVIOUS
<1>2. v \in Seq(S)
  BY <1>1
<1>3. DOMAIN v = 1..n /\ DOMAIN v = 1..Len(v) /\ Len(v) \in Nat
  BY <1>1, <1>2
<1> QED BY <1>3 DEF Block

LEMMA ReallocBlock ==
    ASSUME NEW c \in Nat, NEW v
    PROVE  Block(realloc(v, c)) /\ Len(realloc(v, c)) = c
  BY FunctionIsBlock DEF realloc

LEMMA CopyBlock ==
    ASSUME NEW v, Block(v), NEW dst, NEW s
    PROVE  Block(memcpy(v, dst, s)) /\ Len(memcpy(v, dst, s)) = Len(v)
  BY FunctionIsBlock DEF memcpy, Block

LEMMA MoveBlock ==
    ASSUME NEW v, Block(v), NEW dst, NEW src, NEW n
    PROVE  Block(memmove(v, dst, src, n)) /\ Len(memmove(v, dst, src, n)) = Len(v)
  BY FunctionIsBlock DEF memmove, Block

LEMMA PartLength ==
    ASSUME NEW d, NEW idx, NEW n \in Nat
    PROVE  Len(Part(d, idx, n)) = n
  BY FunctionIsBlock DEF Part

LEMMA FreshSound == Sound(Fresh)
  BY DEF Sound, Fresh, Block

-----------------------------------------------------------------------------
(* Memory: whatever realloc() answers, an array stays sound, and if it is
   told that there is room there is.                                       *)
LEMMA GrowSound ==
    ASSUME NEW d, Sound(d), NEW c \in Nat, d.nItems <= c, NEW r \in grow(d, c)
    PROVE  Sound(r.d) /\ r.d.nItems = d.nItems /\ (r.ok => nCapacity(r.d) >= c)
<1>1. AtLeast(c) \in Nat /\ AtLeast(c) >= c
  BY ArrayAssumption DEF AtLeast
<1>2. CASE r = Failed(d)
  BY <1>2 DEF Failed
<1>3. CASE r = Good([d EXCEPT !.vItems = realloc(@, AtLeast(c))])
  <2> DEFINE v == realloc(d.vItems, AtLeast(c))
  <2>1. Block(v) /\ Len(v) = AtLeast(c)
    BY <1>1, ReallocBlock
  <2>2. r.d = [nItems |-> d.nItems, vItems |-> v] /\ r.ok
    BY <1>3 DEF Good, Sound
  <2> QED BY <1>1, <2>1, <2>2 DEF Sound, nCapacity
<1> QED BY <1>2, <1>3 DEF grow

LEMMA TruncateSound ==
    ASSUME NEW d, Sound(d), NEW c \in Nat, NEW r \in truncate(d, c)
    PROVE  Sound(r.d) /\ (r.ok /\ nCapacity(d) >= c => nCapacity(r.d) >= c)
<1>1. AtLeast(c) \in Nat /\ AtLeast(c) >= c
  BY ArrayAssumption DEF AtLeast
<1>2. CASE c = 0
  BY <1>2, FreshSound DEF truncate, Good, Sound, Block, nCapacity
<1>3. CASE c # 0 /\ r = Good(d)
  BY <1>3 DEF Good
<1>4. CASE r = Failed(d)
  BY <1>4 DEF Failed
<1>5. CASE /\ c # 0
           /\ r = Good([nItems |-> IF d.nItems > AtLeast(c) THEN AtLeast(c) ELSE d.nItems,
                        vItems |-> realloc(d.vItems, AtLeast(c))])
  <2>1. Block(r.d.vItems) /\ Len(r.d.vItems) = AtLeast(c)
    BY <1>1, <1>5, ReallocBlock DEF Good
  <2> QED BY <1>1, <1>5, <2>1 DEF Good, Sound, nCapacity
<1> QED BY <1>2, <1>3, <1>4, <1>5 DEF truncate

LEMMA RoomSound ==
    ASSUME NEW d, Sound(d), NEW n \in Nat, NEW r \in MakeRoom(d, n)
    PROVE  Sound(r.d) /\ r.d.nItems = d.nItems /\ (r.ok => d.nItems + n <= nCapacity(r.d))
<1> DEFINE needed == nonzero(d.nItems, n)
           dn == nCapacity(d) + needed
<1>1. needed \in Nat /\ needed >= n /\ nCapacity(d) \in Nat /\ d.nItems \in Nat /\ d.nItems <= nCapacity(d)
  BY DEF nonzero, Sound, Block, nCapacity
<1>2. dn + (dn \div 2) \in Nat /\ dn + (dn \div 2) >= d.nItems + needed
  BY <1>1
<1>3. CASE d.nItems + needed > nCapacity(d)
  <2>1. r \in grow(d, dn + (dn \div 2))
    BY <1>3 DEF MakeRoom
  <2>2. nCapacity(r.d) \in Nat
    BY <1>1, <1>2, <2>1, GrowSound DEF Sound, Block, nCapacity
  <2> HIDE DEF dn, needed
  <2> QED BY <1>1, <1>2, <2>1, <2>2, GrowSound
<1>4. CASE ~(d.nItems + needed > nCapacity(d))
  BY <1>1, <1>4 DEF MakeRoom, Good
<1> QED BY <1>3, <1>4

-----------------------------------------------------------------------------
(* What the methods leave of an array that they find sound.                *)
LEMMA AppendSound ==
    ASSUME NEW d, Sound(d), NEW s, Len(s) \in Nat, NEW r \in append(d, s)
    PROVE  Sound(r.d)
<1>1. PICK q \in MakeRoom(d, Len(s)) :
        r = IF q.ok THEN Good([nItems |-> q.d.nItems + Len(s), vItems |-> memcpy(q.d.vItems, q.d.nItems, s)])
            ELSE q
  BY DEF append
<1>2. Sound(q.d) /\ q.d.nItems = d.nItems /\ (q.ok => d.nItems + Len(s) <= nCapacity(q.d))
  BY RoomSound
<1>3. CASE q.ok
  <2>1. Block(memcpy(q.d.vItems, q.d.nItems, s))
        /\ Len(memcpy(q.d.vItems, q.d.nItems, s)) = Len(q.d.vItems)
    BY <1>2, CopyBlock DEF Sound
  <2> QED BY <1>1, <1>2, <1>3, <2>1 DEF Good, Sound, nCapacity
<1> QED BY <1>1, <1>2, <1>3

LEMMA InsertSound ==
    ASSUME NEW d, Sound(d), NEW index \in Nat, index <= d.nItems,
           NEW s, Len(s) \in Nat, NEW r \in insert(d, index, s)
    PROVE  Sound(r.d)
<1> DEFINE Opened(e) ==
        IF index < e.nItems THEN memmove(e.vItems, index + Len(s), index, e.nItems - index) ELSE e.vItems
<1>1. PICK q \in MakeRoom(d, Len(s)) :
        r = IF q.ok THEN Good([nItems |-> q.d.nItems + Len(s), vItems |-> memcpy(Opened(q.d), index, s)])
            ELSE q
  BY DEF insert
<1>2. Sound(q.d) /\ q.d.nItems = d.nItems /\ (q.ok => d.nItems + Len(s) <= nCapacity(q.d))
  BY RoomSound
<1>3. CASE q.ok
  <2>1. Block(Opened(q.d)) /\ Len(Opened(q.d)) = Len(q.d.vItems)
    BY <1>2, MoveBlock DEF Sound
  <2>2. Block(memcpy(Opened(q.d), index, s)) /\ Len(memcpy(Opened(q.d), index, s)) = Len(q.d.vItems)
    BY <2>1, CopyBlock
  <2> HIDE DEF Opened
  <2> QED BY <1>1, <1>2, <1>3, <2>2 DEF Good, Sound, nCapacity
<1> QED BY <1>1, <1>2, <1>3

LEMMA SetSound ==
    ASSUME NEW d, Sound(d), NEW s, Len(s) \in Nat, NEW r \in set(d, s)
    PROVE  Sound(r.d)
<1> DEFINE needed == IF Len(s) > 0 THEN Len(s) ELSE 1
           fit == IF needed > nCapacity(d) THEN grow(d, needed)
                  ELSE IF needed < nCapacity(d) \div 2 THEN truncate(d, needed) ELSE {Good(d)}
<1>1. PICK q \in fit : r = IF q.ok THEN Good([nItems |-> Len(s), vItems |-> memcpy(q.d.vItems, 0, s)]) ELSE q
  BY DEF set
<1>2. needed \in Nat /\ needed >= Len(s) /\ nCapacity(d) \in Nat /\ d.nItems \in Nat /\ d.nItems <= nCapacity(d)
  BY DEF Sound, Block, nCapacity
<1>3. Sound(q.d) /\ (q.ok => nCapacity(q.d) >= needed)
  <2> HIDE DEF needed
  <2>1. CASE needed > nCapacity(d)
    BY <1>2, <2>1, GrowSound
  <2>2. CASE ~(needed > nCapacity(d)) /\ needed < nCapacity(d) \div 2
    BY <1>2, <2>2, TruncateSound
  <2>3. CASE ~(needed > nCapacity(d)) /\ ~(needed < nCapacity(d) \div 2)
    BY <1>2, <2>3 DEF Good
  <2> QED BY <2>1, <2>2, <2>3
<1>4. CASE q.ok
  <2>1. Block(memcpy(q.d.vItems, 0, s)) /\ Len(memcpy(q.d.vItems, 0, s)) = Len(q.d.vItems)
    BY <1>3, CopyBlock DEF Sound
  <2>2. Len(q.d.vItems) >= Len(s)
    BY <1>2, <1>3, <1>4, <2>1 DEF nCapacity, Sound, Block
  <2> QED BY <1>1, <1>4, <2>1, <2>2 DEF Good, Sound
<1> QED BY <1>1, <1>3, <1>4

LEMMA WithoutSound ==
    ASSUME NEW d, Sound(d), NEW idx \in Nat, NEW n \in Nat, idx + n <= d.nItems
    PROVE  Sound(Without(d, idx, n)) /\ Without(d, idx, n).nItems = d.nItems - n
<1> DEFINE v == IF idx + n < d.nItems THEN memmove(d.vItems, idx, idx + n, d.nItems - (idx + n)) ELSE d.vItems
<1>1. Block(v) /\ Len(v) = Len(d.vItems)
  BY MoveBlock DEF Sound
<1>2. Without(d, idx, n) = [nItems |-> d.nItems - n, vItems |-> v]
  BY DEF Without
<1> HIDE DEF v
<1> QED BY <1>1, <1>2 DEF Sound

(* Writing to the cells, or dropping the last elements, leaves an array sound. *)
LEMMA CopiedSound ==
    ASSUME NEW d, Sound(d), NEW dst, NEW s
    PROVE  Sound([d EXCEPT !.vItems = memcpy(@, dst, s)])
<1>1. Block(memcpy(d.vItems, dst, s)) /\ Len(memcpy(d.vItems, dst, s)) = Len(d.vItems)
  BY CopyBlock DEF Sound
<1>2. [d EXCEPT !.vItems = memcpy(@, dst, s)] = [nItems |-> d.nItems, vItems |-> memcpy(d.vItems, dst, s)]
  BY DEF Sound
<1> QED BY <1>1, <1>2 DEF Sound

LEMMA FewerSound ==
    ASSUME NEW d, Sound(d), NEW n \in Nat, n <= d.nItems
    PROVE  Sound([d EXCEPT !.nItems = n])
<1>1. [d EXCEPT !.nItems = n] = [nItems |-> n, vItems |-> d.vItems]
  BY DEF Sound
<1> QED BY <1>1 DEF Sound, Block

LEMMA ModBelow ==
    ASSUME NEW n \in Nat, NEW m \in Nat \ {0}
    PROVE  n % m \in Nat /\ n % m <= n
<1>1. CASE n < m
  BY <1>1
<1>2. CASE ~(n < m)
  <2>1. n % m \in 0..(m - 1)
    OBVIOUS
  <2> QED BY <1>2, <2>1
<1> QED BY <1>1, <1>2

-----------------------------------------------------------------------------
(* The elements, and the cells behind them.                                *)
Cell == Values \cup {Junk}

(* A sound array whose cells have their types.                             *)
Held(d) == Sound(d) /\ d.vItems \in Seq(Cell) /\ Items(d) \in Seq(Values)

LEMMA HeldItems ==
    ASSUME NEW d, Held(d)
    PROVE  /\ d = [nItems |-> d.nItems, vItems |-> d.vItems]
           /\ d.nItems \in Nat /\ d.nItems <= Len(d.vItems)
           /\ d.vItems \in Seq(Cell) /\ Len(d.vItems) \in Nat
           /\ Items(d) \in Seq(Values) /\ Len(Items(d)) = d.nItems
           /\ \A i \in 1..d.nItems : Items(d)[i] = d.vItems[i]
<1>1. Sound(d) /\ d.vItems \in Seq(Cell) /\ Items(d) \in Seq(Values)
  BY DEF Held
<1>2. /\ d = [nItems |-> d.nItems, vItems |-> d.vItems] /\ d.nItems \in Nat
      /\ Len(d.vItems) \in Nat /\ d.nItems <= Len(d.vItems) /\ DOMAIN d.vItems = 1..Len(d.vItems)
  BY <1>1 DEF Sound, Block
<1>3. Len(Items(d)) = d.nItems
  BY <1>2, PartLength DEF Items
<1>4. \A i \in 1..d.nItems : Items(d)[i] = d.vItems[i]
  BY <1>2 DEF Items, Part
<1> QED BY <1>1, <1>2, <1>3, <1>4

(* To show what an array holds.                                            *)
LEMMA HoldsThese ==
    ASSUME NEW d, NEW n \in Nat, NEW v \in Seq(Cell), d = [nItems |-> n, vItems |-> v],
           NEW s \in Seq(Values), Len(s) = n, n <= Len(v),
           \A i \in 1..n : v[i] = s[i]
    PROVE  Held(d) /\ Items(d) = s
<1>1. DOMAIN v = 1..Len(v) /\ Len(v) \in Nat /\ s = [i \in 1..n |-> s[i]]
  OBVIOUS
<1>2. Sound(d)
  BY <1>1 DEF Sound, Block
<1>3. Items(d) = [i \in 1..n |-> v[i]]
  BY <1>1 DEF Items, Part
<1>4. Items(d) = s
  BY <1>1, <1>3
<1> QED BY <1>2, <1>4 DEF Held

LEMMA ReallocCells ==
    ASSUME NEW v \in Seq(Cell), NEW c \in Nat
    PROVE  /\ realloc(v, c) \in Seq(Cell) /\ Len(realloc(v, c)) = c
           /\ \A i \in 1..c : i <= Len(v) => realloc(v, c)[i] = v[i]
<1>1. DOMAIN v = 1..Len(v) /\ \A i \in DOMAIN v : v[i] \in Cell
  OBVIOUS
<1>2. realloc(v, c) \in [1..c -> Cell]
  BY <1>1 DEF realloc, Cell
<1> QED BY <1>1, <1>2 DEF realloc

LEMMA CopyCells ==
    ASSUME NEW v \in Seq(Cell), NEW dst \in Nat, NEW s \in Seq(Values), dst + Len(s) <= Len(v)
    PROVE  /\ memcpy(v, dst, s) \in Seq(Cell) /\ Len(memcpy(v, dst, s)) = Len(v)
           /\ \A i \in 1..Len(v) : i <= dst \/ i > dst + Len(s) => memcpy(v, dst, s)[i] = v[i]
           /\ \A i \in 1..Len(s) : memcpy(v, dst, s)[dst + i] = s[i]
<1>1. /\ DOMAIN v = 1..Len(v) /\ \A i \in DOMAIN v : v[i] \in Cell
      /\ DOMAIN s = 1..Len(s) /\ \A i \in DOMAIN s : s[i] \in Cell
      /\ Len(v) \in Nat /\ Len(s) \in Nat
  BY DEF Cell
<1>2. memcpy(v, dst, s) = [i \in 1..Len(v) |-> IF i - dst \in 1..Len(s) THEN s[i - dst] ELSE v[i]]
  BY <1>1 DEF memcpy
<1>3. memcpy(v, dst, s) \in [1..Len(v) -> Cell]
  BY <1>1, <1>2
<1>4. \A i \in 1..Len(s) : dst + i \in 1..Len(v) /\ (dst + i) - dst = i
  BY <1>1
<1> QED BY <1>1, <1>2, <1>3, <1>4

(* w has the cells of v, n of them moved.                                  *)
Moved(w, v, dst, src, n) ==
    /\ w \in Seq(Cell) /\ Len(w) = Len(v)
    /\ \A i \in 1..Len(v) : i <= dst \/ i > dst + n => w[i] = v[i]
    /\ \A i \in 1..n : w[dst + i] = v[src + i]

LEMMA MoveCells ==
    ASSUME NEW v \in Seq(Cell), NEW dst \in Nat, NEW src \in Nat, NEW n \in Nat,
           dst + n <= Len(v), src + n <= Len(v)
    PROVE  Moved(memmove(v, dst, src, n), v, dst, src, n)
<1>1. DOMAIN v = 1..Len(v) /\ (\A i \in DOMAIN v : v[i] \in Cell) /\ Len(v) \in Nat
  OBVIOUS
<1>2. ASSUME NEW i \in 1..n
      PROVE  /\ dst + i \in 1..Len(v) /\ (dst + i) - dst = i
             /\ i + src = src + i /\ src + i \in 1..Len(v)
  BY <1>1
<1>3. memmove(v, dst, src, n) \in [1..Len(v) -> Cell]
  BY <1>1 DEF memmove
<1> QED BY <1>1, <1>2, <1>3 DEF memmove, Moved

LEMMA FunctionIsSequence ==
    ASSUME NEW T, NEW n \in Nat, NEW f \in [1..n -> T]
    PROVE  f \in Seq(T) /\ Len(f) = n
  OBVIOUS

LEMMA Joined ==
    ASSUME NEW T, NEW s \in Seq(T), NEW t \in Seq(T)
    PROVE  /\ s \o t \in Seq(T) /\ Len(s \o t) = Len(s) + Len(t)
           /\ Len(s) \in Nat /\ Len(t) \in Nat
           /\ \A i \in 1..Len(s) : (s \o t)[i] = s[i]
           /\ \A i \in 1..Len(t) : (s \o t)[Len(s) + i] = t[i]
  OBVIOUS

LEMMA Slice ==
    ASSUME NEW T, NEW s \in Seq(T), NEW m \in 1..(Len(s) + 1), NEW n \in (m - 1)..Len(s)
    PROVE  /\ SubSeq(s, m, n) \in Seq(T) /\ Len(SubSeq(s, m, n)) = n - m + 1
           /\ \A i \in 1..(n - m + 1) : SubSeq(s, m, n)[i] = s[m + i - 1]
  OBVIOUS

(* Elements of an array handed out.                                        *)
LEMMA PartIsSlice ==
    ASSUME NEW d, Held(d), NEW idx \in Nat, NEW n \in Nat, idx + n <= d.nItems
    PROVE  Part(d, idx, n) = SubSeq(Items(d), idx + 1, idx + n) /\ Part(d, idx, n) \in Seq(Values)
<1> DEFINE t == SubSeq(Items(d), idx + 1, idx + n)
<1>1. /\ d.nItems \in Nat /\ d.nItems <= Len(d.vItems) /\ Len(d.vItems) \in Nat
      /\ DOMAIN d.vItems = 1..Len(d.vItems)
      /\ Items(d) \in Seq(Values) /\ Len(Items(d)) = d.nItems
      /\ \A i \in 1..d.nItems : Items(d)[i] = d.vItems[i]
  BY HeldItems
<1>2. idx + 1 \in 1..(Len(Items(d)) + 1) /\ idx + n \in ((idx + 1) - 1)..Len(Items(d))
      /\ (idx + n) - (idx + 1) + 1 = n
  BY <1>1
<1>3. t \in Seq(Values) /\ Len(t) = n /\ \A i \in 1..n : t[i] = Items(d)[(idx + 1) + i - 1]
  BY <1>1, <1>2, Slice
<1>4. \A i \in 1..n : t[i] = d.vItems[idx + i] /\ idx + i \in DOMAIN d.vItems
  <2> SUFFICES ASSUME NEW i \in 1..n PROVE t[i] = d.vItems[idx + i] /\ idx + i \in DOMAIN d.vItems
    OBVIOUS
  <2>1. (idx + 1) + i - 1 = idx + i /\ idx + i \in 1..d.nItems /\ idx + i \in 1..Len(d.vItems)
    BY <1>1
  <2>2. t[i] = Items(d)[(idx + 1) + i - 1]
    BY <1>3
  <2>3. t[i] = Items(d)[idx + i]
    BY <2>1, <2>2
  <2> HIDE DEF t
  <2> QED BY <1>1, <2>1, <2>3
<1>5. Part(d, idx, n) = [i \in 1..n |-> t[i]]
  BY <1>4 DEF Part
<1>6. t = [i \in 1..n |-> t[i]]
  BY <1>3
<1> QED BY <1>3, <1>5, <1>6

(* Memory.                                                                 *)
LEMMA KeepsItems ==
    ASSUME NEW d, Held(d), NEW v \in Seq(Cell), d.nItems <= Len(v),
           \A i \in 1..d.nItems : v[i] = d.vItems[i]
    PROVE  Held([d EXCEPT !.vItems = v]) /\ Items([d EXCEPT !.vItems = v]) = Items(d)
<1>1. [d EXCEPT !.vItems = v] = [nItems |-> d.nItems, vItems |-> v]
  BY HeldItems
<1>2. \A i \in 1..d.nItems : v[i] = Items(d)[i]
  BY HeldItems
<1> QED BY <1>1, <1>2, HeldItems, HoldsThese, SMTT(30)

LEMMA GrowGives ==
    ASSUME NEW d, Held(d), NEW c \in Nat, d.nItems <= c, NEW r \in grow(d, c)
    PROVE  Held(r.d) /\ Items(r.d) = Items(d) /\ r.ok \in BOOLEAN
<1>1. AtLeast(c) \in Nat /\ AtLeast(c) >= c
  BY ArrayAssumption DEF AtLeast
<1> DEFINE v == realloc(d.vItems, AtLeast(c))
<1>2. v \in Seq(Cell) /\ Len(v) = AtLeast(c) /\ \A i \in 1..AtLeast(c) : i <= Len(d.vItems) => v[i] = d.vItems[i]
  BY <1>1, ReallocCells, HeldItems
<1> HIDE DEF v
<1>3. d.nItems <= Len(v) /\ \A i \in 1..d.nItems : v[i] = d.vItems[i]
  BY <1>1, <1>2, HeldItems
<1> DEFINE e == [d EXCEPT !.vItems = v]
<1>4. Held(e) /\ Items(e) = Items(d)
  BY <1>2, <1>3, KeepsItems
<1>5. r = Failed(d) \/ r = Good(e)
  BY DEF grow, v
<1> HIDE DEF e
<1>6. CASE r = Failed(d)
  BY <1>6 DEF Failed
<1>7. CASE r = Good(e)
  <2>1. r.d = e /\ r.ok = TRUE
    BY <1>7 DEF Good
  <2> QED BY <1>4, <2>1
<1> QED BY <1>5, <1>6, <1>7

LEMMA FewerItems ==
    ASSUME NEW d, Held(d), NEW n \in Nat, n <= d.nItems, NEW v \in Seq(Cell), n <= Len(v),
           \A i \in 1..n : v[i] = d.vItems[i],
           NEW e, e = [nItems |-> n, vItems |-> v]
    PROVE  Held(e) /\ Items(e) = SubSeq(Items(d), 1, n)
<1> DEFINE s == SubSeq(Items(d), 1, n)
<1>1. Items(d) \in Seq(Values) /\ Len(Items(d)) = d.nItems /\ d.nItems \in Nat
      /\ \A i \in 1..d.nItems : Items(d)[i] = d.vItems[i]
  BY HeldItems
<1>2. s \in Seq(Values) /\ Len(s) = n /\ \A i \in 1..n : s[i] = Items(d)[i]
  BY <1>1
<1>3. \A i \in 1..n : v[i] = s[i]
  BY <1>1, <1>2
<1> HIDE DEF s
<1>4. Held(e) /\ Items(e) = s
  BY <1>2, <1>3, HoldsThese
<1> QED BY <1>4 DEF s

LEMMA FreshHeld == Held(Fresh) /\ Items(Fresh) = << >>
<1>1. Fresh = [nItems |-> 0, vItems |-> << >>]
  BY DEF Fresh
<1>2. Len(Items(Fresh)) = 0 /\ Items(Fresh) = [i \in 1..0 |-> Part(Fresh, 0, 0)[i]]
  BY <1>1, PartLength DEF Items, Part
<1>3. 1..0 = {}
  OBVIOUS
<1>4. Items(Fresh) = << >>
  BY <1>2, <1>3
<1> QED BY <1>1, <1>4, FreshSound DEF Held

LEMMA TruncateGives ==
    ASSUME NEW d, Held(d), NEW c \in Nat, NEW r \in truncate(d, c)
    PROVE  /\ Held(r.d) /\ r.ok \in BOOLEAN
           /\ r.ok => \E n \in 0..d.nItems : (n = d.nItems \/ n >= c) /\ Items(r.d) = SubSeq(Items(d), 1, n)
           /\ ~r.ok => r.d = d
<1>1. AtLeast(c) \in Nat /\ AtLeast(c) >= c
  BY ArrayAssumption DEF AtLeast
<1>2. /\ d.nItems \in Nat /\ d.nItems <= Len(d.vItems) /\ d.vItems \in Seq(Cell) /\ Len(d.vItems) \in Nat
      /\ Items(d) \in Seq(Values) /\ Len(Items(d)) = d.nItems
  BY HeldItems
<1>3. SubSeq(Items(d), 1, d.nItems) = Items(d) /\ SubSeq(Items(d), 1, 0) = << >>
  BY <1>2
<1>4. CASE c = 0
  <2>1. r.d = Fresh /\ r.ok
    BY <1>4 DEF truncate, Good
  <2>2. 0 \in 0..d.nItems /\ 0 >= c
    BY <1>2, <1>4
  <2> QED BY <1>3, <2>1, <2>2, FreshHeld
<1>5. CASE c # 0 /\ r = Good(d)
  <2>1. d.nItems \in 0..d.nItems
    BY <1>2
  <2> QED BY <1>3, <1>5, <2>1 DEF Good
<1>6. CASE r = Failed(d)
  BY <1>6 DEF Failed
<1> DEFINE n == IF d.nItems > AtLeast(c) THEN AtLeast(c) ELSE d.nItems
           v == realloc(d.vItems, AtLeast(c))
<1>7. CASE nCapacity(d) > AtLeast(c) /\ r = Good([nItems |-> n, vItems |-> v])
  <2>1. v \in Seq(Cell) /\ Len(v) = AtLeast(c) /\ \A i \in 1..AtLeast(c) : i <= Len(d.vItems) => v[i] = d.vItems[i]
    BY <1>1, <1>2, ReallocCells
  <2>2. n \in Nat /\ n <= d.nItems /\ n <= AtLeast(c) /\ (n = d.nItems \/ n >= c) /\ n \in 0..d.nItems
    BY <1>1, <1>2
  <2> HIDE DEF n, v
  <2>3. n <= Len(v) /\ \A i \in 1..n : v[i] = d.vItems[i]
    BY <1>1, <1>2, <2>1, <2>2
  <2>4. Held(r.d) /\ Items(r.d) = SubSeq(Items(d), 1, n) /\ r.ok
    BY <1>7, <2>1, <2>2, <2>3, FewerItems DEF Good
  <2> QED BY <2>2, <2>4
<1>8. nCapacity(d) \in Int
  BY <1>2 DEF nCapacity
<1> QED BY <1>1, <1>4, <1>5, <1>6, <1>7, <1>8 DEF truncate

LEMMA RoomGives ==
    ASSUME NEW d, Held(d), NEW n \in Nat, NEW r \in MakeRoom(d, n)
    PROVE  /\ Held(r.d) /\ Items(r.d) = Items(d) /\ r.ok \in BOOLEAN
           /\ r.d.nItems = d.nItems /\ (r.ok => d.nItems + n <= Len(r.d.vItems))
<1> DEFINE needed == nonzero(d.nItems, n)
           dn == nCapacity(d) + needed
<1>1. Sound(d)
  BY DEF Held
<1>2. needed \in Nat /\ nCapacity(d) \in Nat /\ d.nItems \in Nat /\ d.nItems <= nCapacity(d)
  BY <1>1 DEF nonzero, Sound, Block, nCapacity
<1>3. dn + (dn \div 2) \in Nat /\ dn + (dn \div 2) >= d.nItems
  BY <1>2
<1>4. r \in grow(d, dn + (dn \div 2)) \/ r = Good(d)
  BY DEF MakeRoom
<1> HIDE DEF dn
<1>5. Held(r.d) /\ Items(r.d) = Items(d) /\ r.ok \in BOOLEAN
  <2>1. CASE r \in grow(d, dn + (dn \div 2))
    BY <1>3, <2>1, GrowGives
  <2>2. CASE r = Good(d)
    BY <2>2 DEF Good
  <2> QED BY <1>4, <2>1, <2>2
<1> QED BY <1>1, <1>5, RoomSound DEF nCapacity

(* The methods.  What they are given is a sequence of elements.            *)
LEMMA AppendGives ==
    ASSUME NEW d, Held(d), NEW s \in Seq(Values), NEW r \in append(d, s)
    PROVE  Held(r.d) /\ Items(r.d) = (IF r.ok THEN Items(d) \o s ELSE Items(d)) /\ r.ok \in BOOLEAN
<1>1. PICK q \in MakeRoom(d, Len(s)) :
        r = IF q.ok THEN Good([nItems |-> q.d.nItems + Len(s), vItems |-> memcpy(q.d.vItems, q.d.nItems, s)])
            ELSE q
  BY DEF append
<1>2. /\ Held(q.d) /\ Items(q.d) = Items(d) /\ Len(s) \in Nat /\ q.ok \in BOOLEAN
      /\ q.d.nItems = d.nItems /\ (q.ok => d.nItems + Len(s) <= Len(q.d.vItems))
  BY RoomGives
<1>3. CASE q.ok
  <2> DEFINE n == d.nItems
             v == q.d.vItems
             w == memcpy(v, n, s)
             t == Items(d) \o s
  <2>1. /\ n \in Nat /\ n <= Len(v) /\ v \in Seq(Cell) /\ Len(v) \in Nat /\ n + Len(s) <= Len(v)
        /\ Items(d) \in Seq(Values) /\ Len(Items(d)) = n
        /\ \A i \in 1..n : Items(d)[i] = v[i]
    BY <1>2, <1>3, HeldItems
  <2>2. /\ w \in Seq(Cell) /\ Len(w) = Len(v)
        /\ \A i \in 1..Len(v) : i <= n \/ i > n + Len(s) => w[i] = v[i]
        /\ \A i \in 1..Len(s) : w[n + i] = s[i]
    BY <2>1, CopyCells
  <2>3. /\ t \in Seq(Values) /\ Len(t) = n + Len(s)
        /\ \A i \in 1..n : t[i] = Items(d)[i]
        /\ \A i \in 1..Len(s) : t[n + i] = s[i]
    <3> HIDE DEF n, v
    <3> QED BY <2>1, Joined, SMTT(30)
  <2>4. r = Good([nItems |-> n + Len(s), vItems |-> w])
    BY <1>1, <1>2, <1>3
  <2> HIDE DEF n, v, w, t
  <2>5. ASSUME NEW i \in 1..(n + Len(s)) PROVE w[i] = t[i]
    <3>1. CASE i <= n
      BY <1>2, <2>1, <2>2, <2>3, <3>1
    <3>2. CASE i > n
      <4>1. i - n \in 1..Len(s) /\ n + (i - n) = i
        BY <1>2, <2>1, <3>2
      <4>2. w[n + (i - n)] = s[i - n] /\ t[n + (i - n)] = s[i - n]
        BY <2>2, <2>3, <4>1
      <4> QED BY <4>1, <4>2
    <3> QED BY <1>2, <2>1, <3>1, <3>2
  <2>6. n + Len(s) \in Nat /\ n + Len(s) <= Len(w)
    BY <1>2, <2>1, <2>2
  <2> DEFINE e == [nItems |-> n + Len(s), vItems |-> w]
  <2>7. Held(e) /\ Items(e) = t
    BY <2>2, <2>3, <2>5, <2>6, HoldsThese
  <2>8. r.d = e /\ r.ok
    BY <2>4 DEF Good
  <2> QED BY <2>7, <2>8 DEF t
<1> QED BY <1>1, <1>2, <1>3

LEMMA SetGives ==
    ASSUME NEW d, Held(d), NEW s \in Seq(Values), NEW r \in set(d, s)
    PROVE  Held(r.d) /\ Items(r.d) = (IF r.ok THEN s ELSE Items(d)) /\ r.ok \in BOOLEAN
<1> DEFINE needed == IF Len(s) > 0 THEN Len(s) ELSE 1
           fit == IF needed > nCapacity(d) THEN grow(d, needed)
                  ELSE IF needed < nCapacity(d) \div 2 THEN truncate(d, needed) ELSE {Good(d)}
<1>1. PICK q \in fit : r = IF q.ok THEN Good([nItems |-> Len(s), vItems |-> memcpy(q.d.vItems, 0, s)]) ELSE q
  BY DEF set
<1>2. /\ needed \in Nat /\ Len(s) \in Nat /\ needed >= Len(s) /\ Sound(d) /\ nCapacity(d) \in Nat
      /\ d.nItems \in Nat /\ d.nItems <= nCapacity(d)
  BY HeldItems DEF Held, nCapacity
<1>3. Held(q.d) /\ (q.ok => Len(q.d.vItems) >= needed) /\ (~q.ok => Items(q.d) = Items(d)) /\ q.ok \in BOOLEAN
  <2> HIDE DEF needed
  <2>1. CASE needed > nCapacity(d)
    <3>1. q \in grow(d, needed) /\ d.nItems <= needed
      BY <1>2, <2>1
    <3>2. Held(q.d) /\ Items(q.d) = Items(d) /\ q.ok \in BOOLEAN
      BY <1>2, <3>1, GrowGives
    <3>3. q.ok => nCapacity(q.d) >= needed
      BY <1>2, <3>1, GrowSound
    <3> QED BY <3>2, <3>3 DEF nCapacity
  <2>2. CASE ~(needed > nCapacity(d)) /\ needed < nCapacity(d) \div 2
    BY <1>2, <2>2, TruncateGives, TruncateSound DEF nCapacity
  <2>3. CASE ~(needed > nCapacity(d)) /\ ~(needed < nCapacity(d) \div 2)
    <3>1. q = Good(d)
      BY <2>3
    <3> QED BY <1>2, <2>3, <3>1 DEF Good, nCapacity
  <2> QED BY <2>1, <2>2, <2>3
<1>4. CASE q.ok
  <2> DEFINE v == q.d.vItems
             w == memcpy(v, 0, s)
  <2>1. v \in Seq(Cell) /\ Len(v) \in Nat /\ 0 + Len(s) <= Len(v) /\ Len(s) <= Len(v)
    BY <1>2, <1>3, <1>4, HeldItems
  <2>2. w \in Seq(Cell) /\ Len(w) = Len(v) /\ \A i \in 1..Len(s) : w[0 + i] = s[i]
    <3> HIDE DEF v
    <3>1. 0 \in Nat
      OBVIOUS
    <3> QED BY <2>1, <3>1, CopyCells
  <2>3. r = Good([nItems |-> Len(s), vItems |-> w])
    BY <1>1, <1>4
  <2> HIDE DEF v, w
  <2>4. \A i \in 1..Len(s) : w[i] = s[i]
    BY <2>2
  <2>5. Held(r.d) /\ Items(r.d) = s /\ r.ok
    BY <1>2, <2>1, <2>2, <2>3, <2>4, HoldsThese DEF Good
  <2> QED BY <2>5
<1> QED BY <1>1, <1>3, <1>4

LEMMA Cut ==
    ASSUME NEW T, NEW s \in Seq(T), NEW k \in 0..Len(s), NEW m \in k..Len(s)
    PROVE  LET t == SubSeq(s, 1, k) \o SubSeq(s, m + 1, Len(s)) IN
           /\ t \in Seq(T) /\ Len(t) = Len(s) - (m - k)
           /\ \A i \in 1..k : t[i] = s[i]
           /\ \A i \in 1..(Len(s) - m) : t[k + i] = s[m + i]
<1> DEFINE a == SubSeq(s, 1, k)
           b == SubSeq(s, m + 1, Len(s))
<1>0. Len(s) \in Nat /\ k \in Nat /\ m \in Nat /\ k <= m /\ m <= Len(s)
  OBVIOUS
<1>1. a \in Seq(T) /\ Len(a) = k /\ \A i \in 1..k : a[i] = s[i]
  OBVIOUS
<1>2. b \in Seq(T) /\ Len(b) = Len(s) - m /\ \A i \in 1..(Len(s) - m) : b[i] = s[m + i]
  <2> DEFINE p == m + 1
  <2>1. p \in 1..(Len(s) + 1) /\ Len(s) \in (p - 1)..Len(s) /\ Len(s) - p + 1 = Len(s) - m
    BY <1>0
  <2>2. b = SubSeq(s, p, Len(s)) /\ \A i \in 1..(Len(s) - m) : p + i - 1 = m + i
    BY <1>0
  <2> HIDE DEF p, b
  <2>3. /\ SubSeq(s, p, Len(s)) \in Seq(T) /\ Len(SubSeq(s, p, Len(s))) = Len(s) - p + 1
        /\ \A i \in 1..(Len(s) - p + 1) : SubSeq(s, p, Len(s))[i] = s[p + i - 1]
    BY <2>1, Slice
  <2> QED BY <2>1, <2>2, <2>3
<1> HIDE DEF a, b
<1>3. a \o b \in Seq(T) /\ Len(a \o b) = k + (Len(s) - m)
      /\ (\A i \in 1..k : (a \o b)[i] = a[i]) /\ \A i \in 1..(Len(s) - m) : (a \o b)[k + i] = b[i]
  <2>1. /\ a \o b \in Seq(T) /\ Len(a \o b) = Len(a) + Len(b)
        /\ \A i \in 1..Len(a) : (a \o b)[i] = a[i]
        /\ \A i \in 1..Len(b) : (a \o b)[Len(a) + i] = b[i]
    <3>1. a \in Seq(T) /\ b \in Seq(T)
      BY <1>1, <1>2
    <3> QED BY <3>1, Joined
  <2> QED BY <1>1, <1>2, <2>1
<1>4. k + (Len(s) - m) = Len(s) - (m - k)
  BY <1>0
<1> QED BY <1>1, <1>2, <1>3, <1>4 DEF a, b

LEMMA WithoutGives ==
    ASSUME NEW d, Held(d), NEW idx \in Nat, NEW n \in Nat, idx + n <= d.nItems
    PROVE  /\ Held(Without(d, idx, n))
           /\ Items(Without(d, idx, n)) =
                SubSeq(Items(d), 1, idx) \o SubSeq(Items(d), idx + n + 1, Len(Items(d)))
<1> DEFINE s == Items(d)
           t == SubSeq(s, 1, idx) \o SubSeq(s, (idx + n) + 1, Len(s))
           v == d.vItems
           last == idx + n
           w == IF last < d.nItems THEN memmove(v, idx, last, d.nItems - last) ELSE v
           left == d.nItems - n
<1>1. /\ d.nItems \in Nat /\ d.nItems <= Len(v) /\ v \in Seq(Cell) /\ Len(v) \in Nat
      /\ s \in Seq(Values) /\ Len(s) = d.nItems /\ \A i \in 1..d.nItems : s[i] = v[i]
  BY HeldItems
<1>2. Without(d, idx, n) = [nItems |-> left, vItems |-> w]
  BY DEF Without
<1>3. /\ idx \in 0..Len(s) /\ last \in idx..Len(s) /\ left \in Nat /\ left <= Len(v) /\ left = Len(s) - (last - idx)
      /\ last \in Nat /\ d.nItems - last \in Nat /\ idx + (d.nItems - last) <= Len(v)
      /\ last + (d.nItems - last) <= Len(v)
  BY <1>1
<1> HIDE DEF s, v, w
<1>4. /\ t \in Seq(Values) /\ Len(t) = left
      /\ \A i \in 1..idx : t[i] = s[i]
      /\ \A i \in 1..(d.nItems - last) : t[idx + i] = s[last + i]
  <2>1. t = SubSeq(s, 1, idx) \o SubSeq(s, last + 1, Len(s))
    OBVIOUS
  <2> HIDE DEF last, left, t
  <2>2. LET u == SubSeq(s, 1, idx) \o SubSeq(s, last + 1, Len(s)) IN
        /\ u \in Seq(Values) /\ Len(u) = Len(s) - (last - idx)
        /\ \A i \in 1..idx : u[i] = s[i]
        /\ \A i \in 1..(Len(s) - last) : u[idx + i] = s[last + i]
    BY <1>1, <1>3, Cut
  <2> QED BY <1>1, <1>3, <2>1, <2>2
<1>5. /\ w \in Seq(Cell) /\ Len(w) = Len(v)
      /\ \A i \in 1..idx : w[i] = v[i]
      /\ \A i \in 1..(d.nItems - last) : w[idx + i] = v[last + i]
  <2> HIDE DEF last
  <2>1. CASE last < d.nItems
    <3>1. w = memmove(v, idx, last, d.nItems - last)
      BY <2>1 DEF w, last
    <3>2. /\ w \in Seq(Cell) /\ Len(w) = Len(v)
          /\ \A i \in 1..Len(v) : i <= idx \/ i > idx + (d.nItems - last) => w[i] = v[i]
          /\ \A i \in 1..(d.nItems - last) : w[idx + i] = v[last + i]
      <4> DEFINE tail == d.nItems - last
      <4>1. /\ v \in Seq(Cell) /\ last \in Nat
            /\ tail \in Nat /\ idx + tail <= Len(v) /\ last + tail <= Len(v)
        BY <1>1, <1>3
      <4>3. w = memmove(v, idx, last, tail)
        BY <3>1
      <4> HIDE DEF tail
      <4> DEFINE moved == memmove(v, idx, last, tail)
      <4>2. /\ moved \in Seq(Cell) /\ Len(moved) = Len(v)
            /\ \A i \in 1..Len(v) : i <= idx \/ i > idx + tail => moved[i] = v[i]
            /\ \A i \in 1..tail : moved[idx + i] = v[last + i]
        <5>1. Moved(moved, v, idx, last, tail)
          BY <4>1, MoveCells
        <5> HIDE DEF moved
        <5> QED BY <5>1 DEF Moved
      <4> HIDE DEF moved
      <4> QED BY <4>2, <4>3 DEF tail, moved
    <3>3. \A i \in 1..idx : i \in 1..Len(v) /\ i <= idx
      BY <1>1, <1>3, SMTT(30)
    <3> QED BY <3>2, <3>3
  <2>2. CASE ~(last < d.nItems)
    <3>1. w = v
      BY <2>2 DEF w, last
    <3>2. 1..(d.nItems - last) = {}
      BY <1>1, <1>3, <2>2, SMTT(30)
    <3> QED BY <1>1, <3>1, <3>2
  <2> QED BY <2>1, <2>2
<1> HIDE DEF t
<1>0. d.nItems \in Nat /\ left \in Nat /\ left = d.nItems - n /\ last = idx + n /\ idx + n <= d.nItems
  BY <1>1
<1>6. ASSUME NEW i \in 1..left PROVE w[i] = t[i]
  <2>1. CASE i <= idx
    <3>1. i \in 1..idx /\ i \in 1..d.nItems
      BY <1>0, <2>1
    <3>2. w[i] = v[i] /\ t[i] = s[i] /\ s[i] = v[i]
      BY <1>1, <1>4, <1>5, <3>1
    <3> QED BY <3>2
  <2>2. CASE i > idx
    <3>1. i - idx \in 1..(d.nItems - last) /\ idx + (i - idx) = i /\ last + (i - idx) \in 1..d.nItems
      BY <1>0, <2>2
    <3>2. w[idx + (i - idx)] = v[last + (i - idx)] /\ t[idx + (i - idx)] = s[last + (i - idx)]
      BY <1>4, <1>5, <3>1
    <3>3. v[last + (i - idx)] = s[last + (i - idx)]
      BY <1>1, <3>1
    <3> QED BY <3>1, <3>2, <3>3
  <2> QED BY <1>0, <2>1, <2>2
<1> HIDE DEF t, left
<1>7. Held(Without(d, idx, n)) /\ Items(Without(d, idx, n)) = t
  BY <1>2, <1>3, <1>4, <1>5, <1>6, HoldsThese
<1> QED BY <1>7 DEF t, s

LEMMA CopiedGives ==
    ASSUME NEW d, Held(d), NEW dst \in Nat, NEW t \in Seq(Values), dst + Len(t) <= d.nItems,
           NEW e, e = [nItems |-> d.nItems, vItems |-> memcpy(d.vItems, dst, t)]
    PROVE  /\ Held(e)
           /\ Items(e) = [i \in DOMAIN Items(d) |-> IF i - dst \in DOMAIN t THEN t[i - dst] ELSE Items(d)[i]]
<1> DEFINE s == Items(d)
           u == [i \in DOMAIN s |-> IF i - dst \in DOMAIN t THEN t[i - dst] ELSE s[i]]
           v == d.vItems
           w == memcpy(v, dst, t)
<1>1. /\ d.nItems \in Nat /\ d.nItems <= Len(v) /\ v \in Seq(Cell) /\ Len(v) \in Nat /\ Len(t) \in Nat
      /\ d = [nItems |-> d.nItems, vItems |-> v]
      /\ s \in Seq(Values) /\ Len(s) = d.nItems /\ \A i \in 1..d.nItems : s[i] = v[i]
  BY HeldItems
<1>2. e = [nItems |-> d.nItems, vItems |-> w]
  BY <1>1
<1>3. DOMAIN s = 1..d.nItems /\ DOMAIN v = 1..Len(v)
  BY <1>1
<1>4. u \in Seq(Values) /\ Len(u) = d.nItems
  <2>1. \A i \in 1..d.nItems : s[i] \in Values
    BY <1>1
  <2>2. \A i \in DOMAIN t : t[i] \in Values
    OBVIOUS
  <2>3. u \in [1..d.nItems -> Values]
    BY <1>3, <2>1, <2>2
  <2> HIDE DEF u
  <2> QED BY <1>1, <2>3, FunctionIsSequence
<1>5. w \in Seq(Cell) /\ Len(w) = Len(v)
  BY <1>1, CopyCells
<1>6. ASSUME NEW i \in 1..d.nItems PROVE w[i] = u[i]
  <2>1. i \in DOMAIN v /\ i \in DOMAIN s /\ s[i] = v[i]
    BY <1>1, <1>3
  <2>2. w[i] = IF i - dst \in DOMAIN t THEN t[i - dst] ELSE v[i]
    BY <2>1 DEF memcpy
  <2> QED BY <2>1, <2>2
<1> HIDE DEF u, w, v
<1>7. Held(e) /\ Items(e) = u
  BY <1>1, <1>2, <1>4, <1>5, <1>6, HoldsThese
<1> QED BY <1>7 DEF u

(* t is s with m put behind its element k.                                 *)
IsSpliced(t, T, s, m, k) ==
    /\ t \in Seq(T) /\ Len(t) = Len(s) + Len(m)
    /\ \A i \in 1..k : t[i] = s[i]
    /\ \A i \in 1..Len(m) : t[k + i] = m[i]
    /\ \A i \in 1..(Len(s) - k) : t[(k + Len(m)) + i] = s[k + i]

LEMMA Spliced ==
    ASSUME NEW T, NEW s \in Seq(T), NEW m \in Seq(T), NEW k \in 0..Len(s)
    PROVE  IsSpliced(SubSeq(s, 1, k) \o m \o SubSeq(s, k + 1, Len(s)), T, s, m, k)
<1> DEFINE a == SubSeq(s, 1, k)
           b == SubSeq(s, k + 1, Len(s))
           f == a \o m
<1>0. Len(s) \in Nat /\ Len(m) \in Nat /\ k \in Nat /\ k <= Len(s)
  OBVIOUS
<1>1. a \in Seq(T) /\ Len(a) = k /\ \A i \in 1..k : a[i] = s[i]
  OBVIOUS
<1>2. b \in Seq(T) /\ Len(b) = Len(s) - k /\ \A i \in 1..(Len(s) - k) : b[i] = s[k + i]
  <2> DEFINE p == k + 1
  <2>1. p \in 1..(Len(s) + 1) /\ Len(s) \in (p - 1)..Len(s) /\ Len(s) - p + 1 = Len(s) - k
    BY <1>0
  <2>2. b = SubSeq(s, p, Len(s)) /\ \A i \in 1..(Len(s) - k) : p + i - 1 = k + i
    BY <1>0
  <2> HIDE DEF p, b
  <2>3. /\ SubSeq(s, p, Len(s)) \in Seq(T) /\ Len(SubSeq(s, p, Len(s))) = Len(s) - p + 1
        /\ \A i \in 1..(Len(s) - p + 1) : SubSeq(s, p, Len(s))[i] = s[p + i - 1]
    BY <2>1, Slice
  <2> QED BY <2>1, <2>2, <2>3
<1> HIDE DEF a, b
<1>3. /\ f \in Seq(T) /\ Len(f) = k + Len(m)
      /\ \A i \in 1..k : f[i] = s[i]
      /\ \A i \in 1..Len(m) : f[k + i] = m[i]
  <2>1. a \in Seq(T)
    BY <1>1
  <2>2. /\ f \in Seq(T) /\ Len(f) = Len(a) + Len(m)
        /\ \A i \in 1..Len(a) : f[i] = a[i]
        /\ \A i \in 1..Len(m) : f[Len(a) + i] = m[i]
    BY <2>1, Joined
  <2> HIDE DEF f
  <2> QED BY <1>1, <2>2
<1> HIDE DEF f
<1>4. /\ f \o b \in Seq(T) /\ Len(f \o b) = Len(f) + Len(b)
      /\ \A i \in 1..Len(f) : (f \o b)[i] = f[i]
      /\ \A i \in 1..Len(b) : (f \o b)[Len(f) + i] = b[i]
  <2>1. f \in Seq(T) /\ b \in Seq(T)
    BY <1>2, <1>3
  <2> QED BY <2>1, Joined
<1> DEFINE t == f \o b
<1>5. /\ t \in Seq(T) /\ Len(t) = Len(f) + Len(b)
      /\ \A i \in 1..Len(f) : t[i] = f[i]
      /\ \A i \in 1..Len(b) : t[Len(f) + i] = b[i]
  BY <1>4
<1> HIDE DEF t
<1>6. /\ t \in Seq(T) /\ Len(t) = Len(s) + Len(m)
      /\ \A i \in 1..k : t[i] = s[i]
      /\ \A i \in 1..Len(m) : t[k + i] = m[i]
      /\ \A i \in 1..(Len(s) - k) : t[(k + Len(m)) + i] = s[k + i]
  <2>1. Len(f) = k + Len(m) /\ Len(b) = Len(s) - k
    BY <1>2, <1>3
  <2>2. Len(t) = Len(s) + Len(m)
    BY <1>0, <1>5, <2>1
  <2>3. \A i \in 1..k : i \in 1..Len(f)
    BY <1>0, <2>1
  <2>4. \A i \in 1..Len(m) : k + i \in 1..Len(f)
    BY <1>0, <2>1
  <2> QED BY <1>2, <1>3, <1>5, <2>1, <2>2, <2>3, <2>4
<1> QED BY <1>6 DEF t, f, a, b, IsSpliced

(* The cells after an insertion: those in front, the new ones, those behind. *)
InsertedCells(w, v, nItems, index, s) ==
    /\ w \in Seq(Cell) /\ Len(w) = Len(v)
    /\ \A i \in 1..index : w[i] = v[i]
    /\ \A i \in 1..Len(s) : w[index + i] = s[i]
    /\ \A i \in 1..(nItems - index) : w[(index + Len(s)) + i] = v[index + i]

LEMMA InsertCells ==
    ASSUME NEW v \in Seq(Cell), NEW nItems \in Nat, NEW index \in Nat, index <= nItems,
           NEW s \in Seq(Values), nItems + Len(s) <= Len(v)
    PROVE  InsertedCells(
                memcpy(IF index < nItems THEN memmove(v, index + Len(s), index, nItems - index) ELSE v, index, s),
                v, nItems, index, s)
<1> DEFINE m == Len(s)
           tail == nItems - index
           up == index + m
           u == IF index < nItems THEN memmove(v, up, index, tail) ELSE v
           w == memcpy(u, index, s)
<1>1. /\ m \in Nat /\ Len(v) \in Nat /\ tail \in Nat /\ up \in Nat
      /\ up + tail <= Len(v) /\ index + tail <= Len(v) /\ index + m <= Len(v)
      /\ tail = nItems - index /\ up = index + m
  OBVIOUS
<1> HIDE DEF m, tail, up
<1>2. /\ u \in Seq(Cell) /\ Len(u) = Len(v)
      /\ \A i \in 1..index : u[i] = v[i]
      /\ \A i \in 1..tail : u[up + i] = v[index + i]
  <2>1. CASE index < nItems
    <3> DEFINE moved == memmove(v, up, index, tail)
    <3>1. /\ moved \in Seq(Cell) /\ Len(moved) = Len(v)
          /\ \A i \in 1..Len(v) : i <= up \/ i > up + tail => moved[i] = v[i]
          /\ \A i \in 1..tail : moved[up + i] = v[index + i]
      <4>1. tail \in Nat /\ up \in Nat /\ up + tail <= Len(v) /\ index + tail <= Len(v)
        BY <1>1
      <4>2. Moved(moved, v, up, index, tail)
        BY <4>1, MoveCells
      <4> HIDE DEF moved
      <4> QED BY <4>2 DEF Moved
    <3>2. u = moved
      BY <2>1
    <3> HIDE DEF moved, u
    <3>3. \A i \in 1..index : i \in 1..Len(v) /\ i <= up
      BY <1>1
    <3> QED BY <3>1, <3>2, <3>3
  <2>2. CASE ~(index < nItems)
    <3>1. u = v /\ 1..tail = {}
      BY <1>1, <2>2
    <3> HIDE DEF u
    <3> QED BY <3>1
  <2> QED BY <2>1, <2>2
<1> HIDE DEF u
<1>3. /\ w \in Seq(Cell) /\ Len(w) = Len(u)
      /\ \A i \in 1..Len(u) : i <= index \/ i > index + m => w[i] = u[i]
      /\ \A i \in 1..m : w[index + i] = s[i]
  <2>1. u \in Seq(Cell) /\ index + Len(s) <= Len(u)
    BY <1>1, <1>2 DEF m
  <2> QED BY <2>1, CopyCells DEF m
<1> HIDE DEF w
<1>4. ASSUME NEW i \in 1..index PROVE w[i] = v[i]
  <2>1. i \in 1..Len(u) /\ i <= index
    BY <1>1, <1>2
  <2> QED BY <1>2, <1>3, <2>1
<1>5. ASSUME NEW i \in 1..tail PROVE w[up + i] = v[index + i]
  <2>1. up + i \in 1..Len(u) /\ up + i > index + m
    BY <1>1, <1>2
  <2>2. w[up + i] = u[up + i] /\ u[up + i] = v[index + i]
    BY <1>2, <1>3, <2>1
  <2> QED BY <2>2
<1>6. /\ w \in Seq(Cell) /\ Len(w) = Len(v)
      /\ \A i \in 1..index : w[i] = v[i]
      /\ \A i \in 1..m : w[index + i] = s[i]
      /\ \A i \in 1..tail : w[up + i] = v[index + i]
  BY <1>2, <1>3, <1>4, <1>5
<1> QED BY <1>6 DEF w, u, m, tail, up, InsertedCells

LEMMA InsertGives ==
    ASSUME NEW d, Held(d), NEW index \in Nat, index <= d.nItems,
           NEW s \in Seq(Values), NEW r \in insert(d, index, s)
    PROVE  /\ Held(r.d)
           /\ r.ok \in BOOLEAN
           /\ Items(r.d) = IF r.ok THEN SubSeq(Items(d), 1, index) \o s \o SubSeq(Items(d), index + 1, Len(Items(d)))
                           ELSE Items(d)
<1> DEFINE Opened(e) ==
        IF index < e.nItems THEN memmove(e.vItems, index + Len(s), index, e.nItems - index) ELSE e.vItems
<1>1. PICK q \in MakeRoom(d, Len(s)) :
        r = IF q.ok THEN Good([nItems |-> q.d.nItems + Len(s), vItems |-> memcpy(Opened(q.d), index, s)])
            ELSE q
  BY DEF insert
<1>2. /\ Held(q.d) /\ Items(q.d) = Items(d) /\ Len(s) \in Nat /\ q.ok \in BOOLEAN
      /\ q.d.nItems = d.nItems /\ (q.ok => d.nItems + Len(s) <= Len(q.d.vItems))
  BY RoomGives
<1>3. CASE q.ok
  <2> DEFINE n == d.nItems
             v == q.d.vItems
             m == Len(s)
             w == memcpy(IF index < n THEN memmove(v, index + m, index, n - index) ELSE v, index, s)
             t == SubSeq(Items(d), 1, index) \o s \o SubSeq(Items(d), index + 1, Len(Items(d)))
             e == [nItems |-> n + m, vItems |-> w]
  <2>1. /\ n \in Nat /\ n <= Len(v) /\ v \in Seq(Cell) /\ Len(v) \in Nat /\ n + m <= Len(v)
        /\ Items(d) \in Seq(Values) /\ Len(Items(d)) = n /\ index <= n
        /\ \A i \in 1..n : Items(d)[i] = v[i]
    BY <1>2, <1>3, HeldItems
  <2>2. /\ w \in Seq(Cell) /\ Len(w) = Len(v)
        /\ \A i \in 1..index : w[i] = v[i]
        /\ \A i \in 1..m : w[index + i] = s[i]
        /\ \A i \in 1..(n - index) : w[(index + m) + i] = v[index + i]
    <3> HIDE DEF n, v
    <3>1. v \in Seq(Cell) /\ n \in Nat /\ index <= n /\ n + Len(s) <= Len(v)
      BY <2>1
    <3>2. InsertedCells(w, v, n, index, s)
      BY <3>1, InsertCells
    <3> HIDE DEF w
    <3> QED BY <3>2 DEF InsertedCells
  <2>3. /\ t \in Seq(Values) /\ Len(t) = n + m
        /\ \A i \in 1..index : t[i] = Items(d)[i]
        /\ \A i \in 1..m : t[index + i] = s[i]
        /\ \A i \in 1..(n - index) : t[(index + m) + i] = Items(d)[index + i]
    <3> HIDE DEF n, v
    <3>1. Items(d) \in Seq(Values) /\ index \in 0..Len(Items(d)) /\ Len(Items(d)) = n
      BY <2>1
    <3>2. IsSpliced(t, Values, Items(d), s, index)
      BY <3>1, Spliced
    <3> HIDE DEF t
    <3> QED BY <3>1, <3>2 DEF IsSpliced
  <2>4. r = Good(e)
    BY <1>1, <1>2, <1>3
  <2>5. m \in Nat
    BY <1>2
  <2> HIDE DEF n, v, w, t, m
  <2>6. ASSUME NEW i \in 1..(n + m) PROVE w[i] = t[i]
    <3>1. CASE i <= index
      <4>1. i \in 1..index /\ i \in 1..n
        BY <2>1, <3>1
      <4>2. w[i] = v[i] /\ t[i] = Items(d)[i] /\ Items(d)[i] = v[i]
        BY <2>1, <2>2, <2>3, <4>1
      <4> QED BY <4>2
    <3>2. CASE i > index /\ i <= index + m
      <4>1. i - index \in 1..m /\ index + (i - index) = i
        BY <2>5, <3>2
      <4>2. w[index + (i - index)] = s[i - index] /\ t[index + (i - index)] = s[i - index]
        BY <2>2, <2>3, <4>1
      <4> QED BY <4>1, <4>2
    <3>3. CASE i > index + m
      <4> DEFINE j == i - (index + m)
      <4>1. j \in 1..(n - index) /\ (index + m) + j = i /\ index + j \in 1..n
        BY <2>1, <2>5, <3>3
      <4> HIDE DEF j
      <4>2. w[(index + m) + j] = v[index + j] /\ t[(index + m) + j] = Items(d)[index + j]
        BY <2>2, <2>3, <4>1
      <4>3. Items(d)[index + j] = v[index + j]
        BY <2>1, <4>1
      <4> QED BY <4>1, <4>2, <4>3
    <3>4. i \in Int /\ index + m \in Int
      BY <2>1, <2>5
    <3> QED BY <3>1, <3>2, <3>3, <3>4
  <2>7. n + m \in Nat /\ n + m <= Len(w)
    BY <2>1, <2>2, <2>5
  <2>8. Held(e) /\ Items(e) = t
    BY <2>2, <2>3, <2>6, <2>7, HoldsThese
  <2>9. r.d = e /\ r.ok
    BY <2>4 DEF Good
  <2> QED BY <2>8, <2>9 DEF t
<1> QED BY <1>1, <1>2, <1>3

LEMMA QuickGives ==
    ASSUME NEW d, Held(d), NEW idx \in Nat, idx < d.nItems, NEW size, size = d.nItems - 1,
           NEW e, e = [nItems |-> size,
                       vItems |-> IF idx < size THEN memmove(d.vItems, idx, size, 1) ELSE d.vItems]
    PROVE  LET s == Items(d) IN
           /\ Held(e) /\ Items(e) = Front([s EXCEPT ![idx + 1] = s[Len(s)]])
           /\ Part(d, idx, 1) = <<s[idx + 1]>>
<1> DEFINE s == Items(d)
           v == d.vItems
           w == IF idx < size THEN memmove(v, idx, size, 1) ELSE v
           u == [s EXCEPT ![idx + 1] = s[Len(s)]]
           t == SubSeq(u, 1, Len(u) - 1)
<1>1. /\ d.nItems \in Nat /\ d.nItems <= Len(v) /\ v \in Seq(Cell) /\ Len(v) \in Nat
      /\ s \in Seq(Values) /\ Len(s) = d.nItems /\ \A i \in 1..d.nItems : s[i] = v[i]
  BY HeldItems
<1>2. size \in Nat /\ size + 1 = d.nItems /\ size + 1 <= Len(v) /\ idx <= size
  BY <1>1
<1>3. u \in Seq(Values) /\ Len(u) = d.nItems
      /\ \A i \in 1..d.nItems : u[i] = IF i = idx + 1 THEN s[size + 1] ELSE s[i]
  <2>1. DOMAIN s = 1..d.nItems /\ idx + 1 \in 1..d.nItems /\ s[Len(s)] \in Values /\ Len(s) = size + 1
    BY <1>1, <1>2
  <2> HIDE DEF s
  <2> QED BY <1>1, <2>1
<1> HIDE DEF u
<1>4. t \in Seq(Values) /\ Len(t) = size /\ \A i \in 1..size : t[i] = u[i]
  <2>1. Len(u) - 1 = size /\ size \in Nat /\ size <= Len(u)
    BY <1>1, <1>2, <1>3
  <2>2. SubSeq(u, 1, size) \in Seq(Values) /\ Len(SubSeq(u, 1, size)) = size
        /\ \A i \in 1..size : SubSeq(u, 1, size)[i] = u[i]
    BY <1>3, <2>1
  <2> QED BY <2>1, <2>2
<1> HIDE DEF t
<1>5. /\ w \in Seq(Cell) /\ Len(w) = Len(v)
      /\ \A i \in 1..size : w[i] = IF i = idx + 1 THEN v[size + 1] ELSE v[i]
  <2>1. CASE idx < size
    <3> DEFINE moved == memmove(v, idx, size, 1)
    <3>1. idx + 1 <= Len(v) /\ size + 1 <= Len(v) /\ 1 \in Nat
      BY <1>1, <1>2
    <3>2. /\ moved \in Seq(Cell) /\ Len(moved) = Len(v)
          /\ \A i \in 1..Len(v) : i <= idx \/ i > idx + 1 => moved[i] = v[i]
          /\ \A i \in 1..1 : moved[idx + i] = v[size + i]
      <4>1. v \in Seq(Cell) /\ size \in Nat
        BY <1>1, <1>2
      <4> HIDE DEF v
      <4>2. Moved(moved, v, idx, size, 1)
        BY <3>1, <4>1, MoveCells
      <4> HIDE DEF moved
      <4> QED BY <4>2 DEF Moved
    <3>3. w = moved
      BY <2>1
    <3> HIDE DEF moved, w
    <3>4. moved[idx + 1] = v[size + 1]
      BY <3>2
    <3>5. \A i \in 1..size : i \in 1..Len(v) /\ (i # idx + 1 => i <= idx \/ i > idx + 1)
      BY <1>1, <1>2
    <3> QED BY <3>2, <3>3, <3>4, <3>5
  <2>2. CASE ~(idx < size)
    <3>1. w = v /\ \A i \in 1..size : i # idx + 1
      BY <1>2, <2>2
    <3> HIDE DEF w
    <3> QED BY <1>1, <3>1
  <2> QED BY <2>1, <2>2
<1>6. e = [nItems |-> size, vItems |-> w]
  OBVIOUS
<1> HIDE DEF w, v, s
<1>7. ASSUME NEW i \in 1..size PROVE w[i] = t[i]
  <2>1. i \in 1..d.nItems /\ size + 1 \in 1..d.nItems
    BY <1>2
  <2>2. w[i] = IF i = idx + 1 THEN v[size + 1] ELSE v[i]
    BY <1>5
  <2>3. t[i] = IF i = idx + 1 THEN s[size + 1] ELSE s[i]
    BY <1>3, <1>4, <2>1
  <2>4. s[i] = v[i] /\ s[size + 1] = v[size + 1]
    BY <1>1, <2>1
  <2> QED BY <2>2, <2>3, <2>4
<1>8. size <= Len(w)
  BY <1>1, <1>2, <1>5
<1>9. Held(e) /\ Items(e) = t
  BY <1>2, <1>4, <1>5, <1>6, <1>7, <1>8, HoldsThese
<1>10. Part(d, idx, 1) = <<s[idx + 1]>>
  <2>1. idx + 1 \in 1..d.nItems /\ idx + 1 \in DOMAIN d.vItems
    BY <1>1, <1>2 DEF v
  <2>2. s[idx + 1] = d.vItems[idx + 1]
    BY <1>1, <2>1 DEF v
  <2> QED BY <2>1, <2>2 DEF Part
<1> QED BY <1>9, <1>10 DEF t, u, s, Front

Exchanged(s, i, j) == [s EXCEPT ![i + 1] = s[j + 1], ![j + 1] = s[i + 1]]

LEMMA ExchangeGives ==
    ASSUME NEW d, Held(d), NEW i \in Nat, NEW j \in Nat, i < d.nItems, j < d.nItems,
           NEW v, v = d.vItems,
           NEW e, e = [nItems |-> d.nItems, vItems |-> Exchanged(v, i, j)]
    PROVE  Held(e) /\ Items(e) = Exchanged(Items(d), i, j)
<1> DEFINE s == Items(d)
           w == [v EXCEPT ![i + 1] = v[j + 1], ![j + 1] = v[i + 1]]
           t == [s EXCEPT ![i + 1] = s[j + 1], ![j + 1] = s[i + 1]]
<1>1. /\ d.nItems \in Nat /\ d.nItems <= Len(v) /\ v \in Seq(Cell) /\ Len(v) \in Nat
      /\ d = [nItems |-> d.nItems, vItems |-> v]
      /\ s \in Seq(Values) /\ Len(s) = d.nItems /\ \A k \in 1..d.nItems : s[k] = v[k]
  BY HeldItems
<1>2. i + 1 \in 1..d.nItems /\ j + 1 \in 1..d.nItems
  BY <1>1
<1>3. \A k \in 1..d.nItems : k \in 1..Len(v)
  BY <1>1
<1> HIDE DEF s
<1>4. w \in Seq(Cell) /\ Len(w) = Len(v)
      /\ \A k \in 1..Len(v) : w[k] = IF k = j + 1 THEN v[i + 1] ELSE IF k = i + 1 THEN v[j + 1] ELSE v[k]
  <2>1. DOMAIN v = 1..Len(v) /\ i + 1 \in 1..Len(v) /\ j + 1 \in 1..Len(v) /\ v[i + 1] \in Cell /\ v[j + 1] \in Cell
    BY <1>1, <1>2, <1>3
  <2> QED BY <1>1, <2>1
<1>5. t \in Seq(Values) /\ Len(t) = d.nItems
      /\ \A k \in 1..d.nItems : t[k] = IF k = j + 1 THEN s[i + 1] ELSE IF k = i + 1 THEN s[j + 1] ELSE s[k]
  <2>1. DOMAIN s = 1..d.nItems /\ s[i + 1] \in Values /\ s[j + 1] \in Values
    BY <1>1, <1>2
  <2> QED BY <1>1, <1>2, <2>1
<1>6. e = [nItems |-> d.nItems, vItems |-> w]
  BY DEF Exchanged
<1> HIDE DEF w, t
<1>7. \A k \in 1..d.nItems : w[k] = t[k]
  BY <1>1, <1>2, <1>3, <1>4, <1>5
<1>8. d.nItems <= Len(w)
  BY <1>1, <1>4
<1>9. Held(e) /\ Items(e) = t
  <2>1. d.nItems \in Nat /\ w \in Seq(Cell) /\ t \in Seq(Values) /\ Len(t) = d.nItems
    BY <1>1, <1>4, <1>5
  <2> QED BY <2>1, <1>6, <1>7, <1>8, HoldsThese
<1> QED BY <1>9 DEF t, s, Exchanged

LEMMA SortGives ==
    ASSUME NEW d, Held(d), NEW t \in Sorted(Items(d)), NEW e, e = [nItems |-> d.nItems, vItems |-> memcpy(d.vItems, 0, t)]
    PROVE  Held(e) /\ Items(e) = t /\ t \in Seq(Values)
<1> DEFINE s == Items(d)
<1>1. d.nItems \in Nat /\ s \in Seq(Values) /\ Len(s) = d.nItems /\ DOMAIN s = 1..d.nItems
  BY HeldItems
<1>2. t \in [1..d.nItems -> {s[i] : i \in DOMAIN s}]
  BY <1>1 DEF Sorted
<1> HIDE DEF s
<1>3. {s[i] : i \in DOMAIN s} \subseteq Values
  BY <1>1
<1>4. t \in [1..d.nItems -> Values]
  BY <1>2, <1>3
<1>5. t \in Seq(Values) /\ Len(t) = d.nItems /\ DOMAIN t = 1..d.nItems
  BY <1>1, <1>4, FunctionIsSequence
<1>6. 0 \in Nat /\ 0 + Len(t) <= d.nItems
  BY <1>1, <1>5
<1>7. /\ Held(e)
      /\ Items(e) = [i \in DOMAIN Items(d) |-> IF i - 0 \in DOMAIN t THEN t[i - 0] ELSE Items(d)[i]]
  <2> DEFINE z == 0
  <2>1. z \in Nat /\ z + Len(t) <= d.nItems /\ t \in Seq(Values)
    BY <1>5, <1>6
  <2>2. e = [nItems |-> d.nItems, vItems |-> memcpy(d.vItems, z, t)]
    OBVIOUS
  <2> HIDE DEF z
  <2>3. /\ Held(e)
        /\ Items(e) = [i \in DOMAIN Items(d) |-> IF i - z \in DOMAIN t THEN t[i - z] ELSE Items(d)[i]]
    BY <2>1, <2>2, CopiedGives
  <2> QED BY <2>3 DEF z
<1>8. \A i \in 1..d.nItems : i - 0 = i
  BY <1>1
<1>9. Items(e) = [i \in 1..d.nItems |-> t[i]]
  BY <1>1, <1>5, <1>7, <1>8 DEF s
<1>10. t = [i \in 1..d.nItems |-> t[i]]
  BY <1>4
<1> QED BY <1>5, <1>7, <1>9, <1>10

-----------------------------------------------------------------------------
(* The steps.                                                              *)
AllSound ==
    /\ arr = [a \in Names |-> arr[a]]
    /\ \A a \in Names : Sound(arr[a])

LEMMA OneChanges ==
    ASSUME AllSound, NEW a \in Names, NEW d, Sound(d), arr' = [arr EXCEPT ![a] = d]
    PROVE  AllSound'
  BY DEF AllSound

LEMMA BecomesSound ==
    ASSUME AllSound, NEW a \in Names, NEW outcomes, \A r \in outcomes : Sound(r.d),
           NEW c, Becomes(a, outcomes, c)
    PROVE  AllSound'
  BY OneChanges DEF Becomes

LEMMA RefuseSound == ASSUME AllSound, NEW c, Refuse(c) PROVE AllSound'
  BY DEF Refuse, AllSound

(* Lengths of what clients give.                                           *)
LEMMA GivenLength ==
    ASSUME AllSound, NEW a \in Names, NEW s \in Given(a)
    PROVE  Len(s) \in Nat
<1>1. CASE s \in Sources
  BY <1>1, ArrayAssumption
<1>2. CASE \E b \in Names : s = Items(arr[b])
  BY <1>2, PartLength DEF Items, AllSound, Sound
<1> QED BY <1>1, <1>2 DEF Given

LEMMA RemoveSound ==
    ASSUME AllSound, NEW a \in Names, NEW idx \in Nat, NEW n \in Nat, iremove(a, idx, n)
    PROVE  AllSound'
<1>1. CASE idx + n > arr[a].nItems
  BY <1>1, RefuseSound DEF iremove
<1>2. CASE ~(idx + n > arr[a].nItems)
  <2>1. Sound(Without(arr[a], idx, n))
    BY <1>2, WithoutSound DEF AllSound, Sound
  <2> QED BY <1>2, <2>1, OneChanges DEF iremove, Lose
<1> QED BY <1>1, <1>2

LEMMA QuickSound ==
    ASSUME AllSound, NEW a \in Names, NEW idx \in Nat, qremove(a, idx) \/ QRemove(a, idx)
    PROVE  AllSound'
<1> DEFINE d == arr[a]
           e == Plugged(d, idx)
<1>0. Sound(d)
  BY DEF AllSound
<1>1. CASE idx >= d.nItems
  BY <1>1, RefuseSound DEF qremove, QRemove
<1>2. CASE ~(idx >= d.nItems)
  <2>1. Block(e.vItems) /\ Len(e.vItems) = Len(d.vItems)
    BY <1>0, MoveBlock DEF Sound, Plugged
  <2>2. d.nItems - 1 \in Nat /\ d.nItems - 1 <= Len(d.vItems)
    BY <1>0, <1>2 DEF Sound, Block
  <2>3. Sound(e)
    BY <2>1, <2>2 DEF Sound, Plugged
  <2>4. arr' = [arr EXCEPT ![a] = e]
    BY <1>2 DEF qremove, QRemove, Lose
  <2> QED BY <2>3, <2>4, OneChanges
<1> QED BY <1>1, <1>2

LEMMA LeastOfNaturals ==
    ASSUME NEW T \in SUBSET Nat, T # {}
    PROVE  Min(T) \in T
<1>1. IsWellFoundedOn(OpToRel(<, Nat), Nat)
  BY NatLessThanWellFounded
<1>2. PICK least \in T : \A other \in T : ~(<<other, least>> \in OpToRel(<, Nat))
  BY <1>1, WFMin
<1>3. \A other \in T : ~(other < least)
  BY <1>2 DEF OpToRel
<1>4. \A other \in T : least <= other
  BY <1>3
<1> QED BY <1>4 DEF Min

LEMMA IndexInside ==
    ASSUME NEW d, Sound(d), NEW v, ~(index_of(d, v) < 0)
    PROVE  index_of(d, v) \in Nat
<1> DEFINE found == {i \in 0..(d.nItems - 1) : d.vItems[i + 1] = v}
<1>1. CASE found = {}
  BY <1>1 DEF index_of
<1>2. CASE found # {}
  <2>1. found \in SUBSET Nat
    BY DEF Sound
  <2>2. index_of(d, v) = Min(found)
    BY <1>2 DEF index_of
  <2> QED BY <1>2, <2>1, <2>2, LeastOfNaturals
<1> QED BY <1>1, <1>2

LEMMA AddressSound ==
    ASSUME ~PastEnd, AllSound, NEW a \in Names, NEW off \in Nat, NEW n \in Nat,
           premove(a, off, n)
    PROVE  AllSound'
<1> DEFINE d == Without(arr[a], off, n)
<1>1. off + n <= arr[a].nItems
  BY DEF premove
<1>2. CASE off >= arr[a].nItems
  BY <1>2, RefuseSound DEF premove
<1>3. CASE ~(off >= arr[a].nItems)
  <2>1. Sound(d)
    BY <1>1, WithoutSound DEF AllSound
  <2>2. d.nItems % SizeMod \in Nat /\ d.nItems % SizeMod <= d.nItems
    BY <2>1, ModBelow, ArrayAssumption DEF Sound
  <2>3. Sound([d EXCEPT !.nItems = @ % SizeMod])
    BY <2>1, <2>2, FewerSound
  <2>4. arr' = [arr EXCEPT ![a] = [d EXCEPT !.nItems = @ % SizeMod]]
    BY <1>3 DEF premove, Lose
  <2> QED BY <2>3, <2>4, OneChanges
<1> QED BY <1>2, <1>3

LEMMA MoveSound ==
    ASSUME AllSound, NEW a \in Names, NEW b \in Names, a # b,
           NEW idx \in Nat, NEW n \in Nat, MoveTo(a, idx, n, b)
    PROVE  AllSound'
<1>1. CASE idx + n > arr[a].nItems
  BY <1>1, RefuseSound DEF MoveTo
<1>2. CASE ~(idx + n > arr[a].nItems)
  <2>1. PICK r \in append(arr[b], Part(arr[a], idx, n)) :
          arr' = [arr EXCEPT ![b] = r.d, ![a] = IF r.ok THEN Without(@, idx, n) ELSE @]
    BY <1>2 DEF MoveTo
  <2>2. Sound(r.d)
    BY <2>1, PartLength, AppendSound DEF AllSound
  <2>3. Sound(Without(arr[a], idx, n))
    BY <1>2, WithoutSound DEF AllSound, Sound
  <2> QED BY <2>1, <2>2, <2>3 DEF AllSound
<1> QED BY <1>1, <1>2

LEMMA PopSound ==
    ASSUME AllSound, NEW a \in Names, NEW n \in Nat, pop(a, n)
    PROVE  AllSound'
<1> DEFINE size == arr[a].nItems - n
<1>1. CASE size < 0
  BY <1>1, RefuseSound DEF pop
<1>2. CASE ~(size < 0)
  <2>1. size \in Nat /\ size <= arr[a].nItems
    BY <1>2 DEF AllSound, Sound
  <2>2. Sound([arr[a] EXCEPT !.nItems = size])
    BY <2>1, FewerSound DEF AllSound
  <2> QED BY <1>2, <2>2, OneChanges DEF pop, Lose
<1> QED BY <1>1, <1>2

LEMMA ExchangeSound ==
    ASSUME AllSound, NEW a \in Names, NEW i \in Nat, NEW j \in Nat, xswap(a, i, j)
    PROVE  AllSound'
<1> DEFINE v == arr[a].vItems
           w == [v EXCEPT ![i + 1] = v[j + 1], ![j + 1] = v[i + 1]]
<1>0. Sound(arr[a]) /\ Block(v)
  BY DEF AllSound, Sound
<1>1. CASE i >= arr[a].nItems \/ j >= arr[a].nItems
  BY <1>1, RefuseSound DEF xswap
<1>2. CASE ~(i >= arr[a].nItems \/ j >= arr[a].nItems)
  <2>1. DOMAIN w = 1..Len(v) /\ w = [k \in 1..Len(v) |-> w[k]]
    BY <1>0 DEF Block
  <2>2. Block(w) /\ Len(w) = Len(v)
    BY <1>0, <2>1, FunctionIsBlock DEF Block
  <2>3. [arr[a] EXCEPT !.vItems = w] = [nItems |-> arr[a].nItems, vItems |-> w]
    BY <1>0 DEF Sound
  <2>4. Sound([arr[a] EXCEPT !.vItems = w])
    BY <1>0, <2>2, <2>3 DEF Sound
  <2>5. Becomes(a, {Good([arr[a] EXCEPT !.vItems = w])}, Called("xswap", a, i, j, << >>, a))
    BY <1>2 DEF xswap
  <2> HIDE DEF w
  <2> QED BY <2>4, <2>5, BecomesSound DEF Good
<1> QED BY <1>1, <1>2

(* Every method leaves every array sound.                                  *)
LEMMA NextSound ==
    ASSUME ~PastEnd, ~ShrinkReserve, AllSound, Next
    PROVE  AllSound'
<1>1. PICK a \in Names :
        LET places == 0..(arr[a].nItems + 1)
            others == Names \ {a}
        IN  \/ \E s \in Given(a) : Append_(a, s) \/ Assign(a, s)
            \/ \E at \in places, s \in Given(a) : Insert(a, at, s) \/ Write(a, at, s)
            \/ \E at \in places, n \in places : iremove(a, at, n) \/ premove(a, at, n) \/ xswap(a, at, n)
            \/ \E n \in places : pop(a, n) \/ qremove(a, n) \/ QRemove(a, n) \/ Truncate(a, n)
            \/ \E n \in places, b \in others : \E at \in places : MoveTo(a, at, n, b)
            \/ \E v \in Values : QPRemove(a, v) \/ \E n \in 0..2 : PRemoveValue(a, v, n)
            \/ \E c \in 0..MaxCap[a] : Reserve(a, c)
            \/ \E b \in others : swap(a, b)
            \/ Clear(a) \/ Flush(a) \/ qsort(a)
  BY DEF Next
<1> DEFINE d == arr[a]
           places == 0..(d.nItems + 1)
<1>s. Sound(d) /\ places \subseteq Nat
  BY DEF AllSound, Sound
<1>2. CASE \E s \in Given(a) : Append_(a, s) \/ Assign(a, s)
  <2>1. PICK s \in Given(a) : Append_(a, s) \/ Assign(a, s)
    BY <1>2
  <2>2. \A r \in append(d, s) \cup set(d, s) : Sound(r.d)
    BY <1>s, GivenLength, AppendSound, SetSound
  <2> QED BY <2>1, <2>2, BecomesSound DEF Append_, Assign
<1>3. CASE \E at \in places, s \in Given(a) : Insert(a, at, s) \/ Write(a, at, s)
  <2>1. PICK at \in places, s \in Given(a) : Insert(a, at, s) \/ Write(a, at, s)
    BY <1>3
  <2>2. at \in Nat /\ Len(s) \in Nat
    BY <1>s, GivenLength
  <2>3. CASE Insert(a, at, s)
    <3>1. CASE at > d.nItems
      BY <2>3, <3>1, RefuseSound DEF Insert
    <3>2. CASE ~(at > d.nItems)
      <4>1. at <= d.nItems
        BY <1>s, <2>2, <3>2 DEF Sound
      <4>2. \A r \in insert(d, at, s) : Sound(r.d)
        BY <1>s, <2>2, <4>1, InsertSound
      <4> QED BY <2>3, <3>2, <4>2, BecomesSound DEF Insert
    <3> QED BY <3>1, <3>2
  <2>4. CASE Write(a, at, s)
    <3>1. CASE at + Len(s) > d.nItems
      BY <2>4, <3>1, RefuseSound DEF Write
    <3>2. CASE ~(at + Len(s) > d.nItems)
      <4>1. Sound([d EXCEPT !.vItems = memcpy(@, at, s)])
        BY <1>s, CopiedSound
      <4> QED BY <2>4, <3>2, <4>1, BecomesSound DEF Write, Good
    <3> QED BY <3>1, <3>2
  <2> QED BY <2>1, <2>3, <2>4
<1>4. CASE \E at \in places, n \in places : iremove(a, at, n) \/ premove(a, at, n) \/ xswap(a, at, n)
  BY <1>4, <1>s, RemoveSound, AddressSound, ExchangeSound
<1>5. CASE \E n \in places : pop(a, n) \/ qremove(a, n) \/ QRemove(a, n) \/ Truncate(a, n)
  <2>1. PICK n \in places : pop(a, n) \/ qremove(a, n) \/ QRemove(a, n) \/ Truncate(a, n)
    BY <1>5
  <2>2. \A r \in truncate(d, n) : Sound(r.d)
    BY <1>s, TruncateSound
  <2>3. CASE Truncate(a, n)
    BY <2>2, <2>3, BecomesSound DEF Truncate
  <2> QED BY <1>s, <2>1, <2>3, PopSound, QuickSound
<1>6. CASE \E n \in places, b \in Names \ {a} : \E at \in places : MoveTo(a, at, n, b)
  BY <1>6, <1>s, MoveSound
<1>7. CASE \E v \in Values : QPRemove(a, v) \/ \E n \in 0..2 : PRemoveValue(a, v, n)
  <2>1. PICK v \in Values : QPRemove(a, v) \/ \E n \in 0..2 : PRemoveValue(a, v, n)
    BY <1>7
  <2>2. CASE index_of(d, v) < 0
    BY <2>1, <2>2, RefuseSound DEF QPRemove, PRemoveValue
  <2>3. CASE ~(index_of(d, v) < 0)
    <3>1. index_of(d, v) \in Nat /\ 0..2 \subseteq Nat
      BY <1>s, <2>3, IndexInside
    <3>2. QRemove(a, index_of(d, v)) \/ \E n \in 0..2 : iremove(a, index_of(d, v), n)
      BY <2>1, <2>3 DEF QPRemove, PRemoveValue
    <3> QED BY <3>1, <3>2, QuickSound, RemoveSound
  <2> QED BY <2>2, <2>3
<1>8. CASE \E c \in 0..MaxCap[a] : Reserve(a, c)
  <2>1. PICK c \in 0..MaxCap[a] : Reserve(a, c)
    BY <1>8
  <2>2. c \in Nat /\ d.nItems <= c
    BY <1>s, <2>1, ArrayAssumption DEF Reserve, Sound
  <2>3. \A r \in grow(d, c) : Sound(r.d)
    BY <1>s, <2>2, GrowSound
  <2> QED BY <2>1, <2>3, BecomesSound DEF Reserve
<1>9. CASE \E b \in Names \ {a} : swap(a, b)
  BY <1>9 DEF swap, AllSound
<1>10. CASE Clear(a)
  <2>1. Sound([d EXCEPT !.nItems = 0])
    BY <1>s, FewerSound DEF Sound
  <2> QED BY <1>10, <2>1, BecomesSound DEF Clear, Good
<1>11. CASE Flush(a)
  BY <1>11, FreshSound, BecomesSound DEF Flush, Good
<1>12. CASE qsort(a)
  <2>1. \A r \in {Good([d EXCEPT !.vItems = memcpy(@, 0, t)]) : t \in Sorted(Items(d))} : Sound(r.d)
    BY <1>s, CopiedSound DEF Good
  <2> QED BY <1>12, <2>1, BecomesSound DEF qsort
<1> QED BY <1>1, <1>2, <1>3, <1>4, <1>5, <1>6, <1>7, <1>8, <1>9, <1>10, <1>11, <1>12

-----------------------------------------------------------------------------
(* Snapshots of the hash containers.                                       *)

LEMMA CopySound ==
    ASSUME NEW s, Len(s) \in Nat, NEW r \in Copied(s)
    PROVE  Sound(r.d)
<1>1. PICK q \in grow(Fresh, Len(s)) : r \in (IF q.ok THEN append(q.d, s) ELSE {q})
  BY DEF Copied
<1>2. Fresh.nItems <= Len(s)
  BY DEF Fresh
<1>3. Sound(q.d)
  BY <1>2, FreshSound, GrowSound
<1>4. CASE q.ok
  BY <1>1, <1>3, <1>4, AppendSound
<1>5. CASE ~q.ok
  BY <1>1, <1>3, <1>5
<1> QED BY <1>4, <1>5

LEMMA TableLength ==
    ASSUME NEW t \in Tables
    PROVE  Len(KeysOf(t)) \in Nat /\ Len(ValuesOf(t)) \in Nat
<1>1. DOMAIN t = 1..Len(t) /\ Len(t) \in Nat
  BY TablesAssumption
<1> QED BY <1>1, FunctionIsBlock DEF KeysOf, ValuesOf

LEMMA SnapshotSound == ASSUME AllSound, Snapshots PROVE AllSound'
<1>1. PICK index \in {FALSE, IndexSnapshots}, t \in Tables, a \in Names :
        \/ One(index, a, KeysOf(t)) \/ One(index, a, ValuesOf(t))
        \/ \E b \in Names \ {a} : Both(index, a, b, t)
  BY DEF Snapshots
<1>2. \A r \in Copied(KeysOf(t)) \cup Copied(ValuesOf(t)) : Sound(r.d)
  BY TableLength, CopySound
<1>3. ASSUME NEW s \in {KeysOf(t), ValuesOf(t)}, One(index, a, s)
      PROVE  AllSound'
  <2>1. PICK r \in Copied(s) :
            arr' = [arr EXCEPT ![a] = r.d] \/ Refuse(Called("keys", a, 0, 0, s, a))
    BY <1>3 DEF One
  <2> QED BY <1>2, <2>1, OneChanges, RefuseSound
<1>4. ASSUME NEW b \in Names \ {a}, Both(index, a, b, t)
      PROVE  AllSound'
  <2>1. PICK r \in Copied(KeysOf(t)), q \in Copied(ValuesOf(t)) :
            \/ arr' = [arr EXCEPT ![a] = r.d, ![b] = q.d]
            \/ Refuse(Called("items", a, 0, 0, t, b))
    BY <1>4 DEF Both
  <2>2. Sound(r.d) /\ Sound(q.d)
    BY <1>2
  <2>3. CASE arr' = [arr EXCEPT ![a] = r.d, ![b] = q.d]
    BY <2>2, <2>3 DEF AllSound
  <2> QED BY <2>1, <2>3, RefuseSound
<1> QED BY <1>1, <1>3, <1>4

-----------------------------------------------------------------------------
(* The arrays are sequences.                                               *)
Sequences_ == [a \in Names |-> Items(arr[a])]

ArraysInv ==
    /\ arr = [a \in Names |-> arr[a]]
    /\ \A a \in Names : Held(arr[a]) /\ arr[a].nItems <= MaxItems[a]
    /\ ok \in BOOLEAN /\ got \in Seq(Values)

(* A step that keeps the invariant and is one of the sequences'.           *)
Step == ArraysInv' /\ TheArrays!Next

LEMMA Replaced ==
    ASSUME ArraysInv, NEW a \in Names, NEW d, Held(d), d.nItems <= MaxItems[a],
           arr' = [arr EXCEPT ![a] = d], ok' \in BOOLEAN, got' \in Seq(Values)
    PROVE  /\ ArraysInv' /\ Sequences_' = [Sequences_ EXCEPT ![a] = Items(d)]
           /\ Sequences_[a] = Items(arr[a]) /\ Held(arr[a])
  BY DEF ArraysInv, Sequences_

LEMMA Unchanged_ ==
    ASSUME ArraysInv, arr' = arr, ok' \in BOOLEAN, got' \in Seq(Values)
    PROVE  ArraysInv' /\ Sequences_' = Sequences_
  BY DEF ArraysInv, Sequences_

(* A method of one array may leave any of its outcomes.                    *)
LEMMA BecomesOne ==
    ASSUME ArraysInv, NEW a \in Names, NEW outcomes, \A r \in outcomes : Held(r.d) /\ r.ok \in BOOLEAN,
           NEW c, Becomes(a, outcomes, c)
    PROVE  \E r \in outcomes :
            /\ ArraysInv' /\ Sequences_' = [Sequences_ EXCEPT ![a] = Items(r.d)]
            /\ call' = c /\ ok' = r.ok /\ got' = << >>
<1>1. PICK r \in outcomes : /\ Fits(a, r.d) /\ arr' = [arr EXCEPT ![a] = r.d]
                            /\ call' = c /\ ok' = r.ok /\ got' = << >>
  BY DEF Becomes, Return
<1>2. << >> \in Seq(Values)
  OBVIOUS
<1>3. ArraysInv' /\ Sequences_' = [Sequences_ EXCEPT ![a] = Items(r.d)]
  BY <1>1, <1>2, Replaced DEF Fits
<1> QED BY <1>1, <1>3

(* A call that fails.                                                      *)
LEMMA Fails ==
    ASSUME Sequences_' = Sequences_, ok' = FALSE, got' = << >>,
           call'.op \in {"append", "set", "truncate", "reserve", "insert", "move", "keys", "items"}
    PROVE  TheArrays!Next
  BY DEF TheArrays!Next, TheArrays!Fail, Sequences_

LEMMA Size_ ==
    ASSUME ArraysInv, NEW a \in Names
    PROVE  /\ TheArrays!Of(a) = Items(arr[a]) /\ Len(TheArrays!Of(a)) = arr[a].nItems /\ arr[a].nItems \in Nat
           /\ Sequences_[a] = Items(arr[a]) /\ Held(arr[a]) /\ Sound(arr[a]) /\ Items(arr[a]) \in Seq(Values)
<1>1. Held(arr[a])
  BY DEF ArraysInv
<1>2. TheArrays!Of(a) = Items(arr[a]) /\ Sequences_[a] = Items(arr[a])
  BY DEF TheArrays!Of, Sequences_
<1> QED BY <1>1, <1>2, HeldItems DEF Held

LEMMA NotThere ==
    ASSUME ArraysInv, NEW a \in Names, Sequences_' = Sequences_, ok' = FALSE, got' = << >>,
           call'.on = a, call'.op \in {"iset", "remove"}, NEW at \in Nat, NEW n \in Nat, call'.at = at, call'.n = n,
           at + n > arr[a].nItems \/ at = arr[a].nItems
    PROVE  TheArrays!Next
<1>1. Len(TheArrays!Of(a)) = arr[a].nItems /\ arr[a].nItems \in Nat
  BY Size_
<1>2. ~TheArrays!Within \/ call'.at = Len(TheArrays!Of(call'.on))
  BY <1>1 DEF TheArrays!Within
<1> QED BY <1>2 DEF TheArrays!Next, TheArrays!Fail, Sequences_

LEMMA GreaterOf ==
    ASSUME NEW m \in Nat, NEW n \in Nat
    PROVE  TheArrays!Max({m, n}) \in {m, n} /\ TheArrays!Max({m, n}) >= m /\ TheArrays!Max({m, n}) >= n
<1>1. \E k \in {m, n} : \A j \in {m, n} : k >= j
  <2>1. CASE m >= n
    BY <2>1
  <2>2. CASE n >= m
    BY <2>2
  <2> QED BY <2>1, <2>2
<1> QED BY <1>1 DEF TheArrays!Max

LEMMA NoPlace ==
    ASSUME ArraysInv, NEW a \in Names, Sequences_' = Sequences_, ok' = FALSE, got' = << >>,
           call'.on = a, call'.op \in {"xswap", "qremove", "qerase"}, NEW at \in Nat, NEW n \in Nat, call'.at = at, call'.n = n,
           at >= arr[a].nItems \/ n >= arr[a].nItems
    PROVE  TheArrays!Next
<1>1. Len(TheArrays!Of(a)) = arr[a].nItems /\ arr[a].nItems \in Nat
  BY Size_
<1>2. TheArrays!Max({call'.at, call'.n}) >= Len(TheArrays!Of(call'.on))
  BY <1>1, GreaterOf
<1> QED BY <1>2 DEF TheArrays!Next, TheArrays!Fail, Sequences_

LEMMA Asked ==
    ASSUME NEW op, NEW a, NEW at, NEW n, NEW src, NEW b, NEW c, c = Called(op, a, at, n, src, b)
    PROVE  c.op = op /\ c.on = a /\ c.at = at /\ c.n = n /\ c.src = src /\ c.to = b
  BY DEF Called

(* A call that leaves the array as it was because it has failed.           *)
LEMMA SameArray ==
    ASSUME ArraysInv, NEW a \in Names, NEW s, s = Items(arr[a]), Sequences_' = [Sequences_ EXCEPT ![a] = s]
    PROVE  Sequences_' = Sequences_
  BY DEF Sequences_

LEMMA Refused ==
    ASSUME ArraysInv, NEW c, Refuse(c)
    PROVE  ArraysInv' /\ Sequences_' = Sequences_ /\ call' = c /\ ok' = FALSE /\ got' = << >>
<1>1. << >> \in Seq(Values) /\ FALSE \in BOOLEAN
  OBVIOUS
<1> QED BY <1>1, Unchanged_ DEF Refuse, Return

LEMMA GivenElements ==
    ASSUME ArraysInv, NEW a \in Names, NEW s \in Given(a)
    PROVE  s \in Seq(Values)
  BY ArrayAssumption, Size_ DEF Given

LEMMA OneOutcome ==
    ASSUME NEW e, Held(e), NEW t, Items(e) = t
    PROVE  \A r \in {Good(e)} : Held(r.d) /\ r.ok \in BOOLEAN /\ r.ok = TRUE /\ Items(r.d) = t
<1> SUFFICES ASSUME NEW r, r = Good(e) PROVE Held(r.d) /\ r.ok \in BOOLEAN /\ r.ok = TRUE /\ Items(r.d) = t
  OBVIOUS
<1>1. r.d = e /\ r.ok = TRUE
  BY DEF Good
<1> QED BY <1>1

LEMMA AppendStep ==
    ASSUME ArraysInv, NEW a \in Names, NEW s \in Seq(Values), Append_(a, s)
    PROVE  Step
<1> DEFINE d == arr[a]
           c == Called("append", a, 0, 0, s, a)
<1>1. Held(d) /\ Becomes(a, append(d, s), c)
  BY Size_ DEF Append_
<1>2. \A r \in append(d, s) : Held(r.d) /\ r.ok \in BOOLEAN /\ Items(r.d) = IF r.ok THEN Items(d) \o s ELSE Items(d)
  BY <1>1, AppendGives
<1> HIDE DEF c
<1>3. PICK r \in append(d, s) :
        /\ ArraysInv' /\ Sequences_' = [Sequences_ EXCEPT ![a] = Items(r.d)]
        /\ call' = c /\ ok' = r.ok /\ got' = << >>
  BY <1>1, <1>2, BecomesOne
<1>4. call'.op = "append" /\ call'.on = a /\ call'.src = s
  BY <1>3, Asked DEF c
<1>5. CASE r.ok
  <2>1. TheArrays!Append_
    <3>1. TheArrays!Of(call'.on) = Items(d)
      BY <1>4, Size_
    <3>2. Sequences_' = [Sequences_ EXCEPT ![a] = Items(d) \o s]
      BY <1>2, <1>3, <1>5
    <3> QED BY <1>3, <1>4, <1>5, <3>1, <3>2 DEF TheArrays!Append_, TheArrays!Becomes, Sequences_
  <2> QED BY <1>3, <2>1 DEF Step, TheArrays!Next
<1>6. CASE ~r.ok
  <2>1. Sequences_' = Sequences_
    BY <1>2, <1>3, <1>6, SameArray
  <2>2. ok' = FALSE
    BY <1>2, <1>3, <1>6
  <2> QED BY <1>3, <1>4, <2>1, <2>2, Fails DEF Step
<1> QED BY <1>5, <1>6

LEMMA AssignStep ==
    ASSUME ArraysInv, NEW a \in Names, NEW s \in Seq(Values), Assign(a, s)
    PROVE  Step
<1> DEFINE d == arr[a]
           c == Called("set", a, 0, 0, s, a)
<1>1. Held(d) /\ Becomes(a, set(d, s), c)
  BY Size_ DEF Assign
<1>2. \A r \in set(d, s) : Held(r.d) /\ r.ok \in BOOLEAN /\ Items(r.d) = IF r.ok THEN s ELSE Items(d)
  BY <1>1, SetGives
<1> HIDE DEF c
<1>3. PICK r \in set(d, s) :
        /\ ArraysInv' /\ Sequences_' = [Sequences_ EXCEPT ![a] = Items(r.d)]
        /\ call' = c /\ ok' = r.ok /\ got' = << >>
  BY <1>1, <1>2, BecomesOne
<1>4. call'.op = "set" /\ call'.on = a /\ call'.src = s
  BY <1>3, Asked DEF c
<1>5. CASE r.ok
  <2>1. TheArrays!Assign
    <3>1. Sequences_' = [Sequences_ EXCEPT ![a] = s]
      BY <1>2, <1>3, <1>5
    <3> QED BY <1>3, <1>4, <1>5, <3>1 DEF TheArrays!Assign, TheArrays!Becomes, Sequences_
  <2> QED BY <1>3, <2>1 DEF Step, TheArrays!Next
<1>6. CASE ~r.ok
  <2>1. Sequences_' = Sequences_
    BY <1>2, <1>3, <1>6, SameArray
  <2>2. ok' = FALSE
    BY <1>2, <1>3, <1>6
  <2> QED BY <1>3, <1>4, <2>1, <2>2, Fails DEF Step
<1> QED BY <1>5, <1>6

LEMMA InsertStep ==
    ASSUME ArraysInv, NEW a \in Names, NEW index \in Nat, NEW s \in Seq(Values), Insert(a, index, s)
    PROVE  Step
<1> DEFINE d == arr[a]
           c == Called("insert", a, index, 0, s, a)
           t == SubSeq(Items(d), 1, index) \o s \o SubSeq(Items(d), index + 1, Len(Items(d)))
<1>1. Held(d) /\ d.nItems \in Nat
  BY Size_
<1>2. CASE index > d.nItems
  <2>1. Refuse(c)
    BY <1>2 DEF Insert
  <2> HIDE DEF c
  <2>2. ArraysInv' /\ Sequences_' = Sequences_ /\ call' = c /\ ok' = FALSE /\ got' = << >>
    BY <2>1, Refused
  <2>3. call'.op = "insert"
    BY <2>2, Asked DEF c
  <2> QED BY <2>2, <2>3, Fails DEF Step
<1>3. CASE ~(index > d.nItems)
  <2>1. Becomes(a, insert(d, index, s), c) /\ index <= d.nItems
    BY <1>1, <1>3 DEF Insert
  <2>2. \A r \in insert(d, index, s) : Held(r.d) /\ r.ok \in BOOLEAN /\ Items(r.d) = IF r.ok THEN t ELSE Items(d)
    BY <1>1, <2>1, InsertGives
  <2> HIDE DEF c, t
  <2>3. PICK r \in insert(d, index, s) :
          /\ ArraysInv' /\ Sequences_' = [Sequences_ EXCEPT ![a] = Items(r.d)]
          /\ call' = c /\ ok' = r.ok /\ got' = << >>
    BY <2>1, <2>2, BecomesOne
  <2>4. call'.op = "insert" /\ call'.on = a /\ call'.at = index /\ call'.src = s
    BY <2>3, Asked DEF c
  <2>5. CASE r.ok
    <3>1. TheArrays!Insert
      <4>1. TheArrays!Of(call'.on) = Items(d) /\ index <= Len(Items(d))
        BY <2>1, <2>4, Size_
      <4>2. Sequences_' = [Sequences_ EXCEPT ![a] = t]
        BY <2>2, <2>3, <2>5
      <4> QED BY <2>3, <2>4, <2>5, <4>1, <4>2 DEF TheArrays!Insert, TheArrays!Becomes, Sequences_, t
    <3> QED BY <2>3, <3>1 DEF Step, TheArrays!Next
  <2>6. CASE ~r.ok
    <3>1. Sequences_' = Sequences_
      BY <2>2, <2>3, <2>6, SameArray
    <3>2. ok' = FALSE
      BY <2>2, <2>3, <2>6
    <3> QED BY <2>3, <2>4, <3>1, <3>2, Fails DEF Step
  <2> QED BY <2>5, <2>6
<1> QED BY <1>2, <1>3

LEMMA WriteStep ==
    ASSUME ArraysInv, NEW a \in Names, NEW idx \in Nat, NEW s \in Seq(Values), Write(a, idx, s)
    PROVE  Step
<1> DEFINE d == arr[a]
           n == Len(s)
           c == Called("iset", a, idx, n, s, a)
           t == [i \in DOMAIN Items(d) |-> IF i - idx \in DOMAIN s THEN s[i - idx] ELSE Items(d)[i]]
           e == [d EXCEPT !.vItems = memcpy(@, idx, s)]
<1>1. Held(d) /\ d.nItems \in Nat /\ n \in Nat
  BY Size_
<1>2. CASE idx + n > d.nItems
  <2>1. Refuse(c)
    BY <1>2 DEF Write
  <2> HIDE DEF c, n
  <2>2. ArraysInv' /\ Sequences_' = Sequences_ /\ call' = c /\ ok' = FALSE /\ got' = << >>
    BY <2>1, Refused
  <2>3. call'.op = "iset" /\ call'.on = a /\ call'.at = idx /\ call'.n = n
    BY <2>2, Asked DEF c
  <2>4. TheArrays!Next
    BY <1>1, <1>2, <2>2, <2>3, NotThere
  <2> QED BY <2>2, <2>4 DEF Step
<1>3. CASE ~(idx + n > d.nItems)
  <2>1. Becomes(a, {Good(e)}, c)
    BY <1>3 DEF Write
  <2>2. idx + n <= d.nItems /\ e = [nItems |-> d.nItems, vItems |-> memcpy(d.vItems, idx, s)]
    <3>1. d = [nItems |-> d.nItems, vItems |-> d.vItems]
      BY <1>1, HeldItems
    <3> QED BY <1>1, <1>3, <3>1
  <2>3. Held(e) /\ Items(e) = t
    <3> HIDE DEF e
    <3> QED BY <1>1, <2>2, CopiedGives
  <2>4. \A r \in {Good(e)} : Held(r.d) /\ r.ok \in BOOLEAN /\ r.ok = TRUE /\ Items(r.d) = t
    <3> HIDE DEF e, t
    <3> QED BY <2>3, OneOutcome
  <2> HIDE DEF c, t, n
  <2>5. PICK r \in {Good(e)} :
          /\ ArraysInv' /\ Sequences_' = [Sequences_ EXCEPT ![a] = Items(r.d)]
          /\ call' = c /\ ok' = r.ok /\ got' = << >>
    BY <2>1, <2>4, BecomesOne
  <2>6. call'.op = "iset" /\ call'.on = a /\ call'.at = idx /\ call'.n = n /\ call'.src = s
    BY <2>5, Asked DEF c
  <2>7. TheArrays!Write
    <3>1. TheArrays!Of(call'.on) = Items(d) /\ Len(Items(d)) = d.nItems
      BY <2>6, Size_
    <3>2. TheArrays!Within
      BY <2>2, <2>6, <3>1 DEF TheArrays!Within
    <3>3. Sequences_' = [Sequences_ EXCEPT ![a] = t] /\ ok'
      BY <2>4, <2>5
    <3>4. TheArrays!Becomes(t)
      BY <2>5, <2>6, <3>3 DEF TheArrays!Becomes, Sequences_
    <3> QED BY <2>6, <3>1, <3>2, <3>4 DEF TheArrays!Write, t
  <2> QED BY <2>5, <2>7 DEF Step, TheArrays!Next
<1> QED BY <1>2, <1>3

(* Elements that are taken out.                                            *)
LEMMA Loses ==
    ASSUME ArraysInv, NEW a \in Names, NEW d, Held(d), d.nItems <= arr[a].nItems, NEW c,
           NEW part \in Seq(Values), Lose(a, d, c, part)
    PROVE  /\ ArraysInv' /\ Sequences_' = [Sequences_ EXCEPT ![a] = Items(d)]
           /\ call' = c /\ ok' = TRUE /\ got' = part
<1>1. /\ arr' = [arr EXCEPT ![a] = d] /\ call' = c /\ ok' = TRUE /\ got' = part
  BY DEF Lose, Return
<1>2. MaxItems[a] \in Int /\ arr[a].nItems <= MaxItems[a] /\ arr[a].nItems \in Int /\ d.nItems \in Int
  BY ArrayAssumption, Size_, HeldItems DEF ArraysInv
<1>3. d.nItems <= MaxItems[a]
  BY <1>2
<1> QED BY <1>1, <1>3, Replaced

LEMMA RemoveIs ==
    ASSUME ArraysInv, NEW a \in Names, NEW idx \in Nat, NEW n \in Nat, idx + n <= arr[a].nItems,
           NEW e, e = Without(arr[a], idx, n),
           Lose(a, e, Called("remove", a, idx, n, << >>, a), Part(arr[a], idx, n))
    PROVE  Step
<1> DEFINE d == arr[a]
           c == Called("remove", a, idx, n, << >>, a)
           t == SubSeq(Items(d), 1, idx) \o SubSeq(Items(d), idx + n + 1, Len(Items(d)))
           part == SubSeq(Items(d), idx + 1, idx + n)
<1>1. Held(d) /\ d.nItems \in Nat
  BY Size_
<1>2. Held(e) /\ Items(e) = t
  BY <1>1, WithoutGives
<1>3. e.nItems <= d.nItems
  <2>1. e.nItems = d.nItems - n
    BY <1>1, WithoutSound DEF Held
  <2> QED BY <1>1, <2>1
<1>4. Part(d, idx, n) = part /\ part \in Seq(Values)
  BY <1>1, PartIsSlice
<1>5. Lose(a, e, c, part)
  BY <1>4
<1> HIDE DEF c, t, part
<1>6. /\ ArraysInv' /\ Sequences_' = [Sequences_ EXCEPT ![a] = t]
      /\ call' = c /\ ok' = TRUE /\ got' = part
  BY <1>2, <1>3, <1>4, <1>5, Loses
<1>7. call'.op = "remove" /\ call'.on = a /\ call'.at = idx /\ call'.n = n
  BY <1>6, Asked DEF c
<1>8. TheArrays!Remove_
  <2>1. TheArrays!Of(call'.on) = Items(d) /\ Len(Items(d)) = d.nItems
    BY <1>7, Size_
  <2>2. TheArrays!Within
    BY <1>7, <2>1 DEF TheArrays!Within
  <2>3. TheArrays!Left = t /\ TheArrays!Taken = part
    BY <1>7, <2>1 DEF TheArrays!Left, TheArrays!Taken, t, part
  <2> QED BY <1>6, <1>7, <2>2, <2>3 DEF TheArrays!Remove_, Sequences_
<1> QED BY <1>6, <1>8 DEF Step, TheArrays!Next

LEMMA NoElements ==
    ASSUME ArraysInv, NEW a \in Names, NEW op \in {"iset", "remove"}, NEW at \in Nat, NEW n \in Nat, NEW s, NEW b,
           Refuse(Called(op, a, at, n, s, b)),
           at + n > arr[a].nItems \/ at = arr[a].nItems
    PROVE  Step
<1> DEFINE c == Called(op, a, at, n, s, b)
<1> HIDE DEF c
<1>2. ArraysInv' /\ Sequences_' = Sequences_ /\ call' = c /\ ok' = FALSE /\ got' = << >>
  BY Refused DEF c
<1>3. call'.op = op /\ call'.on = a /\ call'.at = at /\ call'.n = n
  BY <1>2, Asked DEF c
<1>4. TheArrays!Next
  BY <1>2, <1>3, NotThere
<1> QED BY <1>2, <1>4 DEF Step

LEMMA RemoveStep ==
    ASSUME ArraysInv, NEW a \in Names, NEW idx \in Nat, NEW n \in Nat, iremove(a, idx, n)
    PROVE  Step
<1>1. arr[a].nItems \in Nat
  BY Size_
<1>2. CASE idx + n > arr[a].nItems
  BY <1>2, NoElements DEF iremove
<1>3. CASE ~(idx + n > arr[a].nItems)
  <2>1. idx + n <= arr[a].nItems
    BY <1>1, <1>3
  <2> QED BY <1>3, <2>1, RemoveIs DEF iremove
<1> QED BY <1>2, <1>3

LEMMA PopStep ==
    ASSUME ArraysInv, NEW a \in Names, NEW n \in Nat, pop(a, n)
    PROVE  Step
<1> DEFINE d == arr[a]
           size == d.nItems - n
           c == Called("remove", a, size, n, << >>, a)
           e == [d EXCEPT !.nItems = size]
           part == SubSeq(Items(d), size + 1, size + n)
           t == SubSeq(Items(d), 1, size)
<1>1. Held(d) /\ d.nItems \in Nat /\ Len(Items(d)) = d.nItems /\ Items(d) \in Seq(Values)
  BY Size_, HeldItems
<1>2. CASE size < 0
  <2>1. Refuse(Called("remove", a, 0, n, << >>, a)) /\ 0 + n > d.nItems
    BY <1>1, <1>2 DEF pop
  <2> QED BY <2>1, NoElements
<1>3. CASE ~(size < 0)
  <2>1. size \in Nat /\ size <= d.nItems /\ size + n = d.nItems
    BY <1>1, <1>3
  <2>2. Lose(a, e, c, Part(d, size, n))
    BY <1>3 DEF pop
  <2>3. e = [nItems |-> size, vItems |-> d.vItems]
    BY <1>1, HeldItems
  <2>4. e.nItems = size
    BY <2>3
  <2> HIDE DEF size, e
  <2>5. d.vItems \in Seq(Cell) /\ size <= Len(d.vItems) /\ \A i \in 1..size : d.vItems[i] = d.vItems[i]
    BY <1>1, <2>1, HeldItems
  <2>6. Held(e) /\ Items(e) = t
    <3>1. Held(d) /\ size \in Nat /\ size <= d.nItems
      BY <1>1, <2>1
    <3>2. d.vItems \in Seq(Cell) /\ size <= Len(d.vItems) /\ e = [nItems |-> size, vItems |-> d.vItems]
      BY <2>3, <2>5
    <3>3. \A i \in 1..size : d.vItems[i] = d.vItems[i]
      OBVIOUS
    <3>4. t = SubSeq(Items(d), 1, size)
      OBVIOUS
    <3> HIDE DEF d, t
    <3> QED BY <3>1, <3>2, <3>3, <3>4, FewerItems
  <2>7. Part(d, size, n) = part /\ part \in Seq(Values)
    BY <1>1, <2>1, PartIsSlice
  <2>8. Lose(a, e, c, part)
    BY <2>2, <2>7
  <2> HIDE DEF c, t, part
  <2>9. /\ ArraysInv' /\ Sequences_' = [Sequences_ EXCEPT ![a] = t]
        /\ call' = c /\ ok' = TRUE /\ got' = part
    BY <2>1, <2>4, <2>6, <2>7, <2>8, Loses
  <2>10. call'.op = "remove" /\ call'.on = a /\ call'.at = size /\ call'.n = n
    BY <2>9, Asked DEF c
  <2>11. TheArrays!Remove_
    <3>1. TheArrays!Of(call'.on) = Items(d)
      BY <2>10, Size_
    <3>2. TheArrays!Within
      BY <1>1, <2>1, <2>10, <3>1 DEF TheArrays!Within
    <3>3. TheArrays!Taken = part
      BY <2>10, <3>1 DEF TheArrays!Taken, part
    <3>4. TheArrays!Left = t
      <4>1. TheArrays!Left = t \o SubSeq(Items(d), d.nItems + 1, d.nItems)
        BY <1>1, <2>1, <2>10, <3>1 DEF TheArrays!Left, t
      <4>2. t \in Seq(Values)
        BY <1>1, <2>1 DEF t
      <4>3. SubSeq(Items(d), d.nItems + 1, d.nItems) = << >>
        BY <1>1
      <4> QED BY <4>1, <4>2, <4>3, ConcatEmptySeq
    <3> QED BY <2>9, <2>10, <3>2, <3>3, <3>4 DEF TheArrays!Remove_, Sequences_
  <2> QED BY <2>9, <2>11 DEF Step, TheArrays!Next
<1> QED BY <1>2, <1>3

LEMMA AddressStep ==
    ASSUME ~PastEnd, ArraysInv, NEW a \in Names, NEW off \in Nat, NEW n \in Nat, premove(a, off, n)
    PROVE  Step
<1> DEFINE d == arr[a]
           e == Without(d, off, n)
<1>1. Held(d) /\ d.nItems \in Nat /\ off + n <= d.nItems
  BY Size_ DEF premove
<1>2. CASE off >= d.nItems
  <2>1. off = d.nItems
    BY <1>1, <1>2
  <2> QED BY <1>2, <2>1, NoElements DEF premove
<1>3. CASE ~(off >= d.nItems)
  <2>1. e.nItems = d.nItems - n /\ Sound(e)
    BY <1>1, WithoutSound DEF Held
  <2>2. d.nItems <= MaxItems[a] /\ MaxItems[a] \in 0..(SizeMod - 1) /\ SizeMod \in Nat \ {0}
    BY ArrayAssumption DEF ArraysInv
  <2>3. e.nItems \in Nat /\ e.nItems < SizeMod
    BY <1>1, <2>1, <2>2
  <2>4. e.nItems % SizeMod = e.nItems
    BY <2>2, <2>3
  <2>5. [e EXCEPT !.nItems = @ % SizeMod] = e
    BY <2>1, <2>4 DEF Sound
  <2>6. Lose(a, e, Called("remove", a, off, n, << >>, a), Part(d, off, n))
    BY <1>3, <2>5 DEF premove
  <2> QED BY <1>1, <2>6, RemoveIs
<1> QED BY <1>2, <1>3

(* Methods of two arrays.                                                  *)
Two(f, a, d, b, e) == [c \in Names |-> IF c = b THEN e ELSE IF c = a THEN d ELSE f[c]]

Total(f) == f = [c \in Names |-> f[c]]

LEMMA TwoOf ==
    ASSUME NEW f, Total(f), NEW a \in Names, NEW b \in Names, a # b, NEW d, NEW e
    PROVE  [f EXCEPT ![a] = d, ![b] = e] = Two(f, a, d, b, e) /\ Two(f, a, d, b, e) = Two(f, b, e, a, d)
<1> DEFINE g == [f EXCEPT ![a] = d, ![b] = e]
<1>1. g = [c \in Names |-> IF c = b THEN e ELSE IF c = a THEN d ELSE f[c]]
  BY DEF Total
<1>2. g = [c \in Names |-> IF c = a THEN d ELSE IF c = b THEN e ELSE f[c]]
  BY <1>1
<1> QED BY <1>1, <1>2 DEF Two

LEMMA Functions_ ==
    ASSUME ArraysInv
    PROVE  Total(arr) /\ Total(Sequences_)
  BY DEF ArraysInv, Sequences_, Total

LEMMA ReplacedTwo ==
    ASSUME ArraysInv, NEW a \in Names, NEW b \in Names, a # b,
           NEW d, Held(d), d.nItems <= MaxItems[a], NEW e, Held(e), e.nItems <= MaxItems[b],
           arr' = Two(arr, a, d, b, e), ok' \in BOOLEAN, got' \in Seq(Values)
    PROVE  /\ ArraysInv' /\ Sequences_' = Two(Sequences_, a, Items(d), b, Items(e))
<1>2. ArraysInv'
  BY DEF ArraysInv, Two
<1>3. Sequences_' = [c \in Names |-> IF c = b THEN Items(e) ELSE IF c = a THEN Items(d) ELSE Items(arr[c])]
  BY DEF Sequences_, Two
<1> QED BY <1>2, <1>3 DEF Sequences_, Two

LEMMA MoveStep ==
    ASSUME ArraysInv, NEW a \in Names, NEW b \in Names, a # b,
           NEW idx \in Nat, NEW n \in Nat, MoveTo(a, idx, n, b)
    PROVE  Step
<1> DEFINE d == arr[a]
           c == Called("move", a, idx, n, << >>, b)
           part == SubSeq(Items(d), idx + 1, idx + n)
           t == SubSeq(Items(d), 1, idx) \o SubSeq(Items(d), idx + n + 1, Len(Items(d)))
           e == Without(d, idx, n)
<1>1. Held(d) /\ Held(arr[b]) /\ d.nItems \in Nat /\ d.nItems <= MaxItems[a]
  BY Size_ DEF ArraysInv
<1>2. CASE idx + n > d.nItems
  <2>1. Refuse(c)
    BY <1>2 DEF MoveTo
  <2> HIDE DEF c
  <2>2. ArraysInv' /\ Sequences_' = Sequences_ /\ call' = c /\ ok' = FALSE /\ got' = << >>
    BY <2>1, Refused
  <2>3. call'.op = "move"
    BY <2>2, Asked DEF c
  <2> QED BY <2>2, <2>3, Fails DEF Step
<1>3. CASE ~(idx + n > d.nItems)
  <2>0. idx + n <= d.nItems
    BY <1>1, <1>3
  <2>1. Part(d, idx, n) = part /\ part \in Seq(Values)
    BY <1>1, <2>0, PartIsSlice
  <2>2. PICK r \in append(arr[b], part) :
          /\ Fits(b, r.d)
          /\ arr' = [arr EXCEPT ![b] = r.d, ![a] = IF r.ok THEN Without(@, idx, n) ELSE @]
          /\ Return(c, r.ok, IF r.ok THEN part ELSE << >>)
    BY <1>3, <2>1 DEF MoveTo
  <2>3. Held(r.d) /\ r.ok \in BOOLEAN /\ Items(r.d) = IF r.ok THEN Items(arr[b]) \o part ELSE Items(arr[b])
    BY <1>1, <2>1, AppendGives
  <2>4. Held(e) /\ Items(e) = t /\ e.nItems <= MaxItems[a]
    <3>1. Held(e) /\ Items(e) = t
      BY <1>1, <2>0, WithoutGives
    <3>2. e.nItems = d.nItems - n
      BY <1>1, <2>0, WithoutSound DEF Held
    <3>3. MaxItems[a] \in Int
      BY ArrayAssumption
    <3> HIDE DEF e, t
    <3> QED BY <1>1, <3>1, <3>2, <3>3
  <2>5. call'.op = "move" /\ call'.on = a /\ call'.at = idx /\ call'.n = n /\ call'.to = b
    BY <2>2, Asked DEF Return
  <2>6. ok' = r.ok /\ got' = IF r.ok THEN part ELSE << >>
    BY <2>2 DEF Return
  <2> HIDE DEF c, e, t, part
  <2>7. CASE r.ok
    <3>1. arr' = Two(arr, a, e, b, r.d)
      <4>1. arr' = [arr EXCEPT ![b] = r.d, ![a] = e]
        BY <2>2, <2>7 DEF e, ArraysInv
      <4>2. [arr EXCEPT ![b] = r.d, ![a] = e] = Two(arr, b, r.d, a, e) /\ Two(arr, b, r.d, a, e) = Two(arr, a, e, b, r.d)
        BY TwoOf, Functions_
      <4> QED BY <4>1, <4>2
    <3>2. ArraysInv' /\ Sequences_' = Two(Sequences_, a, t, b, Items(arr[b]) \o part)
      <4>1. Held(r.d) /\ r.d.nItems <= MaxItems[b] /\ Held(e) /\ e.nItems <= MaxItems[a] /\ b # a
        BY <2>2, <2>3, <2>4 DEF Fits
      <4>2. ok' \in BOOLEAN /\ got' \in Seq(Values)
        BY <2>1, <2>3, <2>6, <2>7
      <4>3. Items(e) = t /\ Items(r.d) = Items(arr[b]) \o part
        BY <2>3, <2>4, <2>7
      <4>4. ArraysInv' /\ Sequences_' = Two(Sequences_, a, Items(e), b, Items(r.d))
        BY <3>1, <4>1, <4>2, ReplacedTwo
      <4> QED BY <4>3, <4>4
    <3>3. Sequences_' = [Sequences_ EXCEPT ![a] = t, ![b] = Items(arr[b]) \o part]
      <4> DEFINE u == Items(arr[b]) \o part
      <4>1. Sequences_' = Two(Sequences_, a, t, b, u)
        BY <3>2
      <4> HIDE DEF u
      <4>2. [Sequences_ EXCEPT ![a] = t, ![b] = u] = Two(Sequences_, a, t, b, u)
        BY TwoOf, Functions_
      <4>3. Sequences_' = [Sequences_ EXCEPT ![a] = t, ![b] = u]
        BY <4>1, <4>2
      <4> QED BY <4>3 DEF u
    <3>4. TheArrays!Of(call'.on) = Items(d) /\ Len(Items(d)) = d.nItems /\ Sequences_[b] = Items(arr[b])
      BY <2>5, Size_
    <3>5. TheArrays!Within
      BY <2>0, <2>5, <3>4 DEF TheArrays!Within
    <3>6. TheArrays!Left = t /\ TheArrays!Taken = part
      BY <2>5, <3>4 DEF TheArrays!Left, TheArrays!Taken, t, part
    <3>7. Sequences_' = [Sequences_ EXCEPT ![a] = t, ![b] = @ \o part]
      BY <3>3, <3>4 DEF Sequences_
    <3>8. TheArrays!MoveTo
      BY <2>5, <2>6, <2>7, <3>5, <3>6, <3>7 DEF TheArrays!MoveTo, Sequences_
    <3> QED BY <3>2, <3>8 DEF Step, TheArrays!Next
  <2>8. CASE ~r.ok
    <3>1. arr' = [arr EXCEPT ![b] = r.d]
      BY <2>2, <2>8 DEF ArraysInv
    <3>2. << >> \in Seq(Values)
      OBVIOUS
    <3>3. ArraysInv' /\ Sequences_' = [Sequences_ EXCEPT ![b] = Items(r.d)]
      BY <2>2, <2>3, <2>6, <2>8, <3>1, <3>2, Replaced DEF Fits
    <3>4. Sequences_' = Sequences_
      BY <2>3, <2>8, <3>3, SameArray
    <3>5. ok' = FALSE /\ got' = << >>
      BY <2>3, <2>6, <2>8
    <3> QED BY <2>5, <3>3, <3>4, <3>5, Fails DEF Step
  <2> QED BY <2>3, <2>7, <2>8
<1> QED BY <1>2, <1>3

LEMMA SwapStep ==
    ASSUME ArraysInv, NEW a \in Names, NEW b \in Names, a # b, swap(a, b)
    PROVE  Step
<1>1. /\ Fits(a, arr[b]) /\ Fits(b, arr[a]) /\ arr' = [arr EXCEPT ![a] = arr[b], ![b] = arr[a]]
      /\ call' = Called("swap", a, 0, 0, << >>, b) /\ ok' = TRUE /\ got' = << >>
  BY DEF swap, Return
<1>2. Held(arr[a]) /\ Held(arr[b]) /\ TheArrays!Of(a) = Items(arr[a]) /\ TheArrays!Of(b) = Items(arr[b])
      /\ << >> \in Seq(Values)
  BY Size_
<1>3. ArraysInv' /\ Sequences_' = [Sequences_ EXCEPT ![a] = Items(arr[b]), ![b] = Items(arr[a])]
  <2>1. arr[b].nItems <= MaxItems[a] /\ arr[a].nItems <= MaxItems[b] /\ ok' \in BOOLEAN /\ got' \in Seq(Values)
    BY <1>1, <1>2 DEF Fits
  <2>2. arr' = Two(arr, a, arr[b], b, arr[a])
    <3>1. [arr EXCEPT ![a] = arr[b], ![b] = arr[a]] = Two(arr, a, arr[b], b, arr[a])
      BY TwoOf, Functions_
    <3> QED BY <1>1, <3>1
  <2>3. ArraysInv' /\ Sequences_' = Two(Sequences_, a, Items(arr[b]), b, Items(arr[a]))
    BY <1>2, <2>1, <2>2, ReplacedTwo
  <2>4. [Sequences_ EXCEPT ![a] = Items(arr[b]), ![b] = Items(arr[a])] = Two(Sequences_, a, Items(arr[b]), b, Items(arr[a]))
    BY TwoOf, Functions_
  <2> QED BY <2>3, <2>4
<1>4. call'.op = "swap" /\ call'.on = a /\ call'.to = b
  BY <1>1, Asked
<1>5. TheArrays!Swap
  BY <1>1, <1>2, <1>3, <1>4 DEF TheArrays!Swap, Sequences_
<1> QED BY <1>3, <1>5 DEF Step, TheArrays!Next

(* Both forms of qremove(), of a client who reads what is removed or does not. *)
LEMMA PlugStep ==
    ASSUME ArraysInv, NEW a \in Names, NEW idx \in Nat, NEW op, NEW out,
           \/ op = "qremove" /\ out = Part(arr[a], idx, 1)
           \/ op = "qerase" /\ out = << >>,
           IF idx >= arr[a].nItems THEN Refuse(Called(op, a, idx, 0, << >>, a))
           ELSE Lose(a, Plugged(arr[a], idx), Called(op, a, idx, 0, << >>, a), out)
    PROVE  Step
<1> DEFINE d == arr[a]
           size == d.nItems - 1
           c == Called(op, a, idx, 0, << >>, a)
           e == [nItems |-> size, vItems |-> IF idx < size THEN memmove(d.vItems, idx, size, 1) ELSE d.vItems]
           s == Items(d)
           t == TheArrays!Front([s EXCEPT ![idx + 1] = s[Len(s)]])
<1>1. Held(d) /\ d.nItems \in Nat /\ s \in Seq(Values) /\ Len(s) = d.nItems
  BY Size_, HeldItems
<1>2. CASE idx >= d.nItems
  <2>1. Refuse(c)
    BY <1>2
  <2> HIDE DEF c
  <2>2. ArraysInv' /\ Sequences_' = Sequences_ /\ call' = c /\ ok' = FALSE /\ got' = << >>
    BY <2>1, Refused
  <2>3. call'.op = op /\ call'.on = a /\ call'.at = idx /\ call'.n = 0
    BY <2>2, Asked DEF c
  <2>4. TheArrays!Next
    BY <1>2, <2>2, <2>3, NoPlace
  <2> QED BY <2>2, <2>4 DEF Step
<1>3. CASE ~(idx >= d.nItems)
  <2>1. idx < d.nItems /\ idx + 1 \in 1..Len(s)
    BY <1>1, <1>3
  <2>2. Lose(a, e, c, out)
    BY <1>3 DEF Plugged
  <2>3. Held(e) /\ Items(e) = t /\ Part(d, idx, 1) = <<s[idx + 1]>>
    BY <1>1, <2>1, QuickGives, SMTT(30) DEF Front, TheArrays!Front
  <2>4. e.nItems <= d.nItems
    BY <1>1
  <2>5. out \in Seq(Values)
    <3>1. s[idx + 1] \in Values
      BY <1>1, <2>1
    <3>2. <<s[idx + 1]>> \in Seq(Values) /\ << >> \in Seq(Values)
      BY <3>1
    <3> QED BY <2>3, <3>2
  <2>6. out = IF op = "qremove" THEN <<s[idx + 1]>> ELSE << >>
    BY <2>3
  <2> HIDE DEF e, c, t, s
  <2>7. /\ ArraysInv' /\ Sequences_' = [Sequences_ EXCEPT ![a] = t]
        /\ call' = c /\ ok' = TRUE /\ got' = out
    BY <2>2, <2>3, <2>4, <2>5, Loses
  <2>8. call'.op = op /\ call'.on = a /\ call'.at = idx
    BY <2>7, Asked DEF c
  <2>9. TheArrays!Of(call'.on) = s /\ Len(s) = d.nItems
    BY <1>1, <2>8, Size_ DEF s
  <2>10. TheArrays!QuickRemove
    BY <2>1, <2>6, <2>7, <2>8, <2>9 DEF TheArrays!QuickRemove, Sequences_, t
  <2> QED BY <2>7, <2>10 DEF Step, TheArrays!Next
<1> QED BY <1>2, <1>3

(* parray.                                                                 *)
LEMMA QRemoveStep ==
    ASSUME ArraysInv, NEW a \in Names, NEW idx \in Nat, QRemove(a, idx)
    PROVE  Step
<1>1. IF idx >= arr[a].nItems THEN Refuse(Called("qremove", a, idx, 0, << >>, a))
      ELSE Lose(a, Plugged(arr[a], idx), Called("qremove", a, idx, 0, << >>, a), Part(arr[a], idx, 1))
  BY DEF QRemove
<1> QED BY <1>1, PlugStep

(* darray, of a client who only erases.                                    *)
LEMMA EraseStep ==
    ASSUME ~ReadSlot, ArraysInv, NEW a \in Names, NEW idx \in Nat, qremove(a, idx)
    PROVE  Step
<1>1. IF idx >= arr[a].nItems THEN Refuse(Called("qerase", a, idx, 0, << >>, a))
      ELSE Lose(a, Plugged(arr[a], idx), Called("qerase", a, idx, 0, << >>, a), << >>)
  BY DEF qremove
<1> QED BY <1>1, PlugStep

(* What is in the place is an element, whichever it is.                    *)
LEMMA QuickKeeps ==
    ASSUME ArraysInv, NEW a \in Names, NEW idx \in Nat, qremove(a, idx)
    PROVE  ArraysInv'
<1> DEFINE d == arr[a]
           size == d.nItems - 1
           c == Called(IF ReadSlot THEN "qremove" ELSE "qerase", a, idx, 0, << >>, a)
           e == [nItems |-> size, vItems |-> IF idx < size THEN memmove(d.vItems, idx, size, 1) ELSE d.vItems]
           out == IF ReadSlot THEN Part(e, idx, 1) ELSE << >>
<1>1. Held(d) /\ d.nItems \in Nat
  BY Size_
<1>2. CASE idx >= d.nItems
  <2>1. Refuse(c)
    BY <1>2 DEF qremove
  <2> QED BY <2>1, Refused
<1>3. CASE ~(idx >= d.nItems)
  <2>1. idx < d.nItems /\ size \in Nat /\ 1 \in Nat /\ idx + 1 <= d.nItems
    BY <1>1, <1>3
  <2>2. Lose(a, e, c, out)
    BY <1>3 DEF qremove, Plugged
  <2>3. Held(e)
    BY <1>1, <2>1, QuickGives, SMTT(30) DEF Front
  <2>4. e.nItems = size /\ size <= d.nItems
    BY <1>1
  <2>5. Part(e, idx, 1) \in Seq(Values)
    <3>1. CASE idx < size
      <4>1. idx + 1 <= e.nItems
        BY <2>1, <2>4, <3>1
      <4> HIDE DEF e
      <4> QED BY <2>1, <2>3, <4>1, PartIsSlice
    <3>2. CASE ~(idx < size)
      <4>1. e.vItems = d.vItems
        BY <3>2
      <4>2. Part(d, idx, 1) \in Seq(Values)
        BY <1>1, <2>1, PartIsSlice
      <4>3. Part(e, idx, 1) = Part(d, idx, 1)
        BY <4>1 DEF Part
      <4> QED BY <4>2, <4>3
    <3> QED BY <3>1, <3>2
  <2>6. out \in Seq(Values) /\ e.nItems <= arr[a].nItems
    <3> HIDE DEF e
    <3> QED BY <2>4, <2>5
  <2> HIDE DEF e, c, out
  <2> QED BY <2>2, <2>3, <2>6, Loses
<1> QED BY <1>2, <1>3

LEMMA ExchangeStep ==
    ASSUME ArraysInv, NEW a \in Names, NEW i \in Nat, NEW j \in Nat, xswap(a, i, j)
    PROVE  Step
<1> DEFINE d == arr[a]
           c == Called("xswap", a, i, j, << >>, a)
           v == d.vItems
           e == [d EXCEPT !.vItems = [v EXCEPT ![i + 1] = v[j + 1], ![j + 1] = v[i + 1]]]
           f == [nItems |-> d.nItems, vItems |-> Exchanged(v, i, j)]
           s == Items(d)
           t == Exchanged(s, i, j)
<1>1. Held(d) /\ d.nItems \in Nat /\ s \in Seq(Values) /\ Len(s) = d.nItems
  BY Size_, HeldItems
<1>2. CASE i >= d.nItems \/ j >= d.nItems
  <2>1. Refuse(c)
    BY <1>2 DEF xswap
  <2> HIDE DEF c
  <2>2. ArraysInv' /\ Sequences_' = Sequences_ /\ call' = c /\ ok' = FALSE /\ got' = << >>
    BY <2>1, Refused
  <2>3. call'.op = "xswap" /\ call'.on = a /\ call'.at = i /\ call'.n = j
    BY <2>2, Asked DEF c
  <2>4. TheArrays!Next
    BY <1>2, <2>2, <2>3, NoPlace
  <2> QED BY <2>2, <2>4 DEF Step
<1>3. CASE ~(i >= d.nItems \/ j >= d.nItems)
  <2>1. i < d.nItems /\ j < d.nItems
    BY <1>1, <1>3
  <2>2. e = f
    <3>1. d = [nItems |-> d.nItems, vItems |-> v]
      BY <1>1, HeldItems
    <3> QED BY <3>1 DEF Exchanged
  <2>3. Held(f) /\ Items(f) = t
    BY <1>1, <2>1, ExchangeGives
  <2>4. Becomes(a, {Good(f)}, c)
    <3>1. Becomes(a, {Good(e)}, c)
      BY <1>3 DEF xswap
    <3> HIDE DEF e, f, c
    <3> QED BY <2>2, <3>1
  <2> HIDE DEF e, f, c, t, s
  <2>5. \A r \in {Good(f)} : Held(r.d) /\ r.ok \in BOOLEAN /\ r.ok = TRUE /\ Items(r.d) = t
    BY <2>3, OneOutcome
  <2>6. PICK r \in {Good(f)} :
          /\ ArraysInv' /\ Sequences_' = [Sequences_ EXCEPT ![a] = Items(r.d)]
          /\ call' = c /\ ok' = r.ok /\ got' = << >>
    BY <2>4, <2>5, BecomesOne
  <2>7. call'.op = "xswap" /\ call'.on = a /\ call'.at = i /\ call'.n = j
    BY <2>6, Asked DEF c
  <2>8. Sequences_' = [Sequences_ EXCEPT ![a] = t] /\ ok'
    BY <2>5, <2>6
  <2>9. TheArrays!Of(call'.on) = s
    BY <2>7, Size_ DEF s
  <2>10. {call'.at, call'.n} \subseteq 0..(Len(s) - 1)
    BY <1>1, <2>1, <2>7
  <2>11. TheArrays!Becomes(t)
    BY <2>6, <2>7, <2>8 DEF TheArrays!Becomes, Sequences_
  <2>12. TheArrays!Exchange
    BY <2>7, <2>9, <2>10, <2>11 DEF TheArrays!Exchange, t, Exchanged
  <2> QED BY <2>6, <2>12 DEF Step, TheArrays!Next
<1> QED BY <1>2, <1>3

(* Memory given back or taken, and elements put in order.                  *)
LEMMA TruncateStep ==
    ASSUME ArraysInv, NEW a \in Names, NEW size \in Nat, Truncate(a, size)
    PROVE  Step
<1> DEFINE d == arr[a]
           c == Called("truncate", a, 0, size, << >>, a)
<1>1. Held(d) /\ Becomes(a, truncate(d, size), c)
  BY Size_ DEF Truncate
<1>2. \A r \in truncate(d, size) :
        /\ Held(r.d) /\ r.ok \in BOOLEAN
        /\ r.ok => \E n \in 0..d.nItems : (n = d.nItems \/ n >= size) /\ Items(r.d) = SubSeq(Items(d), 1, n)
        /\ ~r.ok => r.d = d
  BY <1>1, TruncateGives
<1> HIDE DEF c
<1>3. PICK r \in truncate(d, size) :
        /\ ArraysInv' /\ Sequences_' = [Sequences_ EXCEPT ![a] = Items(r.d)]
        /\ call' = c /\ ok' = r.ok /\ got' = << >>
  BY <1>1, <1>2, BecomesOne
<1>4. call'.op = "truncate" /\ call'.on = a /\ call'.n = size
  BY <1>3, Asked DEF c
<1>5. CASE r.ok
  <2>1. PICK n \in 0..d.nItems : (n = d.nItems \/ n >= size) /\ Items(r.d) = SubSeq(Items(d), 1, n)
    BY <1>2, <1>5
  <2>2. TheArrays!Of(call'.on) = Items(d) /\ Len(Items(d)) = d.nItems
    BY <1>4, Size_
  <2>3. Sequences_' = [Sequences_ EXCEPT ![a] = SubSeq(Items(d), 1, n)]
    BY <1>3, <2>1
  <2>4. TheArrays!Becomes(SubSeq(Items(d), 1, n))
    BY <1>3, <1>4, <1>5, <2>3 DEF TheArrays!Becomes, Sequences_
  <2>5. TheArrays!Cut
    BY <1>4, <2>1, <2>2, <2>4 DEF TheArrays!Cut
  <2> QED BY <1>3, <2>5 DEF Step, TheArrays!Next
<1>6. CASE ~r.ok
  <2>1. Sequences_' = Sequences_
    BY <1>2, <1>3, <1>6, SameArray
  <2>2. ok' = FALSE
    BY <1>2, <1>3, <1>6
  <2> QED BY <1>3, <1>4, <2>1, <2>2, Fails DEF Step
<1> QED BY <1>5, <1>6

LEMMA ReserveStep ==
    ASSUME ~ShrinkReserve, ArraysInv, NEW a \in Names, NEW n \in Nat, Reserve(a, n)
    PROVE  Step
<1> DEFINE d == arr[a]
           c == Called("reserve", a, 0, n, << >>, a)
<1>1. Held(d) /\ d.nItems \in Nat /\ d.nItems <= n /\ Becomes(a, grow(d, n), c)
  BY Size_ DEF Reserve
<1>2. \A r \in grow(d, n) : Held(r.d) /\ Items(r.d) = Items(d) /\ r.ok \in BOOLEAN
  BY <1>1, GrowGives
<1> HIDE DEF c
<1>3. PICK r \in grow(d, n) :
        /\ ArraysInv' /\ Sequences_' = [Sequences_ EXCEPT ![a] = Items(r.d)]
        /\ call' = c /\ ok' = r.ok /\ got' = << >>
  BY <1>1, <1>2, BecomesOne
<1>4. call'.op = "reserve" /\ call'.on = a
  BY <1>3, Asked DEF c
<1>5. CASE r.ok
  <2>1. TheArrays!Of(call'.on) = Items(d) /\ Sequences_' = [Sequences_ EXCEPT ![a] = Items(d)]
    BY <1>2, <1>3, <1>4, Size_
  <2>2. TheArrays!Reserve
    BY <1>3, <1>4, <1>5, <2>1 DEF TheArrays!Reserve, TheArrays!Becomes, Sequences_
  <2> QED BY <1>3, <2>2 DEF Step, TheArrays!Next
<1>6. CASE ~r.ok
  <2>1. Sequences_' = Sequences_
    BY <1>2, <1>3, SameArray
  <2>2. ok' = FALSE
    BY <1>2, <1>3, <1>6
  <2> QED BY <1>3, <1>4, <2>1, <2>2, Fails DEF Step
<1> QED BY <1>5, <1>6

LEMMA EmptyStep ==
    ASSUME ArraysInv, NEW a \in Names, Clear(a) \/ Flush(a)
    PROVE  Step
<1> DEFINE d == arr[a]
           c == Called("clear", a, 0, 0, << >>, a)
           e == [d EXCEPT !.nItems = 0]
<1>1. Held(d) /\ Items(d) \in Seq(Values) /\ d.nItems \in Nat
  BY Size_
<1>2. Held(e) /\ Items(e) = << >>
  <2>1. e = [nItems |-> 0, vItems |-> d.vItems]
    BY <1>1, HeldItems
  <2>2. d.vItems \in Seq(Cell) /\ 0 <= Len(d.vItems) /\ 0 <= d.nItems /\ 0 \in Nat /\ \A i \in 1..0 : d.vItems[i] = d.vItems[i]
    BY <1>1, HeldItems
  <2> HIDE DEF e
  <2>3. Held(e) /\ Items(e) = SubSeq(Items(d), 1, 0)
    BY <1>1, <2>1, <2>2, FewerItems
  <2>4. SubSeq(Items(d), 1, 0) = << >>
    BY <1>1
  <2> QED BY <2>3, <2>4
<1>3. PICK f \in {e, Fresh} : Becomes(a, {Good(f)}, c)
  BY DEF Clear, Flush
<1>4. Held(f) /\ Items(f) = << >>
  BY <1>2, <1>3, FreshHeld
<1> HIDE DEF c, e
<1>5. \A r \in {Good(f)} : Held(r.d) /\ r.ok \in BOOLEAN /\ r.ok = TRUE /\ Items(r.d) = << >>
  BY <1>4, OneOutcome
<1>6. PICK r \in {Good(f)} :
        /\ ArraysInv' /\ Sequences_' = [Sequences_ EXCEPT ![a] = Items(r.d)]
        /\ call' = c /\ ok' = r.ok /\ got' = << >>
  BY <1>3, <1>5, BecomesOne
<1>7. call'.op = "clear" /\ call'.on = a
  BY <1>6, Asked DEF c
<1>8. Sequences_' = [Sequences_ EXCEPT ![a] = << >>] /\ ok'
  BY <1>5, <1>6
<1>9. TheArrays!Clear
  BY <1>6, <1>7, <1>8 DEF TheArrays!Clear, TheArrays!Becomes, Sequences_
<1> QED BY <1>6, <1>9 DEF Step, TheArrays!Next

(* Counting is the same in both modules.                                   *)
LEMMA SameCardinality ==
    ASSUME NEW S
    PROVE  TheArrays!Cardinality(S) = Cardinality(S)
  BY DEF TheArrays!Cardinality, Cardinality

LEMMA SameCount ==
    ASSUME NEW s, NEW v
    PROVE  TheArrays!Count(s, v) = Count(s, v)
  BY SameCardinality DEF TheArrays!Count, Count

LEMMA SortedIs ==
    ASSUME NEW s \in Seq(Values), NEW t \in Sorted(s)
    PROVE  /\ TheArrays!Ordered(t)
           /\ \A v \in Values : TheArrays!Count(t, v) = TheArrays!Count(s, v)
<1>1. /\ t \in [DOMAIN s -> {s[i] : i \in DOMAIN s}]
      /\ \A i, j \in DOMAIN s : i < j => t[i] <= t[j]
      /\ \A i \in DOMAIN s : Count(t, s[i]) = Count(s, s[i])
  BY DEF Sorted
<1>2. TheArrays!Ordered(t)
  BY <1>1 DEF TheArrays!Ordered
<1>3. ASSUME NEW v \in Values
      PROVE  TheArrays!Count(t, v) = TheArrays!Count(s, v)
  <2>1. CASE \E i \in DOMAIN s : s[i] = v
    BY <1>1, <2>1, SameCount
  <2>2. CASE ~\E i \in DOMAIN s : s[i] = v
    <3>1. {i \in DOMAIN s : s[i] = v} = {} /\ {i \in DOMAIN t : t[i] = v} = {}
      BY <1>1, <2>2
    <3> QED BY <3>1 DEF TheArrays!Count
  <2> QED BY <2>1, <2>2
<1> QED BY <1>2, <1>3

LEMMA SortStep ==
    ASSUME ArraysInv, NEW a \in Names, qsort(a)
    PROVE  Step
<1> DEFINE d == arr[a]
           c == Called("sort", a, 0, 0, << >>, a)
           Put(t) == [d EXCEPT !.vItems = memcpy(@, 0, t)]
           outcomes == {Good(Put(t)) : t \in Sorted(Items(d))}
<1>1. Held(d) /\ Items(d) \in Seq(Values)
  BY Size_
<1>2. Becomes(a, outcomes, c)
  BY DEF qsort
<1>3. ASSUME NEW t \in Sorted(Items(d))
      PROVE  Held(Put(t)) /\ Items(Put(t)) = t
  <2>1. Put(t) = [nItems |-> d.nItems, vItems |-> memcpy(d.vItems, 0, t)]
    <3>1. d = [nItems |-> d.nItems, vItems |-> d.vItems]
      BY <1>1, HeldItems
    <3> QED BY <3>1
  <2> DEFINE e == Put(t)
  <2>2. e = [nItems |-> d.nItems, vItems |-> memcpy(d.vItems, 0, t)]
    BY <2>1
  <2> HIDE DEF e
  <2>3. Held(e) /\ Items(e) = t
    BY <1>1, <2>2, SortGives
  <2> QED BY <2>3 DEF e
<1> HIDE DEF Put, c
<1>4. ASSUME NEW r \in outcomes
      PROVE  Held(r.d) /\ r.ok \in BOOLEAN /\ r.ok = TRUE /\ Items(r.d) \in Sorted(Items(d))
  <2>1. PICK t \in Sorted(Items(d)) : r = Good(Put(t))
    OBVIOUS
  <2>2. r.d = Put(t) /\ r.ok = TRUE
    BY <2>1 DEF Good
  <2> QED BY <1>3, <2>2
<1> HIDE DEF outcomes
<1>5. PICK r \in outcomes :
        /\ ArraysInv' /\ Sequences_' = [Sequences_ EXCEPT ![a] = Items(r.d)]
        /\ call' = c /\ ok' = r.ok /\ got' = << >>
  BY <1>2, <1>4, BecomesOne
<1>6. call'.op = "sort" /\ call'.on = a
  BY <1>5, Asked DEF c
<1> DEFINE t == Items(r.d)
<1>7. t \in Sorted(Items(d)) /\ Sequences_' = [Sequences_ EXCEPT ![a] = t] /\ ok'
  BY <1>4, <1>5
<1> HIDE DEF t
<1>8. /\ TheArrays!Ordered(t)
      /\ \A v \in Values : TheArrays!Count(t, v) = TheArrays!Count(Items(d), v)
  BY <1>1, <1>7, SortedIs
<1>9. TheArrays!Of(call'.on) = Items(d) /\ Sequences_'[call'.on] = t
  <2>1. Sequences_'[a] = t
    BY <1>7 DEF Sequences_
  <2> QED BY <1>6, <2>1, Size_
<1>10. TheArrays!Becomes(t)
  BY <1>5, <1>6, <1>7 DEF TheArrays!Becomes, Sequences_
<1>11. TheArrays!Sort
  BY <1>6, <1>8, <1>9, <1>10 DEF TheArrays!Sort, Sequences_
<1> QED BY <1>5, <1>11 DEF Step, TheArrays!Next

(* Snapshots.                                                              *)
LEMMA CopyGives ==
    ASSUME NEW s \in Seq(Values), NEW r \in Copied(s)
    PROVE  Held(r.d) /\ r.ok \in BOOLEAN /\ (r.ok => Items(r.d) = s)
<1>1. PICK q \in grow(Fresh, Len(s)) : r \in (IF q.ok THEN append(q.d, s) ELSE {q})
  BY DEF Copied
<1>2. Fresh.nItems <= Len(s) /\ Len(s) \in Nat
  BY DEF Fresh
<1>3. Held(q.d) /\ Items(q.d) = << >> /\ q.ok \in BOOLEAN
  BY <1>2, FreshHeld, GrowGives
<1>4. CASE q.ok
  <2>1. Held(r.d) /\ Items(r.d) = (IF r.ok THEN Items(q.d) \o s ELSE Items(q.d)) /\ r.ok \in BOOLEAN
    BY <1>1, <1>3, <1>4, AppendGives
  <2>2. << >> \o s = s
    BY ConcatEmptySeq
  <2> QED BY <1>3, <2>1, <2>2
<1>5. CASE ~q.ok
  BY <1>1, <1>3, <1>5
<1> QED BY <1>4, <1>5

LEMMA TableElements ==
    ASSUME NEW t \in Tables
    PROVE  KeysOf(t) \in Seq(Values) /\ ValuesOf(t) \in Seq(Values)
<1>1. t \in Seq(Values \X Values)
  BY TablesAssumption
<1>2. DOMAIN t = 1..Len(t) /\ Len(t) \in Nat /\ \A i \in DOMAIN t : t[i][1] \in Values /\ t[i][2] \in Values
  BY <1>1
<1>3. KeysOf(t) \in [1..Len(t) -> Values] /\ ValuesOf(t) \in [1..Len(t) -> Values]
  BY <1>2 DEF KeysOf, ValuesOf
<1> QED BY <1>2, <1>3, FunctionIsSequence

LEMMA OneStep ==
    ASSUME ArraysInv, NEW a \in Names, NEW s \in Seq(Values), NEW index, One(index, a, s)
    PROVE  Step
<1> DEFINE c == Called("keys", a, 0, 0, s, a)
<1>1. PICK r \in Copied(s) :
        IF r.ok THEN /\ Fits(a, r.d) /\ arr' = [arr EXCEPT ![a] = r.d]
                     /\ Return(c, TRUE, << >>)
        ELSE Refuse(c)
  BY DEF One
<1> HIDE DEF c
<1>2. Held(r.d) /\ r.ok \in BOOLEAN /\ (r.ok => Items(r.d) = s)
  BY CopyGives
<1>3. CASE r.ok
  <2>1. arr' = [arr EXCEPT ![a] = r.d] /\ call' = c /\ ok' = TRUE /\ got' = << >> /\ r.d.nItems <= MaxItems[a]
    BY <1>1, <1>3 DEF Return, Fits
  <2>2. << >> \in Seq(Values)
    OBVIOUS
  <2>3. ArraysInv' /\ Sequences_' = [Sequences_ EXCEPT ![a] = Items(r.d)]
    BY <1>2, <2>1, <2>2, Replaced
  <2>4. Sequences_' = [Sequences_ EXCEPT ![a] = s]
    BY <1>2, <1>3, <2>3
  <2>5. call'.op = "keys" /\ call'.on = a /\ call'.src = s
    BY <2>1, Asked DEF c
  <2>6. TheArrays!Keys
    BY <2>1, <2>4, <2>5 DEF TheArrays!Keys, TheArrays!Becomes, Sequences_
  <2> QED BY <2>3, <2>6 DEF Step, TheArrays!Next
<1>4. CASE ~r.ok
  <2>1. ArraysInv' /\ Sequences_' = Sequences_ /\ call' = c /\ ok' = FALSE /\ got' = << >>
    BY <1>1, <1>4, Refused
  <2>2. call'.op = "keys"
    BY <2>1, Asked DEF c
  <2> QED BY <2>1, <2>2, Fails DEF Step
<1> QED BY <1>2, <1>3, <1>4

LEMMA BothStep ==
    ASSUME ArraysInv, NEW a \in Names, NEW b \in Names, a # b, NEW t \in Tables, NEW index, Both(index, a, b, t)
    PROVE  Step
<1> DEFINE c == Called("items", a, 0, 0, t, b)
<1>1. PICK r \in Copied(KeysOf(t)), q \in Copied(ValuesOf(t)) :
        IF r.ok /\ q.ok
        THEN /\ Fits(a, r.d) /\ Fits(b, q.d) /\ arr' = [arr EXCEPT ![a] = r.d, ![b] = q.d]
             /\ Return(c, TRUE, << >>)
        ELSE Refuse(c)
  BY DEF Both
<1> HIDE DEF c
<1>2. /\ Held(r.d) /\ r.ok \in BOOLEAN /\ (r.ok => Items(r.d) = KeysOf(t))
      /\ Held(q.d) /\ q.ok \in BOOLEAN /\ (q.ok => Items(q.d) = ValuesOf(t))
  BY TableElements, CopyGives
<1>3. CASE r.ok /\ q.ok
  <2>1. /\ arr' = [arr EXCEPT ![a] = r.d, ![b] = q.d] /\ call' = c /\ ok' = TRUE /\ got' = << >>
        /\ r.d.nItems <= MaxItems[a] /\ q.d.nItems <= MaxItems[b]
    BY <1>1, <1>3 DEF Return, Fits
  <2>2. << >> \in Seq(Values) /\ ok' \in BOOLEAN /\ got' \in Seq(Values)
    BY <2>1
  <2>3. arr' = Two(arr, a, r.d, b, q.d)
    <3>1. [arr EXCEPT ![a] = r.d, ![b] = q.d] = Two(arr, a, r.d, b, q.d)
      BY TwoOf, Functions_
    <3> QED BY <2>1, <3>1
  <2>4. ArraysInv' /\ Sequences_' = Two(Sequences_, a, Items(r.d), b, Items(q.d))
    <3>1. r.d.nItems <= MaxItems[a] /\ q.d.nItems <= MaxItems[b]
      BY <2>1
    <3> QED BY <1>2, <2>2, <2>3, <3>1, ReplacedTwo
  <2>5. Sequences_' = Two(Sequences_, a, KeysOf(t), b, ValuesOf(t))
    BY <1>2, <1>3, <2>4
  <2>6. Sequences_' = [Sequences_ EXCEPT ![a] = KeysOf(t), ![b] = ValuesOf(t)]
    <3>1. [Sequences_ EXCEPT ![a] = KeysOf(t), ![b] = ValuesOf(t)] = Two(Sequences_, a, KeysOf(t), b, ValuesOf(t))
      BY TwoOf, Functions_
    <3> QED BY <2>5, <3>1
  <2>7. call'.op = "items" /\ call'.on = a /\ call'.to = b /\ call'.src = t
    BY <2>1, Asked DEF c
  <2>8. TheArrays!Pairs
    BY <2>1, <2>6, <2>7 DEF TheArrays!Pairs, Sequences_, KeysOf, ValuesOf
  <2> QED BY <2>4, <2>8 DEF Step, TheArrays!Next
<1>4. CASE ~(r.ok /\ q.ok)
  <2>1. ArraysInv' /\ Sequences_' = Sequences_ /\ call' = c /\ ok' = FALSE /\ got' = << >>
    BY <1>1, <1>4, Refused
  <2>2. call'.op = "items"
    BY <2>1, Asked DEF c
  <2> QED BY <2>1, <2>2, Fails DEF Step
<1> QED BY <1>3, <1>4

LEMMA SnapshotStep == ASSUME ArraysInv, Snapshots PROVE Step
<1>1. PICK index \in {FALSE, IndexSnapshots}, t \in Tables, a \in Names :
        \/ One(index, a, KeysOf(t)) \/ One(index, a, ValuesOf(t))
        \/ \E b \in Names \ {a} : Both(index, a, b, t)
  BY DEF Snapshots
<1>2. CASE One(index, a, KeysOf(t)) \/ One(index, a, ValuesOf(t))
  BY <1>2, TableElements, OneStep
<1>3. CASE \E b \in Names \ {a} : Both(index, a, b, t)
  BY <1>3, BothStep
<1> QED BY <1>1, <1>2, <1>3

(* Every method, but for qremove() of a darray, is the one of a sequence.  *)
LEMMA NextStep ==
    ASSUME ~PastEnd, ~ShrinkReserve, ArraysInv, Next
    PROVE  Step \/ \E a \in Names, idx \in Nat : qremove(a, idx)
<1>1. PICK a \in Names :
        LET places == 0..(arr[a].nItems + 1)
            others == Names \ {a}
        IN  \/ \E s \in Given(a) : Append_(a, s) \/ Assign(a, s)
            \/ \E at \in places, s \in Given(a) : Insert(a, at, s) \/ Write(a, at, s)
            \/ \E at \in places, n \in places : iremove(a, at, n) \/ premove(a, at, n) \/ xswap(a, at, n)
            \/ \E n \in places : pop(a, n) \/ qremove(a, n) \/ QRemove(a, n) \/ Truncate(a, n)
            \/ \E n \in places, b \in others : \E at \in places : MoveTo(a, at, n, b)
            \/ \E v \in Values : QPRemove(a, v) \/ \E n \in 0..2 : PRemoveValue(a, v, n)
            \/ \E c \in 0..MaxCap[a] : Reserve(a, c)
            \/ \E b \in others : swap(a, b)
            \/ Clear(a) \/ Flush(a) \/ qsort(a)
  BY DEF Next
<1> DEFINE d == arr[a]
           places == 0..(d.nItems + 1)
<1>s. Sound(d) /\ d.nItems \in Nat /\ places \subseteq Nat
  BY Size_
<1>2. CASE \E s \in Given(a) : Append_(a, s) \/ Assign(a, s)
  BY <1>2, GivenElements, AppendStep, AssignStep
<1>3. CASE \E at \in places, s \in Given(a) : Insert(a, at, s) \/ Write(a, at, s)
  BY <1>3, <1>s, GivenElements, InsertStep, WriteStep
<1>4. CASE \E at \in places, n \in places : iremove(a, at, n) \/ premove(a, at, n) \/ xswap(a, at, n)
  BY <1>4, <1>s, RemoveStep, AddressStep, ExchangeStep
<1>5. CASE \E n \in places : pop(a, n) \/ qremove(a, n) \/ QRemove(a, n) \/ Truncate(a, n)
  BY <1>5, <1>s, PopStep, QRemoveStep, TruncateStep
<1>6. CASE \E n \in places, b \in Names \ {a} : \E at \in places : MoveTo(a, at, n, b)
  BY <1>6, <1>s, MoveStep
<1>7. CASE \E v \in Values : QPRemove(a, v) \/ \E n \in 0..2 : PRemoveValue(a, v, n)
  <2>1. PICK v \in Values : QPRemove(a, v) \/ \E n \in 0..2 : PRemoveValue(a, v, n)
    BY <1>7
  <2>2. CASE index_of(d, v) < 0
    <3>1. CASE QPRemove(a, v)
      <4> DEFINE c == Called("qremove", a, d.nItems, 0, << >>, a)
      <4>1. Refuse(c)
        BY <2>2, <3>1 DEF QPRemove
      <4> HIDE DEF c
      <4>2. ArraysInv' /\ Sequences_' = Sequences_ /\ call' = c /\ ok' = FALSE /\ got' = << >>
        BY <4>1, Refused
      <4>3. call'.op = "qremove" /\ call'.on = a /\ call'.at = d.nItems /\ call'.n = 0 /\ d.nItems >= d.nItems
        BY <1>s, <4>2, Asked DEF c
      <4>4. TheArrays!Next
        BY <1>s, <4>2, <4>3, NoPlace
      <4> QED BY <4>2, <4>4 DEF Step
    <3>2. CASE \E n \in 0..2 : PRemoveValue(a, v, n)
      <4>1. PICK n \in 0..2 : Refuse(Called("remove", a, d.nItems, n, << >>, a))
        BY <2>2, <3>2 DEF PRemoveValue
      <4>2. d.nItems \in Nat /\ n \in Nat /\ d.nItems = arr[a].nItems
        BY <1>s
      <4> HIDE DEF d, places
      <4>3. Refuse(Called("remove", a, d.nItems, n, << >>, a)) /\ d.nItems = arr[a].nItems
        BY <4>1, <4>2 DEF d
      <4> QED BY <4>2, <4>3, NoElements
    <3> QED BY <2>1, <3>1, <3>2
  <2>3. CASE ~(index_of(d, v) < 0)
    <3>1. index_of(d, v) \in Nat /\ 0..2 \subseteq Nat
      BY <1>s, <2>3, IndexInside
    <3>2. QRemove(a, index_of(d, v)) \/ \E n \in 0..2 : iremove(a, index_of(d, v), n)
      BY <2>1, <2>3 DEF QPRemove, PRemoveValue
    <3> QED BY <3>1, <3>2, QRemoveStep, RemoveStep
  <2> QED BY <2>2, <2>3
<1>8. CASE \E c \in 0..MaxCap[a] : Reserve(a, c)
  BY <1>8, ArrayAssumption, ReserveStep
<1>9. CASE \E b \in Names \ {a} : swap(a, b)
  BY <1>9, SwapStep
<1>10. CASE Clear(a) \/ Flush(a) \/ qsort(a)
  BY <1>10, EmptyStep, SortStep
<1> QED BY <1>1, <1>2, <1>3, <1>4, <1>5, <1>6, <1>7, <1>8, <1>9, <1>10

-----------------------------------------------------------------------------
(* A client who takes elements by address only where the array holds them,
   and reserves no less than there are, never makes a method of darray or
   parray write or read behind the memory of an array, whatever realloc()
   answers and however he mixes the methods and the snapshots that the hash
   containers put into his arrays.                                         *)
THEOREM NeverOutOfBounds ==
    ASSUME ~PastEnd, ~ShrinkReserve
    PROVE  ClientSpec => []InBounds
<1>1. ClientInit => AllSound
  BY FreshSound DEF ClientInit, Init, AllSound
<1>2. ASSUME AllSound, [ClientNext]_<<vars, lost>>
      PROVE  AllSound'
  <2>1. CASE ClientNext
    BY <1>2, <2>1, NextSound, SnapshotSound DEF ClientNext
  <2>2. CASE UNCHANGED <<vars, lost>>
    BY <1>2, <2>2 DEF vars, AllSound
  <2> QED BY <1>2, <2>1, <2>2
<1>3. AllSound => InBounds
  BY DEF AllSound, Sound, InBounds, nCapacity
<1> QED BY <1>1, <1>2, <1>3, PTL DEF ClientSpec

-----------------------------------------------------------------------------
(* The first state and every step, of a client who takes snapshots, too.   *)
LEMMA InitHolds == ASSUME ClientInit PROVE ArraysInv /\ TheArrays!Init
<1>1. \A a \in Names : arr[a] = Fresh
  BY DEF ClientInit, Init
<1>2. ok = TRUE /\ got = << >> /\ arr = [a \in Names |-> Fresh] /\ << >> \in Seq(Values)
  BY DEF ClientInit, Init
<1>3. \A a \in Names : Held(arr[a]) /\ Items(arr[a]) = << >> /\ arr[a].nItems = 0
  BY <1>1, FreshHeld DEF Fresh
<1>4. \A a \in Names : 0 <= MaxItems[a]
  BY ArrayAssumption
<1> QED BY <1>2, <1>3, <1>4 DEF ArraysInv, TheArrays!Init

LEMMA ClientStep ==
    ASSUME ~PastEnd, ~ShrinkReserve, ArraysInv, [ClientNext]_<<vars, lost>>
    PROVE  ArraysInv' /\ (~ReadSlot => [TheArrays!Next]_TheArrays!vars)
<1>1. CASE Step
  BY <1>1 DEF Step
<1>2. CASE \E a \in Names, idx \in Nat : qremove(a, idx)
  BY <1>2, QuickKeeps, EraseStep DEF Step
<1>3. CASE UNCHANGED <<vars, lost>>
  BY <1>3 DEF vars, TheArrays!vars, ArraysInv, Sequences_
<1> QED BY <1>1, <1>2, <1>3, NextStep, SnapshotStep DEF ClientNext

(* The arrays stay sound, whatever clients read.                           *)
LEMMA ArraysHold ==
    ASSUME ~PastEnd, ~ShrinkReserve
    PROVE  ClientSpec => []ArraysInv
<1>1. ClientInit => ArraysInv
  BY InitHolds
<1>2. ArraysInv /\ [ClientNext]_<<vars, lost>> => ArraysInv'
  BY ClientStep
<1> QED BY <1>1, <1>2, PTL DEF ClientSpec

(* Whatever realloc() answers, every call does to the elements what it would
   to a sequence, for a client who does not read what qremove() of a darray
   returns the address of.                                                 *)
THEOREM ArraysKeepPromise ==
    ASSUME ~PastEnd, ~ReadSlot, ~ShrinkReserve
    PROVE  ClientSpec => TheArrays!Spec
<1>1. ClientInit => TheArrays!Init
  BY InitHolds
<1>2. ArraysInv /\ [ClientNext]_<<vars, lost>> => [TheArrays!Next]_TheArrays!vars
  BY ClientStep
<1> QED BY <1>1, <1>2, ArraysHold, PTL DEF ClientSpec, TheArrays!Spec

(* keys(), values() and items() of the containers other than hash_index free
   every block that they replace or give up, whichever of their allocations
   fails.                                                                  *)
THEOREM NoBlockLost ==
    ASSUME ~IndexSnapshots
    PROVE  ClientSpec => []BlocksOwned
<1>1. ClientInit => BlocksOwned
  BY DEF ClientInit, BlocksOwned
<1>2. BlocksOwned /\ [ClientNext]_<<vars, lost>> => BlocksOwned'
  <2> SUFFICES ASSUME BlocksOwned, [ClientNext]_<<vars, lost>> PROVE BlocksOwned'
    OBVIOUS
  <2>0. \A d : Left(FALSE, d) = 0
    BY DEF Left
  <2>1. ASSUME NEW index, index = FALSE, NEW a, NEW s, One(index, a, s) PROVE BlocksOwned'
    <3>1. \E r \in Copied(s) :
            IF r.ok THEN lost' = lost + Left(index, arr[a]) ELSE lost' = lost
      BY <2>1, ZenonT(40) DEF One
    <3>2. Left(index, arr[a]) = 0
      BY <2>0, <2>1
    <3> QED BY <3>1, <3>2 DEF BlocksOwned
  <2>2. ASSUME NEW index, index = FALSE, NEW a, NEW b, NEW t, Both(index, a, b, t) PROVE BlocksOwned'
    <3>1. \E r \in Copied(KeysOf(t)), q \in Copied(ValuesOf(t)) :
            IF r.ok /\ q.ok THEN lost' = lost + Left(index, arr[a]) + Left(index, arr[b])
            ELSE lost' = lost + Left(index, r.d)
      BY <2>2, ZenonT(40) DEF Both
    <3>2. \A d : Left(index, d) = 0
      BY <2>0, <2>2
    <3> QED BY <3>1, <3>2 DEF BlocksOwned
  <2>3. {FALSE, IndexSnapshots} = {FALSE}
    BY TablesAssumption
  <2>4. CASE Snapshots
    BY <2>1, <2>2, <2>3, <2>4 DEF Snapshots
  <2>5. CASE UNCHANGED lost
    BY <2>5 DEF BlocksOwned
  <2> QED BY <2>4, <2>5 DEF ClientNext
<1> QED BY <1>1, <1>2, PTL DEF ClientSpec

-----------------------------------------------------------------------------
(* The theorems about a bitset, for the one of this module.                *)
TheBitProofs == INSTANCE BitSetProofs WITH call <- bitCall, Patterns <-
    {[i \in 1..(MaxBits + 1) |-> i % 2], [i \in 1..(MaxBits + 1) |-> IF i % 3 = 0 THEN 0 ELSE 1]}

LEMMA BitsAssumed == TheBitProofs!BitSetAssumption
  BY BitsAssumption DEF TheBits!BitSetAssumption, TheBitProofs!BitSetAssumption

(* Both instances have the same actions.                                   *)
LEMMA SameBits ==
    /\ TheBits!Init <=> TheBitProofs!Init
    /\ TheBits!Next <=> TheBitProofs!Next
    /\ TheBits!HiddenBitsClear <=> TheBitProofs!HiddenBitsClear
    /\ TheBits!TypeOK <=> TheBitProofs!TypeOK
<1>1. TheBits!Init <=> TheBitProofs!Init
  BY DEF TheBits!Init, TheBitProofs!Init, TheBits!Called, TheBitProofs!Called
<1>2. TheBits!HiddenBitsClear <=> TheBitProofs!HiddenBitsClear
  BY DEF TheBits!HiddenBitsClear, TheBitProofs!HiddenBitsClear, TheBits!nCapacity, TheBitProofs!nCapacity,
         TheBits!Words, TheBitProofs!Words, TheBits!Get, TheBitProofs!Get, TheBits!WordOf, TheBitProofs!WordOf
<1>3. TheBits!TypeOK <=> TheBitProofs!TypeOK
  BY DEF TheBits!TypeOK, TheBitProofs!TypeOK, TheBits!Places, TheBitProofs!Places
<1>4. TheBits!Next <=> TheBitProofs!Next
  BY DEF TheBits!Next, TheBitProofs!Next, TheBits!set, TheBitProofs!set, TheBits!unset, TheBitProofs!unset,
         TheBits!toggle, TheBitProofs!toggle, TheBits!SetValues, TheBitProofs!SetValues,
         TheBits!SetBit, TheBitProofs!SetBit, TheBits!UnsetBit, TheBitProofs!UnsetBit,
         TheBits!ToggleBit, TheBitProofs!ToggleBit, TheBits!SetAll, TheBitProofs!SetAll,
         TheBits!UnsetAll, TheBitProofs!UnsetAll, TheBits!ToggleAll, TheBitProofs!ToggleAll,
         TheBits!resize, TheBitProofs!resize, TheBits!swap, TheBitProofs!swap,
         TheBits!clear, TheBitProofs!clear, TheBits!flush, TheBitProofs!flush,
         TheBits!RangeOf, TheBitProofs!RangeOf, TheBits!One, TheBitProofs!One, TheBits!All, TheBitProofs!All,
         TheBits!Become, TheBitProofs!Become, TheBits!Return, TheBitProofs!Return,
         TheBits!Called, TheBitProofs!Called, TheBits!Clip, TheBitProofs!Clip,
         TheBits!Masks, TheBitProofs!Masks, TheBits!Rest, TheBitProofs!Rest, TheBits!Written, TheBitProofs!Written,
         TheBits!MaskOf, TheBitProofs!MaskOf, TheBits!BitMask, TheBitProofs!BitMask,
         TheBits!Ones, TheBitProofs!Ones, TheBits!Zeroes, TheBitProofs!Zeroes, TheBits!Toggled, TheBitProofs!Toggled,
         TheBits!Low, TheBitProofs!Low, TheBits!High, TheBitProofs!High, TheBits!Shifted, TheBitProofs!Shifted,
         TheBits!Places, TheBitProofs!Places, TheBits!Words, TheBitProofs!Words,
         TheBits!nCapacity, TheBitProofs!nCapacity, TheBits!WordOf, TheBitProofs!WordOf,
         TheBits!Get, TheBitProofs!Get
<1> QED BY <1>1, <1>2, <1>3, <1>4

(* What the arrays do is a client's behaviour, and so is what the bitset does. *)
LEMMA EachAlone == Spec_ => ClientSpec /\ TheBitProofs!Spec
<1>1. InitSequences => ClientInit /\ TheBitProofs!Init
  BY SameBits DEF InitSequences
<1>2. [NextSequences]_all => [ClientNext]_<<vars, lost>> /\ [TheBitProofs!Next]_TheBitProofs!vars
  BY SameBits DEF NextSequences, all, bitVars, vars, TheBitProofs!vars
<1> QED BY <1>1, <1>2, PTL DEF Spec_, ClientSpec, TheBitProofs!Spec

(* A client who does not call set_all() after clear() finds a word for every
   bit and zeroes in the bits that a later resize() shows.                 *)
THEOREM NoHiddenBits ==
    ASSUME ~SetAllCleared
    PROVE  Spec_ => []HiddenBitsClear
<1>1. TheBitProofs!Spec => []TheBitProofs!HiddenBitsClear
  BY BitsAssumed, TheBitProofs!NoHiddenBits
<1>2. TheBitProofs!HiddenBitsClear => HiddenBitsClear
  BY SameBits DEF HiddenBitsClear
<1> QED BY <1>1, <1>2, EachAlone, PTL

LEMMA ArraysTyped == ASSUME ArraysInv PROVE TypeOK
<1> SUFFICES ASSUME NEW a \in Names
             PROVE  arr[a] \in [nItems : 0..(SizeMod - 1), vItems : Seq(Values \cup {Junk})]
  BY DEF ArraysInv, TypeOK
<1>1. Held(arr[a]) /\ arr[a].nItems <= MaxItems[a]
  BY DEF ArraysInv
<1>2. arr[a].nItems \in Nat /\ arr[a] = [nItems |-> arr[a].nItems, vItems |-> arr[a].vItems]
      /\ arr[a].vItems \in Seq(Values \cup {Junk})
  BY <1>1 DEF Held, Sound, Cell
<1>3. MaxItems[a] \in Nat /\ MaxItems[a] <= SizeMod - 1 /\ SizeMod \in Nat
  BY ArrayAssumption
<1>4. arr[a].nItems \in 0..(SizeMod - 1)
  BY <1>1, <1>2, <1>3
<1> QED BY <1>2, <1>4

(* Cells, words and answers have their types, and a count of elements never
   wraps around.                                                           *)
THEOREM TypesCorrect ==
    ASSUME ~PastEnd, ~ShrinkReserve, ~SetAllCleared
    PROVE  Spec_ => []TypesOK
<1>1. ClientSpec => []ArraysInv
  BY ArraysHold
<1>2. TheBitProofs!Spec => []TheBitProofs!TypeOK
  BY BitsAssumed, TheBitProofs!BitTypes
<1>3. ArraysInv /\ TheBitProofs!TypeOK => TypesOK
  BY SameBits, ArraysTyped DEF TypesOK
<1> QED BY <1>1, <1>2, <1>3, EachAlone, PTL

(* The sequence of bits that the bitset shows is the same in both instances. *)
LEMMA SameSequence ==
    /\ TheBitProofs!Promise!Init => TheSequence!Init
    /\ [TheBitProofs!Promise!Next]_TheBitProofs!Promise!vars => [TheSequence!Next]_TheSequence!vars
<1>1. TheBitProofs!Promise!Init => TheSequence!Init
  BY DEF TheBitProofs!Promise!Init, TheSequence!Init, TheBitProofs!Shown, TheBitProofs!Get, TheBitProofs!WordOf,
         TheBits!Get, TheBits!WordOf
<1>2. UNCHANGED TheBitProofs!Promise!vars => UNCHANGED TheSequence!vars
  BY DEF TheBitProofs!Promise!vars, TheSequence!vars, TheBitProofs!Shown, TheBitProofs!Get, TheBitProofs!WordOf,
         TheBits!Get, TheBits!WordOf
<1>3. TheBitProofs!Promise!Next => TheSequence!Next
  BY DEF TheBitProofs!Promise!Next, TheSequence!Next,
         TheBitProofs!Promise!Range, TheSequence!Range,
         TheBitProofs!Promise!One, TheSequence!One,
         TheBitProofs!Promise!Resize, TheSequence!Resize,
         TheBitProofs!Promise!Clear, TheSequence!Clear,
         TheBitProofs!Promise!Swap, TheSequence!Swap,
         TheBitProofs!Promise!RangeCount, TheSequence!RangeCount,
         TheBitProofs!Promise!Changed, TheSequence!Changed,
         TheBitProofs!Promise!Given, TheSequence!Given,
         TheBitProofs!Promise!Resized, TheSequence!Resized,
         TheBitProofs!Promise!Clipped, TheSequence!Clipped,
         TheBitProofs!Promise!Inside, TheSequence!Inside,
         TheBitProofs!Promise!Bit, TheSequence!Bit,
         TheBitProofs!Promise!Cut, TheSequence!Cut,
         TheBitProofs!Shown, TheBitProofs!Get, TheBitProofs!WordOf, TheBits!Get, TheBits!WordOf
<1> QED BY <1>1, <1>2, <1>3

(* Every method of the arrays, of the snapshots and of the bitset does to the
   elements or bits, and hands out or returns, what it would with a sequence;
   and a call that fails changes nothing.  Growth, the moves within the cells and
   the masks within the words do not show, whatever their sizes.  What qremove()
   of a darray returns the address of is another element than a sequence would
   hand out: the theorem is about clients who do not read it (ReadSlot).   *)
THEOREM PromiseKept ==
    ASSUME ~PastEnd, ~ReadSlot, ~ShrinkReserve, ~SetAllCleared
    PROVE  Spec_ => Implements
<1>1. ClientSpec => TheArrays!Spec
  BY ArraysKeepPromise
<1>2. TheBitProofs!Spec => TheBitProofs!Promise!Spec
  BY BitsAssumed, TheBitProofs!BitsKeepPromise
<1>3. TheBitProofs!Promise!Spec => TheSequence!Spec
  BY SameSequence, PTL DEF TheBitProofs!Promise!Spec, TheSequence!Spec
<1> QED BY <1>1, <1>2, <1>3, EachAlone, PTL DEF Implements

-----------------------------------------------------------------------------
(* The iterators.                                                          *)

(* The iterator over n elements, in either direction, that has been advanced k
   times.                                                                  *)
At(n, reverse, k) ==
    IF k = n THEN INVALID
    ELSE [of |-> n, index |-> IF reverse THEN n - 1 - k ELSE k, reversive |-> reverse]

(* It moves by any distance, or leaves the elements.                       *)
LEMMA Moves ==
    ASSUME NEW n \in Nat, NEW reverse \in BOOLEAN, NEW k \in 0..(n - 1), NEW j \in 0..n
    PROVE  advance(At(n, reverse, k), j - k) = At(n, reverse, j)
<1> DEFINE index == IF reverse THEN n - 1 - k ELSE k
           i == [of |-> n, index |-> index, reversive |-> reverse]
           by == IF reverse THEN -(j - k) ELSE j - k
<1>1. At(n, reverse, k) = i /\ index \in Int /\ by \in Int /\ n # NULL
  BY DEF At, NULL
<1>2. advance(i, j - k) = IF index + by \in 0..(n - 1) THEN [i EXCEPT !.index = index + by] ELSE INVALID
  BY <1>1 DEF advance, iter_move, count
<1>3. [i EXCEPT !.index = index + by] = [of |-> n, index |-> index + by, reversive |-> reverse]
  OBVIOUS
<1>4. index + by = IF reverse THEN n - 1 - j ELSE j
  OBVIOUS
<1>5. index + by \in 0..(n - 1) <=> j # n
  BY <1>4
<1> HIDE DEF i, index, by
<1> QED BY <1>1, <1>2, <1>3, <1>4, <1>5 DEF At

LEMMA Starts ==
    ASSUME NEW n \in Nat
    PROVE  iter(n) = At(n, FALSE, 0) /\ riter(n) = At(n, TRUE, 0)
  BY DEF iter, riter, At

(* The recursive definition of the property gives it.                      *)
LEMMA AdvancedIs ==
    ASSUME NEW n \in Nat, NEW reverse \in BOOLEAN, NEW k \in 0..n
    PROVE  Advanced(At(n, reverse, 0), n)[k] = At(n, reverse, k)
<1> DEFINE start == At(n, reverse, 0)
           g == [i \in 0..n |-> At(n, reverse, i)]
           IsPlace(f) == f = [i \in 0..n |-> IF i = 0 THEN start ELSE advance(f[i - 1], 1)]
           P == Advanced(start, n)
<1>1. IsPlace(g)
  <2>1. ASSUME NEW i \in 0..n
        PROVE  At(n, reverse, i) = IF i = 0 THEN start ELSE advance(g[i - 1], 1)
    <3>1. CASE i = 0
      BY <3>1
    <3>2. CASE i # 0
      <4>1. i - 1 \in 0..(n - 1) /\ i - (i - 1) = 1 /\ g[i - 1] = At(n, reverse, i - 1)
        BY <3>2
      <4>2. advance(At(n, reverse, i - 1), i - (i - 1)) = At(n, reverse, i)
        BY <4>1, Moves
      <4> QED BY <3>2, <4>1, <4>2
    <3> QED BY <3>1, <3>2
  <2> QED BY <2>1
<1>2. P = CHOOSE f : IsPlace(f)
  BY DEF Advanced
<1> HIDE DEF g
<1>3. IsPlace(P)
  BY <1>1, <1>2
<1> HIDE DEF P
<1>4. P[0] = start /\ \A i \in 0..(n - 1) : P[i + 1] = advance(P[i], 1)
  <2>1. \A i \in 0..n : P[i] = IF i = 0 THEN start ELSE advance(P[i - 1], 1)
    BY <1>3
  <2>2. \A i \in 0..(n - 1) : i + 1 \in 0..n /\ i + 1 # 0 /\ (i + 1) - 1 = i
    OBVIOUS
  <2>3. 0 \in 0..n
    OBVIOUS
  <2> QED BY <2>1, <2>2, <2>3
<1> HIDE DEF start
<1> DEFINE S == {i \in 0..n : P[i] = At(n, reverse, i)}
<1>5. 0 \in S
  BY <1>4 DEF start
<1>6. ASSUME NEW i \in 0..(n - 1), i \in S PROVE i + 1 \in S
  <2>1. i + 1 \in 0..n /\ (i + 1) - i = 1 /\ P[i + 1] = advance(P[i], 1) /\ P[i] = At(n, reverse, i)
    BY <1>4, <1>6
  <2>2. advance(At(n, reverse, i), (i + 1) - i) = At(n, reverse, i + 1)
    BY <2>1, Moves
  <2> QED BY <2>1, <2>2
<1> HIDE DEF S
<1>7. 0..n \subseteq S
  BY <1>5, <1>6, InductionUpTo
<1>8. P[k] = At(n, reverse, k)
  BY <1>7 DEF S
<1> QED BY <1>8 DEF P, start

(* What it shows, and what it measures.                                    *)
LEMMA Place_ ==
    ASSUME NEW n \in Nat, NEW reverse \in BOOLEAN, NEW k \in 0..(n - 1)
    PROVE  /\ At(n, reverse, k).of = n /\ n # NULL
           /\ At(n, reverse, k).index = IF reverse THEN n - 1 - k ELSE k
           /\ At(n, reverse, k).reversive = reverse
  BY DEF At, NULL

LEMMA Measures ==
    ASSUME NEW n \in Nat, NEW reverse \in BOOLEAN, NEW k \in 0..(n - 1)
    PROVE  /\ remaining(At(n, reverse, k)) = n - k
           /\ max_advance(At(n, reverse, k)) = n - 1 - k
           /\ diff(At(n, reverse, k), INVALID) = n - k /\ diff(INVALID, At(n, reverse, k)) = n - k
<1>1. remaining(At(n, reverse, k)) = n - k /\ max_advance(At(n, reverse, k)) = n - 1 - k
  BY Place_ DEF remaining, max_advance, count
<1>2. INVALID.of = NULL
  BY DEF INVALID
<1> QED BY <1>1, <1>2, Place_ DEF diff

LEMMA Compares ==
    ASSUME NEW n \in Nat, NEW reverse \in BOOLEAN, NEW k \in 0..(n - 1), NEW j \in 0..(n - 1)
    PROVE  /\ Less(At(n, reverse, k), At(n, reverse, j)) = (k < j)
           /\ Same(At(n, reverse, k), At(n, reverse, j)) = (k = j)
<1> DEFINE p == At(n, reverse, k)
           q == At(n, reverse, j)
           res == p.index - q.index
<1>1. p.of = n /\ q.of = n /\ n # NULL /\ p.reversive = reverse
  BY Place_
<1>2. (IF reverse THEN -res ELSE res) = k - j
  BY Place_
<1> HIDE DEF p, q
<1>3. compare_to(p, q) = [res |-> IF reverse THEN -res ELSE res, valid |-> TRUE]
  BY <1>1 DEF compare_to
<1> HIDE DEF res
<1>4. compare_to(p, q) = [res |-> k - j, valid |-> TRUE]
  BY <1>2, <1>3
<1>5. Less(p, q) = (k < j) /\ Same(p, q) = (k = j)
  BY <1>4 DEF Less, Same
<1> QED BY <1>5 DEF p, q

LEMMA LastIsInvalid ==
    ASSUME NEW n \in Nat, NEW reverse \in BOOLEAN
    PROVE  At(n, reverse, n) = INVALID /\ remaining(INVALID) = 0
  BY DEF At, INVALID, remaining, count

(* What IteratorsMeasure says of n elements and an iterator to the first.  *)
Measured(n, start) ==
    LET Place == Advanced(start, n) IN
    /\ Place[n] = INVALID
    /\ \A k \in 0..n : remaining(Place[k]) = n - k
    /\ \A k \in 0..(n - 1) :
        /\ Place[k].index = IF start.reversive THEN n - 1 - k ELSE k
        /\ max_advance(Place[k]) = n - 1 - k
        /\ diff(Place[k], INVALID) = n - k /\ diff(INVALID, Place[k]) = n - k
        /\ \A j \in 0..n : advance(Place[k], j - k) = Place[j]
        /\ \A j \in 0..(n - 1) :
            Less(Place[k], Place[j]) = (k < j) /\ Same(Place[k], Place[j]) = (k = j)

LEMMA MeasuredRight ==
    ASSUME NEW n \in Nat, NEW reverse \in BOOLEAN
    PROVE  Measured(n, At(n, reverse, 0))
<1> DEFINE start == At(n, reverse, 0)
           Place == Advanced(start, n)
<1>1. ASSUME NEW k \in 0..n PROVE Place[k] = At(n, reverse, k)
  BY AdvancedIs
<1>2. ASSUME NEW k \in 0..(n - 1) PROVE k \in 0..n /\ start.reversive = reverse
  BY DEF At
<1> HIDE DEF start, Place
<1>3. Place[n] = INVALID
  BY <1>1, LastIsInvalid
<1>4. ASSUME NEW k \in 0..n PROVE remaining(Place[k]) = n - k
  <2>1. CASE k = n
    BY <1>3, <2>1, LastIsInvalid
  <2>2. CASE k \in 0..(n - 1)
    BY <1>1, <2>2, Measures
  <2> QED BY <2>1, <2>2
<1>5. ASSUME NEW k \in 0..(n - 1)
      PROVE  /\ Place[k].index = IF start.reversive THEN n - 1 - k ELSE k
             /\ max_advance(Place[k]) = n - 1 - k
             /\ diff(Place[k], INVALID) = n - k /\ diff(INVALID, Place[k]) = n - k
  <2>1. Place[k] = At(n, reverse, k) /\ start.reversive = reverse
    BY <1>1, <1>2
  <2>2. At(n, reverse, k).index = IF reverse THEN n - 1 - k ELSE k
    BY Place_
  <2> QED BY <2>1, <2>2, Measures
<1>6. ASSUME NEW k \in 0..(n - 1), NEW j \in 0..n PROVE advance(Place[k], j - k) = Place[j]
  BY <1>1, <1>2, Moves
<1>7. ASSUME NEW k \in 0..(n - 1), NEW j \in 0..(n - 1)
      PROVE  Less(Place[k], Place[j]) = (k < j) /\ Same(Place[k], Place[j]) = (k = j)
  <2>1. Place[k] = At(n, reverse, k) /\ Place[j] = At(n, reverse, j)
    BY <1>1, <1>2
  <2> QED BY <2>1, Compares
<1> QED BY <1>3, <1>4, <1>5, <1>6, <1>7 DEF Measured, start, Place

LEMMA AllMeasured ==
    ASSUME ArraysInv
    PROVE  IteratorsMeasure
<1>1. ASSUME NEW a \in Names, NEW start \in {iter(arr[a].nItems), riter(arr[a].nItems)}
      PROVE  Measured(arr[a].nItems, start)
  <2> DEFINE n == arr[a].nItems
  <2>1. n \in Nat
    BY Size_
  <2> HIDE DEF n
  <2>2. start = At(n, FALSE, 0) \/ start = At(n, TRUE, 0)
    BY <2>1, Starts DEF n
  <2>3. Measured(n, start)
    BY <2>1, <2>2, MeasuredRight
  <2> QED BY <2>3 DEF n
<1> QED BY <1>1, Zenon DEF IteratorsMeasure, Measured

(* In both directions, whatever the calls before have made of an array, its
   iterators visit each element once and measure, compare and move as
   their places say.                                                       *)
THEOREM IteratorsMeasureRight ==
    ASSUME ~PastEnd, ~ShrinkReserve
    PROVE  Spec_ => []IteratorsMeasure
<1>1. ClientSpec => []ArraysInv
  BY ArraysHold
<1>2. ArraysInv => IteratorsMeasure
  BY AllMeasured
<1> QED BY <1>1, <1>2, EachAlone, PTL
=============================================================================
