---------------------------- MODULE BitSetProofs ----------------------------
(***************************************************************************)
(* What BitSet guarantees for any size of a word and of the set: no method *)
(* sets a bit behind the last one, wherever its range begins and ends, and *)
(* every method is the one of a sequence of bits.                          *)
(***************************************************************************)
EXTENDS BitSet, TLAPS

(* The number of a bit: bit b of word w, counted from 0.                   *)
BitAt(w, b) == w * WordBits + b

-----------------------------------------------------------------------------
(* Words and places.                                                       *)

LEMMA WordAndPlace ==
    ASSUME BitSetAssumption, NEW n \in Nat
    PROVE  /\ WordOf(n) \in Nat /\ n % WordBits \in Places
           /\ n = BitAt(WordOf(n), n % WordBits)
<1>1. WordBits \in Nat /\ WordBits > 0
  BY DEF BitSetAssumption
<1>2. n \div WordBits \in Nat /\ n % WordBits \in 0..(WordBits - 1)
      /\ n = (n \div WordBits) * WordBits + (n % WordBits)
  BY <1>1
<1> QED BY <1>2 DEF WordOf, Places, BitAt

(* Products.                                                               *)
LEMMA Products ==
    ASSUME NEW a \in Nat, NEW b \in Nat, NEW w \in Nat
    PROVE  /\ a * w \in Nat
           /\ (a + b) * w = a * w + b * w
           /\ (a + 1) * w = a * w + w
           /\ a <= b => a * w <= b * w
  OBVIOUS

LEMMA LowerWord ==
    ASSUME NEW a \in Nat, NEW b \in Nat, a < b, NEW w \in Nat
    PROVE  a * w + w <= b * w
<1>1. a + 1 <= b /\ a + 1 \in Nat
  OBVIOUS
<1>2. (a + 1) * w <= b * w
  BY <1>1, Products
<1> QED BY <1>2, Products

(* The words for a number of bits.                                         *)
LEMMA WordsHold ==
    ASSUME BitSetAssumption, NEW n \in Nat, n > 0
    PROVE  /\ Words(n) \in Nat \ {0}
           /\ (Words(n) - 1) * WordBits < n /\ n <= Words(n) * WordBits
           /\ IF n % WordBits = 0 THEN n = Words(n) * WordBits
              ELSE n = (Words(n) - 1) * WordBits + (n % WordBits)
<1> DEFINE W == WordBits
           q == WordOf(n)
           r == n % W
<1>1. W \in Nat /\ W > 0
  BY DEF BitSetAssumption
<1>2. q \in Nat /\ r \in Nat /\ r < W /\ n = q * W + r
  BY <1>1, WordAndPlace DEF BitAt, Places
<1>3. Words(n) = IF r = 0 THEN q ELSE q + 1
  BY <1>1, <1>2 DEF Words, WordOf
<1>4. (q + 1) * W = q * W + W /\ (q > 0 => (q - 1) * W = q * W - W)
  BY <1>1, <1>2
<1>5. r = 0 => q > 0
  BY <1>1, <1>2
<1> HIDE DEF q, r, W
<1>6. CASE r = 0
  BY <1>1, <1>2, <1>3, <1>4, <1>5, <1>6 DEF r, W
<1>7. CASE r # 0
  BY <1>1, <1>2, <1>3, <1>4, <1>7 DEF r, W
<1> QED BY <1>6, <1>7

-----------------------------------------------------------------------------
(* Masks.                                                                  *)

(* A set of masks that sets no bit at or behind a limit.                   *)
Below(masks, limit) ==
    \A m \in masks : m[1] \in Nat /\ m[2] \subseteq Places /\ \A b \in m[2] : BitAt(m[1], b) < limit

LEMMA RestBelow ==
    ASSUME BitSetAssumption, NEW w \in Nat, NEW count \in Nat
    PROVE  Below(Rest(w, count), w * WordBits + count)
<1> DEFINE W == WordBits
           full == count \div W
           tail == count - full * W
<1>1. W \in Nat /\ W > 0
  BY DEF BitSetAssumption
<1>2. full \in Nat /\ full * W \in Nat /\ tail \in Nat /\ tail < W /\ count = full * W + tail
  BY <1>1, WordAndPlace DEF BitAt, Places, WordOf
<1>3. (w + full) * W = w * W + full * W /\ w * W \in Nat
  BY <1>1, <1>2, Products
<1> HIDE DEF full, tail, W
<1>4. ASSUME NEW i \in w..(w + full - 1), NEW b \in Places
      PROVE  i \in Nat /\ BitAt(i, b) < w * W + count
  <2>1. i \in Nat /\ i < w + full /\ w + full \in Nat /\ b \in Nat /\ b < W
    BY <1>1, <1>2, <1>4 DEF Places, W
  <2>2. i * W + W <= (w + full) * W /\ i * W \in Nat
    BY <1>1, <2>1, LowerWord, Products
  <2> QED BY <1>1, <1>2, <1>3, <2>1, <2>2 DEF BitAt, W
<1>5. ASSUME NEW b \in Low(tail)
      PROVE  b \in Places /\ BitAt(w + full, b) < w * W + count
  <2>1. b \in Nat /\ b < tail
    BY <1>2, <1>5 DEF Low
  <2> QED BY <1>1, <1>2, <1>3, <2>1 DEF BitAt, Places, W
<1>6. Rest(w, count) = {<<i, Places>> : i \in w..(w + full - 1)} \cup {<<w + full, Low(tail)>>}
  BY DEF Rest, full, tail, W
<1>7. w + full \in Nat
  BY <1>2
<1> QED BY <1>4, <1>5, <1>6, <1>7 DEF Below, W

LEMMA MasksBelow ==
    ASSUME BitSetAssumption, NEW index \in Nat, NEW count \in Nat, NEW slack \in {0, 1}
    PROVE  Below(Masks(index, count, slack), index + count)
<1> DEFINE W == WordBits
           w == WordOf(index)
           off == index % W
<1>1. W \in Nat /\ W > 0
  BY DEF BitSetAssumption
<1>2. w \in Nat /\ off \in Nat /\ off < W /\ index = w * W + off /\ w * W \in Nat
  BY <1>1, WordAndPlace, Products DEF BitAt, Places
<1>3. Masks(index, count, slack) =
        IF off = 0 THEN Rest(w, count)
        ELSE IF (off + count) - slack < W THEN {<<w, Shifted(count, off)>>}
        ELSE {<<w, High(off)>>} \cup Rest(w + 1, count - (W - off))
  BY DEF Masks
<1> HIDE DEF w, off, W
<1>4. CASE off = 0
  BY <1>2, <1>3, <1>4, RestBelow DEF W
<1>5. CASE off # 0 /\ (off + count) - slack < W
  <2>1. \A b \in Shifted(count, off) : b \in Places /\ b < count + off
    BY <1>2 DEF Shifted, Low
  <2>2. \A b \in Shifted(count, off) : BitAt(w, b) < index + count
    BY <1>1, <1>2, <2>1 DEF BitAt, W, Places
  <2> QED BY <1>2, <1>3, <1>5, <2>1, <2>2 DEF Below
<1>6. CASE off # 0 /\ ~((off + count) - slack < W)
  <2> DEFINE left == count - (W - off)
  <2>1. left \in Nat /\ index + count = (w * W + W) + left /\ (w + 1) * W = w * W + W
    BY <1>1, <1>2, <1>6, Products
  <2>2. Below(Rest(w + 1, left), index + count)
    BY <1>1, <1>2, <2>1, RestBelow DEF W
  <2>3. \A b \in High(off) : b \in Places /\ BitAt(w, b) < index + count
    BY <1>1, <1>2, <2>1 DEF High, Places, BitAt, W
  <2> QED BY <1>2, <1>3, <1>6, <2>2, <2>3 DEF Below
<1> QED BY <1>4, <1>5, <1>6

LEMMA BitMaskBelow ==
    ASSUME BitSetAssumption, NEW index \in Nat
    PROVE  Below(BitMask(index), index + 1)
  BY WordAndPlace DEF BitMask, Below, Places

-----------------------------------------------------------------------------
(* The invariant: no bit at or behind the size is set in any word.         *)

Inside(words, size) ==
    \A i \in DOMAIN words : words[i] \subseteq Places /\ \A b \in words[i] : BitAt(i - 1, b) < size

NoneHidden ==
    /\ nSize \in Nat /\ Len(vData) \in Nat /\ DOMAIN vData = 1..Len(vData)
    /\ vData = [i \in DOMAIN vData |-> vData[i]]
    /\ nSize > 0 => nCapacity = Words(nSize)
    /\ Inside(vData, nSize)

LEMMA WordsAreSequence ==
    ASSUME NEW n \in Nat, NEW v, v = [i \in 1..n |-> v[i]]
    PROVE  DOMAIN v = 1..n /\ Len(v) = n
<1> DEFINE S == {v[i] : i \in 1..n}
<1>1. v \in [1..n -> S]
  OBVIOUS
<1>2. v \in Seq(S)
  BY <1>1
<1> QED BY <1>1, <1>2

(* Bits of the words that a size needs, if those of the last one are cut.  *)
LEMMA CutIsInside ==
    ASSUME BitSetAssumption, NEW size \in Nat, size > 0, NEW i \in 1..Words(size), NEW b \in Places,
           i = Words(size) /\ size % WordBits > 0 => b \in Low(size % WordBits)
    PROVE  BitAt(i - 1, b) < size
<1> DEFINE W == WordBits
           last == Words(size)
<1>1. W \in Nat /\ W > 0 /\ b \in Nat /\ b < W /\ size % W \in Nat
  BY WordAndPlace DEF BitSetAssumption, Places
<1>2. last \in Nat \ {0} /\ (last - 1) * W < size /\ i \in 1..last
  BY WordsHold
<1>3. (i - 1) * W \in Nat /\ (last - 1) * W \in Nat
  BY <1>1, <1>2
<1>4. CASE i < last
  <2>1. i - 1 \in Nat /\ last - 1 \in Nat /\ i - 1 < last - 1
    BY <1>2, <1>4
  <2>2. (i - 1) * W + W <= (last - 1) * W
    BY <1>1, <2>1, LowerWord
  <2> QED BY <1>1, <1>2, <1>3, <2>2 DEF BitAt
<1>5. CASE i = last /\ size % W = 0
  <2>1. size = last * W /\ last * W = (last - 1) * W + W
    BY <1>1, <1>2, <1>5, WordsHold
  <2> QED BY <1>1, <1>3, <1>5, <2>1 DEF BitAt
<1>6. CASE i = last /\ size % W > 0
  <2>1. size = (last - 1) * W + (size % W) /\ b < size % W
    BY <1>1, <1>6, WordsHold DEF Low
  <2> QED BY <1>1, <1>3, <1>6, <2>1 DEF BitAt
<1> QED BY <1>1, <1>2, <1>4, <1>5, <1>6

(* Words that are changed where they are.                                  *)
LEMMA WordsChange ==
    ASSUME NoneHidden, NEW words, words = [i \in DOMAIN vData |-> words[i]], Inside(words, nSize),
           vData' = words, nSize' = nSize
    PROVE  NoneHidden'
<1>1. DOMAIN words = 1..Len(vData) /\ Len(words) = Len(vData)
  BY WordsAreSequence DEF NoneHidden
<1> QED BY <1>1 DEF NoneHidden, nCapacity, Words, Inside, BitAt

(* Masks below the size, set, cleared or toggled.                          *)
LEMMA MasksChange ==
    ASSUME BitSetAssumption, NoneHidden, NEW masks, NEW limit \in Nat, limit <= nSize, Below(masks, limit),
           NEW words \in {Ones(masks), Zeroes(masks), Toggled(masks)}
    PROVE  words = [i \in DOMAIN vData |-> words[i]] /\ Inside(words, nSize)
<1>1. DOMAIN vData = 1..Len(vData) /\ Len(vData) \in Nat /\ nSize \in Nat
  BY DEF NoneHidden
<1>2. ASSUME NEW i \in DOMAIN vData, NEW b \in MaskOf(masks, i)
      PROVE  b \in Places /\ BitAt(i - 1, b) < nSize
  <2>1. PICK m \in masks : m[1] = i - 1 /\ b \in m[2]
    BY <1>2 DEF MaskOf
  <2>2. b \in Places /\ BitAt(i - 1, b) < limit /\ i - 1 \in Nat
    BY <2>1 DEF Below
  <2>3. BitAt(i - 1, b) \in Int
    BY <2>2 DEF BitAt, Places, BitSetAssumption
  <2> QED BY <1>1, <2>2, <2>3
<1>3. /\ DOMAIN words = DOMAIN vData
      /\ words = [i \in DOMAIN vData |-> words[i]]
      /\ \A i \in DOMAIN vData : words[i] \subseteq vData[i] \cup MaskOf(masks, i)
  BY DEF Ones, Zeroes, Toggled
<1> QED BY <1>2, <1>3 DEF Inside, NoneHidden

-----------------------------------------------------------------------------
(* The steps.                                                              *)

LEMMA ClipInside ==
    ASSUME NoneHidden, NEW index \in Nat, index < nSize, NEW count \in Nat
    PROVE  Clip(index, count) \in Nat /\ index + Clip(index, count) <= nSize
  BY DEF Clip, NoneHidden

(* set(), unset() and toggle() of a range.                                 *)
LEMMA RangeKeeps ==
    ASSUME BitSetAssumption, NoneHidden, NEW index \in Nat, NEW count \in Nat,
           set(index, count) \/ unset(index, count) \/ toggle(index, count)
    PROVE  NoneHidden'
<1> DEFINE n == Clip(index, count)
<1>1. CASE index >= nSize
  BY <1>1 DEF set, unset, toggle, RangeOf, Return, NoneHidden, nCapacity, Words, Inside, BitAt
<1>2. CASE ~(index >= nSize)
  <2>0. index < nSize /\ nSize \in Nat
    BY <1>2 DEF NoneHidden
  <2>1. n \in Nat /\ index + n <= nSize /\ index + n \in Nat
    BY <2>0, ClipInside
  <2>2. \E slack \in {0, 1} :
          \E words \in {Ones(Masks(index, n, slack)), Zeroes(Masks(index, n, slack)),
                        Toggled(Masks(index, n, slack))} :
            vData' = (IF n = 0 THEN vData ELSE words) /\ nSize' = nSize
    BY <1>2 DEF set, unset, toggle, RangeOf, Return
  <2>3. PICK slack \in {0, 1} :
          \E words \in {Ones(Masks(index, n, slack)), Zeroes(Masks(index, n, slack)),
                        Toggled(Masks(index, n, slack))} :
            vData' = (IF n = 0 THEN vData ELSE words) /\ nSize' = nSize
    BY <2>2
  <2> DEFINE masks == Masks(index, n, slack)
  <2>4. PICK words \in {Ones(masks), Zeroes(masks), Toggled(masks)} :
            vData' = (IF n = 0 THEN vData ELSE words) /\ nSize' = nSize
    BY <2>3
  <2>5. Below(masks, index + n)
    BY <2>1, MasksBelow
  <2> HIDE DEF n, masks
  <2>6. words = [i \in DOMAIN vData |-> words[i]] /\ Inside(words, nSize)
    BY <2>1, <2>4, <2>5, MasksChange
  <2>7. CASE n = 0
    BY <2>4, <2>7 DEF NoneHidden, nCapacity, Words, Inside, BitAt
  <2>8. CASE n # 0
    BY <2>4, <2>6, <2>8, WordsChange
  <2> QED BY <2>7, <2>8
<1> QED BY <1>1, <1>2

(* The methods of one bit.                                                 *)
LEMMA BitKeeps ==
    ASSUME BitSetAssumption, NoneHidden, NEW index \in Nat,
           SetBit(index) \/ UnsetBit(index) \/ ToggleBit(index)
    PROVE  NoneHidden'
<1> DEFINE masks == BitMask(index)
<1>1. CASE index >= nSize
  BY <1>1 DEF SetBit, UnsetBit, ToggleBit, One, Return, NoneHidden, nCapacity, Words, Inside, BitAt
<1>2. CASE ~(index >= nSize)
  <2>1. PICK words \in {Ones(masks), Zeroes(masks), Toggled(masks)} : vData' = words /\ nSize' = nSize
    BY <1>2 DEF SetBit, UnsetBit, ToggleBit, One, Return
  <2>2. Below(masks, index + 1) /\ index + 1 <= nSize
    BY <1>2, BitMaskBelow DEF NoneHidden
  <2> HIDE DEF masks
  <2>3. words = [i \in DOMAIN vData |-> words[i]] /\ Inside(words, nSize)
    BY <2>1, <2>2, MasksChange
  <2> QED BY <2>1, <2>3, WordsChange
<1> QED BY <1>1, <1>2

(* The word and the place of the k-th bit of a range.                      *)
LEMMA CursorAt ==
    ASSUME BitSetAssumption, NEW index \in Nat, NEW k \in Nat
    PROVE  LET cursor == <<WordOf(index) + ((index % WordBits) + k) \div WordBits, ((index % WordBits) + k) % WordBits>>
           IN  /\ cursor[1] \in Nat /\ cursor[2] \in Places
               /\ BitAt(cursor[1], cursor[2]) = index + k
<1> DEFINE off == index % WordBits
           w == WordOf(index)
           q == (off + k) \div WordBits
           r == (off + k) % WordBits
<1>a. WordBits \in Nat
  BY DEF BitSetAssumption
<1>b. w \in Nat /\ off \in Nat /\ index = w * WordBits + off
  BY WordAndPlace DEF BitAt, Places
<1>1. WordBits \in Nat /\ w \in Nat /\ off \in Nat /\ index = w * WordBits + off
  BY <1>a, <1>b
<1>2. off + k \in Nat
  BY <1>1
<1>3. q \in Nat /\ r \in Places /\ off + k = q * WordBits + r
  BY <1>2, WordAndPlace DEF BitAt, WordOf
<1> HIDE DEF q, r, w, off
<1>4. (w + q) * WordBits = w * WordBits + q * WordBits
      /\ w * WordBits \in Nat /\ q * WordBits \in Nat /\ r \in Nat
  BY <1>1, <1>3, Products DEF Places
<1>5. (w + q) * WordBits + r = index + k
  BY <1>1, <1>3, <1>4
<1>6. w + q \in Nat /\ BitAt(w + q, r) = index + k
  BY <1>1, <1>3, <1>5 DEF BitAt
<1> QED BY <1>3, <1>6 DEF w, q, r, off

(* set() of given values.                                                  *)
LEMMA ValuesKeep ==
    ASSUME BitSetAssumption, NoneHidden, NEW index \in Nat, NEW count \in Nat, NEW values,
           SetValues(index, count, values)
    PROVE  NoneHidden'
<1> DEFINE n == Clip(index, count)
           off == index % WordBits
           cursor(k) == <<WordOf(index) + (off + k) \div WordBits, (off + k) % WordBits>>
           masks(v) == {<<cursor(k)[1], {cursor(k)[2]}>> : k \in {j \in 0..(n - 1) : values[j + 1] = v}}
           words == Written(index, n, values)
<1>1. CASE index >= nSize
  BY <1>1 DEF SetValues, Return, NoneHidden, nCapacity, Words, Inside, BitAt
<1>2. CASE ~(index >= nSize)
  <2>1. n \in Nat /\ index + n <= nSize /\ nSize \in Nat
    BY <1>2, ClipInside DEF NoneHidden
  <2>2. ASSUME NEW k \in 0..(n - 1)
        PROVE  /\ cursor(k)[1] \in Nat /\ cursor(k)[2] \in Places
               /\ BitAt(cursor(k)[1], cursor(k)[2]) = index + k
    <3>1. k \in Nat
      BY <2>1
    <3> QED BY <3>1, CursorAt
  <2>3. Below(masks(1), nSize)
    BY <2>1, <2>2 DEF Below
  <2> HIDE DEF cursor
  <2>4. words = [i \in DOMAIN vData |-> (vData[i] \ MaskOf(masks(0), i)) \cup MaskOf(masks(1), i)]
    BY DEF Written, cursor
  <2> HIDE DEF masks, words
  <2>5. Ones(masks(1)) = [i \in DOMAIN vData |-> vData[i] \cup MaskOf(masks(1), i)]
        /\ Inside(Ones(masks(1)), nSize)
    BY <2>1, <2>3, MasksChange DEF Ones
  <2>6. words = [i \in DOMAIN vData |-> words[i]] /\ Inside(words, nSize)
    BY <2>4, <2>5 DEF Inside
  <2>7. vData' = words /\ nSize' = nSize
    BY <1>2 DEF SetValues, Return, words
  <2> QED BY <2>6, <2>7, WordsChange
<1> QED BY <1>1, <1>2

(* The methods of all bits.                                                *)
LEMMA AllKeep ==
    ASSUME BitSetAssumption, ~SetAllCleared, NoneHidden, SetAll \/ UnsetAll \/ ToggleAll
    PROVE  NoneHidden'
<1>0. nSize \in Nat /\ DOMAIN vData = 1..nCapacity /\ nCapacity \in Nat
  BY DEF NoneHidden, nCapacity
<1>1. CASE SetAll
  <2> DEFINE bits == nSize % WordBits
             words == [i \in DOMAIN vData |-> IF i = nCapacity /\ bits > 0 THEN Low(bits) ELSE Places]
  <2>1. vData' = words /\ nSize' = nSize /\ (nSize > 0 \/ nCapacity = 0)
    BY <1>1 DEF SetAll, All, Return
  <2>2. WordBits \in Nat /\ bits \in Places
    BY <1>0, WordAndPlace DEF BitSetAssumption
  <2>3. ASSUME NEW i \in DOMAIN vData, NEW b \in words[i]
        PROVE  b \in Places /\ BitAt(i - 1, b) < nSize
    <3>1. nSize > 0 /\ i \in 1..Words(nSize) /\ nCapacity = Words(nSize)
      BY <1>0, <2>1 DEF NoneHidden
    <3>2. Low(bits) \subseteq Places
      BY <2>2 DEF Low, Places
    <3>3. b \in Places /\ (i = nCapacity /\ bits > 0 => b \in Low(bits))
      BY <2>3, <3>2
    <3> QED BY <1>0, <3>1, <3>3, CutIsInside
  <2>4. DOMAIN words = DOMAIN vData /\ words = [i \in DOMAIN vData |-> words[i]]
    OBVIOUS
  <2> HIDE DEF words
  <2>5. Inside(words, nSize)
    BY <2>3, <2>4 DEF Inside
  <2> QED BY <2>1, <2>4, <2>5, WordsChange
<1>2. CASE UnsetAll
  <2> DEFINE words == [i \in DOMAIN vData |-> {}]
  <2>1. vData' = words /\ nSize' = nSize /\ words = [i \in DOMAIN vData |-> words[i]]
    BY <1>2 DEF UnsetAll, All, Return
  <2>2. Inside(words, nSize)
    BY DEF Inside
  <2> HIDE DEF words
  <2> QED BY <2>1, <2>2, WordsChange
<1>3. CASE ToggleAll
  <2> DEFINE masks == Rest(0, nSize)
  <2>1. vData' = Toggled(masks) /\ nSize' = nSize
    BY <1>3 DEF ToggleAll, All, Return
  <2>2. Below(masks, 0 * WordBits + nSize) /\ 0 * WordBits + nSize = nSize
    BY <1>0, RestBelow DEF BitSetAssumption
  <2> HIDE DEF masks
  <2>3. Toggled(masks) = [i \in DOMAIN vData |-> Toggled(masks)[i]] /\ Inside(Toggled(masks), nSize)
    BY <1>0, <2>2, MasksChange
  <2> QED BY <2>1, <2>3, WordsChange
<1> QED BY <1>1, <1>2, <1>3

(* The methods that change the size, and the capacity with it.             *)
LEMMA SizeKeeps ==
    ASSUME BitSetAssumption, NoneHidden, NEW size \in Nat, resize(size) \/ swap(size)
    PROVE  NoneHidden'
<1> DEFINE bits == size % WordBits
           n == Words(size)
           Kept(i) == IF i \in DOMAIN vData THEN vData[i] ELSE {}
           Shown(i) == IF i = n /\ bits > 0 THEN Kept(i) \cap Low(bits) ELSE Kept(i)
<1>1. n \in Nat /\ (size = 0 => n = 0)
  BY WordsHold DEF Words, BitSetAssumption
<1>2. \A i : Kept(i) \subseteq Places
  BY DEF NoneHidden, Inside
<1>3. ASSUME NEW words, words = [i \in 1..n |-> words[i]], \A i \in 1..n : words[i] \subseteq Shown(i),
             nSize' = size, vData' = words
      PROVE  NoneHidden'
  <2>1. DOMAIN words = 1..n /\ Len(words) = n
    BY <1>1, <1>3, WordsAreSequence
  <2>2. ASSUME NEW i \in 1..n, NEW b \in words[i]
        PROVE  b \in Places /\ BitAt(i - 1, b) < size
    <3>1. b \in Shown(i) /\ size > 0
      BY <1>1, <1>3, <2>2
    <3>2. b \in Places /\ (i = n /\ bits > 0 => b \in Low(bits))
      BY <1>2, <3>1
    <3> QED BY <3>1, <3>2, CutIsInside
  <2>3. Inside(words, size)
    BY <2>1, <2>2 DEF Inside
  <2> QED BY <1>1, <1>3, <2>1, <2>3 DEF NoneHidden, nCapacity, Inside, BitAt, Words
<1>4. CASE nSize' = size /\ vData' = [i \in 1..n |-> Shown(i)]
  <2> DEFINE words == [i \in 1..n |-> Shown(i)]
  <2>1. words = [i \in 1..n |-> words[i]] /\ \A i \in 1..n : words[i] \subseteq Shown(i)
    OBVIOUS
  <2> HIDE DEF words, Shown
  <2> QED BY <1>3, <1>4, <2>1 DEF words
<1>5. CASE nSize' = size /\ vData' = [i \in 1..n |-> {}]
  <2> DEFINE words == [i \in 1..n |-> {}]
  <2>1. words = [i \in 1..n |-> words[i]] /\ \A i \in 1..n : words[i] \subseteq Shown(i)
    OBVIOUS
  <2> HIDE DEF words, Shown
  <2> QED BY <1>3, <1>5, <2>1 DEF words
<1>6. CASE UNCHANGED <<nSize, vData>>
  BY <1>6 DEF NoneHidden, nCapacity, Words, Inside, BitAt
<1>7. \/ nSize' = size /\ vData' = [i \in 1..n |-> Shown(i)]
      \/ nSize' = size /\ vData' = [i \in 1..n |-> {}]
      \/ UNCHANGED <<nSize, vData>>
  BY DEF resize, swap, Become
<1> QED BY <1>4, <1>5, <1>6, <1>7

LEMMA EmptyKeeps ==
    ASSUME BitSetAssumption, NoneHidden, clear \/ flush
    PROVE  NoneHidden'
<1>1. CASE clear
  <2> DEFINE words == [i \in DOMAIN vData |-> {}]
  <2>1. vData' = words /\ nSize' = 0
    BY <1>1 DEF clear, Become
  <2>2. DOMAIN words = 1..Len(vData) /\ Len(words) = Len(vData)
    BY WordsAreSequence DEF NoneHidden
  <2> QED BY <2>1, <2>2 DEF NoneHidden, Inside
<1>2. CASE flush
  BY <1>2 DEF flush, Become, NoneHidden, Inside
<1> QED BY <1>1, <1>2

-----------------------------------------------------------------------------
(* The results.                                                            *)

LEMMA HiddenNext ==
    ASSUME BitSetAssumption, ~SetAllCleared, NoneHidden, [Next]_vars
    PROVE  NoneHidden'
<1>1. 0..nSize \subseteq Nat /\ 0..(nSize + 1) \subseteq Nat /\ 0..MaxBits \subseteq Nat
  BY DEF NoneHidden, BitSetAssumption
<1>2. CASE UNCHANGED vars
  BY <1>2 DEF vars, NoneHidden, nCapacity, Words, Inside, BitAt
<1>3. CASE Next
  <2>1. ASSUME NEW index \in 0..nSize, NEW count \in 0..(nSize + 1),
               set(index, count) \/ unset(index, count) \/ toggle(index, count)
        PROVE  NoneHidden'
    BY <1>1, <2>1, RangeKeeps
  <2>2. ASSUME NEW index \in 0..nSize, NEW count \in 0..(nSize + 1), NEW p \in Patterns,
               SetValues(index, count, p)
        PROVE  NoneHidden'
    BY <1>1, <2>2, ValuesKeep
  <2>3. ASSUME NEW index \in 0..nSize, SetBit(index) \/ UnsetBit(index) \/ ToggleBit(index)
        PROVE  NoneHidden'
    BY <1>1, <2>3, BitKeeps
  <2>4. ASSUME NEW size \in 0..MaxBits, resize(size) \/ swap(size)
        PROVE  NoneHidden'
    BY <1>1, <2>4, SizeKeeps
  <2> QED BY <1>3, <2>1, <2>2, <2>3, <2>4, AllKeep, EmptyKeeps DEF Next
<1> QED BY <1>2, <1>3

LEMMA HiddenIsZero ==
    ASSUME BitSetAssumption, NoneHidden
    PROVE  HiddenBitsClear
<1>0. nSize \in Nat /\ DOMAIN vData = 1..nCapacity /\ nCapacity \in Nat
  BY DEF NoneHidden, nCapacity
<1>1. nCapacity >= Words(nSize) /\ (nSize > 0 => nCapacity = Words(nSize))
  <2>1. Words(0) = 0
    BY DEF Words, BitSetAssumption
  <2>2. nSize > 0 => nCapacity = Words(nSize)
    BY DEF NoneHidden
  <2> QED BY <1>0, <2>1, <2>2
<1>2. ASSUME NEW n \in nSize..(nCapacity * WordBits - 1)
      PROVE  Get(n) = 0
  <2> DEFINE w == WordOf(n)
             b == n % WordBits
  <2>1. n \in Nat /\ n >= nSize /\ n < nCapacity * WordBits /\ WordBits \in Nat
    BY <1>0, <1>2 DEF BitSetAssumption
  <2>2. w \in Nat /\ b \in Nat /\ n = w * WordBits + b /\ n = BitAt(w, b)
    BY <2>1, WordAndPlace DEF BitAt, Places
  <2> HIDE DEF w, b
  <2>3. w < nCapacity
    <3>1. SUFFICES ASSUME nCapacity <= w PROVE FALSE
      BY <1>0, <2>2
    <3>2. nCapacity * WordBits <= w * WordBits /\ nCapacity * WordBits \in Nat /\ w * WordBits \in Nat
      BY <1>0, <2>1, <2>2, <3>1, Products
    <3> QED BY <2>1, <2>2, <3>2
  <2>4. w + 1 \in DOMAIN vData /\ (w + 1) - 1 = w
    BY <1>0, <2>2, <2>3
  <2>5. b \notin vData[w + 1]
    <3>1. SUFFICES ASSUME b \in vData[w + 1] PROVE FALSE
      OBVIOUS
    <3>2. BitAt(w, b) < nSize
      BY <2>4, <3>1 DEF NoneHidden, Inside
    <3> QED BY <1>0, <2>1, <2>2, <3>2
  <2> QED BY <2>5 DEF Get, w, b
<1> QED BY <1>1, <1>2 DEF HiddenBitsClear

(* A client who does not call set_all() after clear() never has a bit set
   behind the size of a bitset, for any number of bits in a word, so that a
   later resize() shows zeroes.                                            *)
THEOREM NoHiddenBits ==
    ASSUME BitSetAssumption, ~SetAllCleared
    PROVE  Spec => []HiddenBitsClear
<1>1. Init => NoneHidden
  BY DEF Init, NoneHidden, Inside
<1> QED BY <1>1, HiddenNext, HiddenIsZero, PTL DEF Spec

-----------------------------------------------------------------------------
(* The types.                                                              *)

Typed == nSize <= MaxBits /\ answer \in 0..MaxBits

LEMMA AnswersInRange ==
    ASSUME BitSetAssumption, NoneHidden, Typed, [Next]_vars
    PROVE  Typed'
<1>0. nSize \in Nat /\ nSize <= MaxBits /\ MaxBits \in Nat /\ MaxBits >= 1
  BY DEF NoneHidden, Typed, BitSetAssumption
<1>1. ASSUME NEW op, NEW index \in Nat, NEW count, NEW values, NEW n \in Nat, n <= nSize,
             Return(op, index, count, values, n)
      PROVE  Typed'
  BY <1>0, <1>1 DEF Return, Typed
<1>2. ASSUME NEW op, NEW index \in Nat, NEW words, One(op, index, words)
      PROVE  Typed'
  BY <1>0, <1>2 DEF One, Return, Typed, Get
<1>3. ASSUME NEW size \in 0..MaxBits, NEW words, NEW op, NEW count, NEW n \in {0, 1},
             Become(size, words, op, count, n)
      PROVE  Typed'
  BY <1>0, <1>3 DEF Become, Typed
<1>4. ASSUME NEW index \in 0..nSize, NEW count \in 0..(nSize + 1),
             set(index, count) \/ unset(index, count) \/ toggle(index, count)
      PROVE  Typed'
  <2>1. index \in Nat /\ count \in Nat
    BY <1>0
  <2>2. CASE index >= nSize
    BY <1>0, <1>1, <1>4, <2>1, <2>2 DEF set, unset, toggle, RangeOf
  <2>3. CASE ~(index >= nSize)
    <3>1. Clip(index, count) \in Nat /\ Clip(index, count) <= nSize
      BY <1>0, <2>1, <2>3 DEF Clip
    <3> QED BY <1>1, <1>4, <2>1, <2>3, <3>1 DEF set, unset, toggle, RangeOf
  <2> QED BY <2>2, <2>3
<1>5. ASSUME NEW index \in 0..nSize, NEW count \in 0..(nSize + 1), NEW p, SetValues(index, count, p)
      PROVE  Typed'
  <2>1. index \in Nat /\ count \in Nat
    BY <1>0
  <2>2. CASE index >= nSize
    BY <1>0, <1>1, <1>5, <2>1, <2>2 DEF SetValues
  <2>3. CASE ~(index >= nSize)
    <3>1. Clip(index, count) \in Nat /\ Clip(index, count) <= nSize
      BY <1>0, <2>1, <2>3 DEF Clip
    <3> QED BY <1>1, <1>5, <2>1, <2>3, <3>1 DEF SetValues
  <2> QED BY <2>2, <2>3
<1>6. ASSUME NEW index \in 0..nSize, SetBit(index) \/ UnsetBit(index) \/ ToggleBit(index)
      PROVE  Typed'
  <2>1. index \in Nat
    BY <1>0
  <2> QED BY <1>2, <1>6, <2>1 DEF SetBit, UnsetBit, ToggleBit
<1>7. CASE SetAll \/ UnsetAll \/ ToggleAll
  <2>1. nSize <= nSize /\ 0 \in Nat
    BY <1>0
  <2> QED BY <1>0, <1>1, <1>7, <2>1 DEF SetAll, UnsetAll, ToggleAll, All
<1>8. ASSUME NEW size \in 0..MaxBits, resize(size) \/ swap(size)
      PROVE  Typed'
  <2>1. nSize \in 0..MaxBits
    BY <1>0
  <2> QED BY <1>3, <1>8, <2>1 DEF resize, swap
<1>9. CASE clear \/ flush
  <2>1. 0 \in 0..MaxBits
    BY <1>0
  <2> QED BY <1>3, <1>9, <2>1 DEF clear, flush
<1>10. CASE UNCHANGED vars
  BY <1>10 DEF vars, Typed
<1> QED BY <1>4, <1>5, <1>6, <1>7, <1>8, <1>9, <1>10 DEF Next

LEMMA TypedIsTypeOK ==
    ASSUME BitSetAssumption, NoneHidden, Typed
    PROVE  TypeOK
<1>1. nSize \in 0..MaxBits
  BY DEF NoneHidden, Typed, BitSetAssumption
<1>2. vData \in Seq(SUBSET Places)
  <2> DEFINE n == Len(vData)
  <2>1. n \in Nat /\ DOMAIN vData = 1..n /\ \A i \in 1..n : vData[i] \in SUBSET Places
    BY DEF NoneHidden, Inside
  <2>2. vData = [i \in 1..n |-> vData[i]]
    BY DEF NoneHidden, Inside
  <2> HIDE DEF n
  <2>3. vData \in [1..n -> SUBSET Places]
    BY <2>1, <2>2
  <2> QED BY <2>1, <2>3
<1> QED BY <1>1, <1>2 DEF TypeOK, Typed

(* No method stores a bit outside of a word, sets a size beyond the bound, or
   returns more than there are bits.                                       *)
THEOREM BitTypes ==
    ASSUME BitSetAssumption, ~SetAllCleared
    PROVE  Spec => []TypeOK
<1>1. Init => NoneHidden /\ Typed
  BY DEF Init, NoneHidden, Inside, Typed, BitSetAssumption
<1>2. NoneHidden /\ Typed /\ [Next]_vars => (NoneHidden /\ Typed)'
  BY HiddenNext, AnswersInRange
<1>3. NoneHidden /\ Typed => TypeOK
  BY TypedIsTypeOK
<1> QED BY <1>1, <1>2, <1>3, PTL DEF Spec

-----------------------------------------------------------------------------
(* What the masks of a range set: its bits and no others.                  *)

Exact(masks, from, to) ==
    \A w \in Nat, b \in Places :
        b \in MaskOf(masks, w + 1) <=> from <= BitAt(w, b) /\ BitAt(w, b) < to

LEMMA MaskHas ==
    ASSUME NEW masks, NEW w \in Nat, NEW b
    PROVE  b \in MaskOf(masks, w + 1) <=> \E m \in masks : m[1] = w /\ b \in m[2]
<1>1. (w + 1) - 1 = w
  OBVIOUS
<1> QED BY <1>1 DEF MaskOf

(* The bits of one word and those of the others.                           *)
LEMMA InWord ==
    ASSUME BitSetAssumption, NEW w \in Nat, NEW v \in Nat, NEW b \in Places
    PROVE  /\ BitAt(v, b) \in Nat /\ w * WordBits \in Nat /\ b \in Nat /\ b < WordBits
           /\ BitAt(v, b) = v * WordBits + b
           /\ v < w => BitAt(v, b) < w * WordBits
           /\ v = w => BitAt(v, b) = w * WordBits + b
           /\ w < v => w * WordBits + WordBits <= BitAt(v, b)
<1> DEFINE W == WordBits
<1>1. W \in Nat /\ W > 0 /\ b \in Nat /\ b < W
  BY DEF BitSetAssumption, Places
<1>2. v * W \in Nat /\ w * W \in Nat
  BY <1>1, Products
<1>3. v < w => v * W + W <= w * W
  BY <1>1, LowerWord
<1>4. w < v => w * W + W <= v * W
  BY <1>1, LowerWord
<1> QED BY <1>1, <1>2, <1>3, <1>4 DEF BitAt

LEMMA JoinedMasks ==
    ASSUME NEW masks, NEW more, NEW i
    PROVE  MaskOf(masks \cup more, i) = MaskOf(masks, i) \cup MaskOf(more, i)
  BY DEF MaskOf

LEMMA OneMask ==
    ASSUME NEW w \in Nat, NEW v \in Nat, NEW mask
    PROVE  MaskOf({<<w, mask>>}, v + 1) = IF v = w THEN mask ELSE {}
<1> DEFINE m == <<w, mask>>
<1>1. m[1] = w /\ m[2] = mask
  OBVIOUS
<1> HIDE DEF m
<1>2. ASSUME NEW b PROVE b \in MaskOf({m}, v + 1) <=> v = w /\ b \in mask
  <2>1. b \in MaskOf({m}, v + 1) <=> \E k \in {m} : k[1] = v /\ b \in k[2]
    BY MaskHas
  <2> QED BY <1>1, <2>1
<1> QED BY <1>2 DEF m

LEMMA FullMasks ==
    ASSUME NEW first \in Nat, NEW n \in Nat, NEW v \in Nat, NEW b \in Places
    PROVE  b \in MaskOf({<<i, Places>> : i \in first..(first + n - 1)}, v + 1) <=> first <= v /\ v < first + n
<1> DEFINE masks == {<<i, Places>> : i \in first..(first + n - 1)}
<1>1. b \in MaskOf(masks, v + 1) <=> \E m \in masks : m[1] = v /\ b \in m[2]
  <2> HIDE DEF masks
  <2> QED BY MaskHas
<1>2. (\E m \in masks : m[1] = v /\ b \in m[2]) <=> v \in first..(first + n - 1)
  <2>1. ASSUME NEW m \in masks, m[1] = v PROVE v \in first..(first + n - 1)
    <3>1. PICK i \in first..(first + n - 1) : m = <<i, Places>>
      OBVIOUS
    <3> QED BY <2>1, <3>1
  <2>2. ASSUME v \in first..(first + n - 1) PROVE \E m \in masks : m[1] = v /\ b \in m[2]
    <3> DEFINE m == <<v, Places>>
    <3>1. m \in masks /\ m[1] = v /\ m[2] = Places
      BY <2>2
    <3> HIDE DEF m, masks
    <3> QED BY <3>1
  <2> QED BY <2>1, <2>2
<1>3. v \in first..(first + n - 1) <=> first <= v /\ v < first + n
  OBVIOUS
<1> QED BY <1>1, <1>2, <1>3

LEMMA RestExact ==
    ASSUME BitSetAssumption, NEW w \in Nat, NEW count \in Nat
    PROVE  Exact(Rest(w, count), w * WordBits, w * WordBits + count)
<1> DEFINE W == WordBits
           full == count \div W
           tail == count - full * W
           masks == Rest(w, count)
<1>1. W \in Nat /\ W > 0
  BY DEF BitSetAssumption
<1>2. full \in Nat /\ full * W \in Nat /\ tail \in Nat /\ tail < W /\ count = full * W + tail
  BY <1>1, WordAndPlace DEF BitAt, Places, WordOf
<1>3. (w + full) * W = w * W + full * W /\ w * W \in Nat
  BY <1>1, <1>2, Products
<1>4. masks = {<<i, Places>> : i \in w..(w + full - 1)} \cup {<<w + full, Low(tail)>>}
  BY DEF Rest
<1> HIDE DEF full, tail, W, masks
<1>5. ASSUME NEW v \in Nat, NEW b \in Places
      PROVE  b \in MaskOf(masks, v + 1) <=> w * W <= BitAt(v, b) /\ BitAt(v, b) < w * W + count
  <2>1. b \in Nat /\ b < W /\ v * W \in Nat /\ BitAt(v, b) = v * W + b
    BY <1>1, <1>5, Products DEF Places, W, BitAt
  <2>2. b \in MaskOf(masks, v + 1) <=> (w <= v /\ v < w + full) \/ (v = w + full /\ b < tail)
    <3> DEFINE most == {<<i, Places>> : i \in w..(w + full - 1)}
    <3>1. b \in MaskOf(most, v + 1) <=> w <= v /\ v < w + full
      BY <1>2, FullMasks
    <3>2. b \in Low(tail) <=> b < tail
      BY <1>2, <2>1 DEF Low
    <3>3. w + full \in Nat /\ masks = most \cup {<<w + full, Low(tail)>>}
      BY <1>2, <1>4
    <3> HIDE DEF most
    <3>4. b \in MaskOf({<<w + full, Low(tail)>>}, v + 1) <=> v = w + full /\ b \in Low(tail)
      BY <3>3, OneMask
    <3> QED BY <3>1, <3>2, <3>3, <3>4, JoinedMasks
  <2>3. CASE v < w
    <3>1. BitAt(v, b) < w * W /\ BitAt(v, b) \in Nat
      BY <2>3, InWord DEF W
    <3>2. ~(b \in MaskOf(masks, v + 1))
      BY <1>2, <2>2, <2>3
    <3> QED BY <1>3, <3>1, <3>2
  <2>4. CASE w <= v /\ v < w + full
    <3>1. v * W + W <= (w + full) * W /\ w * W <= v * W
      BY <1>1, <1>2, <2>4, LowerWord, Products
    <3>2. v * W + W <= w * W + full * W
      BY <1>3, <3>1
    <3>3. BitAt(v, b) < w * W + full * W /\ w * W <= BitAt(v, b)
      BY <1>1, <1>2, <1>3, <2>1, <3>1, <3>2
    <3>4. BitAt(v, b) < w * W + count
      BY <1>2, <1>3, <2>1, <3>3
    <3> QED BY <2>2, <2>4, <3>3, <3>4
  <2>5. CASE v = w + full
    BY <1>1, <1>2, <1>3, <2>1, <2>2, <2>5
  <2>6. CASE w + full < v
    <3>1. (w + full) * W + W <= v * W
      BY <1>1, <1>2, <2>6, LowerWord
    <3> QED BY <1>1, <1>2, <1>3, <2>1, <2>2, <2>6, <3>1
  <2> QED BY <1>2, <2>3, <2>4, <2>5, <2>6
<1> QED BY <1>5 DEF Exact, W, masks

LEMMA MasksExact ==
    ASSUME BitSetAssumption, NEW index \in Nat, NEW count \in Nat, NEW slack \in {0, 1}
    PROVE  Exact(Masks(index, count, slack), index, index + count)
<1> DEFINE W == WordBits
           w == WordOf(index)
           off == index % W
<1>1. W \in Nat /\ W > 0
  BY DEF BitSetAssumption
<1>2. w \in Nat /\ off \in Nat /\ off < W /\ index = w * W + off /\ w * W \in Nat
  BY <1>1, WordAndPlace, Products DEF BitAt, Places
<1>3. Masks(index, count, slack) =
        IF off = 0 THEN Rest(w, count)
        ELSE IF (off + count) - slack < W THEN {<<w, Shifted(count, off)>>}
        ELSE {<<w, High(off)>>} \cup Rest(w + 1, count - (W - off))
  BY DEF Masks
<1> HIDE DEF w, off, W
<1>4. CASE off = 0
  <2>1. index = w * W
    BY <1>2, <1>4
  <2> QED BY <1>2, <1>3, <1>4, <2>1, RestExact DEF W
<1>5. CASE off # 0 /\ (off + count) - slack < W
  <2>1. off + count <= W
    BY <1>1, <1>2, <1>5
  <2>2. \A b \in Places : b \in Shifted(count, off) <=> off <= b /\ b < off + count
    <3>1. ASSUME NEW b \in Places PROVE b \in Shifted(count, off) <=> off <= b /\ b < off + count
      <4>1. b \in Nat
        BY DEF Places
      <4>2. b \in Shifted(count, off) <=> \E k \in 0..(count - 1) : b = k + off
        BY DEF Shifted, Low
      <4>3. (off <= b /\ b < off + count) => b - off \in 0..(count - 1) /\ b = (b - off) + off
        BY <1>2, <4>1
      <4>4. ASSUME NEW k \in 0..(count - 1), b = k + off PROVE off <= b /\ b < off + count
        BY <1>2, <4>4
      <4> QED BY <4>2, <4>3, <4>4
    <3> QED BY <3>1
  <2>3. ASSUME NEW v \in Nat, NEW b \in Places
        PROVE  b \in MaskOf({<<w, Shifted(count, off)>>}, v + 1)
                 <=> index <= BitAt(v, b) /\ BitAt(v, b) < index + count
    <3>0. b \in MaskOf({<<w, Shifted(count, off)>>}, v + 1) <=> v = w /\ off <= b /\ b < off + count
      BY <1>2, <2>2, OneMask
    <3>1. CASE v = w
      <4>1. BitAt(v, b) = w * W + b /\ b \in Nat
        BY <1>2, <3>1, InWord DEF W
      <4> QED BY <1>2, <3>0, <3>1, <4>1
    <3>2. CASE v < w
      <4>1. BitAt(v, b) < w * W /\ BitAt(v, b) \in Nat
        BY <1>2, <3>2, InWord DEF W
      <4> QED BY <1>2, <3>0, <3>2, <4>1
    <3>3. CASE w < v
      <4>1. w * W + W <= BitAt(v, b) /\ BitAt(v, b) \in Nat
        BY <1>2, <3>3, InWord DEF W
      <4> QED BY <1>1, <1>2, <2>1, <3>0, <3>3, <4>1
    <3> QED BY <1>2, <3>1, <3>2, <3>3
  <2> QED BY <1>3, <1>5, <2>3 DEF Exact
<1>6. CASE off # 0 /\ ~((off + count) - slack < W)
  <2> DEFINE left == count - (W - off)
             rest == Rest(w + 1, left)
  <2>1. left \in Nat /\ index + count = (w * W + W) + left /\ (w + 1) * W = w * W + W /\ w + 1 \in Nat
    BY <1>1, <1>2, <1>6, Products
  <2>2. Exact(rest, w * W + W, index + count)
    BY <1>1, <1>2, <2>1, RestExact DEF W
  <2> HIDE DEF left, rest
  <2>3. ASSUME NEW v \in Nat, NEW b \in Places
        PROVE  b \in MaskOf({<<w, High(off)>>} \cup rest, v + 1)
                 <=> index <= BitAt(v, b) /\ BitAt(v, b) < index + count
    <3>1. b \in MaskOf({<<w, High(off)>>} \cup rest, v + 1)
            <=> (v = w /\ b \in High(off)) \/ (w * W + W <= BitAt(v, b) /\ BitAt(v, b) < index + count)
      <4>1. b \in MaskOf({<<w, High(off)>>}, v + 1) <=> v = w /\ b \in High(off)
        BY <1>2, OneMask
      <4>2. b \in MaskOf(rest, v + 1) <=> w * W + W <= BitAt(v, b) /\ BitAt(v, b) < index + count
        BY <2>2 DEF Exact
      <4> QED BY <4>1, <4>2, JoinedMasks
    <3>2. b \in High(off) <=> off <= b
      BY <1>1, <1>2 DEF High, Places, W
    <3>3. CASE v = w
      <4>1. BitAt(v, b) = w * W + b /\ b \in Nat /\ b < W
        BY <1>2, <3>3, InWord DEF W
      <4> QED BY <1>1, <1>2, <2>1, <3>1, <3>2, <3>3, <4>1
    <3>4. CASE v < w
      <4>1. BitAt(v, b) < w * W /\ BitAt(v, b) \in Nat
        BY <1>2, <3>4, InWord DEF W
      <4> QED BY <1>1, <1>2, <2>1, <3>1, <3>4, <4>1
    <3>5. CASE w < v
      <4>1. w * W + W <= BitAt(v, b) /\ BitAt(v, b) \in Nat
        BY <1>2, <3>5, InWord DEF W
      <4> QED BY <1>1, <1>2, <2>1, <3>1, <3>5, <4>1
    <3> QED BY <1>2, <3>3, <3>4, <3>5
  <2> QED BY <1>3, <1>6, <2>3 DEF Exact, left, rest
<1> QED BY <1>4, <1>5, <1>6

(* A bit has one word and one place.                                       *)
LEMMA OneBit ==
    ASSUME BitSetAssumption, NEW w \in Nat, NEW b \in Places, NEW v \in Nat, NEW c \in Places,
           BitAt(w, b) = BitAt(v, c)
    PROVE  w = v /\ b = c
<1>1. ~(w < v) /\ ~(v < w)
  BY InWord
<1>2. w = v
  BY <1>1
<1> QED BY <1>2, InWord

LEMMA BitMaskExact ==
    ASSUME BitSetAssumption, NEW index \in Nat
    PROVE  Exact(BitMask(index), index, index + 1)
<1> DEFINE w == WordOf(index)
           r == index % WordBits
<1>1. w \in Nat /\ r \in Places /\ index = BitAt(w, r)
  BY WordAndPlace
<1> HIDE DEF w, r
<1>2. ASSUME NEW v \in Nat, NEW b \in Places
      PROVE  b \in MaskOf({<<w, {r}>>}, v + 1) <=> index <= BitAt(v, b) /\ BitAt(v, b) < index + 1
  <2>1. b \in MaskOf({<<w, {r}>>}, v + 1) <=> v = w /\ b \in {r}
    BY <1>1, OneMask
  <2>2. BitAt(v, b) = index => v = w /\ b = r
    BY <1>1, OneBit
  <2>3. BitAt(v, b) \in Nat
    BY <1>1, InWord
  <2> QED BY <1>1, <2>1, <2>2, <2>3
<1> QED BY <1>2 DEF Exact, BitMask, w, r

-----------------------------------------------------------------------------
(* The bits.                                                               *)

Bit(words, n) == IF n % WordBits \in words[WordOf(n) + 1] THEN 1 ELSE 0

Shown == [i \in 1..nSize |-> Get(i - 1)]

Promise == INSTANCE Bits WITH bits <- Shown

(* The bits that there are have words.                                     *)
LEMMA HasWord ==
    ASSUME BitSetAssumption, NEW size \in Nat, NEW n \in 0..(size - 1)
    PROVE  /\ n \in Nat /\ WordOf(n) \in Nat /\ n % WordBits \in Places
           /\ n = BitAt(WordOf(n), n % WordBits)
           /\ WordOf(n) + 1 \in 1..Words(size) /\ Words(size) \in Nat
           /\ WordOf(n) + 1 = Words(size) /\ size % WordBits > 0 => n % WordBits \in Low(size % WordBits)
<1> DEFINE W == WordBits
           w == WordOf(n)
           b == n % WordBits
           k == Words(size)
<1>0. n \in Nat
  OBVIOUS
<1>a. W \in Nat /\ W > 0
  BY DEF BitSetAssumption
<1>b. w \in Nat /\ b \in Places /\ n = BitAt(w, b)
  BY <1>0, WordAndPlace
<1>1. n \in Nat /\ w \in Nat /\ b \in Places /\ n = BitAt(w, b) /\ W \in Nat /\ W > 0
  BY <1>0, <1>a, <1>b
<1>2. size > 0 /\ n < size
  OBVIOUS
<1>3. k \in Nat /\ k > 0 /\ size <= k * W /\ (size % W # 0 => size = (k - 1) * W + (size % W))
  BY <1>2, WordsHold
<1>4. size % W \in Nat
  BY <1>1
<1> HIDE DEF w, b, k
<1>5. w < k
  <2>1. SUFFICES ASSUME ~(w < k) PROVE FALSE
    OBVIOUS
  <2>2. CASE k < w
    <3>1. k * W + W <= BitAt(w, b) /\ BitAt(w, b) \in Nat /\ k * W \in Nat
      BY <1>1, <1>3, <2>2, InWord
    <3> QED BY <1>1, <1>2, <1>3, <3>1
  <2>3. CASE k = w
    <3>1. BitAt(w, b) = k * W + b /\ b \in Nat /\ k * W \in Nat
      BY <1>1, <1>3, <2>3, InWord
    <3> QED BY <1>1, <1>2, <1>3, <3>1
  <2> QED BY <1>1, <1>3, <2>1, <2>2, <2>3
<1>6. ASSUME w + 1 = k, size % W > 0 PROVE b \in Low(size % W)
  <2>1. k - 1 = w
    BY <1>1, <1>3, <1>6
  <2>2. BitAt(w, b) = (k - 1) * W + b /\ b \in Nat /\ (k - 1) * W \in Nat
    BY <1>1, <2>1, InWord
  <2>3. b < size % W
    BY <1>1, <1>2, <1>3, <1>4, <1>6, <2>2
  <2> QED BY <1>4, <2>2, <2>3 DEF Low
<1>7. w + 1 \in 1..k
  BY <1>1, <1>3, <1>5
<1> QED BY <1>1, <1>3, <1>6, <1>7 DEF w, b, k

LEMMA WordThere ==
    ASSUME BitSetAssumption, NoneHidden, NEW n \in 0..(nSize - 1)
    PROVE  /\ n \in Nat /\ WordOf(n) \in Nat /\ n % WordBits \in Places
           /\ n = BitAt(WordOf(n), n % WordBits)
           /\ WordOf(n) + 1 \in DOMAIN vData
<1>1. nSize \in Nat /\ nSize > 0 /\ DOMAIN vData = 1..nCapacity /\ nCapacity = Words(nSize)
  BY DEF NoneHidden, nCapacity
<1> QED BY <1>1, HasWord

(* What masks do to a bit.                                                 *)
LEMMA MasksBit ==
    ASSUME BitSetAssumption, NoneHidden, NEW masks, NEW from \in Nat, NEW to \in Nat,
           Exact(masks, from, to), NEW n \in 0..(nSize - 1)
    PROVE  /\ Bit(Ones(masks), n) = IF from <= n /\ n < to THEN 1 ELSE Get(n)
           /\ Bit(Zeroes(masks), n) = IF from <= n /\ n < to THEN 0 ELSE Get(n)
           /\ Bit(Toggled(masks), n) = IF from <= n /\ n < to THEN 1 - Get(n) ELSE Get(n)
<1> DEFINE w == WordOf(n)
           b == n % WordBits
<1>1. w \in Nat /\ b \in Places /\ n = BitAt(w, b) /\ w + 1 \in DOMAIN vData
  BY WordThere
<1>2. b \in MaskOf(masks, w + 1) <=> from <= n /\ n < to
  BY <1>1 DEF Exact
<1>3. /\ Bit(Ones(masks), n) = IF b \in vData[w + 1] \cup MaskOf(masks, w + 1) THEN 1 ELSE 0
      /\ Bit(Zeroes(masks), n) = IF b \in vData[w + 1] \ MaskOf(masks, w + 1) THEN 1 ELSE 0
      /\ Bit(Toggled(masks), n) = IF b \in (vData[w + 1] \ MaskOf(masks, w + 1))
                                          \cup (MaskOf(masks, w + 1) \ vData[w + 1]) THEN 1 ELSE 0
  BY <1>1 DEF Bit, Ones, Zeroes, Toggled
<1>4. Get(n) = IF b \in vData[w + 1] THEN 1 ELSE 0
  BY DEF Get
<1> HIDE DEF w, b
<1> QED BY <1>2, <1>3, <1>4

(* The bits after a step that has changed those of a range, each to what f
   says.                                                                   *)
InRange(n) == call'.index <= n /\ n < call'.index + call'.count

LEMMA BitsAfter ==
    ASSUME BitSetAssumption, NoneHidden, nSize' = nSize, NEW f,
           \A n \in 0..(nSize - 1) : Bit(vData', n) = IF InRange(n) THEN f[n] ELSE Get(n)
    PROVE  Shown' = [i \in DOMAIN Shown |-> IF i - 1 \in Promise!Clipped THEN f[i - 1] ELSE Shown[i]]
<1>1. nSize \in Nat /\ DOMAIN Shown = 1..nSize /\ Len(Shown) = nSize
  BY WordsAreSequence DEF NoneHidden, Shown
<1>2. Shown' = [i \in 1..nSize |-> Bit(vData', i - 1)]
  BY DEF Shown, Get, Bit
<1>3. ASSUME NEW i \in 1..nSize
      PROVE  Bit(vData', i - 1) = IF i - 1 \in Promise!Clipped THEN f[i - 1] ELSE Shown[i]
  <2>1. i - 1 \in 0..(nSize - 1) /\ Shown[i] = Get(i - 1)
    BY <1>1 DEF Shown
  <2>2. i - 1 \in Promise!Clipped <=> InRange(i - 1)
    BY <1>1, <2>1 DEF Promise!Clipped, Promise!Inside, InRange
  <2> QED BY <2>1, <2>2
<1> QED BY <1>1, <1>2, <1>3

(* What a method of one bit returns.                                       *)
BitAnswer(index) == IF index < nSize THEN Get(index) ELSE 0

LEMMA BitAnswerIs ==
    ASSUME NoneHidden, call'.index \in Nat
    PROVE  BitAnswer(call'.index) = IF call'.index < Len(Shown) THEN Promise!Bit(call'.index) ELSE 0
<1>1. nSize \in Nat /\ Len(Shown) = nSize
  BY WordsAreSequence DEF NoneHidden, Shown
<1>2. ASSUME call'.index < nSize PROVE Shown[call'.index + 1] = Get(call'.index)
  <2> DEFINE k == call'.index
  <2>1. k + 1 \in 1..nSize /\ (k + 1) - 1 = k
    BY <1>1, <1>2
  <2> QED BY <2>1 DEF Shown
<1> QED BY <1>1, <1>2 DEF BitAnswer, Promise!Bit

LEMMA SetStep ==
    ASSUME BitSetAssumption, NoneHidden, nSize' = nSize, call'.index \in Nat,
           \A n \in 0..(nSize - 1) : Bit(vData', n) = IF InRange(n) THEN 1 ELSE Get(n)
    PROVE  /\ call'.op = "set" /\ answer' = Promise!RangeCount => Promise!Range
           /\ call'.op = "set1" /\ answer' = BitAnswer(call'.index) => Promise!One
<1> DEFINE f == [n \in 0..(nSize - 1) |-> 1]
<1>0. DOMAIN Shown = 1..nSize /\ nSize \in Nat
  BY DEF Shown, NoneHidden
<1>1. \A n \in 0..(nSize - 1) : Bit(vData', n) = IF InRange(n) THEN f[n] ELSE Get(n)
  OBVIOUS
<1>2. \A i \in 1..nSize : f[i - 1] = 1
  <2>1. ASSUME NEW i \in 1..nSize PROVE i - 1 \in 0..(nSize - 1)
    BY <1>0
  <2> QED BY <2>1
<1> HIDE DEF f
<1>3. Shown' = [i \in DOMAIN Shown |-> IF i - 1 \in Promise!Clipped THEN f[i - 1] ELSE Shown[i]]
  BY <1>1, BitsAfter
<1>4. Shown' = [i \in DOMAIN Shown |-> IF i - 1 \in Promise!Clipped THEN 1 ELSE Shown[i]]
  BY <1>0, <1>2, <1>3
<1> QED BY <1>4, BitAnswerIs DEF Promise!Range, Promise!One, Promise!Changed

LEMMA UnsetStep ==
    ASSUME BitSetAssumption, NoneHidden, nSize' = nSize, call'.index \in Nat,
           \A n \in 0..(nSize - 1) : Bit(vData', n) = IF InRange(n) THEN 0 ELSE Get(n)
    PROVE  /\ call'.op = "unset" /\ answer' = Promise!RangeCount => Promise!Range
           /\ call'.op = "unset1" /\ answer' = BitAnswer(call'.index) => Promise!One
<1> DEFINE f == [n \in 0..(nSize - 1) |-> 0]
<1>0. DOMAIN Shown = 1..nSize /\ nSize \in Nat
  BY DEF Shown, NoneHidden
<1>1. \A n \in 0..(nSize - 1) : Bit(vData', n) = IF InRange(n) THEN f[n] ELSE Get(n)
  OBVIOUS
<1>2. \A i \in 1..nSize : f[i - 1] = 0
  <2>1. ASSUME NEW i \in 1..nSize PROVE i - 1 \in 0..(nSize - 1)
    BY <1>0
  <2> QED BY <2>1
<1> HIDE DEF f
<1>3. Shown' = [i \in DOMAIN Shown |-> IF i - 1 \in Promise!Clipped THEN f[i - 1] ELSE Shown[i]]
  BY <1>1, BitsAfter
<1>4. Shown' = [i \in DOMAIN Shown |-> IF i - 1 \in Promise!Clipped THEN 0 ELSE Shown[i]]
  BY <1>0, <1>2, <1>3
<1> QED BY <1>4, BitAnswerIs DEF Promise!Range, Promise!One, Promise!Changed

LEMMA ToggleStep ==
    ASSUME BitSetAssumption, NoneHidden, nSize' = nSize, call'.index \in Nat,
           \A n \in 0..(nSize - 1) : Bit(vData', n) = IF InRange(n) THEN 1 - Get(n) ELSE Get(n)
    PROVE  /\ call'.op = "toggle" /\ answer' = Promise!RangeCount => Promise!Range
           /\ call'.op = "toggle1" /\ answer' = BitAnswer(call'.index) => Promise!One
<1> DEFINE f == [n \in 0..(nSize - 1) |-> 1 - Get(n)]
<1>0. DOMAIN Shown = 1..nSize /\ nSize \in Nat
  BY DEF Shown, NoneHidden
<1>1. \A n \in 0..(nSize - 1) : Bit(vData', n) = IF InRange(n) THEN f[n] ELSE Get(n)
  OBVIOUS
<1>b. \A i \in 1..nSize : Promise!Bit(i - 1) = Get(i - 1)
  <2>1. ASSUME NEW i \in 1..nSize PROVE Shown[(i - 1) + 1] = Get(i - 1)
    <3>1. (i - 1) + 1 = i
      BY <1>0
    <3> QED BY <3>1 DEF Shown
  <2> QED BY <2>1 DEF Promise!Bit
<1>2. \A i \in 1..nSize : f[i - 1] = 1 - Promise!Bit(i - 1)
  <2>1. ASSUME NEW i \in 1..nSize PROVE i - 1 \in 0..(nSize - 1)
    BY <1>0
  <2> QED BY <2>1, <1>b
<1> HIDE DEF f
<1>3. Shown' = [i \in DOMAIN Shown |-> IF i - 1 \in Promise!Clipped THEN f[i - 1] ELSE Shown[i]]
  BY <1>1, BitsAfter
<1>4. Shown' = [i \in DOMAIN Shown |-> IF i - 1 \in Promise!Clipped THEN 1 - Promise!Bit(i - 1) ELSE Shown[i]]
  BY <1>0, <1>2, <1>3
<1> QED BY <1>4, BitAnswerIs DEF Promise!Range, Promise!One, Promise!Changed

LEMMA GivenStep ==
    ASSUME BitSetAssumption, NoneHidden, nSize' = nSize, call'.index \in Nat,
           \A n \in 0..(nSize - 1) :
               Bit(vData', n) = IF InRange(n) THEN call'.values[(n - call'.index) + 1] ELSE Get(n),
           call'.op = "values", answer' = Promise!RangeCount
    PROVE  Promise!Range
<1> DEFINE f == [n \in 0..(nSize - 1) |-> call'.values[(n - call'.index) + 1]]
<1>0. DOMAIN Shown = 1..nSize /\ nSize \in Nat
  BY DEF Shown, NoneHidden
<1>1. \A n \in 0..(nSize - 1) : Bit(vData', n) = IF InRange(n) THEN f[n] ELSE Get(n)
  OBVIOUS
<1>2. \A i \in 1..nSize : f[i - 1] = Promise!Given(i - 1)
  <2>1. ASSUME NEW i \in 1..nSize PROVE i - 1 \in 0..(nSize - 1)
    BY <1>0
  <2> QED BY <2>1 DEF Promise!Given
<1> HIDE DEF f
<1>3. Shown' = [i \in DOMAIN Shown |-> IF i - 1 \in Promise!Clipped THEN f[i - 1] ELSE Shown[i]]
  BY <1>1, BitsAfter
<1>4. Shown' = [i \in DOMAIN Shown |-> IF i - 1 \in Promise!Clipped THEN Promise!Given(i - 1) ELSE Shown[i]]
  BY <1>0, <1>2, <1>3
<1> QED BY <1>4 DEF Promise!Range, Promise!Changed

(* The methods of a range clip it to the bits that there are.              *)
LEMMA ClipIs ==
    ASSUME NoneHidden, NEW index \in 0..nSize, NEW count \in Nat,
           call'.index = index, call'.count = count
    PROVE  /\ index < nSize => /\ Promise!RangeCount = Clip(index, count)
                               /\ Clip(index, count) \in Nat
                               /\ \A n \in 0..(nSize - 1) :
                                     InRange(n) <=> index <= n /\ n < index + Clip(index, count)
           /\ index >= nSize => /\ Promise!RangeCount = 0
                                /\ \A n \in 0..(nSize - 1) : ~InRange(n)
<1>1. nSize \in Nat /\ Len(Shown) = nSize
  BY WordsAreSequence DEF NoneHidden, Shown
<1> QED BY <1>1 DEF Promise!RangeCount, Promise!Cut, Clip, InRange

LEMMA Unchanged == ASSUME vData' = vData PROVE \A n : Bit(vData', n) = Get(n)
  BY DEF Bit, Get

(* set(), unset() and toggle() of a range.                                 *)
LEMMA RangePromised ==
    ASSUME BitSetAssumption, NoneHidden, NEW index \in 0..nSize, NEW count \in Nat,
           set(index, count) \/ unset(index, count) \/ toggle(index, count)
    PROVE  Promise!Range
<1> DEFINE n == Clip(index, count)
<1>1. PICK op \in {"set", "unset", "toggle"} :
        /\ op = "set" => set(index, count)
        /\ op = "unset" => unset(index, count)
        /\ op = "toggle" => toggle(index, count)
  OBVIOUS
<1>2. index \in Nat /\ nSize \in Nat
  BY DEF NoneHidden
<1>3. /\ call'.op = op /\ call'.index = index /\ call'.count = count /\ nSize' = nSize
      /\ answer' = IF index >= nSize THEN 0 ELSE n
  BY <1>1 DEF set, unset, toggle, RangeOf, Return, Called
<1>4. answer' = Promise!RangeCount
  BY <1>2, <1>3, ClipIs
<1>5. ASSUME NEW i \in 0..(nSize - 1)
      PROVE  Bit(vData', i) = IF InRange(i) THEN IF op = "set" THEN 1 ELSE IF op = "unset" THEN 0 ELSE 1 - Get(i)
                              ELSE Get(i)
  <2>1. CASE index >= nSize
    <3>1. vData' = vData
      BY <1>1, <2>1 DEF set, unset, toggle, RangeOf
    <3> QED BY <1>3, <2>1, <3>1, ClipIs, Unchanged
  <2>2. CASE index < nSize
    <3>1. n \in Nat /\ (InRange(i) <=> index <= i /\ i < index + n)
      BY <1>3, <2>2, ClipIs
    <3>2. CASE n = 0
      <4>1. vData' = vData
        BY <1>1, <1>2, <2>2, <3>2 DEF set, unset, toggle, RangeOf
      <4>2. ~InRange(i)
        BY <1>2, <3>1, <3>2
      <4> QED BY <4>1, <4>2, Unchanged
    <3>3. CASE n # 0
      <4>1. /\ op = "set" => vData' = Ones(Masks(index, n, 1))
            /\ op = "unset" => vData' = Zeroes(Masks(index, n, 0))
            /\ op = "toggle" => vData' = Toggled(Masks(index, n, 0))
        BY <1>1, <1>2, <2>2, <3>3 DEF set, unset, toggle, RangeOf
      <4> HIDE DEF n
      <4>2. index + n \in Nat
        BY <1>2, <3>1
      <4>3. ASSUME NEW slack \in {0, 1}
            PROVE  /\ Bit(Ones(Masks(index, n, slack)), i) = IF index <= i /\ i < index + n THEN 1 ELSE Get(i)
                   /\ Bit(Zeroes(Masks(index, n, slack)), i) = IF index <= i /\ i < index + n THEN 0 ELSE Get(i)
                   /\ Bit(Toggled(Masks(index, n, slack)), i) = IF index <= i /\ i < index + n THEN 1 - Get(i) ELSE Get(i)
        <5>1. Exact(Masks(index, n, slack), index, index + n)
          BY <1>2, <3>1, MasksExact
        <5> QED BY <1>2, <4>2, <5>1, MasksBit
      <4> QED BY <3>1, <4>1, <4>3
    <3> QED BY <3>2, <3>3
  <2> QED BY <1>2, <2>1, <2>2
<1> HIDE DEF n
<1>6. CASE op = "set"
  BY <1>2, <1>3, <1>4, <1>5, <1>6, SetStep
<1>7. CASE op = "unset"
  BY <1>2, <1>3, <1>4, <1>5, <1>7, UnsetStep
<1>8. CASE op = "toggle"
  BY <1>2, <1>3, <1>4, <1>5, <1>8, ToggleStep
<1> QED BY <1>6, <1>7, <1>8

(* The methods of one bit.                                                 *)
LEMMA OnePromised ==
    ASSUME BitSetAssumption, NoneHidden, NEW index \in 0..nSize,
           SetBit(index) \/ UnsetBit(index) \/ ToggleBit(index)
    PROVE  Promise!One
<1>1. PICK op \in {"set1", "unset1", "toggle1"} :
        /\ op = "set1" => SetBit(index)
        /\ op = "unset1" => UnsetBit(index)
        /\ op = "toggle1" => ToggleBit(index)
  OBVIOUS
<1>2. index \in Nat /\ nSize \in Nat
  BY DEF NoneHidden
<1>3. /\ call'.op = op /\ call'.index = index /\ call'.count = 1 /\ nSize' = nSize
      /\ answer' = BitAnswer(index)
  BY <1>1, <1>2 DEF SetBit, UnsetBit, ToggleBit, One, Return, Called, BitAnswer
<1>4. ASSUME NEW i \in 0..(nSize - 1)
      PROVE  Bit(vData', i) = IF InRange(i) THEN IF op = "set1" THEN 1 ELSE IF op = "unset1" THEN 0 ELSE 1 - Get(i)
                              ELSE Get(i)
  <2>0. InRange(i) <=> index <= i /\ i < index + 1
    BY <1>3 DEF InRange
  <2>1. CASE index >= nSize
    <3>1. vData' = vData
      BY <1>1, <2>1 DEF SetBit, UnsetBit, ToggleBit, One
    <3>2. ~InRange(i)
      BY <1>2, <2>0, <2>1
    <3> QED BY <3>1, <3>2, Unchanged
  <2>2. CASE index < nSize
    <3>1. /\ op = "set1" => vData' = Ones(BitMask(index))
          /\ op = "unset1" => vData' = Zeroes(BitMask(index))
          /\ op = "toggle1" => vData' = Toggled(BitMask(index))
      BY <1>1, <1>2, <2>2 DEF SetBit, UnsetBit, ToggleBit, One
    <3>2. index + 1 \in Nat /\ Exact(BitMask(index), index, index + 1)
      BY <1>2, BitMaskExact
    <3>3. /\ Bit(Ones(BitMask(index)), i) = IF index <= i /\ i < index + 1 THEN 1 ELSE Get(i)
          /\ Bit(Zeroes(BitMask(index)), i) = IF index <= i /\ i < index + 1 THEN 0 ELSE Get(i)
          /\ Bit(Toggled(BitMask(index)), i) = IF index <= i /\ i < index + 1 THEN 1 - Get(i) ELSE Get(i)
      BY <1>2, <3>2, MasksBit
    <3> QED BY <2>0, <3>1, <3>3
  <2> QED BY <1>2, <2>1, <2>2
<1>5. CASE op = "set1"
  BY <1>2, <1>3, <1>4, <1>5, SetStep
<1>6. CASE op = "unset1"
  BY <1>2, <1>3, <1>4, <1>6, UnsetStep
<1>7. CASE op = "toggle1"
  BY <1>2, <1>3, <1>4, <1>7, ToggleStep
<1> QED BY <1>5, <1>6, <1>7

(* set() of given values.                                                  *)
LEMMA ValuesPromised ==
    ASSUME BitSetAssumption, NoneHidden, Typed, NEW index \in 0..nSize, NEW count \in Nat, NEW values \in Patterns,
           SetValues(index, count, values)
    PROVE  Promise!Range
<1> DEFINE n == Clip(index, count)
           off == index % WordBits
           cursor(k) == <<WordOf(index) + (off + k) \div WordBits, (off + k) % WordBits>>
           masks(v) == {<<cursor(k)[1], {cursor(k)[2]}>> : k \in {j \in 0..(n - 1) : values[j + 1] = v}}
<1>1. index \in Nat /\ nSize \in Nat /\ nSize <= MaxBits /\ MaxBits \in Nat
  BY DEF NoneHidden, Typed, BitSetAssumption
<1>2. /\ call'.op = "values" /\ call'.index = index /\ call'.count = count /\ call'.values = values
      /\ nSize' = nSize /\ answer' = IF index >= nSize THEN 0 ELSE n
  BY DEF SetValues, Return, Called
<1>3. answer' = Promise!RangeCount
  BY <1>1, <1>2, ClipIs
<1>4. values \in Seq({0, 1}) /\ Len(values) > MaxBits
  BY DEF BitSetAssumption
<1>5. ASSUME NEW i \in 0..(nSize - 1)
      PROVE  Bit(vData', i) = IF InRange(i) THEN values[(i - index) + 1] ELSE Get(i)
  <2>1. CASE index >= nSize
    <3>1. vData' = vData
      BY <2>1 DEF SetValues
    <3> QED BY <1>2, <2>1, <3>1, ClipIs, Unchanged
  <2>2. CASE index < nSize
    <3> DEFINE w == WordOf(i)
               b == i % WordBits
    <3>1. n \in Nat /\ (InRange(i) <=> index <= i /\ i < index + n) /\ index + n <= nSize
      <4>1. index + n <= nSize
        BY <1>1, <2>2, ClipInside
      <4> QED BY <1>2, <2>2, <4>1, ClipIs
    <3>2. w \in Nat /\ b \in Places /\ i = BitAt(w, b) /\ w + 1 \in DOMAIN vData /\ i \in Nat
      BY WordThere
    <3>3. ASSUME NEW k \in 0..(n - 1)
          PROVE  /\ cursor(k)[1] \in Nat /\ cursor(k)[2] \in Places
                 /\ BitAt(cursor(k)[1], cursor(k)[2]) = index + k
      <4>1. k \in Nat
        BY <3>1
      <4> QED BY <1>1, <4>1, CursorAt
    <3>4. vData' = [j \in DOMAIN vData |-> (vData[j] \ MaskOf(masks(0), j)) \cup MaskOf(masks(1), j)]
      <4>1. ~(index >= nSize)
        BY <1>1, <2>2
      <4>2. vData' = Written(index, n, values)
        BY <4>1 DEF SetValues
      <4>3. Written(index, n, values) = [j \in DOMAIN vData |-> (vData[j] \ MaskOf(masks(0), j)) \cup MaskOf(masks(1), j)]
        BY DEF Written
      <4> QED BY <4>2, <4>3
    <3> HIDE DEF cursor, n, w, b
    <3>5. ASSUME NEW v
          PROVE  b \in MaskOf(masks(v), w + 1) <=> InRange(i) /\ values[(i - index) + 1] = v
      <4>1. b \in MaskOf(masks(v), w + 1) <=> \E m \in masks(v) : m[1] = w /\ b \in m[2]
        BY <3>2, MaskHas
      <4>2. ASSUME NEW k \in 0..(n - 1), cursor(k)[1] = w, cursor(k)[2] = b
            PROVE  k = i - index /\ InRange(i)
        <5>1. index + k = i
          BY <3>2, <3>3, <4>2
        <5> QED BY <1>1, <3>1, <5>1
      <4>3. ASSUME NEW m \in masks(v), m[1] = w, b \in m[2]
            PROVE  InRange(i) /\ values[(i - index) + 1] = v
        <5>1. PICK k \in 0..(n - 1) : values[k + 1] = v /\ m = <<cursor(k)[1], {cursor(k)[2]}>>
          OBVIOUS
        <5>2. cursor(k)[1] = w /\ cursor(k)[2] = b
          BY <4>3, <5>1
        <5> QED BY <4>2, <5>1, <5>2
      <4>4. ASSUME InRange(i), values[(i - index) + 1] = v
            PROVE  \E m \in masks(v) : m[1] = w /\ b \in m[2]
        <5> DEFINE k == i - index
                   m == <<cursor(k)[1], {cursor(k)[2]}>>
        <5>1. k \in 0..(n - 1) /\ index + k = i
          BY <1>1, <3>1, <3>2, <4>4
        <5>2. cursor(k)[1] = w /\ cursor(k)[2] = b
          <6>1. cursor(k)[1] \in Nat /\ cursor(k)[2] \in Places /\ BitAt(cursor(k)[1], cursor(k)[2]) = BitAt(w, b)
            BY <3>2, <3>3, <5>1
          <6> QED BY <3>2, <6>1, OneBit
        <5>3. m \in masks(v)
          BY <4>4, <5>1
        <5>4. m[1] = w /\ b \in m[2]
          BY <5>2
        <5> QED BY <5>3, <5>4
      <4> QED BY <4>1, <4>3, <4>4
    <3> HIDE DEF masks
    <3>6. InRange(i) => values[(i - index) + 1] \in {0, 1}
      <4>1. SUFFICES ASSUME InRange(i) PROVE (i - index) + 1 \in 1..Len(values)
        BY <1>4
      <4> QED BY <1>1, <1>4, <3>1, <3>2, <4>1
    <3>7. b \in vData'[w + 1] <=> (b \in vData[w + 1] /\ b \notin MaskOf(masks(0), w + 1)) \/ b \in MaskOf(masks(1), w + 1)
      BY <3>2, <3>4
    <3>8. Bit(vData', i) = (IF b \in vData'[w + 1] THEN 1 ELSE 0) /\ Get(i) = (IF b \in vData[w + 1] THEN 1 ELSE 0)
      BY DEF Bit, Get, w, b
    <3> QED BY <3>5, <3>6, <3>7, <3>8
  <2> QED BY <1>1, <2>1, <2>2
<1> HIDE DEF n
<1> QED BY <1>1, <1>2, <1>3, <1>5, GivenStep

(* The methods of all bits.                                                *)
LEMMA AllPromised ==
    ASSUME BitSetAssumption, NoneHidden, SetAll \/ UnsetAll \/ ToggleAll
    PROVE  Promise!Range
<1>0. nSize \in Nat /\ DOMAIN vData = 1..nCapacity /\ nCapacity \in Nat
  BY DEF NoneHidden, nCapacity
<1>1. call'.index = 0 /\ call'.count = nSize /\ nSize' = nSize /\ answer' = nSize
  BY DEF SetAll, UnsetAll, ToggleAll, All, Return, Called
<1>2. answer' = Promise!RangeCount
  <2>1. Len(Shown) = nSize
    BY <1>0, WordsAreSequence DEF Shown
  <2> QED BY <1>0, <1>1, <2>1 DEF Promise!RangeCount, Promise!Cut
<1>3. \A n \in 0..(nSize - 1) : InRange(n)
  BY <1>0, <1>1 DEF InRange
<1>4. CASE SetAll
  <2>1. ASSUME NEW n \in 0..(nSize - 1) PROVE Bit(vData', n) = 1
    <3> DEFINE w == WordOf(n)
               b == n % WordBits
               bits == nSize % WordBits
    <3>1. /\ w + 1 \in DOMAIN vData /\ w \in Nat /\ b \in Places /\ nCapacity = Words(nSize)
          /\ w + 1 = Words(nSize) /\ bits > 0 => b \in Low(bits)
      <4>1. w + 1 \in DOMAIN vData /\ w \in Nat /\ b \in Places
        BY WordThere
      <4>2. nSize > 0 /\ nCapacity = Words(nSize)
        BY <1>0 DEF NoneHidden
      <4> QED BY <1>0, <4>1, <4>2, HasWord
    <3>2. vData' = [i \in DOMAIN vData |-> IF i = nCapacity /\ bits > 0 THEN Low(bits) ELSE Places]
      BY <1>4 DEF SetAll, All
    <3> HIDE DEF w, b, bits
    <3>3. b \in vData'[w + 1]
      BY <3>1, <3>2
    <3> QED BY <3>3 DEF Bit, w, b
  <2>2. call'.op = "set"
    BY <1>4 DEF SetAll, All, Return, Called
  <2> QED BY <1>1, <1>2, <1>3, <2>1, <2>2, SetStep
<1>5. CASE UnsetAll
  <2>1. ASSUME NEW n \in 0..(nSize - 1) PROVE Bit(vData', n) = 0
    <3>1. WordOf(n) + 1 \in DOMAIN vData
      BY WordThere
    <3>2. vData' = [i \in DOMAIN vData |-> {}]
      BY <1>5 DEF UnsetAll, All
    <3> QED BY <3>1, <3>2 DEF Bit
  <2>2. call'.op = "unset"
    BY <1>5 DEF UnsetAll, All, Return, Called
  <2> QED BY <1>1, <1>2, <1>3, <2>1, <2>2, UnsetStep
<1>6. CASE ToggleAll
  <2> DEFINE masks == Rest(0, nSize)
  <2>1. vData' = Toggled(masks) /\ call'.op = "toggle"
    BY <1>6 DEF ToggleAll, All, Return, Called
  <2>2. Exact(masks, 0, nSize)
    <3>1. 0 * WordBits = 0 /\ 0 * WordBits + nSize = nSize /\ 0 \in Nat
      BY <1>0 DEF BitSetAssumption
    <3>2. Exact(masks, 0 * WordBits, 0 * WordBits + nSize)
      BY <1>0, RestExact
    <3> QED BY <3>1, <3>2
  <2> HIDE DEF masks
  <2>3. ASSUME NEW n \in 0..(nSize - 1) PROVE Bit(vData', n) = 1 - Get(n)
    <3>1. 0 <= n /\ n < nSize /\ 0 \in Nat
      BY <1>0
    <3>2. Bit(Toggled(masks), n) = IF 0 <= n /\ n < nSize THEN 1 - Get(n) ELSE Get(n)
      BY <1>0, <2>2, <3>1, MasksBit
    <3> QED BY <2>1, <3>1, <3>2
  <2> QED BY <1>1, <1>2, <1>3, <2>1, <2>3, ToggleStep
<1> QED BY <1>4, <1>5, <1>6

(* The methods that change the size.                                       *)
LEMMA SizePromised ==
    ASSUME BitSetAssumption, NoneHidden, NEW size \in Nat, resize(size) \/ swap(size)
    PROVE  Promise!Resize \/ Promise!Swap
<1> DEFINE rem == size % WordBits
           last == Words(size)
           Kept(i) == IF i \in DOMAIN vData THEN vData[i] ELSE {}
           Cut(i) == IF i = last /\ rem > 0 THEN Kept(i) \cap Low(rem) ELSE Kept(i)
<1>0. DOMAIN Shown = 1..nSize /\ nSize \in Nat /\ Shown' = [i \in 1..nSize' |-> Bit(vData', i - 1)]
  BY DEF Shown, NoneHidden, Get, Bit
<1>1. CASE Become(size, [i \in 1..last |-> Cut(i)], "resize", size, 1)
  <2>1. nSize' = size /\ vData' = [i \in 1..last |-> Cut(i)] /\ answer' = 1
        /\ call'.op = "resize" /\ call'.count = size
    BY <1>1 DEF Become, Called
  <2>2. ASSUME NEW i \in 1..size
        PROVE  Bit(vData', i - 1) = IF i \in DOMAIN Shown THEN Shown[i] ELSE 0
    <3> DEFINE n == i - 1
               w == WordOf(n)
               b == n % WordBits
    <3>1. n \in 0..(size - 1) /\ n \in Nat
      OBVIOUS
    <3>2. /\ w \in Nat /\ b \in Places /\ n = BitAt(w, b) /\ w + 1 \in 1..last
          /\ w + 1 = last /\ rem > 0 => b \in Low(rem)
      BY <3>1, HasWord
    <3>3. Bit(vData', n) = IF b \in vData'[w + 1] THEN 1 ELSE 0
      BY DEF Bit
    <3>4. Get(n) = IF b \in vData[w + 1] THEN 1 ELSE 0
      BY DEF Get
    <3>5. i \in DOMAIN Shown => Shown[i] = Get(n) /\ w + 1 \in DOMAIN vData
      <4>1. SUFFICES ASSUME i \in 1..nSize PROVE Shown[i] = Get(n) /\ w + 1 \in DOMAIN vData
        BY <1>0
      <4>2. n \in 0..(nSize - 1)
        BY <1>0, <4>1
      <4> QED BY <4>1, <4>2, WordThere DEF Shown
    <3>6. i \notin DOMAIN Shown => nSize <= n
      BY <1>0, <3>1
    <3> HIDE DEF n, w, b, rem, last
    <3>7. b \in vData'[w + 1] <=> b \in Kept(w + 1)
      BY <2>1, <3>2
    <3>8. i \notin DOMAIN Shown => b \notin Kept(w + 1)
      <4>1. SUFFICES ASSUME i \notin DOMAIN Shown, b \in Kept(w + 1) PROVE FALSE
        OBVIOUS
      <4>2. w + 1 \in DOMAIN vData /\ b \in vData[w + 1]
        BY <4>1
      <4>3. (w + 1) - 1 = w
        BY <3>2
      <4>4. BitAt(w, b) < nSize
        BY <4>2, <4>3 DEF NoneHidden, Inside
      <4> QED BY <1>0, <3>1, <3>2, <3>6, <4>1, <4>4
    <3>9. CASE i \in DOMAIN Shown
      BY <3>3, <3>4, <3>5, <3>7, <3>9 DEF n
    <3>10. CASE i \notin DOMAIN Shown
      BY <3>3, <3>7, <3>8, <3>10 DEF n
    <3> QED BY <3>9, <3>10
  <2>3. Shown' = Promise!Resized(size)
    BY <1>0, <2>1, <2>2 DEF Promise!Resized
  <2> QED BY <2>1, <2>3 DEF Promise!Resize
<1>2. CASE Become(nSize, vData, "resize", size, 0)
  <2>1. nSize' = nSize /\ vData' = vData /\ answer' = 0 /\ call'.op = "resize"
    BY <1>2 DEF Become, Called
  <2>2. Shown' = Shown
    BY <1>0, <2>1 DEF Shown, Get, Bit
  <2> QED BY <2>1, <2>2 DEF Promise!Resize
<1>3. CASE swap(size)
  <2>1. nSize' = size /\ vData' = [i \in 1..last |-> {}] /\ answer' = 0
        /\ call'.op = "swap" /\ call'.count = size
    BY <1>3 DEF swap, Become, Called
  <2>2. ASSUME NEW i \in 1..size PROVE Bit(vData', i - 1) = 0
    <3>1. i - 1 \in 0..(size - 1)
      OBVIOUS
    <3>2. WordOf(i - 1) + 1 \in 1..last
      BY <3>1, HasWord
    <3> QED BY <2>1, <3>2 DEF Bit
  <2>3. Shown' = [i \in 1..size |-> 0]
    BY <1>0, <2>1, <2>2
  <2> QED BY <2>1, <2>3 DEF Promise!Swap
<1>4. resize(size) => \/ Become(size, [i \in 1..last |-> Cut(i)], "resize", size, 1)
                      \/ Become(nSize, vData, "resize", size, 0)
  BY DEF resize
<1> QED BY <1>1, <1>2, <1>3, <1>4

LEMMA EmptyPromised == ASSUME clear \/ flush PROVE Promise!Clear
<1>1. nSize' = 0 /\ answer' = 0 /\ call'.op = "clear"
  BY DEF clear, flush, Become, Called
<1>2. Shown' = [i \in 1..0 |-> Get(i - 1)']
  BY <1>1 DEF Shown
<1>3. 1..0 = {}
  OBVIOUS
<1>4. Shown' = << >>
  BY <1>2, <1>3
<1> QED BY <1>1, <1>4 DEF Promise!Clear

LEMMA NextPromised ==
    ASSUME BitSetAssumption, NoneHidden, Typed, [Next]_vars
    PROVE  [Promise!Next]_Promise!vars
<1>1. 0..nSize \subseteq Nat /\ 0..(nSize + 1) \subseteq Nat /\ 0..MaxBits \subseteq Nat
  BY DEF NoneHidden, BitSetAssumption
<1>2. CASE UNCHANGED vars
  BY <1>2 DEF vars, Promise!vars, Shown, Get, WordOf
<1>3. CASE Next
  <2>1. ASSUME NEW index \in 0..nSize, NEW count \in 0..(nSize + 1),
               set(index, count) \/ unset(index, count) \/ toggle(index, count)
        PROVE  Promise!Next
    BY <1>1, <2>1, RangePromised DEF Promise!Next
  <2>2. ASSUME NEW index \in 0..nSize, NEW count \in 0..(nSize + 1), NEW p \in Patterns,
               SetValues(index, count, p)
        PROVE  Promise!Next
    BY <1>1, <2>2, ValuesPromised DEF Promise!Next
  <2>3. ASSUME NEW index \in 0..nSize, SetBit(index) \/ UnsetBit(index) \/ ToggleBit(index)
        PROVE  Promise!Next
    BY <2>3, OnePromised DEF Promise!Next
  <2>4. ASSUME NEW size \in 0..MaxBits, resize(size) \/ swap(size)
        PROVE  Promise!Next
    BY <1>1, <2>4, SizePromised DEF Promise!Next
  <2> QED BY <1>3, <2>1, <2>2, <2>3, <2>4, AllPromised, EmptyPromised DEF Next, Promise!Next
<1> QED BY <1>2, <1>3

LEMMA InitPromised == Init => Promise!Init
<1> SUFFICES ASSUME Init PROVE Promise!Init
  OBVIOUS
<1>1. nSize = 0 /\ answer = 0 /\ 1..0 = {}
  BY DEF Init
<1>2. Shown = << >>
  BY <1>1 DEF Shown
<1> QED BY <1>1, <1>2 DEF Promise!Init

(* Every method does to the bits, and returns, what it would with a sequence of
   bits, for any width of a word and wherever a range begins and ends.     *)
THEOREM BitsKeepPromise ==
    ASSUME BitSetAssumption, ~SetAllCleared
    PROVE  Spec => Promise!Spec
<1>1. Init => NoneHidden /\ Typed /\ Promise!Init
  BY InitPromised DEF Init, NoneHidden, Inside, Typed, BitSetAssumption
<1>2. NoneHidden /\ Typed /\ [Next]_vars => (NoneHidden /\ Typed)' /\ [Promise!Next]_Promise!vars
  BY HiddenNext, AnswersInRange, NextPromised
<1> QED BY <1>1, <1>2, PTL DEF Spec, Promise!Spec
=============================================================================
