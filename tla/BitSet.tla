------------------------------- MODULE BitSet -------------------------------
(***************************************************************************)
(* lltl::bitset, src/main/bitset.cpp: bits in words of WordBits bits.  A   *)
(* word, and a mask, is the set of the places of its ones, so that |, & ~  *)
(* and ^ are union, difference and symmetric difference.  Bits at and      *)
(* behind nSize are hidden.  Every action is one whole method.             *)
(***************************************************************************)
EXTENDS Integers, SequencesExt

CONSTANTS
    WordBits,       \* UMWORD_BITS
    MaxBits,        \* bound of the size
    Patterns,       \* values that set(index, count, values) may be given
    SetAllCleared   \* clients call set_all() after clear()

BitSetAssumption ==
    /\ WordBits \in Nat \ {0} /\ MaxBits \in Nat \ {0} /\ SetAllCleared \in BOOLEAN
    /\ \A p \in Patterns : p \in Seq({0, 1}) /\ Len(p) > MaxBits

VARIABLES
    nSize,
    vData,          \* the words
    call, answer    \* history: the last call and what it returned

vars == <<nSize, vData, call, answer>>

Places == 0..(WordBits - 1)

TypeOK == nSize \in 0..MaxBits /\ vData \in Seq(SUBSET Places) /\ answer \in 0..MaxBits

Called(op, index, count, values) == [op |-> op, index |-> index, count |-> count, values |-> values]

Init == nSize = 0 /\ vData = << >> /\ call = Called("init", 0, 0, << >>) /\ answer = 0

nCapacity == Len(vData)

(* Word w, counted from 0, is vData[w + 1].                                *)
WordOf(index) == index \div WordBits

Get(index) == IF index % WordBits \in vData[WordOf(index) + 1] THEN 1 ELSE 0

(* UMWORD_MAX >> (WordBits - n); n ones moved up by off; UMWORD_MAX << off.  *)
Low(n) == 0..(n - 1)
Shifted(n, off) == {b + off : b \in Low(n)} \cap Places

(* Mutant of High: a mask that is not cut to the word.                     *)
HighTooFar(off) == off..WordBits

High(off) == off..(WordBits - 1)

-----------------------------------------------------------------------------
(* The masks of a range of bits, as a set of <<word, mask>>: the head inside
   the first word, the full words in the middle, the tail.  set() tests with
   slack 1 whether the range ends in its first word, the others with 0.    *)
Rest(w, count) ==
    LET full == count \div WordBits IN
    {<<i, Places>> : i \in w..(w + full - 1)} \cup {<<w + full, Low(count - full * WordBits)>>}

Masks(index, count, slack) ==
    LET w == WordOf(index)
        off == index % WordBits
    IN  IF off = 0 THEN Rest(w, count)
        ELSE IF (off + count) - slack < WordBits THEN {<<w, Shifted(count, off)>>}
        ELSE {<<w, High(off)>>} \cup Rest(w + 1, count - (WordBits - off))

MaskOf(masks, i) == UNION {m[2] : m \in {n \in masks : n[1] = i - 1}}

Ones(masks) == [i \in DOMAIN vData |-> vData[i] \cup MaskOf(masks, i)]
Zeroes(masks) == [i \in DOMAIN vData |-> vData[i] \ MaskOf(masks, i)]
Toggled(masks) ==
    [i \in DOMAIN vData |-> (vData[i] \ MaskOf(masks, i)) \cup (MaskOf(masks, i) \ vData[i])]

(* The cells of values, bit after bit, with a mask that starts over in the
   next word when it has left this one.                                    *)
Written(index, count, values) ==
    LET off == index % WordBits
        Cursor(k) == <<WordOf(index) + (off + k) \div WordBits, (off + k) % WordBits>>
        MasksOf(v) == {<<Cursor(k)[1], {Cursor(k)[2]}>> : k \in {j \in 0..(count - 1) : values[j + 1] = v}}
    IN  [i \in DOMAIN vData |-> (vData[i] \ MaskOf(MasksOf(0), i)) \cup MaskOf(MasksOf(1), i)]

-----------------------------------------------------------------------------
Return(op, index, count, values, result) ==
    call' = Called(op, index, count, values) /\ answer' = result /\ UNCHANGED nSize

Clip(index, count) == IF index + count > nSize THEN nSize - index ELSE count

RangeOf(op, index, count, words) ==
    IF index >= nSize THEN Return(op, index, count, << >>, 0) /\ UNCHANGED vData
    ELSE /\ vData' = IF Clip(index, count) = 0 THEN vData ELSE words
         /\ Return(op, index, count, << >>, Clip(index, count))

set(index, count) == RangeOf("set", index, count, Ones(Masks(index, Clip(index, count), 1)))
unset(index, count) == RangeOf("unset", index, count, Zeroes(Masks(index, Clip(index, count), 0)))
toggle(index, count) == RangeOf("toggle", index, count, Toggled(Masks(index, Clip(index, count), 0)))

SetValues(index, count, values) ==
    IF index >= nSize THEN Return("values", index, count, values, 0) /\ UNCHANGED vData
    ELSE /\ vData' = Written(index, Clip(index, count), values)
         /\ Return("values", index, count, values, Clip(index, count))

(* The methods of one bit return what it was.                              *)
One(op, index, words) ==
    IF index >= nSize THEN Return(op, index, 1, << >>, 0) /\ UNCHANGED vData
    ELSE vData' = words /\ Return(op, index, 1, << >>, Get(index))

BitMask(index) == {<<WordOf(index), {index % WordBits}>>}

SetBit(index) == One("set1", index, Ones(BitMask(index)))
UnsetBit(index) == One("unset1", index, Zeroes(BitMask(index)))
ToggleBit(index) == One("toggle1", index, Toggled(BitMask(index)))

(* All bits: set_all() sets the words and masks the last one, toggle_all()
   goes by the size.                                                       *)
All(op, words) == vData' = words /\ Return(op, 0, nSize, << >>, nSize)

SetAll ==
    LET bits == nSize % WordBits IN
    /\ nSize > 0 \/ nCapacity = 0 \/ SetAllCleared
    /\ All("set", [i \in DOMAIN vData |-> IF i = nCapacity /\ bits > 0 THEN Low(bits) ELSE Places])

UnsetAll == All("unset", [i \in DOMAIN vData |-> {}])

ToggleAll == All("toggle", Toggled(Rest(0, nSize)))

-----------------------------------------------------------------------------
Become(size, words, op, count, result) ==
    nSize' = size /\ vData' = words /\ call' = Called(op, 0, count, << >>) /\ answer' = result

Words(size) == (size + WordBits - 1) \div WordBits

(* Mutant of resize: leaves the bits that are hidden in the last word.     *)
ResizeLeavesHidden(size) ==
    \/ Become(size, [i \in 1..Words(size) |-> IF i \in DOMAIN vData THEN vData[i] ELSE {}], "resize", size, 1)
    \/ Words(size) \notin {0, nCapacity} /\ Become(nSize, vData, "resize", size, 0)

resize(size) ==
    LET bits == size % WordBits
        Kept(i) == IF i \in DOMAIN vData THEN vData[i] ELSE {}
        Shown(i) == IF i = Words(size) /\ bits > 0 THEN Kept(i) \cap Low(bits) ELSE Kept(i)
    IN  \/ Become(size, [i \in 1..Words(size) |-> Shown(i)], "resize", size, 1)
        \/ Words(size) \notin {0, nCapacity} /\ Become(nSize, vData, "resize", size, 0)

clear == Become(0, [i \in DOMAIN vData |-> {}], "clear", 0, 0)

flush == Become(0, << >>, "clear", 0, 0)

(* swap() with a bitset that was resized and no bit set.                   *)
swap(size) == Become(size, [i \in 1..Words(size) |-> {}], "swap", size, 0)

Next ==
    \/ \E index \in 0..nSize :
        \/ \E count \in 0..(nSize + 1) : set(index, count) \/ unset(index, count) \/ toggle(index, count)
        \/ \E count \in 0..(nSize + 1), p \in Patterns : SetValues(index, count, p)
        \/ SetBit(index) \/ UnsetBit(index) \/ ToggleBit(index)
    \/ SetAll \/ UnsetAll \/ ToggleAll
    \/ \E size \in 0..MaxBits : resize(size) \/ swap(size)
    \/ clear \/ flush

Spec == Init /\ [][Next]_vars

-----------------------------------------------------------------------------
(* Properties.                                                             *)

(* There is a word for every bit, and what is hidden is 0: otherwise a later
   resize() within the words would show bits that nobody has set.          *)
HiddenBitsClear ==
    /\ nCapacity >= Words(nSize)
    /\ nSize > 0 => nCapacity = Words(nSize)
    /\ \A i \in nSize..(nCapacity * WordBits - 1) : Get(i) = 0
=============================================================================
