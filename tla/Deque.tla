------------------------------- MODULE Deque -------------------------------
(***************************************************************************)
(* What lltl::ddeque<T> promises (include/lsp-plug.in/lltl/ddeque.h): a    *)
(* double-ended queue of elements.  A push that fails changes nothing.     *)
(***************************************************************************)
EXTENDS Integers, SequencesExt

CONSTANTS Values, MaxBulk

VARIABLES
    items,          \* the elements, front first
    call,           \* the last call: method, array argument, number argument
    ok,             \* its answer
    got             \* the elements it extracted, in the order it stores them

vars == <<items, call, ok, got>>

Called(op, s, n) == [op |-> op, s |-> s, n |-> n]

Init == items = << >> /\ call = Called("init", << >>, 0) /\ ok = TRUE /\ got = << >>

Bulk == UNION {[1..n -> Values] : n \in 0..MaxBulk}

(* All of s goes in, or no memory is left and nothing does.                *)
Push(op, s, placed) ==
    /\ call' = Called(op, s, 0)
    /\ got' = << >>
    /\ \/ ok' = TRUE /\ items' = placed
       \/ ok' = FALSE /\ UNCHANGED items

PushBack(s)  == Push("push_back", s, items \o s)
PushFront(s) == Push("push_front", s, Reverse(s) \o items)
Prepend(s)   == Push("prepend", s, s \o items)

Avail(n) == IF n < Len(items) THEN n ELSE Len(items)

FirstOf(k) == SubSeq(items, 1, k)
LastOf(k)  == SubSeq(items, Len(items) - k + 1, Len(items))
AllBut(k)  == Len(items) - k

Extract(op, n, left, taken) ==
    /\ call' = Called(op, << >>, n)
    /\ items' = left
    /\ got' = taken
    /\ ok' = (taken # << >>)

PopFront(n) == Extract("pop_front", n, LastOf(AllBut(Avail(n))), FirstOf(Avail(n)))
TakeBack(n) == Extract("take_back", n, FirstOf(AllBut(Avail(n))), LastOf(Avail(n)))
PopBack(n)  == Extract("pop_back", n, FirstOf(AllBut(Avail(n))), Reverse(LastOf(Avail(n))))

(* clear(), flush() and the destructor                                     *)
Clear ==
    /\ call'.op \in {"clear", "flush"}
    /\ items' = << >> /\ ok' = TRUE /\ got' = << >>

(* reserve() and truncate() are about memory only.                         *)
Keep ==
    /\ call'.op \in {"truncate", "reserve"}
    /\ UNCHANGED items /\ ok' \in BOOLEAN /\ got' = << >>

Next ==
    \/ \E s \in Bulk : PushBack(s) \/ PushFront(s) \/ Prepend(s)
    \/ \E n \in 0..MaxBulk : PopFront(n) \/ PopBack(n) \/ TakeBack(n)
    \/ Clear \/ Keep

Spec == Init /\ [][Next]_vars
=============================================================================
