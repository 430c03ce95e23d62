------------------------------ MODULE Iterator ------------------------------
(***************************************************************************)
(* lltl::raw_iterator, src/main/iterator.cpp, over a container whose       *)
(* iterators are places in it, as those of raw_darray and raw_parray are.  *)
(* "of" is the container, NULL for an invalid iterator; a container is the *)
(* number of its elements here.                                            *)
(***************************************************************************)
EXTENDS Integers

NULL == -1

INVALID == [of |-> NULL, index |-> 0, reversive |-> FALSE]

iter(nItems) == IF nItems <= 0 THEN INVALID ELSE [of |-> nItems, index |-> 0, reversive |-> FALSE]

riter(nItems) == IF nItems <= 0 THEN INVALID ELSE [of |-> nItems, index |-> nItems - 1, reversive |-> TRUE]

count(i) == IF i.of = NULL THEN 0 ELSE i.of

iter_move(i, n) == IF i.index + n \in 0..(count(i) - 1) THEN [i EXCEPT !.index = @ + n] ELSE INVALID

(* The operators ++, --, += and -=.                                        *)
advance(i, n) == iter_move(i, IF i.reversive THEN -n ELSE n)

(* Mutant of remaining: counts elements for both directions alike.         *)
RemainingForward(i) == count(i) - i.index

remaining(i) == IF i.reversive THEN i.index + 1 ELSE count(i) - i.index

max_advance(i) ==
    IF i.of = NULL THEN 0 ELSE IF i.reversive THEN i.index ELSE count(i) - i.index - 1

(* compare_to(): the sign says which comes first in the direction of a.    *)
compare_to(a, b) ==
    LET res == IF a.of = b.of THEN a.index - b.index ELSE 1 IN
    IF a.of # b.of /\ b.of # NULL THEN [res |-> 0, valid |-> FALSE]
    ELSE [res |-> IF a.reversive THEN -res ELSE res, valid |-> TRUE]

Less(a, b) == compare_to(a, b).valid /\ compare_to(a, b).res < 0
Same(a, b) == compare_to(a, b).valid /\ compare_to(a, b).res = 0

diff(a, b) ==
    IF a.of = b.of THEN a.index - b.index
    ELSE IF a.of = NULL THEN remaining(b)
    ELSE IF b.of = NULL THEN remaining(a) ELSE 0
=============================================================================
