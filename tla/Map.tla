-------------------------------- MODULE Map --------------------------------
(***************************************************************************)
(* What the hash containers promise (include/lsp-plug.in/lltl/pphash.h,    *)
(* phashset.h and ptrset.h): a map, or a set, which is a map from what is  *)
(* compared to the element that is stored.  Only an insertion can fail,    *)
(* and then it changes nothing.                                            *)
(***************************************************************************)
EXTENDS Integers

CONSTANTS Keys, Values, NULL

VARIABLES
    entries,        \* the map: a function on the keys that are present
    call,           \* the last call: method, key, value
    ok,             \* its answer
    old             \* the value it gave back to the caller

vars == <<entries, call, ok, old>>

Called(op, k, v) == [op |-> op, key |-> k, value |-> v]

Init == entries = << >> /\ call = Called("init", NULL, NULL) /\ ok = TRUE /\ old = NULL

Present(k) == k \in DOMAIN entries

With(k, v) == [j \in DOMAIN entries \cup {k} |-> IF j = k THEN v ELSE entries[j]]
Without(k) == [j \in DOMAIN entries \ {k} |-> entries[j]]

Asked(op, k, v) == call' = Called(op, k, v)

Answer(yes, value) == ok' = yes /\ old' = value

Refuse == Answer(FALSE, NULL) /\ UNCHANGED entries

(* The key is new: it goes in, or no memory is left.                       *)
Insert(k, v) == (Answer(TRUE, NULL) /\ entries' = With(k, v)) \/ Refuse

Update(k, v) == Answer(TRUE, entries[k]) /\ entries' = With(k, v)

Delete(k, value) == Answer(TRUE, value) /\ entries' = Without(k)

Put(k, v) == Asked("put", k, v) /\ IF Present(k) THEN Update(k, v) ELSE Insert(k, v)

Create(k, v) == Asked("create", k, v) /\ IF Present(k) THEN Refuse ELSE Insert(k, v)

Replace(k, v) == Asked("replace", k, v) /\ IF Present(k) THEN Update(k, v) ELSE Refuse

Remove(k) == Asked("remove", k, NULL) /\ IF Present(k) THEN Delete(k, entries[k]) ELSE Refuse

(* remove() of a container that does not give the element back             *)
Discard(k) == Asked("discard", k, NULL) /\ IF Present(k) THEN Delete(k, NULL) ELSE Refuse

Toggle(k, v) == Asked("toggle", k, v) /\ IF Present(k) THEN Delete(k, NULL) ELSE Insert(k, v)

(* clear() and flush()                                                     *)
Clear == Asked("clear", NULL, NULL) /\ Answer(TRUE, NULL) /\ entries' = << >>

Method(k) ==
    /\ call'.key = k
    /\ \/ \E v \in Values : Put(k, v) \/ Create(k, v) \/ Replace(k, v) \/ Toggle(k, v)
       \/ Remove(k) \/ Discard(k)

Next == Clear \/ \E k \in Keys : Method(k)

Spec == Init /\ [][Next]_vars
=============================================================================
