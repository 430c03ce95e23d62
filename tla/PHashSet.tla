------------------------------ MODULE PHashSet ------------------------------
(***************************************************************************)
(* lltl::raw_phashset, src/main/phashset.cpp: a hash set of pointers to    *)
(* objects it compares by what they point to.  Two pointers of one class   *)
(* compare as equal, and the set keeps the one that was put last.  Every   *)
(* action is one whole method; the methods are sequential.                 *)
(***************************************************************************)
EXTENDS Chains

CONSTANTS
    Classes,        \* classes of objects that compare as equal
    Copies,         \* objects of a class
    Hash            \* Hash[c]: the hash of the objects of a class

ClassesAssumption == NULL \notin Classes \cup (Classes \X Copies) /\ Hash \in [Classes -> Nat]

VARIABLES
    table,          \* size, cap and bins
    call,           \* history: the last call
    ok,             \* history: its answer
    old             \* history: what it stored through ret or ov

vars == <<table, call, ok, old>>

Pointers == (Classes \X Copies) \cup {NULL}

class(p) == IF p = NULL THEN NULL ELSE p[1]
hash(p)  == IF p = NULL THEN 0 ELSE Hash[p[1]]

Tuple == [hash : Nat, key : Classes \cup {NULL}, value : Pointers]

TypeOK ==
    /\ table \in [size : Nat, bins : Seq([size : Nat, data : Seq(Tuple)])]
    /\ ok \in BOOLEAN
    /\ old \in Pointers

Called(op, k, v) == [op |-> op, key |-> k, value |-> v]

Init ==
    /\ table = Empty
    /\ call = Called("init", NULL, NULL) /\ ok = TRUE /\ old = NULL

-----------------------------------------------------------------------------
find_tuple(p) == Search(table, class(p), hash(p))

Exists(p) == find_tuple(p) # 0
Found(p) == Chain(table, hash(p))[find_tuple(p)]

create_tuple(p) ==
    {[ok |-> FALSE, d |-> table],
     [ok |-> TRUE, d |-> Placed(table, [hash |-> hash(p), key |-> class(p), value |-> p])]}

(* Mutant of remove_tuple: the counter of the bin stays.                   *)
RemoveKeepsBinSize(p) ==
    [Unlink(table, hash(p), find_tuple(p)) EXCEPT !.bins[BinOf(table, hash(p))].size = @ + 1]

remove_tuple(p) == Unlink(table, hash(p), find_tuple(p))

-----------------------------------------------------------------------------
Answer(op, p, v, yes, value) ==
    call' = Called(op, class(p), v) /\ ok' = yes /\ old' = value

Insert(op, p) == \E o \in create_tuple(p) : table' = o.d /\ Answer(op, p, p, o.ok, NULL)

Put(p) ==
    IF Exists(p)
    THEN /\ table' = Store(table, hash(p), find_tuple(p), p)
         /\ Answer("put", p, p, TRUE, Found(p).value)
    ELSE Insert("put", p)

Create(p) ==
    IF Exists(p) THEN Answer("create", p, p, FALSE, NULL) /\ UNCHANGED table
    ELSE Insert("create", p)

RemoveValue(p) ==
    IF Exists(p) THEN table' = remove_tuple(p) /\ Answer("remove", p, NULL, TRUE, Found(p).value)
    ELSE Answer("remove", p, NULL, FALSE, NULL) /\ UNCHANGED table

Toggle(p) ==
    IF Exists(p) THEN table' = remove_tuple(p) /\ Answer("toggle", p, p, TRUE, NULL)
    ELSE Insert("toggle", p)

Clear == table' = Cleared(table) /\ Answer("clear", NULL, NULL, TRUE, NULL)

(* flush(), and the destructor; what swap() with an empty table leaves.    *)
Flush == table' = Empty /\ Answer("clear", NULL, NULL, TRUE, NULL)

Next ==
    \/ \E p \in Pointers : Put(p) \/ Create(p) \/ RemoveValue(p) \/ Toggle(p)
    \/ Clear \/ Flush

Spec == Init /\ [][Next]_vars

-----------------------------------------------------------------------------
(* Properties.                                                             *)

(* Every tuple is the one that a search for its element finds: growth has
   left none in a bin of another hash, and no class is there twice.        *)
Findable ==
    \A b \in DOMAIN table.bins : \A i \in DOMAIN table.bins[b].data :
        LET t == table.bins[b].data[i] IN
        /\ t.hash = hash(t.value) /\ t.key = class(t.value)
        /\ BinOf(table, t.hash) = b
        /\ Search(table, t.key, t.hash) = i

(* The counters, of each bin and of all, say how many tuples there are; the
   iterators trust both.                                                   *)
SizesAgree ==
    /\ \A b \in DOMAIN table.bins : table.bins[b].size = Len(table.bins[b].data)
    /\ table.size = Len(Tuples(table))

(* The set as a map from a class to the element that stands for it.        *)
Entries ==
    [c \in {t.key : t \in Stored(table)} |-> (CHOOSE t \in Stored(table) : t.key = c).value]
=============================================================================
