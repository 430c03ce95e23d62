------------------------------- MODULE PPHash -------------------------------
(***************************************************************************)
(* lltl::raw_pphash, src/main/pphash.cpp: a hash map that owns a copy of   *)
(* each key.  Every action is one whole method, with the outcomes that     *)
(* malloc() and the clone function allow; the methods are sequential.      *)
(***************************************************************************)
EXTENDS Chains

CONSTANTS
    Keys,           \* keys that compare as different, without NULL
    Values,
    Hash            \* Hash[k]: the hash of a key; that of NULL is 0

ASSUME KeysAssumption == NULL \notin Keys /\ Hash \in [Keys -> Nat]

VARIABLES
    table,          \* size, cap and bins
    clones,         \* history: copies of keys that are allocated
    call,           \* history: the last call
    ok,             \* history: its answer
    old             \* history: what it stored through ov

vars == <<table, clones, call, ok, old>>

KeysOrNull == Keys \cup {NULL}

hash(k) == IF k = NULL THEN 0 ELSE Hash[k]

Tuple == [hash : Nat, key : KeysOrNull, value : Values]

TypeOK ==
    /\ table \in [size : Nat, bins : Seq([size : Nat, data : Seq(Tuple)])]
    /\ clones \in Nat
    /\ ok \in BOOLEAN
    /\ old \in Values \cup {NULL}

Called(op, k, v) == [op |-> op, key |-> k, value |-> v]

Init ==
    /\ table = Empty
    /\ clones = 0
    /\ call = Called("init", NULL, NULL) /\ ok = TRUE /\ old = NULL

-----------------------------------------------------------------------------
find_tuple(k) == Search(table, k, hash(k))

Exists(k) == find_tuple(k) # 0
Found(k) == Chain(table, hash(k))[find_tuple(k)]

CopiesOf(k) == IF k = NULL THEN 0 ELSE 1

CopiedKeys(d) == Cardinality({i \in DOMAIN Tuples(d) : Tuples(d)[i].key # NULL})

Outcome(yes, d, copies) == [ok |-> yes, d |-> d, clones |-> clones + copies]

(* Without memory for the tuple, for the copy of the key or for the bins,
   everything that was allocated is freed.                                 *)
create_tuple(k, v) ==
    {Outcome(FALSE, table, 0),
     Outcome(TRUE, Placed(table, [hash |-> hash(k), key |-> k, value |-> v]), CopiesOf(k))}

-----------------------------------------------------------------------------
Answer(op, k, v, yes, value) ==
    call' = Called(op, k, v) /\ ok' = yes /\ old' = value

Insert(op, k, v) ==
    \E o \in create_tuple(k, v) :
        table' = o.d /\ clones' = o.clones /\ Answer(op, k, v, o.ok, NULL)

Update(op, k, v) ==
    /\ table' = Store(table, hash(k), find_tuple(k), v)
    /\ Answer(op, k, v, TRUE, Found(k).value)
    /\ UNCHANGED clones

Refuse(op, k, v) == Answer(op, k, v, FALSE, NULL) /\ UNCHANGED <<table, clones>>

Put(k, v) == IF Exists(k) THEN Update("put", k, v) ELSE Insert("put", k, v)

Create(k, v) == IF Exists(k) THEN Refuse("create", k, v) ELSE Insert("create", k, v)

(* replace(), or a store through the pointer that wbget() returns.        *)
Replace(k, v) == IF Exists(k) THEN Update("replace", k, v) ELSE Refuse("replace", k, v)

(* remove_tuple() takes the tuple out of its chain, then it is freed with
   its key.                                                                *)
RemoveKey(k) ==
    IF Exists(k)
    THEN /\ table' = Unlink(table, hash(k), find_tuple(k))
         /\ clones' = clones - CopiesOf(Found(k).key)
         /\ Answer("remove", k, NULL, TRUE, Found(k).value)
    ELSE Refuse("remove", k, NULL)

(* Mutant of Destroy: frees the key of every tuple, NULL or not.           *)
DestroyFreesNull(d) ==
    /\ table' = d
    /\ clones' = clones - Len(Tuples(table))
    /\ Answer("clear", NULL, NULL, TRUE, NULL)

(* destroy_bin() for each bin frees the tuples with their keys.            *)
Destroy(d) ==
    /\ table' = d
    /\ clones' = clones - CopiedKeys(table)
    /\ Answer("clear", NULL, NULL, TRUE, NULL)

Clear == Destroy(Cleared(table))

(* flush(), and the destructor; what swap() with an empty table leaves.    *)
Flush == Destroy(Empty)

Next ==
    \/ \E k \in KeysOrNull, v \in Values : Put(k, v) \/ Create(k, v) \/ Replace(k, v)
    \/ \E k \in KeysOrNull : RemoveKey(k)
    \/ Clear \/ Flush

Spec == Init /\ [][Next]_vars

-----------------------------------------------------------------------------
(* Properties.                                                             *)

(* Every tuple is the one that a search for its key finds: growth has left
   none in a bin of another hash, and no key is there twice.               *)
Findable ==
    \A b \in DOMAIN table.bins : \A i \in DOMAIN table.bins[b].data :
        LET t == table.bins[b].data[i] IN
        /\ t.hash = hash(t.key)
        /\ BinOf(table, t.hash) = b
        /\ Search(table, t.key, t.hash) = i

(* The counters, of each bin and of all, say how many tuples there are; the
   iterators trust both.                                                   *)
SizesAgree ==
    /\ \A b \in DOMAIN table.bins : table.bins[b].size = Len(table.bins[b].data)
    /\ table.size = Len(Tuples(table))

(* The copies of keys are those of the tuples: none is leaked by a failed
   insertion, a removal or clear(), and none is freed twice.               *)
KeysOwned == clones = CopiedKeys(table)

(* The search that every method begins with never gives a NULL key to the
   comparison, which for strings is strcmp().                              *)
NullNotCompared == \A k \in Keys : ~ComparesNull(table, k, hash(k))

(* The table as a map.                                                     *)
Entries ==
    [k \in {t.key : t \in Stored(table)} |-> (CHOOSE t \in Stored(table) : t.key = k).value]
=============================================================================
