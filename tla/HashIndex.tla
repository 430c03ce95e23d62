----------------------------- MODULE HashIndex -----------------------------
(***************************************************************************)
(* lltl::raw_hash_index, src/main/hash_index.cpp: a hash map whose bins    *)
(* are lists of nodes of NodeSize places; only the last node of a list is  *)
(* not full.  A bin is the sequence of its entries, so the node of an      *)
(* entry follows from its place.  The map keeps the pointers to its keys.  *)
(* Every action is one whole method, with the outcomes that malloc()       *)
(* allows; the methods are sequential.                                     *)
(***************************************************************************)
EXTENDS Chains

CONSTANTS
    Keys,           \* keys that compare as different, without NULL
    Values,
    Hash,           \* Hash[k]: the hash of a key; that of NULL is 0
    NodeSize,       \* places of a node: raw_hash_node_size, 8 in the code
    LongBins,       \* clients remove entries that have two nodes behind theirs
    SplitFails      \* memory may run out while a bin is being split

IndexAssumption ==
    /\ NULL \notin Keys /\ Hash \in [Keys -> Nat]
    /\ NodeSize \in Nat \ {0} /\ {LongBins, SplitFails} \subseteq BOOLEAN

VARIABLES
    table,          \* size, cap and bins
    heap,           \* history: nodes allocated, and those of them that are lost
    hung,           \* history: a call does not end
    call,           \* history: the last call
    ok,             \* history: its answer
    old             \* history: what it stored through ov

vars == <<table, heap, hung, call, ok, old>>

KeysOrNull == Keys \cup {NULL}

hash(k) == IF k = NULL THEN 0 ELSE Hash[k]

Entry == [hash : Nat, key : KeysOrNull, value : Values]

TypeOK ==
    /\ table \in [size : Nat, bins : Seq([size : Nat, data : Seq(Entry)])]
    /\ heap \in [nodes : Nat, lost : Nat]
    /\ ok \in BOOLEAN
    /\ old \in Values \cup {NULL}

Called(op, k, v) == [op |-> op, key |-> k, value |-> v]

Init ==
    /\ table = Empty
    /\ heap = [nodes |-> 0, lost |-> 0] /\ hung = FALSE
    /\ call = Called("init", NULL, NULL) /\ ok = TRUE /\ old = NULL

-----------------------------------------------------------------------------
find_node(k) == Search(table, k, hash(k))

Exists(k) == find_node(k) # 0
Found(k) == Chain(table, hash(k))[find_node(k)]

(* The number of the node of a place, and the nodes that n entries need.   *)
NodeOf(place) == (place - 1) \div NodeSize
NodesFor(n) == (n + NodeSize - 1) \div NodeSize

InBins(d) ==
    LET Upto[b \in 0..Len(d.bins)] == IF b = 0 THEN 0 ELSE Upto[b - 1] + NodesFor(Len(d.bins[b].data))
    IN  Upto[Len(d.bins)]

-----------------------------------------------------------------------------
(* Growth.  The entries of a bin that move are added to the new bin and those
   that stay close up, both in their order.  Nodes that become empty go to a
   list which later bins take theirs from, and which is freed at the end.  *)
Free(n) == IF n > 0 THEN n ELSE 0

(* The free list, and the nodes allocated, when the first i bins are split.*)
SplitNodes(d) ==
    LET c == cap(d)
        After[i \in 0..c] ==
            IF i = 0 THEN [free |-> 0, made |-> 0]
            ELSE LET data == d.bins[i].data
                     need == NodesFor(Len(Moved(data, c)))
                     released == NodesFor(Len(data)) - NodesFor(Len(Kept(data, c)))
                     before == After[i - 1]
                 IN  [free |-> Free(before.free - need) + released,
                      made |-> before.made + Free(need - before.free)]
    IN  After

SplitBin(bin, c) == [size |-> bin.size - Len(Moved(bin.data, c)), data |-> Kept(bin.data, c)]

NewFrom(bin, c) == [size |-> Len(Moved(bin.data, c)), data |-> Moved(bin.data, c)]

SplitTable(d) ==
    LET c == cap(d) IN
    [size |-> d.size,
     bins |-> [i \in 1..(2 * c) |-> IF i <= c THEN SplitBin(d.bins[i], c) ELSE NewFrom(d.bins[i - c], c)]]

(* Mutant of Split: the free list is not freed.                            *)
SplitLeaksFree(d, h) ==
    LET c == cap(d)
        s == SplitNodes(d)[c]
    IN  [d |-> SplitTable(d), heap |-> [nodes |-> h.nodes + s.made, lost |-> h.lost]]

Split(d, h) ==
    LET c == cap(d)
        s == SplitNodes(d)[c]
    IN  [d |-> SplitTable(d), heap |-> [nodes |-> h.nodes + s.made - s.free, lost |-> h.lost]]

(* No memory for the node of the entry at place p of bin b.  The capacity
   stays, so the new bins are lost with what has moved; bin b is half closed
   up under its old size.                                                  *)
Interrupted(d, h, b, p) ==
    LET c == cap(d)
        data == d.bins[b].data
        stay == Kept(SubSeq(data, 1, p - 1), c)
        need == (p - 1 - Len(stay)) \div NodeSize
        before == SplitNodes(d)[b - 1]
        half == stay \o SubSeq(data, Len(stay) + 1, Len(data))
        left == [d EXCEPT !.bins = [i \in 1..c |-> IF i < b THEN SplitBin(@[i], c)
                                                   ELSE IF i = b THEN [@[i] EXCEPT !.data = half] ELSE @[i]]]
        nodes == h.nodes + before.made + need - before.free
    IN  [d |-> left, heap |-> [nodes |-> nodes, lost |-> nodes - InBins(left)]]

(* The places where the splitting asks malloc() for a node.                *)
Interruptions(d) ==
    LET c == cap(d)
        Asks(b, p) ==
            LET data == d.bins[b].data
                moved == Len(Moved(SubSeq(data, 1, p - 1), c))
            IN  /\ (data[p].hash \div c) % 2 = 1
                /\ moved % NodeSize = 0
                /\ moved \div NodeSize >= SplitNodes(d)[b - 1].free
    IN  {bp \in UNION {{b} \X DOMAIN d.bins[b].data : b \in 1..c} : Asks(bp[1], bp[2])}

(* All that grow() may leave: [ok, d, heap].                               *)
grow(d, h) ==
    LET Done(r) == [ok |-> TRUE, d |-> r.d, heap |-> r.heap]
        Failed(r) == [ok |-> FALSE, d |-> r.d, heap |-> r.heap]
    IN  {Failed([d |-> d, heap |-> h])} \cup
        IF d.bins = << >>
        THEN {Done([d |-> Allocated(d), heap |-> h])}
        ELSE {Done(Split(d, h))} \cup
             {Failed(Interrupted(d, h, bp[1], bp[2])) : bp \in IF SplitFails THEN Interruptions(d) ELSE {}}

-----------------------------------------------------------------------------
(* An entry goes to the end of its bin, into a new node if the last is full.*)
Appended(d, t) ==
    LET b == BinOf(d, t.hash) IN WithBin(d, b, 1, Append(d.bins[b].data, t))

NeedsNode(d, t) == Len(Chain(d, t.hash)) % NodeSize = 0

AddTo(d, h, t) ==
    LET In(node) == [ok |-> TRUE, d |-> Appended(d, t), heap |-> [nodes |-> h.nodes + node, lost |-> h.lost]]
    IN  IF NeedsNode(d, t) THEN {In(1), [ok |-> FALSE, d |-> d, heap |-> h]} ELSE {In(0)}

create_item(k, v) ==
    LET t == [hash |-> hash(k), key |-> k, value |-> v] IN
    IF table.size >= cap(table) * Load
    THEN UNION {IF g.ok THEN AddTo(g.d, g.heap, t) ELSE {g} : g \in grow(table, heap)}
    ELSE AddTo(table, heap, t)

-----------------------------------------------------------------------------
Answer(op, k, v, yes, value) ==
    call' = Called(op, k, v) /\ ok' = yes /\ old' = value

Insert(op, k, v) ==
    /\ \E o \in create_item(k, v) : table' = o.d /\ heap' = o.heap /\ Answer(op, k, v, o.ok, NULL)
    /\ UNCHANGED hung

Update(op, k, v) ==
    /\ table' = Store(table, hash(k), find_node(k), v)
    /\ Answer(op, k, v, TRUE, Found(k).value)
    /\ UNCHANGED <<heap, hung>>

Refuse(op, k, v) == Answer(op, k, v, FALSE, NULL) /\ UNCHANGED <<table, heap, hung>>

Put(k, v) == IF Exists(k) THEN Update("put", k, v) ELSE Insert("put", k, v)

Create(k, v) == IF Exists(k) THEN Refuse("create", k, v) ELSE Insert("create", k, v)

(* replace(), or a store through the pointer that wbget() returns.        *)
Replace(k, v) == IF Exists(k) THEN Update("replace", k, v) ELSE Refuse("replace", k, v)

(* The last entry of the bin goes into the hole.                           *)
Filled(data, place) == Front([data EXCEPT ![place] = Last(data)])

(* Mutant of remove_entry: the place is taken for one of the last node.    *)
RemoveInLastNode(d, hv, place) ==
    LET b == BinOf(d, hv)
        data == d.bins[b].data
        hole == NodeSize * NodeOf(Len(data)) + 1 + ((place - 1) % NodeSize)
    IN  WithBin(d, b, -1, IF hole <= Len(data) THEN Filled(data, hole) ELSE Front(data))

remove_entry(d, hv, place) ==
    LET b == BinOf(d, hv) IN WithBin(d, b, -1, Filled(d.bins[b].data, place))

(* The loop that fills the hole never leaves the node behind that of the
   entry: with a third node behind, it does not end.                       *)
Endless(k) == NodeOf(Len(Chain(table, hash(k)))) > NodeOf(find_node(k)) + 1

(* The node that the removal empties is unlinked and not freed.            *)
RemoveFound(k) ==
    /\ table' = remove_entry(table, hash(k), find_node(k))
    /\ LET empties == (Len(Chain(table, hash(k))) - 1) % NodeSize = 0
       IN  heap' = [nodes |-> heap.nodes, lost |-> heap.lost + IF empties THEN 1 ELSE 0]
    /\ Answer("remove", k, NULL, TRUE, Found(k).value)
    /\ UNCHANGED hung

(* The last entry of the next node is copied into the hole, and then into its
   own place for ever.                                                     *)
RemoveHangs(k) ==
    /\ LET b == BinOf(table, hash(k))
           next == NodeSize * (NodeOf(find_node(k)) + 2)
       IN  table' = [table EXCEPT !.bins[b].data[find_node(k)] = table.bins[b].data[next]]
    /\ hung' = TRUE
    /\ UNCHANGED <<heap, call, ok, old>>

RemoveKey(k) ==
    IF ~Exists(k) THEN Refuse("remove", k, NULL)
    ELSE IF Endless(k) THEN LongBins /\ RemoveHangs(k) ELSE RemoveFound(k)

(* destroy_bin() for each bin frees the nodes that are linked.             *)
Destroy(d) ==
    /\ table' = d
    /\ heap' = [nodes |-> heap.nodes - InBins(table), lost |-> heap.lost]
    /\ Answer("clear", NULL, NULL, TRUE, NULL)
    /\ UNCHANGED hung

Clear == Destroy(Cleared(table))

(* flush(), and the destructor; what swap() with an empty table leaves.    *)
Flush == Destroy(Empty)

Next ==
    /\ ~hung
    /\ \/ \E k \in KeysOrNull, v \in Values : Put(k, v) \/ Create(k, v) \/ Replace(k, v)
       \/ \E k \in KeysOrNull : RemoveKey(k)
       \/ Clear \/ Flush

Spec == Init /\ [][Next]_vars

-----------------------------------------------------------------------------
(* Properties.                                                             *)

(* Every entry is the one that a search for its key finds: growth has left
   none in a bin of another hash, and no key is there twice.               *)
Findable ==
    \A b \in DOMAIN table.bins : \A i \in DOMAIN table.bins[b].data :
        LET t == table.bins[b].data[i] IN
        /\ t.hash = hash(t.key)
        /\ BinOf(table, t.hash) = b
        /\ Search(table, t.key, t.hash) = i

(* The counters, of each bin and of all, say how many entries there are.   *)
SizesAgree ==
    /\ \A b \in DOMAIN table.bins : table.bins[b].size = Len(table.bins[b].data)
    /\ table.size = Len(Tuples(table))

(* The nodes that are allocated are those of the bins and those that remove()
   has lost: growth frees and takes the others exactly.                    *)
NodesOwned == heap.nodes = InBins(table) + heap.lost

(* The map.                                                                *)
Entries ==
    [k \in {t.key : t \in Stored(table)} |-> (CHOOSE t \in Stored(table) : t.key = k).value]
=============================================================================
