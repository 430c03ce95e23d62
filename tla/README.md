# Verification of lsp-lltl-lib

The Low-Level Template Library of LSP Plugins is a C++ library of containers
(`src/main/*.cpp`, `include/lsp-plug.in/lltl/*.h`). Each container is a raw,
untyped structure with its algorithms in a `.cpp` file and a typed template
that only casts around it. This directory holds TLA+ models of those raw
structures, TLC runs that check them on small instances, and TLAPS proofs of
the results that hold for every instance.

## Inventory

| component | state | operations | what is hard | what makes it correct |
|---|---|---|---|---|
| `state` (`state.cpp`) | three bins PENDING, STATE, GARBAGE; a deleter in a tagged union | `push`, `set`, `pull`, `get`, `gc`, `current`, `pending`, `clear`, `destroy`, `set_deleter` | lock-free, several atomics per call, used between a real-time and other threads | one owner per object, one deletion, no leak, the reader's pointer stays alive, states only move forward, the last one arrives |
| `shbuffer` (`shbuffer.cpp`) | heap header with an atomic reference count; handles that point to it | map, copy, assign, move, reset, destroy, compare, get | handles of one buffer dropped by several threads; allocation failure | count = number of handles, freed once and not before the last handle is gone |
| `ddeque` (`ddeque.cpp`) | doubly linked list of chunks with head and tail offsets, list of spare chunks, three counters | push/pop/prepend/take at both ends, single and bulk; get, index_of, clear, truncate, flush, reserve, iterators | chunk boundaries, spare chunks reused, allocation failure half way | it is a sequence; the counters count; a failed call changes nothing |
| `hash_index` (`hash_index.cpp`) | array of bins, each an unrolled list of nodes | put, create, replace, remove, get, keys/values/items, grow, iterators | growth that recycles nodes or fails half way, removal that moves entries across nodes | it is a map; every entry is found; nodes are owned once |
| `pphash` (`pphash.cpp`), `phashset` (`phashset.cpp`) | array of bins, each a linked chain of hashed tuples | put, create, replace, remove, toggle, grow, iterators | growth splits chains, key clones must be freed | a map (a set); every tuple in the bin of its hash; clones owned once |
| `ptrset` (`ptrset.cpp`) | array of bins, each a sorted array of pointers | put, toggle, remove, contains, any, grow, iterators | binary search bounds, growth failing | a set; bins sorted and without duplicates |
| `darray` (`darray.cpp`), `parray` (`parray.cpp`) | one growing array | append, insert, set, remove, move out, swap, sort, truncate, reserve, iterators | overlapping moves, growth and shrinking, ranges that exceed the array | a sequence; never more elements than memory; a failed call changes nothing |
| `bitset` (`bitset.cpp`) | array of words, size, capacity | set, unset, toggle: one, a range, all; resize, clear, swap | masks at word boundaries, hidden bits beyond the size | a sequence of bits; hidden bits are zero |
| `iterator` (`iterator.cpp`) | position in a container, direction | advance, compare, diff, remaining | reverse direction, end of the container | stepping visits each element once, distances add up |
| `types`, `spec` | hash, compare and allocation interfaces | - | - | compared by value, hashed consistently |

Components interact by plain calls: `hash_index`, `pphash`, `phashset` and
`ptrset` fill a `parray` with their keys and values and call the interfaces of
`types`/`spec` to hash, compare and clone; every container builds a
`raw_iterator` whose vtable points back to it. Only `state` and `shbuffer` are
made to be shared between threads.

## Plan

All of the modelling plan is done: `state`, `shbuffer`, `ddeque`, the three hash
tables, `hash_index`, the arrays with the snapshots, `bitset`, `iterator`. So are the
proofs that were planned: every component has its invariants and the refinement of its
promise proved. Left for a continuation: the iterators of
`HashedWalk`, which would have to be written without RECURSIVE
operators first, and a condition weaker than the absence of `LongBins` and
`SplitFails` under which `hash_index` is still right.

## Modules

| code | detailed model | abstract promise | iterators | checked in | proofs |
|---|---|---|---|---|---|
| `state` | `RawState` | `LatestValue` | | `MCRawState`, `MCPairings` | `RawStateProofs` |
| `shbuffer` | `SharedBuffer` | `SharedValue` | | `MCSharedBuffer` | `SharedBufferProofs` |
| `ddeque` | `DDeque` | `Deque` | `DDequeWalk` | `MCDDeque` | `DDequeProofs` on `Recursion` |
| `pphash` | `PPHash` on `Chains` | `Map` | `HashedWalk` | `MCHashed`, `MCHashedWalk` | `HashedProofs` on `HashIndexProofs` |
| `phashset` | `PHashSet` on `Chains` | `Map` | `HashedWalk` | `MCHashed`, `MCHashedWalk` | `HashedProofs` on `HashIndexProofs` |
| `ptrset` | `PtrSet` | `Map` | `HashedWalk` | `MCHashed`, `MCHashedWalk` | `HashedProofs` |
| `hash_index` | `HashIndex` on `Chains` | `Map` | `HashedWalk` | `MCHashed`, `MCHashedWalk` | `HashIndexProofs`, `HashedProofs` |
| `darray`, `parray` | `DArray` | `Array` | `Iterator` | `MCSequences` | `SequencesProofs` |
| snapshots of the hash containers | `Snapshot` on `DArray` | `Array` | | `MCSequences` | `SequencesProofs` |
| `bitset` | `BitSet` | `Bits` | | `MCSequences` | `BitSetProofs`, `SequencesProofs` |

### RawState

`bins` are `vBins`, one object pointer each. Each thread has a program counter
and the locals of the call it is in (`new_state`, `garbage`); every action is one
atomic exchange or load of a bin, or one call of `cleanup()`, named after it:
`PushSwapGarbage`, `PushCleanup`, `PushSwapPending`, ... Compiled code keeps
that order, as the atomics are sequentially consistent. `fate` says what
happened to an object (handed over, deleted, deleted twice, forgotten by
`clear()` without a deleter, or "miscalled": `cleanup()` called the argument of a
deleter for it), `published` the order of publication, `held` the
pointer a consumer has in use. `deleter2` and `slot` stand for the two function
pointers and for what is in the union `deleter1`/`params`. `set_deleter()` and the
constructor of two arguments store what they are given (`Stored2`): if that is a NULL
deleter with an argument, `cleanup()` takes the argument for a deleter of
one argument (`AfterCleanup`). That no client does so is a condition, `~NullDeleter`. The methods the header
reserves for a quiet moment (`clear`, `destroy`, `set_deleter`) are steps of a
cell with no call under way.

`Pushers`, `Setters`, `Pullers`, `Getters`, `Collectors`, `Observers` say who
calls what. A consumer is a thread of `Pullers` or `Getters`. `MCPairings` has the
two pairings of methods that the header describes, `push()` with `get()` and `set()`
with `pull()`; the variable `pairing` chooses at the start.

### SharedBuffer

`ptr` is `v.ptr` of a handle; `references`, `data` and `heap` belong to the heap
header. `reference_down()` is split at its atomic decrement, the call of the
deleter and `free()`; a handle in the middle of it keeps in `replace` what the
method was called with. Handles of different threads interleave freely; each
handle is used by one thread at a time. A block is not used again after
`free()`, so that a dangling pointer stays visible. `lost` counts the references
that a move assignment to a handle in use has overwritten (a finding, below):
the other properties are stated with it, so that they still say something.

### DDeque

One record `dq` holds the fields; the list `pHead ... pTail` and the list
`pUnused` are sequences of chunks, so a link is a place in a sequence. Every
action is one method with every outcome that `malloc()` allows. `fault` is set
where the code would follow a null pointer or write behind a chunk. `DDequeWalk`
reads the structure the way `get()`, `first()`, `last()`, `index_of()` and the
iterators do; a loop of theirs is its round (`Skip`, `ForwardRound`,
`BackwardRound`), repeated by a recursive function until nothing is left to do.

### Chains, PPHash, PHashSet, PtrSet

The table of `pphash.cpp` and `phashset.cpp` is the same text and has one module,
`Chains`: bins of chained tuples, the search, linking, unlinking, and growth,
which splits each chain and reverses the part that moves. `PPHash` adds the
ownership of the copied keys (`clones` counts those that are allocated),
`PHashSet` elements that are equal without being the same pointer, so that it
matters which of them is kept. `PtrSet` has sorted arrays with a capacity, the
binary searches (three texts, one `Probe` whose rounds are `Closer`), and the two
orders of growth and insertion that `put()` and `toggle()` have. The keys'
hash and comparison are constants, as they are parameters of the classes.

### HashIndex

A bin is the sequence of its entries. All nodes of its list but the last are
full, so the node of an entry follows from its place, and `NodesFor` says how
many there are. `heap` counts the nodes that are allocated, and those of them
that no bin points to any more. `Split` is growth: entries that move are
appended to the new bin, those that stay close up, and a node that becomes
empty is put on a list from which the next bins take theirs (`SplitNodes`).
`Interrupted` is what remains when `malloc()` fails in the middle of it.
`remove_entry` fills the hole with the last entry of the bin; `Endless` are the
removals where the loop that looks for that entry does not stop.

### DArray, Snapshot

The memory of an array is a sequence of `nCapacity` cells of which the first
`nItems` are elements; `memmove`, `memcpy` and `realloc` work on cells, so that an
overlapping move in the wrong direction or a block that is too short shows.
`darray` and `parray` are one text but for the size of a cell and for how
`premove()` finds its element (`premove`, `PRemoveValue`). Several arrays exist at
once: elements move from one to another, are copied between them, and memory is
swapped. A `size_t` that goes below zero wraps (`SizeMod`).

`qremove()` is of two kinds. That of `parray` returns the element (`QRemove`), that of `darray`
the address of its place (`qremove`), where the last element is by then. A client may
call that one to erase an element, and does no more than that unless `ReadSlot`.

`Snapshot` adds `keys()`, `values()` and `items()` of the hash containers, which
fill arrays of their own and exchange them with the client's. The table is the
sequence of its pairs in the order of its iterators. `lost` counts blocks of
memory that no array points to.

### BitSet

A word is the set of the places of its ones, so `|`, `& ~` and `^` are union,
difference and symmetric difference, and a mask is a set, too. `Masks` are the
masks of a range in the order of the code: the head inside the first word, full
words, the tail.

### Iterator

`Iterator` is `raw_iterator` over an array: what `iterator.cpp` does for all
containers. The `iter_move()` of the deque and of the hash containers, each a
loop of its own over chunks, chains or nodes, is in `DDequeWalk` and `HashedWalk`.

### Promises

`LatestValue`: objects published in an order, a current one that moves forward
only, each object disposed of once and not while it is current. `SharedValue`:
handles that share a value, released when the last one lets it go. `Deque`: a
sequence with a failing insertion. `Map`: a function with a failing insertion.
`Array`: sequences that exchange elements. `Bits`: a sequence of bits. Each
detailed module is checked to implement its promise under a refinement mapping,
the answers and the values given back included.

## Runs

| run | what it shows |
|---|---|
| `pairings` | the two pairings of `state`. `push_get`: two threads that push, one of them collecting, and a real-time reader that calls `get()`. `set_pull`: one thread that calls `set()`, one that pushes, and a reader that calls `pull()`. In both: one owner per object, one deletion, no leak, the pointer of the reader stays alive, states only move forward, the union is called as what it is, the cell implements `LatestValue`, and under fairness the last state is taken; in the second, where nobody calls `gc()`, a refused `set()` is accepted in the end |
| `two_pullers` | violation: two threads that pull (below) |
| `shbuffer` | three handles, two buffers: exact count, nothing dangles, one deletion, not before the last handle, `SharedValue` implemented, every buffer nobody wants is freed |
| `move_onto_full` | violation: a move assignment to a handle in use (below) |
| `ddeque` | the deque is a sequence through every sequence of calls and failures; reads and iterators agree with it |
| `exact_fit`, `reuse_cleared` | violations: two bulk pushes that leave the list (below) |
| `hashed` | the four hash containers are maps and sets through every sequence of calls and failures; the searches find everything after growth and removal, keys and nodes are owned once, iterators visit each element once |
| `chain_back`, `null_key` | violations: a long step backward; a NULL key (below) |
| `sequences` | two arrays, and the snapshots put into them, are sequences through every mix of calls and failures, with no cell behind the memory and no block lost; the bitset is a sequence of bits whose hidden bits are zero; iterators measure distances in both directions |
| `qremove_slot` | violation: what `qremove()` of a `darray` returns (below) |

Every property of a passing run has a mutant in the modules, a plausible
mistake in the code, under which TLC finds it violated.

Components that do not interact share a run: in `MCHashed` and `MCSequences` the
variable `active` chooses at the start which of them works. `MCHashed` has the hash
containers without their iterators, so that its theorems do not meet the
RECURSIVE operators of `HashedWalk`; the runs check `MCHashedWalk`, which adds them.

### Bounds

- `MaxPublished`: states published in a behaviour. There are as many objects, and
  none is published twice, so each has one history. Three bins and one local per
  call hold at most one object each: four publications (`push_get`) fill all of
  them and let one more be retired. `MaxSet` is the same bound for the pairing `set_pull`: three. `InOrder` in
  `MCRawState` hands the objects over as 1, 2, 3, ...: they are interchangeable,
  and TLC's symmetry cannot be used with liveness.
- `MaxReferences`: clients stop copying at 5 references, more than the handles;
  it matters only for the references that move assignments lose.
- `nChunkSize` 3, `MaxChunks` 3, `MaxBulk` 5 (`ddeque`): a chunk has a first,
  a middle and a last place; the list has a head, a middle and a tail; an array
  ends in the first chunk, at its end, in the second one. `MaxReserve` 7 asks for
  all three chunks at once. `malloc()` can fail at any call; beyond `MaxChunks` it does.
- `InitialCap` 2 and `Load` 1 instead of 16 and 4, `FirstRoom` 2 and `FullBin` 3
  instead of 8 and 32: growth to four and to eight bins happens with few
  elements. The keys are one of the hash of NULL, three that are parted by the
  first and by the second split, and two that never are; `PtrSet` stops at
  `MaxCap` bins, where the code stops when memory does.
- `HashIndex` is checked twice. `wide` has nodes of 2 places and grows from 1
  bin at 4 entries: nodes are half full and full, and a split leaves both bins
  inside a node. `narrow` has nodes of 1 place and grows at 2: a bin has up to
  three nodes, and later bins of a split take nodes that earlier ones gave.
- `sequences`: array `x` has up to 5 elements in 7 cells, `y` 2 in 3; `MinRoom` 2
  instead of 32. That is room for growth from nothing, from the minimum and by
  half, for shrinking, and for insertion and removal at the start, in the middle
  and at the end. `Sources` are of up to three elements. `SizeMod` 16 is above every size.
- `WordBits` 3, `MaxBits` 8: a range has a head, a full word and a tail, ends on a
  border, or lies inside a word, and the last word is full or not.
- `View` in `MCDDeque`, `MCHashed` and `MCSequences`: the last call, its answer and
  what it gave back say what a step did and nothing about what can follow; nor do
  cells that hold no element, or the sum of lost nodes. States that differ in
  them only are merged; invariants do not speak of them and every step is still
  checked against the promise.

### Fairness

No method waits, so a thread in a call finishes it (`Finish`). The consumer
calls again and again, as a processing loop does, and so does a collector where
there is one; a setter that was refused tries again. Nobody is obliged to push,
set or clear. In `MCPairings` the same holds in each pairing for its methods (`PairFairness`): `get()` and
`gc()` in one, `pull()` and the setter's retry in the other. Handles: a call that has begun to drop a reference goes on
(`Down`); nobody is obliged to drop one.

### Clients

The passing runs leave out what breaks, and say so by constants. Setting one to
`TRUE` lets TLC show the consequence in the property named:

| constant | calls that are left out | shown by |
|---|---|---|
| `ExactFit` | bulk pushes that fill the tail of a deque exactly | `NoFault` (run `exact_fit`) |
| `ReuseCleared` | pushes to the back of a deque after `clear()` | `NoFault` (run `reuse_cleared`) |
| `LongFront` | more than a chunk to the front of an empty deque at once | `NoFault` |
| `BackSteps` (a number) | moves of an iterator toward the start of a chain table by more | `IteratorsAgree` (run `chain_back`) |
| `LongBins` | removals from a `hash_index` with two nodes behind the entry's | `EntriesFindable` |
| `SplitFails` | a `hash_index` that runs out of memory inside a split | `Implements` |
| `NullDeleter` | a two-argument deleter of a `state` that is NULL | `UnionIsTagged` |
| `ReadSlot` | reading what `qremove()` of a `darray` returns the address of | `Implements` (run `qremove_slot`) |
| `PastEnd` | `premove(ptr, n, dst)` of a range that passes the end of a `darray` | `TypesOK` |
| `ShrinkReserve` | `reserve()` of less than an array holds | `InBounds` |
| `IndexSnapshots` | snapshots of a `hash_index` | `BlocksOwned` |
| `SetAllCleared` | `set_all()` of a `bitset` after `clear()` | `HiddenBitsClear` |

`set()`/`get()` and `push()`/`pull()` are called by the threads the header allows;
in `pairings` there is one consumer, which is the only thread to retire states. A push of an array of no elements that asks
for a list of zero chunks is never made, nor does an array move elements into itself.

## Proofs

`RawStateProofs`, for any set of threads and objects and any mix of calls:

- `TypeCorrect`, `ObjectHasOneOwner`, `DeletedOnce`. The invariant is
  `OwnerInv`: types, one owner, and that whatever is in a bin or in the locals
  of a call is handed over and not disposed of. Without the last part an
  exchange could bring back a deleted object. It needs no assumption on who
  calls what: each atomic exchange moves exactly one object each way.
- `NothingLeaks` assumes `OneRetirer`: at most one thread calls `get()` or
  `set()`. `LeakInv` adds that a call between its look at an empty garbage bin
  and its exchange is alone in that window, so that the bin is still empty.
- `ReaderIsSafe` assumes `OneConsumer`: at most one thread consumes and looks at
  the current state. `ReaderInv` relates the pointer it holds to the state bin
  and to its own locals.
- `UnionIsNeverMistaken` assumes `~NullDeleter`. `UnionIsTagged` is inductive by itself, as no step of a
  call touches the deleter and a quiet cell changes both parts together; it
  says, too, that no object was miscalled.

The order of the states, in the last part of `RawStateProofs`, for any set of
producers, collectors and objects, assumes `OnlyConsumer`: at most one thread
calls `pull()` or `get()`.

- `NoStateComesBack`: what is installed in STATE was always published after what
  it replaces. The invariant `OrderInv` adds to `OwnerInv` that an object is
  published once (`Once`), that what the consumer has in its hands has been
  published and what a producer has has not (`Marks`), that garbage is never the
  last publication (`OldGarbage`), and that what is current, what the consumer
  has taken and what is pending are in the order of publication (`InOrder`).
  With two consumers `InOrder` fails between their locals, which is the finding
  of `two_pullers`.
- `StateKeepsPromise`, with `OneRetirer` and `~NullDeleter`: every step is a step of `LatestValue`
  or none, under the mapping that the runs check. `InstallState` and the other
  exchanges that change STATE become `Advance`, `cleanup()` becomes `Dispose`,
  and `OldGarbage` is what makes a disposal legal.

`SharedBufferProofs`, for any finite set of handles and any buffers and data:
`BufferInv` is `Shape` (types, control, and that what a handle points to is
live) with `CountIsExact` (references = handles + assignments under way + lost),
`OneEnds` (a live buffer whose count has reached zero has exactly one handle
that ends it) and `Memory` (data belong to one live buffer at most). The count
is a cardinality, so a step is proved by saying which set gains or loses which
handle. Six theorems follow: `BufferTypeCorrect`, `CountAlwaysExact`,
`NeverDangling`, `DeletedAtMostOnce`, `MappedStaysAlive`, `NothingLeft`; and
`BuffersKeepPromise`, the refinement of `SharedValue`: a method takes effect when it
begins to drop the old reference, `free()` is `Release`, and what is in between is
no step; that a buffer in the hands of `free()` is held by nobody follows from
`OneEnds` and the exact count.

`BitSetProofs`, for any width of a word and any size, with clients without
`SetAllCleared`:

- `NoHiddenBits` and `BitTypes`. The invariant `NoneHidden` names a bit by its word and
  its place (`BitAt`) and says that every one is below `nSize`. The mask lemmas show,
  for each of the three shapes of a range, that a mask contains bits of the range
  only, whichever method's slack decides between the shapes.
- `BitsKeepPromise`: every method is the one of `Bits`. Here the masks must be
  `Exact`: a bit is in one of them just when it is in the range, which is shown for the
  head, the full words in the middle and the tail, and for the walking mask
  of `set()` with values. `resize()` needs `NoneHidden`: the bits it adds are in words
  that were there before.

`SequencesProofs`, for any arrays, elements, sources, tables and sizes, snapshots
included, and clients without `PastEnd` and `ShrinkReserve`; what promises a sequence,
`ArraysKeepPromise` and `PromiseKept`, assumes `~ReadSlot` as well:

- `NeverOutOfBounds`. `AllSound` says of each array that its memory is a block and
  that its elements fit in it. Growing never gives less than was asked for,
  `MakeRoom` finds room for all of the count although it grows by half of the
  capacity and not of the elements, shrinking stops at the elements, and a move of
  cells keeps the length of the block. With either of the two kinds of call the theorem is false.
- `ArraysKeepPromise`: every method and every snapshot is the one of `Array`; `qremove()` of a `darray` is the one that hands out nothing. The
  invariant `ArraysInv` adds to the former that the cells in use hold elements, which
  fresh memory does not, and the bound `MaxItems`. Each operator on the cells has
  a lemma whose name ends in `Gives`: what it makes of the elements, in each
  outcome of `realloc()`; each method has one whose name ends in `Step`.
  That the invariant holds (`ArraysHold`) does not depend on `ReadSlot`.
- `NoBlockLost`, without `IndexSnapshots`.
- `IteratorsMeasureRight`: the iterator after k advances is `At(n, reverse, k)`, by
  induction over the recursive function of the property; the rest is arithmetic on it.
- `PromiseKept`, `NoHiddenBits` and `TypesCorrect` put the arrays and the bitset together, as
  the run does. `SameBits` says that the bitset of `MCSequences` is the one that
  `BitSetProofs` is about.

`DDequeProofs`, for any size of a chunk, any elements, any number of chunks and
any arrays, with `Careful` clients: those without the calls that `ExactFit`,
`ReuseCleared` and `LongFront` stand for, each of which breaks `NoFault`.

- `Inductive`: the invariant `IndInv` says that the code has not stepped on undefined
  behaviour and that the fields are a `Sound` deque. That is a row of chunks in use (`Gapless`:
  none is empty, all but the first start at 0, all but the last are full) and a list of
  spare ones, with the three counters those of the two lists. `Span`, the
  number of elements of a row, needs its two ends only, and a lemma (`SpanIsLength`) says that
  it is the length of `Contents`. Of the spare chunks the invariant says that one whose tail was
  reset has its head reset, too (`Spare`): a bulk push writes from `nTail`
  of a chunk it acquires and leaves its `nHead` alone. That all of them were
  reset is a condition on the client (no push to the back after `clear()`), so
  it is not part of the invariant.
- `TypesCorrect`, `CountersCorrect`, `ChunksInARow`, `Faultless` follow from it.
- `Refines`: under `MaxBulk > 0`, every method is the one of `Deque`: the elements of
  the chunks are the sequence, and what a method returns is what the sequence's returns.

Each method has a lemma of its own whose name ends in `Gives`: what it makes of a sound deque, in each
outcome of `malloc()`. A bulk push is proved as a dealing of slices: the
array is cut where chunks end (`BackCuts`, `FrontCuts`), every chunk gets its slice,
and the slices joined are the array (`SlicesJoin`). The loops of the bulk pops
are recursive functions and are followed round by round.

- `IndexingRight`, `IteratorsRight`: from `IndInv`, what the methods that only look return. A function
  `Counts` has the number of elements up to each chunk; it grows with each chunk because none is
  empty (`CountsGrow`), so every index has one place, a chunk and a slot (`HoldsWithin`,
  `OnePlace`), with the element of that index in it (`HoldsElement`). A round of either search
  keeps what the index and the chunks passed amount to (`SearchGives`), so both end at that place,
  and `index_of()` comes back from it (`IndexOfGives`). A round of `iter_move()` keeps the sum of the
  iterator's index and what is left to go, and either ends the loop or leaves its chunk (`ForwardGoes`,
  `BackwardGoes`): the chunks ahead bound the rounds (`RankBound`), so as many rounds as there are chunks
  and one more are enough (`IterMoveGives`). The two theorems suppose `Careful`, as the invariant does.

`HashIndexProofs`, for any keys, values and hashes, any size of a node, any
first capacity and load:

- `IndexInvariant`. `IndexInv` says that the table is `Well` and the nodes are right
  (`NodesRight`). `Well` says of each bin that its counter is its length, that the hash of
  every entry is that of its key and selects that bin, and that no two of its
  entries have one key (`Own`), and of the table that its counter is the cardinality
  of what is stored. `Findable` follows, but is no invariant by itself: it
  says nothing about the counters, and that a removal leaves each other entry
  the first that its search meets needs that there was no second one. `NodesRight` says
  that the nodes allocated are those that the bins need and the lost ones.
- What growth does is proved in three steps: what `Kept` and `Moved` choose from a
  bin (`ChosenPlaces`), that a hash modulo twice the capacity is the one or the
  other half (`SplitHash`, in `Recursion`), and that the two halves of every bin make a
  table that is `Well` and stores the same (`HalvesWell`). The nodes of a split are
  counted bin by bin along its free list (`SplitByBin`, `SplitNodesOwned`): at the
  end those made less those freed are the difference between what the bins
  need now and what they needed.
- `IndexRight` (types, findability, counters and nodes) and `IndexIsMap`, the
  refinement of `Map`.

The parts of `HashIndexProofs` about tables are about `Chains`, and hold of the tables of
`pphash` and `phashset` too. `HashedProofs` uses them four times, as instances: `Pp` and `Sp`
for those two, `Wp` and `Np` for the two instances of `hash_index` that the run has. It is
about the specification of the run, for any value of its constants, and its theorems
state the properties of the run:

- `HashedInvariant`: `HashedInv` is the invariant of the container at work. That of `pphash`
  adds that the copies of keys are those of the tuples that have one; that of `phashset`
  that an element stands under its own class (`Classed`), so that `put()` of an
  equal pointer replaces the one stored; that of `ptrset` (`PtrWell`) that every bin is
  sorted without repetition, has pointers of its hash only and fits into its array.
- The binary search is proved by what its bounds enclose (`Encloses`): what is in front of `first`
  is less than the value and what is behind `last` is greater. A round keeps that and,
  unless the bounds have met, brings them closer (`CloserEncloses`), so that the search
  ends within as many rounds as there are elements, at the value or next to its
  place (`ProbeEnds`); `last` may pass below zero. So `index_of()` and
  `insert_index_of()` agree (`IndexOf`, `InsertIndexOf`).
- Growth of a `ptrset` appends the values of a bin to two new ones: these are sorted
  because the old one was (`PartGathers`, `PartOwn`), and `values()` lists each value
  once (`ValuesRight`).
- `HashedTypes`, `HashedFindable`, `HashedCounters`, `HashedMemory` follow from it.
- `HashedIsMap` is the refinement of `Map`. A step of each container is described by
  values (`MapMoves`: the map before and after, the call, its answer, what it gave
  back), and only then put into the abstract map of the chains or into that of the pointers,
  of which the other one rests.

These theorems assume `~LongBins` and `~SplitFails`: no removal that does not end, no
want of memory in the middle of a split, both of which break the promise in the code (below).
Every other failure of `malloc()` is in them. `PtrAssumption` contains
`FirstRoom > 1`: an array of one place would not become larger by half of it; in the code
it has 8 (16 >> 1).

`Recursion` has induction on the natural numbers over a set instead of
over an operator, the existence of a recursive function over a bounded range, and what the
proofs need of division. `Contents`, `Tuples`, `Probe` and the loops are recursive
functions, so what they compute is proved from these.

Assumptions of the proofs: the named ones of the modules (NULL is no object, no
buffer; handles are finitely many; sizes are naturals; NULL is no deleter),
which TLC evaluates in the runs, and the conditions on clients stated above.

Only model-checked: liveness and everything else under fairness, which the proof
system does not do; and the iterators of the hash containers (`IteratorsAgree` of
`MCHashedWalk`), which are RECURSIVE operators, beyond the SMT backend of the proof system.

## Findings

- `two_pullers`, `state.cpp:124`. `pull()` is documented as thread safe; with two
  threads that pull, a state taken from PENDING by the slower one is put over a
  newer one, which is deleted although the faster one returned it.
- `move_onto_full`, `shbuffer.h:167`. The move assignment forgets the buffer the
  target had, which is never freed; the copy assignment gives it up.
- `exact_fit`, `ddeque.cpp:467`. A bulk push that fills the tail chunk exactly
  acquires a list of zero chunks and follows a null pointer, or puts a spare
  chunk in use and still counts it as spare.
- `reuse_cleared`, `ddeque.cpp:164`. `clear()` sets chunks aside with their old
  offsets; a later push to the back starts behind elements that are gone.
- `chain_back`, `pphash.cpp:610` and `phashset.cpp:521`. A step backward by more
  than one that skips a bin lands on an element it has already counted.
- `null_key`, `pphash.cpp:80` and `phashset.cpp:59`. A stored NULL key is compared
  with any other key of hash zero; for strings that is `strcmp("", NULL)`.
- `qremove_slot`, `darray.cpp:400,414`. `qremove()` and `qpremove()` of a `darray` move the
  last element into the place and then return its address: the caller
  reads the last element, which is still in the array, where `parray.cpp:407`
  reads the removed one first (and `test/utest/parray.cpp:122` asserts it).

Seen while modelling, without a run of their own (the constants above reproduce
the ones they name):

- `ddeque.cpp:504`: a bulk push of more than a chunk to the front of an empty
  deque starts its copy at the wrong end of the list (`LongFront`).
- `ddeque.h:85`: `raw_ddeque::swap()` is declared and not defined.
- `hash_index.cpp:182`: when memory runs out inside a split, the entries that have
  moved are lost with the new bins (`SplitFails`).
- `hash_index.cpp:348-357`: `remove()` of an entry with two or more nodes behind
  its own does not end (`LongBins`); 371-379: it unlinks a tail node that has
  become empty and does not free it (`heap.lost`).
- `hash_index.cpp:484,518,533-559`: snapshots exchange their temporary array with
  the caller's and free neither (`IndexSnapshots`).
- `hash_index.cpp:243`: a NULL key is compared as in `pphash`. `dget()` ignores its default.
- `hash_index.cpp:723,773`: `iter_move()` adds the whole distance to the index
  each time it crosses a node; the position itself is right.
- `hash_index.h:179-190`: `clear()` and `flush()` are documented to destroy keys,
  which the map does not own.
- `state.cpp:147,163`: `get()` and `set()` drop the result of their exchange of the garbage
  bin, so two threads that call them lose a state (hence `OneRetirer`).
- `state.cpp:104,133`: with `push()` and `get()` only, the last state can stay
  behind garbage that nobody empties; the first pairing needs its collector.
- `state.cpp:54-58,73`: after `set_deleter(NULL, arg)` `cleanup()` calls `arg` (`NullDeleter`).
- `shbuffer.h:275`: the comparison with `nullptr` is inverted. Moving a handle
  onto itself empties it and loses its buffer.
- `ptrset.cpp:342`: `put()` of a value that is present in a full bin grows the set.
- `darray.cpp:304`: `premove(ptr, n, dst)` does not compare the end of the range
  with that of the array, whose size can wrap (`PastEnd`).
- `darray.h:152`: `reserve()` of less than the array holds gives memory back with
  elements in it (`ShrinkReserve`).
- `darray`, `parray`: `append()`, `insert()` and `set()` from a place inside the same
  array read it after `realloc()` has moved it; `truncate(size)` of the raw
  `parray` returns nothing.
- `bitset.cpp:101`: `set_all()` after `clear()` sets the bits of the whole
  capacity, behind a size of zero; a later `resize()` shows them (`SetAllCleared`).
  `capacity()` is in bytes, and `index + count` can wrap.
- `iterator.h:255-273`: `+` and `-` copy the position, move the operand itself
  (its field is `mutable`) and return the copy, which has not moved.
  `iterator.h:506-512`: `!=` is false when only the left one is invalid. The
  difference of two reverse iterators has the sign of forward ones, and a valid
  reverse iterator compares as less than an invalid one of either kind. An iterator that is kept while
  its array shrinks has a `remaining()` below zero, as a `size_t`.

## Not modelled

- `types`, `spec`: functions without state; they are constants of the models.
- `swap()` of two tables or sets that are both in use: an exchange of all
  fields, which renames them. With an empty one it leaves what `flush()` does.
  A store through the pointer that `wbget()` returns is `Replace`, or `Put` of a set.
- The addresses of elements, beyond which one a pointer is for: an array that is
  its own source, and the pointers that methods return into it.
- Weak memory orders: the atomics of the library are sequentially consistent.
- The content of a shared buffer, of objects and of elements.
- `clear()` and `destroy()` of a `state` while other calls are under way: the header
  reserves them for a quiet moment.
- Size arithmetic near the end of the address space: the sizes that the
  containers compute are far below it before memory runs out.
