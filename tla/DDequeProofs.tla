---------------------------- MODULE DDequeProofs ----------------------------
(***************************************************************************)
(* What DDeque guarantees for any size of a chunk, any elements and any    *)
(* arrays, to clients that make none of the calls which are known to break *)
(* it: the chunks in use hold the elements without a gap, the counters     *)
(* count, no method leaves the memory of a chunk, and the methods are      *)
(* those of a double-ended queue.                                          *)
(*                                                                         *)
(* First what is needed of the operators of DDeque: acquiring and linking  *)
(* chunks, the elements of a list of chunks, and what every method leaves  *)
(* of a deque whose chunks in use are in a row and whose counters count, a *)
(* lemma for each, whose name ends in "Gives".  Then the bulk pushes,      *)
(* which deal an array out to several chunks, the steps of the             *)
(* specification, and the methods that look only: access by index and the  *)
(* iterators find the elements where those steps have put them.            *)
(***************************************************************************)
EXTENDS DDequeWalk, Recursion, SequenceTheorems

Careful == ~ExactFit /\ ~ReuseCleared /\ ~LongFront

Cell == Values \cup {Junk}

(* Chunks in a row.                                                        *)
Gapless(used) ==
    \A i \in DOMAIN used :
        /\ used[i].nHead < used[i].nTail
        /\ i > 1 => used[i].nHead = 0
        /\ i < Len(used) => used[i].nTail = nChunkSize

(* Chunks in a row, the first and the last of which may be empty.          *)
Loose(u) ==
    \A i \in DOMAIN u :
        /\ u[i].nHead <= u[i].nTail
        /\ i > 1 => u[i].nHead = 0
        /\ i < Len(u) => u[i].nTail = nChunkSize

(* How many elements they have.                                            *)
Span(used) ==
    IF used = << >> THEN 0
    ELSE ((Len(used) - 1) * nChunkSize + used[Len(used)].nTail) - used[1].nHead

(* A spare chunk whose tail was reset is all reset.                        *)
Spare(chunks) == \A i \in DOMAIN chunks : chunks[i].nTail = 0 => chunks[i].nHead = 0

Reset(chunks) == \A i \in DOMAIN chunks : chunks[i].nTail = 0

(* The chunks of a deque, those in use and those set aside, say all of it:
   the counters count them.                                                *)
Rows == {u \in Seq(Chunk) : Gapless(u)}

Spares == {v \in Seq(Chunk) : Spare(v)}

Fields(u, v, i, j, k) == [used |-> u, unused |-> v, nItems |-> i, nChunks |-> j, nUnused |-> k]

Made(u, v, i) == Fields(u, v, i, Len(u) + Len(v), Len(v))

Sound(d) == \E u \in Rows, v \in Spares : d = Made(u, v, Span(u))

DequeInv == fault = FALSE /\ Sound(dq)

-----------------------------------------------------------------------------
(* Numbers.                                                                *)

LEMMA Size == nChunkSize \in Nat /\ nChunkSize > 0
  BY SizeAssumption

LEMMA Product ==
    ASSUME NEW m \in Int
    PROVE  /\ m * nChunkSize \in Int
           /\ (m - 1) * nChunkSize = m * nChunkSize - nChunkSize
           /\ (m + 1) * nChunkSize = m * nChunkSize + nChunkSize
           /\ m >= 0 => m * nChunkSize >= 0
           /\ m >= 1 => m * nChunkSize >= nChunkSize
           /\ m = 1 => m * nChunkSize = nChunkSize
           /\ m = 0 => m * nChunkSize = 0
<1> DEFINE S == nChunkSize
<1>1. S \in Nat /\ S > 0
  BY Size
<1> HIDE DEF S
<1>2. /\ m * S \in Int
      /\ (m - 1) * S = m * S - S
      /\ (m + 1) * S = m * S + S
      /\ m >= 0 => m * S >= 0
      /\ m = 1 => m * S = S
      /\ m = 0 => m * S = 0
  BY <1>1
<1>3. m >= 1 => m * S >= S
  <2>1. m >= 1 => (m - 1) * S >= 0
    BY <1>1
  <2> QED BY <1>1, <1>2, <2>1
<1> QED BY <1>2, <1>3 DEF S

(* The chunks for a number of elements have room for them, and one less has
   not.                                                                    *)
LEMMA ChunksHold ==
    ASSUME NEW n \in Int, n > 0
    PROVE  /\ chunks_count(n) \in Nat \ {0}
           /\ (chunks_count(n) - 1) * nChunkSize < n
           /\ n <= chunks_count(n) * nChunkSize
<1> DEFINE S == nChunkSize
           q == (n + S - 1) \div S
           r == (n + S - 1) % S
<1>1. S \in Nat /\ S > 0
  BY Size
<1> HIDE DEF S
<1>2. q \in Int /\ r \in 0..(S - 1) /\ n + S - 1 = q * S + r
  BY <1>1
<1>3. chunks_count(n) = q
  BY DEF chunks_count, CeilDiv, S
<1> HIDE DEF q, r
<1>4. (q - 1) * S = q * S - S /\ q * S \in Int
  BY <1>1, <1>2
<1>5. q > 0
  <2>1. q * S > 0
    BY <1>1, <1>2, <1>4
  <2>2. q <= 0 => q * S <= 0
    BY <1>1, <1>2
  <2> QED BY <1>1, <1>2, <1>4, <2>1, <2>2
<1>6. q * S - S < n /\ n <= q * S
  BY <1>1, <1>2, <1>4
<1> QED BY <1>2, <1>3, <1>4, <1>5, <1>6 DEF S

-----------------------------------------------------------------------------
(* Acquiring and releasing chunks.                                         *)

Whole(d) == d = Fields(d.used, d.unused, d.nItems, d.nChunks, d.nUnused)

LEMMA FieldsOf ==
    ASSUME NEW u, NEW v, NEW i, NEW j, NEW k, NEW d, d = Fields(u, v, i, j, k)
    PROVE  /\ Whole(d)
           /\ d.used = u /\ d.unused = v /\ d.nItems = i /\ d.nChunks = j /\ d.nUnused = k
  BY DEF Fields, Whole

LEMMA MadeOf ==
    ASSUME NEW u, NEW v, NEW i, NEW d, d = Made(u, v, i)
    PROVE  /\ Whole(d) /\ d.used = u /\ d.unused = v /\ d.nItems = i
           /\ d.nChunks = Len(u) + Len(v) /\ d.nUnused = Len(v)
  BY FieldsOf DEF Made

(* What the assignments of the methods come to.                            *)
LEMMA SetUsed ==
    ASSUME NEW d, Whole(d), NEW x
    PROVE  [d EXCEPT !.used = x] = Fields(x, d.unused, d.nItems, d.nChunks, d.nUnused)
  BY DEF Fields, Whole

LEMMA SetItems ==
    ASSUME NEW d, Whole(d), NEW x
    PROVE  [d EXCEPT !.nItems = x] = Fields(d.used, d.unused, x, d.nChunks, d.nUnused)
  BY DEF Fields, Whole

LEMMA SetChunks ==
    ASSUME NEW d, Whole(d), NEW x
    PROVE  [d EXCEPT !.nChunks = x] = Fields(d.used, d.unused, d.nItems, x, d.nUnused)
  BY DEF Fields, Whole

LEMMA HoldOf ==
    ASSUME NEW d, Whole(d), NEW x, NEW y
    PROVE  Hold(d, x, y) = Fields(x, d.unused, y, d.nChunks, d.nUnused)
<1> DEFINE e == [d EXCEPT !.used = x]
<1>1. e = Fields(x, d.unused, d.nItems, d.nChunks, d.nUnused)
  BY SetUsed
<1> HIDE DEF e
<1>2. [e EXCEPT !.nItems = y] = Fields(x, d.unused, y, d.nChunks, d.nUnused)
  BY <1>1 DEF Fields
<1> QED BY <1>2 DEF e, Hold

LEMMA SetAsideOf ==
    ASSUME NEW d, Whole(d), NEW x, NEW y
    PROVE  SetAside(d, x, y) = Fields(d.used, x, d.nItems, d.nChunks, y)
<1> DEFINE e == [d EXCEPT !.unused = x]
<1>1. e = Fields(d.used, x, d.nItems, d.nChunks, d.nUnused)
  BY DEF Fields, Whole
<1> HIDE DEF e
<1>2. [e EXCEPT !.nUnused = y] = Fields(d.used, x, d.nItems, d.nChunks, y)
  BY <1>1 DEF Fields
<1> QED BY <1>2 DEF e, SetAside

LEMMA NewChunkIsChunk == NewChunk \in Chunk /\ NewChunk.nHead = 0 /\ NewChunk.nTail = 0
  BY Size DEF NewChunk, Chunk, Slots

(* The outcomes of a method that fails, of one that is through, and of one
   that has taken n chunks of a deque with the chunks u and v.             *)
Fails(o, d) == o = [ans |-> "false", d |-> d, list |-> << >>]

Leaves(o, d) == o = [ans |-> "true", d |-> d, list |-> << >>]

Takes(o, u, v, i, n, list, w) ==
    /\ o = [ans |-> "true", d |-> Fields(u, w, i, Len(u) + n + Len(w), Len(w)), list |-> list]
    /\ list \in Spares /\ w \in Spares /\ Len(list) = n
    /\ Reset(v) => Reset(list)

Gives(o, u, v, i, n) == \E list, w \in Spares : Takes(o, u, v, i, n, list, w)

LEMMA AllocateGives ==
    ASSUME NEW u \in Seq(Chunk), NEW v \in Spares, NEW i, NEW d, d = Made(u, v, i),
           NEW n \in Nat, NEW o \in Allocate(d, n)
    PROVE  \/ Fails(o, d)
           \/ o = [ans |-> "true", d |-> Fields(u, v, i, Len(u) + n + Len(v), Len(v)),
                   list |-> [j \in 1..n |-> NewChunk]]
<1>1. Len(u) + Len(v) + n = Len(u) + n + Len(v)
  BY DEF Spares
<1>2. [d EXCEPT !.nChunks = @ + n] = Fields(u, v, i, Len(u) + n + Len(v), Len(v))
  <2> DEFINE k == Len(u) + Len(v) + n
  <2>3. /\ Whole(d) /\ d.used = u /\ d.unused = v /\ d.nItems = i
        /\ d.nChunks = Len(u) + Len(v) /\ d.nUnused = Len(v)
    BY MadeOf
  <2>1. [d EXCEPT !.nChunks = @ + n] = [d EXCEPT !.nChunks = k]
    BY <2>3
  <2> HIDE DEF k
  <2>2. [d EXCEPT !.nChunks = k] = Fields(u, v, i, k, Len(v))
    BY <2>3, SetChunks
  <2> QED BY <1>1, <2>1, <2>2 DEF k
<1> QED BY <1>2 DEF Allocate, Failed, Acquired, Fails

LEMMA AllocateList ==
    ASSUME NEW u \in Seq(Chunk), NEW v \in Spares, NEW i, NEW d, d = Made(u, v, i),
           NEW n \in Nat, NEW o \in Allocate(d, n)
    PROVE  \/ Fails(o, d)
           \/ /\ Gives([ans |-> "true", d |-> SetAside(o.d, << >>, 0), list |-> v \o o.list],
                       u, v, i, Len(v) + n)
              /\ o.ans = "true"
              /\ v = << >> => Gives(o, u, v, i, n)
<1> DEFINE new == [j \in 1..n |-> NewChunk]
           none == << >>
           all == v \o new
           e == Fields(u, v, i, Len(u) + n + Len(v), Len(v))
<1>1. new \in Spares /\ Len(new) = n /\ Reset(new)
  <2>1. new \in Seq(Chunk) /\ Len(new) = n /\ \A j \in DOMAIN new : new[j] = NewChunk
    BY NewChunkIsChunk
  <2> HIDE DEF new
  <2> QED BY <2>1, NewChunkIsChunk DEF Spare, Spares, Reset
<1>2. none \in Spares /\ Len(none) = 0
  BY DEF Spare, Spares
<1>3. all \in Spares /\ Len(all) = Len(v) + n /\ (Reset(v) => Reset(all))
  <2> HIDE DEF new
  <2>1. all \in Seq(Chunk) /\ Len(all) = Len(v) + n
    BY <1>1 DEF Spares
  <2>2. \A j \in DOMAIN all : IF j <= Len(v) THEN j \in DOMAIN v /\ all[j] = v[j]
                              ELSE j - Len(v) \in DOMAIN new /\ all[j] = new[j - Len(v)]
    BY <1>1 DEF Spares
  <2> HIDE DEF all
  <2> QED BY <1>1, <2>1, <2>2 DEF Spare, Spares, Reset
<1> HIDE DEF new, none, all, e
<1>4. CASE o = [ans |-> "true", d |-> e, list |-> new]
  <2>1. Whole(e) /\ e.used = u /\ e.nItems = i /\ e.nChunks = Len(u) + n + Len(v)
    BY FieldsOf DEF e
  <2>2. Len(u) + n + Len(v) = Len(u) + (Len(v) + n) + Len(none)
    BY <1>2 DEF Spares
  <2>3. SetAside(e, none, 0) = Fields(u, none, i, Len(u) + (Len(v) + n) + Len(none), Len(none))
    BY <1>2, <2>1, <2>2, SetAsideOf
  <2>4. Gives([ans |-> "true", d |-> SetAside(e, none, 0), list |-> all], u, v, i, Len(v) + n)
    BY <1>2, <1>3, <2>3 DEF Gives, Takes
  <2>5. v = << >> => Gives(o, u, v, i, n)
    BY <1>1, <1>4 DEF Gives, Takes, e
  <2> QED BY <1>4, <2>4, <2>5 DEF none, all
<1> QED BY <1>4, AllocateGives DEF new, e

LEMMA OneChunk ==
    ASSUME NEW u \in Seq(Chunk), NEW v \in Spares, NEW i, NEW d, d = Made(u, v, i),
           NEW o \in acquire_chunk(d)
    PROVE  Fails(o, d) \/ Gives(o, u, v, i, 1)
<1>1. /\ Whole(d) /\ d.used = u /\ d.unused = v /\ d.nItems = i
      /\ d.nChunks = Len(u) + Len(v) /\ d.nUnused = Len(v)
  BY MadeOf
<1>2. CASE v = << >>
  BY <1>1, <1>2, AllocateList DEF acquire_chunk
<1>3. CASE v # << >>
  <2> DEFINE w == Tail(v)
             one == <<Head(v)>>
  <2>1. v \in Seq(Chunk) /\ Len(v) > 0
    BY <1>3 DEF Spares
  <2>2. /\ w \in Seq(Chunk) /\ Len(w) = Len(v) - 1
        /\ \A j \in DOMAIN w : j + 1 \in DOMAIN v /\ w[j] = v[j + 1]
    BY <2>1
  <2>3. one \in Seq(Chunk) /\ Len(one) = 1 /\ 1 \in DOMAIN v /\ \A j \in DOMAIN one : one[j] = v[1]
    BY <2>1
  <2>4. Len(u) + Len(v) = Len(u) + 1 + Len(w) /\ Len(v) - 1 = Len(w)
    BY <2>1, <2>2
  <2> HIDE DEF one, w
  <2>5. one \in Spares /\ w \in Spares /\ (Reset(v) => Reset(one))
    BY <2>2, <2>3, ZenonT(40) DEF Spare, Spares, Reset
  <2>6. SetAside(d, w, d.nUnused - 1) = Fields(u, w, i, Len(u) + 1 + Len(w), Len(w))
    BY <1>1, <2>4, SetAsideOf
  <2>7. o = [ans |-> "true", d |-> Fields(u, w, i, Len(u) + 1 + Len(w), Len(w)), list |-> one]
    BY <1>1, <1>3, <2>6 DEF acquire_chunk, Acquired, one, w
  <2> QED BY <2>3, <2>5, <2>7 DEF Gives, Takes
<1> QED BY <1>2, <1>3

LEMMA ChunkList ==
    ASSUME NEW u \in Seq(Chunk), NEW v \in Spares, NEW i, NEW d, d = Made(u, v, i),
           NEW n \in Nat \ {0}, NEW o \in acquire_chunk_list(d, n)
    PROVE  Fails(o, d) \/ Gives(o, u, v, i, n)
<1>1. /\ Whole(d) /\ d.used = u /\ d.unused = v /\ d.nItems = i
      /\ d.nChunks = Len(u) + Len(v) /\ d.nUnused = Len(v)
  BY MadeOf
<1>2. CASE n <= Len(v)
  <2> DEFINE rest == SubSeq(v, n + 1, Len(v))
             list == SubSeq(v, 1, n)
  <2>1. v \in Seq(Chunk)
    BY DEF Spares
  <2>2. /\ list \in Seq(Chunk) /\ Len(list) = n
        /\ \A j \in DOMAIN list : j \in DOMAIN v /\ list[j] = v[j]
    BY <1>2, <2>1
  <2>3. /\ rest \in Seq(Chunk) /\ Len(rest) = Len(v) - n
        /\ \A j \in DOMAIN rest : j + n \in DOMAIN v /\ rest[j] = v[j + n]
    BY <1>2, <2>1
  <2>4. Len(u) + Len(v) = Len(u) + n + Len(rest) /\ Len(v) - n = Len(rest)
    <3>1. Len(u) \in Nat /\ Len(v) \in Nat
      BY <2>1
    <3> HIDE DEF rest
    <3> QED BY <2>3, <3>1
  <2> HIDE DEF rest, list
  <2>5. list \in Spares /\ rest \in Spares /\ (Reset(v) => Reset(list))
    BY <2>2, <2>3 DEF Spare, Spares, Reset
  <2>6. SetAside(d, rest, d.nUnused - n) = Fields(u, rest, i, Len(u) + n + Len(rest), Len(rest))
    BY <1>1, <2>4, SetAsideOf
  <2>7. o = [ans |-> "true", d |-> Fields(u, rest, i, Len(u) + n + Len(rest), Len(rest)), list |-> list]
    <3>1. o \in acquire_unused_chunk_list(d, n)
      BY <1>1, <1>2 DEF acquire_chunk_list
    <3>2. ~(n > Len(v)) /\ n # 0
      BY <1>2, <2>1
    <3> QED BY <1>1, <2>6, <3>1, <3>2 DEF acquire_unused_chunk_list, Acquired, list, rest
  <2> QED BY <2>2, <2>5, <2>7 DEF Gives, Takes
<1>3. CASE ~(n <= Len(v))
  <2> DEFINE m == n - Len(v)
  <2>1. Len(v) \in Nat /\ m \in Nat /\ Len(v) + m = n /\ (Len(v) <= 0 => v = << >> /\ m = n)
    BY <1>3 DEF Spares
  <2>2. PICK p \in Allocate(d, m) :
          o = IF p.ans = "false" \/ Len(v) <= 0 THEN p
              ELSE [ans |-> "true", d |-> SetAside(p.d, << >>, 0), list |-> v \o p.list]
    BY <1>1, <1>3 DEF acquire_chunk_list, Acquired
  <2> HIDE DEF m
  <2>3. CASE Fails(p, d)
    BY <2>2, <2>3 DEF Fails
  <2>4. CASE ~Fails(p, d)
    BY <2>1, <2>2, <2>4, AllocateList
  <2> QED BY <2>3, <2>4
<1> QED BY <1>2, <1>3

(* Acquired chunks, linked behind those in use or before them.             *)
LEMMA LinkedBack ==
    ASSUME NEW u \in Seq(Chunk), NEW v \in Spares, NEW i, NEW d, d = Made(u, v, i), NEW n, NEW P,
           \A p \in P : Fails(p, d) \/ Gives(p, u, v, i, n),
           NEW o \in LinkBack(P)
    PROVE  \/ Fails(o, d)
           \/ \E list, w \in Spares : /\ Leaves(o, Made(u \o list, w, i))
                                      /\ Len(list) = n /\ (Reset(v) => Reset(list))
<1>1. Whole(d) /\ d.used = u /\ d.unused = v /\ d.nItems = i /\ d.nChunks = Len(u) + Len(v)
      /\ d.nUnused = Len(v)
  BY MadeOf
<1>4. PICK p \in P : o = [ans |-> p.ans, d |-> [p.d EXCEPT !.used = @ \o p.list], list |-> << >>]
  BY DEF LinkBack
<1>2. CASE Fails(p, d)
  <2>1. p.ans = "false" /\ p.d = d /\ p.list = << >>
    BY <1>2 DEF Fails
  <2>2. [p.d EXCEPT !.used = @ \o p.list] = d
    <3>1. u \o << >> = u
      OBVIOUS
    <3>2. p.d.used \o p.list = u
      BY <1>1, <2>1, <3>1
    <3>3. [p.d EXCEPT !.used = u] = d
      BY <1>1, <2>1 DEF Fields, Whole
    <3> QED BY <3>2, <3>3
  <2> QED BY <1>4, <2>1, <2>2 DEF Fails
<1>3. CASE Gives(p, u, v, i, n)
  <2>1. PICK list \in Spares, w \in Spares : Takes(p, u, v, i, n, list, w)
    BY <1>3 DEF Gives
  <2> DEFINE e == Fields(u, w, i, Len(u) + n + Len(w), Len(w))
  <2>2. p.ans = "true" /\ p.d = e /\ p.list = list /\ Len(list) = n /\ (Reset(v) => Reset(list))
    BY <2>1 DEF Takes
  <2> DEFINE all == u \o list
  <2>3. Len(all) + Len(w) = Len(u) + n + Len(w)
    <3>1. list \in Seq(Chunk) /\ Len(list) = n
      BY <2>2 DEF Spares
    <3>2. Len(all) = Len(u) + n
      BY <3>1
    <3> QED BY <3>2
  <2> HIDE DEF all
  <2>4. Whole(e) /\ e.used = u
    BY FieldsOf
  <2>5. [e EXCEPT !.used = all] = Fields(all, w, i, Len(u) + n + Len(w), Len(w))
    BY DEF Fields
  <2>7. [e EXCEPT !.used = all] = Made(all, w, i)
    BY <2>3, <2>5 DEF Made
  <2> HIDE DEF e
  <2>6. [p.d EXCEPT !.used = @ \o p.list] = Made(u \o list, w, i)
    BY <2>2, <2>4, <2>7 DEF all
  <2> QED BY <1>4, <2>2, <2>6 DEF Leaves
<1> QED BY <1>2, <1>3, <1>4

LEMMA LinkedFront ==
    ASSUME NEW u \in Seq(Chunk), NEW v \in Spares, NEW i, NEW d, d = Made(u, v, i), NEW n, NEW P,
           \A p \in P : Fails(p, d) \/ Gives(p, u, v, i, n),
           NEW o \in LinkFront(P)
    PROVE  \/ Fails(o, d)
           \/ \E list, w \in Spares : /\ Leaves(o, Made(list \o u, w, i))
                                      /\ Len(list) = n /\ (Reset(v) => Reset(list))
<1>1. Whole(d) /\ d.used = u /\ d.unused = v /\ d.nItems = i /\ d.nChunks = Len(u) + Len(v)
      /\ d.nUnused = Len(v)
  BY MadeOf
<1>4. PICK p \in P : o = [ans |-> p.ans, d |-> [p.d EXCEPT !.used = p.list \o @], list |-> << >>]
  BY DEF LinkFront
<1>2. CASE Fails(p, d)
  <2>1. p.ans = "false" /\ p.d = d /\ p.list = << >>
    BY <1>2 DEF Fails
  <2>2. [p.d EXCEPT !.used = p.list \o @] = d
    <3>1. << >> \o u = u
      OBVIOUS
    <3>2. p.list \o p.d.used = u
      BY <1>1, <2>1, <3>1
    <3>3. [p.d EXCEPT !.used = u] = d
      BY <1>1, <2>1 DEF Fields, Whole
    <3> QED BY <3>2, <3>3
  <2> QED BY <1>4, <2>1, <2>2 DEF Fails
<1>3. CASE Gives(p, u, v, i, n)
  <2>1. PICK list \in Spares, w \in Spares : Takes(p, u, v, i, n, list, w)
    BY <1>3 DEF Gives
  <2> DEFINE e == Fields(u, w, i, Len(u) + n + Len(w), Len(w))
  <2>2. p.ans = "true" /\ p.d = e /\ p.list = list /\ Len(list) = n /\ (Reset(v) => Reset(list))
    BY <2>1 DEF Takes
  <2> DEFINE all == list \o u
  <2>3. Len(all) + Len(w) = Len(u) + n + Len(w)
    <3>1. list \in Seq(Chunk) /\ Len(list) = n
      BY <2>2 DEF Spares
    <3>2. Len(all) = Len(u) + n
      BY <3>1
    <3> QED BY <3>2
  <2> HIDE DEF all
  <2>4. Whole(e) /\ e.used = u
    BY FieldsOf
  <2>5. [e EXCEPT !.used = all] = Fields(all, w, i, Len(u) + n + Len(w), Len(w))
    BY DEF Fields
  <2>7. [e EXCEPT !.used = all] = Made(all, w, i)
    BY <2>3, <2>5 DEF Made
  <2> HIDE DEF e
  <2>6. [p.d EXCEPT !.used = p.list \o @] = Made(list \o u, w, i)
    BY <2>2, <2>4, <2>7 DEF all
  <2> QED BY <1>4, <2>2, <2>6 DEF Leaves
<1> QED BY <1>2, <1>3, <1>4

-----------------------------------------------------------------------------
(* The elements of a list of chunks.                                       *)

LEMMA ChunkOf ==
    ASSUME NEW c \in Chunk
    PROVE  /\ c.nHead \in Int /\ 0 <= c.nHead /\ c.nHead <= nChunkSize
           /\ c.nTail \in Int /\ 0 <= c.nTail /\ c.nTail <= nChunkSize
           /\ c.vData \in [Slots -> Cell]
  BY Size DEF Chunk, Cell

LEMMA AsChunk ==
    ASSUME NEW h \in 0..nChunkSize, NEW t \in 0..nChunkSize, NEW f \in [Slots -> Cell],
           NEW c, c = [nHead |-> h, nTail |-> t, vData |-> f]
    PROVE  c \in Chunk /\ c.nHead = h /\ c.nTail = t /\ c.vData = f
  BY DEF Chunk, Cell

LEMMA ElementsOf ==
    ASSUME NEW c \in Chunk
    PROVE  /\ Elements(c) \in Seq(Cell)
           /\ c.nHead <= c.nTail => Len(Elements(c)) = c.nTail - c.nHead
           /\ c.nHead >= c.nTail => Elements(c) = << >>
           /\ \A i \in 1..(c.nTail - c.nHead) : /\ c.nHead + i - 1 \in Slots
                                                /\ Elements(c)[i] = c.vData[c.nHead + i - 1]
<1> DEFINE n == c.nTail - c.nHead
<1>1. /\ c.nHead \in Int /\ 0 <= c.nHead /\ c.nTail \in Int /\ c.nTail <= nChunkSize
      /\ c.vData \in [Slots -> Cell] /\ nChunkSize \in Int
  BY ChunkOf, Size
<1>2. \A i \in 1..n : c.nHead + i - 1 \in Slots /\ c.vData[c.nHead + i - 1] \in Cell
  BY <1>1 DEF Slots
<1>3. CASE c.nHead <= c.nTail
  <2>1. n \in Nat
    BY <1>1, <1>3
  <2>2. Elements(c) \in Seq(Cell) /\ Len(Elements(c)) = n
    BY <1>2, <2>1 DEF Elements
  <2>3. c.nHead >= c.nTail => n = 0
    BY <1>1, <1>3
  <2>4. n = 0 => Elements(c) = << >>
    BY <2>2
  <2> QED BY <1>2, <2>2, <2>3, <2>4 DEF Elements
<1>4. CASE c.nHead > c.nTail
  <2>1. 1..n = {}
    BY <1>1, <1>4
  <2>2. Elements(c) = << >>
    BY <2>1 DEF Elements
  <2> QED BY <1>1, <1>4, <2>1, <2>2
<1> QED BY <1>1, <1>3, <1>4

LEMMA Joined ==
    ASSUME NEW T, NEW a \in Seq(T), NEW b \in Seq(T)
    PROVE  /\ a \o b \in Seq(T) /\ Len(a \o b) = Len(a) + Len(b)
           /\ Len(a) \in Nat /\ Len(b) \in Nat
           /\ \A i \in 1..Len(a) : (a \o b)[i] = a[i]
           /\ \A i \in 1..Len(b) : (a \o b)[Len(a) + i] = b[i]
  OBVIOUS

(* Elements put behind those of a chunk, or before them.                   *)
LEMMA ElementsBehind ==
    ASSUME NEW a \in Chunk, NEW c \in Chunk, NEW part \in Seq(Cell),
           a.nHead <= a.nTail, c.nHead = a.nHead, c.nTail = a.nTail + Len(part),
           \A i \in Slots : i >= a.nHead /\ i < a.nTail => c.vData[i] = a.vData[i],
           \A i \in 1..Len(part) : c.vData[a.nTail + i - 1] = part[i]
    PROVE  Elements(c) = Elements(a) \o part
<1> DEFINE e == Elements(a)
           h == a.nHead
           t == a.nTail
           n == Len(part)
           m == t - h
<1>1. h \in Int /\ t \in Int /\ n \in Nat /\ h <= t
  BY ChunkOf
<1>2. c.nHead = h /\ c.nTail = t + n
  OBVIOUS
<1>3. e \in Seq(Cell) /\ Len(e) = m /\ \A i \in 1..m : h + i - 1 \in Slots /\ e[i] = a.vData[h + i - 1]
  BY <1>1, ElementsOf
<1>4. /\ Elements(c) \in Seq(Cell) /\ Len(Elements(c)) = m + n
      /\ \A i \in 1..(m + n) : Elements(c)[i] = c.vData[h + i - 1]
  <2>1. c.nHead <= c.nTail /\ c.nTail - c.nHead = m + n
    BY <1>1, <1>2
  <2> QED BY <1>2, <2>1, ElementsOf
<1>5. \A i \in 1..n : c.vData[t + i - 1] = part[i]
  OBVIOUS
<1>6. \A i \in Slots : i >= h /\ i < t => c.vData[i] = a.vData[i]
  OBVIOUS
<1> HIDE DEF e
<1>7. /\ e \o part \in Seq(Cell) /\ Len(e \o part) = m + n
      /\ \A i \in 1..m : (e \o part)[i] = e[i]
      /\ \A i \in 1..n : (e \o part)[m + i] = part[i]
  <2>1. e \in Seq(Cell)
    BY <1>3
  <2>2. /\ e \o part \in Seq(Cell) /\ Len(e \o part) = Len(e) + n
        /\ \A i \in 1..Len(e) : (e \o part)[i] = e[i]
        /\ \A i \in 1..n : (e \o part)[Len(e) + i] = part[i]
    BY <2>1, Joined
  <2> QED BY <1>3, <2>2
<1>8. m \in Nat /\ m = t - h
  BY <1>1
<1> HIDE DEF h, t, n, m
<1>9. ASSUME NEW i \in 1..(m + n) PROVE Elements(c)[i] = (e \o part)[i]
  <2>1. CASE i <= m
    <3>1. i \in 1..m /\ h + i - 1 < t /\ h + i - 1 >= h
      BY <1>1, <1>8, <2>1
    <3> QED BY <1>3, <1>4, <1>6, <1>7, <3>1, ZenonT(40)
  <2>2. CASE i > m
    <3>1. i - m \in 1..n /\ m + (i - m) = i /\ t + (i - m) - 1 = h + i - 1
      BY <1>1, <1>8, <2>2
    <3>2. (e \o part)[m + (i - m)] = part[i - m]
      BY <1>7, <3>1
    <3>3. c.vData[t + (i - m) - 1] = part[i - m]
      BY <1>5, <3>1
    <3>4. Elements(c)[i] = c.vData[h + i - 1]
      BY <1>4
    <3>5. (e \o part)[i] = part[i - m] /\ c.vData[h + i - 1] = part[i - m]
      BY <3>1, <3>2, <3>3
    <3> QED BY <3>4, <3>5
  <2>3. i \in Int /\ m \in Int
    BY <1>1, <1>8
  <2>4. i <= m \/ i > m
    BY <2>3
  <2> QED BY <2>1, <2>2, <2>4
<1> QED BY <1>4, <1>7, <1>9, SeqEqual DEF e

LEMMA ElementsBefore ==
    ASSUME NEW a \in Chunk, NEW c \in Chunk, NEW part \in Seq(Cell),
           a.nHead <= a.nTail, c.nTail = a.nTail, c.nHead = a.nHead - Len(part),
           \A i \in Slots : i >= a.nHead /\ i < a.nTail => c.vData[i] = a.vData[i],
           \A i \in 1..Len(part) : c.vData[c.nHead + i - 1] = part[i]
    PROVE  Elements(c) = part \o Elements(a)
<1> DEFINE e == Elements(a)
           h == a.nHead
           t == a.nTail
           g == c.nHead
           n == Len(part)
           m == t - h
<1>1. h \in Int /\ t \in Int /\ n \in Nat /\ h <= t
  BY ChunkOf
<1>2. g = h - n /\ c.nTail = t
  OBVIOUS
<1>3. e \in Seq(Cell) /\ Len(e) = m /\ \A i \in 1..m : h + i - 1 \in Slots /\ e[i] = a.vData[h + i - 1]
  BY <1>1, ElementsOf
<1>4. /\ Elements(c) \in Seq(Cell) /\ Len(Elements(c)) = n + m
      /\ \A i \in 1..(n + m) : Elements(c)[i] = c.vData[g + i - 1]
  <2>1. c.nHead <= c.nTail /\ c.nTail - c.nHead = n + m
    BY <1>1, <1>2
  <2> QED BY <1>2, <2>1, ElementsOf
<1>5. \A i \in 1..n : c.vData[g + i - 1] = part[i]
  OBVIOUS
<1>6. \A i \in Slots : i >= h /\ i < t => c.vData[i] = a.vData[i]
  OBVIOUS
<1> HIDE DEF e
<1>7. /\ part \o e \in Seq(Cell) /\ Len(part \o e) = n + m
      /\ \A i \in 1..n : (part \o e)[i] = part[i]
      /\ \A i \in 1..m : (part \o e)[n + i] = e[i]
  <2>1. e \in Seq(Cell)
    BY <1>3
  <2>2. /\ part \o e \in Seq(Cell) /\ Len(part \o e) = n + Len(e)
        /\ \A i \in 1..n : (part \o e)[i] = part[i]
        /\ \A i \in 1..Len(e) : (part \o e)[n + i] = e[i]
    BY <2>1, Joined
  <2> QED BY <1>3, <2>2
<1>8. m \in Nat /\ m = t - h
  BY <1>1
<1> HIDE DEF h, t, g, n, m
<1>9. ASSUME NEW i \in 1..(n + m) PROVE Elements(c)[i] = (part \o e)[i]
  <2>1. CASE i <= n
    <3>1. i \in 1..n
      BY <1>1, <1>8, <2>1
    <3> QED BY <1>4, <1>5, <1>7, <3>1
  <2>2. CASE i > n
    <3>1. i - n \in 1..m /\ n + (i - n) = i /\ h + (i - n) - 1 = g + i - 1
          /\ h + (i - n) - 1 >= h /\ h + (i - n) - 1 < t
      BY <1>1, <1>2, <1>8, <2>2
    <3>2. (part \o e)[n + (i - n)] = e[i - n]
      BY <1>7, <3>1
    <3>3. e[i - n] = a.vData[h + (i - n) - 1] /\ h + (i - n) - 1 \in Slots
      BY <1>3, <3>1
    <3>4. c.vData[h + (i - n) - 1] = a.vData[h + (i - n) - 1]
      BY <1>6, <3>1, <3>3
    <3>5. Elements(c)[i] = c.vData[g + i - 1]
      BY <1>4
    <3>6. (part \o e)[i] = e[i - n] /\ c.vData[g + i - 1] = e[i - n]
      BY <3>1, <3>2, <3>3, <3>4
    <3> QED BY <3>5, <3>6
  <2>3. i \in Int /\ n \in Int
    BY <1>1, <1>8
  <2>4. i <= n \/ i > n
    BY <2>3
  <2> QED BY <2>1, <2>2, <2>4
<1> QED BY <1>4, <1>7, <1>9, SeqEqual DEF e

(* Up(f, u): f has the elements of the first i chunks, for each i.         *)
Up(f, u) ==
    /\ f \in [0..Len(u) -> Seq(Cell)] /\ f[0] = << >>
    /\ \A i \in 1..Len(u) : f[i] = f[i - 1] \o Elements(u[i])

LEMMA ContentsUp ==
    ASSUME NEW u \in Seq(Chunk)
    PROVE  \E f : Up(f, u) /\ Contents(u) = f[Len(u)]
<1> DEFINE T == Seq(Cell)
           n == Len(u)
           step == [p \in (1..n) \X T |-> p[2] \o Elements(u[p[1]])]
           Rule(g) == [i \in 0..n |-> IF i = 0 THEN << >> ELSE g[i - 1] \o Elements(u[i])]
           g == CHOOSE h : h = Rule(h)
<1>1. n \in Nat /\ << >> \in T /\ \A i \in 1..n : u[i] \in Chunk
  OBVIOUS
<1>2. step \in [(1..n) \X T -> T]
  <2>1. \A i \in 1..n, t \in T : t \o Elements(u[i]) \in T
    BY <1>1, ElementsOf
  <2> QED BY <2>1
<1>3. \A i \in 1..n, t \in T : step[<<i, t>>] = t \o Elements(u[i])
  OBVIOUS
<1> HIDE DEF step, n, T
<1>4. PICK f \in [0..n -> T] : f[0] = << >> /\ \A i \in 1..n : f[i] = step[<<i, f[i - 1]>>]
  <2> DEFINE base == << >>
  <2>1. base \in T /\ n \in Nat
    BY <1>1
  <2> HIDE DEF base
  <2>2. \E f \in [0..n -> T] : Follows(f, n, base, step)
    BY <1>2, <2>1, RecursiveFunction, Zenon
  <2> QED BY <2>2 DEF base, Follows
<1>5. \A i \in 1..n : f[i] = f[i - 1] \o Elements(u[i])
  <2> TAKE i \in 1..n
  <2>1. i - 1 \in 0..n
    BY <1>1
  <2>2. f[i - 1] \in T
    BY <2>1
  <2> QED BY <1>3, <1>4, <2>2
<1>6. f = Rule(f)
  <2>1. ASSUME NEW i \in 0..n PROVE f[i] = IF i = 0 THEN << >> ELSE f[i - 1] \o Elements(u[i])
    <3>1. CASE i = 0
      BY <1>4, <3>1
    <3>2. CASE i # 0
      <4>1. i \in 1..n
        BY <1>1, <3>2
      <4> QED BY <1>5, <3>2, <4>1
    <3> QED BY <3>1, <3>2
  <2> QED BY <2>1
<1>7. g = Rule(g)
  BY <1>6
<1> HIDE DEF g
<1>8. g[0] = << >> /\ \A i \in 1..n : g[i] = g[i - 1] \o Elements(u[i])
  BY <1>1, <1>7
<1>9. \A i \in 0..n : g[i] = f[i]
  <2> DEFINE S == {i \in 0..n : g[i] = f[i]}
  <2>1. 0 \in S
    BY <1>1, <1>4, <1>8
  <2>2. ASSUME NEW i \in 0..(n - 1), i \in S PROVE i + 1 \in S
    <3>1. i + 1 \in 1..n /\ (i + 1) - 1 = i
      BY <1>1
    <3>2. f[i + 1] = f[i] \o Elements(u[i + 1]) /\ g[i + 1] = g[i] \o Elements(u[i + 1])
      BY <1>5, <1>8, <3>1
    <3>3. g[i] = f[i]
      BY <2>2
    <3>4. g[i + 1] = f[i + 1]
      BY <3>2, <3>3
    <3>5. i + 1 \in 0..n
      BY <3>1
    <3> QED BY <3>4, <3>5
  <2> HIDE DEF S
  <2>3. 0..n \subseteq S
    BY <1>1, <2>1, <2>2, InductionUpTo
  <2> QED BY <2>3 DEF S
<1>10. Contents(u) = g[n]
  BY DEF Contents, g, n
<1>11. Contents(u) = f[n]
  BY <1>1, <1>9, <1>10
<1>12. Up(f, u)
  BY <1>4, <1>5 DEF Up, n, T
<1> QED BY <1>11, <1>12 DEF n

LEMMA UpStep ==
    ASSUME NEW u \in Seq(Chunk), NEW f, Up(f, u), NEW i \in 0..(Len(u) - 1)
    PROVE  f[i + 1] = f[i] \o Elements(u[i + 1]) /\ i + 1 \in 0..Len(u) /\ i \in 0..Len(u)
           /\ f[i] \in Seq(Cell) /\ i + 1 \in 1..Len(u) /\ u[i + 1] \in Chunk
<1>1. i + 1 \in 1..Len(u) /\ (i + 1) - 1 = i /\ i \in 0..Len(u) /\ i + 1 \in 0..Len(u) /\ i + 1 \in DOMAIN u
  OBVIOUS
<1>2. f[i + 1] = f[(i + 1) - 1] \o Elements(u[i + 1])
  BY <1>1 DEF Up
<1>3. u[i + 1] \in Chunk
  BY <1>1
<1> QED BY <1>1, <1>2, <1>3 DEF Up

LEMMA UpIsContents ==
    ASSUME NEW u \in Seq(Chunk), NEW f, Up(f, u)
    PROVE  Contents(u) = f[Len(u)] /\ Contents(u) \in Seq(Cell)
<1>1. PICK g : Up(g, u) /\ Contents(u) = g[Len(u)]
  BY ContentsUp
<1> DEFINE S == {i \in 0..Len(u) : g[i] = f[i]}
<1>2. Len(u) \in Nat
  OBVIOUS
<1>3. 0 \in S
  BY <1>1, <1>2 DEF Up
<1>4. ASSUME NEW i \in 0..(Len(u) - 1), i \in S PROVE i + 1 \in S
  <2>1. f[i + 1] = f[i] \o Elements(u[i + 1]) /\ g[i + 1] = g[i] \o Elements(u[i + 1]) /\ i + 1 \in 0..Len(u)
    BY <1>1, UpStep
  <2>2. g[i] = f[i]
    BY <1>4
  <2>3. g[i + 1] = f[i + 1]
    BY <2>1, <2>2
  <2> QED BY <2>1, <2>3
<1> HIDE DEF S
<1>5. 0..Len(u) \subseteq S
  BY <1>2, <1>3, <1>4, InductionUpTo
<1>6. g[Len(u)] = f[Len(u)] /\ Len(u) \in 0..Len(u)
  BY <1>2, <1>5 DEF S
<1>7. f[Len(u)] \in Seq(Cell)
  BY <1>6 DEF Up
<1> QED BY <1>1, <1>6, <1>7

LEMMA ContentsEmpty == Contents(<< >>) = << >>
<1> DEFINE u == << >>
<1>1. u \in Seq(Chunk) /\ Len(u) = 0
  OBVIOUS
<1> HIDE DEF u
<1>2. PICK f : Up(f, u) /\ Contents(u) = f[Len(u)]
  BY <1>1, ContentsUp
<1>3. Contents(u) = << >>
  BY <1>1, <1>2 DEF Up
<1> QED BY <1>3 DEF u

LEMMA ContentsAppend ==
    ASSUME NEW u \in Seq(Chunk), NEW v \in Seq(Chunk)
    PROVE  /\ Contents(u \o v) = Contents(u) \o Contents(v)
           /\ Contents(u) \in Seq(Cell) /\ Contents(v) \in Seq(Cell)
<1> DEFINE m == Len(u)
           n == Len(v)
           w == u \o v
<1>1. /\ m \in Nat /\ n \in Nat /\ w \in Seq(Chunk) /\ Len(w) = m + n
      /\ \A i \in 1..m : w[i] = u[i]
      /\ \A i \in 1..n : w[m + i] = v[i]
  OBVIOUS
<1>2. PICK f : Up(f, u) /\ Contents(u) = f[m]
  BY ContentsUp
<1>3. PICK g : Up(g, v) /\ Contents(v) = g[n]
  BY ContentsUp
<1>4. PICK h : Up(h, w) /\ Contents(w) = h[m + n]
  BY <1>1, ContentsUp
<1>5. Contents(u) \in Seq(Cell) /\ Contents(v) \in Seq(Cell)
  BY <1>2, <1>3, UpIsContents
<1> DEFINE S == {i \in 0..m : h[i] = f[i]}
           T == {i \in 0..n : h[m + i] = f[m] \o g[i]}
<1> HIDE DEF w
<1>6. 0..m \subseteq S
  <2>1. 0 \in S
    BY <1>1, <1>2, <1>4 DEF Up
  <2>2. ASSUME NEW i \in 0..(m - 1), i \in S PROVE i + 1 \in S
    <3>1. f[i + 1] = f[i] \o Elements(u[i + 1]) /\ i + 1 \in 0..m /\ i + 1 \in 1..m
      BY <1>2, UpStep
    <3>2. i \in 0..(Len(w) - 1)
      BY <1>1
    <3>3. h[i + 1] = h[i] \o Elements(w[i + 1])
      BY <1>1, <1>4, <3>2, UpStep
    <3>4. w[i + 1] = u[i + 1] /\ h[i] = f[i]
      BY <1>1, <2>2, <3>1
    <3>5. h[i + 1] = f[i + 1]
      BY <3>1, <3>3, <3>4
    <3> QED BY <3>1, <3>5
  <2> HIDE DEF S
  <2> QED BY <1>1, <2>1, <2>2, InductionUpTo
<1>7. h[m] = f[m]
  <2>1. m \in 0..m
    BY <1>1
  <2>2. m \in S
    BY <1>6, <2>1
  <2> QED BY <2>2 DEF S
<1>8. f[m] \in Seq(Cell)
  BY <1>2, <1>5
<1>9. 0..n \subseteq T
  <2>1. 0 \in T
    <3>1. g[0] = << >> /\ m + 0 = m /\ 0 \in 0..n
      BY <1>1, <1>3 DEF Up
    <3>2. f[m] \o << >> = f[m]
      BY <1>8
    <3>3. h[m + 0] = f[m] \o g[0]
      BY <1>7, <3>1, <3>2
    <3> QED BY <3>1, <3>3
  <2>2. ASSUME NEW i \in 0..(n - 1), i \in T PROVE i + 1 \in T
    <3>1. g[i + 1] = g[i] \o Elements(v[i + 1]) /\ i + 1 \in 0..n /\ i + 1 \in 1..n /\ g[i] \in Seq(Cell)
          /\ v[i + 1] \in Chunk
      BY <1>3, UpStep
    <3>2. m + i \in 0..(Len(w) - 1) /\ (m + i) + 1 = m + (i + 1)
      BY <1>1
    <3>3. h[m + (i + 1)] = h[m + i] \o Elements(w[m + (i + 1)])
      <4>1. h[(m + i) + 1] = h[m + i] \o Elements(w[(m + i) + 1])
        BY <1>1, <1>4, <3>2, UpStep
      <4> QED BY <3>2, <4>1
    <3>4. w[m + (i + 1)] = v[i + 1] /\ h[m + i] = f[m] \o g[i]
      BY <1>1, <2>2, <3>1
    <3>5. Elements(v[i + 1]) \in Seq(Cell)
      BY <3>1, ElementsOf
    <3>6. h[m + (i + 1)] = f[m] \o g[i + 1]
      <4> DEFINE a == f[m]
                 b == g[i]
                 c == Elements(v[i + 1])
      <4>1. a \in Seq(Cell) /\ b \in Seq(Cell) /\ c \in Seq(Cell)
        BY <1>8, <3>1, <3>5
      <4> HIDE DEF a, b, c
      <4>2. (a \o b) \o c = a \o (b \o c)
        BY <4>1, SMTT(30)
      <4> QED BY <3>1, <3>3, <3>4, <4>2 DEF a, b, c
    <3> QED BY <3>1, <3>6
  <2> HIDE DEF T
  <2> QED BY <1>1, <2>1, <2>2, InductionUpTo
<1>10. h[m + n] = f[m] \o g[n]
  <2>1. n \in 0..n
    BY <1>1
  <2>2. n \in T
    BY <1>9, <2>1
  <2> QED BY <2>2 DEF T
<1> QED BY <1>2, <1>3, <1>4, <1>5, <1>10 DEF w

LEMMA ContentsOne ==
    ASSUME NEW c \in Chunk
    PROVE  Contents(<<c>>) = Elements(c)
<1> DEFINE u == <<c>>
<1>1. u \in Seq(Chunk) /\ Len(u) = 1 /\ u[1] = c
  OBVIOUS
<1> HIDE DEF u
<1>2. PICK f : Up(f, u) /\ Contents(u) = f[Len(u)]
  BY <1>1, ContentsUp
<1>3. f[1] = f[0] \o Elements(u[1])
  <2>1. 0 \in 0..(Len(u) - 1) /\ 0 + 1 = 1
    BY <1>1
  <2>2. f[0 + 1] = f[0] \o Elements(u[0 + 1])
    BY <1>1, <1>2, <2>1, UpStep
  <2> QED BY <2>1, <2>2
<1>4. f[0] = << >>
  BY <1>2 DEF Up
<1>5. << >> \o Elements(c) = Elements(c)
  BY ElementsOf
<1> QED BY <1>1, <1>2, <1>3, <1>4, <1>5 DEF u

(* With chunk k put in place of another.                                   *)
LEMMA ContentsSplit ==
    ASSUME NEW u \in Seq(Chunk), NEW k \in 1..Len(u), NEW c \in Chunk,
           NEW y, y = [u EXCEPT ![k] = c]
    PROVE  LET a == SubSeq(u, 1, k - 1)
               b == SubSeq(u, k + 1, Len(u))
           IN  /\ y \in Seq(Chunk) /\ a \in Seq(Chunk) /\ b \in Seq(Chunk)
               /\ Contents(y) = (Contents(a) \o Elements(c)) \o Contents(b)
<1> DEFINE a == SubSeq(u, 1, k - 1)
           b == SubSeq(u, k + 1, Len(u))
           one == <<c>>
           ac == a \o one
<1>1. /\ a \in Seq(Chunk) /\ Len(a) = k - 1 /\ \A i \in 1..(k - 1) : a[i] = u[i]
      /\ b \in Seq(Chunk) /\ Len(b) = Len(u) - k /\ \A i \in 1..(Len(u) - k) : b[i] = u[k + i]
      /\ one \in Seq(Chunk) /\ Len(one) = 1 /\ one[1] = c /\ k \in Nat
  OBVIOUS
<1> HIDE DEF a, b, one
<1>2. /\ ac \in Seq(Chunk) /\ Len(ac) = k /\ ac[k] = c
      /\ \A i \in 1..(k - 1) : ac[i] = u[i]
  <2>1. /\ ac \in Seq(Chunk) /\ Len(ac) = Len(a) + Len(one)
        /\ \A i \in 1..Len(a) : ac[i] = a[i]
        /\ \A i \in 1..Len(one) : ac[Len(a) + i] = one[i]
    <3>1. a \in Seq(Chunk) /\ one \in Seq(Chunk)
      BY <1>1
    <3> QED BY <3>1, Joined
  <2>2. Len(a) = k - 1 /\ Len(one) = 1 /\ (k - 1) + 1 = k /\ 1 \in 1..1
    BY <1>1
  <2> HIDE DEF ac
  <2>3. ac[k] = c
    BY <1>1, <2>1, <2>2
  <2> QED BY <1>1, <2>1, <2>2, <2>3
<1>3. y \in Seq(Chunk) /\ Len(y) = Len(u) /\ y[k] = c /\ \A i \in 1..Len(u) : i # k => y[i] = u[i]
  OBVIOUS
<1> HIDE DEF ac
<1>4. /\ ac \o b \in Seq(Chunk) /\ Len(ac \o b) = Len(u)
      /\ \A i \in 1..k : (ac \o b)[i] = ac[i]
      /\ \A i \in 1..(Len(u) - k) : (ac \o b)[k + i] = b[i]
  <2>1. /\ ac \o b \in Seq(Chunk) /\ Len(ac \o b) = Len(ac) + Len(b)
        /\ \A i \in 1..Len(ac) : (ac \o b)[i] = ac[i]
        /\ \A i \in 1..Len(b) : (ac \o b)[Len(ac) + i] = b[i]
    <3>1. ac \in Seq(Chunk) /\ b \in Seq(Chunk)
      BY <1>1, <1>2
    <3> QED BY <3>1, Joined
  <2>2. Len(ac) = k /\ Len(b) = Len(u) - k /\ k + (Len(u) - k) = Len(u)
    BY <1>1, <1>2
  <2> QED BY <2>1, <2>2
<1>5. ASSUME NEW i \in 1..Len(u) PROVE (ac \o b)[i] = y[i]
  <2>1. CASE i < k
    BY <1>1, <1>2, <1>3, <1>4, <2>1
  <2>2. CASE i = k
    BY <1>1, <1>2, <1>3, <1>4, <2>2
  <2>3. CASE i > k
    <3>0. i \in Int /\ k \in Int /\ Len(u) \in Int
      BY <1>1
    <3>1. i - k \in 1..(Len(u) - k) /\ k + (i - k) = i /\ i # k
      BY <2>3, <3>0
    <3>2. (ac \o b)[k + (i - k)] = b[i - k] /\ b[i - k] = u[k + (i - k)]
      BY <1>1, <1>4, <3>1
    <3> QED BY <1>3, <3>1, <3>2
  <2>4. i < k \/ i = k \/ i > k
    BY <1>1
  <2> QED BY <2>1, <2>2, <2>3, <2>4
<1>6. ac \o b = y
  BY <1>3, <1>4, <1>5, SeqEqual, ZenonT(40)
<1>7. Contents(y) = Contents(ac) \o Contents(b)
  BY <1>1, <1>2, <1>6, ContentsAppend
<1>8. Contents(ac) = Contents(a) \o Elements(c)
  BY <1>1, ContentsAppend, ContentsOne, ZenonT(40) DEF ac, one
<1> QED BY <1>1, <1>3, <1>7, <1>8 DEF a, b

(* Another last chunk, or another first one.                               *)
LEMMA ContentsLast ==
    ASSUME NEW u \in Seq(Chunk), u # << >>, NEW c \in Chunk, NEW part \in Seq(Cell),
           Elements(c) = Elements(u[Len(u)]) \o part,
           NEW y, y = [u EXCEPT ![Len(u)] = c]
    PROVE  Contents(y) = Contents(u) \o part
<1> DEFINE k == Len(u)
           a == SubSeq(u, 1, k - 1)
           b == SubSeq(u, k + 1, k)
           e == Elements(u[k])
           q == Contents(a)
           none == << >>
<1>1. k \in 1..Len(u) /\ u[k] \in Chunk /\ b = none /\ u = [u EXCEPT ![k] = u[k]]
  OBVIOUS
<1>2. /\ Contents(y) = (q \o Elements(c)) \o Contents(b)
      /\ Contents(u) = (q \o e) \o Contents(b)
      /\ a \in Seq(Chunk)
  BY <1>1, ContentsSplit
<1>3. Contents(b) = none
  BY <1>1, ContentsEmpty
<1>4. q \in Seq(Cell) /\ e \in Seq(Cell)
  BY <1>1, <1>2, ContentsAppend, ElementsOf
<1> HIDE DEF k, q, e, none
<1>5. (q \o (e \o part)) \o << >> = ((q \o e) \o << >>) \o part
  BY <1>4
<1> QED BY <1>2, <1>3, <1>5 DEF e, k, none

LEMMA ContentsFirst ==
    ASSUME NEW u \in Seq(Chunk), u # << >>, NEW c \in Chunk, NEW part \in Seq(Cell),
           Elements(c) = part \o Elements(u[1]),
           NEW y, y = [u EXCEPT ![1] = c]
    PROVE  Contents(y) = part \o Contents(u)
<1> DEFINE a == SubSeq(u, 1, 1 - 1)
           b == SubSeq(u, 1 + 1, Len(u))
           e == Elements(u[1])
           q == Contents(b)
           none == << >>
<1>1. 1 \in 1..Len(u) /\ u[1] \in Chunk /\ a = none /\ u = [u EXCEPT ![1] = u[1]]
  OBVIOUS
<1>2. /\ Contents(y) = (Contents(a) \o Elements(c)) \o q
      /\ Contents(u) = (Contents(a) \o e) \o q
      /\ b \in Seq(Chunk)
  BY <1>1, ContentsSplit
<1>3. Contents(a) = none
  BY <1>1, ContentsEmpty
<1>4. q \in Seq(Cell) /\ e \in Seq(Cell)
  BY <1>1, <1>2, ContentsAppend, ElementsOf
<1> HIDE DEF q, e, none
<1>5. (<< >> \o (part \o e)) \o q = part \o ((<< >> \o e) \o q)
  BY <1>4
<1> QED BY <1>2, <1>3, <1>5 DEF e, none

(* An empty chunk makes no difference.                                     *)
LEMMA ContentsWithEmpty ==
    ASSUME NEW u \in Seq(Chunk), NEW c \in Chunk, c.nHead >= c.nTail
    PROVE  Contents(u \o <<c>>) = Contents(u) /\ Contents(<<c>> \o u) = Contents(u)
<1> DEFINE one == <<c>>
           q == Contents(u)
<1>1. one \in Seq(Chunk)
  OBVIOUS
<1>2. Contents(one) = << >>
  BY ContentsOne, ElementsOf
<1> HIDE DEF one
<1>3. /\ Contents(u \o one) = q \o << >> /\ Contents(one \o u) = << >> \o q
      /\ q \in Seq(Cell)
  BY <1>1, <1>2, ContentsAppend
<1> HIDE DEF q
<1>4. q \o << >> = q /\ << >> \o q = q
  BY <1>3
<1> QED BY <1>3, <1>4 DEF one, q


(* Chunks in a row, the first and the last of which may be empty, have the
   elements that the offsets of these two say.                             *)
LEMMA SpanIsLength ==
    ASSUME NEW u \in Seq(Chunk), Loose(u)
    PROVE  Len(Contents(u)) = Span(u) /\ Contents(u) \in Seq(Cell)
<1>1. PICK f : Up(f, u) /\ Contents(u) = f[Len(u)]
  BY ContentsUp
<1> DEFINE n == Len(u)
           L(i) == (i * nChunkSize - nChunkSize + u[i].nTail) - u[1].nHead
           S == {i \in 0..n : i >= 1 => Len(f[i]) = L(i)}
<1>2. n \in Nat
  OBVIOUS
<1>3. \A i \in 0..n : f[i] \in Seq(Cell)
  BY <1>1 DEF Up
<1>4. 0 \in S
  BY <1>2
<1>5. ASSUME NEW i \in 0..(n - 1), i \in S PROVE i + 1 \in S
  <2> DEFINE c == u[i + 1]
             e == Elements(c)
             p == i * nChunkSize
  <2>1. f[i + 1] = f[i] \o e /\ i + 1 \in 0..n /\ i \in 0..n /\ c \in Chunk /\ f[i] \in Seq(Cell)
        /\ i + 1 \in DOMAIN u
    <3>1. f[i + 1] = f[i] \o e /\ i + 1 \in 0..n /\ i \in 0..n /\ c \in Chunk /\ f[i] \in Seq(Cell)
          /\ i + 1 \in 1..n
      BY <1>1, UpStep
    <3> QED BY <3>1
  <2>2. c.nHead \in Int /\ c.nTail \in Int /\ c.nHead <= c.nTail
    BY <2>1, ChunkOf DEF Loose
  <2>3. e \in Seq(Cell) /\ Len(e) = c.nTail - c.nHead
    BY <2>1, <2>2, ElementsOf
  <2> HIDE DEF c, e
  <2>4. Len(f[i + 1]) = Len(f[i]) + (c.nTail - c.nHead)
    <3>1. Len(f[i] \o e) = Len(f[i]) + Len(e)
      BY <2>1, <2>3, Joined, ZenonT(40)
    <3> QED BY <2>1, <2>3, <3>1
  <2>5. /\ p \in Int /\ (i + 1) * nChunkSize = p + nChunkSize /\ (i = 0 => p = 0)
        /\ nChunkSize \in Int
    BY Product, Size
  <2> HIDE DEF p
  <2>6. L(i + 1) = (p + c.nTail) - u[1].nHead
    BY <2>2, <2>5 DEF c
  <2>7. CASE i = 0
    <3>1. f[0] = << >> /\ u[1] = c /\ Len(f[i]) = 0 /\ p = 0
      BY <1>1, <2>5, <2>7 DEF Up, c
    <3>2. Len(f[i + 1]) = L(i + 1)
      BY <2>2, <2>4, <2>6, <3>1
    <3> QED BY <2>1, <3>2
  <2>8. CASE i >= 1
    <3>1. i \in DOMAIN u /\ i < n
      BY <1>2, <2>8
    <3>2. u[i].nTail = nChunkSize /\ c.nHead = 0
      BY <2>1, <2>8, <3>1 DEF Loose, c
    <3>3. u[1] \in Chunk
      BY <3>1
    <3>4. u[1].nHead \in Int
      BY <3>3, ChunkOf
    <3>5. Len(f[i]) = (p - nChunkSize + nChunkSize) - u[1].nHead
      BY <1>5, <2>8, <3>2 DEF p
    <3>6. Len(f[i + 1]) = L(i + 1)
      BY <2>2, <2>4, <2>5, <2>6, <3>2, <3>4, <3>5
    <3> QED BY <2>1, <3>6
  <2> QED BY <2>7, <2>8
<1> HIDE DEF S
<1>6. 0..n \subseteq S
  BY <1>2, <1>4, <1>5, InductionUpTo
<1>7. n \in S
  BY <1>2, <1>6
<1>8. n >= 1 => Len(f[n]) = L(n)
  BY <1>7 DEF S
<1>9. CASE u = << >>
  <2>1. Contents(u) = << >> /\ Span(u) = 0
    BY <1>9, ContentsEmpty DEF Span
  <2> QED BY <2>1
<1>10. CASE u # << >>
  <2>1. n - 1 \in Int /\ (n - 1) * nChunkSize = n * nChunkSize - nChunkSize /\ n >= 1
    BY <1>2, <1>10, Product
  <2>2. Span(u) = L(n)
    BY <1>10, <2>1 DEF Span
  <2> QED BY <1>1, <1>2, <1>3, <1>8, <2>1, <2>2
<1> QED BY <1>9, <1>10

-----------------------------------------------------------------------------
(* One element more.                                                       *)

(* Loose chunks are gapless when the outer ones are not empty.             *)
LEMMA Tight ==
    ASSUME NEW u \in Seq(Chunk), Loose(u),
           u # << >> => u[1].nHead < u[1].nTail /\ u[Len(u)].nHead < u[Len(u)].nTail
    PROVE  u \in Rows
<1>1. ASSUME NEW i \in DOMAIN u
      PROVE  u[i].nHead < u[i].nTail
  <2>1. u[i] \in Chunk /\ i \in 1..Len(u) /\ u # << >>
    OBVIOUS
  <2>2. CASE i = 1 \/ i = Len(u)
    BY <2>1, <2>2
  <2>3. CASE i > 1 /\ i < Len(u)
    BY <2>1, <2>3, Size DEF Loose
  <2> QED BY <2>1, <2>2, <2>3
<1> QED BY <1>1 DEF Rows, Gapless, Loose

LEMMA RowIsLoose ==
    ASSUME NEW u \in Rows
    PROVE  /\ u \in Seq(Chunk) /\ Loose(u)
           /\ u # << >> => /\ u[1] \in Chunk /\ u[1].nHead < u[1].nTail /\ u[1].nHead < nChunkSize
                           /\ u[Len(u)] \in Chunk /\ u[Len(u)].nHead < u[Len(u)].nTail
                           /\ Len(u) \in Nat \ {0}
<1>1. u \in Seq(Chunk) /\ \A i \in DOMAIN u : u[i] \in Chunk
  BY DEF Rows
<1>2. ASSUME u # << >>
      PROVE  Len(u) \in Nat \ {0} /\ 1 \in DOMAIN u /\ Len(u) \in DOMAIN u
  BY <1>1, <1>2
<1>3. \A i \in DOMAIN u : /\ u[i].nHead \in Int /\ u[i].nTail \in Int
                          /\ u[i].nHead < u[i].nTail /\ u[i].nTail <= nChunkSize
  BY <1>1, ChunkOf DEF Rows, Gapless
<1>4. Loose(u)
  BY <1>3 DEF Rows, Gapless, Loose
<1>5. ASSUME NEW i \in DOMAIN u PROVE u[i] \in Chunk /\ u[i].nHead < u[i].nTail /\ u[i].nHead < nChunkSize
  BY <1>1, <1>3, Size
<1> QED BY <1>1, <1>2, <1>4, <1>5

LEMMA SpanOf ==
    ASSUME NEW u \in Seq(Chunk), u # << >>
    PROVE  /\ Len(u) \in Nat \ {0} /\ 1 \in DOMAIN u /\ Len(u) \in DOMAIN u
           /\ u[1] \in Chunk /\ u[Len(u)] \in Chunk
           /\ (Len(u) - 1) * nChunkSize \in Int /\ Span(u) \in Int
           /\ Span(u) = ((Len(u) - 1) * nChunkSize + u[Len(u)].nTail) - u[1].nHead
<1>1. /\ Len(u) \in Nat \ {0} /\ 1 \in DOMAIN u /\ Len(u) \in DOMAIN u
      /\ u[1] \in Chunk /\ u[Len(u)] \in Chunk
  OBVIOUS
<1>2. Len(u) - 1 \in Int
  BY <1>1
<1>3. (Len(u) - 1) * nChunkSize \in Int
  BY <1>2, Size
<1>4. Span(u) = ((Len(u) - 1) * nChunkSize + u[Len(u)].nTail) - u[1].nHead
  BY DEF Span
<1>5. u[Len(u)].nTail \in Int /\ u[1].nHead \in Int
  BY <1>1, ChunkOf
<1> HIDE DEF Span
<1> QED BY <1>1, <1>3, <1>4, <1>5

(* A chunk with one element more, and chunks with another one at k.        *)
Behind(a, x) == [nHead |-> a.nHead, nTail |-> a.nTail + 1, vData |-> [a.vData EXCEPT ![a.nTail] = x]]

Before(a, x) == [nHead |-> a.nHead - 1, nTail |-> a.nTail, vData |-> [a.vData EXCEPT ![a.nHead - 1] = x]]

Put(u, k, c) == [u EXCEPT ![k] = c]

(* Writing one element behind the last one.                                *)
LEMMA StoredBack ==
    ASSUME NEW u \in Seq(Chunk), u # << >>, Loose(u), Len(u) > 1 => u[1].nHead < nChunkSize,
           u[Len(u)].nTail < nChunkSize, NEW x \in Values,
           NEW c, c = Behind(u[Len(u)], x), NEW y, y = Put(u, Len(u), c)
    PROVE  y \in Rows /\ Span(y) = Span(u) + 1 /\ Contents(y) = Contents(u) \o <<x>>
           /\ Len(y) = Len(u)
<1> USE DEF Behind, Put
<1> DEFINE k == Len(u)
           a == u[k]
<1>1. /\ k \in Nat \ {0} /\ 1 \in DOMAIN u /\ k \in DOMAIN u /\ a \in Chunk /\ u[1] \in Chunk
      /\ (k - 1) * nChunkSize \in Int
      /\ Span(u) = ((k - 1) * nChunkSize + a.nTail) - u[1].nHead
  BY SpanOf
<1>2. /\ a.nHead \in Int /\ 0 <= a.nHead /\ a.nHead <= a.nTail
      /\ a.nTail \in Int /\ a.nTail < nChunkSize /\ u[1].nHead \in Int /\ a.vData \in [Slots -> Cell]
  BY <1>1, ChunkOf DEF Loose
<1>3. c \in Chunk /\ c.nHead = a.nHead /\ c.nTail = a.nTail + 1
  <2>1. a.nHead \in 0..nChunkSize /\ a.nTail + 1 \in 0..nChunkSize
    BY <1>2, Size
  <2>2. [a.vData EXCEPT ![a.nTail] = x] \in [Slots -> Cell]
    BY <1>2 DEF Cell
  <2> QED BY <2>1, <2>2, AsChunk
<1> DEFINE part == <<x>>
<1>11. part \in Seq(Cell) /\ Len(part) = 1 /\ part[1] = x
  BY DEF Cell
<1> HIDE DEF part
<1>12. Elements(c) = Elements(a) \o part
  <2>0. c.vData = [a.vData EXCEPT ![a.nTail] = x]
    <3>1. [a.vData EXCEPT ![a.nTail] = x] \in [Slots -> Cell]
      BY <1>2 DEF Cell
    <3> QED BY <1>2, <1>3, <3>1
  <2>1. a.nTail \in Slots
    BY <1>2, Size DEF Slots
  <2>2. c.vData[a.nTail] = x /\ \A i \in Slots : i >= a.nHead /\ i < a.nTail => c.vData[i] = a.vData[i]
    BY <1>2, <2>0, <2>1
  <2>3. \A i \in 1..Len(part) : i = 1 /\ a.nTail + i - 1 = a.nTail
    BY <1>2, <1>11
  <2>4. \A i \in 1..Len(part) : c.vData[a.nTail + i - 1] = part[i]
    BY <1>11, <2>2, <2>3
  <2>5. c.nHead = a.nHead /\ c.nTail = a.nTail + Len(part) /\ a.nHead <= a.nTail
    BY <1>2, <1>3, <1>11
  <2> HIDE DEF a
  <2> QED BY <1>1, <1>3, <1>11, <2>2, <2>4, <2>5, ElementsBehind
<1>13. Contents(y) = Contents(u) \o part
  BY <1>1, <1>3, <1>11, <1>12, ContentsLast
<1> HIDE DEF a, k
<1>4. /\ y \in Seq(Chunk) /\ Len(y) = k /\ y[k] = c
      /\ \A i \in DOMAIN u : i \in DOMAIN y /\ (i # k => y[i] = u[i])
      /\ \A i \in DOMAIN y : i \in DOMAIN u
  BY <1>1, <1>3 DEF k
<1>5. c.nHead <= c.nTail /\ c.nHead < c.nTail
  BY <1>2, <1>3
<1>6. Loose(y)
  <2> SUFFICES ASSUME NEW i \in DOMAIN y
               PROVE  /\ y[i].nHead <= y[i].nTail
                      /\ i > 1 => y[i].nHead = 0
                      /\ i < Len(y) => y[i].nTail = nChunkSize
    BY DEF Loose
  <2>1. i \in DOMAIN u
    BY <1>4
  <2>2. CASE i = k
    BY <1>3, <1>4, <1>5, <2>1, <2>2 DEF Loose, a, k
  <2>3. CASE i # k
    BY <1>4, <2>1, <2>3 DEF Loose, k
  <2> QED BY <2>2, <2>3
<1>7. y[1].nHead = u[1].nHead /\ (k > 1 => y[1].nTail = nChunkSize)
  BY <1>1, <1>3, <1>4 DEF Loose, a, k
<1>8. y[1].nHead < y[1].nTail
  <2>1. CASE k = 1
    BY <1>4, <1>5, <2>1
  <2>2. CASE k > 1
    BY <1>7, <2>2 DEF k
  <2> QED BY <1>1, <2>1, <2>2
<1>9. y \in Rows /\ y # << >>
  <2>1. y # << >>
    BY <1>1, <1>4
  <2> QED BY <1>4, <1>5, <1>6, <1>8, <2>1, Tight
<1>10. Span(y) = ((k - 1) * nChunkSize + c.nTail) - u[1].nHead
  BY <1>4, <1>7, <1>9, SpanOf
<1>14. Span(y) = Span(u) + 1
  BY <1>1, <1>2, <1>3, <1>10
<1> QED BY <1>4, <1>9, <1>13, <1>14 DEF k, part

(* Writing one element before the first one.                               *)
LEMMA StoredFront ==
    ASSUME NEW u \in Seq(Chunk), u # << >>, Loose(u), u[1].nHead > 0,
           Len(u) > 1 => u[Len(u)].nHead < u[Len(u)].nTail, NEW x \in Values,
           NEW c, c = Before(u[1], x), NEW y, y = Put(u, 1, c)
    PROVE  y \in Rows /\ Span(y) = Span(u) + 1 /\ Contents(y) = <<x>> \o Contents(u)
           /\ Len(y) = Len(u)
<1> USE DEF Before, Put
<1> DEFINE k == Len(u)
           a == u[1]
<1>1. /\ k \in Nat \ {0} /\ 1 \in DOMAIN u /\ k \in DOMAIN u /\ a \in Chunk /\ u[k] \in Chunk
      /\ (k - 1) * nChunkSize \in Int
      /\ Span(u) = ((k - 1) * nChunkSize + u[k].nTail) - a.nHead
  BY SpanOf
<1>2. /\ a.nHead \in Int /\ 0 < a.nHead /\ a.nHead <= a.nTail /\ a.nHead <= nChunkSize
      /\ a.nTail \in Int /\ a.nTail <= nChunkSize /\ u[k].nTail \in Int /\ a.vData \in [Slots -> Cell]
  BY <1>1, ChunkOf DEF Loose
<1>3. c \in Chunk /\ c.nHead = a.nHead - 1 /\ c.nTail = a.nTail
  <2>1. a.nHead - 1 \in 0..nChunkSize /\ a.nTail \in 0..nChunkSize
    BY <1>2, Size
  <2>2. [a.vData EXCEPT ![a.nHead - 1] = x] \in [Slots -> Cell]
    BY <1>2 DEF Cell
  <2> QED BY <2>1, <2>2, AsChunk
<1> DEFINE part == <<x>>
<1>4. part \in Seq(Cell) /\ Len(part) = 1 /\ part[1] = x
  BY DEF Cell
<1> HIDE DEF part
<1>5. Elements(c) = part \o Elements(a)
  <2>0. c.vData = [a.vData EXCEPT ![a.nHead - 1] = x]
    <3>1. [a.vData EXCEPT ![a.nHead - 1] = x] \in [Slots -> Cell]
      BY <1>2 DEF Cell
    <3> QED BY <1>2, <1>3, <3>1
  <2>1. a.nHead - 1 \in Slots
    BY <1>2, Size DEF Slots
  <2>2. c.vData[a.nHead - 1] = x /\ \A i \in Slots : i >= a.nHead /\ i < a.nTail => c.vData[i] = a.vData[i]
    BY <1>2, <2>0, <2>1
  <2>3. \A i \in 1..Len(part) : i = 1 /\ c.nHead + i - 1 = a.nHead - 1
    BY <1>2, <1>3, <1>4
  <2>4. \A i \in 1..Len(part) : c.vData[c.nHead + i - 1] = part[i]
    BY <1>4, <2>2, <2>3
  <2>5. c.nHead = a.nHead - Len(part) /\ c.nTail = a.nTail /\ a.nHead <= a.nTail
    BY <1>2, <1>3, <1>4
  <2> HIDE DEF a
  <2> QED BY <1>1, <1>3, <1>4, <2>2, <2>4, <2>5, ElementsBefore
<1>6. Contents(y) = part \o Contents(u)
  BY <1>1, <1>3, <1>4, <1>5, ContentsFirst
<1> HIDE DEF a, k
<1>7. /\ y \in Seq(Chunk) /\ Len(y) = k /\ y[1] = c
      /\ \A i \in DOMAIN u : i \in DOMAIN y /\ (i # 1 => y[i] = u[i])
      /\ \A i \in DOMAIN y : i \in DOMAIN u
  BY <1>1, <1>3 DEF k
<1>8. c.nHead <= c.nTail /\ c.nHead < c.nTail
  BY <1>2, <1>3
<1>9. Loose(y)
  <2> SUFFICES ASSUME NEW i \in DOMAIN y
               PROVE  /\ y[i].nHead <= y[i].nTail
                      /\ i > 1 => y[i].nHead = 0
                      /\ i < Len(y) => y[i].nTail = nChunkSize
    BY DEF Loose
  <2>1. i \in DOMAIN u
    BY <1>7
  <2>2. CASE i = 1
    BY <1>3, <1>7, <1>8, <2>1, <2>2 DEF Loose, a, k
  <2>3. CASE i # 1
    BY <1>7, <2>1, <2>3 DEF Loose, k
  <2> QED BY <2>2, <2>3
<1>10. y[k].nTail = u[k].nTail /\ y[k].nHead < y[k].nTail
  <2>1. CASE k = 1
    BY <1>3, <1>7, <1>8, <2>1 DEF a
  <2>2. CASE k > 1
    BY <1>1, <1>7, <2>2 DEF k
  <2> QED BY <1>1, <2>1, <2>2
<1>11. y \in Rows /\ y # << >>
  <2>1. y # << >>
    BY <1>1, <1>7
  <2> QED BY <1>7, <1>8, <1>9, <1>10, <2>1, Tight
<1>12. Span(y) = ((k - 1) * nChunkSize + u[k].nTail) - c.nHead
  BY <1>7, <1>10, <1>11, SpanOf
<1>13. Span(y) = Span(u) + 1
  BY <1>1, <1>2, <1>3, <1>12
<1> QED BY <1>6, <1>7, <1>11, <1>13 DEF k, part

-----------------------------------------------------------------------------
(* push_back(item) and push_front(item).                                   *)

LEMMA Singleton ==
    ASSUME NEW T, NEW s \in Seq(T), Len(s) = 1
    PROVE  s = <<s[1]>> /\ s[1] \in T /\ 1 \in DOMAIN s
<1> DEFINE one == <<s[1]>>
<1>1. s[1] \in T /\ 1 \in DOMAIN s /\ one \in Seq(T) /\ Len(one) = 1 /\ one[1] = s[1]
  OBVIOUS
<1> HIDE DEF one
<1>2. s = one
  BY <1>1, SeqEqual
<1> QED BY <1>1, <1>2 DEF one

(* An acquired chunk, linked behind those in use or before them.           *)
GrowsBack(o, u, v, i) ==
    \E c \in Chunk, w \in Spares :
        /\ Leaves(o, Made(u \o <<c>>, w, i))
        /\ c.nTail = 0 => c.nHead = 0
        /\ Reset(v) => c.nTail = 0

GrowsFront(o, u, i) == \E c \in Chunk, w \in Spares : Leaves(o, Made(<<c>> \o u, w, i))

LEMMA OneLinkedBack ==
    ASSUME NEW u \in Seq(Chunk), NEW v \in Spares, NEW i, NEW d, d = Made(u, v, i),
           NEW o \in LinkBack(acquire_chunk(d))
    PROVE  Fails(o, d) \/ GrowsBack(o, u, v, i)
<1> DEFINE P == acquire_chunk(d)
           n == 1
<1>1. \A p \in P : Fails(p, d) \/ Gives(p, u, v, i, n)
  BY OneChunk
<1>2. o \in LinkBack(P)
  OBVIOUS
<1> HIDE DEF P, n
<1>3. CASE ~Fails(o, d)
  <2>1. PICK list \in Spares, w \in Spares : /\ Leaves(o, Made(u \o list, w, i))
                                             /\ Len(list) = n /\ (Reset(v) => Reset(list))
    <3>1. \/ Fails(o, d)
          \/ \E list, w \in Spares : /\ Leaves(o, Made(u \o list, w, i))
                                     /\ Len(list) = n /\ (Reset(v) => Reset(list))
      BY <1>1, <1>2, LinkedBack
    <3> QED BY <1>3, <3>1
  <2>2. list \in Seq(Chunk) /\ Len(list) = 1
    BY <2>1 DEF Spares, n
  <2>3. list = <<list[1]>> /\ list[1] \in Chunk /\ 1 \in DOMAIN list
    BY <2>2, Singleton
  <2>4. /\ list[1].nTail = 0 => list[1].nHead = 0
        /\ Reset(v) => list[1].nTail = 0
    BY <2>1, <2>3 DEF Spares, Spare, Reset
  <2> DEFINE c == list[1]
  <2>5. Leaves(o, Made(u \o <<c>>, w, i)) /\ c \in Chunk
    BY <2>1, <2>3
  <2> HIDE DEF c
  <2>6. (c.nTail = 0 => c.nHead = 0) /\ (Reset(v) => c.nTail = 0)
    BY <2>4 DEF c
  <2> QED BY <2>5, <2>6 DEF GrowsBack
<1> QED BY <1>3

LEMMA OneLinkedFront ==
    ASSUME NEW u \in Seq(Chunk), NEW v \in Spares, NEW i, NEW d, d = Made(u, v, i),
           NEW o \in LinkFront(acquire_chunk(d))
    PROVE  Fails(o, d) \/ GrowsFront(o, u, i)
<1> DEFINE P == acquire_chunk(d)
           n == 1
<1>1. \A p \in P : Fails(p, d) \/ Gives(p, u, v, i, n)
  BY OneChunk
<1>2. o \in LinkFront(P)
  OBVIOUS
<1> HIDE DEF P, n
<1>3. CASE ~Fails(o, d)
  <2>1. PICK list \in Spares, w \in Spares : /\ Leaves(o, Made(list \o u, w, i))
                                             /\ Len(list) = n /\ (Reset(v) => Reset(list))
    <3>1. \/ Fails(o, d)
          \/ \E list, w \in Spares : /\ Leaves(o, Made(list \o u, w, i))
                                     /\ Len(list) = n /\ (Reset(v) => Reset(list))
      BY <1>1, <1>2, LinkedFront
    <3> QED BY <1>3, <3>1
  <2>2. list \in Seq(Chunk) /\ Len(list) = 1
    BY <2>1 DEF Spares, n
  <2>3. list = <<list[1]>> /\ list[1] \in Chunk
    BY <2>2, Singleton
  <2> DEFINE c == list[1]
  <2>4. Leaves(o, Made(<<c>> \o u, w, i)) /\ c \in Chunk
    BY <2>1, <2>3
  <2> HIDE DEF c
  <2> QED BY <2>4 DEF GrowsFront
<1> QED BY <1>3

(* Chunks with room for an element behind the last one, or before the first. *)
RoomBehind(z) ==
    /\ z \in Seq(Chunk) /\ z # << >> /\ Loose(z) /\ z[Len(z)].nTail < nChunkSize
    /\ Len(z) > 1 => z[1].nHead < nChunkSize

RoomBefore(z) ==
    /\ z \in Seq(Chunk) /\ z # << >> /\ Loose(z) /\ z[1].nHead > 0
    /\ Len(z) > 1 => z[Len(z)].nHead < z[Len(z)].nTail

(* A chunk without elements, behind full chunks or before them, makes such
   room and changes nothing else.                                          *)
LEMMA EmptyBehind ==
    ASSUME NEW u \in Rows, u # << >> => u[Len(u)].nTail = nChunkSize,
           NEW c \in Chunk, c.nHead = 0, c.nTail = 0, NEW z, z = u \o <<c>>
    PROVE  RoomBehind(z) /\ Span(z) = Span(u) /\ Contents(z) = Contents(u)
<1>1. u \in Seq(Chunk) /\ Loose(u) /\ Len(u) \in Nat
  <2>1. u \in Seq(Chunk) /\ Loose(u)
    BY RowIsLoose
  <2> QED BY <2>1
<1>2. Contents(z) = Contents(u)
  BY <1>1, ContentsWithEmpty
<1>3. /\ z \in Seq(Chunk) /\ Len(z) = Len(u) + 1 /\ z[Len(u) + 1] = c /\ z # << >>
      /\ \A i \in 1..Len(u) : z[i] = u[i]
      /\ \A i \in DOMAIN z : i \in 1..Len(u) \/ i = Len(u) + 1
  BY <1>1
<1>4. Loose(z)
  <2> SUFFICES ASSUME NEW i \in DOMAIN z
               PROVE  /\ z[i].nHead <= z[i].nTail
                      /\ i > 1 => z[i].nHead = 0
                      /\ i < Len(z) => z[i].nTail = nChunkSize
    BY DEF Loose
  <2>1. CASE i = Len(u) + 1
    BY <1>1, <1>3, <2>1
  <2>2. CASE i \in 1..Len(u)
    <3>1. z[i] = u[i] /\ i \in DOMAIN u
      BY <1>1, <1>3, <2>2
    <3>2. /\ u[i].nHead <= u[i].nTail /\ (i > 1 => u[i].nHead = 0)
          /\ i < Len(u) => u[i].nTail = nChunkSize
      BY <1>1, <3>1 DEF Loose
    <3>3. i = Len(u) => u[i].nTail = nChunkSize
      BY <1>1, <2>2
    <3>4. i < Len(u) \/ i = Len(u)
      BY <1>1, <2>2
    <3> QED BY <3>1, <3>2, <3>3, <3>4
  <2> QED BY <1>3, <2>1, <2>2
<1>5. Len(z) > 1 => u # << >> /\ z[1] = u[1] /\ z[1].nHead < nChunkSize
  <2> HAVE Len(z) > 1
  <2>1. u # << >> /\ 1 \in 1..Len(u)
    BY <1>1, <1>3
  <2> QED BY <1>3, <2>1, RowIsLoose
<1>6. RoomBehind(z)
  BY <1>3, <1>4, <1>5, Size DEF RoomBehind
<1>7. Span(z) = Span(u)
  <2>1. Span(z) = (Len(u) * nChunkSize + 0) - z[1].nHead
    <3>1. (Len(u) + 1) - 1 = Len(u)
      BY <1>1
    <3> QED BY <1>3, <3>1, SpanOf, ZenonT(40)
  <2>2. CASE u = << >>
    <3>1. Len(u) = 0 /\ z[1] = c /\ Span(u) = 0
      BY <1>3, <2>2 DEF Span
    <3> QED BY <2>1, <3>1, Size
  <2>3. CASE u # << >>
    <3>1. z[1] = u[1] /\ u[1] \in Chunk
      BY <1>1, <1>3, <2>3
    <3>2. Span(u) = ((Len(u) - 1) * nChunkSize + nChunkSize) - u[1].nHead
      BY <1>1, <2>3, SpanOf
    <3>3. (Len(u) - 1) * nChunkSize = Len(u) * nChunkSize - nChunkSize /\ Len(u) * nChunkSize \in Int
      BY <1>1, Product
    <3>4. u[1].nHead \in Int /\ nChunkSize \in Int
      BY <3>1, ChunkOf, Size
    <3> HIDE DEF Span
    <3> QED BY <2>1, <3>1, <3>2, <3>3, <3>4
  <2> QED BY <2>2, <2>3
<1> QED BY <1>2, <1>6, <1>7

LEMMA EmptyBefore ==
    ASSUME NEW u \in Rows, u # << >> => u[1].nHead = 0,
           NEW c \in Chunk, c.nHead = nChunkSize, c.nTail = nChunkSize, NEW z, z = <<c>> \o u
    PROVE  RoomBefore(z) /\ Span(z) = Span(u) /\ Contents(z) = Contents(u)
<1>1. u \in Seq(Chunk) /\ Loose(u) /\ Len(u) \in Nat
  <2>1. u \in Seq(Chunk) /\ Loose(u)
    BY RowIsLoose
  <2> QED BY <2>1
<1>2. Contents(z) = Contents(u)
  BY <1>1, Size, ContentsWithEmpty
<1>3. /\ z \in Seq(Chunk) /\ Len(z) = Len(u) + 1 /\ z[1] = c /\ z # << >>
      /\ \A i \in 1..Len(u) : z[i + 1] = u[i]
      /\ \A i \in DOMAIN z : i = 1 \/ (i > 1 /\ i - 1 \in 1..Len(u))
  BY <1>1
<1>4. Loose(z)
  <2> SUFFICES ASSUME NEW i \in DOMAIN z
               PROVE  /\ z[i].nHead <= z[i].nTail
                      /\ i > 1 => z[i].nHead = 0
                      /\ i < Len(z) => z[i].nTail = nChunkSize
    BY DEF Loose
  <2>1. CASE i = 1
    BY <1>1, <1>3, <2>1, Size
  <2>2. CASE i > 1 /\ i - 1 \in 1..Len(u)
    <3> DEFINE j == i - 1
    <3>1. j \in 1..Len(u) /\ i = j + 1 /\ j \in DOMAIN u
      BY <1>1, <2>2
    <3> HIDE DEF j
    <3>2. z[i] = u[j]
      BY <1>3, <3>1
    <3>3. /\ u[j].nHead <= u[j].nTail /\ (j > 1 => u[j].nHead = 0)
          /\ j < Len(u) => u[j].nTail = nChunkSize
      BY <1>1, <3>1 DEF Loose
    <3>4. j = 1 => u[j].nHead = 0
      BY <1>1, <3>1
    <3>5. (j = 1 \/ j > 1) /\ (i < Len(z) => j < Len(u))
      BY <1>1, <1>3, <3>1
    <3> QED BY <3>2, <3>3, <3>4, <3>5
  <2> QED BY <1>3, <2>1, <2>2
<1>5. Len(z) > 1 => z[Len(z)].nHead < z[Len(z)].nTail
  <2> HAVE Len(z) > 1
  <2>1. u # << >> /\ Len(u) \in 1..Len(u)
    BY <1>1, <1>3
  <2>2. z[Len(z)] = u[Len(u)]
    BY <1>3, <2>1
  <2> QED BY <2>1, <2>2, RowIsLoose
<1>6. RoomBefore(z)
  BY <1>3, <1>4, <1>5, Size DEF RoomBefore
<1>7. Span(z) = Span(u)
  <2>1. Span(z) = (Len(u) * nChunkSize + z[Len(u) + 1].nTail) - nChunkSize
    <3>1. (Len(u) + 1) - 1 = Len(u)
      BY <1>1
    <3> QED BY <1>3, <3>1, SpanOf
  <2>2. CASE u = << >>
    <3>1. Len(u) = 0 /\ z[Len(u) + 1] = c /\ Span(u) = 0
      BY <1>3, <2>2 DEF Span
    <3> QED BY <2>1, <3>1, Size
  <2>3. CASE u # << >>
    <3>1. Len(u) \in 1..Len(u) /\ u[Len(u)] \in Chunk
      BY <1>1, <2>3
    <3>5. z[Len(u) + 1] = u[Len(u)]
      BY <1>3, <3>1
    <3>2. Span(u) = ((Len(u) - 1) * nChunkSize + u[Len(u)].nTail) - 0
      BY <1>1, <2>3, SpanOf
    <3>3. (Len(u) - 1) * nChunkSize = Len(u) * nChunkSize - nChunkSize /\ Len(u) * nChunkSize \in Int
      BY <1>1, Product
    <3>4. u[Len(u)].nTail \in Int /\ nChunkSize \in Int
      BY <3>1, ChunkOf, Size
    <3> HIDE DEF Span
    <3> QED BY <2>1, <3>2, <3>3, <3>4, <3>5
  <2> QED BY <2>2, <2>3
<1> QED BY <1>2, <1>6, <1>7

LEMMA StoreBackGives ==
    ASSUME NEW z, RoomBehind(z), NEW w \in Spares, NEW d, d = Made(z, w, Span(z)), NEW x \in Values,
           NEW o \in StoreBack(d, x)
    PROVE  \E y \in Rows : Leaves(o, Made(y, w, Span(y))) /\ Contents(y) = Contents(z) \o <<x>>
<1> DEFINE k == Len(z)
           a == z[k]
           c == Behind(a, x)
           y == Put(z, k, c)
<1>1. /\ Whole(d) /\ d.used = z /\ d.unused = w /\ d.nItems = Span(z)
      /\ d.nChunks = k + Len(w) /\ d.nUnused = Len(w)
  BY MadeOf
<1>2. /\ z \in Seq(Chunk) /\ z # << >> /\ Loose(z) /\ a.nTail < nChunkSize
      /\ Len(z) > 1 => z[1].nHead < nChunkSize
  BY DEF RoomBehind
<1> HIDE DEF y, c
<1>3. y \in Rows /\ Span(y) = Span(z) + 1 /\ Contents(y) = Contents(z) \o <<x>> /\ Len(y) = k
  BY <1>2, StoredBack DEF y, c
<1>4. ~(a.nTail >= nChunkSize)
  <2>1. a \in Chunk
    BY <1>2
  <2> QED BY <1>2, <2>1, ChunkOf, Size
<1> HIDE DEF y
<1>5. o = [ans |-> "true", d |-> Hold(d, y, Span(z) + 1), list |-> << >>]
  BY <1>1, <1>4 DEF StoreBack, Done, Acquired, y, c, Put, Behind
<1>6. Hold(d, y, Span(z) + 1) = Made(y, w, Span(y))
  BY <1>1, <1>3, HoldOf DEF Made
<1> QED BY <1>3, <1>5, <1>6 DEF Leaves

LEMMA StoreFrontGives ==
    ASSUME NEW z, RoomBefore(z), NEW w \in Spares, NEW d, d = Made(z, w, Span(z)), NEW x \in Values,
           NEW o \in StoreFront(d, x)
    PROVE  \E y \in Rows : Leaves(o, Made(y, w, Span(y))) /\ Contents(y) = <<x>> \o Contents(z)
<1> DEFINE a == z[1]
           c == Before(a, x)
           y == Put(z, 1, c)
<1>1. /\ Whole(d) /\ d.used = z /\ d.unused = w /\ d.nItems = Span(z)
      /\ d.nChunks = Len(z) + Len(w) /\ d.nUnused = Len(w)
  BY MadeOf
<1>2. /\ z \in Seq(Chunk) /\ z # << >> /\ Loose(z) /\ z[1].nHead > 0
      /\ Len(z) > 1 => z[Len(z)].nHead < z[Len(z)].nTail
  BY DEF RoomBefore
<1> HIDE DEF y, c
<1>3. y \in Rows /\ Span(y) = Span(z) + 1 /\ Contents(y) = <<x>> \o Contents(z) /\ Len(y) = Len(z)
  BY <1>2, StoredFront DEF y, c
<1> HIDE DEF y
<1>5. o = [ans |-> "true", d |-> Hold(d, y, Span(z) + 1), list |-> << >>]
  BY <1>1 DEF StoreFront, Done, Acquired, y, c, Put, Before
<1>6. Hold(d, y, Span(z) + 1) = Made(y, w, Span(y))
  BY <1>1, <1>3, HoldOf DEF Made
<1> QED BY <1>3, <1>5, <1>6 DEF Leaves

(* A call that leaves a deque with the elements "list": either it fails and
   changes nothing, or ...                                                 *)
Pushes(o, d, list) ==
    \/ Fails(o, d)
    \/ \E y \in Rows, w \in Spares : Leaves(o, Made(y, w, Span(y))) /\ Contents(y) = list

LEMMA PushBackGives ==
    ASSUME NEW u \in Rows, NEW v \in Spares, Reset(v), NEW d, d = Made(u, v, Span(u)),
           NEW x \in Values, NEW o \in push_back(d, x)
    PROVE  Pushes(o, d, Contents(u) \o <<x>>)
<1> DEFINE tail == IF d.used = << >> THEN LinkBack(acquire_chunk(d)) ELSE Done(d)
           room == UNION {IF p.ans = "true" /\ Last(p.d.used).nTail >= nChunkSize
                          THEN LinkBack(acquire_chunk(p.d)) ELSE {p} : p \in tail}
           Ready(p) == \/ Fails(p, d)
                       \/ \E z \in Seq(Chunk), w \in Spares : /\ RoomBehind(z) /\ Contents(z) = Contents(u)
                                               /\ Leaves(p, Made(z, w, Span(z)))
<1>1. /\ d.used = u /\ u \in Seq(Chunk) /\ Loose(u)
      /\ u # << >> => u[Len(u)] \in Chunk /\ u[1].nHead < nChunkSize
  BY MadeOf, RowIsLoose
<1>2. ASSUME NEW p \in LinkBack(acquire_chunk(d)), u # << >> => u[Len(u)].nTail = nChunkSize
      PROVE  /\ Ready(p)
             /\ p.ans = "true" => /\ p.d.used # << >> /\ p.d.used \in Seq(Chunk)
                                  /\ p.d.used[Len(p.d.used)].nTail < nChunkSize
  <2>1. CASE Fails(p, d)
    BY <2>1 DEF Fails
  <2>2. CASE ~Fails(p, d)
    <3>1. PICK c \in Chunk, w \in Spares : /\ Leaves(p, Made(u \o <<c>>, w, Span(u)))
                                           /\ c.nTail = 0 => c.nHead = 0
                                           /\ Reset(v) => c.nTail = 0
      <4>1. GrowsBack(p, u, v, Span(u))
        BY <1>1, <1>2, <2>2, OneLinkedBack
      <4> QED BY <4>1 DEF GrowsBack
    <3> DEFINE z == u \o <<c>>
    <3>2. c.nHead = 0 /\ c.nTail = 0
      BY <3>1
    <3>3. RoomBehind(z) /\ Span(z) = Span(u) /\ Contents(z) = Contents(u)
      BY <1>2, <3>2, EmptyBehind
    <3> HIDE DEF z
    <3>4. Leaves(p, Made(z, w, Span(z)))
      BY <3>1, <3>3 DEF z
    <3>5. p.d.used = z
      BY <3>4, MadeOf DEF Leaves
    <3>6. Ready(p)
      BY <3>3, <3>4 DEF RoomBehind
    <3> QED BY <3>3, <3>5, <3>6 DEF RoomBehind
  <2> QED BY <2>1, <2>2
<1>3. \A p \in room : Ready(p)
  <2>1. CASE u = << >>
    <3>1. tail = LinkBack(acquire_chunk(d))
      BY <1>1, <2>1
    <3>2. ASSUME NEW p \in tail, p.ans = "true"
          PROVE  ~(Last(p.d.used).nTail >= nChunkSize)
      <4>1. /\ p.d.used # << >> /\ p.d.used \in Seq(Chunk)
            /\ p.d.used[Len(p.d.used)].nTail < nChunkSize
        BY <1>2, <2>1, <3>1, <3>2
      <4>2. p.d.used[Len(p.d.used)] \in Chunk
        BY <4>1
      <4> QED BY <4>1, <4>2, ChunkOf, Size DEF Last
    <3>3. room = tail
      BY <3>2
    <3> QED BY <1>2, <2>1, <3>1, <3>3
  <2>2. CASE u # << >> /\ u[Len(u)].nTail >= nChunkSize
    <3>1. u[Len(u)].nTail = nChunkSize
      BY <1>1, <2>2, ChunkOf, Size
    <3>2. room = LinkBack(acquire_chunk(d))
      BY <1>1, <2>2 DEF Done, Acquired, Last
    <3> QED BY <1>2, <3>1, <3>2
  <2>3. CASE u # << >> /\ ~(u[Len(u)].nTail >= nChunkSize)
    <3> DEFINE p == [ans |-> "true", d |-> d, list |-> << >>]
    <3>1. room = {p}
      BY <1>1, <2>3 DEF Done, Acquired, Last
    <3>2. RoomBehind(u)
      BY <1>1, <2>3, ChunkOf, Size DEF RoomBehind
    <3>3. Leaves(p, Made(u, v, Span(u)))
      BY DEF Leaves
    <3> HIDE DEF p
    <3>4. Ready(p)
      BY <1>1, <3>2, <3>3
    <3> QED BY <3>1, <3>4
  <2> QED BY <2>1, <2>2, <2>3
<1>4. PICK p \in room : o \in IF p.ans = "true" THEN StoreBack(p.d, x) ELSE {p}
  BY DEF push_back
<1> HIDE DEF room, tail
<1>5. CASE Fails(p, d)
  <2>1. o = p
    BY <1>4, <1>5 DEF Fails
  <2> QED BY <1>5, <2>1 DEF Pushes
<1>6. CASE ~Fails(p, d)
  <2>1. PICK z \in Seq(Chunk), w \in Spares : /\ RoomBehind(z) /\ Contents(z) = Contents(u)
                               /\ Leaves(p, Made(z, w, Span(z)))
    BY <1>3, <1>6
  <2>2. o \in StoreBack(p.d, x) /\ p.d = Made(z, w, Span(z))
    BY <1>4, <2>1 DEF Leaves
  <2>3. \E y \in Rows : Leaves(o, Made(y, w, Span(y))) /\ Contents(y) = Contents(z) \o <<x>>
    <3> DEFINE e == p.d
    <3>1. RoomBehind(z) /\ e = Made(z, w, Span(z)) /\ o \in StoreBack(e, x)
      BY <2>1, <2>2
    <3> HIDE DEF e
    <3> QED BY <3>1, StoreBackGives
  <2> QED BY <2>1, <2>3 DEF Pushes
<1> QED BY <1>5, <1>6

(* The head of an outcome, marked.                                         *)
LEMMA MarkedOf ==
    ASSUME NEW z \in Seq(Chunk), z # << >>, NEW w, NEW i, NEW p, Leaves(p, Made(z, w, i))
    PROVE  Leaves(Marked(p), Made(Put(z, 1, AtHead(z[1])), w, i))
<1> DEFINE y == Put(z, 1, AtHead(z[1]))
           d == Made(z, w, i)
<1>1. Whole(d) /\ d.used = z /\ d.unused = w /\ d.nItems = i /\ d.nChunks = Len(z) + Len(w)
      /\ d.nUnused = Len(w)
  BY MadeOf
<1>2. Len(y) = Len(z)
  BY DEF Put
<1>3. p.ans = "true" /\ p.d = d /\ p = [ans |-> "true", d |-> d, list |-> << >>]
  BY DEF Leaves
<1> HIDE DEF d
<1>4. Marked(p) = [ans |-> "true", d |-> Hold(d, y, i), list |-> << >>]
  <2> DEFINE e == Hold(d, y, i)
  <2>1. Marked(p) = [p EXCEPT !.d = e]
    BY <1>1, <1>3 DEF Marked, Put
  <2> HIDE DEF e
  <2>2. [p EXCEPT !.d = e] = [ans |-> "true", d |-> e, list |-> << >>]
    BY <1>3
  <2> QED BY <2>1, <2>2 DEF e
<1> HIDE DEF y
<1>5. Hold(d, y, i) = Made(y, w, i)
  BY <1>1, <1>2, HoldOf DEF Made
<1> QED BY <1>4, <1>5 DEF Leaves, y

LEMMA AtHeadOf ==
    ASSUME NEW c \in Chunk
    PROVE  AtHead(c) \in Chunk /\ AtHead(c).nHead = nChunkSize /\ AtHead(c).nTail = nChunkSize
<1>1. nChunkSize \in 0..nChunkSize /\ c.vData \in [Slots -> Cell]
  BY Size, ChunkOf
<1> QED BY <1>1, AsChunk DEF AtHead

LEMMA MarkedFront ==
    ASSUME NEW u \in Seq(Chunk), NEW v \in Spares, NEW i, NEW d, d = Made(u, v, i),
           NEW o \in MarkHead(LinkFront(acquire_chunk(d))), ~Fails(o, d)
    PROVE  \E c \in Chunk, w \in Spares : /\ Leaves(o, Made(<<c>> \o u, w, i))
                                          /\ c.nHead = nChunkSize /\ c.nTail = nChunkSize
<1>1. PICK p \in LinkFront(acquire_chunk(d)) : o = Marked(p)
  BY DEF MarkHead
<1>2. ~Fails(p, d)
  <2> SUFFICES ASSUME Fails(p, d) PROVE FALSE
    OBVIOUS
  <2>1. p.ans = "false"
    BY DEF Fails
  <2>2. o = p
    BY <1>1, <2>1 DEF Marked
  <2> QED BY <2>2
<1>3. GrowsFront(p, u, i)
  BY <1>2, OneLinkedFront
<1>4. PICK a \in Chunk, w \in Spares : Leaves(p, Made(<<a>> \o u, w, i))
  BY <1>3 DEF GrowsFront
<1> DEFINE z == <<a>> \o u
           c == AtHead(a)
           y == Put(z, 1, c)
           x == <<c>> \o u
<1>5. z \in Seq(Chunk) /\ z # << >> /\ z[1] = a
  OBVIOUS
<1>6. c \in Chunk /\ c.nHead = nChunkSize /\ c.nTail = nChunkSize
  BY AtHeadOf
<1> HIDE DEF c
<1>7. y = x
  <2>1. Len(y) = Len(u) + 1 /\ y[1] = c /\ \A j \in 1..Len(u) : y[j + 1] = u[j]
    <3>1. Len(z) = Len(u) + 1 /\ \A j \in 1..Len(u) : z[j + 1] = u[j] /\ j + 1 \in DOMAIN z /\ j + 1 # 1
      OBVIOUS
    <3> HIDE DEF z
    <3>2. Len(y) = Len(z) /\ y[1] = c /\ \A j \in DOMAIN z : j # 1 => y[j] = z[j]
      BY <1>5, <1>6 DEF Put
    <3> HIDE DEF y
    <3> QED BY <3>1, <3>2
  <2>2. Len(x) = Len(u) + 1 /\ x[1] = c /\ \A j \in 1..Len(u) : x[j + 1] = u[j]
    BY <1>6
  <2>3. x \in Seq(Chunk) /\ y \in Seq(Chunk)
    BY <1>5, <1>6 DEF Put
  <2> HIDE DEF x, y
  <2>4. ASSUME NEW j \in 1..(Len(u) + 1) PROVE y[j] = x[j]
    <3>1. CASE j = 1
      BY <2>1, <2>2, <3>1
    <3>2. CASE j # 1
      <4>1. j - 1 \in 1..Len(u) /\ (j - 1) + 1 = j
        BY <3>2
      <4>2. y[(j - 1) + 1] = u[j - 1] /\ x[(j - 1) + 1] = u[j - 1]
        BY <2>1, <2>2, <4>1
      <4> QED BY <4>1, <4>2
    <3> QED BY <3>1, <3>2
  <2> QED BY <2>1, <2>2, <2>3, <2>4, SeqEqual
<1>8. Leaves(o, Made(y, w, i))
  <2>1. Leaves(p, Made(z, w, i))
    BY <1>4
  <2> HIDE DEF z
  <2>2. Leaves(o, Made(Put(z, 1, AtHead(z[1])), w, i))
    BY <1>1, <1>5, <2>1, MarkedOf
  <2> QED BY <1>5, <2>2 DEF c
<1> QED BY <1>6, <1>7, <1>8

LEMMA PushFrontGives ==
    ASSUME NEW u \in Rows, NEW v \in Spares, NEW d, d = Made(u, v, Span(u)),
           NEW x \in Values, NEW o \in push_front(d, x)
    PROVE  Pushes(o, d, <<x>> \o Contents(u))
<1> DEFINE head == IF d.used = << >> THEN MarkHead(LinkFront(acquire_chunk(d))) ELSE Done(d)
           room == UNION {IF p.ans = "true" /\ p.d.used[1].nHead <= 0
                          THEN MarkHead(LinkFront(acquire_chunk(p.d))) ELSE {p} : p \in head}
           Ready(p) == \/ Fails(p, d)
                       \/ \E z \in Seq(Chunk), w \in Spares :
                            /\ RoomBefore(z) /\ Contents(z) = Contents(u)
                            /\ Leaves(p, Made(z, w, Span(z)))
<1>1. /\ d.used = u /\ u \in Seq(Chunk) /\ Loose(u)
      /\ u # << >> => u[1] \in Chunk /\ u[Len(u)].nHead < u[Len(u)].nTail
  BY MadeOf, RowIsLoose
<1>2. ASSUME NEW p \in MarkHead(LinkFront(acquire_chunk(d))), u # << >> => u[1].nHead = 0
      PROVE  /\ Ready(p)
             /\ p.ans = "true" => p.d.used # << >> /\ p.d.used \in Seq(Chunk) /\ p.d.used[1].nHead > 0
  <2>1. CASE Fails(p, d)
    BY <2>1 DEF Fails
  <2>2. CASE ~Fails(p, d)
    <3>1. PICK c \in Chunk, w \in Spares : /\ Leaves(p, Made(<<c>> \o u, w, Span(u)))
                                           /\ c.nHead = nChunkSize /\ c.nTail = nChunkSize
      BY <1>1, <1>2, <2>2, MarkedFront
    <3> DEFINE z == <<c>> \o u
    <3>3. RoomBefore(z) /\ Span(z) = Span(u) /\ Contents(z) = Contents(u)
      BY <1>2, <3>1, EmptyBefore
    <3> HIDE DEF z
    <3>4. Leaves(p, Made(z, w, Span(z)))
      BY <3>1, <3>3 DEF z
    <3>5. p.d.used = z
      BY <3>4, MadeOf DEF Leaves
    <3>6. Ready(p)
      BY <3>3, <3>4 DEF RoomBefore
    <3> QED BY <3>3, <3>5, <3>6 DEF RoomBefore
  <2> QED BY <2>1, <2>2
<1>3. \A p \in room : Ready(p)
  <2>1. CASE u = << >>
    <3>1. head = MarkHead(LinkFront(acquire_chunk(d)))
      BY <1>1, <2>1
    <3>2. ASSUME NEW p \in head, p.ans = "true"
          PROVE  ~(p.d.used[1].nHead <= 0)
      <4>1. p.d.used # << >> /\ p.d.used \in Seq(Chunk) /\ p.d.used[1].nHead > 0
        BY <1>2, <2>1, <3>1, <3>2
      <4>2. p.d.used[1] \in Chunk
        BY <4>1
      <4> QED BY <4>1, <4>2, ChunkOf
    <3>3. room = head
      BY <3>2
    <3> QED BY <1>2, <2>1, <3>1, <3>3
  <2>2. CASE u # << >> /\ u[1].nHead <= 0
    <3>1. u[1].nHead = 0
      BY <1>1, <2>2, ChunkOf
    <3>2. room = MarkHead(LinkFront(acquire_chunk(d)))
      BY <1>1, <2>2 DEF Done, Acquired
    <3> QED BY <1>2, <3>1, <3>2
  <2>3. CASE u # << >> /\ ~(u[1].nHead <= 0)
    <3> DEFINE p == [ans |-> "true", d |-> d, list |-> << >>]
    <3>1. room = {p}
      BY <1>1, <2>3 DEF Done, Acquired
    <3>2. RoomBefore(u)
      BY <1>1, <2>3, ChunkOf DEF RoomBefore
    <3>3. Leaves(p, Made(u, v, Span(u)))
      BY DEF Leaves
    <3> HIDE DEF p
    <3>4. Ready(p)
      BY <1>1, <3>2, <3>3
    <3> QED BY <3>1, <3>4
  <2> QED BY <2>1, <2>2, <2>3
<1>4. PICK p \in room : o \in IF p.ans = "true" THEN StoreFront(p.d, x) ELSE {p}
  BY DEF push_front
<1> HIDE DEF room, head
<1>5. CASE Fails(p, d)
  <2>1. o = p
    BY <1>4, <1>5 DEF Fails
  <2> QED BY <1>5, <2>1 DEF Pushes
<1>6. CASE ~Fails(p, d)
  <2>1. PICK z \in Seq(Chunk), w \in Spares : /\ RoomBefore(z) /\ Contents(z) = Contents(u)
                                              /\ Leaves(p, Made(z, w, Span(z)))
    BY <1>3, <1>6
  <2>2. o \in StoreFront(p.d, x) /\ p.d = Made(z, w, Span(z))
    BY <1>4, <2>1 DEF Leaves
  <2>3. \E y \in Rows : Leaves(o, Made(y, w, Span(y))) /\ Contents(y) = <<x>> \o Contents(z)
    BY <2>1, <2>2, StoreFrontGives
  <2> QED BY <2>1, <2>3 DEF Pushes
<1> QED BY <1>5, <1>6

-----------------------------------------------------------------------------
(* Extraction.                                                             *)

LEMMA Slice ==
    ASSUME NEW T, NEW s \in Seq(T), NEW a \in 1..(Len(s) + 1), NEW b \in (a - 1)..Len(s)
    PROVE  /\ SubSeq(s, a, b) \in Seq(T) /\ Len(SubSeq(s, a, b)) = b - a + 1
           /\ \A i \in 1..(b - a + 1) : SubSeq(s, a, b)[i] = s[a + i - 1]
  OBVIOUS

(* A chunk with its elements narrowed down has what is left of them.       *)
LEMMA NarrowOf ==
    ASSUME NEW a \in Chunk, NEW h \in 0..nChunkSize, NEW t \in 0..nChunkSize
    PROVE  /\ Narrow(a, h, t) \in Chunk /\ Narrow(a, h, t).nHead = h /\ Narrow(a, h, t).nTail = t
           /\ \A i \in Slots : h <= i /\ i < t => Narrow(a, h, t).vData[i] = a.vData[i]
<1> DEFINE f == [i \in Slots |-> IF h <= i /\ i < t THEN a.vData[i] ELSE Junk]
<1>1. f \in [Slots -> Cell]
  BY ChunkOf DEF Cell
<1>2. \A i \in Slots : h <= i /\ i < t => f[i] = a.vData[i]
  OBVIOUS
<1>3. Narrow(a, h, t) = [nHead |-> h, nTail |-> t, vData |-> f]
  BY DEF Narrow
<1> HIDE DEF f
<1> QED BY <1>1, <1>2, <1>3, AsChunk

LEMMA NarrowHead ==
    ASSUME NEW a \in Chunk, a.nHead < a.nTail, NEW m \in 1..(a.nTail - a.nHead),
           NEW c, c = Narrow(a, a.nHead + m, a.nTail)
    PROVE  /\ c \in Chunk /\ c.nHead = a.nHead + m /\ c.nTail = a.nTail
           /\ SubSeq(Elements(a), 1, m) \in Seq(Cell) /\ Len(SubSeq(Elements(a), 1, m)) = m
           /\ Elements(a) = SubSeq(Elements(a), 1, m) \o Elements(c)
<1> DEFINE e == Elements(a)
           part == SubSeq(e, 1, m)
           h == a.nHead
           t == a.nTail
<1>1. h \in Int /\ 0 <= h /\ t \in Int /\ t <= nChunkSize /\ h < t /\ m \in Int /\ 1 <= m /\ h + m <= t
      /\ nChunkSize \in Int
  BY ChunkOf, Size
<1>2. h + m \in 0..nChunkSize /\ t \in 0..nChunkSize
  BY <1>1
<1>3. /\ c \in Chunk /\ c.nHead = h + m /\ c.nTail = t
      /\ \A i \in Slots : h + m <= i /\ i < t => c.vData[i] = a.vData[i]
  BY <1>2, NarrowOf
<1>4. e \in Seq(Cell) /\ Len(e) = t - h /\ \A i \in 1..(t - h) : e[i] = a.vData[h + i - 1]
  BY <1>1, ElementsOf
<1> HIDE DEF e
<1>5. part \in Seq(Cell) /\ Len(part) = m /\ \A i \in 1..m : part[i] = e[i]
  <2>1. m \in 0..Len(e) /\ Len(e) \in Nat
    BY <1>1, <1>4
  <2> QED BY <1>1, <1>4, <2>1
<1> HIDE DEF part
<1>6. \A i \in 1..Len(part) : a.vData[a.nHead + i - 1] = part[i]
  <2>1. \A i \in 1..m : i \in 1..(t - h)
    BY <1>1
  <2> QED BY <1>4, <1>5, <2>1
<1>7. /\ c.nHead <= c.nTail /\ a.nTail = c.nTail /\ a.nHead = c.nHead - Len(part)
  BY <1>1, <1>3, <1>5
<1>8. \A i \in Slots : i >= c.nHead /\ i < c.nTail => a.vData[i] = c.vData[i]
  <2>1. \A i \in Slots : i \in Int
    BY DEF Slots
  <2> QED BY <1>1, <1>3, <2>1
<1> HIDE DEF h, t
<1>9. Elements(a) = part \o Elements(c)
  BY <1>3, <1>5, <1>6, <1>7, <1>8, ElementsBefore
<1> QED BY <1>3, <1>5, <1>9 DEF h, t, part, e

(* The last m elements of a list.                                          *)
LastOf(e, m) == SubSeq(e, Len(e) - m + 1, Len(e))

(* The chunk without them.                                                 *)
Shortened(a, m) == Narrow(a, a.nHead, a.nTail - m)

LEMMA NarrowTail ==
    ASSUME NEW a \in Chunk, a.nHead < a.nTail, NEW m \in 1..(a.nTail - a.nHead)
    PROVE  /\ Shortened(a, m) \in Chunk
           /\ Shortened(a, m).nHead = a.nHead /\ Shortened(a, m).nTail = a.nTail - m
           /\ LastOf(Elements(a), m) \in Seq(Cell) /\ Len(LastOf(Elements(a), m)) = m
           /\ Elements(a) = Elements(Shortened(a, m)) \o LastOf(Elements(a), m)
<1> DEFINE c == Shortened(a, m)
           e == Elements(a)
           part == LastOf(e, m)
           h == a.nHead
           t == a.nTail
<1>1. h \in Int /\ 0 <= h /\ t \in Int /\ t <= nChunkSize /\ h < t /\ m \in Int /\ 1 <= m /\ h + m <= t
      /\ nChunkSize \in Int
  BY ChunkOf, Size
<1>2. h \in 0..nChunkSize /\ t - m \in 0..nChunkSize
  BY <1>1
<1>3. /\ c \in Chunk /\ c.nHead = h /\ c.nTail = t - m
      /\ \A i \in Slots : h <= i /\ i < t - m => c.vData[i] = a.vData[i]
  BY <1>2, NarrowOf DEF Shortened
<1>4. e \in Seq(Cell) /\ Len(e) = t - h
      /\ \A i \in 1..(t - h) : e[i] = a.vData[h + i - 1] /\ h + i - 1 \in Slots
  BY <1>1, ElementsOf
<1> HIDE DEF e
<1>5. part \in Seq(Cell) /\ Len(part) = m /\ \A i \in 1..m : part[i] = e[(t - h) - m + i]
  <2> DEFINE n == Len(e)
             from == n - m + 1
  <2>0. n = t - h
    BY <1>4
  <2> HIDE DEF n, h, t
  <2>1. from \in 1..(n + 1) /\ n \in (from - 1)..n /\ n = t - h /\ n - from + 1 = m
    BY <1>1, <2>0
  <2>2. \A i \in 1..m : from + i - 1 = (t - h) - m + i
    BY <1>1, <2>1
  <2>3. e \in Seq(Cell)
    BY <1>4
  <2> HIDE DEF from
  <2>4. /\ SubSeq(e, from, n) \in Seq(Cell) /\ Len(SubSeq(e, from, n)) = n - from + 1
        /\ \A i \in 1..(n - from + 1) : SubSeq(e, from, n)[i] = e[from + i - 1]
    BY <2>1, <2>3, Slice DEF n
  <2>5. part = SubSeq(e, from, n)
    BY DEF from, n, part, LastOf
  <2> HIDE DEF part
  <2> QED BY <2>1, <2>2, <2>4, <2>5
<1> HIDE DEF part
<1>6. \A i \in 1..Len(part) : a.vData[c.nTail + i - 1] = part[i]
  <2> TAKE i \in 1..Len(part)
  <2>1. i \in Int /\ 1 <= i /\ i <= m
    BY <1>1, <1>5
  <2> HIDE DEF h, t
  <2>2. (t - h) - m + i \in 1..(t - h) /\ h + ((t - h) - m + i) - 1 = (t - m) + i - 1
    BY <1>1, <2>1
  <2>3. e[(t - h) - m + i] = a.vData[h + ((t - h) - m + i) - 1]
    BY <1>4, <2>2
  <2>4. part[i] = e[(t - h) - m + i]
    BY <1>5
  <2> QED BY <1>3, <2>2, <2>3, <2>4
<1>7. /\ c.nHead <= c.nTail /\ a.nHead = c.nHead /\ a.nTail = c.nTail + Len(part)
  <2>1. h <= t - m /\ t = (t - m) + m
    BY <1>1
  <2> QED BY <1>3, <1>5, <2>1
<1> HIDE DEF h, t
<1>8. \A i \in Slots : i >= c.nHead /\ i < c.nTail => a.vData[i] = c.vData[i]
  <2>1. \A i \in Slots : i \in Int
    BY DEF Slots
  <2> QED BY <1>1, <1>3, <2>1
<1>9. Elements(a) = Elements(c) \o part
  BY <1>3, <1>5, <1>6, <1>7, <1>8, ElementsBehind
<1> QED BY <1>3, <1>5, <1>9 DEF h, t, part, e

(* A row without its first chunk, or without its last one.                 *)
LEMMA TailIsRow ==
    ASSUME NEW u \in Rows, u # << >>
    PROVE  /\ Tail(u) \in Rows /\ Len(Tail(u)) = Len(u) - 1
           /\ Contents(u) = Elements(u[1]) \o Contents(Tail(u))
<1> DEFINE y == Tail(u)
           one == <<u[1]>>
           q == Contents(y)
           none == << >>
<1>1. u \in Seq(Chunk) /\ Len(u) \in Nat \ {0} /\ u[1] \in Chunk
  BY RowIsLoose
<1>2. /\ y \in Seq(Chunk) /\ Len(y) = Len(u) - 1
      /\ \A i \in DOMAIN y : i \in 1..Len(y) /\ i + 1 \in DOMAIN u /\ y[i] = u[i + 1]
  BY <1>1
<1>3. Gapless(y)
  <2> HIDE DEF y
  <2> SUFFICES ASSUME NEW i \in DOMAIN y
               PROVE  /\ y[i].nHead < y[i].nTail
                      /\ i > 1 => y[i].nHead = 0
                      /\ i < Len(y) => y[i].nTail = nChunkSize
    BY DEF Gapless
  <2>1. i \in 1..Len(y) /\ i + 1 \in DOMAIN u /\ y[i] = u[i + 1]
    BY <1>2
  <2>2. i + 1 > 1 /\ (i < Len(y) => i + 1 < Len(u))
    BY <1>1, <1>2, <2>1
  <2> QED BY <2>1, <2>2 DEF Gapless, Rows
<1>4. one \in Seq(Chunk) /\ Len(one) = 1 /\ one[1] = u[1]
  BY <1>1
<1>5. u = one \o y
  <2>1. one \o y \in Seq(Chunk) /\ Len(one \o y) = Len(u)
    BY <1>1, <1>2, <1>4
  <2>2. \A i \in 1..Len(u) : (one \o y)[i] = u[i]
    BY <1>1
  <2> HIDE DEF one, y
  <2> QED BY <1>1, <2>1, <2>2, SeqEqual
<1>6. Contents(one) = Elements(u[1])
  BY <1>1, ContentsOne
<1> HIDE DEF y, one
<1>7. Contents(one \o y) = Contents(one) \o Contents(y)
  BY <1>2, <1>4, ContentsAppend
<1> QED BY <1>2, <1>3, <1>5, <1>6, <1>7 DEF Rows, y

LEMMA FrontIsRow ==
    ASSUME NEW u \in Rows, u # << >>
    PROVE  /\ Front(u) \in Rows /\ Len(Front(u)) = Len(u) - 1
           /\ Contents(u) = Contents(Front(u)) \o Elements(u[Len(u)])
<1> DEFINE y == Front(u)
           k == Len(u)
           one == <<u[k]>>
<1>1. u \in Seq(Chunk) /\ k \in Nat \ {0} /\ u[k] \in Chunk
  BY RowIsLoose
<1>2. /\ y \in Seq(Chunk) /\ Len(y) = k - 1
      /\ \A i \in DOMAIN y : i \in 1..Len(y) /\ i \in DOMAIN u /\ y[i] = u[i]
  <2> DEFINE l == k - 1
  <2>1. 1 \in 1..(Len(u) + 1) /\ l \in (1 - 1)..Len(u) /\ l - 1 + 1 = k - 1 /\ l = k - 1
    BY <1>1
  <2>2. y = SubSeq(u, 1, l)
    BY DEF Front
  <2> HIDE DEF l, y
  <2>3. /\ y \in Seq(Chunk) /\ Len(y) = l - 1 + 1
        /\ \A i \in 1..(l - 1 + 1) : y[i] = u[1 + i - 1]
    BY <1>1, <2>1, <2>2, Slice
  <2>4. \A i \in DOMAIN y : i \in 1..Len(y) /\ i \in 1..Len(u) /\ 1 + i - 1 = i
    BY <1>1, <2>1, <2>3
  <2>5. \A i \in DOMAIN y : y[i] = u[i]
    BY <2>1, <2>3, <2>4
  <2> QED BY <2>1, <2>3, <2>4, <2>5
<1>3. Gapless(y)
  <2> HIDE DEF y
  <2> SUFFICES ASSUME NEW i \in DOMAIN y
               PROVE  /\ y[i].nHead < y[i].nTail
                      /\ i > 1 => y[i].nHead = 0
                      /\ i < Len(y) => y[i].nTail = nChunkSize
    BY DEF Gapless
  <2>1. i \in 1..Len(y) /\ i \in DOMAIN u /\ y[i] = u[i]
    BY <1>2
  <2>2. i < Len(y) => i < Len(u)
    BY <1>1, <1>2, <2>1
  <2> QED BY <2>1, <2>2 DEF Gapless, Rows
<1>4. one \in Seq(Chunk) /\ Len(one) = 1 /\ one[1] = u[k]
  BY <1>1
<1>5. u = y \o one
  <2> HIDE DEF one, y
  <2>1. y \o one \in Seq(Chunk) /\ Len(y \o one) = Len(u)
    <3>1. y \in Seq(Chunk) /\ one \in Seq(Chunk)
      BY <1>2, <1>4
    <3>2. y \o one \in Seq(Chunk) /\ Len(y \o one) = Len(y) + Len(one)
      BY <3>1, Joined
    <3> QED BY <1>1, <1>2, <1>4, <3>2
  <2>3. /\ \A i \in 1..Len(y) : (y \o one)[i] = y[i]
        /\ \A i \in 1..Len(one) : (y \o one)[Len(y) + i] = one[i]
    <3>1. y \in Seq(Chunk) /\ one \in Seq(Chunk)
      BY <1>2, <1>4
    <3> QED BY <3>1, Joined
  <2>2. ASSUME NEW i \in 1..Len(u) PROVE (y \o one)[i] = u[i]
    <3>1. CASE i < k
      <4>1. i \in 1..Len(y) /\ i \in DOMAIN y
        BY <1>1, <1>2, <3>1
      <4> QED BY <1>2, <2>3, <4>1
    <3>2. CASE i = k
      <4>1. (y \o one)[Len(y) + 1] = one[1] /\ Len(y) + 1 = k
        <5>1. 1 \in 1..Len(one)
          BY <1>4
        <5>2. (y \o one)[Len(y) + 1] = one[1]
          BY <2>3, <5>1
        <5> QED BY <1>1, <1>2, <5>2
      <4>2. i = Len(y) + 1 /\ u[i] = one[1]
        BY <1>4, <3>2, <4>1
      <4> QED BY <4>1, <4>2
    <3>3. i < k \/ i = k
      BY <1>1
    <3> QED BY <3>1, <3>2, <3>3
  <2> QED BY <1>1, <2>1, <2>2, SeqEqual
<1>6. Contents(one) = Elements(u[k])
  BY <1>1, ContentsOne
<1> HIDE DEF y, one
<1>7. Contents(y \o one) = Contents(y) \o Contents(one)
  BY <1>2, <1>4, ContentsAppend
<1> QED BY <1>2, <1>3, <1>5, <1>6, <1>7 DEF Rows, y

(* An empty chunk, set aside before the others.                            *)
LEMMA Released ==
    ASSUME NEW u, NEW v \in Spares, NEW i, NEW j, NEW d, d = Fields(u, v, i, j, Len(v)),
           j = Len(u) + Len(v) + 1, NEW c \in Chunk, Len(u) \in Nat
    PROVE  \E w \in Spares : release_chunk(d, c) = Made(u, w, i)
<1> DEFINE a == [nHead |-> 0, nTail |-> 0, vData |-> c.vData]
           w == <<a>> \o v
<1>1. a \in Chunk /\ a.nHead = 0
  <2>1. 0 \in 0..nChunkSize
    BY Size
  <2> QED BY <2>1, ChunkOf, AsChunk
<1> HIDE DEF a
<1>2. v \in Seq(Chunk) /\ \A k \in DOMAIN v : v[k].nTail = 0 => v[k].nHead = 0
  BY DEF Spares, Spare
<1>3. /\ w \in Seq(Chunk) /\ Len(w) = Len(v) + 1
      /\ \A k \in DOMAIN w : w[k] = a \/ \E l \in DOMAIN v : w[k] = v[l]
  BY <1>1, <1>2
<1> HIDE DEF w
<1>4. w \in Spares
  BY <1>1, <1>2, <1>3 DEF Spares, Spare
<1>5. Len(u) + Len(v) + 1 = Len(u) + Len(w)
  BY <1>2, <1>3
<1>6. release_chunk(d, c) = SetAside(d, w, Len(w))
  <2>1. d.unused = v /\ d.nUnused = Len(v)
    BY FieldsOf
  <2> QED BY <1>3, <2>1 DEF release_chunk, w, a
<1>7. SetAside(d, w, Len(w)) = Fields(u, w, i, j, Len(w))
  BY FieldsOf, SetAsideOf
<1> QED BY <1>4, <1>5, <1>6, <1>7 DEF Made

LEMMA PutBack ==
    ASSUME NEW T, NEW u \in Seq(T), NEW k \in 1..Len(u), NEW c \in T
    PROVE  u = [Put(u, k, c) EXCEPT ![k] = u[k]]
<1> DEFINE y == Put(u, k, c)
           x == [y EXCEPT ![k] = u[k]]
<1>1. y \in Seq(T) /\ Len(y) = Len(u) /\ \A i \in 1..Len(u) : i # k => y[i] = u[i]
  BY DEF Put
<1> HIDE DEF y
<1>2. x \in Seq(T) /\ Len(x) = Len(u) /\ \A i \in 1..Len(u) : x[i] = u[i]
  BY <1>1
<1> HIDE DEF x
<1>3. u = x
  BY <1>2, SeqEqual
<1> QED BY <1>3 DEF x, y

(* A row whose first chunk, or whose last one, has lost some elements.     *)
LEMMA HeadIsRow ==
    ASSUME NEW u \in Rows, u # << >>, NEW c \in Chunk, c.nHead < c.nTail, c.nTail = u[1].nTail,
           NEW y, y = Put(u, 1, c)
    PROVE  y \in Rows /\ Len(y) = Len(u) /\ y[1] = c /\ y # << >>
<1>1. u \in Seq(Chunk) /\ Len(u) \in Nat \ {0} /\ 1 \in DOMAIN u
  BY RowIsLoose
<1>2. /\ y \in Seq(Chunk) /\ Len(y) = Len(u) /\ y[1] = c
      /\ \A i \in DOMAIN y : i \in DOMAIN u /\ (i # 1 => y[i] = u[i])
  BY <1>1 DEF Put
<1>3. Gapless(y)
  <2> SUFFICES ASSUME NEW i \in DOMAIN y
               PROVE  /\ y[i].nHead < y[i].nTail
                      /\ i > 1 => y[i].nHead = 0
                      /\ i < Len(y) => y[i].nTail = nChunkSize
    BY DEF Gapless
  <2>1. i \in DOMAIN u /\ (i # 1 => y[i] = u[i])
    BY <1>2
  <2>2. CASE i = 1
    BY <1>2, <2>1, <2>2 DEF Gapless, Rows
  <2>3. CASE i # 1
    BY <1>2, <2>1, <2>3 DEF Gapless, Rows
  <2> QED BY <2>2, <2>3
<1> QED BY <1>1, <1>2, <1>3 DEF Rows

LEMMA LastIsRow ==
    ASSUME NEW u \in Rows, u # << >>, NEW c \in Chunk, c.nHead < c.nTail, c.nHead = u[Len(u)].nHead,
           NEW y, y = Put(u, Len(u), c)
    PROVE  y \in Rows /\ Len(y) = Len(u) /\ y[Len(u)] = c /\ y # << >>
<1>1. u \in Seq(Chunk) /\ Len(u) \in Nat \ {0} /\ Len(u) \in DOMAIN u
  <2>1. u \in Seq(Chunk) /\ Len(u) \in Nat \ {0}
    BY RowIsLoose
  <2> QED BY <2>1
<1>2. /\ y \in Seq(Chunk) /\ Len(y) = Len(u) /\ y[Len(u)] = c
      /\ \A i \in DOMAIN y : i \in DOMAIN u /\ (i # Len(u) => y[i] = u[i])
  BY <1>1 DEF Put
<1>3. Gapless(y)
  <2> SUFFICES ASSUME NEW i \in DOMAIN y
               PROVE  /\ y[i].nHead < y[i].nTail
                      /\ i > 1 => y[i].nHead = 0
                      /\ i < Len(y) => y[i].nTail = nChunkSize
    BY DEF Gapless
  <2>1. i \in DOMAIN u /\ (i # Len(u) => y[i] = u[i])
    BY <1>2
  <2>2. CASE i = Len(u)
    BY <1>2, <2>1, <2>2 DEF Gapless, Rows
  <2>3. CASE i # Len(u)
    BY <1>2, <2>1, <2>3 DEF Gapless, Rows
  <2> QED BY <2>2, <2>3
<1> QED BY <1>1, <1>2, <1>3 DEF Rows

(* m elements out of the first chunk, or out of the last one.              *)
HeadOff(e, u, i, m) ==
    \E y \in Rows, w \in Spares :
        /\ e = Made(y, w, i)
        /\ Contents(u) = SubSeq(Elements(u[1]), 1, m) \o Contents(y)
        /\ m = u[1].nTail - u[1].nHead => Len(y) = Len(u) - 1

TailOff(e, u, i, m) ==
    \E y \in Rows, w \in Spares :
        /\ e = Made(y, w, i)
        /\ Contents(u) = Contents(y) \o LastOf(Elements(u[Len(u)]), m)
        /\ m = u[Len(u)].nTail - u[Len(u)].nHead => Len(y) = Len(u) - 1

LEMMA NewHeadGives ==
    ASSUME NEW u \in Rows, u # << >>, NEW v \in Spares, NEW i, NEW d, d = Made(u, v, i),
           NEW m \in 1..(u[1].nTail - u[1].nHead)
    PROVE  HeadOff(NewHead(d, Narrow(u[1], u[1].nHead + m, u[1].nTail)), u, i, m)
<1> DEFINE a == u[1]
           c == Narrow(a, a.nHead + m, a.nTail)
<1> SUFFICES HeadOff(NewHead(d, c), u, i, m)
  OBVIOUS
<1>1. /\ Whole(d) /\ d.used = u /\ d.unused = v /\ d.nItems = i
      /\ d.nChunks = Len(u) + Len(v) /\ d.nUnused = Len(v)
  BY MadeOf
<1>2. u \in Seq(Chunk) /\ a \in Chunk /\ a.nHead < a.nTail /\ Len(u) \in Nat \ {0}
  BY RowIsLoose
<1> DEFINE part == SubSeq(Elements(a), 1, m)
<1>3. /\ c \in Chunk /\ c.nHead = a.nHead + m /\ c.nTail = a.nTail
      /\ part \in Seq(Cell) /\ Elements(a) = part \o Elements(c)
  <2>1. c = Narrow(a, a.nHead + m, a.nTail) /\ m \in 1..(a.nTail - a.nHead)
    OBVIOUS
  <2> HIDE DEF a, c
  <2> QED BY <1>2, <2>1, NarrowHead
<1>4. a.nHead \in Int /\ a.nTail \in Int /\ m \in Int /\ c.nHead \in Int /\ c.nTail \in Int
  BY <1>2, <1>3, ChunkOf
<1> HIDE DEF part
<1>5. CASE c.nHead < c.nTail
  <2> DEFINE y == Put(u, 1, c)
  <2>1. y \in Rows /\ Len(y) = Len(u) /\ y[1] = c /\ y # << >> /\ y \in Seq(Chunk)
    BY <1>3, <1>5, HeadIsRow DEF Rows
  <2>2. u = [y EXCEPT ![1] = a]
    <3>1. 1 \in 1..Len(u)
      BY <1>2
    <3> QED BY <1>2, <1>3, <3>1, PutBack
  <2> HIDE DEF y
  <2>3. Contents(u) = part \o Contents(y)
    BY <1>2, <1>3, <2>1, <2>2, ContentsFirst
  <2>4. NewHead(d, c) = Hold(d, y, i)
    BY <1>1, <1>5 DEF NewHead, y, Put
  <2>5. Hold(d, y, i) = Made(y, v, i)
    BY <1>1, <2>1, HoldOf DEF Made
  <2>6. m # a.nTail - a.nHead
    BY <1>3, <1>4, <1>5
  <2> QED BY <2>1, <2>3, <2>4, <2>5, <2>6 DEF part, HeadOff
<1>6. CASE ~(c.nHead < c.nTail)
  <2> DEFINE y == Tail(u)
             j == Len(u) + Len(v)
             e == Hold(d, y, i)
  <2>1. y \in Rows /\ Len(y) = Len(u) - 1 /\ Contents(u) = Elements(a) \o Contents(y)
    BY TailIsRow
  <2>2. Elements(c) = << >>
    BY <1>3, <1>4, <1>6, ElementsOf
  <2>3. Elements(a) = part
    <3>1. part \o << >> = part
      BY <1>3
    <3> QED BY <1>3, <2>2, <3>1
  <2>4. NewHead(d, c) = release_chunk(e, c)
    BY <1>1, <1>6 DEF NewHead
  <2>5. Len(y) \in Nat /\ j = Len(y) + Len(v) + 1
    BY <1>2, <2>1 DEF Spares
  <2> HIDE DEF y, j
  <2>6. e = Fields(y, v, i, j, Len(v))
    BY <1>1, HoldOf DEF j
  <2> HIDE DEF e
  <2>7. \E w \in Spares : release_chunk(e, c) = Made(y, w, i)
    BY <1>3, <2>5, <2>6, Released
  <2> QED BY <2>1, <2>3, <2>4, <2>7 DEF part, HeadOff
<1> QED BY <1>5, <1>6

LEMMA NewTailGives ==
    ASSUME NEW u \in Rows, u # << >>, NEW v \in Spares, NEW i, NEW d, d = Made(u, v, i),
           NEW m \in 1..(u[Len(u)].nTail - u[Len(u)].nHead)
    PROVE  TailOff(NewTail(d, Shortened(u[Len(u)], m)), u, i, m)
<1> DEFINE a == u[Len(u)]
           c == Shortened(a, m)
<1> SUFFICES TailOff(NewTail(d, c), u, i, m)
  OBVIOUS
<1>1. /\ Whole(d) /\ d.used = u /\ d.unused = v /\ d.nItems = i
      /\ d.nChunks = Len(u) + Len(v) /\ d.nUnused = Len(v)
  BY MadeOf
<1>2. u \in Seq(Chunk) /\ a \in Chunk /\ a.nHead < a.nTail /\ Len(u) \in Nat \ {0}
  BY RowIsLoose
<1> DEFINE part == LastOf(Elements(a), m)
           k == Len(u)
<1>3. /\ c \in Chunk /\ c.nHead = a.nHead /\ c.nTail = a.nTail - m
      /\ part \in Seq(Cell) /\ Elements(a) = Elements(c) \o part
  <2>1. /\ Shortened(a, m) \in Chunk
        /\ Shortened(a, m).nHead = a.nHead /\ Shortened(a, m).nTail = a.nTail - m
        /\ LastOf(Elements(a), m) \in Seq(Cell)
        /\ Elements(a) = Elements(Shortened(a, m)) \o LastOf(Elements(a), m)
    BY <1>2, NarrowTail
  <2> QED BY <2>1
<1>4. a.nHead \in Int /\ a.nTail \in Int /\ m \in Int /\ c.nHead \in Int /\ c.nTail \in Int
  BY <1>2, <1>3, ChunkOf
<1> HIDE DEF part
<1>5. CASE c.nHead < c.nTail
  <2> DEFINE y == Put(u, k, c)
  <2>1. y \in Rows /\ Len(y) = Len(u) /\ y[k] = c /\ y # << >> /\ y \in Seq(Chunk)
    BY <1>3, <1>5, LastIsRow DEF Rows
  <2>2. u = [y EXCEPT ![k] = a]
    <3>1. k \in 1..Len(u)
      BY <1>2
    <3> QED BY <1>2, <1>3, <3>1, PutBack
  <2> HIDE DEF y
  <2>3. Contents(u) = Contents(y) \o part
    <3>1. Len(y) = k /\ y[Len(y)] = c /\ u = [y EXCEPT ![Len(y)] = a]
      BY <2>1, <2>2
    <3>2. Elements(a) = Elements(y[Len(y)]) \o part
      BY <1>3, <3>1
    <3> HIDE DEF k
    <3>3. part \in Seq(Cell) /\ a \in Chunk /\ y \in Seq(Chunk) /\ y # << >>
      BY <1>2, <1>3, <2>1
    <3> QED BY <3>1, <3>2, <3>3, ContentsLast, Zenon
  <2>7. c.nTail > c.nHead
    BY <1>4, <1>5
  <2>4. NewTail(d, c) = Hold(d, y, i)
    BY <1>1, <2>7 DEF NewTail, y, Put
  <2>5. Hold(d, y, i) = Made(y, v, i)
    BY <1>1, <2>1, HoldOf DEF Made
  <2>6. m # a.nTail - a.nHead
    BY <1>3, <1>4, <1>5
  <2> QED BY <2>1, <2>3, <2>4, <2>5, <2>6 DEF part, TailOff
<1>6. CASE ~(c.nHead < c.nTail)
  <2> DEFINE y == Front(u)
             j == Len(u) + Len(v)
             f == Hold(d, y, i)
  <2>1. y \in Rows /\ Len(y) = Len(u) - 1 /\ Contents(u) = Contents(y) \o Elements(a)
    BY FrontIsRow
  <2>2. Elements(c) = << >>
    BY <1>3, <1>4, <1>6, ElementsOf
  <2>3. Elements(a) = part
    <3>1. << >> \o part = part
      BY <1>3
    <3> QED BY <1>3, <2>2, <3>1
  <2>4. NewTail(d, c) = release_chunk(f, c)
    <3>1. ~(c.nTail > c.nHead)
      BY <1>4, <1>6
    <3> QED BY <1>1, <3>1 DEF NewTail
  <2>5. Len(y) \in Nat /\ j = Len(y) + Len(v) + 1
    BY <1>2, <2>1 DEF Spares
  <2> HIDE DEF y, j
  <2>6. f = Fields(y, v, i, j, Len(v))
    BY <1>1, HoldOf DEF j
  <2> HIDE DEF f
  <2>7. \E w \in Spares : release_chunk(f, c) = Made(y, w, i)
    BY <1>3, <2>5, <2>6, Released
  <2> QED BY <2>1, <2>3, <2>4, <2>7 DEF part, TailOff
<1> QED BY <1>5, <1>6

(* What an extraction has come to: elements of the deque, read off its front
   or off its back, and what is left of it; nItems is still i.             *)
Results(i) == {Read(Made(y, w, i), s) : y \in Rows, w \in Spares, s \in Seq(Cell)}

OffFront(u, i, n) ==
    {r \in Results(i) : Contents(u) = r.read \o Contents(r.d.used) /\ Len(r.read) <= n}

OffBack(u, i, n) ==
    {r \in Results(i) : Contents(u) = Contents(r.d.used) \o r.read /\ Len(r.read) <= n}

LEMMA ResultsOf ==
    ASSUME NEW i, NEW r \in Results(i)
    PROVE  \E w \in Spares : /\ r.d = Made(r.d.used, w, i) /\ r.d.used \in Rows /\ r.read \in Seq(Cell)
                             /\ r = Read(r.d, r.read) /\ r.d.unused = w
<1>1. PICK y \in Rows, w \in Spares, s \in Seq(Cell) : r = Read(Made(y, w, i), s)
  BY DEF Results
<1>2. r.d = Made(y, w, i) /\ r.read = s
  BY <1>1 DEF Read
<1>3. r.d.used = y /\ r.d.unused = w
  BY <1>2, MadeOf
<1> QED BY <1>1, <1>2, <1>3

LEMMA ResultIs ==
    ASSUME NEW i, NEW y \in Rows, NEW w \in Spares, NEW s \in Seq(Cell), NEW d, d = Made(y, w, i)
    PROVE  Read(d, s) \in Results(i) /\ Read(d, s).d = d /\ d.used = y /\ Read(d, s).read = s
<1>1. Read(d, s) \in Results(i)
  BY DEF Results
<1>2. d.used = y
  BY MadeOf
<1> QED BY <1>1, <1>2 DEF Read

LEMMA Associative ==
    ASSUME NEW T, NEW a \in Seq(T), NEW b \in Seq(T), NEW c \in Seq(T)
    PROVE  (a \o b) \o c = a \o (b \o c)
  OBVIOUS

(* More than a chunk has is left as long as the chunks have elements.      *)
LEMMA RowHasElements ==
    ASSUME NEW y \in Rows, NEW s \in Seq(Cell), NEW n \in Nat, NEW t \in Seq(Cell),
           t = s \o Contents(y) \/ t = Contents(y) \o s, Len(s) < n, n <= Len(t)
    PROVE  y # << >>
<1> SUFFICES ASSUME y = << >> PROVE FALSE
  OBVIOUS
<1>1. Contents(y) = << >>
  BY ContentsEmpty
<1>2. t = s
  BY <1>1
<1> QED BY <1>2

LEMMA TakeHeadGives ==
    ASSUME NEW u \in Rows, NEW i, NEW n \in Nat, n <= Len(Contents(u)), NEW r \in OffFront(u, i, n)
    PROVE  /\ TakeHead(r, n - Len(r.read)) \in OffFront(u, i, n)
           /\ \/ Len(TakeHead(r, n - Len(r.read)).read) = n
              \/ Len(TakeHead(r, n - Len(r.read)).d.used) = Len(r.d.used) - 1
<1> DEFINE y == r.d.used
           s == r.read
           left == n - Len(s)
           a == y[1]
           m == MinOf(left, a.nTail - a.nHead)
           c == Narrow(a, a.nHead + m, a.nTail)
           part == SubSeq(Elements(a), 1, m)
<1>1. PICK w \in Spares : r.d = Made(y, w, i) /\ y \in Rows /\ s \in Seq(Cell)
  BY ResultsOf DEF OffFront
<1>2. Contents(u) = s \o Contents(y) /\ Len(s) <= n /\ Len(s) \in Nat
  <2>1. Contents(u) = s \o Contents(y) /\ Len(s) <= n
    BY DEF OffFront
  <2>2. Len(s) \in Nat
    BY <1>1
  <2> QED BY <2>1, <2>2
<1>3. left \in Int /\ left >= 0 /\ (left = 0 <=> Len(s) = n)
  BY <1>2
<1>4. CASE left = 0
  BY <1>3, <1>4 DEF TakeHead
<1>5. CASE left # 0
  <2>1. Contents(u) \in Seq(Cell)
    BY RowIsLoose, SpanIsLength
  <2>2. y # << >>
    <3>1. Len(s) < n
      BY <1>2, <1>3, <1>5
    <3> DEFINE t == Contents(u)
    <3>2. t \in Seq(Cell) /\ t = s \o Contents(y) /\ n <= Len(t)
      BY <1>2, <2>1
    <3> HIDE DEF t, y, s
    <3> QED BY <1>1, <3>1, <3>2, RowHasElements
  <2>3. y \in Seq(Chunk) /\ a \in Chunk /\ a.nHead < a.nTail
    BY <1>1, <2>2, RowIsLoose
  <2>4. a.nHead \in Int /\ a.nTail \in Int
    BY <2>3, ChunkOf
  <2>5. /\ m \in 1..(a.nTail - a.nHead) /\ m <= left
        /\ m = left \/ m = a.nTail - a.nHead
    <3> HIDE DEF left, a
    <3> QED BY <1>3, <1>5, <2>3, <2>4 DEF MinOf
  <2> HIDE DEF y, a, m
  <2>6. PICK z \in Rows, x \in Spares :
          /\ NewHead(r.d, c) = Made(z, x, i)
          /\ Contents(y) = part \o Contents(z)
          /\ m = a.nTail - a.nHead => Len(z) = Len(y) - 1
    <3>1. HeadOff(NewHead(r.d, c), y, i, m)
      BY <1>1, <2>2, <2>5, NewHeadGives DEF a
    <3> QED BY <3>1 DEF HeadOff, a
  <2>7. part \in Seq(Cell) /\ Len(part) = m
    BY <2>3, <2>5, NarrowHead
  <2> DEFINE e == NewHead(r.d, c)
             q == s \o part
             g == TakeHead(r, left)
  <2>8. g = Read(e, q)
    BY <1>5 DEF TakeHead, y, a, m
  <2> HIDE DEF e, part, s, c
  <2>9. q \in Seq(Cell) /\ Len(q) = Len(s) + m
    BY <1>1, <2>7, Joined
  <2>10. Contents(z) \in Seq(Cell)
    BY RowIsLoose, SpanIsLength
  <2>11. Contents(u) = q \o Contents(z)
    <3>1. (s \o part) \o Contents(z) = s \o (part \o Contents(z))
      BY <1>1, <2>7, <2>10, Associative, SMTT(30)
    <3> QED BY <1>2, <2>6, <3>1
  <2>12. Len(q) <= n /\ (m = left => Len(q) = n)
    <3>1. m \in Int
      BY <2>5
    <3> HIDE DEF q
    <3> QED BY <1>2, <2>5, <2>9, <3>1
  <2> HIDE DEF q
  <2>13. g \in Results(i) /\ g.d = e /\ e.used = z /\ g.read = q
    BY <2>6, <2>8, <2>9, ResultIs DEF e
  <2> HIDE DEF g
  <2>14. g \in OffFront(u, i, n)
    BY <2>11, <2>12, <2>13 DEF OffFront
  <2>15. Len(g.read) = n \/ Len(g.d.used) = Len(y) - 1
    BY <2>5, <2>6, <2>12, <2>13
  <2> QED BY <2>14, <2>15 DEF g, y, s
<1> QED BY <1>4, <1>5

LEMMA TakeTailGives ==
    ASSUME NEW u \in Rows, NEW i, NEW n \in Nat, n <= Len(Contents(u)), NEW r \in OffBack(u, i, n)
    PROVE  /\ TakeTail(r, n - Len(r.read)) \in OffBack(u, i, n)
           /\ \/ Len(TakeTail(r, n - Len(r.read)).read) = n
              \/ Len(TakeTail(r, n - Len(r.read)).d.used) = Len(r.d.used) - 1
<1> DEFINE y == r.d.used
           s == r.read
           left == n - Len(s)
           a == y[Len(y)]
           m == MinOf(left, a.nTail - a.nHead)
           c == Shortened(a, m)
           part == LastOf(Elements(a), m)
<1>1. PICK w \in Spares : r.d = Made(y, w, i) /\ y \in Rows /\ s \in Seq(Cell)
  BY ResultsOf DEF OffBack
<1>2. Contents(u) = Contents(y) \o s /\ Len(s) <= n /\ Len(s) \in Nat
  <2>1. Contents(u) = Contents(y) \o s /\ Len(s) <= n
    BY DEF OffBack
  <2>2. Len(s) \in Nat
    BY <1>1
  <2> QED BY <2>1, <2>2
<1>3. left \in Int /\ left >= 0 /\ (left = 0 <=> Len(s) = n)
  BY <1>2
<1>4. CASE left = 0
  BY <1>3, <1>4 DEF TakeTail
<1>5. CASE left # 0
  <2>1. Contents(u) \in Seq(Cell)
    BY RowIsLoose, SpanIsLength
  <2>2. y # << >>
    <3>1. Len(s) < n
      BY <1>2, <1>3, <1>5
    <3> DEFINE t == Contents(u)
    <3>2. t \in Seq(Cell) /\ t = Contents(y) \o s /\ n <= Len(t)
      BY <1>2, <2>1
    <3> HIDE DEF t, y, s
    <3> QED BY <1>1, <3>1, <3>2, RowHasElements
  <2>3. y \in Seq(Chunk) /\ a \in Chunk /\ a.nHead < a.nTail
    BY <1>1, <2>2, RowIsLoose
  <2>4. a.nHead \in Int /\ a.nTail \in Int
    BY <2>3, ChunkOf
  <2>5. /\ m \in 1..(a.nTail - a.nHead) /\ m <= left
        /\ m = left \/ m = a.nTail - a.nHead
    <3> HIDE DEF left, a
    <3> QED BY <1>3, <1>5, <2>3, <2>4 DEF MinOf
  <2> HIDE DEF y, a, m
  <2>6. PICK z \in Rows, x \in Spares :
          /\ NewTail(r.d, c) = Made(z, x, i)
          /\ Contents(y) = Contents(z) \o part
          /\ m = a.nTail - a.nHead => Len(z) = Len(y) - 1
    <3>1. TailOff(NewTail(r.d, c), y, i, m)
      BY <1>1, <2>2, <2>5, NewTailGives DEF a
    <3> QED BY <3>1 DEF TailOff, a
  <2>7. part \in Seq(Cell) /\ Len(part) = m
    BY <2>3, <2>5, NarrowTail
  <2> DEFINE e == NewTail(r.d, c)
             q == part \o s
             g == TakeTail(r, left)
  <2>8. g = Read(e, q)
    BY <1>5 DEF TakeTail, y, a, m, Last, LastOf, Shortened
  <2> HIDE DEF e, part, s, c
  <2>9. q \in Seq(Cell) /\ Len(q) = Len(s) + m
    <3>1. Len(q) = m + Len(s) /\ q \in Seq(Cell)
      BY <1>1, <2>7, Joined
    <3>2. m \in Int
      BY <2>5
    <3> QED BY <1>2, <3>1, <3>2
  <2>10. Contents(z) \in Seq(Cell)
    BY RowIsLoose, SpanIsLength
  <2>11. Contents(u) = Contents(z) \o q
    <3>1. (Contents(z) \o part) \o s = Contents(z) \o (part \o s)
      BY <1>1, <2>7, <2>10, Associative
    <3> QED BY <1>2, <2>6, <3>1
  <2>12. Len(q) <= n /\ (m = left => Len(q) = n)
    <3>1. m \in Int
      BY <2>5
    <3> HIDE DEF q
    <3> QED BY <1>2, <2>5, <2>9, <3>1
  <2> HIDE DEF q
  <2>13. g \in Results(i) /\ g.d = e /\ e.used = z /\ g.read = q
    BY <2>6, <2>8, <2>9, ResultIs, SMTT(30) DEF e
  <2> HIDE DEF g
  <2>14. g \in OffBack(u, i, n)
    BY <2>11, <2>12, <2>13 DEF OffBack
  <2>15. Len(g.read) = n \/ Len(g.d.used) = Len(y) - 1
    BY <2>5, <2>6, <2>12, <2>13
  <2> QED BY <2>14, <2>15 DEF g, y, s
<1> QED BY <1>4, <1>5

LEMMA RowLength ==
    ASSUME NEW u \in Rows
    PROVE  /\ u \in Seq(Chunk) /\ Contents(u) \in Seq(Cell) /\ Len(Contents(u)) = Span(u)
           /\ Span(u) \in Nat
           /\ u # << >> => Span(u) > 0
<1>1. u \in Seq(Chunk) /\ Contents(u) \in Seq(Cell) /\ Len(Contents(u)) = Span(u)
  BY RowIsLoose, SpanIsLength
<1>2. Span(u) \in Nat
  BY <1>1
<1>3. ASSUME u # << >> PROVE Span(u) > 0
  <2> DEFINE e == Elements(u[1])
             q == Contents(Tail(u))
  <2>1. Contents(u) = e \o q /\ Tail(u) \in Rows
    BY <1>3, TailIsRow
  <2>2. u[1] \in Chunk /\ u[1].nHead < u[1].nTail
    BY <1>3, RowIsLoose
  <2>3. e \in Seq(Cell) /\ Len(e) = u[1].nTail - u[1].nHead /\ u[1].nTail - u[1].nHead > 0
    BY <2>2, ChunkOf, ElementsOf
  <2>4. q \in Seq(Cell)
    BY <2>1, RowIsLoose, SpanIsLength
  <2> HIDE DEF e, q
  <2>5. Len(e \o q) = Len(e) + Len(q) /\ Len(q) \in Nat
    BY <2>3, <2>4, Joined
  <2> QED BY <1>1, <2>1, <2>3, <2>5
<1> QED BY <1>1, <1>2, <1>3

LEMMA SpanAfter ==
    ASSUME NEW u \in Rows, NEW y \in Rows, NEW s \in Seq(Cell),
           Contents(u) = s \o Contents(y) \/ Contents(u) = Contents(y) \o s
    PROVE  Span(y) = Span(u) - Len(s)
<1> DEFINE q == Contents(y)
<1>1. /\ q \in Seq(Cell) /\ Len(q) = Span(y) /\ Span(y) \in Nat
      /\ Len(Contents(u)) = Span(u) /\ Span(u) \in Nat
  BY RowLength
<1>2. Contents(u) = s \o q \/ Contents(u) = q \o s
  OBVIOUS
<1> HIDE DEF q
<1>3. Len(s \o q) = Len(s) + Len(q) /\ Len(q \o s) = Len(q) + Len(s) /\ Len(s) \in Nat
  BY <1>1, Joined
<1>4. Len(Contents(u)) = Len(s \o q) \/ Len(Contents(u)) = Len(q \o s)
  BY <1>2
<1> HIDE DEF Span
<1> QED BY <1>1, <1>3, <1>4

(* A call that takes elements off the front, or off the back, of a deque
   with the chunks u, and keeps the others.                                *)
TakesFront(r, u) ==
    \E y \in Rows, w \in Spares, s \in Seq(Cell) :
        r = Read(Made(y, w, Span(y)), s) /\ Contents(u) = s \o Contents(y)

TakesBack(r, u) ==
    \E y \in Rows, w \in Spares, s \in Seq(Cell) :
        r = Read(Made(y, w, Span(y)), s) /\ Contents(u) = Contents(y) \o s

LEMMA PopFrontGives ==
    ASSUME NEW u \in Rows, u # << >>, NEW v \in Spares, NEW d, d = Made(u, v, Span(u))
    PROVE  TakesFront(pop_front(d), u) /\ Len(pop_front(d).read) = 1
<1> DEFINE a == u[1]
           i == Span(u) - 1
           e == [d EXCEPT !.nItems = @ - 1]
           s == SubSeq(Elements(a), 1, 1)
           c == Narrow(a, a.nHead + 1, a.nTail)
<1>1. /\ Whole(d) /\ d.used = u /\ d.unused = v /\ d.nItems = Span(u)
      /\ d.nChunks = Len(u) + Len(v) /\ d.nUnused = Len(v)
  BY MadeOf
<1>2. a \in Chunk /\ a.nHead < a.nTail /\ a.nHead \in Int /\ a.nTail \in Int
  BY RowIsLoose, ChunkOf
<1>3. 1 \in 1..(a.nTail - a.nHead)
  BY <1>2
<1>4. e = Made(u, v, i)
  BY <1>1, SetItems DEF Made
<1>5. s \in Seq(Cell) /\ Len(s) = 1
  <2> HIDE DEF a
  <2> QED BY <1>2, <1>3, NarrowHead
<1>6. s = <<a.vData[a.nHead]>>
  <2> DEFINE f == Elements(a)
  <2>1. f \in Seq(Cell) /\ Len(f) = a.nTail - a.nHead /\ f[1] = a.vData[a.nHead + 1 - 1]
    BY <1>2, <1>3, ElementsOf
  <2>2. a.nHead + 1 - 1 = a.nHead /\ 1 \in 1..(Len(f) + 1) /\ 1 \in (1 - 1)..Len(f) /\ 1 \in 1..(1 - 1 + 1)
    BY <1>2, <2>1
  <2> HIDE DEF f
  <2>3. SubSeq(f, 1, 1)[1] = f[1 + 1 - 1] /\ 1 + 1 - 1 = 1
    BY <2>1, <2>2, Slice
  <2>4. s[1] = f[1]
    BY <2>3 DEF f
  <2>5. s = <<s[1]>>
    BY <1>5, Singleton
  <2> QED BY <2>1, <2>2, <2>4, <2>5
<1> HIDE DEF a, i, e, s
<1>7. PICK y \in Rows, w \in Spares : NewHead(e, c) = Made(y, w, i) /\ Contents(u) = s \o Contents(y)
  <2>1. HeadOff(NewHead(e, c), u, i, 1)
    BY <1>3, <1>4, NewHeadGives DEF a
  <2> QED BY <2>1 DEF HeadOff, a, s
<1>8. Span(y) = i
  BY <1>5, <1>7, SpanAfter, ZenonT(40) DEF i
<1>9. pop_front(d) = Read(Made(y, w, Span(y)), s)
  BY <1>1, <1>6, <1>7, <1>8 DEF pop_front, a, e
<1>10. TakesFront(pop_front(d), u)
  BY <1>5, <1>7, <1>9 DEF TakesFront
<1>11. pop_front(d).read = s
  BY <1>9 DEF Read
<1> QED BY <1>5, <1>10, <1>11

LEMMA PopBackGives ==
    ASSUME NEW u \in Rows, u # << >>, NEW v \in Spares, NEW d, d = Made(u, v, Span(u))
    PROVE  TakesBack(pop_back(d), u) /\ Len(pop_back(d).read) = 1
<1> DEFINE a == u[Len(u)]
           i == Span(u) - 1
           e == [d EXCEPT !.nItems = @ - 1]
           s == LastOf(Elements(a), 1)
           c == Shortened(a, 1)
<1>1. /\ Whole(d) /\ d.used = u /\ d.unused = v /\ d.nItems = Span(u)
      /\ d.nChunks = Len(u) + Len(v) /\ d.nUnused = Len(v)
  BY MadeOf
<1>2. a \in Chunk /\ a.nHead < a.nTail /\ a.nHead \in Int /\ a.nTail \in Int
  BY RowIsLoose, ChunkOf
<1>3. 1 \in 1..(a.nTail - a.nHead)
  BY <1>2
<1>4. e = Made(u, v, i)
  BY <1>1, SetItems DEF Made
<1>5. s \in Seq(Cell) /\ Len(s) = 1
  <2> HIDE DEF a
  <2> QED BY <1>2, <1>3, NarrowTail
<1>6. s = <<a.vData[a.nTail - 1]>>
  <2> DEFINE f == Elements(a)
             n == Len(f)
             k == n - 1 + 1
  <2>0. a.nTail - a.nHead \in 1..(a.nTail - a.nHead) /\ a.nHead + (a.nTail - a.nHead) - 1 = a.nTail - 1
    BY <1>2
  <2>6. \A j \in 1..(a.nTail - a.nHead) : f[j] = a.vData[a.nHead + j - 1]
    BY <1>2, ElementsOf
  <2>1. f \in Seq(Cell) /\ n = a.nTail - a.nHead
        /\ f[a.nTail - a.nHead] = a.vData[a.nHead + (a.nTail - a.nHead) - 1]
    <3>1. f \in Seq(Cell) /\ n = a.nTail - a.nHead
      BY <1>2, ElementsOf
    <3> HIDE DEF f
    <3> QED BY <2>0, <2>6, <3>1
  <2>2. /\ k \in 1..(n + 1) /\ n \in (k - 1)..n /\ 1 \in 1..(n - k + 1) /\ k + 1 - 1 = n
    <3>1. n \in Int /\ n >= 1
      BY <1>2, <2>1
    <3> HIDE DEF n
    <3> QED BY <3>1
  <2> HIDE DEF f, k
  <2>3. SubSeq(f, k, n)[1] = f[k + 1 - 1]
    BY <2>1, <2>2, Slice
  <2>4. s[1] = f[n]
    BY <2>2, <2>3 DEF f, k, LastOf
  <2>5. s = <<s[1]>>
    BY <1>5, Singleton
  <2> HIDE DEF n, s
  <2> QED BY <2>0, <2>1, <2>4, <2>5
<1> HIDE DEF a, i, e, s
<1>7. PICK y \in Rows, w \in Spares : NewTail(e, c) = Made(y, w, i) /\ Contents(u) = Contents(y) \o s
  <2>1. TailOff(NewTail(e, c), u, i, 1)
    BY <1>3, <1>4, NewTailGives DEF a
  <2> QED BY <2>1 DEF TailOff, a, s
<1>8. Span(y) = i
  BY <1>5, <1>7, SpanAfter, ZenonT(40) DEF i
<1>9. pop_back(d) = Read(Made(y, w, Span(y)), s)
  BY <1>1, <1>6, <1>7, <1>8 DEF pop_back, a, e, Last, Shortened
<1>10. TakesBack(pop_back(d), u)
  BY <1>5, <1>7, <1>9 DEF TakesBack
<1>11. pop_back(d).read = s
  BY <1>9 DEF Read
<1> QED BY <1>5, <1>10, <1>11

(* Many elements at once: a round empties its chunk or ends the loop.       *)
LEMMA PopFrontBulkGives ==
    ASSUME NEW u \in Rows, NEW v \in Spares, NEW d, d = Made(u, v, Span(u)), NEW n \in Nat
    PROVE  TakesFront(pop_front_bulk(d, n), u) /\ Len(pop_front_bulk(d, n).read) = MinOf(n, Span(u))
<1> DEFINE i == Span(u)
           count == MinOf(n, i)
           l == Len(u)
           T == OffFront(u, i, count)
           base == Read(d, << >>)
           Rule(g) == [k \in 0..l |-> IF k = 0 THEN base
                                      ELSE TakeHead(g[k - 1], count - Len(g[k - 1].read))]
           g == CHOOSE h : h = Rule(h)
           step == [p \in (1..l) \X T |-> TakeHead(p[2], count - Len(p[2].read))]
<1>1. /\ Whole(d) /\ d.used = u /\ d.unused = v /\ d.nItems = i
      /\ d.nChunks = l + Len(v) /\ d.nUnused = Len(v)
  BY MadeOf
<1>2. i \in Nat /\ l \in Nat /\ Len(Contents(u)) = i /\ Contents(u) \in Seq(Cell)
  BY RowLength
<1>3. count \in Nat /\ count <= i
  <2> HIDE DEF i
  <2> QED BY <1>2 DEF MinOf
<1>4. base \in T /\ base.d = d /\ base.read = << >>
  <2> DEFINE none == << >>
  <2>1. none \in Seq(Cell) /\ Len(none) = 0 /\ none \o Contents(u) = Contents(u)
    BY <1>2
  <2> HIDE DEF none
  <2>2. Read(d, none) \in Results(i) /\ Read(d, none).d = d /\ d.used = u /\ Read(d, none).read = none
    <3>1. none \in Seq(Cell)
      BY <2>1
    <3>2. Read(d, none) \in Results(Span(u)) /\ Read(d, none).d = d /\ d.used = u /\ Read(d, none).read = none
      BY <3>1, ResultIs
    <3> QED BY <3>2
  <2> DEFINE p == Read(d, none)
  <2>3. p \in T
    <3> HIDE DEF p, i, count
    <3>1. Len(p.read) <= count
      BY <1>3, <2>1, <2>2 DEF p
    <3>2. p \in Results(i) /\ p.d.used = u /\ p.read = none
      BY <2>2 DEF p
    <3> QED BY <2>1, <3>1, <3>2 DEF OffFront
  <2> QED BY <2>2, <2>3 DEF none
<1> HIDE DEF base, count, i
<1>5. \A r \in T : /\ TakeHead(r, count - Len(r.read)) \in T
                   /\ \/ Len(TakeHead(r, count - Len(r.read)).read) = count
                      \/ Len(TakeHead(r, count - Len(r.read)).d.used) = Len(r.d.used) - 1
  <2>1. count <= Len(Contents(u)) /\ count \in Nat
    BY <1>2, <1>3
  <2> TAKE p \in T
  <2>2. p \in OffFront(u, i, count)
    OBVIOUS
  <2> QED BY <2>1, <2>2, TakeHeadGives
<1> HIDE DEF T
<1>6. step \in [(1..l) \X T -> T] /\ \A k \in 1..l, r \in T : step[<<k, r>>] = TakeHead(r, count - Len(r.read))
  BY <1>5
<1> HIDE DEF step
<1>7. PICK f \in [0..l -> T] : Follows(f, l, base, step)
  BY <1>2, <1>4, <1>6, RecursiveFunction, Zenon
<1>8. f = Rule(f)
  <2>1. ASSUME NEW k \in 0..l
        PROVE  f[k] = IF k = 0 THEN base ELSE TakeHead(f[k - 1], count - Len(f[k - 1].read))
    <3>1. CASE k = 0
      BY <1>7, <3>1 DEF Follows
    <3>2. CASE k # 0
      <4>1. k \in 1..l /\ k - 1 \in 0..l
        BY <1>2, <3>2
      <4>2. f[k] = step[<<k, f[k - 1]>>] /\ f[k - 1] \in T
        BY <1>7, <4>1 DEF Follows
      <4> QED BY <1>6, <3>2, <4>1, <4>2
    <3> QED BY <3>1, <3>2
  <2> QED BY <2>1
<1>9. g = Rule(g)
  BY <1>8
<1> HIDE DEF g
<1>10. g[0] = base
  BY <1>2, <1>9
<1>11. \A k \in 1..l : g[k] = TakeHead(g[k - 1], count - Len(g[k - 1].read))
  BY <1>2, <1>9
<1> DEFINE S == {k \in 0..l : /\ g[k] \in T
                              /\ Len(g[k].read) = count \/ Len(g[k].d.used) <= l - k}
<1>12. 0 \in S
  <2>1. base.d.used = u /\ l <= l - 0 /\ 0 \in 0..l
    BY <1>1, <1>2, <1>4
  <2> QED BY <1>4, <1>10, <2>1
<1>13. ASSUME NEW k \in 0..(l - 1), k \in S PROVE k + 1 \in S
  <2> DEFINE r == g[k]
             q == g[k + 1]
  <2>1. k + 1 \in 1..l /\ (k + 1) - 1 = k /\ k + 1 \in 0..l
    BY <1>2
  <2>2. r \in T /\ (Len(r.read) = count \/ Len(r.d.used) <= l - k)
    BY <1>13
  <2>3. g[k + 1] = TakeHead(g[(k + 1) - 1], count - Len(g[(k + 1) - 1].read))
    BY <1>11, <2>1
  <2>4. q = TakeHead(r, count - Len(r.read))
    BY <2>1, <2>3
  <2>5. q \in T
    BY <1>5, <2>2, <2>4
  <2> HIDE DEF r, q
  <2>6. Len(q.read) = count \/ Len(q.d.used) <= l - (k + 1)
    <3>1. CASE Len(r.read) = count
      <4>1. count - Len(r.read) = 0
        BY <1>3, <3>1
      <4>2. q = r
        BY <2>4, <4>1 DEF TakeHead
      <4> QED BY <3>1, <4>2
    <3>2. CASE Len(r.d.used) <= l - k
      <4> DEFINE x == Len(r.d.used)
                 y == Len(q.d.used)
      <4>1. x \in Int
        <5>1. r.d.used \in Rows
          BY <2>2, ResultsOf DEF T, OffFront
        <5> QED BY <5>1, RowLength
      <4>2. Len(q.read) = count \/ y = x - 1
        BY <1>5, <2>2, <2>4
      <4>3. x <= l - k
        BY <3>2
      <4> HIDE DEF x, y
      <4>4. y = x - 1 => y <= l - (k + 1)
        BY <1>2, <4>1, <4>3
      <4> QED BY <4>2, <4>4 DEF y
    <3> QED BY <2>2, <3>1, <3>2
  <2> QED BY <2>1, <2>5, <2>6 DEF q
<1> HIDE DEF S
<1>14. 0..l \subseteq S
  BY <1>2, <1>12, <1>13, InductionUpTo
<1> DEFINE r == g[l]
           y == r.d.used
           s == r.read
<1>15. r \in T /\ (Len(s) = count \/ Len(y) <= l - l)
  <2>1. l \in 0..l
    BY <1>2
  <2> QED BY <1>14, <2>1 DEF S
<1> HIDE DEF r
<1>16. PICK w \in Spares : r.d = Made(y, w, i) /\ y \in Rows /\ s \in Seq(Cell)
  BY <1>15, ResultsOf DEF T, OffFront
<1>17. Contents(u) = s \o Contents(y) /\ Len(s) <= count
  BY <1>15 DEF T, OffFront
<1> HIDE DEF y, s
<1>18. Len(s) = count
  <2> SUFFICES ASSUME Len(s) # count PROVE FALSE
    OBVIOUS
  <2>1. Len(y) <= 0 /\ y \in Seq(Chunk)
    <3>1. Len(y) <= l - l /\ l - l = 0
      BY <1>2, <1>15 DEF y, s
    <3> QED BY <1>16, <3>1, RowIsLoose
  <2>2. y = << >>
    BY <2>1
  <2>3. Contents(u) = s
    <3>1. Contents(y) = << >>
      BY <2>2, ContentsEmpty
    <3> QED BY <1>16, <1>17, <3>1
  <2>4. Len(s) = i
    BY <1>2, <2>3
  <2> QED BY <1>2, <1>3, <1>17, <2>4
<1>19. Span(y) = i - count
  BY <1>16, <1>17, <1>18, SpanAfter DEF i
<1> DEFINE e == [r.d EXCEPT !.nItems = @ - count]
<1>20. e = Made(y, w, Span(y))
  BY <1>16, <1>19, MadeOf, SetItems, SMTT(30) DEF Made
<1> HIDE DEF e
<1>21. pop_front_bulk(d, n) = Read(e, s)
  BY <1>1 DEF pop_front_bulk, e, s, r, g, base, count, i
<1>22. TakesFront(pop_front_bulk(d, n), u)
  BY <1>16, <1>17, <1>20, <1>21 DEF TakesFront
<1>23. pop_front_bulk(d, n).read = s
  BY <1>21 DEF Read
<1> QED BY <1>18, <1>22, <1>23 DEF count, i

LEMMA TakeBackGives ==
    ASSUME NEW u \in Rows, NEW v \in Spares, NEW d, d = Made(u, v, Span(u)), NEW n \in Nat
    PROVE  TakesBack(take_back(d, n), u) /\ Len(take_back(d, n).read) = MinOf(n, Span(u))
<1> DEFINE i == Span(u)
           count == MinOf(n, i)
           l == Len(u)
           T == OffBack(u, i, count)
           base == Read(d, << >>)
           Rule(g) == [k \in 0..l |-> IF k = 0 THEN base
                                      ELSE TakeTail(g[k - 1], count - Len(g[k - 1].read))]
           g == CHOOSE h : h = Rule(h)
           step == [p \in (1..l) \X T |-> TakeTail(p[2], count - Len(p[2].read))]
<1>1. /\ Whole(d) /\ d.used = u /\ d.unused = v /\ d.nItems = i
      /\ d.nChunks = l + Len(v) /\ d.nUnused = Len(v)
  BY MadeOf
<1>2. i \in Nat /\ l \in Nat /\ Len(Contents(u)) = i /\ Contents(u) \in Seq(Cell)
  BY RowLength
<1>3. count \in Nat /\ count <= i
  <2> HIDE DEF i
  <2> QED BY <1>2 DEF MinOf
<1>4. base \in T /\ base.d = d /\ base.read = << >>
  <2> DEFINE none == << >>
  <2>1. none \in Seq(Cell) /\ Len(none) = 0 /\ Contents(u) \o none = Contents(u)
    BY <1>2
  <2> HIDE DEF none
  <2>2. Read(d, none) \in Results(i) /\ Read(d, none).d = d /\ d.used = u /\ Read(d, none).read = none
    <3>1. none \in Seq(Cell)
      BY <2>1
    <3>2. Read(d, none) \in Results(Span(u)) /\ Read(d, none).d = d /\ d.used = u /\ Read(d, none).read = none
      BY <3>1, ResultIs
    <3> QED BY <3>2
  <2> DEFINE p == Read(d, none)
  <2>3. p \in T
    <3> HIDE DEF p, i, count
    <3>1. Len(p.read) <= count
      BY <1>3, <2>1, <2>2 DEF p
    <3>2. p \in Results(i) /\ p.d.used = u /\ p.read = none
      BY <2>2 DEF p
    <3> QED BY <2>1, <3>1, <3>2 DEF OffBack
  <2> QED BY <2>2, <2>3 DEF none
<1> HIDE DEF base, count, i
<1>5. \A r \in T : /\ TakeTail(r, count - Len(r.read)) \in T
                   /\ \/ Len(TakeTail(r, count - Len(r.read)).read) = count
                      \/ Len(TakeTail(r, count - Len(r.read)).d.used) = Len(r.d.used) - 1
  <2>1. count <= Len(Contents(u)) /\ count \in Nat
    BY <1>2, <1>3
  <2> TAKE p \in T
  <2>2. p \in OffBack(u, i, count)
    OBVIOUS
  <2> QED BY <2>1, <2>2, TakeTailGives
<1> HIDE DEF T
<1>6. step \in [(1..l) \X T -> T] /\ \A k \in 1..l, r \in T : step[<<k, r>>] = TakeTail(r, count - Len(r.read))
  BY <1>5
<1> HIDE DEF step
<1>7. PICK f \in [0..l -> T] : Follows(f, l, base, step)
  BY <1>2, <1>4, <1>6, RecursiveFunction, Zenon
<1>8. f = Rule(f)
  <2>1. ASSUME NEW k \in 0..l
        PROVE  f[k] = IF k = 0 THEN base ELSE TakeTail(f[k - 1], count - Len(f[k - 1].read))
    <3>1. CASE k = 0
      BY <1>7, <3>1 DEF Follows
    <3>2. CASE k # 0
      <4>1. k \in 1..l /\ k - 1 \in 0..l
        BY <1>2, <3>2
      <4>2. f[k] = step[<<k, f[k - 1]>>] /\ f[k - 1] \in T
        BY <1>7, <4>1 DEF Follows
      <4> QED BY <1>6, <3>2, <4>1, <4>2
    <3> QED BY <3>1, <3>2
  <2> QED BY <2>1
<1>9. g = Rule(g)
  BY <1>8
<1> HIDE DEF g
<1>10. g[0] = base
  BY <1>2, <1>9
<1>11. \A k \in 1..l : g[k] = TakeTail(g[k - 1], count - Len(g[k - 1].read))
  BY <1>2, <1>9
<1> DEFINE S == {k \in 0..l : /\ g[k] \in T
                              /\ Len(g[k].read) = count \/ Len(g[k].d.used) <= l - k}
<1>12. 0 \in S
  <2>1. base.d.used = u /\ l <= l - 0 /\ 0 \in 0..l
    BY <1>1, <1>2, <1>4
  <2> QED BY <1>4, <1>10, <2>1
<1>13. ASSUME NEW k \in 0..(l - 1), k \in S PROVE k + 1 \in S
  <2> DEFINE r == g[k]
             q == g[k + 1]
  <2>1. k + 1 \in 1..l /\ (k + 1) - 1 = k /\ k + 1 \in 0..l
    BY <1>2
  <2>2. r \in T /\ (Len(r.read) = count \/ Len(r.d.used) <= l - k)
    BY <1>13
  <2>3. g[k + 1] = TakeTail(g[(k + 1) - 1], count - Len(g[(k + 1) - 1].read))
    BY <1>11, <2>1
  <2>4. q = TakeTail(r, count - Len(r.read))
    BY <2>1, <2>3
  <2>5. q \in T
    BY <1>5, <2>2, <2>4
  <2> HIDE DEF r, q
  <2>6. Len(q.read) = count \/ Len(q.d.used) <= l - (k + 1)
    <3>1. CASE Len(r.read) = count
      <4>1. count - Len(r.read) = 0
        BY <1>3, <3>1
      <4>2. q = r
        BY <2>4, <4>1 DEF TakeTail
      <4> QED BY <3>1, <4>2
    <3>2. CASE Len(r.d.used) <= l - k
      <4> DEFINE x == Len(r.d.used)
                 y == Len(q.d.used)
      <4>1. x \in Int
        <5>1. r.d.used \in Rows
          BY <2>2, ResultsOf DEF T, OffBack
        <5> QED BY <5>1, RowLength
      <4>2. Len(q.read) = count \/ y = x - 1
        BY <1>5, <2>2, <2>4
      <4>3. x <= l - k
        BY <3>2
      <4> HIDE DEF x, y
      <4>4. y = x - 1 => y <= l - (k + 1)
        BY <1>2, <4>1, <4>3
      <4> QED BY <4>2, <4>4 DEF y
    <3> QED BY <2>2, <3>1, <3>2
  <2> QED BY <2>1, <2>5, <2>6 DEF q
<1> HIDE DEF S
<1>14. 0..l \subseteq S
  BY <1>2, <1>12, <1>13, InductionUpTo
<1> DEFINE r == g[l]
           y == r.d.used
           s == r.read
<1>15. r \in T /\ (Len(s) = count \/ Len(y) <= l - l)
  <2>1. l \in 0..l
    BY <1>2
  <2> QED BY <1>14, <2>1 DEF S
<1> HIDE DEF r
<1>16. PICK w \in Spares : r.d = Made(y, w, i) /\ y \in Rows /\ s \in Seq(Cell)
  BY <1>15, ResultsOf DEF T, OffBack
<1>17. Contents(u) = Contents(y) \o s /\ Len(s) <= count
  BY <1>15 DEF T, OffBack
<1> HIDE DEF y, s
<1>18. Len(s) = count
  <2> SUFFICES ASSUME Len(s) # count PROVE FALSE
    OBVIOUS
  <2>1. Len(y) <= 0 /\ y \in Seq(Chunk)
    <3>1. Len(y) <= l - l /\ l - l = 0
      BY <1>2, <1>15 DEF y, s
    <3> QED BY <1>16, <3>1, RowIsLoose
  <2>2. y = << >>
    BY <2>1
  <2>3. Contents(u) = s
    <3>1. Contents(y) = << >>
      BY <2>2, ContentsEmpty
    <3> QED BY <1>16, <1>17, <3>1
  <2>4. Len(s) = i
    BY <1>2, <2>3
  <2> QED BY <1>2, <1>3, <1>17, <2>4
<1>19. Span(y) = i - count
  BY <1>16, <1>17, <1>18, SpanAfter DEF i
<1> DEFINE e == [r.d EXCEPT !.nItems = @ - count]
<1>20. e = Made(y, w, Span(y))
  BY <1>16, <1>19, MadeOf, SetItems, SMTT(30) DEF Made
<1> HIDE DEF e
<1>21. take_back(d, n) = Read(e, s)
  BY <1>1 DEF take_back, e, s, r, g, base, count, i
<1>22. TakesBack(take_back(d, n), u)
  BY <1>16, <1>17, <1>20, <1>21 DEF TakesBack
<1>23. take_back(d, n).read = s
  BY <1>21 DEF Read
<1> QED BY <1>18, <1>22, <1>23 DEF count, i

-----------------------------------------------------------------------------
(* clear(), truncate(), flush() and reserve().                             *)

LEMMA NoChunks ==
    /\ << >> \in Rows /\ << >> \in Spares /\ Reset(<< >>)
    /\ Span(<< >>) = 0 /\ Empty = Made(<< >>, << >>, Span(<< >>))
<1> DEFINE none == << >>
<1>1. none \in Seq(Chunk) /\ Len(none) = 0 /\ DOMAIN none = {}
  OBVIOUS
<1>2. Span(<< >>) = 0
  BY DEF Span
<1>3. Empty = Made(<< >>, << >>, 0)
  BY DEF Empty, Made, Fields
<1> HIDE DEF none
<1>4. none \in Rows /\ none \in Spares /\ Reset(none)
  BY <1>1 DEF Rows, Spares, Gapless, Spare, Reset
<1> QED BY <1>2, <1>3, <1>4 DEF none

(* Two lists of spare chunks make one.                                     *)
LEMMA SparesJoined ==
    ASSUME NEW a \in Spares, NEW b \in Spares
    PROVE  a \o b \in Spares /\ Len(a \o b) = Len(a) + Len(b)
<1> DEFINE w == a \o b
<1>1. a \in Seq(Chunk) /\ b \in Seq(Chunk) /\ Spare(a) /\ Spare(b)
  BY DEF Spares
<1>2. /\ w \in Seq(Chunk) /\ Len(w) = Len(a) + Len(b)
      /\ \A k \in DOMAIN w : (\E l \in DOMAIN a : w[k] = a[l]) \/ \E l \in DOMAIN b : w[k] = b[l]
  BY <1>1
<1> HIDE DEF w
<1>3. w \in Spares
  BY <1>1, <1>2 DEF Spares, Spare
<1> QED BY <1>2, <1>3 DEF w

LEMMA ClearGives ==
    ASSUME NEW u \in Rows, NEW v \in Spares, NEW i, NEW d, d = Made(u, v, i)
    PROVE  \E w \in Spares : clear(d) = Made(<< >>, w, 0)
<1> DEFINE dead == [k \in DOMAIN u |-> [u[k] EXCEPT !.vData = NewChunk.vData]]
           none == << >>
           w == dead \o v
           e == Hold(d, none, 0)
<1>1. /\ Whole(d) /\ d.used = u /\ d.unused = v /\ d.nItems = i
      /\ d.nChunks = Len(u) + Len(v) /\ d.nUnused = Len(v)
  BY MadeOf
<1>2. u \in Seq(Chunk) /\ v \in Seq(Chunk)
  BY DEF Rows, Spares
<1>3. ASSUME NEW k \in DOMAIN u
      PROVE  /\ [u[k] EXCEPT !.vData = NewChunk.vData] \in Chunk
             /\ [u[k] EXCEPT !.vData = NewChunk.vData].nTail # 0
  <2>1. u[k] \in Chunk /\ u[k].nHead < u[k].nTail
    BY <1>2 DEF Rows, Gapless
  <2>2. [u[k] EXCEPT !.vData = NewChunk.vData] \in Chunk
    BY <2>1, NewChunkIsChunk DEF Chunk
  <2>3. [u[k] EXCEPT !.vData = NewChunk.vData].nTail = u[k].nTail
    BY <2>1 DEF Chunk
  <2> QED BY <2>1, <2>2, <2>3, ChunkOf
<1>4. dead \in Seq(Chunk) /\ Len(dead) = Len(u) /\ \A k \in DOMAIN dead : dead[k].nTail # 0
  <2>1. DOMAIN u = 1..Len(u) /\ Len(u) \in Nat
    BY <1>2
  <2>2. dead = [k \in 1..Len(u) |-> dead[k]] /\ \A k \in 1..Len(u) : dead[k] \in Chunk /\ dead[k].nTail # 0
    BY <1>3, <2>1
  <2> HIDE DEF dead
  <2> QED BY <2>1, <2>2
<1> HIDE DEF dead
<1>5. dead \in Spares
  BY <1>4 DEF Spares, Spare
<1>6. w \in Spares /\ Len(w) = Len(u) + Len(v)
  BY <1>4, <1>5, SparesJoined
<1>7. Whole(e) /\ e.used = none /\ e.nItems = 0 /\ e.nChunks = Len(u) + Len(v)
  <2> HIDE DEF none
  <2>1. e = Fields(none, d.unused, 0, d.nChunks, d.nUnused)
    BY <1>1, HoldOf
  <2> QED BY <1>1, <2>1, FieldsOf
<1>8. (IF d.used = << >> THEN d.nUnused ELSE d.nChunks) = Len(w)
  <2>1. u = << >> => Len(u) + Len(v) = Len(v)
    BY <1>2
  <2> QED BY <1>1, <1>6, <2>1
<1>9. clear(d) = SetAside(e, w, Len(w))
  BY <1>1, <1>8 DEF clear, dead
<1> HIDE DEF e, w
<1>10. SetAside(e, w, Len(w)) = Fields(none, w, 0, Len(u) + Len(v), Len(w))
  BY <1>7, SetAsideOf
<1>11. Len(u) + Len(v) = Len(none) + Len(w)
  <2>1. Len(w) \in Nat /\ Len(none) = 0
    BY <1>6 DEF Spares
  <2> QED BY <1>6, <2>1
<1> QED BY <1>6, <1>9, <1>10, <1>11 DEF Made

LEMMA TruncateGives ==
    ASSUME NEW u \in Rows, NEW v \in Spares, NEW i, NEW d, d = Made(u, v, i)
    PROVE  truncate(d) = Made(u, << >>, i)
<1> DEFINE none == << >>
           e == [d EXCEPT !.nChunks = @ - d.nUnused]
<1>1. /\ Whole(d) /\ d.used = u /\ d.unused = v /\ d.nItems = i
      /\ d.nChunks = Len(u) + Len(v) /\ d.nUnused = Len(v)
  BY MadeOf
<1>2. u \in Seq(Chunk) /\ v \in Seq(Chunk)
  BY DEF Rows, Spares
<1>3. (Len(u) + Len(v)) - Len(v) = Len(u) + Len(none) /\ Len(none) = 0
  BY <1>2
<1>4. e = Fields(u, v, i, Len(u) + Len(none), Len(v))
  <2> DEFINE x == Len(u) + Len(none)
  <2>1. d.nChunks - d.nUnused = x
    BY <1>1, <1>3
  <2> HIDE DEF x
  <2>2. e = [d EXCEPT !.nChunks = x]
    BY <2>1
  <2>3. [d EXCEPT !.nChunks = x] = Fields(u, v, i, x, Len(v))
    BY <1>1, SetChunks
  <2> QED BY <2>2, <2>3 DEF x
<1>5. truncate(d) = SetAside(e, none, 0)
  BY DEF truncate
<1> HIDE DEF e, none
<1>6. SetAside(e, none, 0) = Fields(u, none, i, Len(u) + Len(none), 0)
  BY <1>4, FieldsOf, SetAsideOf
<1> QED BY <1>3, <1>5, <1>6 DEF Made, none

LEMMA ReserveGives ==
    ASSUME NEW u \in Rows, NEW v \in Spares, NEW d, d = Made(u, v, Span(u)),
           NEW n \in Nat, NEW o \in reserve(d, n)
    PROVE  Pushes(o, d, Contents(u))
<1>1. /\ Whole(d) /\ d.used = u /\ d.unused = v /\ d.nItems = Span(u)
      /\ d.nChunks = Len(u) + Len(v) /\ d.nUnused = Len(v)
  BY MadeOf
<1>2. u \in Seq(Chunk) /\ v \in Seq(Chunk) /\ Len(u) + Len(v) \in Nat
  BY DEF Rows, Spares
<1> DEFINE p == (Len(u) + Len(v)) * nChunkSize
           k == chunks_count(n - p)
           l == Len(u) + Len(v)
<1>3. p \in Int
  <2> HIDE DEF p
  <2>1. l \in Int
    BY <1>2
  <2> HIDE DEF l
  <2>2. l * nChunkSize \in Int
    BY <2>1, Product
  <2> QED BY <2>2 DEF p, l
<1>4. CASE p >= n
  <2>1. o = [ans |-> "true", d |-> d, list |-> << >>]
    BY <1>1, <1>4 DEF reserve, Done, Acquired
  <2> QED BY <2>1 DEF Pushes, Leaves
<1>5. CASE ~(p >= n)
  <2>1. k \in Nat
    <3> DEFINE q == n - p
    <3>1. q \in Int /\ q > 0
      BY <1>3, <1>5
    <3> HIDE DEF q
    <3>2. chunks_count(q) \in Nat
      BY <3>1, ChunksHold
    <3> QED BY <3>2 DEF q
  <2>2. PICK x \in Allocate(d, k) :
          o \in IF x.ans = "false" THEN {x}
                ELSE Done(SetAside(x.d, x.list \o x.d.unused, x.d.nUnused + Len(x.list)))
    BY <1>1, <1>5 DEF reserve
  <2> HIDE DEF k
  <2>3. CASE Fails(x, d)
    <3>1. o = x
      BY <2>2, <2>3 DEF Fails
    <3> QED BY <2>3, <3>1 DEF Pushes
  <2>4. CASE ~Fails(x, d)
    <3> DEFINE new == [j \in 1..k |-> NewChunk]
               e == Fields(u, v, Span(u), Len(u) + k + Len(v), Len(v))
               w == new \o v
    <3>1. x = [ans |-> "true", d |-> e, list |-> new]
      <4>1. u \in Seq(Chunk)
        BY <1>2
      <4> QED BY <2>1, <2>4, <4>1, AllocateGives
    <3>2. new \in Spares /\ Len(new) = k
      BY <2>1, NewChunkIsChunk DEF Spare, Spares
    <3> HIDE DEF new
    <3>3. w \in Spares /\ Len(w) = Len(new) + Len(v)
      BY <3>2, SparesJoined
    <3>4. Whole(e) /\ e.used = u /\ e.unused = v /\ e.nItems = Span(u)
          /\ e.nChunks = Len(u) + k + Len(v) /\ e.nUnused = Len(v)
      BY FieldsOf
    <3> HIDE DEF e, w
    <3>5. o = [ans |-> "true", d |-> SetAside(e, w, Len(v) + Len(new)), list |-> << >>]
      BY <2>2, <3>1, <3>4 DEF Done, Acquired, w
    <3>6. SetAside(e, w, Len(v) + Len(new)) =
            Fields(u, w, Span(u), Len(u) + k + Len(v), Len(v) + Len(new))
      BY <3>4, SetAsideOf
    <3>7. Len(v) + Len(new) = Len(w) /\ Len(u) + k + Len(v) = Len(u) + Len(w)
      <4>1. Len(v) \in Nat /\ Len(u) \in Nat /\ Len(w) = k + Len(v)
        BY <1>2, <3>2, <3>3
      <4> QED BY <2>1, <3>2, <4>1
    <3>8. Leaves(o, Made(u, w, Span(u)))
      BY <3>5, <3>6, <3>7 DEF Made, Leaves
    <3> QED BY <3>3, <3>8 DEF Pushes
  <2> QED BY <2>3, <2>4
<1> QED BY <1>4, <1>5

-----------------------------------------------------------------------------
(* An array, dealt out to chunks.                                          *)

LEMMA SlicesJoin ==
    ASSUME NEW T, NEW s \in Seq(T), NEW a \in 0..Len(s), NEW b \in a..Len(s), NEW c \in b..Len(s)
    PROVE  SubSeq(s, a + 1, b) \o SubSeq(s, b + 1, c) = SubSeq(s, a + 1, c)
<1> DEFINE x == SubSeq(s, a + 1, b)
           y == SubSeq(s, b + 1, c)
           z == SubSeq(s, a + 1, c)
           n == Len(s)
<1>1. n \in Nat /\ a \in Nat /\ b \in Nat /\ c \in Nat /\ a <= b /\ b <= c /\ c <= n
  OBVIOUS
<1>2. /\ a + 1 \in 1..(n + 1) /\ b \in ((a + 1) - 1)..n /\ c \in ((a + 1) - 1)..n
      /\ b + 1 \in 1..(n + 1) /\ c \in ((b + 1) - 1)..n
      /\ b - (a + 1) + 1 = b - a /\ c - (b + 1) + 1 = c - b /\ c - (a + 1) + 1 = c - a
  BY <1>1
<1>3. x \in Seq(T) /\ Len(x) = b - a /\ \A i \in 1..(b - a) : x[i] = s[(a + 1) + i - 1]
  <2> DEFINE p == a + 1
             w == SubSeq(s, p, b)
  <2>1. p \in 1..(Len(s) + 1) /\ b \in (p - 1)..Len(s) /\ b - p + 1 = b - a
    BY <1>2
  <2> HIDE DEF p
  <2>2. w \in Seq(T) /\ Len(w) = b - p + 1 /\ \A i \in 1..(b - p + 1) : w[i] = s[p + i - 1]
    BY <2>1, Slice
  <2> HIDE DEF w
  <2>3. w \in Seq(T) /\ Len(w) = b - a /\ \A i \in 1..(b - a) : w[i] = s[p + i - 1]
    BY <2>1, <2>2
  <2> QED BY <2>3 DEF w, p
<1>4. y \in Seq(T) /\ Len(y) = c - b /\ \A i \in 1..(c - b) : y[i] = s[(b + 1) + i - 1]
  BY <1>2, Slice
<1>5. z \in Seq(T) /\ Len(z) = c - a /\ \A i \in 1..(c - a) : z[i] = s[(a + 1) + i - 1]
  BY <1>2, Slice
<1> HIDE DEF x, y, z, n
<1>6. /\ x \o y \in Seq(T) /\ Len(x \o y) = Len(x) + Len(y)
      /\ \A i \in 1..Len(x) : (x \o y)[i] = x[i]
      /\ \A i \in 1..Len(y) : (x \o y)[Len(x) + i] = y[i]
  <2>1. x \in Seq(T) /\ y \in Seq(T)
    BY <1>3, <1>4
  <2> QED BY <2>1, Joined
<1>7. Len(x \o y) = c - a
  BY <1>1, <1>3, <1>4, <1>6
<1>8. ASSUME NEW i \in 1..(c - a) PROVE (x \o y)[i] = z[i]
  <2>1. CASE i <= b - a
    <3>1. i \in 1..(b - a)
      BY <1>1, <2>1
    <3> QED BY <1>3, <1>5, <1>6, <3>1
  <2>2. CASE i > b - a
    <3> DEFINE j == i - (b - a)
    <3>1. j \in 1..(c - b) /\ (b - a) + j = i /\ (b + 1) + j - 1 = (a + 1) + i - 1
      BY <1>1, <2>2
    <3> HIDE DEF j
    <3>2. (x \o y)[(b - a) + j] = y[j]
      BY <1>3, <1>4, <1>6, <3>1
    <3>3. y[j] = s[(b + 1) + j - 1]
      BY <1>4, <3>1
    <3>4. z[i] = s[(a + 1) + i - 1]
      BY <1>5
    <3>5. (x \o y)[i] = y[j] /\ z[i] = y[j]
      BY <3>1, <3>2, <3>3, <3>4
    <3> QED BY <3>5
  <2>3. i <= b - a \/ i > b - a
    BY <1>1
  <2> QED BY <2>1, <2>2, <2>3
<1>9. x \o y = z
  BY <1>5, <1>6, <1>7, <1>8, SeqEqual
<1> QED BY <1>9 DEF x, y, z

LEMMA WholeSlice ==
    ASSUME NEW T, NEW s \in Seq(T), NEW n, n = Len(s)
    PROVE  SubSeq(s, 1, n) = s /\ SubSeq(s, n + 1, n) = << >>
<1>1. n \in Nat /\ 1 \in 1..(Len(s) + 1) /\ n \in (1 - 1)..Len(s) /\ n - 1 + 1 = n
      /\ n + 1 \in 1..(Len(s) + 1) /\ n \in ((n + 1) - 1)..Len(s) /\ n - (n + 1) + 1 = 0
  OBVIOUS
<1> DEFINE x == SubSeq(s, 1, n)
           y == SubSeq(s, n + 1, n)
<1>2. x \in Seq(T) /\ Len(x) = n /\ \A i \in 1..n : x[i] = s[1 + i - 1]
  BY <1>1, Slice
<1>3. y \in Seq(T) /\ Len(y) = 0
  BY <1>1, Slice
<1> HIDE DEF x, y
<1>4. \A i \in 1..n : x[i] = s[i]
  BY <1>1, <1>2
<1>5. x = s
  BY <1>2, <1>4, SeqEqual
<1>6. y = << >>
  BY <1>3
<1> QED BY <1>5, <1>6 DEF x, y

(* Where an array is cut: chunk i has what is between cuts i - 1 and i.    *)
Cuts(cut, m, n) ==
    /\ cut \in [0..m -> 0..n]
    /\ \A i \in 1..m : cut[i - 1] < cut[i]

Dealt(x, s, cut) ==
    /\ x \in Seq(Chunk)
    /\ \A i \in 1..Len(x) : Elements(x[i]) = SubSeq(s, cut[i - 1] + 1, cut[i])

LEMMA CutsGrow ==
    ASSUME NEW m \in Nat, NEW n \in Nat, NEW cut, Cuts(cut, m, n), NEW i \in 0..m
    PROVE  cut[0] <= cut[i] /\ cut[0] \in Nat /\ cut[i] \in 0..n
<1> DEFINE S == {j \in 0..m : cut[0] <= cut[j]}
<1>1. \A j \in 0..m : cut[j] \in 0..n /\ cut[j] \in Int
  BY DEF Cuts
<1>2. 0 \in 0..m
  OBVIOUS
<1>3. 0 \in S
  BY <1>1, <1>2
<1>4. ASSUME NEW j \in 0..(m - 1), j \in S PROVE j + 1 \in S
  <2>1. j + 1 \in 1..m /\ (j + 1) - 1 = j /\ j + 1 \in 0..m /\ j \in 0..m
    OBVIOUS
  <2>2. cut[(j + 1) - 1] < cut[j + 1]
    BY <2>1 DEF Cuts
  <2>3. cut[0] \in Int /\ cut[j] \in Int /\ cut[j + 1] \in Int
    BY <1>1, <1>2, <2>1
  <2>4. cut[0] <= cut[j + 1]
    BY <1>4, <2>1, <2>2, <2>3
  <2> QED BY <2>1, <2>4
<1> HIDE DEF S
<1>5. 0..m \subseteq S
  BY <1>3, <1>4, InductionUpTo
<1>6. cut[0] <= cut[i]
  BY <1>5 DEF S
<1> QED BY <1>1, <1>2, <1>6

LEMMA ContentsDealt ==
    ASSUME NEW s \in Seq(Cell), NEW m \in Nat, NEW cut, Cuts(cut, m, Len(s)),
           NEW x, Dealt(x, s, cut), Len(x) = m
    PROVE  Contents(x) = SubSeq(s, cut[0] + 1, cut[m])
<1> DEFINE n == Len(s)
           c == cut[0]
<1>1. x \in Seq(Chunk) /\ n \in Nat
  BY DEF Dealt
<1>2. PICK f : Up(f, x) /\ Contents(x) = f[m]
  BY <1>1, ContentsUp
<1> DEFINE R == {i \in 0..m : f[i] = SubSeq(s, c + 1, cut[i])}
<1>3. \A i \in 0..m : c <= cut[i] /\ cut[i] \in 0..n /\ c \in Nat
  BY <1>1, CutsGrow
<1> HIDE DEF n, c
<1>4. 0 \in 0..m /\ c \in 0..n /\ c = cut[0]
  BY <1>1, <1>3 DEF c
<1>5. 0 \in R
  <2>1. f[0] = << >>
    BY <1>2 DEF Up
  <2>2. SubSeq(s, c + 1, c) = << >>
    <3> DEFINE y == SubSeq(s, c + 1, c)
    <3>1. c + 1 \in 1..(n + 1) /\ c \in ((c + 1) - 1)..n /\ c - (c + 1) + 1 = 0
      BY <1>1, <1>4
    <3>2. y \in Seq(Cell) /\ Len(y) = 0
      BY <3>1, Slice DEF n
    <3> QED BY <3>2
  <2>3. f[0] = SubSeq(s, c + 1, cut[0])
    BY <1>4, <2>1, <2>2
  <2> QED BY <1>4, <2>3
<1>6. ASSUME NEW i \in 0..(m - 1), i \in R PROVE i + 1 \in R
  <2>1. i + 1 \in 1..m /\ (i + 1) - 1 = i /\ i + 1 \in 0..m /\ i \in 0..m
    OBVIOUS
  <2>2. f[i + 1] = f[i] \o Elements(x[i + 1])
    BY <1>1, <1>2, UpStep
  <2>3. Elements(x[i + 1]) = SubSeq(s, cut[i] + 1, cut[i + 1])
    <3>1. Elements(x[i + 1]) = SubSeq(s, cut[(i + 1) - 1] + 1, cut[i + 1])
      BY <2>1 DEF Dealt
    <3> QED BY <2>1, <3>1
  <2>4. f[i] = SubSeq(s, c + 1, cut[i])
    BY <1>6
  <2>5. c \in 0..n /\ cut[i] \in c..n /\ cut[i + 1] \in cut[i]..n
    <3>1. cut[(i + 1) - 1] < cut[i + 1]
      BY <2>1 DEF Cuts
    <3>2. c <= cut[i] /\ cut[i] \in 0..n /\ cut[i + 1] \in 0..n
      BY <1>3, <2>1
    <3> QED BY <1>1, <1>4, <2>1, <3>1, <3>2
  <2>6. SubSeq(s, c + 1, cut[i]) \o SubSeq(s, cut[i] + 1, cut[i + 1]) = SubSeq(s, c + 1, cut[i + 1])
    BY <2>5, SlicesJoin DEF n
  <2>7. f[i + 1] = SubSeq(s, c + 1, cut[i + 1])
    BY <2>2, <2>3, <2>4, <2>6
  <2> QED BY <2>1, <2>7
<1> HIDE DEF R
<1>7. 0..m \subseteq R
  BY <1>5, <1>6, InductionUpTo
<1>8. m \in R
  <2>1. m \in 0..m
    OBVIOUS
  <2> QED BY <1>7, <2>1
<1> QED BY <1>2, <1>8 DEF R, c

(* Rows that fit together.                                                 *)
LEMMA RowsJoined ==
    ASSUME NEW a \in Rows, NEW b \in Rows,
           a # << >> /\ b # << >> => a[Len(a)].nTail = nChunkSize /\ b[1].nHead = 0
    PROVE  a \o b \in Rows /\ Len(a \o b) = Len(a) + Len(b)
<1> DEFINE y == a \o b
<1>1. /\ a \in Seq(Chunk) /\ b \in Seq(Chunk) /\ Len(a) \in Nat /\ Len(b) \in Nat
      /\ y \in Seq(Chunk) /\ Len(y) = Len(a) + Len(b)
  <2>1. a \in Seq(Chunk) /\ b \in Seq(Chunk)
    BY DEF Rows
  <2> QED BY <2>1
<1>2. /\ \A i \in 1..Len(a) : y[i] = a[i] /\ i \in DOMAIN a
      /\ \A i \in 1..Len(b) : y[Len(a) + i] = b[i] /\ i \in DOMAIN b
  BY <1>1
<1> HIDE DEF y
<1>3. Gapless(y)
  <2> SUFFICES ASSUME NEW i \in DOMAIN y
               PROVE  /\ y[i].nHead < y[i].nTail
                      /\ i > 1 => y[i].nHead = 0
                      /\ i < Len(y) => y[i].nTail = nChunkSize
    BY DEF Gapless
  <2>1. i \in 1..(Len(a) + Len(b))
    BY <1>1
  <2>2. CASE i <= Len(a)
    <3>1. i \in 1..Len(a)
      BY <2>1, <2>2
    <3>2. y[i] = a[i] /\ i \in DOMAIN a
      BY <1>2, <3>1
    <3>3. i = Len(a) /\ i < Len(y) => a # << >> /\ b # << >>
      BY <1>1, <3>1
    <3>4. i < Len(a) \/ i = Len(a)
      BY <1>1, <3>1
    <3> QED BY <3>2, <3>3, <3>4 DEF Gapless, Rows
  <2>3. CASE i > Len(a)
    <3> DEFINE j == i - Len(a)
    <3>1. j \in 1..Len(b) /\ i = Len(a) + j
      BY <1>1, <2>1, <2>3
    <3> HIDE DEF j
    <3>2. y[i] = b[j] /\ j \in DOMAIN b
      BY <1>2, <3>1
    <3>3. /\ j > 1 \/ j = 1
          /\ i < Len(y) => j < Len(b)
          /\ j = 1 /\ i > 1 => a # << >> /\ b # << >>
      BY <1>1, <3>1
    <3> QED BY <3>2, <3>3 DEF Gapless, Rows
  <2>4. i <= Len(a) \/ i > Len(a)
    BY <1>1, <2>1
  <2> QED BY <2>2, <2>3, <2>4
<1> QED BY <1>1, <1>3 DEF Rows, y

-----------------------------------------------------------------------------
(* Copying an array into chunks.                                           *)

LEMMA Monotone ==
    ASSUME NEW i \in Int, NEW j \in Int, i <= j
    PROVE  i * nChunkSize <= j * nChunkSize /\ i * nChunkSize \in Int /\ j * nChunkSize \in Int
<1> DEFINE S == nChunkSize
           k == j - i
<1>1. k \in Int /\ k >= 0 /\ j = i + k
  OBVIOUS
<1>2. S \in Int
  BY Size
<1>3. k * S \in Int /\ k * S >= 0 /\ i * S \in Int /\ j * S \in Int
  <2> HIDE DEF k
  <2> QED BY <1>1, Product
<1> HIDE DEF k, S
<1>4. j * S = i * S + k * S
  BY <1>1, <1>2
<1> QED BY <1>3, <1>4 DEF S

LEMMA MinOfIs ==
    ASSUME NEW a \in Int, NEW b \in Int
    PROVE  /\ MinOf(a, b) \in Int /\ MinOf(a, b) <= a /\ MinOf(a, b) <= b
           /\ a <= b => MinOf(a, b) = a
           /\ b <= a => MinOf(a, b) = b
  BY DEF MinOf

LEMMA CopiedOf ==
    ASSUME NEW c \in Chunk, NEW at \in Int, 0 <= at, NEW part \in Seq(Cell),
           at + Len(part) <= nChunkSize
    PROVE  /\ Copied(c, at, part) \in [Slots -> Cell]
           /\ \A i \in Slots : i < at \/ i >= at + Len(part) => Copied(c, at, part)[i] = c.vData[i]
           /\ \A i \in 1..Len(part) : Copied(c, at, part)[at + i - 1] = part[i]
<1> DEFINE f == Copied(c, at, part)
           n == Len(part)
<1>1. n \in Nat /\ n \in Int /\ nChunkSize \in Int /\ at + n <= nChunkSize
  BY Size
<1>2. c.vData \in [Slots -> Cell]
  BY ChunkOf
<1>3. \A i \in Slots : i \in Int /\ 0 <= i /\ i < nChunkSize
  BY Size DEF Slots
<1>4. f = [i \in Slots |-> IF i \in at..(at + n - 1) THEN part[i - at + 1] ELSE c.vData[i]]
  BY DEF Copied
<1>5. ASSUME NEW i \in Slots PROVE (IF i \in at..(at + n - 1) THEN part[i - at + 1] ELSE c.vData[i]) \in Cell
  <2>1. CASE i \in at..(at + n - 1)
    <3> DEFINE j == i - at + 1
    <3>1. j \in 1..n
      BY <1>1, <1>3, <2>1
    <3> HIDE DEF j
    <3>2. part[j] \in Cell
      BY <3>1
    <3> QED BY <2>1, <3>2 DEF j
  <2>2. CASE ~(i \in at..(at + n - 1))
    BY <1>2, <2>2
  <2> QED BY <2>1, <2>2
<1>6. f \in [Slots -> Cell]
  <2> HIDE DEF n
  <2> QED BY <1>4, <1>5
<1>7. ASSUME NEW i \in Slots, i < at \/ i >= at + n PROVE f[i] = c.vData[i]
  <2>1. ~(i \in at..(at + n - 1))
    BY <1>1, <1>3, <1>7
  <2> HIDE DEF f, n
  <2> QED BY <1>4, <2>1
<1>8. ASSUME NEW i \in 1..n PROVE f[at + i - 1] = part[i]
  <2> DEFINE j == at + i - 1
  <2>1. j \in Slots /\ j \in at..(at + n - 1) /\ j - at + 1 = i
    BY <1>1 DEF Slots
  <2> HIDE DEF f, n, j
  <2>2. f[j] = part[j - at + 1]
    BY <1>4, <2>1
  <2> QED BY <2>1, <2>2 DEF j
<1> QED BY <1>6, <1>7, <1>8

(* A chunk with an array behind its elements, and one with an array before
   them.                                                                   *)
Poured(c, part) ==
    [nHead |-> c.nHead, nTail |-> c.nTail + Len(part), vData |-> Copied(c, c.nTail, part)]

Stacked(c, part) ==
    [nHead |-> c.nHead - Len(part), nTail |-> c.nTail, vData |-> Copied(c, c.nHead - Len(part), part)]

LEMMA PouredOf ==
    ASSUME NEW c \in Chunk, c.nHead <= c.nTail, NEW part \in Seq(Cell),
           c.nTail + Len(part) <= nChunkSize
    PROVE  /\ Poured(c, part) \in Chunk /\ Poured(c, part).nHead = c.nHead
           /\ Poured(c, part).nTail = c.nTail + Len(part)
           /\ Elements(Poured(c, part)) = Elements(c) \o part
<1> DEFINE t == c.nTail
           f == Copied(c, t, part)
           x == Poured(c, part)
<1>1. /\ c.nHead \in Int /\ 0 <= c.nHead /\ c.nHead <= nChunkSize /\ t \in Int /\ 0 <= t
      /\ nChunkSize \in Int /\ Len(part) \in Nat
  BY ChunkOf, Size
<1>2. /\ f \in [Slots -> Cell]
      /\ \A i \in Slots : i < t \/ i >= t + Len(part) => f[i] = c.vData[i]
      /\ \A i \in 1..Len(part) : f[t + i - 1] = part[i]
  BY <1>1, CopiedOf
<1>3. x = [nHead |-> c.nHead, nTail |-> t + Len(part), vData |-> f]
  BY DEF Poured
<1>4. c.nHead \in 0..nChunkSize /\ t + Len(part) \in 0..nChunkSize
  BY <1>1
<1> HIDE DEF f, x
<1>5. x \in Chunk /\ x.nHead = c.nHead /\ x.nTail = t + Len(part) /\ x.vData = f
  BY <1>2, <1>3, <1>4, AsChunk
<1>6. \A i \in Slots : i >= c.nHead /\ i < t => x.vData[i] = c.vData[i]
  BY <1>2, <1>5
<1>7. \A i \in 1..Len(part) : x.vData[t + i - 1] = part[i]
  BY <1>2, <1>5
<1>8. Elements(x) = Elements(c) \o part
  BY <1>5, <1>6, <1>7, ElementsBehind
<1> QED BY <1>5, <1>8 DEF x

LEMMA StackedOf ==
    ASSUME NEW c \in Chunk, c.nHead <= c.nTail, NEW part \in Seq(Cell), Len(part) <= c.nHead
    PROVE  /\ Stacked(c, part) \in Chunk /\ Stacked(c, part).nTail = c.nTail
           /\ Stacked(c, part).nHead = c.nHead - Len(part)
           /\ Elements(Stacked(c, part)) = part \o Elements(c)
<1> DEFINE h == c.nHead - Len(part)
           f == Copied(c, h, part)
           x == Stacked(c, part)
<1>1. /\ c.nHead \in Int /\ 0 <= c.nHead /\ c.nHead <= nChunkSize /\ c.nTail \in Int /\ c.nTail <= nChunkSize
      /\ 0 <= c.nTail /\ nChunkSize \in Int /\ Len(part) \in Nat
  BY ChunkOf, Size
<1>0. h \in Int /\ 0 <= h /\ h + Len(part) = c.nHead /\ h + Len(part) <= nChunkSize
  BY <1>1
<1>3. x = [nHead |-> h, nTail |-> c.nTail, vData |-> f]
  BY DEF Stacked
<1>4. h \in 0..nChunkSize /\ c.nTail \in 0..nChunkSize
  BY <1>1
<1>9. h = c.nHead - Len(part)
  OBVIOUS
<1> HIDE DEF h
<1>2. /\ f \in [Slots -> Cell]
      /\ \A i \in Slots : i < h \/ i >= h + Len(part) => f[i] = c.vData[i]
      /\ \A i \in 1..Len(part) : f[h + i - 1] = part[i]
  BY <1>0, CopiedOf
<1> HIDE DEF f, x
<1>5. x \in Chunk /\ x.nHead = h /\ x.nTail = c.nTail /\ x.vData = f
  BY <1>2, <1>3, <1>4, AsChunk
<1>6. \A i \in Slots : i >= c.nHead /\ i < c.nTail => x.vData[i] = c.vData[i]
  BY <1>0, <1>2, <1>5
<1>7. \A i \in 1..Len(part) : x.vData[x.nHead + i - 1] = part[i]
  BY <1>2, <1>5
<1>8. Elements(x) = part \o Elements(c)
  <2>1. x \in Chunk /\ x.nTail = c.nTail /\ x.nHead = c.nHead - Len(part)
    BY <1>5, <1>9
  <2> QED BY <1>6, <1>7, <2>1, ElementsBefore
<1> QED BY <1>5, <1>8, <1>9 DEF x

-----------------------------------------------------------------------------
(* Chunks whose last one, or whose first one, has taken in an array.       *)

LEMMA PutOf ==
    ASSUME NEW u \in Seq(Chunk), NEW k \in 1..Len(u), NEW c \in Chunk
    PROVE  /\ Put(u, k, c) \in Seq(Chunk) /\ Len(Put(u, k, c)) = Len(u) /\ Put(u, k, c)[k] = c
           /\ Len(u) \in Nat \ {0} /\ 1 \in 1..Len(u) /\ Len(u) \in 1..Len(u)
           /\ \A i \in 1..Len(u) : i # k => Put(u, k, c)[i] = u[i]
  BY DEF Put

LEMMA LastFilled ==
    ASSUME NEW p \in Seq(Chunk), p # << >>, Loose(p), Len(p) > 1 => p[1].nHead < nChunkSize,
           NEW part \in Seq(Cell), p[Len(p)].nTail + Len(part) <= nChunkSize,
           p[Len(p)].nHead < p[Len(p)].nTail \/ Len(part) > 0,
           NEW y, y = Put(p, Len(p), Poured(p[Len(p)], part))
    PROVE  /\ y \in Rows /\ y # << >> /\ Len(y) = Len(p)
           /\ y[Len(y)].nTail = p[Len(p)].nTail + Len(part)
           /\ Contents(y) = Contents(p) \o part
<1> DEFINE k == Len(p)
           a == p[k]
           c == Poured(a, part)
<1>1. k \in Nat \ {0} /\ 1 \in 1..Len(p) /\ k \in 1..Len(p) /\ a \in Chunk /\ p[1] \in Chunk
  BY SpanOf
<1>2. /\ a.nHead <= a.nTail /\ a.nHead \in Int /\ a.nTail \in Int /\ p[1].nHead \in Int
      /\ k > 1 => a.nHead = 0 /\ p[1].nTail = nChunkSize
  BY <1>1, ChunkOf DEF Loose
<1>3. /\ c \in Chunk /\ c.nHead = a.nHead /\ c.nTail = a.nTail + Len(part)
      /\ Elements(c) = Elements(a) \o part
  BY <1>1, <1>2, PouredOf
<1>4. Len(part) \in Nat
  OBVIOUS
<1>5. c.nHead < c.nTail /\ c.nHead <= c.nTail
  <2> HIDE DEF c
  <2> QED BY <1>2, <1>3, <1>4
<1>6. y = Put(p, k, c)
  OBVIOUS
<1> HIDE DEF c
<1>7. /\ y \in Seq(Chunk) /\ Len(y) = k /\ y[k] = c
      /\ \A i \in 1..k : i # k => y[i] = p[i]
  <2>1. k \in 1..Len(p)
    BY <1>1
  <2> HIDE DEF k, a
  <2>2. /\ Put(p, k, c) \in Seq(Chunk) /\ Len(Put(p, k, c)) = Len(p) /\ Put(p, k, c)[k] = c
        /\ \A i \in 1..Len(p) : i # k => Put(p, k, c)[i] = p[i]
    BY <1>3, <2>1, PutOf
  <2> QED BY <1>6, <2>2 DEF k
<1>8. Contents(y) = Contents(p) \o part
  BY <1>3, <1>6, ContentsLast DEF Put
<1>9. Loose(y)
  <2> SUFFICES ASSUME NEW i \in DOMAIN y
               PROVE  /\ y[i].nHead <= y[i].nTail
                      /\ i > 1 => y[i].nHead = 0
                      /\ i < Len(y) => y[i].nTail = nChunkSize
    BY DEF Loose
  <2>1. i \in 1..k /\ i \in DOMAIN p
    BY <1>7
  <2>2. CASE i = k
    BY <1>2, <1>3, <1>5, <1>7, <2>2
  <2>3. CASE i # k
    BY <1>7, <2>1, <2>3 DEF Loose
  <2> QED BY <2>2, <2>3
<1>10. y[1].nHead < y[1].nTail /\ y # << >>
  <2>1. CASE k = 1
    BY <1>5, <1>7, <2>1
  <2>2. CASE k > 1
    <3>1. y[1] = p[1]
      BY <1>1, <1>7, <2>2
    <3> QED BY <1>2, <1>7, <2>2, <3>1
  <2>3. k = 1 \/ k > 1
    <3>1. k \in Nat \ {0}
      BY <1>1
    <3> HIDE DEF k
    <3> QED BY <3>1
  <2> QED BY <2>1, <2>2, <2>3
<1>11. y \in Rows
  BY <1>5, <1>7, <1>9, <1>10, Tight
<1> QED BY <1>3, <1>7, <1>8, <1>10, <1>11

LEMMA FirstFilled ==
    ASSUME NEW p \in Seq(Chunk), p # << >>, Loose(p),
           Len(p) > 1 => p[Len(p)].nHead < p[Len(p)].nTail,
           NEW part \in Seq(Cell), Len(part) <= p[1].nHead,
           p[1].nHead < p[1].nTail \/ Len(part) > 0,
           NEW y, y = Put(p, 1, Stacked(p[1], part))
    PROVE  /\ y \in Rows /\ y # << >> /\ Len(y) = Len(p)
           /\ y[1].nHead = p[1].nHead - Len(part)
           /\ Contents(y) = part \o Contents(p)
<1> DEFINE k == Len(p)
           a == p[1]
           c == Stacked(a, part)
<1>1. k \in Nat \ {0} /\ 1 \in 1..Len(p) /\ k \in 1..Len(p) /\ a \in Chunk /\ p[k] \in Chunk
  BY SpanOf
<1>2. /\ a.nHead <= a.nTail /\ a.nHead \in Int /\ a.nTail \in Int
      /\ k > 1 => a.nTail = nChunkSize
  BY <1>1, ChunkOf DEF Loose
<1>3. /\ c \in Chunk /\ c.nTail = a.nTail /\ c.nHead = a.nHead - Len(part)
      /\ Elements(c) = part \o Elements(a)
  BY <1>1, <1>2, StackedOf
<1>4. Len(part) \in Nat
  OBVIOUS
<1>5. c.nHead < c.nTail /\ c.nHead <= c.nTail
  <2> HIDE DEF c
  <2> QED BY <1>2, <1>3, <1>4
<1>6. y = Put(p, 1, c)
  OBVIOUS
<1> HIDE DEF c
<1>7. /\ y \in Seq(Chunk) /\ Len(y) = k /\ y[1] = c
      /\ \A i \in 1..k : i # 1 => y[i] = p[i]
  <2>1. 1 \in 1..Len(p)
    BY <1>1
  <2> HIDE DEF a
  <2>2. /\ Put(p, 1, c) \in Seq(Chunk) /\ Len(Put(p, 1, c)) = Len(p) /\ Put(p, 1, c)[1] = c
        /\ \A i \in 1..Len(p) : i # 1 => Put(p, 1, c)[i] = p[i]
    BY <1>3, <2>1, PutOf
  <2> QED BY <1>6, <2>2 DEF k
<1>8. Contents(y) = part \o Contents(p)
  BY <1>3, <1>6, ContentsFirst DEF Put
<1>9. Loose(y)
  <2> SUFFICES ASSUME NEW i \in DOMAIN y
               PROVE  /\ y[i].nHead <= y[i].nTail
                      /\ i > 1 => y[i].nHead = 0
                      /\ i < Len(y) => y[i].nTail = nChunkSize
    BY DEF Loose
  <2>1. i \in 1..k /\ i \in DOMAIN p
    BY <1>7
  <2>2. CASE i = 1
    BY <1>2, <1>3, <1>5, <1>7, <2>2
  <2>3. CASE i # 1
    BY <1>7, <2>1, <2>3 DEF Loose
  <2> QED BY <2>2, <2>3
<1>10. y[Len(y)].nHead < y[Len(y)].nTail /\ y # << >>
  <2>1. CASE k = 1
    BY <1>5, <1>7, <2>1
  <2>2. CASE k > 1
    <3>1. y[k] = p[k]
      BY <1>1, <1>7, <2>2
    <3> QED BY <1>7, <2>2, <3>1
  <2>3. k = 1 \/ k > 1
    <3>1. k \in Nat \ {0}
      BY <1>1
    <3> HIDE DEF k
    <3> QED BY <3>1
  <2> QED BY <2>1, <2>2, <2>3
<1>11. y \in Rows
  BY <1>5, <1>7, <1>9, <1>10, Tight
<1> QED BY <1>3, <1>7, <1>8, <1>10, <1>11

(* What lies between two cuts, and the chunks it is poured into or stacked
   in.                                                                     *)
Slab(s, cut, i) == SubSeq(s, cut[i - 1] + 1, cut[i])

Pours(b, s, cut) == [i \in 1..Len(b) |-> Poured(b[i], Slab(s, cut, i))]

Stacks(b, s, cut) == [i \in 1..Len(b) |-> Stacked(AtHead(b[i]), Slab(s, cut, i))]

Gap(cut, i) == cut[i] - cut[i - 1]

LEMMA SlabOf ==
    ASSUME NEW s \in Seq(Cell), NEW m \in Nat, NEW cut, Cuts(cut, m, Len(s)), NEW i \in 1..m
    PROVE  /\ Slab(s, cut, i) \in Seq(Cell) /\ Len(Slab(s, cut, i)) = Gap(cut, i)
           /\ Gap(cut, i) \in Nat \ {0}
<1> DEFINE a == cut[i - 1]
           b == cut[i]
<1>1. i \in 0..m /\ i - 1 \in 0..m
  OBVIOUS
<1>2. a \in 0..Len(s) /\ b \in 0..Len(s) /\ a < b
  BY <1>1 DEF Cuts
<1>3. Slab(s, cut, i) = SubSeq(s, a + 1, b)
  BY DEF Slab
<1> HIDE DEF a, b
<1>4. /\ Len(s) \in Nat /\ a + 1 \in 1..(Len(s) + 1) /\ b \in ((a + 1) - 1)..Len(s)
      /\ b - (a + 1) + 1 = b - a /\ b - a \in Nat \ {0}
  BY <1>2
<1>5. SubSeq(s, a + 1, b) \in Seq(Cell) /\ Len(SubSeq(s, a + 1, b)) = b - (a + 1) + 1
  BY <1>4, Slice
<1> QED BY <1>3, <1>4, <1>5 DEF a, b, Gap

FullButLast(cut, m) ==
    \A i \in 1..m : Gap(cut, i) <= nChunkSize /\ (i < m => Gap(cut, i) = nChunkSize)

FullButFirst(cut, m) ==
    \A i \in 1..m : Gap(cut, i) <= nChunkSize /\ (i > 1 => Gap(cut, i) = nChunkSize)

Cleared(b) == \A i \in 1..Len(b) : b[i].nHead = 0 /\ b[i].nTail = 0

LEMMA DealtBack ==
    ASSUME NEW b \in Seq(Chunk), NEW s \in Seq(Cell), NEW cut, NEW m \in Nat, m = Len(b),
           Cuts(cut, m, Len(s)),
           \A i \in 1..m : b[i].nHead = 0 /\ b[i].nTail = 0,
           FullButLast(cut, m)
    PROVE  /\ Pours(b, s, cut) \in Rows /\ Len(Pours(b, s, cut)) = m
           /\ m > 0 => Pours(b, s, cut)[1].nHead = 0
           /\ Contents(Pours(b, s, cut)) = SubSeq(s, cut[0] + 1, cut[m])
<1> DEFINE x == Pours(b, s, cut)
<1>1. ASSUME NEW i \in 1..m
      PROVE  /\ Poured(b[i], Slab(s, cut, i)) \in Chunk
             /\ Poured(b[i], Slab(s, cut, i)).nHead = 0
             /\ Poured(b[i], Slab(s, cut, i)).nTail = Gap(cut, i)
             /\ Gap(cut, i) \in Nat \ {0}
             /\ Elements(Poured(b[i], Slab(s, cut, i))) = Slab(s, cut, i)
  <2> DEFINE part == Slab(s, cut, i)
             n == Gap(cut, i)
             c == b[i]
  <2>0. n <= nChunkSize
    BY DEF FullButLast, FullButFirst
  <2> HIDE DEF n
  <2>1. part \in Seq(Cell) /\ Len(part) = n /\ n \in Nat \ {0} /\ n <= nChunkSize
    BY <2>0, SlabOf DEF n
  <2>2. c \in Chunk /\ c.nHead = 0 /\ c.nTail = 0
    OBVIOUS
  <2> HIDE DEF part, n, c
  <2>3. c.nHead <= c.nTail /\ c.nTail + Len(part) = n /\ c.nTail + Len(part) <= nChunkSize
        /\ c.nHead >= c.nTail
    BY <2>1, <2>2
  <2>4. /\ Poured(c, part) \in Chunk /\ Poured(c, part).nHead = 0 /\ Poured(c, part).nTail = n
        /\ Elements(Poured(c, part)) = Elements(c) \o part
    BY <2>1, <2>2, <2>3, PouredOf
  <2>5. Elements(c) = << >>
    BY <2>2, <2>3, ElementsOf
  <2>6. << >> \o part = part
    BY <2>1
  <2> QED BY <2>1, <2>4, <2>5, <2>6 DEF part, n, c
<1>2. x = [i \in 1..m |-> Poured(b[i], Slab(s, cut, i))]
  BY DEF Pours
<1> HIDE DEF x
<1>3. /\ x \in Seq(Chunk) /\ Len(x) = m /\ DOMAIN x = 1..m
      /\ \A i \in 1..m : x[i] = Poured(b[i], Slab(s, cut, i))
  BY <1>1, <1>2
<1>4. \A i \in 1..m : /\ x[i].nHead = 0 /\ x[i].nTail = Gap(cut, i)
                      /\ Gap(cut, i) \in Nat \ {0}
                      /\ Elements(x[i]) = SubSeq(s, cut[i - 1] + 1, cut[i])
  BY <1>1, <1>3 DEF Slab
<1>5. Gapless(x)
  <2> SUFFICES ASSUME NEW i \in DOMAIN x
               PROVE  /\ x[i].nHead < x[i].nTail
                      /\ i > 1 => x[i].nHead = 0
                      /\ i < Len(x) => x[i].nTail = nChunkSize
    BY DEF Gapless
  <2> DEFINE n == Gap(cut, i)
  <2>0. i \in 1..m
    BY <1>3
  <2>1. i \in 1..m /\ x[i].nHead = 0 /\ x[i].nTail = n /\ n \in Nat \ {0}
        /\ (i < m => n = nChunkSize)
    BY <1>4, <2>0 DEF FullButLast, FullButFirst
  <2> HIDE DEF n
  <2> QED BY <1>3, <2>1
<1>6. Dealt(x, s, cut)
  BY <1>3, <1>4 DEF Dealt
<1>7. Contents(x) = SubSeq(s, cut[0] + 1, cut[m])
  BY <1>3, <1>6, ContentsDealt
<1>8. m > 0 => x[1].nHead = 0
  BY <1>4
<1> QED BY <1>3, <1>5, <1>7, <1>8 DEF Rows, x

LEMMA DealtFront ==
    ASSUME NEW b \in Seq(Chunk), NEW s \in Seq(Cell), NEW cut, NEW m \in Nat, m = Len(b),
           Cuts(cut, m, Len(s)),
           FullButFirst(cut, m)
    PROVE  /\ Stacks(b, s, cut) \in Rows /\ Len(Stacks(b, s, cut)) = m
           /\ m > 0 => Stacks(b, s, cut)[m].nTail = nChunkSize
           /\ Contents(Stacks(b, s, cut)) = SubSeq(s, cut[0] + 1, cut[m])
<1> DEFINE x == Stacks(b, s, cut)
<1>1. ASSUME NEW i \in 1..m
      PROVE  /\ Stacked(AtHead(b[i]), Slab(s, cut, i)) \in Chunk
             /\ Stacked(AtHead(b[i]), Slab(s, cut, i)).nTail = nChunkSize
             /\ Stacked(AtHead(b[i]), Slab(s, cut, i)).nHead = nChunkSize - Gap(cut, i)
             /\ Gap(cut, i) \in Nat \ {0}
             /\ Elements(Stacked(AtHead(b[i]), Slab(s, cut, i))) = Slab(s, cut, i)
  <2> DEFINE part == Slab(s, cut, i)
             n == Gap(cut, i)
             c == AtHead(b[i])
  <2>0. n <= nChunkSize
    BY DEF FullButLast, FullButFirst
  <2> HIDE DEF n
  <2>1. part \in Seq(Cell) /\ Len(part) = n /\ n \in Nat \ {0} /\ n <= nChunkSize
    BY <2>0, SlabOf DEF n
  <2>2. c \in Chunk /\ c.nHead = nChunkSize /\ c.nTail = nChunkSize /\ nChunkSize \in Int
    BY AtHeadOf, Size
  <2> HIDE DEF part, n, c
  <2>3. c.nHead <= c.nTail /\ Len(part) <= c.nHead /\ c.nHead >= c.nTail
    BY <2>1, <2>2
  <2>4. /\ Stacked(c, part) \in Chunk /\ Stacked(c, part).nTail = c.nTail
        /\ Stacked(c, part).nHead = c.nHead - Len(part)
        /\ Elements(Stacked(c, part)) = part \o Elements(c)
    BY <2>1, <2>2, <2>3, StackedOf
  <2>5. Elements(c) = << >>
    BY <2>2, <2>3, ElementsOf
  <2>6. part \o << >> = part
    BY <2>1
  <2> QED BY <2>1, <2>2, <2>4, <2>5, <2>6 DEF part, n, c
<1>2. x = [i \in 1..m |-> Stacked(AtHead(b[i]), Slab(s, cut, i))]
  BY DEF Stacks
<1> HIDE DEF x
<1>3. /\ x \in Seq(Chunk) /\ Len(x) = m /\ DOMAIN x = 1..m
      /\ \A i \in 1..m : x[i] = Stacked(AtHead(b[i]), Slab(s, cut, i))
  BY <1>1, <1>2
<1>4. \A i \in 1..m : /\ x[i].nTail = nChunkSize
                      /\ x[i].nHead = nChunkSize - Gap(cut, i)
                      /\ Gap(cut, i) \in Nat \ {0}
                      /\ Elements(x[i]) = SubSeq(s, cut[i - 1] + 1, cut[i])
  BY <1>1, <1>3 DEF Slab
<1>5. Gapless(x)
  <2> SUFFICES ASSUME NEW i \in DOMAIN x
               PROVE  /\ x[i].nHead < x[i].nTail
                      /\ i > 1 => x[i].nHead = 0
                      /\ i < Len(x) => x[i].nTail = nChunkSize
    BY DEF Gapless
  <2> DEFINE n == Gap(cut, i)
  <2>0. i \in 1..m
    BY <1>3
  <2>1. i \in 1..m /\ x[i].nHead = nChunkSize - n /\ x[i].nTail = nChunkSize /\ n \in Nat \ {0}
        /\ (i > 1 => n = nChunkSize)
    BY <1>4, <2>0 DEF FullButLast, FullButFirst
  <2> HIDE DEF n
  <2> QED BY <1>3, <2>1, Size
<1>6. Dealt(x, s, cut)
  BY <1>3, <1>4 DEF Dealt
<1>7. Contents(x) = SubSeq(s, cut[0] + 1, cut[m])
  BY <1>3, <1>6, ContentsDealt
<1>8. m > 0 => x[m].nTail = nChunkSize
  BY <1>4
<1> QED BY <1>3, <1>5, <1>7, <1>8 DEF Rows, x

(* Where a push to the back cuts an array of n elements, the first of which
   go into the tail, and where a push to the front cuts one of which g
   elements do not fit into the head.                                      *)
BackCut(share, m, n) == [i \in 0..m |-> MinOf(share + i * nChunkSize, n)]

FrontCut(g, m) == [i \in 0..m |-> IF i = 0 THEN 0 ELSE g - (m - i) * nChunkSize]

(* The m chunks are as many as it takes for n elements.                    *)
Enough(n, m) ==
    IF m = 0 THEN n = 0 ELSE (m - 1) * nChunkSize < n /\ n <= m * nChunkSize

Opens(cut, share, m, n) == \A i \in 0..(m - 1) : cut[i] = share + i * nChunkSize /\ cut[i] < n

LEMMA BackCuts ==
    ASSUME NEW m \in Nat, NEW n \in Nat, NEW share \in 0..n, Enough(n - share, m),
           NEW cut, cut = BackCut(share, m, n)
    PROVE  /\ Cuts(cut, m, n) /\ cut[0] = share /\ cut[m] = n
           /\ FullButLast(cut, m)
           /\ Opens(cut, share, m, n)
<1> DEFINE S == nChunkSize
<1>1. S \in Int /\ S > 0 /\ share \in Int /\ 0 <= share /\ share <= n /\ n \in Int
  BY Size
<1>2. \A i \in 0..m : cut[i] = MinOf(share + i * S, n)
  BY DEF BackCut
<1>3. ASSUME NEW i \in 0..(m - 1)
      PROVE  cut[i] = share + i * S /\ cut[i] < n /\ cut[i] \in 0..n /\ i * S \in Int
  <2>1. i \in Int /\ m - 1 \in Int /\ i <= m - 1 /\ i \in 0..m /\ m # 0
    OBVIOUS
  <2>2. i * S <= (m - 1) * S /\ i * S \in Int /\ (m - 1) * S \in Int
    BY <2>1, Monotone
  <2>3. i * S >= 0
    BY <2>1, Product
  <2>4. (m - 1) * S < n - share
    BY <2>1 DEF Enough
  <2> DEFINE p == i * S
             q == (m - 1) * S
             r == share + p
  <2> HIDE DEF p, q, S, r
  <2>5. r \in Int /\ r < n /\ r >= 0 /\ r = share + p
    BY <1>1, <2>2, <2>3, <2>4 DEF p, q, r
  <2>6. MinOf(r, n) = r
    BY <1>1, <2>5 DEF MinOf
  <2>7. cut[i] = r
    BY <1>2, <2>1, <2>6 DEF r, p
  <2> QED BY <1>1, <2>2, <2>5, <2>7 DEF p
<1>4. cut[m] = n /\ (m = 0 => share = n)
  <2> DEFINE p == m * S
             r == share + p
  <2>1. m \in Int /\ p \in Int /\ (m = 0 => p = 0)
    BY Product
  <2>2. m # 0 => n - share <= p
    BY DEF Enough
  <2>3. m = 0 => n - share = 0
    BY DEF Enough
  <2> HIDE DEF p, S
  <2>4. r \in Int /\ n <= r /\ (m = 0 => share = n)
    BY <1>1, <2>1, <2>2, <2>3
  <2> HIDE DEF r
  <2>5. MinOf(r, n) = n
    BY <1>1, <2>4, MinOfIs
  <2>6. m \in 0..m
    OBVIOUS
  <2> QED BY <1>2, <2>4, <2>5, <2>6 DEF r, p
<1>5. cut[0] = share
  <2>1. CASE m = 0
    BY <1>4, <2>1
  <2>2. CASE m # 0
    <3>1. 0 \in 0..(m - 1)
      BY <2>2
    <3>2. 0 * S = 0
      BY Product
    <3> QED BY <1>1, <1>3, <3>1, <3>2
  <2> QED BY <2>1, <2>2
<1>6. ASSUME NEW i \in 1..m
      PROVE  /\ cut[i - 1] < cut[i] /\ Gap(cut, i) <= S
             /\ i < m => Gap(cut, i) = S
  <2> DEFINE p == i * S
             q == (i - 1) * S
             a == cut[i - 1]
             b == cut[i]
  <2>1. i \in Int /\ i - 1 \in 0..(m - 1)
    OBVIOUS
  <2>2. p \in Int /\ q = p - S
    BY <2>1, Product
  <2>3. a = share + q /\ a < n
    BY <1>3, <2>1
  <2>4. CASE i < m
    <3>1. i \in 0..(m - 1)
      BY <2>4
    <3>2. b = share + p
      BY <1>3, <3>1
    <3> HIDE DEF p, q, a, b, S
    <3>3. a < b /\ b - a = S
      BY <1>1, <2>2, <2>3, <3>2
    <3> QED BY <1>1, <3>3 DEF a, b, Gap
  <2>5. CASE ~(i < m)
    <3>1. i = m
      BY <2>5
    <3>2. b = n
      BY <1>4, <3>1
    <3>3. n - share <= p
      <4>1. m # 0
        OBVIOUS
      <4> QED BY <3>1, <4>1 DEF Enough
    <3> HIDE DEF p, q, a, b, S
    <3>4. a < b /\ b - a <= S
      BY <1>1, <2>2, <2>3, <3>2, <3>3
    <3> QED BY <2>5, <3>4 DEF a, b, Gap
  <2> QED BY <2>4, <2>5
<1>7. cut \in [0..m -> 0..n]
  <2>1. ASSUME NEW i \in 0..m PROVE cut[i] \in 0..n
    <3>1. CASE i = m
      BY <1>1, <1>4, <3>1
    <3>2. CASE i # m
      <4>1. i \in 0..(m - 1)
        BY <3>2
      <4> QED BY <1>3, <4>1
    <3> QED BY <3>1, <3>2
  <2>2. DOMAIN cut = 0..m /\ cut = [i \in 0..m |-> cut[i]]
    BY DEF BackCut
  <2> QED BY <2>1, <2>2
<1>8. Cuts(cut, m, n)
  BY <1>6, <1>7 DEF Cuts
<1> QED BY <1>3, <1>4, <1>5, <1>6, <1>8 DEF Opens, FullButLast

LEMMA FrontCuts ==
    ASSUME NEW m \in Nat, NEW n \in Nat, NEW g \in 0..n, Enough(g, m),
           NEW cut, cut = FrontCut(g, m)
    PROVE  /\ Cuts(cut, m, n) /\ cut[0] = 0 /\ cut[m] = g
           /\ FullButFirst(cut, m)
           /\ \A i \in 1..m : cut[i] = g - (m - i) * nChunkSize /\ cut[i] > 0
<1> DEFINE S == nChunkSize
<1>1. S \in Int /\ S > 0 /\ g \in Int /\ 0 <= g /\ g <= n /\ n \in Int
  BY Size
<1>2. cut[0] = 0 /\ \A i \in 1..m : cut[i] = g - (m - i) * S
  BY DEF FrontCut
<1>3. ASSUME NEW i \in 1..m
      PROVE  cut[i] = g - (m - i) * S /\ cut[i] > 0 /\ cut[i] \in 0..n
  <2> DEFINE k == m - i
             p == k * S
             q == (m - 1) * S
  <2>1. k \in Int /\ m - 1 \in Int /\ 0 <= k /\ k <= m - 1 /\ m # 0
    OBVIOUS
  <2> HIDE DEF k
  <2>2. p <= q /\ p \in Int /\ q \in Int /\ p >= 0
    BY <2>1, Monotone, Product
  <2>3. q < g
    BY <2>1 DEF Enough
  <2>4. cut[i] = g - p
    BY <1>2 DEF k
  <2> HIDE DEF p, q
  <2>5. cut[i] > 0 /\ cut[i] \in 0..n
    BY <1>1, <2>2, <2>3, <2>4
  <2> QED BY <1>2, <2>5
<1>4. cut[m] = g
  <2>1. CASE m = 0
    BY <1>2, <2>1 DEF Enough
  <2>2. CASE m # 0
    <3>1. m \in 1..m /\ m - m = 0
      BY <2>2
    <3>2. 0 * S = 0
      BY Product
    <3>3. cut[m] = g - 0
      BY <1>2, <3>1, <3>2
    <3> QED BY <1>1, <3>3
  <2> QED BY <2>1, <2>2
<1>6. ASSUME NEW i \in 1..m
      PROVE  /\ cut[i - 1] < cut[i] /\ Gap(cut, i) <= S
             /\ i > 1 => Gap(cut, i) = S
  <2> DEFINE k == m - i
             p == k * S
             q == (k + 1) * S
             a == cut[i - 1]
             b == cut[i]
  <2>1. k \in Int /\ k + 1 = m - (i - 1)
    OBVIOUS
  <2>4. CASE i > 1
    <3>1. i - 1 \in 1..m
      BY <2>4
    <3>2. a = g - (m - (i - 1)) * S /\ b = g - p
      BY <1>2, <3>1
    <3>3. a = g - q
      BY <2>1, <3>2
    <3> HIDE DEF k
    <3>4. p \in Int /\ q = p + S
      BY <2>1, Product
    <3>5. b = g - p
      BY <3>2
    <3> HIDE DEF p, q, a, b, S
    <3>6. a < b /\ b - a = S
      BY <1>1, <3>3, <3>4, <3>5
    <3> QED BY <1>1, <3>6 DEF a, b, Gap
  <2>5. CASE ~(i > 1)
    <3>1. i = 1 /\ m # 0
      BY <2>5
    <3>2. a = 0
      BY <1>2, <3>1
    <3>3. b = g - (m - 1) * S
      BY <1>2, <3>1
    <3> DEFINE x == m * S
               y == (m - 1) * S
    <3>4. x \in Int /\ y = x - S /\ y < g /\ g <= x
      BY <3>1, Product DEF Enough
    <3>5. b = g - y
      BY <3>3
    <3> HIDE DEF x, y, a, b, S
    <3>6. a < b /\ b - a <= S
      BY <1>1, <3>2, <3>4, <3>5
    <3> QED BY <2>5, <3>6 DEF a, b, Gap
  <2> QED BY <2>4, <2>5
<1>7. cut \in [0..m -> 0..n]
  <2>1. ASSUME NEW i \in 0..m PROVE cut[i] \in 0..n
    <3>1. CASE i = 0
      BY <1>1, <1>2, <3>1
    <3>2. CASE i # 0
      <4>1. i \in 1..m
        BY <3>2
      <4> QED BY <1>3, <4>1
    <3> QED BY <3>1, <3>2
  <2>2. DOMAIN cut = 0..m /\ cut = [i \in 0..m |-> cut[i]]
    BY DEF FrontCut
  <2> QED BY <2>1, <2>2
<1>8. Cuts(cut, m, n)
  BY <1>6, <1>7 DEF Cuts
<1> QED BY <1>2, <1>3, <1>4, <1>6, <1>8 DEF FullButFirst

-----------------------------------------------------------------------------
(* The copy of push_back(array): into the last chunk in use and those which
   were linked behind it.                                                  *)

LEMMA TwoSlices ==
    ASSUME NEW s \in Seq(Cell), NEW share \in 0..Len(s)
    PROVE  /\ SubSeq(s, 1, share) \in Seq(Cell) /\ Len(SubSeq(s, 1, share)) = share
           /\ SubSeq(s, share + 1, Len(s)) \in Seq(Cell)
           /\ Len(SubSeq(s, share + 1, Len(s))) = Len(s) - share
           /\ SubSeq(s, 1, share) \o SubSeq(s, share + 1, Len(s)) = s
<1> DEFINE n == Len(s)
<1>1. /\ n \in Nat /\ 1 \in 1..(n + 1) /\ share \in (1 - 1)..n /\ share - 1 + 1 = share
      /\ share + 1 \in 1..(n + 1) /\ n \in ((share + 1) - 1)..n /\ n - (share + 1) + 1 = n - share
      /\ 0 \in 0..n /\ share \in 0..n /\ n \in share..n
  OBVIOUS
<1>2. SubSeq(s, 1, share) \in Seq(Cell) /\ Len(SubSeq(s, 1, share)) = share
  <2>1. SubSeq(s, 1, share) \in Seq(Cell) /\ Len(SubSeq(s, 1, share)) = share - 1 + 1
    BY <1>1, Slice
  <2> QED BY <1>1, <2>1
<1>3. SubSeq(s, share + 1, n) \in Seq(Cell) /\ Len(SubSeq(s, share + 1, n)) = n - share
  <2>1. SubSeq(s, share + 1, n) \in Seq(Cell) /\ Len(SubSeq(s, share + 1, n)) = n - (share + 1) + 1
    BY <1>1, Slice
  <2> QED BY <1>1, <2>1
<1>4. SubSeq(s, 1, share) \o SubSeq(s, share + 1, n) = SubSeq(s, 1, n)
  <2> DEFINE zero == 0
  <2>1. zero + 1 = 1 /\ zero \in 0..Len(s) /\ share \in zero..Len(s) /\ n \in share..Len(s)
    BY <1>1
  <2> HIDE DEF zero, n
  <2>2. SubSeq(s, zero + 1, share) \o SubSeq(s, share + 1, n) = SubSeq(s, zero + 1, n)
    BY <2>1, SlicesJoin
  <2> QED BY <2>1, <2>2
<1>5. SubSeq(s, 1, n) = s
  BY WholeSlice
<1> QED BY <1>2, <1>3, <1>4, <1>5

(* The chunks it leaves.                                                   *)
FilledBack(p, b, s, share) ==
    Put(p, Len(p), Poured(p[Len(p)], SubSeq(s, 1, share)))
      \o Pours(b, s, BackCut(share, Len(b), Len(s)))

RoomLeft(p, s) == MinOf(Len(s), nChunkSize - p[Len(p)].nTail)

(* Chunks p, with room for the first elements of s, and new ones for the
   others.                                                                 *)
RoomBack(p, b, s, share) ==
    /\ p \in Seq(Chunk) /\ p # << >> /\ Loose(p) /\ (Len(p) > 1 => p[1].nHead < nChunkSize)
    /\ b \in Seq(Chunk) /\ Cleared(b)
    /\ s \in Seq(Cell) /\ share = RoomLeft(p, s)
    /\ Enough(Len(s) - share, Len(b))
    /\ p[Len(p)].nHead < p[Len(p)].nTail \/ share > 0

LEMMA FilledBackIs ==
    ASSUME NEW p, NEW b, NEW s, NEW share, RoomBack(p, b, s, share)
    PROVE  /\ share \in 0..Len(s)
           /\ FilledBack(p, b, s, share) \in Rows
           /\ Len(FilledBack(p, b, s, share)) = Len(p) + Len(b)
           /\ Contents(FilledBack(p, b, s, share)) = Contents(p) \o s
           /\ Poured(p[Len(p)], SubSeq(s, 1, share)) \in Chunk
           /\ Pours(b, s, BackCut(share, Len(b), Len(s))) \in Rows
           /\ Len(Pours(b, s, BackCut(share, Len(b), Len(s)))) = Len(b)
<1> DEFINE k == Len(p)
           m == Len(b)
           n == Len(s)
           a == p[k]
           part == SubSeq(s, 1, share)
           cut == BackCut(share, m, n)
           q == Put(p, k, Poured(a, part))
           x == Pours(b, s, cut)
<1>0. /\ p \in Seq(Chunk) /\ p # << >> /\ Loose(p) /\ (Len(p) > 1 => p[1].nHead < nChunkSize)
      /\ b \in Seq(Chunk) /\ Cleared(b)
      /\ s \in Seq(Cell)
      /\ Enough(n - share, m)
      /\ p[k].nHead < p[k].nTail \/ share > 0
  BY DEF RoomBack
<1> USE <1>0
<1>1. k \in Nat \ {0} /\ m \in Nat /\ n \in Nat /\ a \in Chunk
  BY SpanOf
<1>2. a.nTail \in Int /\ a.nTail <= nChunkSize /\ nChunkSize \in Int /\ 0 <= a.nTail
  BY <1>1, ChunkOf, Size
<1>3. /\ share \in Int /\ share <= n /\ share <= nChunkSize - a.nTail /\ share >= 0
      /\ n > share => share = nChunkSize - a.nTail
  <2> DEFINE f == nChunkSize - a.nTail
           g == MinOf(n, f)
  <2>1. f \in Int /\ f >= 0 /\ share = g
    BY <1>2 DEF RoomLeft, RoomBack
  <2>4. n \in Int
    BY <1>1
  <2> HIDE DEF f, n
  <2>5. /\ g \in Int /\ g <= n /\ g <= f /\ (n <= f => g = n) /\ (f <= n => g = f)
    BY <2>1, <2>4, MinOfIs
  <2> HIDE DEF g
  <2>2. /\ share \in Int /\ share <= n /\ share <= f /\ (n <= f => share = n) /\ (f <= n => share = f)
    BY <2>1, <2>5
  <2>3. share >= 0 /\ (n > share => share = f)
    BY <1>1, <2>1, <2>2
  <2> QED BY <2>2, <2>3 DEF f
<1>4. share \in 0..n
  BY <1>1, <1>3
<1>5. part \in Seq(Cell) /\ Len(part) = share /\ part \o SubSeq(s, share + 1, n) = s
  BY <1>4, TwoSlices
<1>6. m > 0 => share = nChunkSize - a.nTail
  <2> DEFINE r == (m - 1) * nChunkSize
  <2>1. ASSUME m > 0 PROVE n > share
    <3>1. m - 1 \in Int /\ m - 1 >= 0 /\ m # 0
      BY <1>1, <2>1
    <3>2. r \in Int /\ r >= 0
      BY <3>1, Product
    <3>3. r < n - share
      BY <3>1 DEF Enough
    <3> HIDE DEF r
    <3> QED BY <1>1, <1>3, <3>2, <3>3
  <2> QED BY <1>3, <2>1
<1>7. /\ q \in Rows /\ q # << >> /\ Len(q) = k /\ q[k].nTail = a.nTail + share
      /\ Contents(q) = Contents(p) \o part
  <2>1. a.nTail + Len(part) <= nChunkSize /\ (a.nHead < a.nTail \/ Len(part) > 0)
    BY <1>2, <1>3, <1>5
  <2>2. q = Put(p, Len(p), Poured(p[Len(p)], part))
    OBVIOUS
  <2> HIDE DEF part, q
  <2>3. /\ q \in Rows /\ q # << >> /\ Len(q) = Len(p)
        /\ q[Len(q)].nTail = p[Len(p)].nTail + Len(part)
        /\ Contents(q) = Contents(p) \o part
    BY <1>5, <2>1, <2>2, LastFilled, ZenonT(40)
  <2> QED BY <1>5, <2>3
<1>8. /\ Cuts(cut, m, n) /\ cut[0] = share /\ cut[m] = n
      /\ FullButLast(cut, m)
  <2>1. cut = BackCut(share, m, n) /\ Enough(n - share, m)
    OBVIOUS
  <2> HIDE DEF cut, m, n
  <2> QED BY <1>1, <1>4, <2>1, BackCuts
<1>9. /\ x \in Rows /\ Len(x) = m /\ (m > 0 => x[1].nHead = 0)
      /\ Contents(x) = SubSeq(s, share + 1, n)
  <2>1. \A i \in 1..m : b[i].nHead = 0 /\ b[i].nTail = 0
    BY DEF Cleared
  <2>3. m = Len(b) /\ n = Len(s)
    OBVIOUS
  <2>4. x = Pours(b, s, cut)
    OBVIOUS
  <2> HIDE DEF cut, m, n, x
  <2>5. /\ b \in Seq(Chunk) /\ s \in Seq(Cell) /\ m \in Nat /\ m = Len(b)
        /\ \A i \in 1..m : b[i].nHead = 0 /\ b[i].nTail = 0
        /\ Cuts(cut, m, Len(s)) /\ FullButLast(cut, m)
    BY <1>1, <1>8, <2>1, <2>3
  <2>2. /\ x \in Rows /\ Len(x) = m /\ (m > 0 => x[1].nHead = 0)
        /\ Contents(x) = SubSeq(s, cut[0] + 1, cut[m])
    BY ONLY <2>4, <2>5, DealtBack, SMTT(20), ZenonT(40)
  <2> QED BY <1>8, <2>2
<1> DEFINE y == FilledBack(p, b, s, share)
<1>10. y = q \o x
  BY DEF FilledBack
<1> HIDE DEF q, x, y, part, cut
<1>11. q # << >> /\ x # << >> => q[Len(q)].nTail = nChunkSize /\ x[1].nHead = 0
  <2>1. x # << >> => m > 0
    <3>1. x \in Seq(Chunk)
      BY <1>9, RowIsLoose
    <3> QED BY <1>1, <1>9, <3>1
  <2> QED BY <1>2, <1>6, <1>7, <1>9, <2>1
<1>12. y \in Rows /\ Len(y) = k + m
  BY <1>7, <1>9, <1>10, <1>11, RowsJoined
<1>13. Contents(y) = Contents(p) \o s
  <2> DEFINE e == Contents(p)
             rest == SubSeq(s, share + 1, n)
  <2>1. e \in Seq(Cell) /\ part \in Seq(Cell) /\ rest \in Seq(Cell)
    BY <1>4, <1>5, TwoSlices, SpanIsLength
  <2>2. q \in Seq(Chunk) /\ x \in Seq(Chunk)
    BY <1>7, <1>9, RowIsLoose
  <2>3. Contents(y) = Contents(q) \o Contents(x)
    BY <1>10, <2>2, ContentsAppend
  <2>4. Contents(q) = e \o part /\ Contents(x) = rest /\ part \o rest = s
    BY <1>5, <1>7, <1>9
  <2> HIDE DEF e, rest
  <2>5. (e \o part) \o rest = e \o (part \o rest)
    BY <2>1, Associative, SMTT(30)
  <2> QED BY <2>3, <2>4, <2>5 DEF e
<1>14. Poured(a, part) \in Chunk
  <2>1. a.nHead <= a.nTail /\ a.nTail + Len(part) <= nChunkSize
    <3>1. a.nHead <= a.nTail
      BY <1>1 DEF Loose
    <3> QED BY <1>2, <1>3, <1>5, <3>1
  <2> QED BY <1>1, <1>5, <2>1, PouredOf
<1> QED BY <1>4, <1>9, <1>12, <1>13, <1>14 DEF y, x, cut, part

(* What the loop writes into chunk j of z.                                 *)
WriteBack(z, k, s, share, j) ==
    IF j < k \/ (j > k /\ share + (j - k - 1) * nChunkSize >= Len(s)) THEN z[j]
    ELSE IF j = k
    THEN [nHead |-> z[k].nHead, nTail |-> z[k].nTail + Len(SubSeq(s, 1, share)),
          vData |-> Copied(z[k], z[k].nTail, SubSeq(s, 1, share))]
    ELSE LET at == share + (j - k - 1) * nChunkSize
             part == SubSeq(s, at + 1, MinOf(at + nChunkSize, Len(s)))
         IN  [nHead |-> z[j].nHead, nTail |-> 0 + Len(part), vData |-> Copied(z[j], 0, part)]

WrittenBack(z, k, s, share) == [j \in 1..Len(z) |-> WriteBack(z, k, s, share, j)]

Behindmost(z, k, share) == share + ((Len(z) + 1) - k - 1) * nChunkSize

LEMMA FillBackIs ==
    ASSUME NEW d, NEW k, NEW s, NEW z, z = d.used,
           NEW share, share = MinOf(Len(s), nChunkSize - z[k].nTail)
    PROVE  FillBack(d, k, s) =
             IF Behindmost(z, k, share) < Len(s) THEN Broken(d)
             ELSE Done(Hold(d, WrittenBack(z, k, s, share), d.nItems + Len(s)))
  BY DEF FillBack, WriteBack, WrittenBack, Behindmost

LEMMA FillBackLeaves ==
    ASSUME NEW p, NEW b, NEW s, NEW share, RoomBack(p, b, s, share),
           NEW w, NEW i, NEW d, d = Made(p \o b, w, i), NEW o \in FillBack(d, Len(p), s)
    PROVE  Leaves(o, Made(FilledBack(p, b, s, share), w, i + Len(s)))
<1> DEFINE k == Len(p)
           m == Len(b)
           n == Len(s)
           z == p \o b
           y == FilledBack(p, b, s, share)
           cut == BackCut(share, m, n)
           q == Put(p, k, Poured(p[k], SubSeq(s, 1, share)))
           x == Pours(b, s, cut)
<1>0. /\ p \in Seq(Chunk) /\ p # << >> /\ Loose(p) /\ (Len(p) > 1 => p[1].nHead < nChunkSize)
      /\ b \in Seq(Chunk) /\ Cleared(b)
      /\ s \in Seq(Cell)
      /\ Enough(n - share, m)
      /\ p[k].nHead < p[k].nTail \/ share > 0
  BY DEF RoomBack
<1> USE <1>0
<1>1. k \in Nat \ {0} /\ m \in Nat /\ n \in Nat /\ k \in 1..Len(p) /\ nChunkSize \in Int
  BY SpanOf, Size
<1>2. /\ z \in Seq(Chunk) /\ Len(z) = k + m
      /\ \A j \in 1..k : z[j] = p[j]
      /\ \A j \in 1..m : z[k + j] = b[j]
  BY Joined
<1>3. share \in 0..n /\ y \in Rows /\ Len(y) = k + m
  <2>1. /\ share \in 0..Len(s)
        /\ FilledBack(p, b, s, share) \in Rows
        /\ Len(FilledBack(p, b, s, share)) = Len(p) + Len(b)
    BY FilledBackIs
  <2> QED BY <2>1
<1>4. Whole(d) /\ d.used = z /\ d.unused = w /\ d.nItems = i /\ d.nChunks = Len(z) + Len(w) /\ d.nUnused = Len(w)
  <2>1. d = Made(z, w, i)
    OBVIOUS
  <2> HIDE DEF z
  <2> QED BY <2>1, MadeOf
<1>5. share = MinOf(n, nChunkSize - z[k].nTail)
  BY <1>1, <1>2 DEF RoomLeft, RoomBack
<1> DEFINE f == WrittenBack(z, k, s, share)
<1>6. FillBack(d, k, s) = IF Behindmost(z, k, share) < n THEN Broken(d)
                          ELSE Done(Hold(d, f, d.nItems + n))
  <2>1. z = d.used
    BY <1>4
  <2> HIDE DEF z, k
  <2> QED BY <1>5, <2>1, FillBackIs
<1>7. y = q \o x
  BY DEF FilledBack
<1>8. /\ Cuts(cut, m, n) /\ cut[m] = n
      /\ \A j \in 0..(m - 1) : cut[j] = share + j * nChunkSize /\ cut[j] < n
      /\ \A j \in 0..m : cut[j] = MinOf(share + j * nChunkSize, n)
  <2>1. cut = BackCut(share, m, n) /\ Enough(n - share, m)
    OBVIOUS
  <2>2. \A j \in 0..m : cut[j] = MinOf(share + j * nChunkSize, n)
    BY DEF BackCut
  <2> HIDE DEF cut, m, n
  <2>3. Cuts(cut, m, n) /\ cut[m] = n
    BY <1>1, <1>3, <2>1, BackCuts
  <2>5. Opens(cut, share, m, n)
    BY <1>1, <1>3, <2>1, BackCuts
  <2>4. \A j \in 0..(m - 1) : cut[j] = share + j * nChunkSize /\ cut[j] < n
    BY <2>5, Zenon DEF Opens
  <2> QED BY <2>2, <2>3, <2>4
<1>9. ~(Behindmost(z, k, share) < n)
  <2>1. (Len(z) + 1) - k - 1 = m
    BY <1>1, <1>2
  <2> DEFINE r == m * nChunkSize
  <2>2. r \in Int /\ (m = 0 => r = 0)
    BY <1>1, Product
  <2>3. n - share <= r
    BY <2>2 DEF Enough
  <2> HIDE DEF r, m, n
  <2>4. ~(share + r < n)
    BY <1>1, <1>3, <2>2, <2>3
  <2> QED BY <2>1, <2>4 DEF r, Behindmost
<1>10. /\ x \in Seq(Chunk) /\ Len(x) = m /\ q \in Seq(Chunk) /\ Len(q) = k
       /\ \A j \in 1..m : x[j] = Poured(b[j], Slab(s, cut, j))
       /\ q[k] = Poured(p[k], SubSeq(s, 1, share))
       /\ \A j \in 1..k : j # k => q[j] = p[j]
  <2> DEFINE c == Poured(p[k], SubSeq(s, 1, share))
  <2>1. c \in Chunk /\ x \in Seq(Chunk) /\ Len(x) = m
    <3>1. c \in Chunk /\ x \in Rows /\ Len(x) = m
      BY FilledBackIs
    <3> QED BY <3>1, RowIsLoose
  <2>2. k \in 1..Len(p)
    BY <1>1
  <2>5. k = Len(p) /\ q = Put(p, k, c)
    OBVIOUS
  <2>3. \A j \in 1..m : x[j] = Poured(b[j], Slab(s, cut, j))
    BY DEF Pours
  <2> HIDE DEF c, q, x, k, m, cut
  <2>4. /\ Put(p, k, c) \in Seq(Chunk) /\ Len(Put(p, k, c)) = Len(p) /\ Put(p, k, c)[k] = c
        /\ \A j \in 1..Len(p) : j # k => Put(p, k, c)[j] = p[j]
    BY <2>1, <2>2, PutOf
  <2> QED BY <2>1, <2>3, <2>4, <2>5 DEF c
<1>11. /\ \A j \in 1..k : y[j] = q[j]
       /\ \A j \in 1..m : y[k + j] = x[j]
  <2> HIDE DEF q, x
  <2> QED BY <1>7, <1>10, Joined
<1>12. ASSUME NEW j \in 1..k PROVE y[j] = WriteBack(z, k, s, share, j)
  <2>1. CASE j = k
    <3>1. ~(j < k) /\ ~(j > k)
      BY <1>1, <2>1
    <3>2. z[k] = p[k]
      BY <1>1, <1>2
    <3> HIDE DEF k, z, y, q
    <3> QED BY <1>10, <1>11, <2>1, <3>1, <3>2 DEF WriteBack, Poured
  <2>2. CASE j # k
    <3>1. j < k
      BY <1>1, <2>2
    <3> HIDE DEF k, z, y, q
    <3> QED BY <1>2, <1>10, <1>11, <2>2, <3>1 DEF WriteBack
  <2> QED BY <2>1, <2>2
<1>13. ASSUME NEW l \in 1..m PROVE y[k + l] = WriteBack(z, k, s, share, k + l)
  <2> DEFINE j == k + l
             at == share + (l - 1) * nChunkSize
  <2>1. ~(j < k) /\ j > k /\ j # k /\ j - k - 1 = l - 1 /\ l - 1 \in 0..(m - 1) /\ l \in 0..m /\ l \in Int
    BY <1>1
  <2>2. at = cut[l - 1] /\ at < n
    BY <1>8, <2>1
  <2>3. MinOf(at + nChunkSize, n) = cut[l]
    <3> DEFINE r == l * nChunkSize
               t == (l - 1) * nChunkSize
    <3>1. r \in Int /\ t = r - nChunkSize
      BY <2>1, Product
    <3> HIDE DEF r, t
    <3>2. (share + t) + nChunkSize = share + r
      BY <1>1, <1>3, <3>1
    <3> QED BY <1>8, <2>1, <3>2 DEF r, t
  <2>4. cut[l - 1] \in 0..n
    <3>1. l - 1 \in 0..m
      OBVIOUS
    <3>2. cut \in [0..m -> 0..n]
      BY <1>8 DEF Cuts
    <3> HIDE DEF cut, m, n
    <3> QED BY <3>1, <3>2
  <2>5. ~(at >= n)
    <3> HIDE DEF at, cut, n
    <3> QED BY <1>1, <2>2, <2>4
  <2>6. z[j] = b[l] /\ b[l].nTail = 0 /\ b[l].nHead = 0
    BY <1>2 DEF Cleared
  <2>7. y[j] = Poured(b[l], SubSeq(s, cut[l - 1] + 1, cut[l]))
    BY <1>10, <1>11 DEF Slab
  <2>8. share + (j - k - 1) * nChunkSize = cut[l - 1]
    BY <2>1, <2>2
  <2> DEFINE part == SubSeq(s, cut[l - 1] + 1, cut[l])
  <2> HIDE DEF j, z, y, at, k, cut, n
  <2>9. WriteBack(z, k, s, share, j) =
          [nHead |-> z[j].nHead, nTail |-> 0 + Len(part), vData |-> Copied(z[j], 0, part)]
    BY <2>1, <2>2, <2>3, <2>5, <2>8 DEF WriteBack, n
  <2> HIDE DEF part
  <2>10. y[j] = WriteBack(z, k, s, share, j)
    BY <2>6, <2>7, <2>9 DEF Poured, part
  <2> QED BY <2>10 DEF j
<1>14. f = y
  <2>1. y \in Seq(Chunk)
    BY <1>3, RowIsLoose
  <2>2. ASSUME NEW j \in 1..(k + m) PROVE f[j] = y[j]
    <3>1. f[j] = WriteBack(z, k, s, share, j)
      BY <1>2 DEF WrittenBack
    <3>2. CASE j <= k
      <4>1. j \in 1..k
        BY <1>1, <3>2
      <4> QED BY <1>12, <3>1, <4>1
    <3>3. CASE ~(j <= k)
      <4> DEFINE l == j - k
      <4>1. l \in 1..m /\ j = k + l
        <5> HIDE DEF k, m
        <5> QED BY <1>1, <3>3
      <4> HIDE DEF l
      <4> QED BY <1>13, <3>1, <4>1
    <3> QED BY <3>2, <3>3
  <2>3. DOMAIN f = 1..(k + m) /\ f = [j \in 1..(k + m) |-> f[j]]
    BY <1>2 DEF WrittenBack
  <2>4. DOMAIN y = 1..(k + m) /\ y = [j \in 1..(k + m) |-> y[j]]
    BY <1>3, <2>1
  <2> HIDE DEF f, y
  <2> QED BY <2>2, <2>3, <2>4
<1>15. Hold(d, f, d.nItems + n) = Made(y, w, i + n)
  <2>1. Len(z) = Len(y)
    BY <1>2, <1>3
  <2> HIDE DEF f, z, y, n
  <2>2. Hold(d, f, d.nItems + n) = Fields(f, w, d.nItems + n, Len(z) + Len(w), Len(w))
    BY <1>4, HoldOf
  <2> QED BY <1>4, <1>14, <2>1, <2>2 DEF Made
<1>16. o \in Done(Hold(d, f, d.nItems + n))
  BY <1>6, <1>9
<1> HIDE DEF f
<1> QED BY <1>15, <1>16 DEF Done, Acquired, Leaves

LEMMA FillBackGives ==
    ASSUME NEW p, NEW b, NEW s, NEW share, RoomBack(p, b, s, share),
           NEW w \in Spares, NEW i, i = Len(Contents(p)), NEW d, d = Made(p \o b, w, i),
           NEW o \in FillBack(d, Len(p), s)
    PROVE  \E y \in Rows : Leaves(o, Made(y, w, Span(y))) /\ Contents(y) = Contents(p) \o s
<1> DEFINE y == FilledBack(p, b, s, share)
           e == Contents(p)
<1>1. Leaves(o, Made(y, w, i + Len(s)))
  BY FillBackLeaves
<1>2. y \in Rows /\ Contents(y) = e \o s
  BY FilledBackIs
<1>3. e \in Seq(Cell) /\ s \in Seq(Cell)
  BY SpanIsLength DEF RoomBack
<1> HIDE DEF y
<1>4. Span(y) = Len(Contents(y))
  BY <1>2, RowLength
<1> HIDE DEF e
<1>5. Len(e \o s) = Len(e) + Len(s)
  BY <1>3, Joined
<1>6. i + Len(s) = Span(y)
  BY <1>2, <1>4, <1>5 DEF e
<1> QED BY <1>1, <1>2, <1>6 DEF e

(* No chunks for no elements.                                              *)
LEMMA ChunksNone == chunks_count(0) = 0
<1> DEFINE S == nChunkSize
           q == (0 + S - 1) \div S
           r == (0 + S - 1) % S
<1>1. S \in Nat /\ S > 0
  BY Size
<1> HIDE DEF S
<1>2. q \in Int /\ r \in 0..(S - 1) /\ S - 1 = q * S + r
  BY <1>1
<1>3. chunks_count(0) = q
  BY DEF chunks_count, CeilDiv, S
<1> HIDE DEF q, r
<1>4. (q - 1) * S = q * S - S /\ (q + 1) * S = q * S + S /\ q * S \in Int
  BY <1>1, <1>2
<1>5. ~(q > 0)
  <2>1. q > 0 => (q - 1) * S >= 0
    BY <1>1, <1>2
  <2> QED BY <1>1, <1>2, <1>4, <2>1
<1>6. ~(q < 0)
  <2>1. q < 0 => (q + 1) * S <= 0
    BY <1>1, <1>2
  <2> QED BY <1>1, <1>2, <1>4, <2>1
<1> QED BY <1>2, <1>3, <1>5, <1>6

LEMMA ChunksCounted ==
    ASSUME NEW n \in Nat, chunks_count(n) # 0
    PROVE  n > 0 /\ chunks_count(n) \in Nat \ {0} /\ Enough(n, chunks_count(n))
<1>1. n # 0
  BY ChunksNone
<1>2. n > 0 /\ n \in Int
  BY <1>1
<1>3. /\ chunks_count(n) \in Nat \ {0}
      /\ (chunks_count(n) - 1) * nChunkSize < n
      /\ n <= chunks_count(n) * nChunkSize
  BY <1>2, ChunksHold
<1>4. chunks_count(n) # 0
  BY <1>3
<1> QED BY <1>2, <1>3, <1>4 DEF Enough

LEMMA ResetIsCleared ==
    ASSUME NEW b \in Spares, Reset(b)
    PROVE  b \in Seq(Chunk) /\ Cleared(b)
  BY DEF Spares, Spare, Reset, Cleared

(* A tail with room for all of the array.                                  *)
LEMMA TailFits ==
    ASSUME NEW u \in Rows, u # << >>, NEW s \in Seq(Cell), u[Len(u)].nTail + Len(s) < nChunkSize
    PROVE  RoomBack(u, << >>, s, Len(s))
<1> DEFINE none == << >>
           n == Len(s)
           t == u[Len(u)].nTail
<1>1. none \in Seq(Chunk) /\ Len(none) = 0 /\ Cleared(none)
  BY DEF Cleared
<1>2. /\ u \in Seq(Chunk) /\ Loose(u) /\ u[1].nHead < nChunkSize
      /\ u[Len(u)] \in Chunk /\ u[Len(u)].nHead < u[Len(u)].nTail
  BY RowIsLoose
<1>3. t \in Int /\ n \in Nat /\ nChunkSize \in Int /\ t + n < nChunkSize
  BY <1>2, ChunkOf, Size
<1> HIDE DEF none, t
<1>4. n = RoomLeft(u, s)
  <2> DEFINE f == nChunkSize - t
  <2>1. f \in Int /\ n \in Int /\ n <= f
    BY <1>3
  <2> HIDE DEF f, n
  <2>2. MinOf(n, f) = n
    BY <2>1, MinOfIs
  <2> QED BY <2>2 DEF RoomLeft, f, n, t
<1>5. Enough(n - n, Len(none))
  <2>1. n - n = 0
    BY <1>3
  <2> QED BY <1>1, <2>1 DEF Enough
<1> QED BY <1>1, <1>2, <1>4, <1>5 DEF RoomBack, none

(* New chunks for what the tail has no room for.                           *)
LEMMA TailGrows ==
    ASSUME NEW u \in Rows, u # << >>, NEW s \in Seq(Cell), NEW b \in Spares, Reset(b),
           NEW m, m = chunks_count(Len(s) + u[Len(u)].nTail - nChunkSize), m # 0, m = Len(b),
           ~(u[Len(u)].nTail + Len(s) < nChunkSize)
    PROVE  RoomBack(u, b, s, RoomLeft(u, s))
<1> DEFINE n == Len(s)
           t == u[Len(u)].nTail
           g == n + t - nChunkSize
           share == RoomLeft(u, s)
<1>1. b \in Seq(Chunk) /\ Cleared(b)
  BY ResetIsCleared
<1>2. /\ u \in Seq(Chunk) /\ Loose(u) /\ u[1].nHead < nChunkSize
      /\ u[Len(u)] \in Chunk /\ u[Len(u)].nHead < u[Len(u)].nTail
  BY RowIsLoose
<1>3. t \in Int /\ n \in Nat /\ nChunkSize \in Int /\ ~(t + n < nChunkSize)
  BY <1>2, ChunkOf, Size
<1> HIDE DEF t, n
<1>4. g \in Nat /\ g = n + t - nChunkSize
  BY <1>3
<1>5. m = chunks_count(g)
  BY DEF t, n
<1> HIDE DEF g
<1>6. g > 0 /\ Enough(g, m)
  BY <1>4, <1>5, ChunksCounted
<1>7. n - share = g
  <2> DEFINE f == nChunkSize - t
  <2>1. f \in Int /\ n \in Int /\ f <= n /\ n - f = g
    BY <1>3, <1>4
  <2>2. share = MinOf(n, f)
    BY DEF RoomLeft, n, t
  <2> HIDE DEF f, share
  <2>3. MinOf(n, f) = f
    BY <2>1, MinOfIs
  <2> QED BY <2>1, <2>2, <2>3
<1>8. Enough(Len(s) - share, Len(b))
  BY <1>6, <1>7 DEF n
<1> QED BY <1>1, <1>2, <1>8 DEF RoomBack

(* New chunks for the first elements.                                      *)
LEMMA FirstChunks ==
    ASSUME NEW s \in Seq(Cell), NEW z \in Spares, Reset(z),
           NEW m, m = chunks_count(Len(s)), m # 0, m = Len(z)
    PROVE  /\ RoomBack(<<z[1]>>, Tail(z), s, RoomLeft(<<z[1]>>, s))
           /\ <<z[1]>> \o Tail(z) = z /\ Contents(<<z[1]>>) = << >>
<1> DEFINE n == Len(s)
           p == <<z[1]>>
           b == Tail(z)
           share == RoomLeft(p, s)
           S == nChunkSize
<1>1. n > 0 /\ n \in Int /\ m \in Nat \ {0} /\ Enough(n, m)
  <2>1. n \in Nat /\ m = chunks_count(n) /\ chunks_count(n) # 0
    OBVIOUS
  <2> HIDE DEF n
  <2>2. n > 0 /\ chunks_count(n) \in Nat \ {0} /\ Enough(n, chunks_count(n))
    BY <2>1, ChunksCounted
  <2> QED BY <2>1, <2>2
<1>2. z \in Seq(Chunk) /\ Cleared(z) /\ Len(z) \in Nat \ {0} /\ Len(z) = m
  BY <1>1, ResetIsCleared
<1>3. /\ z[1] \in Chunk /\ z[1].nHead = 0 /\ z[1].nTail = 0
      /\ b \in Seq(Chunk) /\ Len(b) = Len(z) - 1
      /\ \A j \in 1..Len(b) : j + 1 \in 1..Len(z) /\ b[j] = z[j + 1]
      /\ p \in Seq(Chunk) /\ Len(p) = 1 /\ p[1] = z[1] /\ p # << >>
      /\ p \o b = z
  <2>1. 1 \in 1..Len(z)
    BY <1>2
  <2>2. z[1].nHead = 0 /\ z[1].nTail = 0
    BY <1>2, <2>1 DEF Cleared
  <2>3. z # << >>
    BY <1>2
  <2> QED BY <1>2, <2>1, <2>2, <2>3
<1> HIDE DEF p, b
<1>4. Cleared(b)
  <2> SUFFICES ASSUME NEW j \in 1..Len(b) PROVE b[j].nHead = 0 /\ b[j].nTail = 0
    BY DEF Cleared
  <2>1. j + 1 \in 1..Len(z) /\ b[j] = z[j + 1]
    BY <1>3
  <2>2. z[j + 1].nHead = 0 /\ z[j + 1].nTail = 0
    BY <1>2, <2>1 DEF Cleared
  <2> QED BY <2>1, <2>2
<1>5. Loose(p)
  <2>1. DOMAIN p = 1..1
    BY <1>3
  <2> QED BY <1>3, <2>1, Size DEF Loose
<1>6. Contents(p) = << >>
  BY <1>3, ContentsOne, ElementsOf DEF p
<1>7. S \in Int /\ S > 0
  BY Size
<1>8. share = MinOf(n, S)
  <2>1. p[Len(p)].nTail = 0 /\ S - 0 = S
    BY <1>3, <1>7
  <2> QED BY <2>1 DEF RoomLeft
<1> HIDE DEF share, n, S
<1>9. /\ share \in Int /\ (n <= S => share = n) /\ (S <= n => share = S)
  BY <1>1, <1>7, <1>8, MinOfIs
<1>10. share > 0
  BY <1>1, <1>7, <1>9
<1>11. Enough(n - share, m - 1)
  <2> DEFINE x == m * S
             y == (m - 1) * S
             t == ((m - 1) - 1) * S
  <2>1. x \in Int /\ y = x - S /\ t = y - S /\ (m = 1 => y = 0) /\ (m - 1 >= 1 => y >= S)
    <3>1. m \in Int /\ m - 1 \in Int /\ (m = 1 => m - 1 = 0)
      BY <1>1
    <3> QED BY <3>1, Product DEF S
  <2>2. y < n /\ n <= x
    BY <1>1 DEF Enough, S
  <2>3. CASE m = 1
    <3>1. n <= S
      <4> HIDE DEF x, y, t
      <4> QED BY <1>1, <1>7, <2>1, <2>2, <2>3
    <3>2. n - share = 0 /\ m - 1 = 0
      BY <1>1, <1>9, <2>3, <3>1
    <3> QED BY <3>2 DEF Enough
  <2>4. CASE m # 1
    <3>1. m - 1 >= 1 /\ m - 1 # 0
      BY <1>1, <2>4
    <3>2. S < n /\ t < n - S /\ n - S <= y
      <4> HIDE DEF x, y, t
      <4> QED BY <1>1, <1>7, <2>1, <2>2, <3>1
    <3>3. share = S
      BY <1>1, <1>7, <1>9, <3>2
    <3> QED BY <3>1, <3>2, <3>3 DEF Enough, S
  <2> QED BY <2>3, <2>4
<1>12. Enough(Len(s) - share, Len(b))
  <2>1. Len(b) = m - 1
    BY <1>2, <1>3
  <2> QED BY <1>11, <2>1 DEF n
<1>13. RoomBack(p, b, s, RoomLeft(p, s))
  BY <1>3, <1>4, <1>5, <1>10, <1>12 DEF RoomBack, share
<1> QED BY <1>3, <1>6, <1>13 DEF p, b

LEMMA LinkedList ==
    ASSUME NEW u \in Seq(Chunk), NEW v \in Spares, NEW i, NEW d, d = Made(u, v, i),
           NEW n \in Nat \ {0}, NEW o \in LinkBack(acquire_chunk_list(d, n))
    PROVE  \/ Fails(o, d)
           \/ \E list, w \in Spares : /\ Leaves(o, Made(u \o list, w, i))
                                      /\ Len(list) = n /\ (Reset(v) => Reset(list))
<1> DEFINE P == acquire_chunk_list(d, n)
<1>1. \A p \in P : Fails(p, d) \/ Gives(p, u, v, i, n)
  BY ChunkList
<1> HIDE DEF P
<1>2. o \in LinkBack(P)
  BY DEF P
<1> QED BY <1>1, <1>2, LinkedBack

(* push_back(array): all of it goes in, or nothing does.                   *)
LEMMA PushBackBulkGives ==
    ASSUME NEW u \in Rows, NEW v \in Spares, Reset(v), NEW d, d = Made(u, v, Span(u)),
           NEW s \in Seq(Values), FitsBack(d, Len(s)) \/ BackChunks(d, Len(s)) # 0,
           NEW o \in push_back_bulk(d, s)
    PROVE  Pushes(o, d, Contents(u) \o s)
<1> DEFINE n == Len(s)
           start == IF u = << >> THEN 1 ELSE Len(u)
           m == BackChunks(d, n)
<1>1. d.used = u /\ u \in Seq(Chunk) /\ s \in Seq(Cell) /\ n \in Nat
  <2>1. s \in Seq(Cell)
    BY DEF Cell
  <2> QED BY <2>1, MadeOf, RowIsLoose
<1>2. PICK p \in preallocate_back(d, n) : o \in IF p.ans = "true" THEN FillBack(p.d, start, s) ELSE {p}
  BY <1>1 DEF push_back_bulk
<1>3. CASE FitsBack(d, n)
  <2> DEFINE none == << >>
             t == u[Len(u)].nTail
  <2>1. u # << >> /\ t + n < nChunkSize
    BY <1>1, <1>3 DEF FitsBack, Last
  <2>2. o \in FillBack(d, Len(u), s)
    BY <1>2, <1>3, <2>1 DEF preallocate_back, Done, Acquired
  <2>3. RoomBack(u, none, s, n)
    BY <1>1, <2>1, TailFits
  <2>4. u \o none = u
    BY <1>1
  <2> HIDE DEF none
  <2>5. d = Made(u \o none, v, Span(u)) /\ Span(u) = Len(Contents(u))
    BY <2>4, RowLength
  <2> HIDE DEF n
  <2>6. \E y \in Rows : Leaves(o, Made(y, v, Span(y))) /\ Contents(y) = Contents(u) \o s
    BY <2>2, <2>3, <2>5, FillBackGives
  <2> QED BY <2>6 DEF Pushes
<1>4. CASE ~FitsBack(d, n)
  <2>1. p \in LinkBack(acquire_chunk_list(d, m)) /\ m # 0
    BY <1>2, <1>4 DEF preallocate_back
  <2>2. /\ u # << >> => /\ m = chunks_count(n + u[Len(u)].nTail - nChunkSize)
                        /\ ~(u[Len(u)].nTail + n < nChunkSize)
        /\ u = << >> => m = chunks_count(n)
    BY <1>1, <1>4 DEF FitsBack, BackChunks, Last
  <2>3. m \in Nat \ {0}
    <3>1. CASE u = << >>
      BY <1>1, <2>1, <2>2, <3>1, ChunksCounted
    <3>2. CASE u # << >>
      <4> DEFINE g == n + u[Len(u)].nTail - nChunkSize
      <4>1. g \in Nat
        <5> DEFINE t == u[Len(u)].nTail
        <5>1. u[Len(u)] \in Chunk
          BY <3>2, RowIsLoose
        <5>2. t \in Int /\ nChunkSize \in Int /\ ~(t + n < nChunkSize)
          BY <2>2, <3>2, <5>1, ChunkOf, Size
        <5> HIDE DEF t, n
        <5>3. n + t - nChunkSize \in Nat
          BY <1>1, <5>2
        <5> QED BY <5>3 DEF t
      <4>2. m = chunks_count(g)
        BY <2>2, <3>2
      <4> HIDE DEF g, m
      <4> QED BY <2>1, <4>1, <4>2, ChunksCounted
    <3> QED BY <3>1, <3>2
  <2> HIDE DEF m
  <2>4. CASE Fails(p, d)
    <3>1. o = p
      BY <1>2, <2>4 DEF Fails
    <3> QED BY <2>4, <3>1 DEF Pushes
  <2>5. CASE ~Fails(p, d)
    <3>1. PICK list, w \in Spares : /\ Leaves(p, Made(u \o list, w, Span(u)))
                                    /\ Len(list) = m /\ Reset(list)
      BY <1>1, <2>1, <2>3, <2>5, LinkedList
    <3>2. o \in FillBack(p.d, start, s) /\ p.d = Made(u \o list, w, Span(u))
      BY <1>2, <3>1 DEF Leaves
    <3>3. CASE u # << >>
      <4>1. RoomBack(u, list, s, RoomLeft(u, s))
        BY <1>1, <2>1, <2>2, <3>1, <3>3, TailGrows
      <4>2. Span(u) = Len(Contents(u)) /\ o \in FillBack(p.d, Len(u), s)
        BY <3>2, <3>3, RowLength
      <4>3. \E y \in Rows : Leaves(o, Made(y, w, Span(y))) /\ Contents(y) = Contents(u) \o s
        BY <3>2, <4>1, <4>2, FillBackGives
      <4> QED BY <4>3 DEF Pushes
    <3>4. CASE u = << >>
      <4> DEFINE a == <<list[1]>>
                 b == Tail(list)
                 share == RoomLeft(a, s)
      <4>1. RoomBack(a, b, s, share) /\ a \o b = list /\ Contents(a) = << >>
        BY <1>1, <2>1, <2>2, <3>1, <3>4, FirstChunks
      <4>2. Span(u) = 0 /\ Contents(u) = << >> /\ u \o list = list /\ Len(a) = 1 /\ start = 1
        <5>1. list \in Seq(Chunk)
          BY DEF Spares
        <5> QED BY <3>4, <5>1, NoChunks, ContentsEmpty
      <4> HIDE DEF a, b, share
      <4> DEFINE i == Len(Contents(a))
                 e == p.d
      <4>3. e = Made(a \o b, w, i) /\ o \in FillBack(e, Len(a), s)
        <5>1. Len(Contents(a)) = 0
          BY <4>1
        <5> QED BY <3>2, <4>1, <4>2, <5>1
      <4>5. i = Len(Contents(a)) /\ RoomBack(a, b, s, share)
        BY <4>1
      <4> HIDE DEF i, e
      <4>4. \E y \in Rows : Leaves(o, Made(y, w, Span(y))) /\ Contents(y) = Contents(a) \o s
        BY <4>3, <4>5, FillBackGives
      <4> QED BY <4>1, <4>2, <4>4 DEF Pushes
    <3> QED BY <3>3, <3>4
  <2> QED BY <2>4, <2>5
<1> QED BY <1>3, <1>4

-----------------------------------------------------------------------------
(* The copy of a push to the front: into the first chunk in use and those
   which were linked before it.                                            *)

RoomAhead(p, s) == MinOf(Len(s), p[1].nHead)

(* Chunks p, with room for the last elements of s, and others for those
   before.                                                                 *)
RoomFront(p, b, s, share) ==
    /\ p \in Seq(Chunk) /\ p # << >> /\ Loose(p)
    /\ Len(p) > 1 => p[Len(p)].nHead < p[Len(p)].nTail
    /\ b \in Seq(Chunk) /\ s \in Seq(Cell) /\ share = RoomAhead(p, s)
    /\ Enough(Len(s) - share, Len(b))
    /\ p[1].nHead < p[1].nTail \/ share > 0

FilledFront(p, b, s, share) ==
    Stacks(b, s, FrontCut(Len(s) - share, Len(b)))
      \o Put(p, 1, Stacked(p[1], SubSeq(s, (Len(s) - share) + 1, Len(s))))

LEMMA FilledFrontIs ==
    ASSUME NEW p, NEW b, NEW s, NEW share, RoomFront(p, b, s, share)
    PROVE  /\ share \in 0..Len(s)
           /\ FilledFront(p, b, s, share) \in Rows
           /\ Len(FilledFront(p, b, s, share)) = Len(p) + Len(b)
           /\ Contents(FilledFront(p, b, s, share)) = s \o Contents(p)
           /\ Stacked(p[1], SubSeq(s, (Len(s) - share) + 1, Len(s))) \in Chunk
           /\ Stacks(b, s, FrontCut(Len(s) - share, Len(b))) \in Rows
           /\ Len(Stacks(b, s, FrontCut(Len(s) - share, Len(b)))) = Len(b)
<1> DEFINE k == Len(p)
           m == Len(b)
           n == Len(s)
           a == p[1]
           g == n - share
           part == SubSeq(s, g + 1, n)
           cut == FrontCut(g, m)
           q == Put(p, 1, Stacked(a, part))
           x == Stacks(b, s, cut)
<1>0. /\ p \in Seq(Chunk) /\ p # << >> /\ Loose(p)
      /\ Len(p) > 1 => p[Len(p)].nHead < p[Len(p)].nTail
      /\ b \in Seq(Chunk) /\ s \in Seq(Cell)
      /\ Enough(g, m)
      /\ a.nHead < a.nTail \/ share > 0
  BY DEF RoomFront
<1> USE <1>0
<1>1. k \in Nat \ {0} /\ m \in Nat /\ n \in Nat /\ a \in Chunk
  BY SpanOf
<1>2. a.nHead \in Int /\ 0 <= a.nHead /\ nChunkSize \in Int
  BY <1>1, ChunkOf, Size
<1>3. /\ share \in Int /\ share <= n /\ share <= a.nHead /\ share >= 0
      /\ n > share => share = a.nHead
  <2> DEFINE f == a.nHead
             h == MinOf(n, f)
  <2>1. f \in Int /\ f >= 0 /\ share = h
    BY <1>2 DEF RoomAhead, RoomFront
  <2>4. n \in Int
    BY <1>1
  <2> HIDE DEF f, n
  <2>5. /\ h \in Int /\ h <= n /\ h <= f /\ (n <= f => h = n) /\ (f <= n => h = f)
    BY <2>1, <2>4, MinOfIs
  <2> HIDE DEF h
  <2>2. /\ share \in Int /\ share <= n /\ share <= f /\ (n <= f => share = n) /\ (f <= n => share = f)
    BY <2>1, <2>5
  <2>3. share >= 0 /\ (n > share => share = f)
    BY <1>1, <2>1, <2>2
  <2> QED BY <2>2, <2>3 DEF f
<1>4. share \in 0..n /\ g \in 0..n /\ n - g = share
  BY <1>1, <1>3
<1>5. /\ part \in Seq(Cell) /\ Len(part) = share
      /\ SubSeq(s, 1, g) \in Seq(Cell) /\ SubSeq(s, 1, g) \o part = s
  <2> HIDE DEF g
  <2>1. /\ part \in Seq(Cell) /\ Len(part) = n - g
        /\ SubSeq(s, 1, g) \in Seq(Cell) /\ SubSeq(s, 1, g) \o part = s
    BY <1>4, TwoSlices
  <2> QED BY <1>4, <2>1
<1>6. m > 0 => share = a.nHead
  <2> DEFINE r == (m - 1) * nChunkSize
  <2>1. ASSUME m > 0 PROVE n > share
    <3>1. m - 1 \in Int /\ m - 1 >= 0 /\ m # 0
      BY <1>1, <2>1
    <3>2. r \in Int /\ r >= 0
      BY <3>1, Product
    <3>3. r < n - share
      BY <3>1 DEF Enough
    <3> HIDE DEF r
    <3> QED BY <1>1, <1>3, <3>2, <3>3
  <2> QED BY <1>3, <2>1
<1>7. /\ q \in Rows /\ q # << >> /\ Len(q) = k /\ q[1].nHead = a.nHead - share
      /\ Contents(q) = part \o Contents(p)
  <2>1. Len(part) <= a.nHead /\ (a.nHead < a.nTail \/ Len(part) > 0)
    BY <1>2, <1>3, <1>5
  <2>2. q = Put(p, 1, Stacked(p[1], part))
    OBVIOUS
  <2> HIDE DEF part, q
  <2>3. /\ q \in Rows /\ q # << >> /\ Len(q) = Len(p)
        /\ q[1].nHead = p[1].nHead - Len(part)
        /\ Contents(q) = part \o Contents(p)
    BY <1>5, <2>1, <2>2, FirstFilled, SMTT(30)
  <2> QED BY <1>5, <2>3
<1>8. Cuts(cut, m, n) /\ cut[0] = 0 /\ cut[m] = g /\ FullButFirst(cut, m)
  <2>1. cut = FrontCut(g, m) /\ Enough(g, m)
    OBVIOUS
  <2> HIDE DEF cut, m, n, g
  <2> QED BY <1>1, <1>4, <2>1, FrontCuts
<1>9. /\ x \in Rows /\ Len(x) = m /\ (m > 0 => x[m].nTail = nChunkSize)
      /\ Contents(x) = SubSeq(s, 1, g)
  <2>3. m = Len(b) /\ n = Len(s)
    OBVIOUS
  <2>4. b \in Seq(Chunk) /\ s \in Seq(Cell)
    OBVIOUS
  <2> HIDE DEF cut, m, n, g
  <2>2. /\ x \in Rows /\ Len(x) = m /\ (m > 0 => x[m].nTail = nChunkSize)
        /\ Contents(x) = SubSeq(s, cut[0] + 1, cut[m])
    BY <1>1, <1>8, <2>3, <2>4, DealtFront
  <2>5. cut[0] + 1 = 1
    BY <1>8
  <2> QED BY <1>8, <2>2, <2>5
<1> DEFINE y == FilledFront(p, b, s, share)
<1>10. y = x \o q
  BY DEF FilledFront
<1> HIDE DEF q, x, y, part, cut
<1>11. x # << >> /\ q # << >> => x[Len(x)].nTail = nChunkSize /\ q[1].nHead = 0
  <2>1. x # << >> => m > 0
    <3>1. x \in Seq(Chunk)
      BY <1>9, RowIsLoose
    <3> QED BY <1>1, <1>9, <3>1
  <2> QED BY <1>2, <1>6, <1>7, <1>9, <2>1
<1>12. y \in Rows /\ Len(y) = k + m
  <2>1. y \in Rows /\ Len(y) = Len(x) + Len(q)
    BY <1>7, <1>9, <1>10, <1>11, RowsJoined
  <2> QED BY <1>1, <1>7, <1>9, <2>1
<1>13. Contents(y) = s \o Contents(p)
  <2> DEFINE e == Contents(p)
             rest == SubSeq(s, 1, g)
  <2>1. e \in Seq(Cell) /\ part \in Seq(Cell) /\ rest \in Seq(Cell)
    BY <1>5, SpanIsLength
  <2>2. q \in Seq(Chunk) /\ x \in Seq(Chunk)
    BY <1>7, <1>9, RowIsLoose
  <2>3. Contents(y) = Contents(x) \o Contents(q)
    BY <1>10, <2>2, ContentsAppend
  <2>4. Contents(q) = part \o e /\ Contents(x) = rest /\ rest \o part = s
    BY <1>5, <1>7, <1>9
  <2> HIDE DEF e, rest
  <2>5. (rest \o part) \o e = rest \o (part \o e)
    BY <2>1, Associative, SMTT(30)
  <2> QED BY <2>3, <2>4, <2>5 DEF e
<1>14. Stacked(a, part) \in Chunk
  <2>1. a.nHead <= a.nTail /\ Len(part) <= a.nHead
    <3>1. a.nHead <= a.nTail
      BY <1>1 DEF Loose
    <3> QED BY <1>2, <1>3, <1>5, <3>1
  <2> QED BY <1>1, <1>5, <2>1, StackedOf
<1> QED BY <1>4, <1>9, <1>12, <1>13, <1>14 DEF y, x, cut, part

(* What the loop writes into chunk j of z.                                 *)
Unwritten(k, s, share, j) == Len(s) - share - (k - j - 1) * nChunkSize

WriteFront(z, k, s, share, j) ==
    LET left == Unwritten(k, s, share, j)
        m == MinOf(left, nChunkSize)
    IN  IF j > k \/ (j < k /\ left <= 0) THEN z[j]
        ELSE IF j = k
        THEN [nHead |-> z[j].nHead - share, nTail |-> z[j].nTail,
              vData |-> Copied(z[j], z[j].nHead - share, SubSeq(s, Len(s) - share + 1, Len(s)))]
        ELSE [nHead |-> nChunkSize - m, nTail |-> nChunkSize,
              vData |-> Copied(z[j], nChunkSize - m, SubSeq(s, left - m + 1, left))]

WrittenFront(z, k, s, share) == [j \in 1..Len(z) |-> WriteFront(z, k, s, share, j)]

LEMMA FillFrontIs ==
    ASSUME NEW d, NEW k, NEW s, NEW z, z = d.used, NEW share, share = MinOf(Len(s), z[k].nHead)
    PROVE  FillFront(d, k, s) =
             IF Unwritten(k, s, share, 0) > 0 THEN Broken(d)
             ELSE Done(Hold(d, WrittenFront(z, k, s, share), d.nItems + Len(s)))
  BY DEF FillFront, WriteFront, WrittenFront, Unwritten

LEMMA CopiedAtHead ==
    ASSUME NEW c \in Chunk, NEW at, NEW part
    PROVE  Copied(AtHead(c), at, part) = Copied(c, at, part)
<1>1. AtHead(c).vData = c.vData
  BY DEF AtHead
<1> HIDE DEF AtHead
<1> QED BY <1>1 DEF Copied

(* What m chunks filled from the last one leave of g elements before chunk j. *)
LeftOver(g, m, j) == g - (m - j) * nChunkSize

(* Before chunk j there is room for what ends at cut j.                    *)
LEMMA FrontSlots ==
    ASSUME NEW m \in Nat, NEW n \in Nat, NEW g \in 0..n, Enough(g, m),
           NEW cut, cut = FrontCut(g, m), NEW j \in 1..m, NEW left, left = LeftOver(g, m, j)
    PROVE  /\ left = cut[j] /\ left > 0 /\ MinOf(left, nChunkSize) = Gap(cut, j)
           /\ left - MinOf(left, nChunkSize) = cut[j - 1]
<1> DEFINE S == nChunkSize
           a == cut[j - 1]
           e == cut[j]
           h == MinOf(left, S)
<1>1. S \in Int /\ S > 0 /\ g \in Int
  BY Size
<1>2. /\ cut[0] = 0 /\ Cuts(cut, m, n) /\ FullButFirst(cut, m)
      /\ e = g - (m - j) * nChunkSize /\ e > 0
  BY FrontCuts
<1>3. e = left /\ left > 0
  BY <1>2 DEF LeftOver
<1>4. j \in 0..m /\ j - 1 \in 0..m
  OBVIOUS
<1>5. e \in Int /\ a \in Int /\ a >= 0
  BY <1>2, <1>4 DEF Cuts
<1>6. Gap(cut, j) = e - a /\ e - a <= S /\ (j > 1 => e - a = S) /\ (j = 1 => a = 0)
  <2>1. Gap(cut, j) <= nChunkSize /\ (j > 1 => Gap(cut, j) = nChunkSize)
    BY <1>2 DEF FullButFirst
  <2>2. Gap(cut, j) = e - a
    BY DEF Gap
  <2>3. j = 1 => a = 0
    BY <1>2
  <2> HIDE DEF a, e
  <2> QED BY <2>1, <2>2, <2>3
<1>7. j = 1 \/ j > 1
  OBVIOUS
<1> HIDE DEF a, e, S
<1>8. h = e - a
  <2>1. CASE j = 1
    <3>1. e <= S /\ e - a = e
      BY <1>1, <1>5, <1>6, <2>1
    <3>2. MinOf(e, S) = e
      BY <1>1, <1>5, <3>1, MinOfIs
    <3> QED BY <1>3, <3>1, <3>2
  <2>2. CASE j > 1
    <3>1. S <= e /\ e - a = S
      BY <1>1, <1>5, <1>6, <2>2
    <3>2. MinOf(e, S) = S
      BY <1>1, <1>5, <3>1, MinOfIs
    <3> QED BY <1>3, <3>1, <3>2
  <2> QED BY <1>7, <2>1, <2>2
<1> HIDE DEF h
<1>9. left - h = a
  BY <1>3, <1>5, <1>8
<1> QED BY <1>3, <1>6, <1>8, <1>9 DEF a, e, h, S

LEMMA FillFrontLeaves ==
    ASSUME NEW p, NEW b, NEW s, NEW share, RoomFront(p, b, s, share),
           NEW w, NEW i, NEW d, d = Made(b \o p, w, i), NEW k, k = Len(b) + 1,
           NEW o \in FillFront(d, k, s)
    PROVE  Leaves(o, Made(FilledFront(p, b, s, share), w, i + Len(s)))
<1> DEFINE l == Len(p)
           m == Len(b)
           n == Len(s)
           g == n - share
           z == b \o p
           y == FilledFront(p, b, s, share)
           cut == FrontCut(g, m)
           part == SubSeq(s, g + 1, n)
           q == Put(p, 1, Stacked(p[1], part))
           x == Stacks(b, s, cut)
<1>0. /\ p \in Seq(Chunk) /\ p # << >> /\ Loose(p)
      /\ b \in Seq(Chunk) /\ s \in Seq(Cell)
      /\ Enough(g, m)
  BY DEF RoomFront
<1> USE <1>0
<1>1. l \in Nat \ {0} /\ m \in Nat /\ n \in Nat /\ 1 \in 1..l /\ p[1] \in Chunk /\ nChunkSize \in Int
      /\ p[1].nHead \in Int
  <2>1. l \in Nat \ {0} /\ 1 \in 1..l /\ p[1] \in Chunk
    BY SpanOf
  <2> QED BY <2>1, ChunkOf, Size
<1>2. /\ z \in Seq(Chunk) /\ Len(z) = m + l
      /\ \A j \in 1..m : z[j] = b[j]
      /\ \A j \in 1..l : z[m + j] = p[j]
  BY Joined
<1>3. share \in 0..n /\ g \in 0..n /\ y \in Rows /\ Len(y) = l + m
  <2>1. /\ share \in 0..Len(s)
        /\ FilledFront(p, b, s, share) \in Rows
        /\ Len(FilledFront(p, b, s, share)) = Len(p) + Len(b)
    BY FilledFrontIs
  <2> QED BY <1>1, <2>1
<1>4. Whole(d) /\ d.used = z /\ d.unused = w /\ d.nItems = i /\ d.nChunks = Len(z) + Len(w) /\ d.nUnused = Len(w)
  <2>1. d = Made(z, w, i)
    OBVIOUS
  <2> HIDE DEF z
  <2> QED BY <2>1, MadeOf
<1>5. share = MinOf(n, z[k].nHead)
  <2>1. z[m + 1] = p[1]
    BY <1>1, <1>2
  <2> QED BY <2>1 DEF RoomAhead, RoomFront
<1> DEFINE f == WrittenFront(z, k, s, share)
<1>6. FillFront(d, k, s) = IF Unwritten(k, s, share, 0) > 0 THEN Broken(d)
                           ELSE Done(Hold(d, f, d.nItems + n))
  <2>1. z = d.used
    BY <1>4
  <2> HIDE DEF z
  <2> QED BY <1>5, <2>1, FillFrontIs
<1>7. y = x \o q
  BY DEF FilledFront
<1>9. ~(Unwritten(k, s, share, 0) > 0)
  <2>1. k - 0 - 1 = m
    BY <1>1
  <2> DEFINE r == m * nChunkSize
  <2>2. r \in Int /\ (m = 0 => r = 0)
    BY <1>1, Product
  <2>3. g <= r
    BY <2>2 DEF Enough
  <2>4. Unwritten(k, s, share, 0) = g - r
    BY <2>1 DEF Unwritten
  <2> HIDE DEF r, g
  <2> QED BY <1>3, <2>2, <2>3, <2>4
<1>10. /\ x \in Seq(Chunk) /\ Len(x) = m /\ q \in Seq(Chunk) /\ Len(q) = l
       /\ \A j \in 1..m : x[j] = Stacked(AtHead(b[j]), Slab(s, cut, j))
       /\ q[1] = Stacked(p[1], part)
       /\ \A j \in 1..l : j # 1 => q[j] = p[j]
  <2> DEFINE c == Stacked(p[1], part)
  <2>1. c \in Chunk /\ x \in Seq(Chunk) /\ Len(x) = m
    <3>1. c \in Chunk /\ x \in Rows /\ Len(x) = m
      BY FilledFrontIs
    <3> QED BY <3>1, RowIsLoose
  <2>2. 1 \in 1..Len(p)
    BY <1>1
  <2>5. l = Len(p) /\ q = Put(p, 1, c)
    OBVIOUS
  <2>3. \A j \in 1..m : x[j] = Stacked(AtHead(b[j]), Slab(s, cut, j))
    BY DEF Stacks
  <2> HIDE DEF c, q, x, l, m, cut
  <2>4. /\ Put(p, 1, c) \in Seq(Chunk) /\ Len(Put(p, 1, c)) = Len(p) /\ Put(p, 1, c)[1] = c
        /\ \A j \in 1..Len(p) : j # 1 => Put(p, 1, c)[j] = p[j]
    BY <2>1, <2>2, PutOf
  <2> QED BY <2>1, <2>3, <2>4, <2>5 DEF c
<1>11. /\ \A j \in 1..m : y[j] = x[j]
       /\ \A j \in 1..l : y[m + j] = q[j]
  <2> HIDE DEF q, x
  <2> QED BY <1>7, <1>10, Joined, SMTT(30)
<1>12. ASSUME NEW j \in 1..l PROVE y[m + j] = WriteFront(z, k, s, share, m + j)
  <2>0. z[m + j] = p[j] /\ y[m + j] = q[j]
    BY <1>2, <1>11
  <2>1. CASE j = 1
    <3>1. m + j = k /\ ~(k > k) /\ ~(k < k)
      BY <1>1, <2>1
    <3>2. Len(part) = share /\ part = SubSeq(s, Len(s) - share + 1, Len(s))
      <4>1. Len(part) = n - g /\ n - g = share
        <5>1. n - g = share
          BY <1>1, <1>3
        <5>2. Len(part) = n - g
          <6> HIDE DEF g
          <6> QED BY <1>3, TwoSlices
        <5> QED BY <5>1, <5>2
      <4> QED BY <4>1
    <3>3. y[k] = Stacked(p[1], part) /\ z[k] = p[1]
      BY <1>10, <2>0, <2>1, <3>1
    <3> HIDE DEF z, y, q
    <3>4. WriteFront(z, k, s, share, k) =
            [nHead |-> z[k].nHead - share, nTail |-> z[k].nTail,
             vData |-> Copied(z[k], z[k].nHead - share, SubSeq(s, Len(s) - share + 1, Len(s)))]
      BY <3>1 DEF WriteFront
    <3> HIDE DEF part
    <3> QED BY <3>1, <3>2, <3>3, <3>4 DEF Stacked
  <2>2. CASE j # 1
    <3>1. m + j > k
      BY <1>1, <2>2
    <3>2. y[m + j] = z[m + j]
      BY <1>10, <2>0, <2>2
    <3> HIDE DEF z, y, q
    <3> QED BY <3>1, <3>2 DEF WriteFront
  <2> QED BY <2>1, <2>2
<1>13. ASSUME NEW j \in 1..m PROVE y[j] = WriteFront(z, k, s, share, j)
  <2> DEFINE left == Unwritten(k, s, share, j)
             h == MinOf(left, nChunkSize)
             c == b[j]
  <2>1. ~(j > k) /\ j < k /\ j # k /\ k - j - 1 = m - j
    <3>1. k = m + 1
      OBVIOUS
    <3> HIDE DEF m
    <3> QED BY <1>1, <3>1
  <2>2. left = LeftOver(g, m, j)
    BY <2>1 DEF Unwritten, LeftOver
  <2>3. left = cut[j] /\ left > 0 /\ h = Gap(cut, j) /\ left - h = cut[j - 1]
    <3>1. cut = FrontCut(g, m)
      OBVIOUS
    <3> DEFINE v == LeftOver(g, m, j)
               r == FrontCut(g, m)
    <3>2. v = r[j] /\ v > 0 /\ MinOf(v, nChunkSize) = Gap(r, j) /\ v - MinOf(v, nChunkSize) = r[j - 1]
      <4>1. m \in Nat /\ n \in Nat /\ g \in 0..n /\ Enough(g, m) /\ j \in 1..m
        BY <1>0, <1>1, <1>3
      <4> HIDE DEF left, cut, g, m, n
      <4> QED BY <4>1, FrontSlots
    <3>3. v = left
      BY <2>2
    <3> HIDE DEF left, cut, g, m, n, v, r
    <3>4. r = cut
      BY <3>1 DEF r
    <3> QED BY <3>2, <3>3, <3>4
  <2>4. ~(left <= 0)
    <3>1. cut[j] \in Int
      <4>1. Cuts(cut, m, n)
        <5>1. cut = FrontCut(g, m)
          OBVIOUS
        <5> HIDE DEF cut, g, m, n
        <5> QED BY <1>0, <1>1, <1>3, <5>1, FrontCuts
      <4>2. j \in 0..m
        OBVIOUS
      <4> HIDE DEF cut, m, n
      <4> QED BY <4>1, <4>2 DEF Cuts
    <3> HIDE DEF left, cut
    <3> QED BY <2>3, <3>1
  <2>5. z[j] = c /\ c \in Chunk /\ y[j] = Stacked(AtHead(c), Slab(s, cut, j))
    BY <1>2, <1>10, <1>11
  <2>6. Len(Slab(s, cut, j)) = Gap(cut, j)
    <3>1. cut = FrontCut(g, m)
      OBVIOUS
    <3>2. n = Len(s)
      OBVIOUS
    <3> HIDE DEF cut, g, m, n
    <3>3. Cuts(cut, m, n)
      BY <1>0, <1>1, <1>3, <3>1, FrontCuts
    <3> QED BY <1>0, <1>1, <3>2, <3>3, SlabOf
  <2>7. Slab(s, cut, j) = SubSeq(s, left - h + 1, left)
    <3> HIDE DEF left, h, cut
    <3> QED BY <2>3 DEF Slab
  <2> DEFINE new == Slab(s, cut, j)
  <2> HIDE DEF z, y, c, new, cut
  <2>8. WriteFront(z, k, s, share, j) =
          [nHead |-> nChunkSize - h, nTail |-> nChunkSize,
           vData |-> Copied(z[j], nChunkSize - h, new)]
    <3>1. new = SubSeq(s, left - h + 1, left)
      BY <2>7 DEF new
    <3> QED BY <2>1, <2>4, <3>1 DEF WriteFront
  <2>9. Len(new) = h
    <3> HIDE DEF h, left
    <3> QED BY <2>3, <2>6 DEF new
  <2>10. AtHead(c).nHead = nChunkSize /\ AtHead(c).nTail = nChunkSize
    BY <2>5, AtHeadOf
  <2>11. Copied(AtHead(c), nChunkSize - h, new) = Copied(c, nChunkSize - h, new)
    BY <2>5, CopiedAtHead
  <2> HIDE DEF h, left
  <2>12. Stacked(AtHead(c), new) = [nHead |-> nChunkSize - h, nTail |-> nChunkSize,
                                   vData |-> Copied(c, nChunkSize - h, new)]
    BY <2>9, <2>10, <2>11 DEF Stacked
  <2> QED BY <2>5, <2>8, <2>12 DEF new
<1>14. f = y
  <2>1. y \in Seq(Chunk)
    BY <1>3, RowIsLoose
  <2>5. Len(z) = m + l /\ Len(y) = m + l
    BY <1>1, <1>2, <1>3
  <2>2. ASSUME NEW j \in 1..(m + l) PROVE f[j] = y[j]
    <3>1. f[j] = WriteFront(z, k, s, share, j)
      BY <2>5 DEF WrittenFront
    <3>2. CASE j <= m
      <4>1. j \in 1..m
        BY <1>1, <3>2
      <4> QED BY <1>13, <3>1, <4>1
    <3>3. CASE ~(j <= m)
      <4> DEFINE t == j - m
      <4>1. t \in 1..l /\ j = m + t
        <5> HIDE DEF m, l
        <5> QED BY <1>1, <3>3
      <4> HIDE DEF t
      <4> QED BY <1>12, <3>1, <4>1
    <3> QED BY <3>2, <3>3
  <2>3. DOMAIN f = 1..(m + l) /\ f = [j \in 1..(m + l) |-> f[j]]
    BY <2>5 DEF WrittenFront
  <2>4. DOMAIN y = 1..(m + l) /\ y = [j \in 1..(m + l) |-> y[j]]
    BY <2>1, <2>5
  <2> HIDE DEF f, y
  <2> QED BY <2>2, <2>3, <2>4
<1>15. Hold(d, f, d.nItems + n) = Made(y, w, i + n)
  <2>1. Len(z) = Len(y)
    BY <1>1, <1>2, <1>3
  <2> HIDE DEF f, z, y, n
  <2>2. Hold(d, f, d.nItems + n) = Fields(f, w, d.nItems + n, Len(z) + Len(w), Len(w))
    BY <1>4, HoldOf
  <2> QED BY <1>4, <1>14, <2>1, <2>2 DEF Made
<1>16. o \in Done(Hold(d, f, d.nItems + n))
  BY <1>6, <1>9
<1> HIDE DEF f
<1> QED BY <1>15, <1>16 DEF Done, Acquired, Leaves

(* Where the old head is, behind the chunks b.                             *)
HeadBehind(b) == Len(b) + 1

LEMMA FillFrontGives ==
    ASSUME NEW p, NEW b, NEW s, NEW share, RoomFront(p, b, s, share),
           NEW w \in Spares, NEW i, i = Len(Contents(p)), NEW d, d = Made(b \o p, w, i),
           NEW k, k = HeadBehind(b), NEW o \in FillFront(d, k, s)
    PROVE  \E y \in Rows : Leaves(o, Made(y, w, Span(y))) /\ Contents(y) = s \o Contents(p)
<1> DEFINE y == FilledFront(p, b, s, share)
           e == Contents(p)
<1>1. Leaves(o, Made(y, w, i + Len(s)))
  BY FillFrontLeaves DEF HeadBehind
<1>2. y \in Rows /\ Contents(y) = s \o e
  BY FilledFrontIs
<1>3. e \in Seq(Cell) /\ s \in Seq(Cell) /\ Len(e) \in Nat /\ Len(s) \in Nat
  <2>1. e \in Seq(Cell) /\ s \in Seq(Cell)
    BY SpanIsLength DEF RoomFront
  <2> QED BY <2>1
<1> HIDE DEF y
<1>4. Span(y) = Len(Contents(y))
  BY <1>2, RowLength
<1> HIDE DEF e
<1>5. Len(s \o e) = Len(s) + Len(e)
  BY <1>3, Joined
<1>6. i + Len(s) = Span(y)
  BY <1>2, <1>3, <1>4, <1>5 DEF e
<1> QED BY <1>1, <1>2, <1>6 DEF e

-----------------------------------------------------------------------------
(* prepend() and push_front() of an array.                                 *)

(* A head with room for all of the array.                                  *)
LEMMA HeadFits ==
    ASSUME NEW u \in Rows, u # << >>, NEW s \in Seq(Cell), u[1].nHead >= Len(s)
    PROVE  RoomFront(u, << >>, s, Len(s))
<1> DEFINE none == << >>
           n == Len(s)
           h == u[1].nHead
<1>1. none \in Seq(Chunk) /\ Len(none) = 0
  OBVIOUS
<1>2. /\ u \in Seq(Chunk) /\ Loose(u) /\ u[1] \in Chunk /\ u[1].nHead < u[1].nTail
      /\ u[Len(u)].nHead < u[Len(u)].nTail
  BY RowIsLoose
<1>3. h \in Int /\ n \in Int /\ n <= h
  <2>1. n \in Nat /\ h \in Int /\ h >= n
    BY <1>2, ChunkOf
  <2> HIDE DEF h, n
  <2> QED BY <2>1
<1> HIDE DEF none, h
<1>4. n = RoomAhead(u, s)
  <2> HIDE DEF n
  <2>1. MinOf(n, h) = n
    BY <1>3, MinOfIs
  <2> QED BY <2>1 DEF RoomAhead, n, h
<1>5. Enough(n - n, Len(none))
  <2>1. n - n = 0
    BY <1>3
  <2> QED BY <1>1, <2>1 DEF Enough
<1> QED BY <1>1, <1>2, <1>4, <1>5 DEF RoomFront, none

(* Chunks for what the head has no room for.                               *)
LEMMA HeadGrows ==
    ASSUME NEW u \in Rows, u # << >>, NEW s \in Seq(Cell), ~(u[1].nHead >= Len(s)),
           NEW m, m = chunks_count(Len(s) - u[1].nHead)
    PROVE  /\ m \in Nat \ {0}
           /\ \A b \in Spares : Len(b) = m => RoomFront(u, b, s, RoomAhead(u, s))
<1> DEFINE n == Len(s)
           h == u[1].nHead
           g == n - h
           share == RoomAhead(u, s)
<1>1. /\ u \in Seq(Chunk) /\ Loose(u) /\ u[1] \in Chunk /\ u[1].nHead < u[1].nTail
      /\ u[Len(u)].nHead < u[Len(u)].nTail
  BY RowIsLoose
<1>2. h \in Int /\ n \in Int /\ h < n /\ h >= 0
  <2>1. n \in Nat /\ h \in Int /\ ~(h >= n) /\ h >= 0
    BY <1>1, ChunkOf
  <2> HIDE DEF h, n
  <2> QED BY <2>1
<1>3. m = chunks_count(g)
  OBVIOUS
<1>4. share = h
  <2>1. share = MinOf(n, h)
    BY DEF RoomAhead
  <2> HIDE DEF h, n, share
  <2> QED BY <1>2, <2>1, MinOfIs
<1>5. n - share = g
  BY <1>4
<1> HIDE DEF h, n, share
<1>6. g \in Int /\ g > 0
  BY <1>2
<1> HIDE DEF g
<1>7. m \in Nat \ {0} /\ (m - 1) * nChunkSize < g /\ g <= m * nChunkSize
  BY <1>3, <1>6, ChunksHold
<1>8. Enough(g, m)
  BY <1>7 DEF Enough
<1>9. ASSUME NEW b \in Spares, Len(b) = m PROVE RoomFront(u, b, s, RoomAhead(u, s))
  <2>1. Enough(Len(s) - share, Len(b))
    BY <1>5, <1>8, <1>9 DEF n
  <2>2. b \in Seq(Chunk)
    BY DEF Spares
  <2> QED BY <1>1, <2>1, <2>2 DEF RoomFront, share
<1> QED BY <1>7, <1>9

(* One chunk, marked as full, for an array that fits into it.              *)
LEMMA FirstHead ==
    ASSUME NEW s \in Seq(Cell), s # << >>, Len(s) <= nChunkSize
    PROVE  /\ chunks_count(Len(s)) = 1
           /\ \A c \in Chunk : /\ RoomFront(<<AtHead(c)>>, << >>, s, Len(s))
                               /\ Contents(<<AtHead(c)>>) = << >>
<1> DEFINE n == Len(s)
           S == nChunkSize
           none == << >>
<1>1. n \in Int /\ n > 0 /\ n <= S /\ S \in Int /\ S > 0
  <2>1. n \in Nat /\ n # 0
    OBVIOUS
  <2> HIDE DEF n
  <2> QED BY <2>1, Size DEF n
<1>2. chunks_count(n) = 1
  <2> DEFINE m == chunks_count(n)
  <2> HIDE DEF n
  <2>1. m \in Nat \ {0} /\ (m - 1) * S < n
    BY <1>1, ChunksHold
  <2> HIDE DEF m
  <2>2. m - 1 \in Int /\ m \in Int
    BY <2>1
  <2> DEFINE q == (m - 1) * S
  <2>3. m - 1 >= 1 => q >= S
    BY <2>2, Product
  <2>4. q \in Int /\ q < n
    BY <2>1, <2>2, Product
  <2> HIDE DEF q, S
  <2>5. m - 1 < 1
    BY <1>1, <2>2, <2>3, <2>4
  <2> QED BY <2>1, <2>2, <2>5 DEF m
<1>3. ASSUME NEW c \in Chunk
      PROVE  RoomFront(<<AtHead(c)>>, << >>, s, n) /\ Contents(<<AtHead(c)>>) = << >>
  <2> DEFINE a == AtHead(c)
             p == <<a>>
  <2>1. a \in Chunk /\ a.nHead = nChunkSize /\ a.nTail = nChunkSize
    BY AtHeadOf
  <2> HIDE DEF a
  <2>2. p \in Seq(Chunk) /\ p # << >> /\ Len(p) = 1 /\ p[1] = a /\ DOMAIN p = 1..1
    BY <2>1
  <2>3. Contents(p) = << >>
    <3>1. Elements(a) = << >>
      BY <1>1, <2>1, ElementsOf
    <3> QED BY <2>1, <3>1, ContentsOne
  <2> HIDE DEF p
  <2>4. Loose(p)
    BY <1>1, <2>1, <2>2 DEF Loose
  <2>5. n = RoomAhead(p, s)
    <3>1. RoomAhead(p, s) = MinOf(n, S)
      BY <2>1, <2>2 DEF RoomAhead
    <3> HIDE DEF n, S
    <3> QED BY <1>1, <3>1, MinOfIs
  <2>6. Enough(n - n, Len(none))
    <3>1. n - n = 0 /\ Len(none) = 0
      BY <1>1
    <3> QED BY <3>1 DEF Enough
  <2>7. none \in Seq(Chunk)
    OBVIOUS
  <2> HIDE DEF none
  <2>8. RoomFront(p, none, s, n)
    BY <1>1, <2>2, <2>4, <2>5, <2>6, <2>7 DEF RoomFront
  <2> QED BY <2>3, <2>8 DEF p, a, none
<1> QED BY <1>2, <1>3

(* The lists that are linked before the head.                              *)
LEMMA LinkedBefore ==
    ASSUME NEW u \in Seq(Chunk), NEW v \in Spares, NEW i, NEW d, d = Made(u, v, i),
           NEW n \in Nat \ {0}, NEW o \in LinkFront(acquire_chunk_list(d, n))
    PROVE  \/ Fails(o, d)
           \/ \E list, w \in Spares : Leaves(o, Made(list \o u, w, i)) /\ Len(list) = n
<1> DEFINE P == acquire_chunk_list(d, n)
<1>1. \A p \in P : Fails(p, d) \/ Gives(p, u, v, i, n)
  BY ChunkList
<1> HIDE DEF P
<1>2. o \in LinkFront(P)
  BY DEF P
<1> QED BY <1>1, <1>2, LinkedFront

(* prepend() puts the array before the elements, or fails.                 *)
LEMMA PrependGives ==
    ASSUME NEW u \in Rows, NEW v \in Spares, NEW d, d = Made(u, v, Span(u)),
           NEW s \in Seq(Values), u = << >> => s # << >> /\ Len(s) <= nChunkSize,
           NEW o \in prepend(d, s)
    PROVE  Pushes(o, d, s \o Contents(u))
<1> DEFINE n == Len(s)
           i == Span(u)
<1>1. /\ d.used = u /\ u \in Seq(Chunk) /\ s \in Seq(Cell) /\ i = Len(Contents(u))
  <2>1. s \in Seq(Cell)
    BY DEF Cell
  <2> QED BY <2>1, MadeOf, RowIsLoose, RowLength
<1>2. PICK p \in preallocate_front(d, n) : o \in IF p.ans = "true" THEN FillFromHead(d, p.d, s) ELSE {p}
  BY <1>1 DEF prepend
<1>3. ASSUME Fails(p, d) PROVE Pushes(o, d, s \o Contents(u))
  <2>1. o = p
    BY <1>2, <1>3 DEF Fails
  <2> QED BY <1>3, <2>1 DEF Pushes
<1> HIDE DEF i
<1>4. CASE u # << >> /\ u[1].nHead >= n
  <2> DEFINE none == << >>
             k == HeadBehind(none)
  <2>1. p.ans = "true" /\ p.d = d
    BY <1>1, <1>2, <1>4 DEF preallocate_front, Done, Acquired
  <2>2. 1 + Len(u) - Len(u) = k
    <3>1. Len(u) \in Int /\ Len(none) = 0
      BY <1>1
    <3> QED BY <3>1 DEF HeadBehind
  <2>3. o \in FillFront(d, k, s)
    BY <1>1, <1>2, <1>4, <2>1, <2>2 DEF FillFromHead
  <2>4. RoomFront(u, none, s, n)
    BY <1>1, <1>4, HeadFits
  <2>5. none \o u = u
    BY <1>1
  <2> HIDE DEF none, n
  <2>6. d = Made(none \o u, v, i)
    BY <2>5 DEF i
  <2>7. k = HeadBehind(none)
    OBVIOUS
  <2> HIDE DEF k
  <2>8. \E y \in Rows : Leaves(o, Made(y, v, Span(y))) /\ Contents(y) = s \o Contents(u)
    BY <1>1, <2>3, <2>4, <2>6, <2>7, FillFrontGives
  <2> QED BY <2>8 DEF Pushes
<1>5. CASE u # << >> /\ ~(u[1].nHead >= n)
  <2> DEFINE m == chunks_count(n - u[1].nHead)
             share == RoomAhead(u, s)
  <2>1. m \in Nat \ {0} /\ \A b \in Spares : Len(b) = m => RoomFront(u, b, s, share)
    BY <1>1, <1>5, HeadGrows
  <2>2. p \in LinkFront(acquire_chunk_list(d, m))
    BY <1>1, <1>2, <1>5 DEF preallocate_front, FrontChunks
  <2> HIDE DEF m, share
  <2>3. CASE ~Fails(p, d)
    <3>1. PICK list, w \in Spares : Leaves(p, Made(list \o u, w, i)) /\ Len(list) = m
      <4>1. d = Made(u, v, i)
        BY DEF i
      <4> QED BY <1>1, <2>1, <2>2, <2>3, <4>1, LinkedBefore
    <3> DEFINE e == Made(list \o u, w, i)
               k == HeadBehind(list)
    <3>2. p.ans = "true" /\ p.d = e
      BY <3>1 DEF Leaves
    <3>3. Len(e.used) = Len(list) + Len(u)
      <4> DEFINE z == list \o u
      <4>0. e = Made(z, w, i)
        OBVIOUS
      <4> HIDE DEF e, z
      <4>3. e.used = z
        BY <4>0, MadeOf
      <4>1. e.used = list \o u
        BY <4>3 DEF z
      <4>2. list \in Seq(Chunk)
        BY DEF Spares
      <4> QED BY <1>1, <4>1, <4>2
    <3>4. 1 + Len(e.used) - Len(u) = k
      <4>1. Len(list) \in Int /\ Len(u) \in Int
        BY <1>1 DEF Spares
      <4> HIDE DEF e
      <4> QED BY <3>3, <4>1 DEF HeadBehind
    <3> HIDE DEF e
    <3>5. o \in FillFront(e, k, s)
      BY <1>1, <1>2, <1>5, <3>2, <3>4 DEF FillFromHead
    <3>6. RoomFront(u, list, s, share)
      BY <2>1, <3>1
    <3>7. k = HeadBehind(list) /\ e = Made(list \o u, w, i)
      BY DEF e
    <3> HIDE DEF k
    <3>8. \E y \in Rows : Leaves(o, Made(y, w, Span(y))) /\ Contents(y) = s \o Contents(u)
      <4>1. i = Len(Contents(u))
        BY <1>1
      <4> QED BY <3>5, <3>6, <3>7, <4>1, FillFrontGives
    <3> QED BY <3>8 DEF Pushes
  <2> QED BY <1>3, <2>3
<1>6. CASE u = << >>
  <2> DEFINE none == << >>
             zero == 0
  <2>1. /\ chunks_count(n) = 1
        /\ \A c \in Chunk : /\ RoomFront(<<AtHead(c)>>, none, s, n)
                            /\ Contents(<<AtHead(c)>>) = none
    BY <1>1, <1>6, FirstHead
  <2>2. p \in MarkHead(LinkFront(acquire_chunk_list(d, 1)))
    BY <1>1, <1>2, <1>6, <2>1 DEF preallocate_front, FrontChunks
  <2>3. PICK q \in LinkFront(acquire_chunk_list(d, 1)) : p = Marked(q)
    BY <2>2 DEF MarkHead
  <2>4. CASE ~Fails(q, d)
    <3> DEFINE one == 1
    <3>1. one \in Nat \ {0} /\ q \in LinkFront(acquire_chunk_list(d, one)) /\ d = Made(u, v, i)
      BY <2>3 DEF i
    <3> HIDE DEF one
    <3>2. PICK list, w \in Spares : Leaves(q, Made(list \o u, w, i)) /\ Len(list) = one
      BY <1>1, <2>4, <3>1, LinkedBefore
    <3>14. list \in Seq(Chunk) /\ Len(list) = 1
      BY <3>2 DEF Spares, one
    <3>3. list \in Seq(Chunk) /\ list \o u = list /\ list # << >> /\ Len(list) = 1
      <4>1. list \in Seq(Chunk) /\ Len(list) = 1
        BY <3>14
      <4>2. list \o u = list
        BY <1>6, <4>1
      <4>3. list # << >>
        <5> SUFFICES ASSUME list = << >> PROVE FALSE
          OBVIOUS
        <5>1. Len(list) = 0
          OBVIOUS
        <5> QED BY <4>1, <5>1
      <4> QED BY <4>1, <4>2, <4>3
    <3> DEFINE c == list[1]
               x == AtHead(c)
               y == Put(list, 1, x)
    <3>4. c \in Chunk
      BY <3>3
    <3>5. Leaves(p, Made(y, w, i))
      BY <2>3, <3>2, <3>3, MarkedOf
    <3>6. y = <<x>>
      <4>1. Put(list, 1, x) = [j \in 1..1 |-> IF j = 1 THEN x ELSE list[j]]
        <5> DEFINE l2 == Len(list)
        <5>1. DOMAIN list = 1..l2 /\ l2 = 1
          BY <3>14
        <5> HIDE DEF x, l2
        <5>2. Put(list, 1, x) = [j \in 1..l2 |-> IF j = 1 THEN x ELSE list[j]]
          BY <5>1 DEF Put
        <5> QED BY <5>1, <5>2
      <4>2. <<x>> = [j \in 1..1 |-> x]
        <5> HIDE DEF x
        <5> QED OBVIOUS
      <4>3. y = Put(list, 1, x)
        OBVIOUS
      <4> HIDE DEF x, y
      <4> QED BY <4>1, <4>2, <4>3
    <3> DEFINE r == <<x>>
               k == HeadBehind(none)
               l == Len(Contents(r))
               e == p.d
    <3>7. RoomFront(r, none, s, n) /\ Contents(r) = none
      BY <2>1, <3>4
    <3>8. r \in Seq(Chunk)
      BY <3>4, AtHeadOf
    <3> HIDE DEF r, x, y
    <3>9. none \o r = r /\ k = 1 /\ i = 0 /\ Contents(u) = none /\ l = 0 /\ s \o none = s
      BY <1>1, <1>6, <3>7, <3>8, NoChunks, ContentsEmpty DEF i, HeadBehind
    <3>10. o \in FillFront(e, k, s)
      <4>1. p.ans = "true"
        BY <3>5 DEF Leaves
      <4> QED BY <1>1, <1>2, <1>6, <3>9, <4>1 DEF FillFromHead
    <3> HIDE DEF none, n
    <3>11. e = Made(none \o r, w, l)
      <4>1. e = Made(y, w, i)
        BY <3>5 DEF Leaves
      <4> HIDE DEF e, l
      <4> QED BY <3>6, <3>9, <4>1 DEF r
    <3>12. k = HeadBehind(none) /\ l = Len(Contents(r))
      OBVIOUS
    <3> HIDE DEF e, l, k
    <3>13. \E z \in Rows : Leaves(o, Made(z, w, Span(z))) /\ Contents(z) = s \o Contents(r)
      BY <3>7, <3>10, <3>11, <3>12, FillFrontGives
    <3> QED BY <3>7, <3>9, <3>13 DEF Pushes
  <2>5. CASE Fails(q, d)
    <3>1. p = q
      BY <2>3, <2>5 DEF Fails, Marked
    <3> QED BY <1>3, <2>5, <3>1
  <2> QED BY <2>4, <2>5
<1> QED BY <1>4, <1>5, <1>6

LEMMA ReverseOf ==
    ASSUME NEW T, NEW s \in Seq(T)
    PROVE  Reverse(s) \in Seq(T) /\ Len(Reverse(s)) = Len(s) /\ (Reverse(s) = << >> <=> s = << >>)
<1> DEFINE n == Len(s)
           r == [i \in 1..n |-> s[(n - i) + 1]]
<1>1. n \in Nat /\ \A i \in 1..n : s[i] \in T
  OBVIOUS
<1>2. Reverse(s) = r
  BY DEF Reverse
<1>3. \A i \in 1..n : (n - i) + 1 \in 1..n
  <2> HIDE DEF n
  <2> QED BY <1>1
<1>4. \A i \in 1..n : s[(n - i) + 1] \in T
  BY <1>1, <1>3
<1>5. r \in Seq(T) /\ Len(r) = n
  <2> HIDE DEF n
  <2> QED BY <1>1, <1>4
<1>6. (r = << >> <=> n = 0) /\ (s = << >> <=> n = 0)
  <2>1. s = << >> <=> n = 0
    OBVIOUS
  <2>2. r = << >> <=> n = 0
    <3> HIDE DEF r, n
    <3> QED BY <1>5
  <2> QED BY <2>1, <2>2
<1> QED BY <1>2, <1>5, <1>6

LEMMA PushFrontBulkGives ==
    ASSUME NEW u \in Rows, NEW v \in Spares, NEW d, d = Made(u, v, Span(u)),
           NEW s \in Seq(Values), u = << >> => s # << >> /\ Len(s) <= nChunkSize,
           NEW o \in push_front_bulk(d, s)
    PROVE  Pushes(o, d, Reverse(s) \o Contents(u))
<1> DEFINE r == Reverse(s)
<1>1. r \in Seq(Values) /\ Len(r) = Len(s) /\ (r = << >> <=> s = << >>)
  BY ReverseOf
<1>2. o \in prepend(d, r)
  BY DEF push_front_bulk
<1> HIDE DEF r
<1>3. Pushes(o, d, r \o Contents(u))
  BY <1>1, <1>2, PrependGives
<1> QED BY <1>3 DEF r

-----------------------------------------------------------------------------
(* The steps of the specification.                                         *)

(* A call that puts elements into the deque: all of them or, when it fails,
   none.                                                                   *)
Pushed(op, s, list) ==
    /\ fault' = FALSE /\ Sound(dq') /\ call' = Called(op, s, 0) /\ got' = << >>
    /\ \/ ok' = TRUE /\ Contents(dq'.used) = list
       \/ ok' = FALSE /\ dq' = dq

(* A call that takes n elements, or all there are, off the front or the back. *)
Taken(op, n, s, read) ==
    /\ fault' = FALSE /\ Sound(dq') /\ call' = Called(op, << >>, n)
    /\ s \in Seq(Cell) /\ Len(s) = MinOf(n, Len(Contents(dq.used)))
    /\ got' = read /\ ok' = (s # << >>)

FrontTaken(op, n, s) == Taken(op, n, s, s) /\ Contents(dq.used) = s \o Contents(dq'.used)

BackTaken(op, n, s, read) == Taken(op, n, s, read) /\ Contents(dq.used) = Contents(dq'.used) \o s

LEMMA PushesSound ==
    ASSUME NEW u \in Rows, NEW v \in Spares, dq = Made(u, v, Span(u)), NEW op, NEW s, NEW P, NEW list,
           \A o \in P : Pushes(o, dq, list), Call(op, s, P)
    PROVE  Pushed(op, s, list)
<1>1. PICK o \in P : /\ dq' = o.d
                     /\ fault' = (o.ans = "fault")
                     /\ call' = Called(op, s, 0) /\ ok' = (o.ans = "true") /\ got' = << >>
  BY DEF Call
<1>2. Pushes(o, dq, list)
  BY <1>1
<1>3. CASE Fails(o, dq)
  <2>1. o.ans = "false" /\ o.d = dq
    BY <1>3 DEF Fails
  <2>2. Sound(dq)
    BY DEF Sound
  <2> QED BY <1>1, <2>1, <2>2 DEF Pushed
<1>4. CASE \E y \in Rows, w \in Spares : Leaves(o, Made(y, w, Span(y))) /\ Contents(y) = list
  <2>1. PICK y \in Rows, w \in Spares : Leaves(o, Made(y, w, Span(y))) /\ Contents(y) = list
    BY <1>4
  <2> DEFINE e == Made(y, w, Span(y))
  <2>2. o.ans = "true" /\ o.d = e
    BY <2>1 DEF Leaves
  <2>3. e.used = y /\ Sound(e)
    BY MadeOf DEF Sound
  <2> HIDE DEF e
  <2> QED BY <1>1, <2>1, <2>2, <2>3 DEF Pushed
<1> QED BY <1>2, <1>3, <1>4 DEF Pushes

LEMMA FrontSound ==
    ASSUME NEW u \in Rows, NEW v \in Spares, dq = Made(u, v, Span(u)), NEW op, NEW n, NEW r,
           TakesFront(r, u), Len(r.read) = MinOf(n, Span(u)), Extract(op, n, r)
    PROVE  FrontTaken(op, n, r.read)
<1>1. PICK y \in Rows, w \in Spares, s \in Seq(Cell) :
        r = Read(Made(y, w, Span(y)), s) /\ Contents(u) = s \o Contents(y)
  BY DEF TakesFront
<1> DEFINE e == Made(y, w, Span(y))
<1>2. r.d = e /\ r.read = s
  BY <1>1 DEF Read
<1>3. e.used = y /\ Sound(e)
  BY MadeOf DEF Sound
<1> HIDE DEF e
<1>4. dq.used = u /\ Len(Contents(u)) = Span(u)
  BY MadeOf, RowLength
<1> QED BY <1>1, <1>2, <1>3, <1>4 DEF FrontTaken, Taken, Extract

LEMMA BackSound ==
    ASSUME NEW u \in Rows, NEW v \in Spares, dq = Made(u, v, Span(u)), NEW op, NEW n, NEW r, NEW read,
           TakesBack(r, u), Len(r.read) = MinOf(n, Span(u)), read = << >> <=> r.read = << >>,
           Extract(op, n, Read(r.d, read))
    PROVE  BackTaken(op, n, r.read, read)
<1>1. PICK y \in Rows, w \in Spares, s \in Seq(Cell) :
        r = Read(Made(y, w, Span(y)), s) /\ Contents(u) = Contents(y) \o s
  BY DEF TakesBack
<1> DEFINE e == Made(y, w, Span(y))
<1>2. r.d = e /\ r.read = s
  BY <1>1 DEF Read
<1>3. e.used = y /\ Sound(e)
  BY MadeOf DEF Sound
<1> HIDE DEF e
<1>4. dq.used = u /\ Len(Contents(u)) = Span(u)
  BY MadeOf, RowLength
<1>5. dq' = e /\ fault' = FALSE /\ call' = Called(op, << >>, n) /\ got' = read /\ ok' = (read # << >>)
  BY <1>2 DEF Extract, Read
<1> QED BY <1>1, <1>2, <1>3, <1>4, <1>5 DEF BackTaken, Taken

LEMMA BulkOf ==
    ASSUME NEW s \in Bulk
    PROVE  s \in Seq(Values) /\ Len(s) \in 0..MaxBulk
<1>1. PICK n \in 0..MaxBulk : s \in [1..n -> Values]
  BY DEF Bulk
<1>2. n \in Nat
  BY <1>1, SizeAssumption
<1> QED BY <1>1, <1>2

(* What the methods do to a deque that the invariant describes.            *)
PushStep ==
    \/ \E x \in Values : \/ Pushed("push_back", <<x>>, Contents(dq.used) \o <<x>>)
                         \/ Pushed("push_front", <<x>>, <<x>> \o Contents(dq.used))
    \/ \E s \in Bulk : \/ Pushed("push_back", s, Contents(dq.used) \o s)
                       \/ Pushed("push_front", s, Reverse(s) \o Contents(dq.used))
                       \/ Pushed("prepend", s, s \o Contents(dq.used))

PopStep ==
    \E s : \/ FrontTaken("pop_front", 1, s) \/ BackTaken("pop_back", 1, s, s)
           \/ \E n \in 0..MaxBulk : \/ FrontTaken("pop_front", n, s)
                                    \/ BackTaken("pop_back", n, s, Reverse(s))
                                    \/ BackTaken("take_back", n, s, s)

(* The methods that are about all of the elements or about memory only.    *)
OtherStep ==
    \/ \E op \in {"clear", "flush"} : Pushed(op, << >>, << >>) /\ ok' = TRUE
    \/ \E op \in {"truncate", "reserve"} : Pushed(op, << >>, Contents(dq.used))

LEMMA PushStepSound ==
    ASSUME Careful, DequeInv, PushBack \/ PushFront \/ PushBackBulk \/ PushFrontBulk \/ Prepend
    PROVE  PushStep
<1>1. PICK u \in Rows, v \in Spares : dq = Made(u, v, Span(u))
  BY DEF DequeInv, Sound
<1>2. dq.used = u /\ dq.unused = v
  BY <1>1, MadeOf
<1>3. CleanBack => Reset(v)
  BY <1>2 DEF CleanBack, Reset, Careful
<1>4. CASE PushBack
  <2>1. PICK x \in Values : Call("push_back", <<x>>, push_back(dq, x))
    BY <1>4 DEF PushBack
  <2>2. \A o \in push_back(dq, x) : Pushes(o, dq, Contents(u) \o <<x>>)
    BY <1>1, <1>3, <1>4, PushBackGives DEF PushBack
  <2>3. Pushed("push_back", <<x>>, Contents(u) \o <<x>>)
    BY <1>1, <2>1, <2>2, PushesSound
  <2> QED BY <1>2, <2>3 DEF PushStep
<1>5. CASE PushFront
  <2>1. PICK x \in Values : Call("push_front", <<x>>, push_front(dq, x))
    BY <1>5 DEF PushFront
  <2>2. \A o \in push_front(dq, x) : Pushes(o, dq, <<x>> \o Contents(u))
    BY <1>1, PushFrontGives
  <2>3. Pushed("push_front", <<x>>, <<x>> \o Contents(u))
    BY <1>1, <2>1, <2>2, PushesSound
  <2> QED BY <1>2, <2>3 DEF PushStep
<1>6. CASE PushBackBulk
  <2>1. PICK s \in Bulk : CarefulBack(s) /\ Call("push_back", s, push_back_bulk(dq, s))
    BY <1>6 DEF PushBackBulk
  <2>2. s \in Seq(Values) /\ (FitsBack(dq, Len(s)) \/ BackChunks(dq, Len(s)) # 0)
    BY <2>1, BulkOf DEF CarefulBack, Careful
  <2>3. \A o \in push_back_bulk(dq, s) : Pushes(o, dq, Contents(u) \o s)
    BY <1>1, <1>3, <1>6, <2>2, PushBackBulkGives DEF PushBackBulk
  <2>4. Pushed("push_back", s, Contents(u) \o s)
    BY <1>1, <2>1, <2>3, PushesSound
  <2> QED BY <1>2, <2>4 DEF PushStep
<1>7. CASE PushFrontBulk
  <2>1. PICK s \in Bulk : CarefulFront(s) /\ Call("push_front", s, push_front_bulk(dq, s))
    BY <1>7 DEF PushFrontBulk
  <2>2. s \in Seq(Values) /\ (u = << >> => s # << >> /\ Len(s) <= nChunkSize)
    BY <1>2, <2>1, BulkOf DEF CarefulFront, Careful
  <2>3. \A o \in push_front_bulk(dq, s) : Pushes(o, dq, Reverse(s) \o Contents(u))
    BY <1>1, <2>2, PushFrontBulkGives
  <2>4. Pushed("push_front", s, Reverse(s) \o Contents(u))
    BY <1>1, <2>1, <2>3, PushesSound
  <2> QED BY <1>2, <2>4 DEF PushStep
<1>8. CASE Prepend
  <2>1. PICK s \in Bulk : CarefulFront(s) /\ Call("prepend", s, prepend(dq, s))
    BY <1>8 DEF Prepend
  <2>2. s \in Seq(Values) /\ (u = << >> => s # << >> /\ Len(s) <= nChunkSize)
    BY <1>2, <2>1, BulkOf DEF CarefulFront, Careful
  <2>3. \A o \in prepend(dq, s) : Pushes(o, dq, s \o Contents(u))
    BY <1>1, <2>2, PrependGives
  <2>4. Pushed("prepend", s, s \o Contents(u))
    BY <1>1, <2>1, <2>3, PushesSound
  <2> QED BY <1>2, <2>4 DEF PushStep
<1> QED BY <1>4, <1>5, <1>6, <1>7, <1>8

LEMMA PopStepSound ==
    ASSUME DequeInv, PopNothing \/ PopFront \/ PopBack \/ PopFrontBulk \/ PopBackBulk \/ TakeBack
    PROVE  PopStep
<1>1. PICK u \in Rows, v \in Spares : dq = Made(u, v, Span(u))
  BY DEF DequeInv, Sound
<1>2. dq.used = u /\ dq.unused = v /\ dq.nItems = Span(u)
  BY <1>1, MadeOf
<1>3. Span(u) \in Nat /\ (u # << >> => Span(u) > 0) /\ (u = << >> => Span(u) = 0)
  BY RowLength, NoChunks
<1>4. CASE PopNothing
  <2> DEFINE none == << >>
             r == Read(dq, none)
  <2>1. PICK op \in {"pop_front", "pop_back"} : Extract(op, 1, r)
    BY <1>4 DEF PopNothing
  <2>2. u = << >> /\ Span(u) = 0
    BY <1>2, <1>3, <1>4 DEF PopNothing
  <2>3. Contents(u) = none /\ none \in Seq(Cell) /\ none \o none = none
    BY <2>2, ContentsEmpty
  <2>4. r.read = none /\ r.d = dq /\ Len(none) = 0 /\ MinOf(1, Span(u)) = 0
    BY <2>2, <1>3 DEF Read, MinOf
  <2>5. r = Read(Made(u, v, Span(u)), none)
    BY <1>1
  <2> HIDE DEF none, r
  <2>6. TakesFront(r, u) /\ TakesBack(r, u) /\ Len(r.read) = MinOf(1, Span(u))
    BY <2>3, <2>4, <2>5 DEF TakesFront, TakesBack
  <2>7. Read(r.d, r.read) = r
    BY <2>4 DEF r
  <2>8. CASE op = "pop_front"
    <3>1. FrontTaken("pop_front", 1, r.read)
      BY <1>1, <2>1, <2>6, <2>8, FrontSound
    <3> QED BY <3>1 DEF PopStep
  <2>9. CASE op = "pop_back"
    <3>1. BackTaken("pop_back", 1, r.read, r.read)
      BY <1>1, <2>1, <2>6, <2>7, <2>9, BackSound
    <3> QED BY <3>1 DEF PopStep
  <2> QED BY <2>8, <2>9
<1>5. CASE PopFront
  <2>1. u # << >>
    BY <1>2, <1>3, <1>5 DEF PopFront
  <2>2. u[1].nHead < nChunkSize /\ u[1] \in Chunk
    BY <2>1, RowIsLoose
  <2>3. ~(u[1].nHead >= nChunkSize)
    BY <2>2, ChunkOf, Size
  <2> DEFINE r == pop_front(dq)
  <2>4. Extract("pop_front", 1, r)
    BY <1>2, <1>5, <2>3 DEF PopFront
  <2>5. TakesFront(r, u) /\ Len(r.read) = 1
    BY <1>1, <2>1, PopFrontGives
  <2>6. MinOf(1, Span(u)) = 1
    BY <1>3, <2>1 DEF MinOf
  <2> HIDE DEF r
  <2>7. FrontTaken("pop_front", 1, r.read)
    BY <1>1, <2>4, <2>5, <2>6, FrontSound
  <2> QED BY <2>7 DEF PopStep
<1>6. CASE PopBack
  <2>1. u # << >>
    BY <1>2, <1>3, <1>6 DEF PopBack
  <2>2. u[Len(u)].nHead < u[Len(u)].nTail /\ u[Len(u)] \in Chunk
    BY <2>1, RowIsLoose
  <2>3. ~(Last(u).nTail <= 0)
    <3> DEFINE h == u[Len(u)].nHead
               t == u[Len(u)].nTail
    <3>1. h < t /\ h \in Int /\ t \in Int /\ 0 <= h
      BY <2>2, ChunkOf
    <3> HIDE DEF h, t
    <3>2. ~(t <= 0)
      BY <3>1
    <3> QED BY <3>2 DEF Last, t
  <2> DEFINE r == pop_back(dq)
  <2>4. Extract("pop_back", 1, r)
    BY <1>2, <1>6, <2>3 DEF PopBack
  <2>5. TakesBack(r, u) /\ Len(r.read) = 1
    BY <1>1, <2>1, PopBackGives
  <2>6. MinOf(1, Span(u)) = 1
    BY <1>3, <2>1 DEF MinOf
  <2>8. r = Read(r.d, r.read)
    BY DEF pop_back, Read
  <2> HIDE DEF r
  <2>7. BackTaken("pop_back", 1, r.read, r.read)
    BY <1>1, <2>4, <2>5, <2>6, <2>8, BackSound
  <2> QED BY <2>7 DEF PopStep
<1>7. CASE PopFrontBulk
  <2>1. PICK n \in 0..MaxBulk : Extract("pop_front", n, pop_front_bulk(dq, n))
    BY <1>7 DEF PopFrontBulk
  <2> DEFINE r == pop_front_bulk(dq, n)
  <2>2. n \in Nat
    BY SizeAssumption
  <2>3. TakesFront(r, u) /\ Len(r.read) = MinOf(n, Span(u)) /\ Extract("pop_front", n, r)
    BY <1>1, <2>1, <2>2, PopFrontBulkGives
  <2> HIDE DEF r
  <2>4. FrontTaken("pop_front", n, r.read)
    BY <1>1, <2>3, FrontSound
  <2> QED BY <2>4 DEF PopStep
<1>8. CASE PopBackBulk
  <2>1. PICK n \in 0..MaxBulk : Extract("pop_back", n, pop_back_bulk(dq, n))
    BY <1>8 DEF PopBackBulk
  <2> DEFINE r == take_back(dq, n)
             s == r.read
             read == Reverse(s)
  <2>2. n \in Nat
    BY SizeAssumption
  <2>3. TakesBack(r, u) /\ Len(r.read) = MinOf(n, Span(u))
    BY <1>1, <2>1, <2>2, TakeBackGives
  <2>4. Extract("pop_back", n, Read(r.d, read))
    BY <2>1 DEF pop_back_bulk
  <2> HIDE DEF r
  <2>5. r.read \in Seq(Cell)
    BY <2>3 DEF TakesBack, Read
  <2>6. read = << >> <=> r.read = << >>
    BY <2>5, ReverseOf
  <2> HIDE DEF read
  <2>7. BackTaken("pop_back", n, r.read, read)
    BY <1>1, <2>3, <2>4, <2>6, BackSound
  <2> QED BY <2>7 DEF PopStep, read
<1>9. CASE TakeBack
  <2>1. PICK n \in 0..MaxBulk : Extract("take_back", n, take_back(dq, n))
    BY <1>9 DEF TakeBack
  <2> DEFINE r == take_back(dq, n)
  <2>2. n \in Nat
    BY SizeAssumption
  <2>3. TakesBack(r, u) /\ Len(r.read) = MinOf(n, Span(u)) /\ Extract("take_back", n, r)
    BY <1>1, <2>1, <2>2, TakeBackGives
  <2> HIDE DEF r
  <2>4. r = Read(r.d, r.read)
    BY <2>3 DEF TakesBack, Read
  <2>5. BackTaken("take_back", n, r.read, r.read)
    BY <1>1, <2>3, <2>4, BackSound
  <2> QED BY <2>5 DEF PopStep
<1> QED BY <1>4, <1>5, <1>6, <1>7, <1>8, <1>9

LEMMA OtherStepSound ==
    ASSUME DequeInv, Clear \/ Truncate \/ Flush \/ Reserve
    PROVE  OtherStep
<1>1. PICK u \in Rows, v \in Spares : dq = Made(u, v, Span(u))
  BY DEF DequeInv, Sound
<1>2. dq.used = u
  BY <1>1, MadeOf
<1> DEFINE none == << >>
<1>3. ASSUME NEW op, NEW y \in Rows, NEW w \in Spares, Call(op, none, Done(Made(y, w, Span(y))))
      PROVE  Pushed(op, none, Contents(y)) /\ ok' = TRUE
  <2> DEFINE e == Made(y, w, Span(y))
  <2>1. Sound(e) /\ e.used = y
    BY MadeOf DEF Sound
  <2> HIDE DEF e, none
  <2>2. dq' = e /\ fault' = FALSE /\ call' = Called(op, none, 0) /\ ok' = TRUE /\ got' = << >>
    <3>1. Call(op, none, Done(e))
      BY <1>3 DEF e
    <3>2. PICK o \in Done(e) : /\ dq' = o.d /\ fault' = (o.ans = "fault")
                               /\ call' = Called(op, none, 0) /\ ok' = (o.ans = "true") /\ got' = << >>
      BY <3>1 DEF Call
    <3>3. o = [ans |-> "true", d |-> e, list |-> << >>]
      BY DEF Done, Acquired
    <3>4. o.ans = "true" /\ o.d = e
      BY <3>3
    <3> QED BY <3>2, <3>4
  <2> QED BY <2>1, <2>2 DEF Pushed
<1>4. none \in Rows /\ none \in Spares /\ Contents(none) = none /\ Span(none) = 0
  BY NoChunks, ContentsEmpty
<1>5. CASE Clear
  <2>1. PICK w \in Spares : clear(dq) = Made(none, w, 0)
    BY <1>1, ClearGives
  <2>2. Call("clear", none, Done(Made(none, w, Span(none))))
    BY <1>4, <1>5, <2>1 DEF Clear
  <2> HIDE DEF none
  <2>3. Pushed("clear", none, none) /\ ok' = TRUE
    BY <1>3, <1>4, <2>2
  <2> QED BY <2>3 DEF OtherStep, none
<1>6. CASE Flush
  <2>1. Empty = Made(none, none, Span(none))
    BY NoChunks
  <2>2. Call("flush", none, Done(Made(none, none, Span(none))))
    BY <1>6, <2>1 DEF Flush
  <2> HIDE DEF none
  <2>3. Pushed("flush", none, none) /\ ok' = TRUE
    BY <1>3, <1>4, <2>2
  <2> QED BY <2>3 DEF OtherStep, none
<1>7. CASE Truncate
  <2>1. truncate(dq) = Made(u, none, Span(u))
    BY <1>1, TruncateGives
  <2>2. Call("truncate", none, Done(Made(u, none, Span(u))))
    BY <1>7, <2>1 DEF Truncate
  <2> HIDE DEF none
  <2>3. Pushed("truncate", none, Contents(u))
    BY <1>3, <1>4, <2>2
  <2> QED BY <1>2, <2>3 DEF OtherStep, none
<1>8. CASE Reserve
  <2>1. PICK n \in 0..MaxReserve : Call("reserve", none, reserve(dq, n))
    BY <1>8 DEF Reserve
  <2>2. n \in Nat
    BY SizeAssumption
  <2>3. \A o \in reserve(dq, n) : Pushes(o, dq, Contents(u))
    BY <1>1, <2>2, ReserveGives
  <2> HIDE DEF none
  <2>4. Pushed("reserve", none, Contents(u))
    BY <1>1, <2>1, <2>3, PushesSound
  <2> QED BY <1>2, <2>4 DEF OtherStep, none
<1> QED BY <1>5, <1>6, <1>7, <1>8

-----------------------------------------------------------------------------
(* The invariant.                                                          *)

(* The deque is a row of chunks without gaps and some that are set aside,
   the counters count them, no method has stepped outside of them, and what
   was read out is a sequence of cells: the inductive invariant.           *)
IndInv == DequeInv /\ ok \in BOOLEAN /\ got \in Seq(Cell)

LEMMA InitIndInv == Init => IndInv
<1> SUFFICES ASSUME Init PROVE IndInv
  OBVIOUS
<1>1. Sound(Empty)
  BY NoChunks DEF Sound
<1> QED BY <1>1 DEF Init, IndInv, DequeInv

LEMMA PushedKeeps ==
    ASSUME NEW op, NEW s, NEW list, Pushed(op, s, list)
    PROVE  IndInv'
<1>1. << >> \in Seq(Cell)
  OBVIOUS
<1>2. fault' = FALSE /\ Sound(dq') /\ got' = << >> /\ ok' \in BOOLEAN
  BY DEF Pushed
<1> QED BY <1>1, <1>2 DEF IndInv, DequeInv, Sound

LEMMA TakenKeeps ==
    ASSUME NEW op, NEW n, NEW s, NEW read, Taken(op, n, s, read), read \in Seq(Cell)
    PROVE  IndInv'
<1>1. fault' = FALSE /\ Sound(dq') /\ got' = read /\ ok' \in BOOLEAN
  BY DEF Taken
<1> QED BY <1>1 DEF IndInv, DequeInv, Sound

LEMMA NextIndInv ==
    ASSUME Careful, IndInv, [Next]_vars
    PROVE  IndInv'
<1>1. CASE PushBack \/ PushFront \/ PushBackBulk \/ PushFrontBulk \/ Prepend
  <2>1. PushStep
    BY <1>1, PushStepSound DEF IndInv
  <2> QED BY <2>1, PushedKeeps DEF PushStep
<1>2. CASE PopNothing \/ PopFront \/ PopBack \/ PopFrontBulk \/ PopBackBulk \/ TakeBack
  <2>1. PopStep
    BY <1>2, PopStepSound DEF IndInv
  <2>2. PICK s : \/ FrontTaken("pop_front", 1, s) \/ BackTaken("pop_back", 1, s, s)
                 \/ \E n \in 0..MaxBulk : \/ FrontTaken("pop_front", n, s)
                                          \/ BackTaken("pop_back", n, s, Reverse(s))
                                          \/ BackTaken("take_back", n, s, s)
    BY <2>1 DEF PopStep
  <2>3. \E op, n, read : Taken(op, n, s, read) /\ read \in {s, Reverse(s)}
    BY <2>2 DEF FrontTaken, BackTaken
  <2>4. PICK op, n, read : Taken(op, n, s, read) /\ read \in {s, Reverse(s)}
    BY <2>3
  <2>5. s \in Seq(Cell)
    BY <2>4 DEF Taken
  <2>6. read \in Seq(Cell)
    BY <2>4, <2>5, ReverseOf
  <2> QED BY <2>4, <2>6, TakenKeeps
<1>3. CASE Clear \/ Truncate \/ Flush \/ Reserve
  <2>1. OtherStep
    BY <1>3, OtherStepSound DEF IndInv
  <2> QED BY <2>1, PushedKeeps DEF OtherStep
<1>4. CASE UNCHANGED vars
  BY <1>4 DEF vars, IndInv, DequeInv, Sound
<1> QED BY <1>1, <1>2, <1>3, <1>4 DEF Next

(* With careful clients the methods keep the deque sound, whatever the size
   of the chunks, the memory, and the order of the calls.                  *)
THEOREM Inductive ==
    ASSUME Careful
    PROVE  Spec => []IndInv
<1>1. Init => IndInv
  BY InitIndInv
<1>2. IndInv /\ [Next]_vars => IndInv'
  BY NextIndInv
<1> QED BY <1>1, <1>2, PTL DEF Spec

LEMMA IndInvImplies ==
    ASSUME IndInv
    PROVE  TypeOK /\ CountersAgree /\ NoGaps /\ NoFault
<1>1. PICK u \in Rows, v \in Spares : dq = Made(u, v, Span(u))
  BY DEF IndInv, DequeInv, Sound
<1>2. /\ dq.used = u /\ dq.unused = v /\ dq.nItems = Span(u)
      /\ dq.nChunks = Len(u) + Len(v) /\ dq.nUnused = Len(v)
  BY <1>1, MadeOf
<1>3. u \in Seq(Chunk) /\ v \in Seq(Chunk) /\ Gapless(u)
  BY DEF Rows, Spares
<1>4. Len(Contents(u)) = Span(u) /\ Span(u) \in Int
  BY RowLength
<1>5. Len(u) \in Nat /\ Len(v) \in Nat /\ Len(u) + Len(v) \in Int
  <2>1. Len(u) \in Nat /\ Len(v) \in Nat
    BY <1>3
  <2> QED BY <2>1
<1>6. TypeOK
  <2>1. dq \in [used : Seq(Chunk), unused : Seq(Chunk), nItems : Int, nChunks : Int, nUnused : Int]
    BY <1>1, <1>3, <1>4, <1>5 DEF Made, Fields
  <2>2. fault \in BOOLEAN /\ ok \in BOOLEAN /\ got \in Seq(Values \cup {Junk})
    BY DEF IndInv, DequeInv, Cell
  <2> QED BY <2>1, <2>2 DEF TypeOK
<1>7. CountersAgree
  BY <1>2, <1>4 DEF CountersAgree
<1>8. NoGaps
  BY <1>2, <1>3 DEF NoGaps, Gapless
<1>9. NoFault
  BY DEF NoFault, IndInv, DequeInv
<1> QED BY <1>6, <1>7, <1>8, <1>9

(* The fields of the deque keep their types: the offsets of a chunk stay
   within it and the chunks hold elements or junk.                         *)
THEOREM TypesCorrect ==
    ASSUME Careful
    PROVE  Spec => []TypeOK
  BY Inductive, IndInvImplies, PTL

(* The counters agree with the lists of chunks and with the elements in them. *)
THEOREM CountersCorrect ==
    ASSUME Careful
    PROVE  Spec => []CountersAgree
  BY Inductive, IndInvImplies, PTL

(* No chunk in use is empty and there is no gap between the elements.      *)
THEOREM ChunksInARow ==
    ASSUME Careful
    PROVE  Spec => []NoGaps
  BY Inductive, IndInvImplies, PTL

(* No method follows a null pointer or writes outside of a chunk.          *)
THEOREM Faultless ==
    ASSUME Careful
    PROVE  Spec => []NoFault
  BY Inductive, IndInvImplies, PTL

-----------------------------------------------------------------------------
(* The methods are those of a deque.                                       *)

LEMMA CutFront ==
    ASSUME NEW T, NEW s \in Seq(T), NEW t \in Seq(T), NEW c, c = s \o t, NEW k, k = Len(s)
    PROVE  /\ SubSeq(c, 1, k) = s
           /\ SubSeq(c, Len(c) - (Len(c) - k) + 1, Len(c)) = t
<1>1. /\ c \in Seq(T) /\ Len(c) = k + Len(t) /\ k \in Nat /\ Len(t) \in Nat
      /\ \A i \in 1..k : c[i] = s[i]
      /\ \A i \in 1..Len(t) : c[k + i] = t[i]
  BY Joined
<1> DEFINE n == Len(c)
           m == Len(t)
           a == SubSeq(c, 1, k)
           b == SubSeq(c, k + 1, n)
<1>2. n - (n - k) + 1 = k + 1
  <2>1. n \in Int
    BY <1>1
  <2> HIDE DEF n
  <2> QED BY <1>1, <2>1
<1>3. /\ 1 \in 1..(n + 1) /\ k \in (1 - 1)..n /\ k - 1 + 1 = k
      /\ k + 1 \in 1..(n + 1) /\ n \in ((k + 1) - 1)..n /\ n - (k + 1) + 1 = m
  <2>1. n = k + m /\ n \in Nat /\ m \in Nat
    BY <1>1
  <2> HIDE DEF n, m
  <2> QED BY <1>1, <2>1
<1>4. /\ a \in Seq(T) /\ Len(a) = k
      /\ \A i \in 1..k : a[i] = c[1 + i - 1]
  <2> DEFINE one == 1
  <2>1. one \in 1..(Len(c) + 1) /\ k \in (one - 1)..Len(c) /\ k - one + 1 = k
    BY <1>3
  <2> HIDE DEF one
  <2>2. /\ SubSeq(c, one, k) \in Seq(T) /\ Len(SubSeq(c, one, k)) = k - one + 1
        /\ \A i \in 1..(k - one + 1) : SubSeq(c, one, k)[i] = c[one + i - 1]
    BY <1>1, <2>1, Slice
  <2>3. /\ SubSeq(c, one, k) \in Seq(T) /\ Len(SubSeq(c, one, k)) = k
        /\ \A i \in 1..k : SubSeq(c, one, k)[i] = c[one + i - 1]
    BY <2>1, <2>2
  <2> QED BY <2>3 DEF one
<1>5. /\ b \in Seq(T) /\ Len(b) = m
      /\ \A i \in 1..m : b[i] = c[(k + 1) + i - 1]
  <2> DEFINE p == k + 1
  <2>1. p \in 1..(Len(c) + 1) /\ n \in (p - 1)..Len(c) /\ n - p + 1 = m
    BY <1>3
  <2> HIDE DEF p, n
  <2>2. /\ SubSeq(c, p, n) \in Seq(T) /\ Len(SubSeq(c, p, n)) = n - p + 1
        /\ \A i \in 1..(n - p + 1) : SubSeq(c, p, n)[i] = c[p + i - 1]
    BY <1>1, <2>1, Slice
  <2>3. /\ SubSeq(c, p, n) \in Seq(T) /\ Len(SubSeq(c, p, n)) = m
        /\ \A i \in 1..m : SubSeq(c, p, n)[i] = c[p + i - 1]
    BY <2>1, <2>2
  <2> QED BY <2>3 DEF p
<1> HIDE DEF a, b, n, m
<1>6. a = s
  <2>1. \A i \in 1..k : 1 + i - 1 = i
    BY <1>1
  <2>2. Len(s) = k /\ \A i \in 1..k : a[i] = s[i]
    BY <1>1, <1>4, <2>1
  <2> QED BY <1>4, <2>2
<1>7. b = t
  <2>1. \A i \in 1..m : (k + 1) + i - 1 = k + i
    BY <1>1 DEF m
  <2>2. Len(t) = m /\ \A i \in 1..m : b[i] = t[i]
    BY <1>1, <1>5, <2>1 DEF m
  <2> QED BY <1>5, <2>2
<1> QED BY <1>2, <1>6, <1>7 DEF a, b, n

LEMMA CutBack ==
    ASSUME NEW T, NEW s \in Seq(T), NEW t \in Seq(T), NEW c, c = t \o s, NEW k, k = Len(s)
    PROVE  /\ SubSeq(c, 1, Len(c) - k) = t
           /\ SubSeq(c, Len(c) - k + 1, Len(c)) = s
<1> DEFINE n == Len(c)
           m == Len(t)
<1>1. n = m + k /\ m \in Nat /\ k \in Nat
  BY Joined
<1>2. SubSeq(c, 1, m) = t /\ SubSeq(c, n - (n - m) + 1, n) = s
  BY CutFront
<1>3. n - k = m /\ n - (n - m) + 1 = m + 1
  <2> HIDE DEF n, m
  <2> QED BY <1>1
<1> HIDE DEF n, m
<1>4. SubSeq(c, 1, n - k) = t /\ SubSeq(c, n - k + 1, n) = s
  BY <1>2, <1>3
<1> QED BY <1>4 DEF n

LEMMA SameReverse ==
    ASSUME NEW s
    PROVE  Queue!Reverse(s) = Reverse(s)
  BY DEF Reverse, Queue!Reverse

(* With careful clients every method does to the elements what the one of a
   double-ended queue does and returns the same, whatever the chunks are: what
   goes in at either end comes out in the right order, and a push that fails
   leaves the elements alone.  A method of one element is an array of one to
   the queue, hence the second hypothesis.                                 *)
THEOREM Refines ==
    ASSUME Careful, MaxBulk > 0
    PROVE  Spec => Implements
<1> DEFINE items == Contents(dq.used)
<1>1. Init => Queue!Init
  <2> SUFFICES ASSUME Init PROVE Queue!Init
    OBVIOUS
  <2>1. dq.used = << >>
    BY DEF Init, Empty
  <2>2. items = << >>
    BY <2>1, ContentsEmpty
  <2> QED BY <2>2 DEF Init, Called, Queue!Init, Queue!Called
<1>2. ASSUME IndInv, [Next]_vars
      PROVE  [Queue!Next]_Queue!vars
  <2>1. CASE PushBack \/ PushFront \/ PushBackBulk \/ PushFrontBulk \/ Prepend
    <3>0. PushStep
      BY <1>2, <2>1, PushStepSound DEF IndInv
    <3>1. ASSUME NEW op, NEW s, NEW list, Pushed(op, s, list)
          PROVE  Queue!Push(op, s, list)
      BY <3>1 DEF Pushed, Called, Queue!Push, Queue!Called
    <3>2. ASSUME NEW x \in Values PROVE <<x>> \in Queue!Bulk
      <4>1. 1 \in 0..MaxBulk /\ <<x>> \in [1..1 -> Values]
        BY SizeAssumption
      <4> QED BY <4>1 DEF Queue!Bulk
    <3>3. ASSUME NEW x \in Values, Pushed("push_back", <<x>>, items \o <<x>>) PROVE Queue!Next
      <4>1. Queue!PushBack(<<x>>)
        BY <3>1, <3>3 DEF Queue!PushBack
      <4> QED BY <3>2, <4>1 DEF Queue!Next
    <3>4. ASSUME NEW x \in Values, Pushed("push_front", <<x>>, <<x>> \o items) PROVE Queue!Next
      <4>1. Reverse(<<x>>) = <<x>>
        BY DEF Reverse
      <4>2. Queue!PushFront(<<x>>)
        BY <3>1, <3>4, <4>1, SameReverse DEF Queue!PushFront
      <4> QED BY <3>2, <4>2 DEF Queue!Next
    <3>5. ASSUME NEW s \in Bulk, \/ Pushed("push_back", s, items \o s)
                                 \/ Pushed("push_front", s, Reverse(s) \o items)
                                 \/ Pushed("prepend", s, s \o items)
          PROVE  Queue!Next
      <4>1. s \in Queue!Bulk
        BY DEF Bulk, Queue!Bulk
      <4>2. Queue!PushBack(s) \/ Queue!PushFront(s) \/ Queue!Prepend(s)
        BY <3>1, <3>5, SameReverse DEF Queue!PushBack, Queue!PushFront, Queue!Prepend
      <4> QED BY <4>1, <4>2 DEF Queue!Next
    <3> QED BY <3>0, <3>3, <3>4, <3>5 DEF PushStep
  <2>2. CASE PopNothing \/ PopFront \/ PopBack \/ PopFrontBulk \/ PopBackBulk \/ TakeBack
    <3>0. PopStep
      BY <1>2, <2>2, PopStepSound DEF IndInv
    <3> DEFINE left == Contents(dq'.used)
    <3>1. ASSUME NEW op, NEW n, NEW s, NEW read, Taken(op, n, s, read)
          PROVE  /\ Queue!Avail(n) = Len(s) /\ s \in Seq(Cell) /\ left \in Seq(Cell)
                 /\ call' = Queue!Called(op, << >>, n) /\ got' = read /\ ok' = (s # << >>)
      <4>1. Sound(dq')
        BY <3>1 DEF Taken
      <4>2. left \in Seq(Cell)
        <5>1. PICK y \in Rows, w \in Spares : dq' = Made(y, w, Span(y))
          BY <4>1 DEF Sound
        <5>2. dq'.used = y
          BY <5>1, MadeOf
        <5> QED BY <5>2, RowLength
      <4> QED BY <3>1, <4>2 DEF Taken, MinOf, Called, Queue!Avail, Queue!Called
    <3>2. ASSUME NEW n, NEW s, FrontTaken("pop_front", n, s)
          PROVE  Queue!PopFront(n)
      <4>1. Taken("pop_front", n, s, s) /\ items = s \o left
        BY <3>2 DEF FrontTaken
      <4>2. /\ Queue!Avail(n) = Len(s) /\ s \in Seq(Cell) /\ left \in Seq(Cell)
            /\ call' = Queue!Called("pop_front", << >>, n) /\ got' = s /\ ok' = (s # << >>)
        BY <3>1, <4>1
      <4>3. /\ SubSeq(items, 1, Len(s)) = s
            /\ SubSeq(items, Len(items) - (Len(items) - Len(s)) + 1, Len(items)) = left
        BY <4>1, <4>2, CutFront
      <4>4. Queue!LastOf(Queue!AllBut(Queue!Avail(n))) = left /\ Queue!FirstOf(Queue!Avail(n)) = s
        BY <4>2, <4>3 DEF Queue!LastOf, Queue!FirstOf, Queue!AllBut
      <4> QED BY <4>2, <4>4 DEF Queue!PopFront, Queue!Extract
    <3>3. ASSUME NEW op, NEW n, NEW s, NEW read, BackTaken(op, n, s, read)
          PROVE  /\ Queue!FirstOf(Queue!AllBut(Queue!Avail(n))) = left /\ Queue!LastOf(Queue!Avail(n)) = s
                 /\ call' = Queue!Called(op, << >>, n) /\ got' = read /\ ok' = (s # << >>)
                 /\ (s # << >> <=> Reverse(s) # << >>)
      <4>1. Taken(op, n, s, read) /\ items = left \o s
        BY <3>3 DEF BackTaken
      <4>2. /\ Queue!Avail(n) = Len(s) /\ s \in Seq(Cell) /\ left \in Seq(Cell)
            /\ call' = Queue!Called(op, << >>, n) /\ got' = read /\ ok' = (s # << >>)
        BY <3>1, <4>1
      <4>3. /\ SubSeq(items, 1, Len(items) - Len(s)) = left
            /\ SubSeq(items, Len(items) - Len(s) + 1, Len(items)) = s
        BY <4>1, <4>2, CutBack
      <4>4. Queue!FirstOf(Queue!AllBut(Queue!Avail(n))) = left /\ Queue!LastOf(Queue!Avail(n)) = s
        BY <4>2, <4>3 DEF Queue!LastOf, Queue!FirstOf, Queue!AllBut
      <4> QED BY <4>2, <4>4, ReverseOf
    <3>4. ASSUME NEW n, NEW s, BackTaken("pop_back", n, s, Reverse(s)) PROVE Queue!PopBack(n)
      <4>1. Queue!Extract("pop_back", n, left, Reverse(s))
        BY <3>3, <3>4 DEF Queue!Extract
      <4> QED BY <3>3, <3>4, <4>1, SameReverse DEF Queue!PopBack
    <3>5. ASSUME NEW n, NEW s, BackTaken("take_back", n, s, s) PROVE Queue!TakeBack(n)
      BY <3>3, <3>5 DEF Queue!Extract, Queue!TakeBack
    <3>6. ASSUME NEW s, BackTaken("pop_back", 1, s, s) PROVE Queue!PopBack(1)
      <4>1. Len(s) <= 1 /\ s \in Seq(Cell)
        <5>1. s \in Seq(Cell) /\ Len(s) = MinOf(1, Len(items))
          BY <3>6 DEF BackTaken, Taken
        <5>2. PICK u \in Rows, v \in Spares : dq = Made(u, v, Span(u))
          BY <1>2 DEF IndInv, DequeInv, Sound
        <5>3. Len(items) \in Nat
          <6>1. dq.used = u
            BY <5>2, MadeOf
          <6> QED BY <6>1, RowLength
        <5> QED BY <5>1, <5>3, MinOfIs
      <4>2. Reverse(s) = s
        BY <4>1 DEF Reverse
      <4>3. BackTaken("pop_back", 1, s, Reverse(s))
        BY <3>6, <4>2
      <4> QED BY <3>4, <4>3
    <3>7. 1 \in 0..MaxBulk
      BY SizeAssumption
    <3>8. PICK s : \/ FrontTaken("pop_front", 1, s) \/ BackTaken("pop_back", 1, s, s)
                   \/ \E n \in 0..MaxBulk : \/ FrontTaken("pop_front", n, s)
                                            \/ BackTaken("pop_back", n, s, Reverse(s))
                                            \/ BackTaken("take_back", n, s, s)
      BY <3>0 DEF PopStep
    <3>9. \E n \in 0..MaxBulk : Queue!PopFront(n) \/ Queue!PopBack(n) \/ Queue!TakeBack(n)
      BY <3>2, <3>4, <3>5, <3>6, <3>7, <3>8
    <3> QED BY <3>9 DEF Queue!Next
  <2>3. CASE Clear \/ Truncate \/ Flush \/ Reserve
    <3>0. OtherStep
      BY <1>2, <2>3, OtherStepSound DEF IndInv
    <3>1. ASSUME NEW op \in {"clear", "flush"}, Pushed(op, << >>, << >>), ok' = TRUE
          PROVE  Queue!Clear
      BY <3>1 DEF Pushed, Called, Queue!Clear
    <3>2. ASSUME NEW op \in {"truncate", "reserve"}, Pushed(op, << >>, items)
          PROVE  Queue!Keep
      BY <3>2 DEF Pushed, Called, Queue!Keep
    <3> QED BY <3>0, <3>1, <3>2 DEF OtherStep, Queue!Next
  <2>4. CASE UNCHANGED vars
    BY <2>4 DEF vars, Queue!vars
  <2> QED BY <1>2, <2>1, <2>2, <2>3, <2>4 DEF Next
<1>3. Spec => []IndInv
  BY Inductive
<1> QED BY <1>1, <1>2, <1>3, PTL DEF Spec, Implements, Queue!Spec

-----------------------------------------------------------------------------
(* The methods that look: the elements up to each chunk, and the place of an
   element.                                                                *)

(* F counts the elements of the chunks up to each one.                     *)
Counts(F, u) ==
    /\ F \in [0..Len(u) -> Nat] /\ F[0] = 0
    /\ \A k \in 1..Len(u) : F[k] = F[k - 1] + Used(u[k])

(* The element i is in that slot of chunk k.                               *)
Holds(F, u, i, k, slot) ==
    /\ k \in 1..Len(u) /\ slot \in Int /\ u[k].nHead <= slot /\ slot < u[k].nTail
    /\ i = F[k - 1] + (slot - u[k].nHead)

LEMMA ChunkInRow ==
    ASSUME NEW u \in Rows, NEW k \in 1..Len(u)
    PROVE  /\ u[k] \in Chunk /\ u[k].nHead \in Int /\ 0 <= u[k].nHead /\ u[k].nHead < u[k].nTail
           /\ u[k].nTail \in Int /\ u[k].nTail <= nChunkSize
           /\ Used(u[k]) = u[k].nTail - u[k].nHead /\ Used(u[k]) \in Nat /\ Used(u[k]) > 0
           /\ Len(u) \in Nat
<1>1. u \in Seq(Chunk) /\ u[k] \in Chunk /\ k \in DOMAIN u /\ Gapless(u)
  BY DEF Rows
<1>2. /\ u[k].nHead \in Int /\ 0 <= u[k].nHead /\ u[k].nHead < u[k].nTail
      /\ u[k].nTail \in Int /\ u[k].nTail <= nChunkSize
  BY <1>1, ChunkOf DEF Gapless
<1> QED BY <1>1, <1>2 DEF Used

(* A step of such counts.                                                  *)
LEMMA CountsStep ==
    ASSUME NEW u \in Rows, NEW F, Counts(F, u), NEW k \in 1..Len(u)
    PROVE  /\ F[k] = F[k - 1] + (u[k].nTail - u[k].nHead) /\ F[k] \in Nat /\ F[k - 1] \in Nat
           /\ F[k - 1] < F[k]
<1>1. k \in 0..Len(u) /\ k - 1 \in 0..Len(u)
  BY ChunkInRow
<1>2. F[k] \in Nat /\ F[k - 1] \in Nat
  BY <1>1 DEF Counts
<1>3. F[k] = F[k - 1] + Used(u[k])
  BY DEF Counts
<1> QED BY <1>2, <1>3, ChunkInRow

LEMMA CountsGrow ==
    ASSUME NEW u \in Rows, NEW F, Counts(F, u), NEW j \in 0..Len(u), NEW k \in 0..Len(u), j <= k
    PROVE  F[j] <= F[k]
<1> DEFINE m == Len(u) - j
           S == {i \in 0..m : F[j] <= F[j + i]}
<1>1. Len(u) \in Nat /\ m \in Nat
  BY DEF Rows
<1>2. \A i \in 0..Len(u) : F[i] \in Nat
  BY DEF Counts
<1>3. 0 \in S
  BY <1>1, <1>2
<1>4. ASSUME NEW i \in 0..(m - 1), i \in S PROVE i + 1 \in S
  <2>1. j + i + 1 \in 1..Len(u) /\ (j + i + 1) - 1 = j + i /\ j + (i + 1) = j + i + 1 /\ i + 1 \in 0..m
        /\ j + i \in 0..Len(u)
    BY <1>1
  <2> DEFINE q == j + i + 1
  <2>2. F[q - 1] < F[q] /\ F[q] \in Nat /\ F[q - 1] \in Nat
    BY <2>1, CountsStep
  <2>3. F[j] <= F[j + i] /\ F[j] \in Nat
    BY <1>2, <1>4
  <2>4. F[j + i] < F[j + (i + 1)] /\ F[j + (i + 1)] \in Nat /\ F[j + i] \in Nat
    BY <2>1, <2>2
  <2> QED BY <2>1, <2>3, <2>4
<1> HIDE DEF S, m
<1>5. 0..m \subseteq S
  BY <1>1, <1>3, <1>4, InductionUpTo
<1>6. k - j \in 0..m /\ j + (k - j) = k
  BY <1>1 DEF m
<1>7. k - j \in S
  BY <1>5, <1>6
<1> QED BY <1>6, <1>7 DEF S

LEMMA CountsSame ==
    ASSUME NEW u \in Rows, NEW F, Counts(F, u), NEW G, G[0] = 0,
           \A k \in 1..Len(u) : G[k] = G[k - 1] + Used(u[k])
    PROVE  \A k \in 0..Len(u) : G[k] = F[k]
<1> DEFINE S == {k \in 0..Len(u) : G[k] = F[k]}
<1>1. Len(u) \in Nat
  BY DEF Rows
<1>2. 0 \in S
  BY <1>1 DEF Counts
<1>3. ASSUME NEW i \in 0..(Len(u) - 1), i \in S PROVE i + 1 \in S
  <2>1. i + 1 \in 1..Len(u) /\ (i + 1) - 1 = i /\ i + 1 \in 0..Len(u)
    BY <1>1
  <2>2. F[i + 1] = F[i] + Used(u[i + 1]) /\ G[i + 1] = G[i] + Used(u[i + 1])
    BY <2>1 DEF Counts
  <2>3. G[i] = F[i]
    BY <1>3
  <2>4. G[i + 1] = F[i + 1]
    BY <2>2, <2>3
  <2> QED BY <2>1, <2>4
<1> HIDE DEF S
<1>4. 0..Len(u) \subseteq S
  BY <1>1, <1>2, <1>3, InductionUpTo
<1> QED BY <1>4 DEF S

LEMMA HoldsWithin ==
    ASSUME NEW u \in Rows, NEW F, Counts(F, u), NEW i, NEW k, NEW s, Holds(F, u, i, k, s)
    PROVE  i \in Int /\ F[k - 1] <= i /\ i < F[k] /\ F[k - 1] \in Nat /\ F[k] \in Nat
<1> DEFINE h == u[k].nHead
           t == u[k].nTail
           a == F[k - 1]
           b == F[k]
<1>1. k \in 1..Len(u) /\ s \in Int /\ h <= s /\ s < t /\ i = a + (s - h)
  BY DEF Holds
<1>2. h \in Int /\ t \in Int
  BY <1>1, ChunkInRow
<1>3. b = a + (t - h) /\ b \in Nat /\ a \in Nat
  BY <1>1, CountsStep
<1> HIDE DEF h, t, a, b
<1>4. i \in Int /\ a <= i /\ i < b
  BY <1>1, <1>2, <1>3
<1> QED BY <1>3, <1>4 DEF a, b

(* An element is in one place only.                                        *)
LEMMA OnePlace ==
    ASSUME NEW u \in Rows, NEW F, Counts(F, u), NEW i, NEW k, NEW s, NEW j, NEW t,
           Holds(F, u, i, k, s), Holds(F, u, i, j, t)
    PROVE  k = j /\ s = t
<1>1. /\ k \in 1..Len(u) /\ s \in Int /\ u[k].nHead <= s /\ s < u[k].nTail
      /\ i = F[k - 1] + (s - u[k].nHead)
      /\ j \in 1..Len(u) /\ t \in Int /\ u[j].nHead <= t /\ t < u[j].nTail
      /\ i = F[j - 1] + (t - u[j].nHead)
  BY DEF Holds
<1>2. Len(u) \in Nat /\ k \in Int /\ j \in Int
  BY <1>1, ChunkInRow
<1>3. i \in Int /\ F[k - 1] <= i /\ i < F[k] /\ F[k - 1] \in Nat /\ F[k] \in Nat
  BY <1>1, HoldsWithin
<1>4. F[j - 1] <= i /\ i < F[j] /\ F[j - 1] \in Nat /\ F[j] \in Nat
  BY <1>1, HoldsWithin
<1>5. k - 1 \in 0..Len(u) /\ j - 1 \in 0..Len(u) /\ k \in 0..Len(u) /\ j \in 0..Len(u)
  <2> DEFINE l == Len(u)
  <2>1. k \in 1..l /\ j \in 1..l /\ l \in Nat
    BY <1>1, <1>2
  <2> HIDE DEF l
  <2>2. k - 1 \in 0..l /\ j - 1 \in 0..l /\ k \in 0..l /\ j \in 0..l
    BY <2>1
  <2> QED BY <2>2 DEF l
<1>6. ~(k < j)
  <2> SUFFICES ASSUME k < j PROVE FALSE
    OBVIOUS
  <2>1. k <= j - 1
    BY <1>2
  <2>2. F[k] <= F[j - 1]
    BY <1>5, <2>1, CountsGrow
  <2> QED BY <1>3, <1>4, <2>2
<1>7. ~(j < k)
  <2> SUFFICES ASSUME j < k PROVE FALSE
    OBVIOUS
  <2>1. j <= k - 1
    BY <1>2
  <2>2. F[j] <= F[k - 1]
    BY <1>5, <2>1, CountsGrow
  <2> QED BY <1>3, <1>4, <2>2
<1>8. k = j
  BY <1>2, <1>6, <1>7
<1>9. u[k].nHead \in Int
  BY <1>1, ChunkInRow
<1>10. s - u[k].nHead = t - u[k].nHead
  <2> DEFINE a == F[k - 1]
             g == u[k].nHead
  <2>1. i = a + (s - g) /\ i = a + (t - g) /\ a \in Nat /\ s \in Int /\ t \in Int /\ g \in Int
    BY <1>1, <1>3, <1>8, <1>9
  <2> HIDE DEF a, g
  <2>2. s - g = t - g
    BY <2>1
  <2> QED BY <2>2 DEF g
<1> QED BY <1>1, <1>8, <1>9, <1>10

(* The lengths of the elements up to each chunk are such counts.           *)
Lengths(f, u) == [k \in 0..Len(u) |-> Len(f[k])]

LEMMA LengthsCount ==
    ASSUME NEW u \in Rows, NEW f, Up(f, u)
    PROVE  Counts(Lengths(f, u), u) /\ Lengths(f, u)[Len(u)] = Span(u)
<1> DEFINE F == Lengths(f, u)
<1>1. u \in Seq(Chunk) /\ Len(u) \in Nat
  BY DEF Rows
<1>2. \A k \in 0..Len(u) : f[k] \in Seq(Cell) /\ F[k] = Len(f[k])
  BY DEF Up, Lengths
<1>3. F \in [0..Len(u) -> Nat]
  <2>1. \A k \in 0..Len(u) : Len(f[k]) \in Nat
    BY <1>2
  <2> QED BY <2>1 DEF Lengths
<1>4. F[0] = 0
  <2>1. 0 \in 0..Len(u) /\ f[0] = << >>
    BY <1>1 DEF Up
  <2> QED BY <1>2, <2>1
<1>5. ASSUME NEW k \in 1..Len(u) PROVE F[k] = F[k - 1] + Used(u[k])
  <2> DEFINE e == Elements(u[k])
             g == f[k - 1]
  <2>1. k \in 0..Len(u) /\ k - 1 \in 0..Len(u)
    BY <1>1
  <2>2. f[k] = g \o e /\ g \in Seq(Cell)
    BY <1>2, <2>1 DEF Up
  <2>3. e \in Seq(Cell) /\ Len(e) = Used(u[k])
    BY ChunkInRow, ElementsOf
  <2> HIDE DEF e, g
  <2>4. Len(g \o e) = Len(g) + Len(e)
    BY <2>2, <2>3, Joined
  <2> QED BY <1>2, <2>1, <2>2, <2>3, <2>4 DEF g
<1>6. Len(u) \in 0..Len(u)
  BY <1>1
<1>7. F[Len(u)] = Len(f[Len(u)])
  BY <1>2, <1>6
<1>8. Len(f[Len(u)]) = Span(u)
  BY <1>1, UpIsContents, RowLength
<1> HIDE DEF F
<1>9. Counts(F, u)
  BY <1>3, <1>4, <1>5 DEF Counts
<1> QED BY <1>7, <1>8, <1>9 DEF F

(* The place of an element holds it.                                       *)
LEMMA HoldsElement ==
    ASSUME NEW u \in Rows, NEW f, Up(f, u), NEW i, NEW k, NEW s, Holds(Lengths(f, u), u, i, k, s)
    PROVE  u[k].vData[s] = Contents(u)[i + 1]
<1> DEFINE F == Lengths(f, u)
           l == Len(u)
           m == l - k
           x == u[k].vData[s]
           S == {j \in 0..m : f[k + j][i + 1] = x}
<1>1. Counts(F, u)
  BY LengthsCount
<1>2. k \in 1..l /\ l \in Nat /\ m \in Nat /\ u \in Seq(Chunk)
  BY DEF Holds, Rows
<1>3. i \in Int /\ F[k - 1] <= i /\ i < F[k] /\ F[k - 1] \in Nat /\ F[k] \in Nat
  <2> HIDE DEF F
  <2> QED BY <1>1, HoldsWithin DEF F
<1>4. \A j \in 0..l : f[j] \in Seq(Cell) /\ F[j] = Len(f[j])
  BY DEF Up, Lengths
<1>5. 0 \in S
  <2> DEFINE h == u[k].nHead
             e == Elements(u[k])
             g == f[k - 1]
             n == s - h + 1
  <2>1. h \in Int /\ u[k].nTail \in Int /\ u[k] \in Chunk /\ h < u[k].nTail
    BY <1>2, ChunkInRow
  <2>2. s \in Int /\ h <= s /\ s < u[k].nTail /\ i = F[k - 1] + (s - h)
    BY DEF Holds
  <2>3. n \in 1..(u[k].nTail - h) /\ h + n - 1 = s /\ i + 1 = F[k - 1] + n
    BY <1>3, <2>1, <2>2
  <2>4. e \in Seq(Cell) /\ Len(e) = u[k].nTail - h /\ e[n] = u[k].vData[h + n - 1]
    BY <2>1, <2>3, ElementsOf
  <2>5. k - 1 \in 0..l
    BY <1>2
  <2>6. f[k] = g \o e /\ g \in Seq(Cell) /\ Len(g) = F[k - 1]
    BY <1>2, <1>4, <2>5 DEF Up
  <2> HIDE DEF e, g, n, F
  <2>7. (g \o e)[Len(g) + n] = e[n]
    <3>1. n \in 1..Len(e)
      BY <2>3, <2>4
    <3>2. e \in Seq(Cell) /\ g \in Seq(Cell)
      BY <2>4, <2>6
    <3>3. \A j \in 1..Len(e) : (g \o e)[Len(g) + j] = e[j]
      BY <3>2, Joined
    <3> QED BY <3>1, <3>3
  <2>8. f[k][i + 1] = x
    BY <2>3, <2>4, <2>6, <2>7
  <2> QED BY <1>2, <2>8
<1>6. ASSUME NEW j \in 0..(m - 1), j \in S PROVE j + 1 \in S
  <2> DEFINE q == k + j
             e == Elements(u[q + 1])
  <2>1. q \in 0..(l - 1) /\ q \in 0..l /\ k \in 0..l /\ k <= q /\ k + (j + 1) = q + 1 /\ j + 1 \in 0..m
    BY <1>2
  <2>2. f[q][i + 1] = x
    BY <1>6
  <2> HIDE DEF q
  <2>3. f[q + 1] = f[q] \o e /\ f[q] \in Seq(Cell) /\ q + 1 \in 1..l
    BY <1>2, <2>1, UpStep
  <2>4. e \in Seq(Cell)
    BY <2>3, ChunkInRow, ElementsOf
  <2>5. F[k] <= F[q]
    <3> HIDE DEF F
    <3> QED BY <1>1, <2>1, CountsGrow
  <2> HIDE DEF e
  <2>6. F[q] = Len(f[q]) /\ Len(f[q]) \in Nat
    BY <1>4, <2>1, <2>3
  <2> HIDE DEF F
  <2>7. i + 1 \in 1..Len(f[q])
    BY <1>3, <2>5, <2>6
  <2>8. (f[q] \o e)[i + 1] = f[q][i + 1]
    BY <2>3, <2>4, <2>7, Joined
  <2>9. f[k + (j + 1)][i + 1] = x
    BY <2>1, <2>2, <2>3, <2>8
  <2> QED BY <2>1, <2>9
<1> HIDE DEF S
<1>7. 0..m \subseteq S
  BY <1>2, <1>5, <1>6, InductionUpTo
<1>8. m \in S /\ k + m = l
  BY <1>2, <1>7
<1>9. f[l][i + 1] = x
  BY <1>8 DEF S
<1>10. Contents(u) = f[l]
  BY <1>2, UpIsContents
<1> QED BY <1>9, <1>10

(* What the search of get() comes to: the first chunk that the index does not
   pass, or none.                                                          *)
Searching(F, z, index, p) ==
    /\ p.passed \in 0..Len(z) /\ p.left \in Nat /\ p.left = index - F[p.passed]
    /\ p.passed < Len(z) => Used(z[p.passed + 1]) \in Nat

Found(F, z, index, p) ==
    /\ Searching(F, z, index, p)
    /\ p.passed < Len(z) => p.left < Used(z[p.passed + 1])

LEMMA SkipSearches ==
    ASSUME NEW z, Len(z) \in Nat, NEW F, Counts(F, z), NEW index \in Nat, NEW p, Searching(F, z, index, p),
           \A k \in 1..Len(z) : Used(z[k]) \in Nat
    PROVE  /\ Searching(F, z, index, Skip(p, z))
           /\ Found(F, z, index, p) => Skip(p, z) = p
           /\ ~Found(F, z, index, p) => Skip(p, z).passed = p.passed + 1
<1> DEFINE l == Len(z)
           k == p.passed
           n == p.left
           q == Skip(p, z)
<1>1. k \in 0..l /\ n \in Nat /\ n = index - F[k] /\ l \in Nat
  BY DEF Searching
<1>2. CASE k = l
  <2>1. q = p
    BY <1>2 DEF Skip
  <2>2. Found(F, z, index, p)
    BY <1>2 DEF Found
  <2> QED BY <2>1, <2>2
<1>3. CASE k # l
  <2> DEFINE c == Used(z[k + 1])
  <2>1. k + 1 \in 1..l /\ k < l /\ (k + 1) - 1 = k /\ k \in Int
    BY <1>1, <1>3
  <2>2. c \in Nat /\ F[k + 1] = F[k] + c /\ F[k] \in Nat
    <3>1. c \in Nat
      BY <2>1
    <3>2. F[k + 1] = F[(k + 1) - 1] + Used(z[k + 1]) /\ F[k] \in Nat
      BY <1>1, <2>1 DEF Counts
    <3> QED BY <2>1, <3>1, <3>2
  <2>3. CASE n < c
    <3>1. q = p
      BY <2>3 DEF Skip
    <3>2. Found(F, z, index, p)
      BY <2>3 DEF Found
    <3> QED BY <3>1, <3>2
  <2>4. CASE ~(n < c)
    <3>1. q = [passed |-> k + 1, left |-> n - c]
      BY <1>3, <2>4 DEF Skip
    <3> HIDE DEF q
    <3>2. q.passed = k + 1 /\ q.left = n - c
      BY <3>1
    <3>3. ~Found(F, z, index, p)
      BY <2>1, <2>4 DEF Found
    <3>4. n - c \in Nat /\ n - c = index - F[k + 1] /\ k + 1 \in 0..l
      <4> DEFINE a == F[k]
                 b == F[k + 1]
      <4>1. n = index - a /\ a \in Nat /\ b = a + c
        BY <1>1, <2>2
      <4> HIDE DEF a, b, c, k, n
      <4>2. n - c \in Nat /\ n - c = index - b
        <5>1. n \in Nat /\ c \in Nat /\ ~(n < c)
          BY <1>1, <2>2, <2>4
        <5> QED BY <4>1, <5>1
      <4>3. k + 1 \in 0..l
        BY <1>1, <2>1
      <4> QED BY <4>2, <4>3 DEF b
    <3>5. k + 1 < l => Used(z[k + 1 + 1]) \in Nat
      <4> HAVE k + 1 < l
      <4>1. k + 1 + 1 \in 1..l
        BY <1>1, <2>1
      <4> QED BY <4>1
    <3>6. Searching(F, z, index, q)
      <4> HIDE DEF k, n, c
      <4>1. q.passed \in 0..Len(z) /\ q.left \in Nat /\ q.left = index - F[q.passed]
        BY <3>2, <3>4
      <4>2. q.passed < Len(z) => Used(z[q.passed + 1]) \in Nat
        BY <3>2, <3>5
      <4> QED BY <4>1, <4>2 DEF Searching
    <3> QED BY <3>2, <3>3, <3>6 DEF q
  <2> QED BY <2>3, <2>4
<1> QED BY <1>2, <1>3

LEMMA SearchGives ==
    ASSUME NEW z, Len(z) \in Nat, NEW F, Counts(F, z), NEW index \in Nat,
           \A k \in 1..Len(z) : Used(z[k]) \in Nat
    PROVE  Found(F, z, index, Search(z, index))
<1> DEFINE l == Len(z)
           T == [passed : 0..l, left : Int]
           base == [passed |-> 0, left |-> index]
           step == [q \in (1..l) \X T |-> Skip(q[2], z)]
           Rule(g) == [r \in 0..l |-> IF r = 0 THEN base ELSE Skip(g[r - 1], z)]
           g == CHOOSE h : h = Rule(h)
<1>1. base \in T /\ l \in Nat
  OBVIOUS
<1>2. \A q \in T : Skip(q, z) \in T
  <2> TAKE q \in T
  <2>1. q.passed \in 0..l /\ q.left \in Int
    OBVIOUS
  <2>2. CASE q.passed = l
    BY <2>2 DEF Skip
  <2>3. CASE q.passed # l
    <3>1. q.passed + 1 \in 1..l /\ q.passed + 1 \in 0..l
      BY <1>1, <2>1, <2>3
    <3>2. Used(z[q.passed + 1]) \in Nat
      BY <3>1
    <3>3. q.left - Used(z[q.passed + 1]) \in Int
      BY <2>1, <3>2
    <3> QED BY <3>1, <3>3 DEF Skip
  <2> QED BY <2>2, <2>3
<1>3. step \in [(1..l) \X T -> T]
  BY <1>2
<1>4. \A r \in 1..l, q \in T : step[<<r, q>>] = Skip(q, z)
  OBVIOUS
<1> HIDE DEF step, T, base
<1>5. PICK f \in [0..l -> T] : Follows(f, l, base, step)
  BY <1>1, <1>3, RecursiveFunction, Zenon
<1>6. f = Rule(f)
  <2>1. ASSUME NEW r \in 0..l PROVE f[r] = IF r = 0 THEN base ELSE Skip(f[r - 1], z)
    <3>1. CASE r = 0
      BY <1>5, <3>1 DEF Follows
    <3>2. CASE r # 0
      <4>1. r \in 1..l /\ r - 1 \in 0..l
        BY <1>1, <3>2
      <4>2. f[r] = step[<<r, f[r - 1]>>] /\ f[r - 1] \in T
        BY <1>5, <4>1 DEF Follows
      <4> QED BY <1>4, <3>2, <4>1, <4>2
    <3> QED BY <3>1, <3>2
  <2> QED BY <2>1
<1>7. g = Rule(g)
  BY <1>6
<1>8. Search(z, index) = g[l]
  BY DEF Search, base
<1> HIDE DEF g
<1>9. g[0] = base /\ \A r \in 1..l : g[r] = Skip(g[r - 1], z)
  BY <1>1, <1>7
<1> DEFINE S == {r \in 0..l : /\ Searching(F, z, index, g[r])
                              /\ g[r].passed = r \/ Found(F, z, index, g[r])}
<1>10. 0 \in S
  <2>1. base.passed = 0 /\ base.left = index /\ F[0] = 0
    BY DEF base, Counts
  <2>2. 0 \in 0..l /\ (0 < l => 0 + 1 \in 1..l)
    BY <1>1
  <2>3. Searching(F, z, index, base)
    BY <2>1, <2>2 DEF Searching
  <2> QED BY <1>9, <2>1, <2>2, <2>3
<1>11. ASSUME NEW r \in 0..(l - 1), r \in S PROVE r + 1 \in S
  <2> DEFINE p == g[r]
             q == g[r + 1]
  <2>1. r + 1 \in 1..l /\ (r + 1) - 1 = r /\ r + 1 \in 0..l
    BY <1>1
  <2>2. q = Skip(p, z)
    BY <1>9, <2>1
  <2>3. Searching(F, z, index, p) /\ (p.passed = r \/ Found(F, z, index, p))
    BY <1>11
  <2> HIDE DEF p, q
  <2>4. Searching(F, z, index, q) /\ (q.passed = r + 1 \/ Found(F, z, index, q))
    BY <2>2, <2>3, SkipSearches
  <2> QED BY <2>1, <2>4 DEF q
<1> HIDE DEF S
<1>12. 0..l \subseteq S
  BY <1>1, <1>10, <1>11, InductionUpTo
<1>13. l \in S
  BY <1>1, <1>12
<1>14. Searching(F, z, index, g[l]) /\ (g[l].passed = l \/ Found(F, z, index, g[l]))
  BY <1>13 DEF S
<1>15. g[l].passed = l => Found(F, z, index, g[l])
  BY <1>1, <1>14 DEF Found
<1> QED BY <1>8, <1>14, <1>15

-----------------------------------------------------------------------------
(* Access by index.  Walked(u, F): the deque has the chunks u, and F counts
   their elements.                                                         *)
Walked(u, F) ==
    /\ u \in Rows /\ Counts(F, u) /\ F[Len(u)] = Span(u)
    /\ dq.used = u /\ dq.nItems = Span(u)

Finds(p, F, u, i) == \E k, s : p = <<k, s>> /\ Holds(F, u, i, k, s)

LEMMA FromHeadGives ==
    ASSUME NEW u, NEW F, Walked(u, F), NEW index \in Nat, index < Span(u)
    PROVE  Finds(FromHead(index), F, u, index)
<1> DEFINE l == Len(u)
           p == Search(u, index)
           k == p.passed + 1
           n == p.left
           s == u[k].nHead + n
<1>1. u \in Rows /\ Counts(F, u) /\ F[l] = Span(u) /\ dq.used = u /\ l \in Nat /\ Span(u) \in Nat
  BY RowLength DEF Walked, Rows
<1>2. \A j \in 1..l : Used(u[j]) \in Nat
  BY <1>1, ChunkInRow
<1>3. Found(F, u, index, p)
  BY <1>1, <1>2, SearchGives
<1> HIDE DEF p
<1>4. /\ p.passed \in 0..l /\ n \in Nat /\ n = index - F[p.passed]
      /\ p.passed < l => n < Used(u[k])
  BY <1>3 DEF Found, Searching
<1>5. p.passed # l
  BY <1>1, <1>4
<1>6. k \in 1..l /\ p.passed < l /\ k - 1 = p.passed /\ ~(k > l)
  BY <1>1, <1>4, <1>5
<1>7. /\ u[k].nHead \in Int /\ u[k].nTail \in Int /\ Used(u[k]) = u[k].nTail - u[k].nHead
      /\ F[k - 1] \in Nat
  BY <1>1, <1>6, ChunkInRow, CountsStep
<1>8. FromHead(index) = <<k, s>>
  BY <1>1, <1>6 DEF FromHead, p
<1>9. s \in Int /\ u[k].nHead <= s /\ s < u[k].nTail /\ index = F[k - 1] + (s - u[k].nHead)
  <2> DEFINE h == u[k].nHead
             t == u[k].nTail
             a == F[k - 1]
  <2>1. h \in Int /\ t \in Int /\ a \in Nat /\ n \in Nat /\ n < t - h /\ n = index - a
    BY <1>4, <1>6, <1>7
  <2> HIDE DEF h, t, a, n
  <2>2. h + n \in Int /\ h <= h + n /\ h + n < t /\ index = a + ((h + n) - h)
    BY <2>1
  <2> QED BY <2>2 DEF h, t, a
<1> HIDE DEF s, k
<1>10. Holds(F, u, index, k, s)
  BY <1>6, <1>9 DEF Holds
<1> QED BY <1>8, <1>10 DEF Finds

(* The counts from the tail.                                               *)
LEMMA CountsBackward ==
    ASSUME NEW u \in Rows, NEW F, Counts(F, u), NEW z, z = Reverse(u),
           NEW G, G = [k \in 0..Len(u) |-> F[Len(u)] - F[Len(u) - k]]
    PROVE  /\ Len(z) = Len(u) /\ Counts(G, z)
           /\ \A k \in 1..Len(z) : Used(z[k]) \in Nat /\ z[k] = u[(Len(u) + 1) - k]
<1> DEFINE l == Len(u)
<1>1. l \in Nat /\ u \in Seq(Chunk)
  BY DEF Rows
<1>2. Len(z) = l /\ \A k \in 1..l : z[k] = u[(l + 1) - k]
  <2>1. z = [i \in 1..l |-> u[(l - i) + 1]]
    BY DEF Reverse
  <2>2. Len(z) = l
    BY <1>1, <2>1
  <2>3. \A k \in 1..l : (l - k) + 1 = (l + 1) - k
    BY <1>1
  <2> QED BY <2>1, <2>2, <2>3
<1> HIDE DEF l
<1>3. \A k \in 1..l : (l + 1) - k \in 1..l /\ Used(z[k]) \in Nat
  <2> TAKE k \in 1..l
  <2>1. (l + 1) - k \in 1..l
    BY <1>1
  <2>2. Used(u[(l + 1) - k]) \in Nat
    BY <2>1, ChunkInRow DEF l
  <2> QED BY <1>2, <2>1, <2>2
<1>4. \A k \in 0..l : l - k \in 0..l /\ G[k] = F[l] - F[l - k] /\ F[l - k] \in Nat /\ F[l] \in Nat
                      /\ F[l - k] <= F[l]
  <2> TAKE k \in 0..l
  <2>1. l - k \in 0..l /\ l \in 0..l /\ l - k <= l
    BY <1>1
  <2>2. F[l - k] \in Nat /\ F[l] \in Nat
    BY <2>1 DEF Counts, l
  <2>3. F[l - k] <= F[l]
    BY <2>1, CountsGrow DEF l
  <2>4. G[k] = F[l] - F[l - k]
    BY DEF l
  <2> QED BY <2>1, <2>2, <2>3, <2>4
<1>5. G \in [0..l -> Nat]
  <2>1. \A k \in 0..l : F[l] - F[l - k] \in Nat
    BY <1>4
  <2> QED BY <2>1 DEF l
<1>6. G[0] = 0
  <2>1. 0 \in 0..l /\ l - 0 = l
    BY <1>1
  <2> QED BY <1>4, <2>1
<1>7. ASSUME NEW k \in 1..l PROVE G[k] = G[k - 1] + Used(z[k])
  <2> DEFINE j == (l + 1) - k
             c == Used(u[j])
  <2>1. /\ k \in 0..l /\ k - 1 \in 0..l /\ l - k = j - 1 /\ l - (k - 1) = j /\ j \in 1..l
    BY <1>1
  <2>2. G[k] = F[l] - F[j - 1] /\ G[k - 1] = F[l] - F[j] /\ F[l] \in Nat /\ F[j] \in Nat /\ F[j - 1] \in Nat
    BY <1>4, <2>1
  <2>3. F[j] = F[j - 1] + c
    BY <2>1 DEF Counts, l
  <2>4. z[k] = u[j] /\ c \in Nat
    BY <1>2, <1>3
  <2>5. G[k] = G[k - 1] + c
    <3> DEFINE x == F[l]
               y == F[j]
               w == F[j - 1]
    <3>1. G[k] = x - w /\ G[k - 1] = x - y /\ x \in Nat /\ y \in Nat /\ w \in Nat /\ y = w + c /\ c \in Nat
      BY <2>2, <2>3, <2>4
    <3> HIDE DEF x, y, w, c
    <3> QED BY <3>1
  <2> HIDE DEF j, c
  <2> QED BY <2>4, <2>5 DEF c
<1>8. Counts(G, z)
  BY <1>2, <1>5, <1>6, <1>7 DEF Counts
<1> QED BY <1>2, <1>3, <1>8 DEF l

LEMMA FromTailGives ==
    ASSUME NEW u, NEW F, Walked(u, F), NEW index \in Nat, index < Span(u)
    PROVE  Finds(FromTail(index), F, u, (Span(u) - 1) - index)
<1> DEFINE l == Len(u)
           z == Reverse(u)
           G == [k \in 0..Len(u) |-> F[Len(u)] - F[Len(u) - k]]
           p == Search(z, index)
           k == l - p.passed
           n == p.left
           s == (u[k].nTail - n) - 1
<1>1. u \in Rows /\ Counts(F, u) /\ F[l] = Span(u) /\ dq.used = u /\ l \in Nat /\ Span(u) \in Nat
  BY RowLength DEF Walked, Rows
<1>2. /\ Len(z) = l /\ Counts(G, z)
      /\ \A j \in 1..l : Used(z[j]) \in Nat /\ z[j] = u[(l + 1) - j]
  <2> HIDE DEF z, G
  <2>1. z = Reverse(u) /\ G = [j \in 0..Len(u) |-> F[Len(u)] - F[Len(u) - j]]
    BY DEF z, G
  <2> QED BY <1>1, <2>1, CountsBackward
<1>3. Found(G, z, index, p)
  <2> HIDE DEF z, G
  <2> QED BY <1>1, <1>2, SearchGives
<1> HIDE DEF p
<1>4. /\ p.passed \in 0..l /\ n \in Nat /\ n = index - G[p.passed]
      /\ p.passed < l => n < Used(z[p.passed + 1])
  <2> HIDE DEF z, G
  <2> QED BY <1>2, <1>3 DEF Found, Searching
<1>5. /\ G[p.passed] = F[l] - F[l - p.passed] /\ F[0] = 0
      /\ F[l - p.passed] \in Nat
  <2>1. l - p.passed \in 0..l
    BY <1>1, <1>4
  <2> QED BY <1>1, <1>4, <2>1 DEF Counts
<1>6. p.passed # l
  <2> SUFFICES ASSUME p.passed = l PROVE FALSE
    OBVIOUS
  <2>1. l - p.passed = 0
    BY <1>1
  <2>2. F[l - p.passed] = 0
    BY <1>5, <2>1
  <2> HIDE DEF G
  <2> QED BY <1>1, <1>4, <1>5, <2>2
<1>7. k \in 1..l /\ p.passed < l /\ ~(k < 1) /\ p.passed + 1 \in 1..l /\ (l + 1) - (p.passed + 1) = k
  <2> DEFINE x == p.passed
  <2>1. x \in 0..l /\ x # l /\ l \in Nat
    BY <1>1, <1>4, <1>6
  <2> HIDE DEF x, l
  <2>2. l - x \in 1..l /\ x < l /\ ~(l - x < 1) /\ x + 1 \in 1..l /\ (l + 1) - (x + 1) = l - x
    BY <2>1
  <2> QED BY <2>2 DEF x
<1>8. n < Used(u[k]) /\ n = index - (Span(u) - F[k])
  <2> HIDE DEF z, G
  <2>1. n < Used(z[p.passed + 1]) /\ z[p.passed + 1] = u[k]
    BY <1>2, <1>4, <1>7
  <2> QED BY <1>1, <1>4, <1>5, <2>1
<1>9. /\ u[k].nHead \in Int /\ u[k].nTail \in Int /\ Used(u[k]) = u[k].nTail - u[k].nHead
      /\ F[k] = F[k - 1] + (u[k].nTail - u[k].nHead) /\ F[k - 1] \in Nat /\ F[k] \in Nat
  <2>1. u \in Rows /\ Counts(F, u) /\ k \in 1..Len(u)
    BY <1>1, <1>7
  <2> HIDE DEF k
  <2>2. u[k].nHead \in Int /\ u[k].nTail \in Int /\ Used(u[k]) = u[k].nTail - u[k].nHead
    BY <2>1, ChunkInRow
  <2>3. F[k] = F[k - 1] + (u[k].nTail - u[k].nHead) /\ F[k - 1] \in Nat /\ F[k] \in Nat
    BY <2>1, CountsStep
  <2> QED BY <2>2, <2>3
<1>10. FromTail(index) = <<k, s>>
  BY <1>1, <1>7 DEF FromTail, p
<1>11. s \in Int /\ u[k].nHead <= s /\ s < u[k].nTail
       /\ (Span(u) - 1) - index = F[k - 1] + (s - u[k].nHead)
  <2> DEFINE h == u[k].nHead
             t == u[k].nTail
             a == F[k - 1]
             b == F[k]
             q == Span(u)
  <2>1. h \in Int /\ t \in Int /\ a \in Nat /\ n \in Nat /\ n < t - h /\ n = index - (q - b)
        /\ b = a + (t - h) /\ b \in Nat /\ q \in Nat
    BY <1>1, <1>4, <1>8, <1>9
  <2> HIDE DEF h, t, a, b, n, q
  <2>2. /\ (t - n) - 1 \in Int /\ h <= (t - n) - 1 /\ (t - n) - 1 < t
        /\ (q - 1) - index = a + (((t - n) - 1) - h)
    BY <2>1
  <2> QED BY <2>2 DEF h, t, a, q
<1> HIDE DEF s, k
<1>12. Holds(F, u, (Span(u) - 1) - index, k, s)
  BY <1>7, <1>11 DEF Holds
<1> QED BY <1>10, <1>12 DEF Finds

LEMMA GetGives ==
    ASSUME NEW u, NEW F, Walked(u, F), NEW index \in Nat
    PROVE  /\ index < Span(u) => Finds(get(index), F, u, index)
           /\ index >= Span(u) => get(index) = NULL
<1> DEFINE q == Span(u)
<1>1. q \in Nat /\ dq.nItems = q
  BY RowLength DEF Walked
<1>2. q \div 2 \in Nat /\ q \div 2 <= q
  <2> HIDE DEF q
  <2> QED BY <1>1
<1>3. CASE index < q \div 2
  <2>1. index < q
    <3> HIDE DEF q
    <3> QED BY <1>1, <1>2, <1>3
  <2>2. get(index) = FromHead(index) /\ ~(index >= q)
    <3> HIDE DEF q
    <3> QED BY <1>1, <1>3, <2>1 DEF get
  <2> QED BY <2>1, <2>2, FromHeadGives
<1>4. CASE ~(index < q \div 2) /\ index < q
  <2> DEFINE j == (q - index) - 1
  <2>1. j \in Nat /\ j < q /\ (q - 1) - j = index /\ ~(index >= q)
    <3> HIDE DEF q
    <3> QED BY <1>1, <1>4
  <2>2. get(index) = FromTail(j)
    <3> HIDE DEF q
    <3> QED BY <1>1, <1>4 DEF get, j
  <2> HIDE DEF j
  <2>3. Finds(FromTail(j), F, u, (Span(u) - 1) - j)
    BY <2>1, FromTailGives
  <2> QED BY <1>4, <2>1, <2>2, <2>3
<1>5. CASE ~(index < q)
  <2> HIDE DEF q
  <2>1. ~(index < q \div 2)
    BY <1>1, <1>2, <1>5
  <2>2. get(index) = NULL
    BY <1>1, <1>5, <2>1 DEF get
  <2> QED BY <1>5, <2>2 DEF q
<1> QED BY <1>3, <1>4, <1>5

LEMMA AheadIs ==
    ASSUME NEW u, NEW F, Walked(u, F), NEW k \in 1..Len(u)
    PROVE  Ahead(k) = F[k - 1]
<1> DEFINE l == Len(u)
           Rule(g) == [j \in 0..l |-> IF j = 0 THEN 0 ELSE g[j - 1] + Used(u[j])]
           g == CHOOSE h : h = Rule(h)
<1>1. u \in Rows /\ Counts(F, u) /\ dq.used = u /\ l \in Nat
  BY DEF Walked, Rows
<1>2. F = Rule(F)
  <2>1. F \in [0..l -> Nat] /\ \A j \in 0..l : F[j] = IF j = 0 THEN 0 ELSE F[j - 1] + Used(u[j])
    <3>1. \A j \in 0..l : j # 0 => j \in 1..l
      BY <1>1
    <3> QED BY <1>1, <3>1 DEF Counts
  <2> QED BY <2>1
<1>3. g = Rule(g)
  BY <1>2
<1>4. Ahead(k) = g[k - 1]
  BY <1>1 DEF Ahead
<1> HIDE DEF g
<1>5. g[0] = 0 /\ \A j \in 1..l : g[j] = g[j - 1] + Used(u[j])
  BY <1>1, <1>3
<1>6. \A j \in 0..l : g[j] = F[j]
  BY <1>1, <1>5, CountsSame
<1>7. k - 1 \in 0..l
  BY <1>1
<1> QED BY <1>4, <1>6, <1>7

(* index_of() gives the index of the element in a slot.                    *)
LEMMA IndexOfGives ==
    ASSUME NEW u, NEW F, Walked(u, F), NEW k, NEW s, NEW i
    PROVE  /\ Holds(F, u, i, k, s) => index_of(k, s) = i
           /\ k \in DOMAIN u /\ s \in Int /\ index_of(k, s) >= 0 => Holds(F, u, index_of(k, s), k, s)
<1> DEFINE h == u[k].nHead
           t == u[k].nTail
           a == F[k - 1]
<1>1. u \in Rows /\ Counts(F, u) /\ dq.used = u /\ DOMAIN u = 1..Len(u)
  BY DEF Walked, Rows
<1>2. ASSUME k \in DOMAIN u, s \in Int PROVE h \in Int /\ t \in Int /\ a \in Nat /\ Ahead(k) = a
  BY <1>1, <1>2, ChunkInRow, CountsStep, AheadIs
<1>3. ASSUME k \in DOMAIN u, s \in Int, h <= s, s < t
      PROVE  index_of(k, s) = a + (s - h)
  <2>1. index_of(k, s) = Ahead(k) + s - h
    <3>1. ~(s < h) /\ ~(s >= t)
      <4> HIDE DEF h, t
      <4> QED BY <1>2, <1>3
    <3> QED BY <1>1, <1>3, <3>1 DEF index_of
  <2> HIDE DEF h, t, a
  <2> QED BY <1>2, <1>3, <2>1
<1>4. ASSUME Holds(F, u, i, k, s) PROVE index_of(k, s) = i
  BY <1>1, <1>3, <1>4 DEF Holds
<1>5. ASSUME k \in DOMAIN u, s \in Int, index_of(k, s) >= 0 PROVE Holds(F, u, index_of(k, s), k, s)
  <2>1. h <= s
    <3>1. s < h => index_of(k, s) = -2
      BY <1>1, <1>5 DEF index_of
    <3>2. ~(-2 >= 0)
      OBVIOUS
    <3>3. ~(s < h)
      BY <1>5, <3>1, <3>2
    <3> HIDE DEF h, t
    <3> QED BY <1>2, <1>5, <3>3
  <2>2. s < t
    <3>1. s >= t /\ ~(s < h) => index_of(k, s) = -3
      BY <1>1, <1>5 DEF index_of
    <3>2. ~(-3 >= 0)
      OBVIOUS
    <3>3. ~(s < h)
      <4> HIDE DEF h, t
      <4> QED BY <1>2, <1>5, <2>1
    <3>4. ~(s >= t)
      BY <1>5, <3>1, <3>2, <3>3
    <3> HIDE DEF h, t
    <3> QED BY <1>2, <1>5, <3>4
  <2>3. index_of(k, s) = a + (s - h)
    BY <1>3, <1>5, <2>1, <2>2
  <2> QED BY <1>1, <1>5, <2>1, <2>2, <2>3 DEF Holds
<1> QED BY <1>4, <1>5

(* What holds the element i is what get(i) finds.                          *)
LEMMA GetIs ==
    ASSUME NEW u, NEW F, Walked(u, F), NEW i, NEW k, NEW s, Holds(F, u, i, k, s)
    PROVE  i \in Nat /\ i < Span(u) /\ get(i) = <<k, s>>
<1>1. u \in Rows /\ Counts(F, u) /\ F[Len(u)] = Span(u) /\ Len(u) \in Nat /\ k \in 1..Len(u)
  BY DEF Walked, Rows, Holds
<1>2. i \in Int /\ F[k - 1] <= i /\ i < F[k] /\ F[k - 1] \in Nat /\ F[k] \in Nat
  BY <1>1, HoldsWithin
<1>3. F[k] <= F[Len(u)]
  <2>1. k \in 0..Len(u) /\ Len(u) \in 0..Len(u) /\ k <= Len(u)
    BY <1>1
  <2> QED BY <1>1, <2>1, CountsGrow
<1>4. Span(u) \in Nat
  BY <1>1, RowLength
<1>5. i \in Nat /\ i < Span(u)
  BY <1>1, <1>2, <1>3, <1>4
<1>6. PICK j, t : get(i) = <<j, t>> /\ Holds(F, u, i, j, t)
  BY <1>5, GetGives DEF Finds
<1>7. j = k /\ t = s
  BY <1>1, <1>6, OnePlace
<1> QED BY <1>5, <1>6, <1>7

(* The first element and the last one, and their places.                   *)
LEMMA EndsHeld ==
    ASSUME NEW u, NEW F, Walked(u, F), Span(u) > 0
    PROVE  /\ Len(u) \in Nat \ {0} /\ dq.nItems > 0
           /\ Holds(F, u, 0, 1, u[1].nHead)
           /\ Holds(F, u, Span(u) - 1, Len(u), u[Len(u)].nTail - 1)
           /\ Last(dq.used) = u[Len(u)]
<1> DEFINE l == Len(u)
<1>1. /\ u \in Rows /\ Counts(F, u) /\ F[l] = Span(u) /\ dq.used = u /\ dq.nItems = Span(u)
      /\ Span(u) \in Nat /\ l \in Nat /\ F[0] = 0
  BY RowLength DEF Walked, Rows, Counts
<1>2. l # 0
  <2> SUFFICES ASSUME l = 0 PROVE FALSE
    OBVIOUS
  <2> QED BY <1>1
<1>3. 1 \in 1..l /\ l \in 1..l
  BY <1>1, <1>2
<1>4. /\ u[1].nHead \in Int /\ u[1].nHead < u[1].nTail
      /\ u[l].nHead \in Int /\ u[l].nHead < u[l].nTail /\ u[l].nTail \in Int
      /\ F[l] = F[l - 1] + (u[l].nTail - u[l].nHead) /\ F[l] \in Nat /\ F[l - 1] \in Nat
  BY <1>1, <1>3, ChunkInRow, CountsStep
<1>5. Holds(F, u, 0, 1, u[1].nHead)
  <2> DEFINE h == u[1].nHead
  <2>1. h \in Int
    BY <1>4
  <2> HIDE DEF h
  <2>2. 1 - 1 = 0 /\ 0 = 0 + (h - h) /\ h <= h
    BY <2>1
  <2>3. F[1 - 1] = 0
    BY <1>1, <2>2
  <2> QED BY <1>3, <1>4, <2>2, <2>3 DEF Holds, h
<1>6. Holds(F, u, Span(u) - 1, l, u[l].nTail - 1)
  <2> DEFINE h == u[l].nHead
             t == u[l].nTail
             a == F[l - 1]
             b == F[l]
  <2>1. h \in Int /\ t \in Int /\ h < t /\ b = a + (t - h) /\ a \in Nat /\ b = Span(u)
    BY <1>1, <1>4
  <2> HIDE DEF h, t, a, b
  <2>2. t - 1 \in Int /\ h <= t - 1 /\ t - 1 < t /\ b - 1 = a + ((t - 1) - h)
    BY <2>1
  <2> QED BY <1>3, <2>1, <2>2 DEF Holds, h, t, a, b
<1>7. Last(dq.used) = u[l]
  BY <1>1 DEF Last
<1> QED BY <1>1, <1>2, <1>5, <1>6, <1>7

LEMMA WalkedBy ==
    ASSUME IndInv
    PROVE  \E u, f : Up(f, u) /\ Walked(u, Lengths(f, u))
<1>1. PICK u \in Rows, v \in Spares : dq = Made(u, v, Span(u))
  BY DEF IndInv, DequeInv, Sound
<1>2. dq.used = u /\ dq.nItems = Span(u)
  BY <1>1, MadeOf
<1>3. u \in Seq(Chunk)
  BY DEF Rows
<1>4. PICK f : Up(f, u)
  BY <1>3, ContentsUp
<1>5. Counts(Lengths(f, u), u) /\ Lengths(f, u)[Len(u)] = Span(u)
  BY <1>4, LengthsCount
<1> QED BY <1>2, <1>4, <1>5 DEF Walked

LEMMA IndexingHolds ==
    ASSUME IndInv
    PROVE  IndexingAgrees
<1>1. PICK u, f : Up(f, u) /\ Walked(u, Lengths(f, u))
  BY WalkedBy
<1> DEFINE F == Lengths(f, u)
           n == dq.nItems
<1>2. u \in Rows /\ dq.used = u /\ n = Span(u) /\ n \in Nat /\ Walked(u, F)
  BY <1>1, RowLength DEF Walked
<1>3. ASSUME NEW i \in 0..(n - 1)
      PROVE  /\ get(i) # NULL /\ Elem(get(i)) = Contents(dq.used)[i + 1]
             /\ index_of(get(i)[1], get(i)[2]) = i
  <2>1. i \in Nat /\ i < Span(u)
    BY <1>2
  <2>2. PICK k, s : get(i) = <<k, s>> /\ Holds(F, u, i, k, s)
    <3> HIDE DEF F
    <3> QED BY <1>2, <2>1, GetGives DEF Finds
  <2>3. get(i)[1] = k /\ get(i)[2] = s /\ get(i) # NULL
    BY <2>2 DEF NULL
  <2>4. u[k].vData[s] = Contents(u)[i + 1]
    BY <1>1, <1>2, <2>2, HoldsElement
  <2>5. Elem(get(i)) = Contents(dq.used)[i + 1]
    BY <1>2, <2>3, <2>4 DEF Elem
  <2>6. index_of(k, s) = i
    <3> HIDE DEF F
    <3> QED BY <1>2, <2>2, IndexOfGives
  <2> QED BY <2>3, <2>5, <2>6
<1> HIDE DEF F, n
<1>4. get(n) = NULL
  <2>1. n >= Span(u)
    BY <1>2
  <2> QED BY <1>2, <2>1, GetGives
<1>5. first = get(0)
  <2>1. CASE n = 0
    <3>1. first = NULL
      BY <2>1 DEF first, n
    <3> QED BY <1>4, <2>1, <3>1
  <2>2. CASE n # 0
    <3>1. Span(u) > 0
      BY <1>2, <2>2
    <3>2. Holds(F, u, 0, 1, u[1].nHead) /\ dq.nItems > 0
      BY <1>2, <3>1, EndsHeld
    <3>3. first = <<1, u[1].nHead>>
      BY <1>2, <2>2, <3>2 DEF first, n
    <3> QED BY <1>2, <3>2, <3>3, GetIs
  <2> QED BY <2>1, <2>2
<1>6. last = IF n = 0 THEN NULL ELSE get(n - 1)
  <2>1. CASE n = 0
    BY <2>1 DEF last, n
  <2>2. CASE n # 0
    <3>1. Span(u) > 0
      BY <1>2, <2>2
    <3>2. /\ Holds(F, u, Span(u) - 1, Len(u), u[Len(u)].nTail - 1) /\ dq.nItems > 0
          /\ Last(dq.used) = u[Len(u)]
      BY <1>2, <3>1, EndsHeld
    <3>3. last = <<Len(u), u[Len(u)].nTail - 1>>
      BY <1>2, <2>2, <3>2 DEF last, n
    <3>4. get(Span(u) - 1) = <<Len(u), u[Len(u)].nTail - 1>>
      BY <1>2, <3>2, GetIs
    <3> QED BY <1>2, <2>2, <3>3, <3>4
  <2> QED BY <2>1, <2>2
<1>7. ASSUME NEW k \in DOMAIN dq.used, NEW slot \in Slots, index_of(k, slot) >= 0
      PROVE  get(index_of(k, slot)) = <<k, slot>>
  <2>1. slot \in Int /\ k \in DOMAIN u
    BY <1>2 DEF Slots
  <2>2. Holds(F, u, index_of(k, slot), k, slot)
    BY <1>2, <1>7, <2>1, IndexOfGives
  <2> QED BY <1>2, <2>2, GetIs
<1> QED BY <1>3, <1>4, <1>5, <1>6, <1>7 DEF IndexingAgrees, n

-----------------------------------------------------------------------------
(* Iterators.                                                              *)

(* The iterator x stands on the element of its index.                      *)
Stands(x, F, u) ==
    /\ \E k, s, i : x = To(k, s, i)
    /\ Holds(F, u, x.index, x.item, x.offset)

LEMMA ToIs ==
    ASSUME NEW k, NEW s, NEW i, NEW x, x = To(k, s, i)
    PROVE  x.item = k /\ x.offset = s /\ x.index = i
  BY DEF To

LEMMA StandsAt ==
    ASSUME NEW F, NEW u, NEW k, NEW s, NEW i, NEW x, x = To(k, s, i), Holds(F, u, i, k, s)
    PROVE  Stands(x, F, u) /\ x.item = k /\ x.offset = s /\ x.index = i
  BY ToIs DEF Stands

LEMMA RoundIs ==
    ASSUME NEW i, NEW n, NEW p, p = Round(i, n)
    PROVE  p.at = i /\ p.left = n /\ p = Round(p.at, p.left)
  BY DEF Round

(* Where an iterator that is to go n steps, to the index "goal", has come to
   in some rounds.                                                         *)
Ended(p, u, goal) ==
    /\ p = Round(p.at, p.left) /\ p.left \in Int
    /\ p.at = INVALID /\ (goal < 0 \/ goal >= Span(u))

Going(p, n, F, u, goal) ==
    /\ p = Round(p.at, p.left) /\ p.left \in Nat /\ Stands(p.at, F, u)
    /\ IF n >= 0 THEN p.at.index + p.left = goal ELSE p.at.index - p.left = goal

(* How many rounds it has at most before it leaves the chunks.             *)
Rank(p, n, u) ==
    IF n >= 0 THEN Len(u) - p.at.item
    ELSE IF p.at.offset <= u[p.at.item].nHead THEN p.at.item - 1 ELSE p.at.item

LEMMA StandsIn ==
    ASSUME NEW u, NEW F, Walked(u, F), NEW x, Stands(x, F, u)
    PROVE  /\ x.item \in 1..Len(u) /\ Len(u) \in Nat /\ x.offset \in Int /\ x.index \in Nat
           /\ x.index < Span(u) /\ Span(u) \in Nat
           /\ u[x.item].nHead \in Int /\ u[x.item].nTail \in Int
           /\ u[x.item].nHead <= x.offset /\ x.offset < u[x.item].nTail
           /\ x.index = F[x.item - 1] + (x.offset - u[x.item].nHead)
           /\ F[x.item] = F[x.item - 1] + (u[x.item].nTail - u[x.item].nHead)
           /\ F[x.item] \in Nat /\ F[x.item - 1] \in Nat
           /\ F[Len(u)] = Span(u) /\ F[0] = 0
<1> DEFINE k == x.item
<1>1. /\ k \in 1..Len(u) /\ x.offset \in Int /\ u[k].nHead <= x.offset /\ x.offset < u[k].nTail
      /\ x.index = F[k - 1] + (x.offset - u[k].nHead)
  BY DEF Stands, Holds
<1>2. /\ u \in Rows /\ Counts(F, u) /\ F[Len(u)] = Span(u) /\ Len(u) \in Nat /\ F[0] = 0
  BY DEF Walked, Rows, Counts
<1>3. x.index \in Nat /\ x.index < Span(u) /\ Span(u) \in Nat
  BY <1>2, GetIs, RowLength DEF Stands
<1>4. /\ u[k].nHead \in Int /\ u[k].nTail \in Int
      /\ F[k] = F[k - 1] + (u[k].nTail - u[k].nHead) /\ F[k] \in Nat /\ F[k - 1] \in Nat
  BY <1>1, <1>2, ChunkInRow, CountsStep
<1> QED BY <1>1, <1>2, <1>3, <1>4

LEMMA OverIs ==
    ASSUME NEW u, NEW F, Walked(u, F), NEW p, NEW n, NEW goal, Going(p, n, F, u, goal)
    PROVE  Over(p) <=> p.left = 0
<1>1. p.at.item \in 1..Len(u) /\ Len(u) \in Nat
  BY StandsIn DEF Going
<1>2. p.at.item # 0
  BY <1>1
<1> QED BY <1>2 DEF Over

LEMMA ForwardGoes ==
    ASSUME NEW u, NEW F, Walked(u, F), NEW p, NEW n \in Int, n >= 0, NEW goal \in Int,
           Going(p, n, F, u, goal), ~Over(p), NEW q, q = ForwardRound(p)
    PROVE  \/ Ended(q, u, goal)
           \/ Going(q, n, F, u, goal) /\ (q.left = 0 \/ Rank(q, n, u) = Rank(p, n, u) - 1)
<1> DEFINE k == p.at.item
           s == p.at.offset
           i == p.at.index
           m == p.left
           h == u[k].nHead
           t == u[k].nTail
           a == F[k - 1]
           b == F[k]
           l == Len(u)
           z == Span(u)
           do == MinOf(t - s, m)
<1>1. /\ k \in 1..l /\ l \in Nat /\ s \in Int /\ i \in Nat /\ i < z /\ z \in Nat
      /\ h \in Int /\ t \in Int /\ h <= s /\ s < t
      /\ i = a + (s - h) /\ b = a + (t - h) /\ b \in Nat /\ a \in Nat /\ F[l] = z
  <2> DEFINE x == p.at
  <2>1. Stands(x, F, u)
    BY DEF Going
  <2> HIDE DEF x
  <2>2. /\ x.item \in 1..l /\ l \in Nat /\ x.offset \in Int /\ x.index \in Nat /\ x.index < z /\ z \in Nat
        /\ u[x.item].nHead \in Int /\ u[x.item].nTail \in Int
        /\ u[x.item].nHead <= x.offset /\ x.offset < u[x.item].nTail
        /\ x.index = F[x.item - 1] + (x.offset - u[x.item].nHead)
        /\ F[x.item] = F[x.item - 1] + (u[x.item].nTail - u[x.item].nHead)
        /\ F[x.item] \in Nat /\ F[x.item - 1] \in Nat /\ F[l] = z
    BY <2>1, StandsIn
  <2> QED BY <2>2 DEF x
<1>2. m \in Nat /\ m # 0 /\ i + m = goal
  BY OverIs DEF Going
<1>3. dq.used = u /\ u \in Rows
  BY DEF Walked
<1>4. q = Round(IF s + do < t THEN To(k, s + do, i + do)
                ELSE IF k = l THEN INVALID
                ELSE To(k + 1, u[k + 1].nHead, i + do), m - do)
  BY <1>3 DEF ForwardRound
<1>5. do \in Nat /\ do <= m /\ do <= t - s /\ (do = m \/ do = t - s)
  <2> HIDE DEF k, s, i, m, h, t
  <2> QED BY <1>1, <1>2 DEF MinOf
<1> HIDE DEF do
<1>6. CASE s + do < t
  <2>1. q.at = To(k, s + do, i + do) /\ q.left = m - do /\ q = Round(q.at, q.left)
    BY <1>4, <1>6, RoundIs
  <2> HIDE DEF k, s, i, m, h, t, a, b, l, z
  <2>2. m - do = 0 /\ h <= s + do /\ s + do \in Int /\ i + do = a + ((s + do) - h) /\ (i + do) + 0 = goal
    BY <1>1, <1>2, <1>5, <1>6
  <2>3. Holds(F, u, i + do, k, s + do)
    BY <1>1, <1>6, <2>2 DEF Holds, h, t, a, l
  <2>4. Stands(q.at, F, u) /\ q.at.index = i + do
    BY <2>1, <2>3, StandsAt
  <2>5. q.left = 0 /\ q.left \in Nat /\ q.at.index + q.left = goal
    BY <2>1, <2>2, <2>4
  <2> QED BY <2>1, <2>4, <2>5 DEF Going
<1>7. CASE ~(s + do < t) /\ k = l
  <2>1. q.at = INVALID /\ q.left = m - do /\ q = Round(q.at, q.left)
    BY <1>4, <1>7, RoundIs
  <2>2. b = z
    BY <1>1, <1>7
  <2> HIDE DEF k, s, i, m, h, t, a, b, l, z
  <2>3. goal >= z /\ m - do \in Int
    BY <1>1, <1>2, <1>5, <1>7, <2>2
  <2> QED BY <2>1, <2>3 DEF Ended, z
<1>8. CASE ~(s + do < t) /\ k # l
  <2> DEFINE g == u[k + 1].nHead
  <2>1. q.at = To(k + 1, g, i + do) /\ q.left = m - do /\ q = Round(q.at, q.left)
    BY <1>4, <1>8, RoundIs
  <2>2. k + 1 \in 1..l /\ (k + 1) - 1 = k /\ k \in Int
    <3> HIDE DEF k, l, s, t
    <3> QED BY <1>1, <1>8
  <2>3. g \in Int /\ g < u[k + 1].nTail
    BY <1>3, <2>2, ChunkInRow
  <2> HIDE DEF s, i, m, h, t, a, b, z, g
  <2>4. i + do = b /\ m - do \in Nat /\ (i + do) + (m - do) = goal /\ b \in Nat
    <3>1. do \in Nat /\ do <= m /\ m \in Nat /\ i \in Nat /\ i + m = goal
      BY <1>1, <1>2, <1>5
    <3>2. s + do = t /\ s \in Int /\ h \in Int /\ a \in Nat
      BY <1>1, <1>5, <1>8
    <3>3. i = a + (s - h) /\ b = a + (t - h) /\ b \in Nat
      BY <1>1
    <3>4. i + do = b
      BY <3>1, <3>2, <3>3
    <3> QED BY <3>1, <3>3, <3>4
  <2>5. i + do = F[(k + 1) - 1] + (g - g) /\ g <= g
    BY <2>2, <2>3, <2>4 DEF b
  <2>6. Holds(F, u, i + do, k + 1, g)
    BY <2>2, <2>3, <2>5 DEF Holds, g
  <2> HIDE DEF k
  <2>7. Stands(q.at, F, u) /\ q.at.index = i + do /\ q.at.item = k + 1
    BY <2>1, <2>6, StandsAt
  <2>8. q.left \in Nat /\ q.at.index + q.left = goal
    BY <2>1, <2>4, <2>7
  <2>9. Going(q, n, F, u, goal)
    BY <2>1, <2>7, <2>8 DEF Going
  <2>10. Rank(q, n, u) = Rank(p, n, u) - 1
    <3>1. Rank(q, n, u) = l - (k + 1) /\ Rank(p, n, u) = l - k
      BY <2>7 DEF Rank, k
    <3> HIDE DEF l
    <3> QED BY <1>1, <3>1
  <2> QED BY <2>9, <2>10
<1> QED BY <1>6, <1>7, <1>8

LEMMA BackwardGoes ==
    ASSUME NEW u, NEW F, Walked(u, F), NEW p, NEW n \in Int, n < 0, NEW goal \in Int,
           Going(p, n, F, u, goal), ~Over(p), NEW q, q = BackwardRound(p)
    PROVE  \/ Ended(q, u, goal)
           \/ Going(q, n, F, u, goal) /\ (q.left = 0 \/ Rank(q, n, u) = Rank(p, n, u) - 1)
<1> DEFINE k == p.at.item
           s == p.at.offset
           i == p.at.index
           m == p.left
           l == Len(u)
           chunk == IF s <= u[k].nHead THEN k - 1 ELSE k
           from == IF chunk = k THEN s ELSE u[chunk].nTail
           h == u[chunk].nHead
           do == MinOf(from - h, m)
           a == F[chunk - 1]
<1>1. /\ k \in 1..l /\ l \in Nat /\ s \in Int /\ i \in Nat /\ i < Span(u)
      /\ u[k].nHead \in Int /\ u[k].nHead <= s /\ s < u[k].nTail /\ u[k].nTail \in Int
      /\ i = F[k - 1] + (s - u[k].nHead) /\ F[k - 1] \in Nat /\ F[0] = 0
  <2> DEFINE x == p.at
  <2>1. Stands(x, F, u)
    BY DEF Going
  <2> HIDE DEF x
  <2>2. /\ x.item \in 1..l /\ l \in Nat /\ x.offset \in Int /\ x.index \in Nat /\ x.index < Span(u)
        /\ u[x.item].nHead \in Int /\ u[x.item].nTail \in Int
        /\ u[x.item].nHead <= x.offset /\ x.offset < u[x.item].nTail
        /\ x.index = F[x.item - 1] + (x.offset - u[x.item].nHead)
        /\ F[x.item - 1] \in Nat /\ F[0] = 0
    BY <2>1, StandsIn
  <2> QED BY <2>2 DEF x
<1>2. m \in Nat /\ m # 0 /\ i - m = goal /\ ~(n >= 0)
  BY OverIs DEF Going
<1>3. dq.used = u /\ u \in Rows /\ Counts(F, u)
  BY DEF Walked
<1>4. q = IF chunk = 0 THEN Round(INVALID, m) ELSE Round(To(chunk, from - do, i - do), m - do)
  BY <1>3 DEF BackwardRound
<1>5. CASE chunk = 0
  <2>1. q.at = INVALID /\ q.left = m /\ q = Round(q.at, q.left)
    <3> HIDE DEF chunk, from, do, m
    <3> QED BY <1>4, <1>5, RoundIs
  <2>2. s = u[k].nHead /\ k - 1 = 0
    BY <1>1, <1>5
  <2>3. i = 0
    BY <1>1, <2>2
  <2>4. goal < 0
    BY <1>2, <2>3
  <2> QED BY <1>2, <2>1, <2>4 DEF Ended
<1>6. CASE chunk # 0
  <2>1. chunk \in 1..l
    <3>1. chunk \in {k - 1, k}
      OBVIOUS
    <3> HIDE DEF chunk, k, l
    <3> QED BY <1>1, <1>6, <3>1
  <2>2. q.at = To(chunk, from - do, i - do) /\ q.left = m - do /\ q = Round(q.at, q.left)
    <3> HIDE DEF chunk, from, do, i, m
    <3> QED BY <1>4, <1>6, RoundIs
  <2>3. /\ h \in Int /\ u[chunk].nTail \in Int /\ h < u[chunk].nTail
        /\ F[chunk] = a + (u[chunk].nTail - h) /\ a \in Nat
    <3> HIDE DEF chunk
    <3> QED BY <1>3, <2>1, ChunkInRow, CountsStep
  <2>4. from \in Int /\ h < from /\ from <= u[chunk].nTail /\ i = a + (from - h)
    <3>1. CASE s <= u[k].nHead
      <4>1. chunk = k - 1 /\ from = u[chunk].nTail /\ i = F[chunk]
        <5>1. chunk = k - 1
          BY <3>1
        <5>2. k - 1 # k
          <6> HIDE DEF k, l
          <6> QED BY <1>1
        <5>3. from = u[chunk].nTail
          BY <5>1, <5>2
        <5>4. s = u[k].nHead
          <6> HIDE DEF k, s
          <6> QED BY <1>1, <3>1
        <5>5. i = F[k - 1]
          <6> HIDE DEF k, s, i
          <6> QED BY <1>1, <5>4
        <5> QED BY <5>1, <5>3, <5>5
      <4> HIDE DEF chunk, from, h, a
      <4> QED BY <2>3, <4>1
    <3>2. CASE ~(s <= u[k].nHead)
      <4>1. chunk = k /\ from = s
        BY <3>2
      <4>2. h = u[k].nHead /\ a = F[k - 1] /\ u[chunk].nTail = u[k].nTail
        BY <4>1
      <4>3. /\ u[k].nHead \in Int /\ s \in Int /\ u[k].nHead <= s /\ s < u[k].nTail
            /\ u[k].nTail \in Int /\ i = F[k - 1] + (s - u[k].nHead)
        BY <1>1
      <4> DEFINE g == u[k].nHead
                 t == u[k].nTail
      <4>4. g \in Int /\ s \in Int /\ g <= s /\ s < t /\ t \in Int /\ ~(s <= g)
        BY <3>2, <4>3
      <4>5. h = g /\ u[chunk].nTail = t /\ i = a + (s - g) /\ from = s
        BY <4>1, <4>2, <4>3
      <4> HIDE DEF chunk, from, h, a, g, t, i, s
      <4> QED BY <4>4, <4>5
    <3> QED BY <3>1, <3>2
  <2>5. Rank(p, n, u) = chunk
    BY <1>2 DEF Rank
  <2>6. do \in Nat /\ do > 0 /\ do <= m /\ do <= from - h /\ (do = m \/ do = from - h)
    <3> HIDE DEF chunk, from, h, m
    <3> QED BY <1>2, <2>3, <2>4 DEF MinOf
  <2> DEFINE x == from - do
             t == u[chunk].nTail
  <2>7. /\ x \in Int /\ h <= x /\ x < t /\ i - do = a + (x - h) /\ m - do \in Nat
        /\ (i - do) - (m - do) = goal /\ (m - do = 0 \/ x = h)
    <3>1. /\ h \in Int /\ t \in Int /\ a \in Int /\ i \in Int /\ m \in Nat /\ from \in Int /\ do \in Nat
          /\ h < from /\ from <= t /\ i = a + (from - h) /\ i - m = goal
      <4> HIDE DEF chunk, from, h, m, do, a, i
      <4>1. h \in Int /\ t \in Int /\ a \in Int
        BY <2>3
      <4>2. i \in Int /\ m \in Nat /\ i - m = goal
        BY <1>1, <1>2
      <4>3. from \in Int /\ h < from /\ from <= t /\ i = a + (from - h)
        BY <2>4
      <4>4. do \in Nat
        BY <2>6
      <4> QED BY <4>1, <4>2, <4>3, <4>4
    <3> HIDE DEF chunk, from, h, m, do, a, i, t
    <3> QED BY <2>6, <3>1
  <2> HIDE DEF x, do, from, chunk
  <2>8. Holds(F, u, i - do, chunk, x)
    BY <2>1, <2>7 DEF Holds
  <2>9. Stands(q.at, F, u) /\ q.at.index = i - do /\ q.at.item = chunk /\ q.at.offset = x
    BY <2>2, <2>8, StandsAt DEF x
  <2>10. Going(q, n, F, u, goal)
    BY <1>2, <2>2, <2>7, <2>9 DEF Going
  <2>11. q.left = 0 \/ Rank(q, n, u) = Rank(p, n, u) - 1
    <3> SUFFICES ASSUME q.left # 0 PROVE Rank(q, n, u) = Rank(p, n, u) - 1
      OBVIOUS
    <3>1. x = h
      BY <2>2, <2>7
    <3>2. q.at.offset <= u[q.at.item].nHead
      BY <2>3, <2>9, <3>1
    <3> QED BY <1>2, <2>5, <2>9, <3>2 DEF Rank
  <2> QED BY <2>10, <2>11
<1> QED BY <1>5, <1>6

(* iter_move() goes as far as it is told, or over an end.                  *)
LEMMA MoveGoes ==
    ASSUME NEW u, NEW F, Walked(u, F), NEW p, NEW n \in Int, NEW goal \in Int,
           Ended(p, u, goal) \/ Going(p, n, F, u, goal), NEW q, q = Move(p, n)
    PROVE  /\ Ended(q, u, goal) \/ Going(q, n, F, u, goal)
           /\ Ended(p, u, goal) => Ended(q, u, goal)
           /\ p.left = 0 => q.left = 0
           /\ \/ Ended(q, u, goal) \/ q.left = 0 \/ Rank(q, n, u) = Rank(p, n, u) - 1
<1>1. CASE Ended(p, u, goal)
  <2>1. Over(p)
    BY <1>1, ToIs DEF Ended, Over, INVALID
  <2>2. q = p
    BY <2>1 DEF Move
  <2> QED BY <1>1, <2>2
<1>2. CASE ~Ended(p, u, goal) /\ p.left = 0
  <2>1. q = p
    BY <1>2 DEF Move, Over
  <2> QED BY <1>2, <2>1
<1>3. CASE ~Ended(p, u, goal) /\ p.left # 0
  <2>1. ~Over(p)
    BY <1>3, OverIs
  <2>2. CASE n >= 0
    <3>1. q = ForwardRound(p)
      BY <2>1, <2>2 DEF Move
    <3> QED BY <1>3, <2>1, <2>2, <3>1, ForwardGoes
  <2>3. CASE ~(n >= 0)
    <3>1. q = BackwardRound(p) /\ n < 0
      BY <2>1, <2>3 DEF Move
    <3> QED BY <1>3, <2>1, <3>1, BackwardGoes
  <2> QED BY <2>2, <2>3
<1> QED BY <1>1, <1>2, <1>3

LEMMA RankBound ==
    ASSUME NEW u, NEW F, Walked(u, F), NEW p, NEW n, NEW goal, Going(p, n, F, u, goal)
    PROVE  Rank(p, n, u) \in 0..Len(u)
<1> DEFINE x == p.at
<1>1. x.item \in 1..Len(u) /\ Len(u) \in Nat
  BY StandsIn DEF Going
<1>2. Len(u) - x.item \in 0..Len(u) /\ x.item - 1 \in 0..Len(u) /\ x.item \in 0..Len(u)
  <2> DEFINE k == x.item
             l == Len(u)
  <2>1. k \in 1..l /\ l \in Nat
    BY <1>1
  <2> HIDE DEF k, l
  <2>2. l - k \in 0..l /\ k - 1 \in 0..l /\ k \in 0..l
    BY <2>1
  <2> QED BY <2>2 DEF k, l
<1> QED BY <1>2 DEF Rank

Places == {To(k, s, i) : k \in Int, s \in Int, i \in Int}

Rounds == {Round(x, m) : x \in Places, m \in Int}

LEMMA InRounds ==
    ASSUME NEW u, NEW F, Walked(u, F), NEW p, NEW n, NEW goal,
           Ended(p, u, goal) \/ Going(p, n, F, u, goal)
    PROVE  p \in Rounds
<1>1. p = Round(p.at, p.left) /\ p.left \in Int
  BY DEF Ended, Going
<1>2. p.at \in Places
  <2>1. CASE Ended(p, u, goal)
    <3>1. p.at = To(0, 0, 0) /\ 0 \in Int
      BY <2>1 DEF Ended, INVALID
    <3> QED BY <3>1 DEF Places
  <2>2. CASE Going(p, n, F, u, goal)
    <3> DEFINE x == p.at
    <3>1. Stands(x, F, u)
      BY <2>2 DEF Going
    <3> HIDE DEF x
    <3>2. PICK k, s, i : x = To(k, s, i)
      BY <3>1 DEF Stands
    <3>3. x.item \in Int /\ x.offset \in Int /\ x.index \in Int
      <4>1. x.item \in 1..Len(u) /\ Len(u) \in Nat /\ x.offset \in Int /\ x.index \in Nat
        BY <3>1, StandsIn
      <4> QED BY <4>1
    <3>4. k \in Int /\ s \in Int /\ i \in Int
      BY <3>2, <3>3, ToIs
    <3>5. x \in Places
      BY <3>2, <3>4 DEF Places
    <3> QED BY <3>5 DEF x
  <2> QED BY <2>1, <2>2
<1> QED BY <1>1, <1>2 DEF Rounds

LEMMA IterMoveGives ==
    ASSUME NEW u, NEW F, Walked(u, F), NEW x, Stands(x, F, u), NEW n \in Int,
           NEW goal, goal = x.index + n, NEW y, y = iter_move(x, n)
    PROVE  IF goal >= 0 /\ goal < Span(u) THEN Stands(y, F, u) /\ y.index = goal ELSE y = INVALID
<1> DEFINE m == Len(u) + 1
           T == {p \in Rounds : Ended(p, u, goal) \/ Going(p, n, F, u, goal)}
           base == Round(x, IF n >= 0 THEN n ELSE -n)
           step == [q \in (1..m) \X T |-> Move(q[2], n)]
           Rule(g) == [r \in 0..m |-> IF r = 0 THEN base ELSE Move(g[r - 1], n)]
           g == CHOOSE h : h = Rule(h)
<1>1. Len(u) \in Nat /\ m \in Nat /\ x.index \in Nat /\ goal \in Int /\ dq.used = u
  <2>1. Len(u) \in Nat /\ x.index \in Nat
    BY StandsIn
  <2> QED BY <2>1 DEF Walked
<1>2. Going(base, n, F, u, goal)
  <2> DEFINE left == IF n >= 0 THEN n ELSE -n
  <2>1. base.at = x /\ base.left = left /\ base = Round(base.at, base.left)
    <3> HIDE DEF left
    <3>1. Round(x, left).at = x /\ Round(x, left).left = left
      BY RoundIs
    <3> QED BY <3>1 DEF left
  <2>2. left \in Nat /\ IF n >= 0 THEN x.index + left = goal ELSE x.index - left = goal
    BY <1>1
  <2> HIDE DEF base, left
  <2> QED BY <2>1, <2>2 DEF Going
<1>3. base \in T
  <2> HIDE DEF base
  <2> QED BY <1>2, InRounds
<1>4. \A p \in T : Move(p, n) \in T
  <2> TAKE p \in T
  <2> DEFINE q == Move(p, n)
  <2>1. Ended(p, u, goal) \/ Going(p, n, F, u, goal)
    OBVIOUS
  <2> HIDE DEF q
  <2>2. Ended(q, u, goal) \/ Going(q, n, F, u, goal)
    BY <1>1, <2>1, MoveGoes DEF q
  <2>3. q \in Rounds
    BY <2>2, InRounds
  <2> QED BY <2>2, <2>3 DEF q
<1>5. \A p \in T : Ended(p, u, goal) \/ Going(p, n, F, u, goal)
  OBVIOUS
<1> HIDE DEF base, T
<1>6. step \in [(1..m) \X T -> T]
  BY <1>4
<1>7. \A r \in 1..m, q \in T : step[<<r, q>>] = Move(q, n)
  OBVIOUS
<1> HIDE DEF step, m
<1>8. PICK f \in [0..m -> T] : Follows(f, m, base, step)
  BY <1>1, <1>3, <1>6, RecursiveFunction, Zenon
<1>9. f = Rule(f)
  <2>1. ASSUME NEW r \in 0..m PROVE f[r] = IF r = 0 THEN base ELSE Move(f[r - 1], n)
    <3>1. CASE r = 0
      BY <1>8, <3>1 DEF Follows
    <3>2. CASE r # 0
      <4>1. r \in 1..m /\ r - 1 \in 0..m
        BY <1>1, <3>2
      <4>2. f[r] = step[<<r, f[r - 1]>>] /\ f[r - 1] \in T
        BY <1>8, <4>1 DEF Follows
      <4> QED BY <1>7, <3>2, <4>1, <4>2
    <3> QED BY <3>1, <3>2
  <2> QED BY <2>1
<1>10. g = Rule(g)
  BY <1>9
<1>11. y = g[m].at
  BY <1>1 DEF iter_move, m, base
<1> HIDE DEF g
<1>12. g[0] = base /\ \A r \in 1..m : g[r] = Move(g[r - 1], n)
  BY <1>1, <1>10
<1> DEFINE S == {r \in 0..m : /\ Ended(g[r], u, goal) \/ Going(g[r], n, F, u, goal)
                              /\ \/ Ended(g[r], u, goal) \/ g[r].left = 0
                                 \/ Rank(g[r], n, u) <= Len(u) - r}
<1>13. 0 \in S
  <2>1. Rank(base, n, u) \in 0..Len(u)
    BY <1>2, RankBound
  <2>2. Rank(base, n, u) <= Len(u) - 0 /\ 0 \in 0..m
    BY <1>1, <2>1
  <2> QED BY <1>2, <1>12, <2>2
<1>14. ASSUME NEW r \in 0..(m - 1), r \in S PROVE r + 1 \in S
  <2> DEFINE p == g[r]
             q == g[r + 1]
             a == Rank(p, n, u)
             b == Rank(q, n, u)
  <2>1. r + 1 \in 1..m /\ (r + 1) - 1 = r /\ r + 1 \in 0..m /\ r \in Int
    BY <1>1
  <2>2. q = Move(p, n)
    BY <1>12, <2>1
  <2>3. /\ Ended(p, u, goal) \/ Going(p, n, F, u, goal)
        /\ Ended(p, u, goal) \/ p.left = 0 \/ a <= Len(u) - r
    BY <1>14
  <2> HIDE DEF p, q
  <2>4. /\ Ended(q, u, goal) \/ Going(q, n, F, u, goal)
        /\ Ended(p, u, goal) => Ended(q, u, goal)
        /\ p.left = 0 => q.left = 0
        /\ Ended(q, u, goal) \/ q.left = 0 \/ b = a - 1
    BY <1>1, <2>2, <2>3, MoveGoes
  <2>5. Going(p, n, F, u, goal) => a \in 0..Len(u)
    BY RankBound
  <2> HIDE DEF a, b
  <2>6. a \in 0..Len(u) /\ a <= Len(u) - r /\ b = a - 1 => b <= Len(u) - (r + 1)
    BY <1>1, <2>1
  <2>7. Ended(q, u, goal) \/ q.left = 0 \/ b <= Len(u) - (r + 1)
    BY <2>3, <2>4, <2>5, <2>6
  <2> QED BY <2>1, <2>4, <2>7 DEF q, b
<1> HIDE DEF S
<1>15. 0..m \subseteq S
  BY <1>1, <1>13, <1>14, InductionUpTo
<1>16. m \in S
  BY <1>1, <1>15
<1> DEFINE p == g[m]
<1>17. /\ Ended(p, u, goal) \/ Going(p, n, F, u, goal)
       /\ Ended(p, u, goal) \/ p.left = 0 \/ Rank(p, n, u) <= Len(u) - m
  BY <1>16 DEF S
<1> HIDE DEF p
<1>18. CASE Ended(p, u, goal)
  <2>1. y = INVALID /\ (goal < 0 \/ goal >= Span(u))
    BY <1>11, <1>18 DEF Ended, p
  <2>2. Span(u) \in Nat
    BY StandsIn
  <2>3. ~(goal >= 0 /\ goal < Span(u))
    BY <1>1, <2>1, <2>2
  <2> QED BY <2>1, <2>3
<1>19. CASE ~Ended(p, u, goal)
  <2>1. Going(p, n, F, u, goal)
    BY <1>17, <1>19
  <2>2. p.left = 0
    <3>1. Rank(p, n, u) \in 0..Len(u)
      BY <2>1, RankBound
    <3>2. ~(Rank(p, n, u) <= Len(u) - m)
      BY <1>1, <3>1 DEF m
    <3> QED BY <1>17, <1>19, <3>2
  <2>3. Stands(y, F, u) /\ (y.index + 0 = goal \/ y.index - 0 = goal)
    BY <1>11, <2>1, <2>2 DEF Going, p
  <2>4. y.index \in Nat /\ y.index < Span(u)
    BY <2>3, StandsIn
  <2>5. y.index = goal
    BY <2>3, <2>4
  <2> QED BY <2>3, <2>4, <2>5
<1> QED BY <1>18, <1>19

LEMMA AdvanceGives ==
    ASSUME NEW u, NEW F, Walked(u, F), NEW x, Stands(x, F, u), NEW n \in Int, NEW reversive \in BOOLEAN,
           NEW goal, goal = IF reversive THEN x.index - n ELSE x.index + n,
           NEW y, y = advance(x, n, reversive)
    PROVE  IF goal >= 0 /\ goal < Span(u) THEN Stands(y, F, u) /\ y.index = goal ELSE y = INVALID
<1>1. x # INVALID
  <2>1. x.item \in 1..Len(u)
    BY StandsIn
  <2>2. INVALID.item = 0
    BY ToIs DEF INVALID
  <2> QED BY <2>1, <2>2
<1> DEFINE m == IF reversive THEN -n ELSE n
<1>2. y = iter_move(x, m)
  BY <1>1 DEF advance
<1>3. m \in Int /\ goal = x.index + m
  <2>1. x.index \in Nat
    BY StandsIn
  <2> QED BY <2>1
<1> HIDE DEF m
<1> QED BY <1>2, <1>3, IterMoveGives

LEMMA IteratorsHold ==
    ASSUME IndInv
    PROVE  IteratorsAgree
<1>1. PICK u, f : Up(f, u) /\ Walked(u, Lengths(f, u))
  BY WalkedBy
<1> DEFINE F == Lengths(f, u)
<1>2. /\ Walked(u, F) /\ dq.used = u /\ Span(u) \in Nat /\ Len(Contents(u)) = Span(u)
      /\ dq.nItems = Span(u)
  BY <1>1, RowLength DEF Walked
<1> HIDE DEF F
<1> DEFINE s == Contents(dq.used)
           z == Len(s)
<1>3. z = Span(u) /\ z \in Nat
  BY <1>2
<1> SUFFICES ASSUME NEW reversive \in BOOLEAN, NEW i \in 0..(z - 1), NEW n \in (-i - 1)..(z - i)
             PROVE  LET At(j) == IF reversive THEN z - 1 - j ELSE j
                        Start == IF reversive THEN riter ELSE iter
                        p     == advance(advance(Start, i, reversive), n, reversive)
                    IN  IF i + n \in 0..(z - 1)
                        THEN p.index = At(i + n) /\ iter_get(p) = get(At(i + n))
                        ELSE p = INVALID
  BY DEF IteratorsAgree
<1> HIDE DEF s, z
<1> DEFINE At(j) == IF reversive THEN z - 1 - j ELSE j
           Start == IF reversive THEN riter ELSE iter
           q == advance(Start, i, reversive)
           p == advance(q, n, reversive)
           from == IF reversive THEN z - 1 ELSE 0
           goal == At(i + n)
<1>4. i \in Int /\ n \in Int /\ 0 <= i /\ i < z /\ z > 0
  BY <1>3
<1>5. Stands(Start, F, u) /\ Start.index = from
  <2>1. /\ dq.nItems > 0 /\ Holds(F, u, 0, 1, u[1].nHead)
        /\ Holds(F, u, Span(u) - 1, Len(u), u[Len(u)].nTail - 1) /\ Last(dq.used) = u[Len(u)]
    BY <1>2, <1>3, <1>4, EndsHeld
  <2>2. ~(dq.nItems <= 0)
    BY <1>2, <2>1
  <2>3. CASE reversive
    <3>1. riter = To(Len(u), u[Len(u)].nTail - 1, Span(u) - 1)
      BY <1>2, <2>1, <2>2 DEF riter
    <3>2. Stands(riter, F, u) /\ riter.index = Span(u) - 1
      BY <2>1, <3>1, StandsAt
    <3> QED BY <1>3, <2>3, <3>2
  <2>4. CASE ~reversive
    <3>1. iter = To(1, u[1].nHead, 0)
      BY <1>2, <2>2 DEF iter
    <3>2. Stands(iter, F, u) /\ iter.index = 0
      BY <2>1, <3>1, StandsAt
    <3> QED BY <2>4, <3>2
  <2> QED BY <2>3, <2>4
<1> HIDE DEF Start
<1>6. Stands(q, F, u) /\ q.index = At(i)
  <2>1. At(i) = IF reversive THEN Start.index - i ELSE Start.index + i
    BY <1>3, <1>4, <1>5
  <2>2. At(i) >= 0 /\ At(i) < Span(u)
    BY <1>3, <1>4
  <2> HIDE DEF At, q
  <2> DEFINE a == At(i)
  <2>3. a = IF reversive THEN Start.index - i ELSE Start.index + i
    BY <2>1
  <2>4. a >= 0 /\ a < Span(u)
    BY <2>2
  <2> HIDE DEF a
  <2>5. IF a >= 0 /\ a < Span(u) THEN Stands(q, F, u) /\ q.index = a ELSE q = INVALID
    BY <1>2, <1>4, <1>5, <2>3, AdvanceGives DEF q
  <2> QED BY <2>4, <2>5 DEF a
<1>7. goal = IF reversive THEN q.index - n ELSE q.index + n
  <2>1. goal = IF reversive THEN At(i) - n ELSE At(i) + n
    BY <1>3, <1>4
  <2> QED BY <1>6, <2>1
<1>8. /\ i + n \in 0..(z - 1) <=> goal >= 0 /\ goal < Span(u)
      /\ goal \in Int
  BY <1>3, <1>4
<1> HIDE DEF q, goal
<1>9. IF goal >= 0 /\ goal < Span(u) THEN Stands(p, F, u) /\ p.index = goal ELSE p = INVALID
  <2> HIDE DEF p
  <2> QED BY <1>2, <1>4, <1>6, <1>7, AdvanceGives DEF p
<1> HIDE DEF p
<1>10. ASSUME Stands(p, F, u), p.index = goal PROVE iter_get(p) = get(goal)
  <2>1. Holds(F, u, goal, p.item, p.offset)
    BY <1>10 DEF Stands
  <2>2. get(goal) = <<p.item, p.offset>>
    BY <1>2, <2>1, GetIs
  <2> QED BY <2>2 DEF iter_get
<1>11. IF i + n \in 0..(z - 1) THEN p.index = goal /\ iter_get(p) = get(goal) ELSE p = INVALID
  BY <1>8, <1>9, <1>10
<1> QED BY <1>11 DEF p, q, Start, goal

(* get() finds the element of every index from whichever end it starts,
   index_of() is its inverse and nothing for the other slots, and first() and
   last() are its ends: the two searches and the sum of the sizes of the
   chunks agree for any number of chunks of any size.                      *)
THEOREM IndexingRight ==
    ASSUME Careful
    PROVE  Spec => []IndexingAgrees
  BY Inductive, IndexingHolds, PTL

(* An iterator of either direction that is moved by any number of elements
   forth and back, over the borders of chunks, stands on the element of its
   index, and is invalid once it has left the deque.                       *)
THEOREM IteratorsRight ==
    ASSUME Careful
    PROVE  Spec => []IteratorsAgree
  BY Inductive, IteratorsHold, PTL
=============================================================================
