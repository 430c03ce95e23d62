------------------------------ MODULE Snapshot ------------------------------
(***************************************************************************)
(* keys(), values() and items() of the hash containers, which copy their   *)
(* elements into arrays of the client: raw_pphash 376-470, raw_phashset    *)
(* and raw_ptrset in the same way, raw_hash_index 455-562.  A snapshot is  *)
(* made in arrays of its own, which are then exchanged with the client's.  *)
(* The table is the sequence of its pairs in the order of its iterators.   *)
(***************************************************************************)
EXTENDS DArray

CONSTANTS
    Tables,         \* sequences of <<key, value>>
    IndexSnapshots  \* clients take snapshots of a hash_index, too

ASSUME TablesAssumption == Tables \subseteq Seq(Values \X Values) /\ IndexSnapshots \in BOOLEAN

VARIABLE
    lost            \* history: blocks that no array points to any more

KeysOf(t) == [i \in DOMAIN t |-> t[i][1]]
ValuesOf(t) == [i \in DOMAIN t |-> t[i][2]]

(* grow() for all elements and an append() for each, or for each bin, which
   then find room.                                                         *)
Copied(s) == UNION {IF r.ok THEN append(r.d, s) ELSE {r} : r \in grow(Fresh, Len(s))}

Blocks(d) == IF nCapacity(d) > 0 THEN 1 ELSE 0

(* What flush() leaves of a temporary array; hash_index does not call it.  *)
Left(index, d) == IF index THEN Blocks(d) ELSE 0

(* keys(), or values()                                                     *)
One(index, a, s) ==
    LET c == Called("keys", a, 0, 0, s, a) IN
    \E r \in Copied(s) :
        IF r.ok THEN /\ Fits(a, r.d) /\ arr' = [arr EXCEPT ![a] = r.d]
                     /\ Return(c, TRUE, << >>) /\ lost' = lost + Left(index, arr[a])
        ELSE Refuse(c) /\ UNCHANGED lost

(* Mutant of Both: keeps the first array when there is none for the second. *)
BothForgetsKeys(index, a, b, t) ==
    LET c == Called("items", a, 0, 0, t, b) IN
    \E r \in Copied(KeysOf(t)), q \in Copied(ValuesOf(t)) :
        IF r.ok /\ q.ok
        THEN /\ Fits(a, r.d) /\ Fits(b, q.d) /\ arr' = [arr EXCEPT ![a] = r.d, ![b] = q.d]
             /\ Return(c, TRUE, << >>) /\ lost' = lost + Left(index, arr[a]) + Left(index, arr[b])
        ELSE Refuse(c) /\ lost' = lost + Blocks(r.d)

(* items()                                                                 *)
Both(index, a, b, t) ==
    LET c == Called("items", a, 0, 0, t, b) IN
    \E r \in Copied(KeysOf(t)), q \in Copied(ValuesOf(t)) :
        IF r.ok /\ q.ok
        THEN /\ Fits(a, r.d) /\ Fits(b, q.d) /\ arr' = [arr EXCEPT ![a] = r.d, ![b] = q.d]
             /\ Return(c, TRUE, << >>) /\ lost' = lost + Left(index, arr[a]) + Left(index, arr[b])
        ELSE Refuse(c) /\ lost' = lost + Left(index, r.d)

Snapshots ==
    \E index \in {FALSE, IndexSnapshots}, t \in Tables, a \in Names :
        \/ One(index, a, KeysOf(t)) \/ One(index, a, ValuesOf(t))
        \/ \E b \in Names \ {a} : Both(index, a, b, t)

(* The arrays of a client who takes snapshots, too.                        *)
ClientInit == Init /\ lost = 0

ClientNext == (Next /\ UNCHANGED lost) \/ Snapshots

ClientSpec == ClientInit /\ [][ClientNext]_<<vars, lost>>

-----------------------------------------------------------------------------
(* Properties.                                                             *)

(* Every block of memory that a snapshot has allocated belongs to an array of the
   client: the one it has replaced is freed, and so is the first of two when there
   is no memory for the second.                                            *)
BlocksOwned == lost = 0
=============================================================================
