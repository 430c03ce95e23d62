---------------------------- MODULE MCHashedWalk ----------------------------
(* Model checking the hash containers with the iterators over them.        *)
EXTENDS MCHashed, HashedWalk

CONSTANT
    BackSteps       \* longest move of an iterator towards the start of a chain table

(* An iterator that has come to any place step by step stands on the element
   of that place and knows its index, and a move by n from there takes it n
   elements on, or makes it invalid beyond either end.  (Moves backward over
   chains of no more than BackSteps.  In a hash_index the index is only right
   after moves by one.)                                                    *)
IteratorsAgree ==
    LET index == Working("wide") \/ Working("narrow")
        chains == Working("pphash") \/ Working("phashset")
        elements == Tuples(table)
        count == Len(elements)
        Move(i, n) == IF index THEN nodes_move(table, i, n, IF Working("wide") THEN 2 ELSE 1)
                      ELSE IF chains THEN chain_move(table, i, n) ELSE sorted_move(table, i, n)
        Stands(p, place, n) ==
            IF place \in 0..(count - 1)
            THEN /\ p # INVALID /\ p.item \in DOMAIN table.bins[p.part].data
                 /\ table.bins[p.part].data[p.item] = elements[place + 1]
                 /\ (index /\ n \notin -1..1) \/ p.index = place
            ELSE p = INVALID
        Place[i \in 0..count] == IF i = 0 THEN iter(table) ELSE Move(Place[i - 1], 1)
        Moves(i) == {n \in (-i - 1)..(count - i) : ~chains \/ -n <= BackSteps}
    IN  /\ Stands(riter(table), count - 1, 0)
        /\ \A i \in 0..count : Stands(Place[i], i, 1)
        /\ \A i \in 0..(count - 1) : \A n \in Moves(i) : Stands(Move(Place[i], n), i + n, n)
=============================================================================
