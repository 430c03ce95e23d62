------------------------------- MODULE Array -------------------------------
(***************************************************************************)
(* What darray and parray promise: each array is a sequence of elements.   *)
(* "call" is the call that a step makes, "ok" whether it succeeds and      *)
(* "got" the elements it hands out.  A call that fails changes nothing.    *)
(***************************************************************************)
EXTENDS Integers, SequencesExt

CONSTANTS Names, Values

VARIABLES items, call, ok, got

vars == <<items, call, ok, got>>

Init == items = [a \in Names |-> << >>] /\ ok = TRUE /\ got = << >>

-----------------------------------------------------------------------------
Of(a) == items[a]

Becomes(s) == items' = [items EXCEPT ![call'.on] = s] /\ ok' /\ got' = << >>

Append_ == call'.op = "append" /\ Becomes(Of(call'.on) \o call'.src)

Insert ==
    /\ call'.op = "insert" /\ call'.at <= Len(Of(call'.on))
    /\ LET s == Of(call'.on) IN
       Becomes(SubSeq(s, 1, call'.at) \o call'.src \o SubSeq(s, call'.at + 1, Len(s)))

Assign == call'.op = "set" /\ Becomes(call'.src)

Within == call'.at + call'.n <= Len(Of(call'.on))

Write ==
    /\ call'.op = "iset" /\ Within
    /\ Becomes([i \in DOMAIN Of(call'.on) |->
                    IF i - call'.at \in DOMAIN call'.src THEN call'.src[i - call'.at] ELSE Of(call'.on)[i]])

(* The elements taken out, and those that are left.                        *)
Taken == SubSeq(Of(call'.on), call'.at + 1, call'.at + call'.n)

Left ==
    LET s == Of(call'.on) IN SubSeq(s, 1, call'.at) \o SubSeq(s, call'.at + call'.n + 1, Len(s))

Remove_ ==
    /\ call'.op = "remove" /\ Within
    /\ items' = [items EXCEPT ![call'.on] = Left]
    /\ ok' /\ got' = Taken

MoveTo ==
    /\ call'.op = "move" /\ Within
    /\ items' = [items EXCEPT ![call'.on] = Left, ![call'.to] = @ \o Taken]
    /\ ok' /\ got' = Taken

(* The last element comes into the place of the one taken out, which is handed
   out unless the client only erases it.                                   *)
QuickRemove ==
    /\ call'.op \in {"qremove", "qerase"} /\ call'.at < Len(Of(call'.on))
    /\ LET s == Of(call'.on) IN
       /\ items' = [items EXCEPT ![call'.on] = Front([s EXCEPT ![call'.at + 1] = s[Len(s)]])]
       /\ got' = IF call'.op = "qremove" THEN <<s[call'.at + 1]>> ELSE << >>
    /\ ok'

Exchange ==
    /\ call'.op = "xswap" /\ {call'.at, call'.n} \subseteq 0..(Len(Of(call'.on)) - 1)
    /\ LET s == Of(call'.on) IN
       Becomes([s EXCEPT ![call'.at + 1] = s[call'.n + 1], ![call'.n + 1] = s[call'.at + 1]])

Swap ==
    /\ call'.op = "swap"
    /\ items' = [items EXCEPT ![call'.on] = Of(call'.to), ![call'.to] = Of(call'.on)]
    /\ ok' /\ got' = << >>

(* Of elements that memory is given back for, those in front stay.         *)
Cut ==
    /\ call'.op = "truncate"
    /\ \E n \in 0..Len(Of(call'.on)) : (n = Len(Of(call'.on)) \/ n >= call'.n) /\ Becomes(SubSeq(Of(call'.on), 1, n))

Reserve == call'.op = "reserve" /\ Becomes(Of(call'.on))

Clear == call'.op = "clear" /\ Becomes(<< >>)

(* The keys or values of a table, or both, take the place of the elements. *)
Keys == call'.op = "keys" /\ Becomes(call'.src)

Pairs ==
    /\ call'.op = "items"
    /\ items' = [items EXCEPT ![call'.on] = [i \in DOMAIN call'.src |-> call'.src[i][1]],
                             ![call'.to] = [i \in DOMAIN call'.src |-> call'.src[i][2]]]
    /\ ok' /\ got' = << >>

Ordered(s) == \A i, j \in DOMAIN s : i < j => s[i] <= s[j]

Count(s, v) == Cardinality({i \in DOMAIN s : s[i] = v})

Sort ==
    /\ call'.op = "sort"
    /\ LET s == Of(call'.on)
           sorted == items'[call'.on]
       IN  Ordered(sorted) /\ (\A v \in Values : Count(sorted, v) = Count(s, v)) /\ Becomes(sorted)

(* Only calls that may need memory, or ask for what is not there, fail.    *)
Fail ==
    /\ \/ call'.op \in {"append", "set", "truncate", "reserve", "insert", "move", "keys", "items"}
       \/ call'.op \in {"iset", "remove"} /\ (~Within \/ call'.at = Len(Of(call'.on)))
       \/ call'.op \in {"xswap", "qremove", "qerase"} /\ Max({call'.at, call'.n}) >= Len(Of(call'.on))
    /\ ~ok' /\ got' = << >> /\ UNCHANGED items

Next ==
    \/ Append_ \/ Insert \/ Assign \/ Write \/ Remove_ \/ MoveTo \/ QuickRemove
    \/ Exchange \/ Swap \/ Cut \/ Reserve \/ Clear \/ Keys \/ Pairs \/ Sort \/ Fail

Spec == Init /\ [][Next]_vars
=============================================================================
