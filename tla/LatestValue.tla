---------------------------- MODULE LatestValue ----------------------------
(***************************************************************************)
(* What lltl::state<T> promises its users when one thread consumes         *)
(* (include/lsp-plug.in/lltl/state.h): producers publish states one after  *)
(* the other, the consumer sees one current state that only ever moves to  *)
(* a later publication, and a state is disposed of once, after something   *)
(* newer was published and never while it is current.                      *)
(***************************************************************************)
EXTENDS Integers, Sequences

CONSTANTS Objects, NULL

VARIABLES
    published,      \* everything published so far; NULL withdraws a pending state
    current,        \* index of the state the consumer sees, 0 if there is none
    disposed        \* states given to the deleter, or forgotten if there is none

vars == <<published, current, disposed>>

Init ==
    /\ published = << >>
    /\ current = 0
    /\ disposed = {}

(* push() or an accepted set()                                             *)
Publish(p) ==
    /\ p # NULL => \A i \in DOMAIN published : published[i] # p
    /\ published' = Append(published, p)
    /\ UNCHANGED <<current, disposed>>

(* pull() or get(): any later publication will do, not only the last one,
   for a producer may publish while the consumer is moving.                *)
Advance(i) ==
    /\ current < i
    /\ published[i] # NULL
    /\ published[i] \notin disposed
    /\ current' = i
    /\ UNCHANGED <<published, disposed>>

Dispose(i) ==
    /\ i # current
    /\ i < Len(published)
    /\ published[i] # NULL
    /\ published[i] \notin disposed
    /\ disposed' = disposed \cup {published[i]}
    /\ UNCHANGED <<published, current>>

(* clear(), flush() and the destructor                                     *)
Clear ==
    /\ current' = 0
    /\ disposed' = disposed \cup ({published[i] : i \in DOMAIN published} \ {NULL})
    /\ UNCHANGED published

Next ==
    \/ \E p \in Objects \cup {NULL} : Publish(p)
    \/ \E i \in DOMAIN published : Advance(i) \/ Dispose(i)
    \/ Clear

Spec == Init /\ [][Next]_vars
=============================================================================
