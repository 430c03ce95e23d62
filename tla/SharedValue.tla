---------------------------- MODULE SharedValue ----------------------------
(***************************************************************************)
(* What lltl::shbuffer<T> promises (include/lsp-plug.in/lltl/shbuffer.h):  *)
(* handles share buffers, and a buffer is released once, when no handle    *)
(* refers to it any more, and never comes back.                            *)
(***************************************************************************)
CONSTANTS Handles, Buffers, NULL

VARIABLES
    refers,         \* the buffer each handle refers to, or NULL
    released        \* buffers that are gone

vars == <<refers, released>>

Held == {refers[h] : h \in Handles} \ {NULL}

Init ==
    /\ refers = [h \in Handles |-> NULL]
    /\ released = {}

(* map(), set() and the constructors that allocate: a buffer nobody has    *)
Create(h, b) ==
    /\ b \notin Held /\ b \notin released
    /\ refers' = [refers EXCEPT ![h] = b]
    /\ UNCHANGED released

(* copying another handle                                                  *)
Share(h, s) ==
    /\ refers' = [refers EXCEPT ![h] = refers[s]]
    /\ UNCHANGED released

(* moving a handle, or assigning NULL (a handle moved to itself is emptied) *)
Move(h, s) ==
    /\ refers' = [refers EXCEPT ![h] = refers[s], ![s] = NULL]
    /\ UNCHANGED released

Drop(h) ==
    /\ refers' = [refers EXCEPT ![h] = NULL]
    /\ UNCHANGED released

Exchange(h, s) ==
    /\ refers' = [refers EXCEPT ![h] = refers[s], ![s] = refers[h]]
    /\ UNCHANGED released

Release(b) ==
    /\ b \notin Held /\ b \notin released
    /\ released' = released \cup {b}
    /\ UNCHANGED refers

Next ==
    \/ \E h \in Handles, b \in Buffers : Create(h, b)
    \/ \E h, s \in Handles : Share(h, s) \/ Move(h, s) \/ Exchange(h, s)
    \/ \E h \in Handles : Drop(h)
    \/ \E b \in Buffers : Release(b)

Spec == Init /\ [][Next]_vars
=============================================================================
