----------------------------- MODULE MCRawState -----------------------------
(* Model checking RawState.  The objects are 1 .. n; they are interchangeable,
   so it is enough to look at the behaviours that hand them over in order: any
   other is one of these under other names.  (TLC's own symmetry reduction
   cannot be used with liveness.)                                          *)
EXTENDS RawState

InOrder == \E n \in {0} \cup Objects : {o \in Objects : fate'[o] # "fresh"} = 1..n

OrderedSpec == Init /\ [][Next /\ InOrder]_vars /\ Fairness
=============================================================================
