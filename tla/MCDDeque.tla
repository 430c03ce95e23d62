------------------------------ MODULE MCDDeque ------------------------------
EXTENDS DDequeWalk, TLC

(* The methods compare no elements.                                        *)
Symmetry == Permutations(Values)

(* The last call says what the step into a state did and nothing of what can
   follow: every step is checked, but states that differ in it only are one. *)
View == <<dq, fault>>
=============================================================================
