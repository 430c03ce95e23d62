----------------------------- MODULE MCPairings -----------------------------
(* Model checking RawState in the two pairings of its methods that the header
   describes: push() with get(), who calls what being given by the constants,
   and set() with pull(), by the same threads.  A behaviour keeps to the one it
   starts with.                                                            *)
EXTENDS MCRawState

CONSTANTS p1, p2, r, MaxSet

VARIABLE pairing

(* p1 pushes, p2 sets and r pulls.                                         *)
SetPull == INSTANCE RawState WITH
    Pushers <- {p1}, Setters <- {p2}, Pullers <- {r}, Getters <- {}, Collectors <- {},
    Observers <- {r}, MaxPublished <- MaxSet

(* A step of the pairing at work.                                          *)
In(A, B) ==
    \/ pairing = "push_get" /\ A
    \/ pairing = "set_pull" /\ B

PairInit == pairing \in {"push_get", "set_pull"} /\ Init

PairNext ==
    /\ In(Next, SetPull!Next)
    /\ InOrder
    /\ UNCHANGED pairing

(* The fairness of RawState, for the methods that are called in each pairing. *)
PairFairness ==
    \A t \in Threads :
        /\ WF_vars(In(Finish(t), SetPull!Finish(t)))
        /\ WF_vars(pairing = "push_get" /\ GetStep(t))
        /\ WF_vars(pairing = "push_get" /\ GcStep(t))
        /\ WF_vars(pairing = "set_pull" /\ SetPull!PullStep(t))
        /\ WF_vars(pairing = "set_pull" /\ SetPull!Retry(t))

PairSpec == PairInit /\ [][PairNext]_<<vars, pairing>> /\ PairFairness

-----------------------------------------------------------------------------
(* A producer that set() refused is accepted in the end if it insists: only
   set() of the second pairing refuses.                                    *)
RefusedSetIsAccepted == SetPull!RefusedSetSucceeds
=============================================================================
