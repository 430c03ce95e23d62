--------------------------- MODULE RawStateProofs ---------------------------
(***************************************************************************)
(* What RawState guarantees for any number of threads and objects.  The    *)
(* last part is about the order of the states: RawState implements         *)
(* LatestValue, and its current state only moves forward, for any number   *)
(* of producers, collectors and objects, as long as one thread consumes.   *)
(***************************************************************************)
EXTENDS RawState, TLAPS

LEMMA InitType == Init => TypeOK
  BY NullAssumption DEF Init, TypeOK, Bins, OrNull, Steps, Fates, Stored2

LEMMA AfterCleanupType == \A o : AfterCleanup(o) \in Fates
  BY DEF AfterCleanup, Fates

(* Every step keeps every variable in its type.                            *)
LEMMA NextType == TypeOK /\ [Next]_vars => TypeOK'
<1> SUFFICES ASSUME TypeOK, [Next]_vars PROVE TypeOK'
  OBVIOUS
<1> USE NullAssumption, AfterCleanupType DEF TypeOK, Bins, OrNull, Steps
<1>1. ASSUME NEW t \in Threads, GcStep(t) PROVE TypeOK'
  <2>1. CASE GcSwapGarbage(t)
    BY <2>1 DEF GcSwapGarbage, SwapOut, Swap, Goto
  <2>2. CASE GcCleanup(t)
    BY <2>2 DEF GcCleanup, Cleanup, Goto, cell
  <2> QED BY <1>1, <2>1, <2>2 DEF GcStep
<1>2. ASSUME NEW t \in Threads, PushStep(t) PROVE TypeOK'
  <2>1. CASE PushSwapGarbage(t)
    BY <2>1 DEF PushSwapGarbage, SwapOut, Swap, Goto, HandOver, Fresh, Fates
  <2>2. CASE PushCleanup(t)
    BY <2>2 DEF PushCleanup, Cleanup, Goto, cell
  <2>3. CASE PushSwapPending(t)
    BY <2>3 DEF PushSwapPending, SwapOut, Swap, Goto, Publish
  <2>4. CASE PushCleanupPending(t)
    BY <2>4 DEF PushCleanupPending, Cleanup, Goto, cell
  <2> QED BY <1>2, <2>1, <2>2, <2>3, <2>4 DEF PushStep
<1>3. ASSUME NEW t \in Threads, PullStep(t) PROVE TypeOK'
  <2>1. CASE PullSwapGarbage(t)
    BY <2>1 DEF PullSwapGarbage, SwapOut, Swap, Goto
  <2>2. CASE PullCleanup(t)
    BY <2>2 DEF PullCleanup, Cleanup, Goto, cell
  <2>3. CASE PullSwapPending(t)
    BY <2>3 DEF PullSwapPending, TakePending, Swap, Goto
  <2>4. CASE PullLoadState(t)
    BY <2>4 DEF PullLoadState, LoadState, Goto, cell
  <2>5. CASE PullSwapState(t)
    BY <2>5 DEF PullSwapState, InstallState, SwapOut, Swap, Goto
  <2>6. CASE PullCleanupState(t)
    BY <2>6 DEF PullCleanupState, Cleanup, Goto, cell
  <2> QED BY <1>3, <2>1, <2>2, <2>3, <2>4, <2>5, <2>6 DEF PullStep
<1>4. ASSUME NEW t \in Threads, GetStep(t) PROVE TypeOK'
  <2>1. CASE GetLoadGarbage(t)
    BY <2>1 DEF GetLoadGarbage, Goto, cell
  <2>2. CASE GetLoadState(t)
    BY <2>2 DEF GetLoadState, LoadState, Goto, cell
  <2>3. CASE GetSwapPending(t)
    BY <2>3 DEF GetSwapPending, TakePending, Swap, Goto
  <2>4. CASE GetSwapState(t)
    BY <2>4 DEF GetSwapState, InstallState, SwapOut, Swap, Goto
  <2>5. CASE GetSwapGarbage(t)
    BY <2>5 DEF GetSwapGarbage, StoreGarbage, Swap, Goto
  <2> QED BY <1>4, <2>1, <2>2, <2>3, <2>4, <2>5 DEF GetStep
<1>5. ASSUME NEW t \in Threads, SetStep(t) PROVE TypeOK'
  <2>1. CASE SetRefused(t)
    BY <2>1 DEF SetRefused, cell
  <2>2. CASE SetLoadGarbage(t)
    BY <2>2 DEF SetLoadGarbage, HandOver, Fresh, Goto, cell, Fates
  <2>3. CASE SetSwapPending(t)
    BY <2>3 DEF SetSwapPending, SwapOut, Swap, Goto, Publish
  <2>4. CASE SetSwapGarbage(t)
    BY <2>4 DEF SetSwapGarbage, StoreGarbage, Swap, Goto
  <2> QED BY <1>5, <2>1, <2>2, <2>3, <2>4 DEF SetStep
<1>6. ASSUME NEW t \in Threads, Current(t) PROVE TypeOK'
  BY <1>6 DEF Current, LoadState, Goto, cell
<1>7. CASE Alone
  <2>1. CASE Clear
    BY <2>1 DEF Clear, ClearBins
  <2>2. CASE Destroy
    BY <2>2 DEF Destroy, ClearBins
  <2>3. CASE SetDeleter1
    BY <2>3 DEF SetDeleter1, calls
  <2>4. CASE SetDeleter2
    BY <2>4 DEF SetDeleter2, Stored2, calls
  <2> QED BY <1>7, <2>1, <2>2, <2>3, <2>4 DEF Alone
<1>8. CASE UNCHANGED vars
  BY <1>8 DEF vars
<1> QED BY <1>1, <1>2, <1>3, <1>4, <1>5, <1>6, <1>7, <1>8 DEF Next

(* The variables keep their types: every local, bin and history is what the
   actions on it expect, whatever the threads call.                        *)
THEOREM TypeCorrect == Spec => []TypeOK
<1>1. Init => TypeOK
  BY InitType
<1>2. TypeOK /\ [Next]_vars => TypeOK'
  BY NextType
<1> QED BY <1>1, <1>2, PTL DEF Spec

-----------------------------------------------------------------------------
(* Ownership.  OneOwner is not inductive alone: HandOver would break it if
   an object somewhere in the cell could still be fresh, and a cleanup would
   break NoDoubleDelete if what it is given were not handed over any more.
   So the invariant also says that whatever is in a bin or in a call has
   been handed over and not been disposed of.                              *)
InHandIsHanded ==
    /\ \A b \in Bins : bins[b] # NULL => fate[bins[b]] = "handed"
    /\ \A t \in Threads : new_state[t] # NULL => fate[new_state[t]] = "handed"
    /\ \A t \in Threads : garbage[t] # NULL => fate[garbage[t]] = "handed"

OwnerInv == TypeOK /\ OneOwner /\ InHandIsHanded /\ NoDoubleDelete

(* A cleanup step takes its object out of the game for good.               *)
LEMMA CleanupOwner ==
    ASSUME OwnerInv, NEW t \in Threads, NEW from, NEW to, Cleanup(t, from, to)
    PROVE  (OneOwner /\ InHandIsHanded /\ NoDoubleDelete)'
  BY NullAssumption
  DEF OwnerInv, TypeOK, OrNull, OneOwner, InHandIsHanded, NoDoubleDelete,
      Cleanup, AfterCleanup, cell

(* A load touches nothing that is owned.                                   *)
LEMMA LoadOwner ==
    ASSUME OwnerInv, NEW t \in Threads, NEW from, LoadState(t, from)
    PROVE  (OneOwner /\ InHandIsHanded /\ NoDoubleDelete)'
  BY DEF OwnerInv, OneOwner, InHandIsHanded, NoDoubleDelete, LoadState, cell

(* Exchanging a bin for NULL moves its object into the call.               *)
LEMMA SwapOutOwner ==
    ASSUME OwnerInv, NEW t \in Threads, NEW b \in Bins, NEW cleanup, NEW skip,
           SwapOut(t, b, NULL, cleanup, skip), UNCHANGED <<new_state, fate>>
    PROVE  (OneOwner /\ InHandIsHanded /\ NoDoubleDelete)'
  BY NullAssumption
  DEF OwnerInv, TypeOK, OrNull, OneOwner, InHandIsHanded, NoDoubleDelete, SwapOut, Swap

(* Exchanging a bin for the object of the call swaps the two owners.       *)
LEMMA SwapInOwner ==
    ASSUME OwnerInv, NEW t \in Threads, NEW b \in Bins, NEW cleanup, NEW skip,
           SwapOut(t, b, new_state[t], cleanup, skip),
           new_state' = [new_state EXCEPT ![t] = NULL], UNCHANGED fate
    PROVE  (OneOwner /\ InHandIsHanded /\ NoDoubleDelete)'
  BY NullAssumption
  DEF OwnerInv, TypeOK, OrNull, OneOwner, InHandIsHanded, NoDoubleDelete, SwapOut, Swap

(* Taking the pending state leaves the bin empty.                          *)
LEMMA TakeOwner ==
    ASSUME OwnerInv, NEW t \in Threads, NEW from, NEW none, NEW some,
           TakePending(t, from, none, some)
    PROVE  (OneOwner /\ InHandIsHanded /\ NoDoubleDelete)'
  BY NullAssumption
  DEF OwnerInv, TypeOK, OrNull, Bins, OneOwner, InHandIsHanded, NoDoubleDelete,
      TakePending, Swap

(* Setting garbage aside may overwrite an object, but never duplicates one. *)
LEMMA StoreOwner ==
    ASSUME OwnerInv, NEW t \in Threads, NEW from,
           StoreGarbage(t, from), UNCHANGED <<new_state, fate>>
    PROVE  (OneOwner /\ InHandIsHanded /\ NoDoubleDelete)'
  BY NullAssumption
  DEF OwnerInv, TypeOK, OrNull, Bins, OneOwner, InHandIsHanded, NoDoubleDelete,
      StoreGarbage, Swap

(* A producer brings in an object nobody has.                              *)
LEMMA HandOverOwner ==
    ASSUME OwnerInv, NEW t \in Threads, NEW p \in Fresh,
           HandOver(t, p), UNCHANGED <<bins, garbage>>
    PROVE  (OneOwner /\ InHandIsHanded /\ NoDoubleDelete)'
  BY NullAssumption
  DEF OwnerInv, TypeOK, OrNull, OneOwner, InHandIsHanded, NoDoubleDelete, HandOver, Fresh

(* push() does both at once: it starts with its object in hand and takes
   the garbage out.                                                        *)
LEMMA PushStartOwner ==
    ASSUME OwnerInv, NEW t \in Threads, PushSwapGarbage(t)
    PROVE  (OneOwner /\ InHandIsHanded /\ NoDoubleDelete)'
<1>1. PICK p \in Fresh : HandOver(t, p)
  BY DEF PushSwapGarbage
<1>2. "GARBAGE" \in Bins /\ SwapOut(t, "GARBAGE", NULL, "push_cleanup", "push_swap_pending")
  BY DEF PushSwapGarbage, Bins
<1> QED
  BY <1>1, <1>2, NullAssumption
  DEF OwnerInv, TypeOK, OrNull, OneOwner, InHandIsHanded, NoDoubleDelete, HandOver, Fresh,
      SwapOut, Swap

(* clear() and destroy(): every bin gives its object to cleanup().         *)
LEMMA ClearOwner ==
    ASSUME OwnerInv, ClearBins
    PROVE  (OneOwner /\ InHandIsHanded /\ NoDoubleDelete)'
  BY NullAssumption
  DEF OwnerInv, TypeOK, OrNull, OneOwner, InHandIsHanded, NoDoubleDelete, ClearBins,
      AfterCleanup

LEMMA InitOwner == Init => OwnerInv
  BY InitType, NullAssumption
  DEF Init, OwnerInv, OneOwner, InHandIsHanded, NoDoubleDelete

(* Every step of every call keeps the objects in one hand each.            *)
LEMMA NextOwner == OwnerInv /\ [Next]_vars => OwnerInv'
<1> SUFFICES ASSUME OwnerInv, [Next]_vars
             PROVE  (OneOwner /\ InHandIsHanded /\ NoDoubleDelete)'
  BY NextType DEF OwnerInv
<1> USE DEF Bins
<1>1. ASSUME NEW t \in Threads, GcStep(t)
      PROVE  (OneOwner /\ InHandIsHanded /\ NoDoubleDelete)'
  BY <1>1, SwapOutOwner, CleanupOwner DEF GcStep, GcSwapGarbage, GcCleanup
<1>2. ASSUME NEW t \in Threads, PushStep(t)
      PROVE  (OneOwner /\ InHandIsHanded /\ NoDoubleDelete)'
  BY <1>2, PushStartOwner, SwapInOwner, CleanupOwner
  DEF PushStep, PushCleanup, PushSwapPending, PushCleanupPending, Publish
<1>3. ASSUME NEW t \in Threads, PullStep(t)
      PROVE  (OneOwner /\ InHandIsHanded /\ NoDoubleDelete)'
  BY <1>3, SwapOutOwner, SwapInOwner, CleanupOwner, TakeOwner, LoadOwner
  DEF PullStep, PullSwapGarbage, PullCleanup, PullSwapPending, PullLoadState,
      PullSwapState, InstallState, PullCleanupState
<1>4. ASSUME NEW t \in Threads, GetStep(t)
      PROVE  (OneOwner /\ InHandIsHanded /\ NoDoubleDelete)'
  <2>1. CASE GetLoadGarbage(t)
    BY <2>1 DEF GetLoadGarbage, cell, OwnerInv, OneOwner, InHandIsHanded, NoDoubleDelete
  <2> QED
    BY <1>4, <2>1, TakeOwner, LoadOwner, SwapInOwner, StoreOwner
    DEF GetStep, GetLoadState, GetSwapPending, GetSwapState, InstallState, GetSwapGarbage
<1>5. ASSUME NEW t \in Threads, SetStep(t)
      PROVE  (OneOwner /\ InHandIsHanded /\ NoDoubleDelete)'
  <2>1. CASE SetRefused(t)
    BY <2>1 DEF SetRefused, cell, OwnerInv, OneOwner, InHandIsHanded, NoDoubleDelete
  <2>2. CASE SetLoadGarbage(t)
    BY <2>2, HandOverOwner DEF SetLoadGarbage, cell
  <2> QED
    BY <1>5, <2>1, <2>2, SwapInOwner, StoreOwner
    DEF SetStep, SetSwapPending, Publish, SetSwapGarbage
<1>6. ASSUME NEW t \in Threads, Current(t)
      PROVE  (OneOwner /\ InHandIsHanded /\ NoDoubleDelete)'
  BY <1>6, LoadOwner DEF Current
<1>7. CASE Alone
  <2>1. CASE SetDeleter1 \/ SetDeleter2
    BY <2>1 DEF SetDeleter1, SetDeleter2, calls, OwnerInv, OneOwner, InHandIsHanded,
                NoDoubleDelete
  <2> QED BY <1>7, <2>1, ClearOwner DEF Alone, Clear, Destroy
<1>8. CASE UNCHANGED vars
  BY <1>8 DEF vars, OwnerInv, OneOwner, InHandIsHanded, NoDoubleDelete
<1> QED BY <1>1, <1>2, <1>3, <1>4, <1>5, <1>6, <1>7, <1>8 DEF Next

(* Whatever threads call whatever methods, an object is never in two bins
   or calls at once.                                                       *)
THEOREM ObjectHasOneOwner == Spec => []OneOwner
<1>1. OwnerInv => OneOwner
  BY DEF OwnerInv
<1> QED BY InitOwner, NextOwner, <1>1, PTL DEF Spec

(* And so the deleter never gets the same object twice.                    *)
THEOREM DeletedOnce == Spec => []NoDoubleDelete
<1>1. OwnerInv => NoDoubleDelete
  BY DEF OwnerInv
<1> QED BY InitOwner, NextOwner, <1>1, PTL DEF Spec

-----------------------------------------------------------------------------
(* No leak, while one thread at most retires objects, that is calls get()
   or set().  The answer of the last atomic_swap of those two is dropped;
   the invariant says that it is NULL: from its check of the garbage bin to
   the end of the call, nobody but the retiring thread could fill that bin. *)
OneRetirer == \A t, u \in Getters \cup Setters : t = u

NewSteps == {"push_cleanup", "push_swap_pending", "pull_swap_state", "get_swap_state",
             "set_swap_pending"}

GarbageSteps == {"gc_cleanup", "push_cleanup", "push_cleanup_pending", "pull_cleanup",
                 "pull_cleanup_state", "get_swap_garbage", "set_swap_garbage"}

RetireSteps == {"get_swap_pending", "get_swap_state", "get_swap_garbage",
                "set_swap_pending", "set_swap_garbage"}

LocalsLive ==
    \A t \in Threads : /\ new_state[t] # NULL => pc[t] \in NewSteps
                       /\ garbage[t] # NULL => pc[t] \in GarbageSteps

RetireWindow ==
    \A t \in Threads : pc[t] \in RetireSteps =>
        t \in Getters \cup Setters /\ bins["GARBAGE"] = NULL

LeakInv == OwnerInv /\ LocalsLive /\ RetireWindow /\ NoLeak

LEMMA InitLeak == Init => LeakInv
  BY InitOwner DEF Init, LeakInv, LocalsLive, RetireWindow, RetireSteps, NoLeak

(* The steps of the calls, by kind, as for ownership.                      *)
LEMMA LocalsAndWindow ==
    ASSUME OneRetirer, LeakInv, [Next]_vars
    PROVE  (LocalsLive /\ RetireWindow)'
<1> USE DEF LeakInv, OwnerInv, TypeOK, OrNull, Bins, LocalsLive, RetireWindow, NewSteps,
            GarbageSteps, RetireSteps, OneRetirer, Goto, SwapOut, Swap
<1>1. ASSUME NEW t \in Threads, GcStep(t) PROVE (LocalsLive /\ RetireWindow)'
  BY <1>1 DEF GcStep, GcSwapGarbage, GcCleanup, Cleanup, cell
<1>2. ASSUME NEW t \in Threads, PushStep(t) PROVE (LocalsLive /\ RetireWindow)'
  <2>1. CASE PushSwapGarbage(t)
    BY <2>1 DEF PushSwapGarbage, HandOver, Fresh
  <2>2. CASE PushSwapPending(t)
    BY <2>2 DEF PushSwapPending, Publish
  <2> QED BY <1>2, <2>1, <2>2 DEF PushStep, PushCleanup, PushCleanupPending, Cleanup, cell
<1>3. ASSUME NEW t \in Threads, PullStep(t) PROVE (LocalsLive /\ RetireWindow)'
  <2>1. CASE PullSwapGarbage(t) \/ PullSwapPending(t) \/ PullLoadState(t)
    BY <2>1 DEF PullSwapGarbage, PullSwapPending, TakePending, PullLoadState, LoadState, cell
  <2>2. CASE PullSwapState(t)
    BY <2>2 DEF PullSwapState, InstallState
  <2> QED BY <1>3, <2>1, <2>2 DEF PullStep, PullCleanup, PullCleanupState, Cleanup, cell
<1>4. ASSUME NEW t \in Threads, GetStep(t) PROVE (LocalsLive /\ RetireWindow)'
  <2>1. CASE GetLoadGarbage(t) \/ GetLoadState(t)
    BY <2>1 DEF GetLoadGarbage, GetLoadState, LoadState, cell
  <2>2. CASE GetSwapPending(t)
    BY <2>2 DEF GetSwapPending, TakePending
  <2>3. CASE GetSwapState(t)
    BY <2>3 DEF GetSwapState, InstallState
  <2>4. CASE GetSwapGarbage(t)
    BY <2>4 DEF GetSwapGarbage, StoreGarbage
  <2> QED BY <1>4, <2>1, <2>2, <2>3, <2>4 DEF GetStep
<1>5. ASSUME NEW t \in Threads, SetStep(t) PROVE (LocalsLive /\ RetireWindow)'
  <2>1. CASE SetRefused(t) \/ SetLoadGarbage(t)
    BY <2>1 DEF SetRefused, SetLoadGarbage, HandOver, Fresh, cell
  <2>2. CASE SetSwapPending(t)
    BY <2>2 DEF SetSwapPending, Publish
  <2>3. CASE SetSwapGarbage(t)
    BY <2>3 DEF SetSwapGarbage, StoreGarbage
  <2> QED BY <1>5, <2>1, <2>2, <2>3 DEF SetStep
<1>6. ASSUME NEW t \in Threads, Current(t) PROVE (LocalsLive /\ RetireWindow)'
  BY <1>6 DEF Current, LoadState, cell
<1>7. CASE Alone
  BY <1>7 DEF Alone, Clear, Destroy, ClearBins, SetDeleter1, SetDeleter2, calls, Quiescent
<1>8. CASE UNCHANGED vars
  BY <1>8 DEF vars
<1> QED BY <1>1, <1>2, <1>3, <1>4, <1>5, <1>6, <1>7, <1>8 DEF Next

(* An object that is somewhere is somewhere after the step, or is disposed
   of by it.                                                               *)
LEMMA NothingLost ==
    ASSUME OneRetirer, LeakInv, [Next]_vars
    PROVE  NoLeak'
<1> USE NullAssumption DEF LeakInv, OwnerInv, TypeOK, OrNull, Bins, NoLeak, Somewhere,
            LocalsLive, NewSteps, GarbageSteps, SwapOut, Swap
<1>1. ASSUME NEW t \in Threads, NEW from, NEW to, Cleanup(t, from, to) PROVE NoLeak'
  BY <1>1 DEF Cleanup, AfterCleanup, cell
<1>2. ASSUME NEW t \in Threads, NEW from, LoadState(t, from) PROVE NoLeak'
  BY <1>2 DEF LoadState, cell
<1>3. ASSUME NEW t \in Threads, NEW from \in RetireSteps, StoreGarbage(t, from),
             UNCHANGED <<new_state, fate>>
      PROVE  NoLeak'
  <2>1. bins["GARBAGE"] = NULL
    BY <1>3 DEF StoreGarbage, RetireWindow
  <2> QED BY <1>3, <2>1 DEF StoreGarbage
<1>4. ASSUME NEW t \in Threads, GcStep(t) PROVE NoLeak'
  <2>1. CASE GcSwapGarbage(t)
    BY <2>1 DEF GcSwapGarbage
  <2> QED BY <1>4, <2>1, <1>1 DEF GcStep, GcCleanup
<1>5. ASSUME NEW t \in Threads, PushStep(t) PROVE NoLeak'
  <2>1. CASE PushSwapGarbage(t)
    BY <2>1 DEF PushSwapGarbage, HandOver, Fresh
  <2>2. CASE PushSwapPending(t)
    BY <2>2 DEF PushSwapPending, Publish
  <2> QED BY <1>5, <2>1, <2>2, <1>1 DEF PushStep, PushCleanup, PushCleanupPending
<1>6. ASSUME NEW t \in Threads, NEW from \in {"pull_swap_pending", "get_swap_pending"},
             NEW none, NEW some, TakePending(t, from, none, some)
      PROVE  NoLeak'
  BY <1>6 DEF TakePending
<1>7. ASSUME NEW t \in Threads, NEW from \in {"pull_swap_state", "get_swap_state"},
             NEW retire, InstallState(t, from, retire)
      PROVE  NoLeak'
  BY <1>7 DEF InstallState
<1>8. ASSUME NEW t \in Threads, PullStep(t) PROVE NoLeak'
  <2>1. CASE PullSwapGarbage(t)
    BY <2>1 DEF PullSwapGarbage
  <2> QED BY <1>8, <2>1, <1>1, <1>2, <1>6, <1>7
      DEF PullStep, PullCleanup, PullSwapPending, PullLoadState, PullSwapState, PullCleanupState
<1>9. ASSUME NEW t \in Threads, GetStep(t) PROVE NoLeak'
  <2>1. CASE GetLoadGarbage(t)
    BY <2>1 DEF GetLoadGarbage, cell
  <2>2. CASE GetSwapGarbage(t)
    BY <2>2, <1>3 DEF GetSwapGarbage, RetireSteps
  <2> QED BY <1>9, <2>1, <2>2, <1>2, <1>6, <1>7
      DEF GetStep, GetLoadState, GetSwapPending, GetSwapState
<1>10. ASSUME NEW t \in Threads, SetStep(t) PROVE NoLeak'
  <2>1. CASE SetRefused(t) \/ SetLoadGarbage(t)
    BY <2>1 DEF SetRefused, SetLoadGarbage, HandOver, Fresh, cell
  <2>2. CASE SetSwapPending(t)
    BY <2>2 DEF SetSwapPending, Publish
  <2>3. CASE SetSwapGarbage(t)
    BY <2>3, <1>3 DEF SetSwapGarbage, RetireSteps
  <2> QED BY <1>10, <2>1, <2>2, <2>3 DEF SetStep
<1>11. CASE Alone
  BY <1>11 DEF Alone, Clear, Destroy, ClearBins, AfterCleanup, SetDeleter1, SetDeleter2, calls
<1>12. CASE UNCHANGED vars
  BY <1>12 DEF vars
<1> QED BY <1>2, <1>4, <1>5, <1>8, <1>9, <1>10, <1>11, <1>12 DEF Next, Current

(* With one thread calling get() or set(), and any others pushing, pulling
   and collecting, no object handed to the cell is ever lost by it.        *)
THEOREM NothingLeaks ==
    ASSUME OneRetirer
    PROVE  Spec => []NoLeak
<1>1. LeakInv /\ [Next]_vars => LeakInv'
  BY NextOwner, LocalsAndWindow, NothingLost DEF LeakInv
<1>2. LeakInv => NoLeak
  BY DEF LeakInv
<1> QED BY InitLeak, <1>1, <1>2, PTL DEF Spec

-----------------------------------------------------------------------------
(* The reader's pointer, while one thread consumes and only that thread asks
   for the current state.  What it holds is then what is in the STATE bin,
   for no other thread takes anything out of it; and what is in a bin has
   not been deleted.                                                       *)
OneConsumer == \A t, u \in Consumers \cup Observers : t = u

ConsumeSteps == {"pull_cleanup", "pull_swap_pending", "pull_load_state", "pull_swap_state",
                 "pull_cleanup_state", "get_swap_pending", "get_load_state",
                 "get_swap_state", "get_swap_garbage"}

ReaderParts ==
    /\ \A t \in Threads : pc[t] \in ConsumeSteps => t \in Consumers
    /\ \A t \in Threads : held[t] # NULL => t \in Consumers \cup Observers
    /\ \A t \in Threads : held[t] # NULL => held[t] = bins["STATE"]

ReaderInv == OwnerInv /\ ReaderParts

LEMMA InitReader == Init => ReaderInv
  BY InitOwner DEF Init, ReaderInv, ReaderParts, ConsumeSteps

(* Installing a state: nobody else holds a pointer, so the new state is what
   every holder holds.                                                     *)
LEMMA InstallReader ==
    ASSUME OneConsumer, ReaderInv, NEW t \in Consumers, t \in Threads, NEW from, NEW retire,
           InstallState(t, from, retire), retire \in ConsumeSteps
    PROVE  ReaderParts'
<1>1. bins'["STATE"] = new_state[t] /\ held' = [held EXCEPT ![t] = new_state[t]]
  BY DEF InstallState, SwapOut, Swap, ReaderInv, OwnerInv, TypeOK, Bins
<1>2. \A u \in Threads \ {t} : held[u] = NULL
  BY DEF ReaderInv, ReaderParts, OneConsumer
<1>3. held \in [Threads -> OrNull(Objects)] /\ pc \in [Threads -> Steps]
  BY DEF ReaderInv, OwnerInv, TypeOK
<1>4. \A u \in Threads : pc'[u] \in ConsumeSteps => u \in Consumers
  BY <1>3 DEF InstallState, SwapOut, Goto, ReaderInv, ReaderParts
<1> QED BY <1>1, <1>2, <1>3, <1>4 DEF ReaderParts

(* Returning what is in the STATE bin.                                     *)
LEMMA LoadReader ==
    ASSUME ReaderInv, NEW t \in Consumers \cup Observers, t \in Threads, NEW from,
           LoadState(t, from)
    PROVE  ReaderParts'
<1>1. held \in [Threads -> OrNull(Objects)] /\ pc \in [Threads -> Steps]
  BY DEF ReaderInv, OwnerInv, TypeOK
<1> QED BY <1>1 DEF LoadState, Goto, cell, ReaderInv, ReaderParts, ConsumeSteps

(* A step that moves neither the STATE bin nor a pointer that is held.     *)
LEMMA QuietReader ==
    ASSUME ReaderInv, UNCHANGED held, bins'["STATE"] = bins["STATE"],
           \A u \in Threads : pc'[u] \in ConsumeSteps => u \in Consumers
    PROVE  ReaderParts'
  BY DEF ReaderInv, ReaderParts

LEMMA NextReader ==
    ASSUME OneConsumer, ReaderInv, [Next]_vars
    PROVE  ReaderInv'
<1> SUFFICES ReaderParts'
  BY NextOwner DEF ReaderInv
<1>t. /\ bins \in [Bins -> OrNull(Objects)]
      /\ pc \in [Threads -> Steps]
      /\ \A u \in Threads : pc[u] \in ConsumeSteps => u \in Consumers
  BY DEF ReaderInv, ReaderParts, OwnerInv, TypeOK
<1>c. ASSUME NEW t \in Threads, NEW from, NEW to, Cleanup(t, from, to),
             to \in ConsumeSteps => t \in Consumers
      PROVE  ReaderParts'
  BY <1>c, <1>t, QuietReader DEF Cleanup, Goto, cell
<1>1. ASSUME NEW t \in Threads, GcStep(t) PROVE ReaderParts'
  <2>1. CASE GcSwapGarbage(t)
    BY <2>1, <1>t, QuietReader DEF GcSwapGarbage, SwapOut, Swap, Goto, Bins, ConsumeSteps
  <2> QED BY <1>1, <2>1, <1>c DEF GcStep, GcCleanup, ConsumeSteps
<1>2. ASSUME NEW t \in Threads, PushStep(t) PROVE ReaderParts'
  <2>1. CASE PushSwapGarbage(t)
    BY <2>1, <1>t, QuietReader DEF PushSwapGarbage, SwapOut, Swap, Goto, Bins, ConsumeSteps
  <2>2. CASE PushSwapPending(t)
    BY <2>2, <1>t, QuietReader DEF PushSwapPending, SwapOut, Swap, Goto, Bins, ConsumeSteps
  <2> QED BY <1>2, <2>1, <2>2, <1>c DEF PushStep, PushCleanup, PushCleanupPending, ConsumeSteps
<1>3. ASSUME NEW t \in Threads, PullStep(t) PROVE ReaderParts'
  <2>1. t \in Consumers
    BY <1>3, <1>t DEF PullStep, PullSwapGarbage, PullCleanup, PullSwapPending, PullLoadState,
                     PullSwapState, PullCleanupState, Cleanup, TakePending, LoadState,
                     InstallState, Consumers, ConsumeSteps
  <2>2. CASE PullSwapGarbage(t)
    BY <2>1, <2>2, <1>t, QuietReader DEF PullSwapGarbage, SwapOut, Swap, Goto, Bins
  <2>3. CASE PullSwapPending(t)
    BY <2>1, <2>3, <1>t, QuietReader DEF PullSwapPending, TakePending, Swap, Goto, Bins
  <2>4. CASE PullLoadState(t)
    BY <2>1, <2>4, LoadReader DEF PullLoadState
  <2>5. CASE PullSwapState(t)
    BY <2>1, <2>5, InstallReader DEF PullSwapState, ConsumeSteps
  <2> QED BY <1>3, <2>1, <2>2, <2>3, <2>4, <2>5, <1>c
          DEF PullStep, PullCleanup, PullCleanupState
<1>4. ASSUME NEW t \in Threads, GetStep(t) PROVE ReaderParts'
  <2>1. t \in Consumers
    BY <1>4, <1>t DEF GetStep, GetLoadGarbage, GetLoadState, GetSwapPending, GetSwapState,
                     GetSwapGarbage, StoreGarbage, TakePending, LoadState,
                     InstallState, Consumers, ConsumeSteps
  <2>2. CASE GetLoadGarbage(t)
    BY <2>1, <2>2, <1>t, QuietReader DEF GetLoadGarbage, Goto, cell
  <2>3. CASE GetSwapPending(t)
    BY <2>1, <2>3, <1>t, QuietReader DEF GetSwapPending, TakePending, Swap, Goto, Bins
  <2>4. CASE GetLoadState(t)
    BY <2>1, <2>4, LoadReader DEF GetLoadState
  <2>5. CASE GetSwapState(t)
    BY <2>1, <2>5, InstallReader DEF GetSwapState, ConsumeSteps
  <2>6. CASE GetSwapGarbage(t)
    BY <2>1, <2>6, <1>t, QuietReader DEF GetSwapGarbage, StoreGarbage, Swap, Goto, Bins
  <2> QED BY <1>4, <2>2, <2>3, <2>4, <2>5, <2>6 DEF GetStep
<1>5. ASSUME NEW t \in Threads, SetStep(t) PROVE ReaderParts'
  <2>1. CASE SetRefused(t) \/ SetLoadGarbage(t)
    BY <2>1, <1>t, QuietReader DEF SetRefused, SetLoadGarbage, Goto, cell, ConsumeSteps
  <2>2. CASE SetSwapPending(t)
    BY <2>2, <1>t, QuietReader DEF SetSwapPending, SwapOut, Swap, Goto, Bins, ConsumeSteps
  <2>3. CASE SetSwapGarbage(t)
    BY <2>3, <1>t, QuietReader DEF SetSwapGarbage, StoreGarbage, Swap, Goto, Bins, ConsumeSteps
  <2> QED BY <1>5, <2>1, <2>2, <2>3 DEF SetStep
<1>6. ASSUME NEW t \in Threads, Current(t) PROVE ReaderParts'
  BY <1>6, LoadReader DEF Current
<1>7. CASE Alone
  <2>1. CASE ClearBins
    BY <2>1, <1>t DEF ClearBins, ReaderParts
  <2>2. CASE SetDeleter1 \/ SetDeleter2
    BY <2>2, <1>t, QuietReader DEF SetDeleter1, SetDeleter2, calls
  <2> QED BY <1>7, <2>1, <2>2 DEF Alone, Clear, Destroy
<1>8. CASE UNCHANGED vars
  BY <1>8, <1>t, QuietReader DEF vars
<1> QED BY <1>1, <1>2, <1>3, <1>4, <1>5, <1>6, <1>7, <1>8 DEF Next

(* With one consumer, any number of producers and collectors, and in either
   pairing of the methods, the state the consumer works with is not deleted
   under its hands.                                                        *)
THEOREM ReaderIsSafe ==
    ASSUME OneConsumer
    PROVE  Spec => []ReaderPointerAlive
<1>1. ReaderInv => ReaderPointerAlive
  BY DEF ReaderInv, ReaderParts, OwnerInv, InHandIsHanded, ReaderPointerAlive, Bins
<1>2. ReaderInv /\ [Next]_vars => ReaderInv'
  BY NextReader
<1> QED BY InitReader, <1>1, <1>2, PTL DEF Spec
-----------------------------------------------------------------------------
(* The union.                                                              *)

(* No atomic step of a call touches the deleter.                           *)
LEMMA CallsKeepDeleter ==
    ASSUME NEW t \in Threads,
           GcStep(t) \/ PushStep(t) \/ PullStep(t) \/ GetStep(t) \/ SetStep(t) \/ Current(t)
    PROVE  UNCHANGED <<deleter2, slot>>
<1>1. CASE GcStep(t)
  BY <1>1 DEF GcStep, GcSwapGarbage, GcCleanup, Cleanup, cell
<1>2. CASE PushStep(t)
  BY <1>2 DEF PushStep, PushSwapGarbage, PushCleanup, PushSwapPending, PushCleanupPending,
              Cleanup, cell
<1>3. CASE PullStep(t)
  BY <1>3 DEF PullStep, PullSwapGarbage, PullCleanup, PullSwapPending, TakePending, PullLoadState,
              LoadState, PullSwapState, InstallState, PullCleanupState, Cleanup, cell
<1>4. CASE GetStep(t)
  BY <1>4 DEF GetStep, GetLoadGarbage, GetLoadState, LoadState, GetSwapPending, TakePending,
              GetSwapState, InstallState, GetSwapGarbage, StoreGarbage, cell
<1>5. CASE SetStep(t)
  BY <1>5 DEF SetStep, SetRefused, SetLoadGarbage, SetSwapPending, SetSwapGarbage, StoreGarbage, cell
<1>6. CASE Current(t)
  BY <1>6 DEF Current, LoadState, cell
<1> QED BY <1>1, <1>2, <1>3, <1>4, <1>5, <1>6

LEMMA InitUnion == ~NullDeleter /\ Init => UnionIsTagged
  BY DeleterAssumption DEF Init, UnionIsTagged, Stored2

(* A call of cleanup() under a union that is tagged calls what it should.  *)
LEMMA NeverMiscalled ==
    ASSUME TypeOK, UnionIsTagged, [Next]_vars
    PROVE  \A o \in Objects : fate'[o] # "miscalled"
<1> USE DEF UnionIsTagged, TypeOK
<1>1. \A o \in Objects : AfterCleanup(o) # "miscalled"
  BY DEF AfterCleanup
<1>2. ASSUME NEW t \in Threads, NEW from, NEW to, Cleanup(t, from, to)
      PROVE  \A o \in Objects : fate'[o] # "miscalled"
  BY <1>1, <1>2 DEF Cleanup
<1>3. ASSUME NEW t \in Threads, NEW p \in Fresh, HandOver(t, p)
      PROVE  \A o \in Objects : fate'[o] # "miscalled"
  BY <1>3 DEF HandOver
<1>4. ASSUME NEW t \in Threads, GcStep(t) PROVE \A o \in Objects : fate'[o] # "miscalled"
  BY <1>2, <1>4 DEF GcStep, GcSwapGarbage, GcCleanup
<1>5. ASSUME NEW t \in Threads, PushStep(t) PROVE \A o \in Objects : fate'[o] # "miscalled"
  BY <1>2, <1>3, <1>5 DEF PushStep, PushSwapGarbage, PushCleanup, PushSwapPending, PushCleanupPending
<1>6. ASSUME NEW t \in Threads, PullStep(t) PROVE \A o \in Objects : fate'[o] # "miscalled"
  BY <1>2, <1>6 DEF PullStep, PullSwapGarbage, PullCleanup, PullSwapPending, TakePending, PullLoadState,
                    LoadState, PullSwapState, InstallState, PullCleanupState
<1>7. ASSUME NEW t \in Threads, GetStep(t) PROVE \A o \in Objects : fate'[o] # "miscalled"
  BY <1>7 DEF GetStep, GetLoadGarbage, GetLoadState, LoadState, GetSwapPending, TakePending,
              GetSwapState, InstallState, GetSwapGarbage
<1>8. ASSUME NEW t \in Threads, SetStep(t) PROVE \A o \in Objects : fate'[o] # "miscalled"
  BY <1>3, <1>8 DEF SetStep, SetRefused, SetLoadGarbage, SetSwapPending, SetSwapGarbage
<1>9. ASSUME NEW t \in Threads, Current(t) PROVE \A o \in Objects : fate'[o] # "miscalled"
  BY <1>9 DEF Current, LoadState
<1>10. CASE Alone
  <2>1. CASE ClearBins
    BY <1>1, <2>1 DEF ClearBins
  <2> QED BY <1>10, <2>1 DEF Alone, Clear, Destroy, SetDeleter1, SetDeleter2
<1>11. CASE UNCHANGED vars
  BY <1>11 DEF vars
<1> QED BY <1>4, <1>5, <1>6, <1>7, <1>8, <1>9, <1>10, <1>11 DEF Next

LEMMA NextUnion ==
    ASSUME ~NullDeleter, TypeOK, UnionIsTagged, [Next]_vars
    PROVE  UnionIsTagged'
<1>1. CASE UNCHANGED <<deleter2, slot>>
  BY <1>1, NeverMiscalled DEF UnionIsTagged
<1>2. CASE Alone
  <2>1. CASE Clear
    BY <1>1, <2>1 DEF Clear, ClearBins
  <2>2. CASE Destroy
    BY <2>2, DeleterAssumption, NeverMiscalled DEF Destroy, UnionIsTagged
  <2>3. CASE SetDeleter1
    BY <2>3, DeleterAssumption, NeverMiscalled DEF SetDeleter1, UnionIsTagged
  <2>4. CASE SetDeleter2
    BY <2>4, DeleterAssumption, NeverMiscalled DEF SetDeleter2, UnionIsTagged, Stored2
  <2> QED BY <1>2, <2>1, <2>2, <2>3, <2>4 DEF Alone
<1>3. CASE UNCHANGED vars
  BY <1>1, <1>3 DEF vars
<1> QED BY <1>1, <1>2, <1>3, CallsKeepDeleter DEF Next

(* As long as no client sets a NULL deleter of two arguments, the deleter is called
   with what its signature expects, whatever order the deleters of both kinds, NULL
   ones of one argument among them, are set, cleared and used in.  With a NULL
   deleter2 it is false: cleanup() then calls the argument.                *)
THEOREM UnionIsNeverMistaken ==
    ASSUME ~NullDeleter
    PROVE  Spec => []UnionIsTagged
<1>1. Init => UnionIsTagged
  BY InitUnion
<1>2. TypeOK /\ UnionIsTagged /\ [Next]_vars => UnionIsTagged'
  BY NextUnion
<1> QED BY <1>1, <1>2, TypeCorrect, PTL DEF Spec

-----------------------------------------------------------------------------
(* The order of the states.                                                *)

OnlyConsumer == \A t, u \in Consumers : t = u

(* Where a call has a state that it took out of PENDING, and where it is on
   its way to that.                                                        *)
TakenSteps == {"pull_swap_state", "get_swap_state"}

TakingSteps == {"pull_cleanup", "pull_swap_pending", "get_swap_pending"}

Roles == \A t \in Threads : pc[t] \in TakenSteps \cup TakingSteps => t \in Consumers

(* The positions of p in the order of publication are before those of q.   *)
Before(p, q) == \A i \in Position(p), j \in Position(q) : i < j

(* An object is published once, and only after it was handed over; what is in
   a bin has been published.                                               *)
Once ==
    /\ \A i, j \in DOMAIN published : published[i] # NULL /\ published[i] = published[j] => i = j
    /\ \A o \in Objects : fate[o] = "fresh" => Position(o) = {}
    /\ \A b \in Bins : bins[b] # NULL => Position(bins[b]) # {}

(* What a producer has in hand is not published yet, what the consumer has is. *)
Marks ==
    \A t \in Threads :
        IF pc[t] \in TakenSteps THEN new_state[t] # NULL /\ Position(new_state[t]) # {}
        ELSE new_state[t] # NULL => Position(new_state[t]) = {}

Superseded(o) == \E i \in Position(o) : i < Len(published)

(* Garbage is never the last publication.                                  *)
OldGarbage ==
    /\ \A t \in Threads : garbage[t] # NULL => Superseded(garbage[t])
    /\ bins["GARBAGE"] # NULL => Superseded(bins["GARBAGE"])

(* First what is current, then what the consumer has taken, then what is
   pending.                                                                *)
InOrder ==
    /\ bins["STATE"] # NULL /\ bins["PENDING"] # NULL => Before(bins["STATE"], bins["PENDING"])
    /\ \A t \in Threads : new_state[t] # NULL =>
          /\ bins["STATE"] # NULL => Before(bins["STATE"], new_state[t])
          /\ bins["PENDING"] # NULL => Before(new_state[t], bins["PENDING"])

Ranked == Once /\ Marks /\ OldGarbage /\ InOrder

OrderInv == OwnerInv /\ Roles /\ Ranked

-----------------------------------------------------------------------------
(* The kinds of steps.                                                     *)

LEMMA RolesNext ==
    ASSUME TypeOK, Roles, [Next]_vars
    PROVE  Roles'
<1> USE DEF TypeOK, Roles, TakenSteps, TakingSteps, Consumers, Goto, SwapOut
<1>1. ASSUME NEW t \in Threads, GcStep(t) PROVE Roles'
  BY <1>1 DEF GcStep, GcSwapGarbage, GcCleanup, Cleanup
<1>2. ASSUME NEW t \in Threads, PushStep(t) PROVE Roles'
  BY <1>2 DEF PushStep, PushSwapGarbage, PushCleanup, PushSwapPending, PushCleanupPending, Cleanup
<1>3. ASSUME NEW t \in Threads, PullStep(t) PROVE Roles'
  BY <1>3 DEF PullStep, PullSwapGarbage, PullCleanup, PullSwapPending, TakePending, PullLoadState,
              LoadState, PullSwapState, InstallState, PullCleanupState, Cleanup
<1>4. ASSUME NEW t \in Threads, GetStep(t) PROVE Roles'
  BY <1>4 DEF GetStep, GetLoadGarbage, GetLoadState, LoadState, GetSwapPending, TakePending,
              GetSwapState, InstallState, GetSwapGarbage, StoreGarbage
<1>5. ASSUME NEW t \in Threads, SetStep(t) PROVE Roles'
  BY <1>5 DEF SetStep, SetRefused, SetLoadGarbage, SetSwapPending, SetSwapGarbage, StoreGarbage
<1>6. ASSUME NEW t \in Threads, Current(t) PROVE Roles'
  BY <1>6 DEF Current, LoadState
<1>7. CASE Alone
  BY <1>7 DEF Alone, Clear, Destroy, ClearBins, SetDeleter1, SetDeleter2, calls
<1>8. CASE UNCHANGED vars
  BY <1>8 DEF vars
<1> QED BY <1>1, <1>2, <1>3, <1>4, <1>5, <1>6, <1>7, <1>8 DEF Next

(* What a call does to its own locals, and to no order.                    *)
LEMMA QuietRanked ==
    ASSUME OrderInv, UNCHANGED <<bins, new_state, garbage, fate, published>>,
           \A u \in Threads : pc'[u] \in TakenSteps <=> pc[u] \in TakenSteps
    PROVE  Ranked'
  BY DEF OrderInv, Ranked, Once, Marks, OldGarbage, InOrder, Superseded, Before, Position

LEMMA CleanupRanked ==
    ASSUME OrderInv, NEW t \in Threads, NEW from, NEW to, Cleanup(t, from, to),
           from \notin TakenSteps, to \notin TakenSteps
    PROVE  Ranked'
<1>1. \A u \in Threads : pc'[u] \in TakenSteps <=> pc[u] \in TakenSteps
  BY DEF OrderInv, OwnerInv, TypeOK, Cleanup, Goto
<1>2. \A o \in Objects : fate'[o] = "fresh" => fate[o] = "fresh"
  BY DEF OrderInv, OwnerInv, TypeOK, Cleanup, AfterCleanup
<1>3. \A u \in Threads : garbage'[u] # NULL => garbage'[u] = garbage[u]
  BY DEF OrderInv, OwnerInv, TypeOK, Cleanup
<1>4. UNCHANGED <<bins, new_state, published>>
  BY DEF Cleanup, cell
<1> QED BY <1>1, <1>2, <1>3, <1>4
        DEF OrderInv, Ranked, Once, Marks, OldGarbage, InOrder, Superseded, Before, Position

(* Garbage comes out of its bin, or goes in.                               *)
LEMMA GarbageRanked ==
    ASSUME OrderInv, UNCHANGED <<new_state, fate, published>>,
           \A u \in Threads : pc'[u] \in TakenSteps <=> pc[u] \in TakenSteps,
           NEW b, NEW g, bins' = [bins EXCEPT !["GARBAGE"] = b], NEW t \in Threads,
           garbage' = [garbage EXCEPT ![t] = g], {b, g} \subseteq {NULL, bins["GARBAGE"], garbage[t]}
    PROVE  Ranked'
<1>1. bins'["STATE"] = bins["STATE"] /\ bins'["PENDING"] = bins["PENDING"] /\ bins'["GARBAGE"] = b
  BY DEF OrderInv, OwnerInv, TypeOK, Bins
<1>2. \A u \in Threads : garbage'[u] = IF u = t THEN g ELSE garbage[u]
  BY DEF OrderInv, OwnerInv, TypeOK
<1>3. OldGarbage'
  BY <1>1, <1>2 DEF OrderInv, Ranked, OldGarbage, Superseded, Position
<1>4. \A c \in Bins : bins'[c] # NULL => Position(bins'[c]) # {}
  BY <1>1 DEF OrderInv, Ranked, Once, OldGarbage, Superseded, Bins
<1> QED BY <1>1, <1>3, <1>4 DEF OrderInv, Ranked, Once, Marks, InOrder, Before, Position

(* A producer brings in an object that was never published.                *)
LEMMA HandOverRanked ==
    ASSUME OrderInv, NEW t \in Threads, NEW p \in Fresh, HandOver(t, p), pc[t] \notin TakenSteps,
           UNCHANGED <<bins, garbage, published>>,
           \A u \in Threads : pc'[u] \in TakenSteps <=> pc[u] \in TakenSteps
    PROVE  Ranked'
<1>1. \A u \in Threads : new_state'[u] = IF u = t THEN p ELSE new_state[u]
  BY DEF OrderInv, OwnerInv, TypeOK, HandOver
<1>2. \A o \in Objects : fate'[o] = "fresh" => fate[o] = "fresh"
  BY DEF HandOver
<1>3. p # NULL => Position(p) = {}
  BY DEF OrderInv, Ranked, Once, Fresh
<1> QED BY <1>1, <1>2, <1>3
        DEF OrderInv, Ranked, Once, Marks, OldGarbage, InOrder, Superseded, Before, Position

(* push() does that and takes the garbage.                                 *)
LEMMA PushStartRanked ==
    ASSUME OrderInv, NEW t \in Threads, PushSwapGarbage(t)
    PROVE  Ranked'
<1>1. PICK p \in Fresh : HandOver(t, p)
  BY DEF PushSwapGarbage
<1>2. /\ \A u \in Threads : new_state'[u] = IF u = t THEN p ELSE new_state[u]
      /\ \A u \in Threads : garbage'[u] = IF u = t THEN bins["GARBAGE"] ELSE garbage[u]
      /\ bins'["STATE"] = bins["STATE"] /\ bins'["PENDING"] = bins["PENDING"] /\ bins'["GARBAGE"] = NULL
      /\ published' = published
  BY <1>1 DEF OrderInv, OwnerInv, TypeOK, HandOver, PushSwapGarbage, SwapOut, Swap, Bins
<1>3. \A o \in Objects : fate'[o] = "fresh" => fate[o] = "fresh"
  BY <1>1 DEF HandOver
<1>4. p # NULL => Position(p) = {}
  BY DEF OrderInv, Ranked, Once, Fresh
<1>5. pc[t] \notin TakenSteps /\ \A u \in Threads : pc'[u] \in TakenSteps <=> pc[u] \in TakenSteps
  BY DEF OrderInv, OwnerInv, TypeOK, PushSwapGarbage, SwapOut, Goto, TakenSteps
<1> QED BY <1>2, <1>3, <1>4, <1>5
        DEF OrderInv, Ranked, Once, Marks, OldGarbage, InOrder, Superseded, Before, Position, Bins

LEMMA AppendPosition ==
    ASSUME OrderInv, NEW p \in OrNull(Objects), published' = Append(published, p), NEW o \in Objects
    PROVE  /\ Len(published) \in Nat /\ Len(published)' = Len(published) + 1
           /\ Position(o) \subseteq 1..Len(published)
           /\ \A i : i \in Position(o)' <=> i \in Position(o) \/ (o = p /\ i = Len(published) + 1)
  BY DEF OrderInv, OwnerInv, TypeOK, Position

(* An object is published, and the one that was pending, if any, is superseded. *)
LEMMA PublishRanked ==
    ASSUME OrderInv, NEW t \in Threads, NEW cleanup, NEW skip, UNCHANGED fate,
           SwapOut(t, "PENDING", new_state[t], cleanup, skip), Publish(t),
           {pc[t], cleanup, skip} \cap TakenSteps = {}
    PROVE  Ranked'
<1> DEFINE n == Len(published)
<1>1. PICK p \in OrNull(Objects) : p = new_state[t]
  BY DEF OrderInv, OwnerInv, TypeOK
<1>2. /\ \A u \in Threads : new_state'[u] = IF u = t THEN NULL ELSE new_state[u]
      /\ \A u \in Threads : garbage'[u] = IF u = t THEN bins["PENDING"] ELSE garbage[u]
      /\ bins'["STATE"] = bins["STATE"] /\ bins'["PENDING"] = p /\ bins'["GARBAGE"] = bins["GARBAGE"]
      /\ published' = Append(published, p) /\ fate' = fate
      /\ published \in Seq(OrNull(Objects)) /\ n \in Nat
      /\ \A u \in Threads : pc'[u] \in TakenSteps <=> pc[u] \in TakenSteps
  BY <1>1 DEF OrderInv, OwnerInv, TypeOK, Publish, SwapOut, Swap, Goto, Bins
<1>3. \A o \in Objects : /\ Position(o) \subseteq 1..n
                         /\ \A i : i \in Position(o)' <=> i \in Position(o) \/ (o = p /\ i = n + 1)
  BY <1>2, AppendPosition
<1>4. /\ p # NULL => p \in Objects /\ Position(p) = {} /\ fate[p] # "fresh"
      /\ p # NULL => \A b \in Bins : bins[b] # p
      /\ p # NULL => \A u \in Threads : (u # t => new_state[u] # p) /\ garbage[u] # p
  BY <1>1 DEF OrderInv, OwnerInv, TypeOK, OrNull, OneOwner, InHandIsHanded, Ranked, Marks
<1>5. /\ \A b \in Bins : bins[b] # NULL => bins[b] \in Objects
      /\ \A u \in Threads : /\ new_state[u] # NULL => new_state[u] \in Objects
                            /\ garbage[u] # NULL => garbage[u] \in Objects
  BY DEF OrderInv, OwnerInv, TypeOK, OrNull
<1> HIDE DEF n
<1>6. Once'
  <2>1. ASSUME NEW i \in DOMAIN published', NEW j \in DOMAIN published',
               published'[i] # NULL, published'[i] = published'[j]
        PROVE  i = j
    <3>1. \A k \in 1..n : published'[k] = published[k]
      BY <1>2 DEF n
    <3>2. published'[n + 1] = p /\ DOMAIN published' = 1..(n + 1)
      BY <1>2 DEF n
    <3>3. p # NULL => \A k \in 1..n : published[k] # p
      BY <1>2, <1>4 DEF Position, n
    <3>4. DOMAIN published = 1..n
      BY <1>2 DEF n
    <3> QED BY <1>2, <2>1, <3>1, <3>2, <3>3, <3>4 DEF OrderInv, Ranked, Once
  <2>2. ASSUME NEW o \in Objects, fate'[o] = "fresh" PROVE Position(o)' = {}
    BY <1>2, <1>3, <1>4, <2>2, NullAssumption DEF OrderInv, Ranked, Once
  <2>3. ASSUME NEW b \in Bins, bins'[b] # NULL PROVE Position(bins[b])' # {}
    <3>1. PICK o \in Objects : o = bins'[b]
      BY <1>2, <1>4, <1>5, <2>3 DEF Bins
    <3>2. o = p \/ Position(o) # {}
      BY <1>2, <3>1, NullAssumption DEF OrderInv, Ranked, Once, Bins
    <3>3. Position(o)' # {}
      BY <1>3, <3>2
    <3> QED BY <3>1, <3>3 DEF Position
  <2> QED BY <2>1, <2>2, <2>3 DEF Once
<1>7. Marks'
  <2> SUFFICES ASSUME NEW u \in Threads
               PROVE  IF pc'[u] \in TakenSteps
                      THEN new_state'[u] # NULL /\ Position(new_state[u])' # {}
                      ELSE new_state'[u] # NULL => Position(new_state[u])' = {}
    BY DEF Marks
  <2>1. CASE u = t
    BY <1>2, <2>1
  <2>2. CASE u # t /\ new_state[u] # NULL
    <3>1. PICK o \in Objects : o = new_state[u]
      BY <1>5, <2>2
    <3>2. Position(o)' = Position(o)
      BY <1>3, <1>4, <2>2, <3>1, NullAssumption
    <3>3. Position(new_state[u])' = Position(new_state[u])
      BY <1>2, <2>2, <3>1, <3>2 DEF Position
    <3> QED BY <1>2, <2>2, <3>3 DEF OrderInv, Ranked, Marks
  <2>3. CASE u # t /\ new_state[u] = NULL
    BY <1>2, <2>3 DEF OrderInv, Ranked, Marks
  <2> QED BY <2>1, <2>2, <2>3
<1>8. OldGarbage'
  <2>1. ASSUME NEW o \in Objects, Position(o) # {}
        PROVE  \E i \in Position(o)' : i < Len(published')
    <3>1. PICK i \in Position(o) : i \in 1..n
      BY <1>3, <2>1
    <3>2. i \in Position(o)' /\ Len(published') = n + 1
      BY <1>2, <1>3, <3>1 DEF n
    <3> QED BY <1>2, <3>1, <3>2
  <2>2. ASSUME NEW u \in Threads, garbage'[u] # NULL PROVE Superseded(garbage[u])'
    <3>1. PICK o \in Objects : o = garbage'[u] /\ Position(o) # {}
      BY <1>2, <1>5, <2>2 DEF OrderInv, Ranked, Once, OldGarbage, Superseded, Bins
    <3> QED BY <2>1, <3>1 DEF Superseded, Position
  <2>3. ASSUME bins'["GARBAGE"] # NULL PROVE Superseded(bins["GARBAGE"])'
    <3>1. PICK o \in Objects : o = bins'["GARBAGE"] /\ Position(o) # {}
      BY <1>2, <1>5, <2>3 DEF OrderInv, Ranked, Once, Bins
    <3> QED BY <2>1, <3>1 DEF Superseded, Position
  <2> QED BY <2>2, <2>3 DEF OldGarbage
<1>9. InOrder'
  <2>1. ASSUME NEW o \in Objects, o # p, p # NULL
        PROVE  \A i \in Position(o)', j \in Position(p)' : i < j
    <3>1. Position(o)' \subseteq 1..n /\ Position(p)' \subseteq {n + 1}
      BY <1>3, <1>4, <2>1
    <3> QED BY <1>2, <3>1
  <2>2. ASSUME bins'["STATE"] # NULL, bins'["PENDING"] # NULL
        PROVE  Before(bins["STATE"], bins["PENDING"])'
    <3>1. PICK o \in Objects : o = bins'["STATE"] /\ o # p
      BY <1>2, <1>4, <1>5, <2>2 DEF Bins
    <3> QED BY <1>2, <2>1, <2>2, <3>1 DEF Before, Position
  <2>3. ASSUME NEW u \in Threads, new_state'[u] # NULL, bins'["PENDING"] # NULL
        PROVE  Before(new_state[u], bins["PENDING"])'
    <3>1. PICK o \in Objects : o = new_state'[u] /\ o # p
      BY <1>2, <1>4, <1>5, <2>3
    <3> QED BY <1>2, <2>1, <2>3, <3>1 DEF Before, Position
  <2>4. ASSUME NEW u \in Threads, new_state'[u] # NULL, bins'["STATE"] # NULL
        PROVE  Before(bins["STATE"], new_state[u])'
    <3>1. PICK o \in Objects, q \in Objects :
            /\ o = bins'["STATE"] /\ q = new_state'[u] /\ o = bins["STATE"] /\ q = new_state[u]
            /\ o # p \/ p = NULL
            /\ q # p \/ p = NULL
      BY <1>2, <1>4, <1>5, <2>4 DEF Bins
    <3>2. Position(o)' = Position(o) /\ Position(q)' = Position(q)
      BY <1>3, <3>1, NullAssumption
    <3>3. \A i \in Position(o), j \in Position(q) : i < j
      BY <3>1, NullAssumption DEF OrderInv, Ranked, InOrder, Before
    <3>4. \A i \in Position(o)', j \in Position(q)' : i < j
      BY <3>2, <3>3
    <3> QED BY <3>1, <3>4 DEF Before, Position
  <2> QED BY <2>2, <2>3, <2>4 DEF InOrder
<1> QED BY <1>6, <1>7, <1>8, <1>9 DEF Ranked

(* The consumer takes what is pending.                                     *)
LEMMA TakeRanked ==
    ASSUME OrderInv, NEW t \in Threads, NEW from \in TakingSteps, NEW none, NEW some \in TakenSteps,
           none \notin TakenSteps, TakePending(t, from, none, some)
    PROVE  Ranked'
<1>1. /\ \A u \in Threads : new_state'[u] = IF u = t THEN bins["PENDING"] ELSE new_state[u]
      /\ bins'["STATE"] = bins["STATE"] /\ bins'["PENDING"] = NULL /\ bins'["GARBAGE"] = bins["GARBAGE"]
      /\ UNCHANGED <<garbage, fate, published>>
  BY DEF OrderInv, OwnerInv, TypeOK, TakePending, Swap, Bins
<1>2. /\ \A u \in Threads \ {t} : pc'[u] = pc[u]
      /\ pc'[t] \in TakenSteps <=> bins["PENDING"] # NULL
  BY DEF OrderInv, OwnerInv, TypeOK, TakePending, Goto
<1>3. Once' /\ OldGarbage'
  BY <1>1 DEF OrderInv, Ranked, Once, OldGarbage, Superseded, Position, Bins
<1>4. Marks'
  BY <1>1, <1>2 DEF OrderInv, Ranked, Once, Marks, Position, Bins
<1>5. InOrder'
  BY <1>1 DEF OrderInv, Ranked, InOrder, Before, Position
<1> QED BY <1>3, <1>4, <1>5 DEF Ranked

(* What the consumer has taken becomes current.  Nobody else has taken a state. *)
LEMMA InstallRanked ==
    ASSUME OnlyConsumer, OrderInv, NEW t \in Threads, NEW from \in TakenSteps, NEW retire,
           retire \notin TakenSteps, InstallState(t, from, retire)
    PROVE  Ranked'
<1>1. /\ \A u \in Threads : new_state'[u] = IF u = t THEN NULL ELSE new_state[u]
      /\ \A u \in Threads : garbage'[u] = IF u = t THEN bins["STATE"] ELSE garbage[u]
      /\ bins'["STATE"] = new_state[t] /\ bins'["PENDING"] = bins["PENDING"]
      /\ bins'["GARBAGE"] = bins["GARBAGE"] /\ UNCHANGED <<fate, published>>
  BY DEF OrderInv, OwnerInv, TypeOK, InstallState, SwapOut, Swap, Bins
<1>2. /\ pc[t] \in TakenSteps /\ \A u \in Threads \ {t} : pc[u] \notin TakenSteps
      /\ \A u \in Threads : pc'[u] \notin TakenSteps
  <2>1. pc[t] = from /\ t \in Consumers
    BY DEF InstallState, OrderInv, Roles
  <2>2. \A u \in Threads \ {t} : pc[u] \notin TakenSteps
    BY <2>1 DEF OrderInv, Roles, OnlyConsumer
  <2>3. \A u \in Threads : pc'[u] = IF u = t THEN IF bins["STATE"] = NULL THEN "idle" ELSE retire ELSE pc[u]
    BY DEF OrderInv, OwnerInv, TypeOK, InstallState, SwapOut, Goto
  <2> QED BY <2>1, <2>2, <2>3 DEF TakenSteps
<1>3. new_state[t] # NULL /\ Position(new_state[t]) # {}
      /\ \A u \in Threads \ {t} : new_state[u] # NULL => Position(new_state[u]) = {}
  BY <1>2 DEF OrderInv, Ranked, Marks
<1>4. Once'
  BY <1>1, <1>3 DEF OrderInv, Ranked, Once, Position, Bins
<1>5. Marks'
  BY <1>1, <1>2, <1>3 DEF Marks, Position
<1>6. bins["STATE"] # NULL => Superseded(bins["STATE"])
  <2> SUFFICES ASSUME bins["STATE"] # NULL PROVE Superseded(bins["STATE"])
    OBVIOUS
  <2>1. PICK i \in Position(bins["STATE"]), j \in Position(new_state[t]) : i < j
    BY <1>3 DEF OrderInv, Ranked, Once, InOrder, Before, Bins
  <2>2. i \in Nat /\ j \in Nat /\ j <= Len(published) /\ Len(published) \in Nat
    BY DEF Position, OrderInv, OwnerInv, TypeOK
  <2> QED BY <2>1, <2>2 DEF Superseded
<1>7. OldGarbage'
  BY <1>1, <1>6 DEF OrderInv, Ranked, OldGarbage, Superseded, Position
<1>8. InOrder'
  BY <1>1, <1>3 DEF OrderInv, Ranked, InOrder, Before, Position
<1> QED BY <1>4, <1>5, <1>7, <1>8 DEF Ranked

LEMMA ClearRanked ==
    ASSUME OrderInv, ClearBins
    PROVE  Ranked'
<1>1. \A b \in Bins : bins'[b] = NULL
  BY DEF ClearBins
<1>2. \A o \in Objects : fate'[o] = "fresh" => fate[o] = "fresh"
  BY DEF ClearBins, AfterCleanup
<1>3. UNCHANGED <<pc, new_state, garbage, published>>
  BY DEF ClearBins
<1> QED BY <1>1, <1>2, <1>3
        DEF OrderInv, Ranked, Once, Marks, OldGarbage, InOrder, Superseded, Before, Position, Bins

-----------------------------------------------------------------------------
(* The invariant.                                                          *)

LEMMA InitOrder == Init => OrderInv
  BY InitOwner, NullAssumption
  DEF Init, OrderInv, Roles, TakenSteps, TakingSteps, Ranked, Once, Marks, OldGarbage, InOrder,
      Position, Bins

LEMMA NextOrder ==
    ASSUME OnlyConsumer, OrderInv, [Next]_vars
    PROVE  OrderInv'
<1> SUFFICES Ranked'
  BY NextOwner, RolesNext DEF OrderInv, OwnerInv
<1>t. OrderInv /\ pc \in [Threads -> Steps] /\ garbage \in [Threads -> OrNull(Objects)]
      /\ bins \in [Bins -> OrNull(Objects)]
  BY DEF OrderInv, OwnerInv, TypeOK
<1>1. ASSUME NEW t \in Threads, pc[t] = "idle", NEW cleanup, NEW skip, {cleanup, skip} \cap TakenSteps = {},
             SwapOut(t, "GARBAGE", NULL, cleanup, skip), UNCHANGED <<new_state, fate, published>>
      PROVE  Ranked'
  BY <1>t, <1>1, GarbageRanked DEF SwapOut, Swap, Goto, TakenSteps
<1>2. ASSUME NEW t \in Threads, NEW from, from \notin TakenSteps, StoreGarbage(t, from),
             UNCHANGED <<new_state, fate, published>>
      PROVE  Ranked'
  BY <1>t, <1>2, GarbageRanked DEF StoreGarbage, Swap, Goto, TakenSteps
<1>3. ASSUME NEW t \in Threads, NEW from, from \notin TakenSteps, LoadState(t, from) PROVE Ranked'
  BY <1>t, <1>3, QuietRanked DEF LoadState, Goto, cell, TakenSteps
<1>4. ASSUME NEW t \in Threads, GcStep(t) PROVE Ranked'
  <2>1. CASE GcSwapGarbage(t)
    BY <1>1, <2>1 DEF GcSwapGarbage, TakenSteps
  <2> QED BY <1>t, <1>4, <2>1, CleanupRanked DEF GcStep, GcCleanup, TakenSteps
<1>5. ASSUME NEW t \in Threads, PushStep(t) PROVE Ranked'
  <2>1. CASE PushSwapPending(t)
    BY <1>t, <2>1, PublishRanked DEF PushSwapPending, TakenSteps
  <2> QED BY <1>t, <1>5, <2>1, PushStartRanked, CleanupRanked
          DEF PushStep, PushCleanup, PushCleanupPending, TakenSteps
<1>6. ASSUME NEW t \in Threads, PullStep(t) PROVE Ranked'
  <2>1. CASE PullSwapGarbage(t)
    BY <1>1, <2>1 DEF PullSwapGarbage, TakenSteps
  <2>2. CASE PullSwapPending(t)
    BY <1>t, <2>2, TakeRanked DEF PullSwapPending, TakenSteps, TakingSteps
  <2>3. CASE PullSwapState(t)
    BY <1>t, <2>3, InstallRanked DEF PullSwapState, TakenSteps
  <2>4. CASE PullLoadState(t)
    BY <1>3, <2>4 DEF PullLoadState, TakenSteps
  <2>5. CASE PullCleanup(t) \/ PullCleanupState(t)
    BY <1>t, <2>5, CleanupRanked DEF PullCleanup, PullCleanupState, TakenSteps
  <2> QED BY <1>6, <2>1, <2>2, <2>3, <2>4, <2>5 DEF PullStep
<1>7. ASSUME NEW t \in Threads, GetStep(t) PROVE Ranked'
  <2>1. CASE GetLoadGarbage(t)
    BY <1>t, <2>1, QuietRanked DEF GetLoadGarbage, Goto, cell, TakenSteps
  <2>2. CASE GetSwapPending(t)
    BY <1>t, <2>2, TakeRanked DEF GetSwapPending, TakenSteps, TakingSteps
  <2>3. CASE GetSwapState(t)
    BY <1>t, <2>3, InstallRanked DEF GetSwapState, TakenSteps
  <2>4. CASE GetLoadState(t)
    BY <1>3, <2>4 DEF GetLoadState, TakenSteps
  <2>5. CASE GetSwapGarbage(t)
    BY <1>2, <2>5 DEF GetSwapGarbage, TakenSteps
  <2> QED BY <1>7, <2>1, <2>2, <2>3, <2>4, <2>5 DEF GetStep
<1>8. ASSUME NEW t \in Threads, SetStep(t) PROVE Ranked'
  <2>1. CASE SetRefused(t)
    BY <1>t, <2>1, QuietRanked DEF SetRefused, cell
  <2>2. CASE SetLoadGarbage(t)
    <3>1. PICK p \in Fresh : HandOver(t, p)
      BY <2>2 DEF SetLoadGarbage
    <3>2. UNCHANGED <<bins, garbage, published>> /\ pc[t] \notin TakenSteps
          /\ \A u \in Threads : pc'[u] \in TakenSteps <=> pc[u] \in TakenSteps
      BY <1>t, <2>2 DEF SetLoadGarbage, Goto, cell, TakenSteps
    <3> QED BY <1>t, <3>1, <3>2, HandOverRanked
  <2>3. CASE SetSwapPending(t)
    BY <1>t, <2>3, PublishRanked DEF SetSwapPending, TakenSteps
  <2>4. CASE SetSwapGarbage(t)
    BY <1>2, <2>4 DEF SetSwapGarbage, TakenSteps
  <2> QED BY <1>8, <2>1, <2>2, <2>3, <2>4 DEF SetStep
<1>9. ASSUME NEW t \in Threads, Current(t) PROVE Ranked'
  BY <1>3, <1>9 DEF Current, TakenSteps
<1>10. CASE Alone
  <2>1. CASE SetDeleter1 \/ SetDeleter2
    BY <1>t, <2>1, QuietRanked DEF SetDeleter1, SetDeleter2, calls
  <2> QED BY <1>t, <1>10, <2>1, ClearRanked DEF Alone, Clear, Destroy
<1>11. CASE UNCHANGED vars
  BY <1>t, <1>11, QuietRanked DEF vars
<1> QED BY <1>4, <1>5, <1>6, <1>7, <1>8, <1>9, <1>10, <1>11 DEF Next

LEMMA OrderInvariant ==
    ASSUME OnlyConsumer
    PROVE  Spec => []OrderInv
<1>1. OrderInv /\ [Next]_vars => OrderInv'
  BY NextOrder
<1> QED BY <1>1, InitOrder, PTL DEF Spec

-----------------------------------------------------------------------------
(* What a user of the cell can see of a step.                              *)
Unseen == UNCHANGED <<published, Disposed>> /\ bins'["STATE"] = bins["STATE"]

Installs(t) ==
    /\ pc[t] \in TakenSteps /\ bins'["STATE"] = new_state[t]
    /\ UNCHANGED <<fate, published>>

Publishes(t) ==
    /\ pc[t] \notin TakenSteps /\ published' = Append(published, new_state[t])
    /\ bins'["STATE"] = bins["STATE"] /\ UNCHANGED fate

Disposes(t) ==
    /\ fate' = [fate EXCEPT ![garbage[t]] = AfterCleanup(garbage[t])]
    /\ UNCHANGED <<bins, published>>

LEMMA KindsOfSteps ==
    ASSUME TypeOK, [Next]_vars
    PROVE  \/ Unseen
           \/ \E t \in Threads : Installs(t) \/ Publishes(t) \/ Disposes(t)
           \/ ClearBins
<1> DEFINE Kind == Unseen \/ (\E t \in Threads : Installs(t) \/ Publishes(t) \/ Disposes(t)) \/ ClearBins
<1>1. ASSUME UNCHANGED <<fate, published>>, bins'["STATE"] = bins["STATE"] PROVE Unseen
  BY <1>1 DEF Unseen, Disposed
<1>2. ASSUME NEW t \in Threads, NEW from, NEW to, Cleanup(t, from, to) PROVE Disposes(t)
  BY <1>2 DEF Cleanup, cell, Disposes
<1>3. ASSUME NEW t \in Threads, NEW from, LoadState(t, from) PROVE Unseen
  BY <1>1, <1>3 DEF LoadState, cell
<1>4. ASSUME NEW t \in Threads, NEW b \in Bins \ {"STATE"}, NEW p, Swap(b, p), UNCHANGED <<fate, published>>
      PROVE  Unseen
  BY <1>1, <1>4 DEF Swap, TypeOK, Bins
<1>5. ASSUME NEW t \in Threads, NEW from \in TakenSteps, NEW retire, InstallState(t, from, retire)
      PROVE  Installs(t)
  BY <1>5 DEF InstallState, Installs, SwapOut, Swap, TypeOK, Bins
<1>6. ASSUME NEW t \in Threads, NEW p \in Fresh, HandOver(t, p), UNCHANGED published,
             bins'["STATE"] = bins["STATE"]
      PROVE  Unseen
  <2>1. \A o \in Objects : fate'[o] = fate[o] \/ (fate[o] = "fresh" /\ fate'[o] = "handed")
    BY <1>6, NullAssumption DEF HandOver, Fresh
  <2> QED BY <1>6, <2>1 DEF Unseen, Disposed
<1>7. ASSUME NEW t \in Threads, NEW cleanup, NEW skip, pc[t] \notin TakenSteps,
             SwapOut(t, "PENDING", new_state[t], cleanup, skip), Publish(t), UNCHANGED fate
      PROVE  Publishes(t)
  BY <1>7 DEF SwapOut, Swap, Publish, Publishes, TypeOK, Bins
<1>8. ASSUME NEW t \in Threads, GcStep(t) PROVE Kind
  BY <1>2, <1>4, <1>8 DEF GcStep, GcSwapGarbage, GcCleanup, SwapOut, Bins
<1>9. ASSUME NEW t \in Threads, PushStep(t) PROVE Kind
  <2>1. CASE PushSwapGarbage(t)
    <3>1. PICK p \in Fresh : HandOver(t, p)
      BY <2>1 DEF PushSwapGarbage
    <3>2. bins'["STATE"] = bins["STATE"] /\ UNCHANGED published
      BY <2>1 DEF PushSwapGarbage, SwapOut, Swap, TypeOK, Bins
    <3> QED BY <1>6, <3>1, <3>2
  <2>2. CASE PushSwapPending(t)
    BY <1>7, <2>2 DEF PushSwapPending, TakenSteps
  <2> QED BY <1>2, <1>9, <2>1, <2>2 DEF PushStep, PushCleanup, PushCleanupPending
<1>10. ASSUME NEW t \in Threads, PullStep(t) PROVE Kind
  <2>1. CASE PullSwapGarbage(t) \/ PullSwapPending(t)
    BY <1>4, <2>1 DEF PullSwapGarbage, PullSwapPending, TakePending, SwapOut, Bins
  <2>2. CASE PullSwapState(t)
    BY <1>5, <2>2 DEF PullSwapState, TakenSteps
  <2> QED BY <1>2, <1>3, <1>10, <2>1, <2>2 DEF PullStep, PullCleanup, PullLoadState, PullCleanupState
<1>11. ASSUME NEW t \in Threads, GetStep(t) PROVE Kind
  <2>1. CASE GetLoadGarbage(t)
    BY <1>1, <2>1 DEF GetLoadGarbage, cell
  <2>2. CASE GetSwapPending(t) \/ GetSwapGarbage(t)
    BY <1>4, <2>2 DEF GetSwapPending, TakePending, GetSwapGarbage, StoreGarbage, Bins
  <2>3. CASE GetSwapState(t)
    BY <1>5, <2>3 DEF GetSwapState, TakenSteps
  <2> QED BY <1>3, <1>11, <2>1, <2>2, <2>3 DEF GetStep, GetLoadState
<1>12. ASSUME NEW t \in Threads, SetStep(t) PROVE Kind
  <2>1. CASE SetRefused(t)
    BY <1>1, <2>1 DEF SetRefused, cell
  <2>2. CASE SetLoadGarbage(t)
    BY <1>6, <2>2 DEF SetLoadGarbage, cell
  <2>3. CASE SetSwapPending(t)
    BY <1>7, <2>3 DEF SetSwapPending, TakenSteps
  <2>4. CASE SetSwapGarbage(t)
    BY <1>4, <2>4 DEF SetSwapGarbage, StoreGarbage, Bins
  <2> QED BY <1>12, <2>1, <2>2, <2>3, <2>4 DEF SetStep
<1>13. CASE Alone
  BY <1>1, <1>13 DEF Alone, Clear, Destroy, SetDeleter1, SetDeleter2
<1>14. CASE UNCHANGED vars
  BY <1>1, <1>14 DEF vars
<1> QED BY <1>3, <1>8, <1>9, <1>10, <1>11, <1>12, <1>13, <1>14 DEF Next, Current

(* No interleaving of one consumer with any producers and collectors lets a
   state come back that a newer one has replaced.                          *)
THEOREM NoStateComesBack ==
    ASSUME OnlyConsumer
    PROVE  Spec => StateMovesForward
<1> DEFINE Forward ==
        \A o, n \in Objects :
          bins["STATE"] = o /\ bins'["STATE"] = n /\ o # n
              => \A i \in Position(o), j \in Position(n) : i < j
<1>1. ASSUME OrderInv, [Next]_vars PROVE Forward
  <2> SUFFICES ASSUME NEW o \in Objects, NEW n \in Objects,
                      bins["STATE"] = o, bins'["STATE"] = n, o # n
               PROVE  \A i \in Position(o), j \in Position(n) : i < j
    OBVIOUS
  <2>1. PICK t \in Threads : Installs(t)
    <3>1. ~Unseen /\ ~ClearBins /\ \A t \in Threads : ~Publishes(t) /\ ~Disposes(t)
      BY NullAssumption DEF Unseen, ClearBins, Publishes, Disposes, Bins
    <3> QED BY <1>1, <3>1, KindsOfSteps DEF OrderInv, OwnerInv
  <2>2. new_state[t] = n
    BY <2>1 DEF Installs
  <2> QED BY <1>1, <2>2, NullAssumption DEF OrderInv, Ranked, InOrder, Before
<1>2. OrderInv /\ [Next]_vars => [Forward]_vars
  BY <1>1
<1> QED BY <1>2, OrderInvariant, PTL DEF Spec, StateMovesForward

-----------------------------------------------------------------------------
(* The refinement.                                                         *)

LEMMA IndexOf ==
    ASSUME NEW s, NEW o, NEW i \in DOMAIN s, s[i] = o, \A j \in DOMAIN s : s[j] = o => j = i
    PROVE  (CHOOSE k \in DOMAIN s : s[k] = o) = i
  OBVIOUS

LEMMA CurrentIsIndex ==
    ASSUME OrderInv, bins["STATE"] # NULL
    PROVE  /\ CurrentIndex \in DOMAIN published /\ published[CurrentIndex] = bins["STATE"]
           /\ \A i \in DOMAIN published : published[i] = bins["STATE"] => i = CurrentIndex
<1>1. PICK i \in DOMAIN published : published[i] = bins["STATE"]
  BY DEF OrderInv, Ranked, Once, Position, Bins
<1>2. \A j \in DOMAIN published : published[j] = bins["STATE"] => j = i
  BY <1>1 DEF OrderInv, Ranked, Once
<1>3. CurrentIndex = i
  BY <1>1, <1>2, IndexOf DEF CurrentIndex
<1> QED BY <1>1, <1>2, <1>3

LEMMA UnseenStep == ASSUME Unseen PROVE UNCHANGED Promise!vars
  BY DEF Unseen, Promise!vars, CurrentIndex

LEMMA PublishStep ==
    ASSUME OrderInv, NEW t \in Threads, Publishes(t)
    PROVE  Promise!Next
<1>1. PICK p \in Objects \cup {NULL} : p = new_state[t]
  BY DEF OrderInv, OwnerInv, TypeOK, OrNull
<1>2. published \in Seq(OrNull(Objects)) /\ published' = Append(published, p)
      /\ bins'["STATE"] = bins["STATE"] /\ Disposed' = Disposed
  BY <1>1 DEF OrderInv, OwnerInv, TypeOK, Publishes, Disposed
<1>3. p # NULL => /\ \A i \in DOMAIN published : published[i] # p
                  /\ bins["STATE"] # p
  BY <1>1 DEF Publishes, OrderInv, OwnerInv, OneOwner, Ranked, Marks, Position, Bins
<1>4. CurrentIndex' = CurrentIndex
  <2>1. CASE bins["STATE"] = NULL
    BY <1>2, <2>1 DEF CurrentIndex
  <2>2. CASE bins["STATE"] # NULL
    <3>1. PICK i \in DOMAIN published :
            /\ i = CurrentIndex /\ published[i] = bins["STATE"]
            /\ \A j \in DOMAIN published : published[j] = bins["STATE"] => j = i
      BY <2>2, CurrentIsIndex
    <3>2. i \in DOMAIN published' /\ published'[i] = bins'["STATE"]
      BY <1>1, <1>2, <3>1
    <3>3. \A j \in DOMAIN published' : published'[j] = bins'["STATE"] => j = i
      <4>1. \A j \in DOMAIN published' :
                \/ j \in DOMAIN published /\ published'[j] = published[j]
                \/ published'[j] = p
        BY <1>1, <1>2
      <4> QED BY <1>2, <1>3, <2>2, <3>1, <4>1
    <3>4. (CHOOSE k \in DOMAIN published' : published'[k] = bins'["STATE"]) = i
      BY <3>2, <3>3, IndexOf
    <3> QED BY <1>2, <2>2, <3>1, <3>4 DEF CurrentIndex
  <2> QED BY <2>1, <2>2
<1>5. Promise!Publish(p)
  BY <1>2, <1>3, <1>4 DEF Promise!Publish
<1> QED BY <1>1, <1>5 DEF Promise!Next

LEMMA AdvanceStep ==
    ASSUME OrderInv, NEW t \in Threads, Installs(t)
    PROVE  Promise!Next
<1>1. PICK o \in Objects : o = new_state[t] /\ Position(o) # {}
  BY DEF Installs, OrderInv, OwnerInv, TypeOK, OrNull, Ranked, Marks
<1>2. PICK j \in DOMAIN published : published[j] = o
  BY <1>1 DEF Position
<1>3. \A k \in DOMAIN published : published[k] = o => k = j
  BY <1>2, NullAssumption DEF OrderInv, Ranked, Once
<1>4. bins'["STATE"] = o /\ UNCHANGED <<published, Disposed>> /\ o # NULL
  BY <1>1, NullAssumption DEF Installs, Disposed
<1>5. CurrentIndex' = j
  BY <1>2, <1>3, <1>4, IndexOf DEF CurrentIndex
<1>6. j \in Nat /\ j > 0
  BY DEF OrderInv, OwnerInv, TypeOK
<1>7. CurrentIndex < j
  <2>1. CASE bins["STATE"] = NULL
    BY <1>6, <2>1 DEF CurrentIndex
  <2>2. CASE bins["STATE"] # NULL
    <3>1. CurrentIndex \in Position(bins["STATE"]) /\ j \in Position(o)
      BY <1>2, <2>2, CurrentIsIndex DEF Position
    <3> QED BY <1>1, <1>4, <2>2, <3>1 DEF OrderInv, Ranked, InOrder, Before
  <2> QED BY <2>1, <2>2
<1>8. o \notin Disposed
  BY <1>1, <1>4 DEF OrderInv, OwnerInv, InHandIsHanded, Disposed
<1>9. Promise!Advance(j)
  BY <1>2, <1>4, <1>5, <1>7, <1>8 DEF Promise!Advance
<1> QED BY <1>9 DEF Promise!Next

LEMMA DisposeStep ==
    ASSUME OrderInv, UnionIsTagged, NEW t \in Threads, Disposes(t)
    PROVE  [Promise!Next]_(Promise!vars)
<1>1. CASE garbage[t] = NULL
  <2>1. fate' = fate
    BY <1>1, NullAssumption DEF Disposes, OrderInv, OwnerInv, TypeOK
  <2>2. Unseen
    BY <2>1 DEF Disposes, Unseen, Disposed
  <2> QED BY <2>2, UnseenStep
<1>2. CASE garbage[t] # NULL
  <2>1. PICK o \in Objects, i \in DOMAIN published :
            o = garbage[t] /\ published[i] = o /\ i < Len(published)
    BY <1>2 DEF OrderInv, OwnerInv, TypeOK, OrNull, Ranked, OldGarbage, Superseded, Position
  <2>2. fate[o] = "handed" /\ bins["STATE"] # o
    BY <1>2, <2>1, NullAssumption DEF OrderInv, OwnerInv, InHandIsHanded, OneOwner, Bins
  <2>3. fate' = [fate EXCEPT ![o] = AfterCleanup(o)] /\ AfterCleanup(o) \in {"deleted", "forgotten"}
    BY <2>1, <2>2 DEF Disposes, AfterCleanup, UnionIsTagged
  <2>4. Disposed' = Disposed \cup {o} /\ o \notin Disposed
    BY <2>2, <2>3 DEF Disposed, OrderInv, OwnerInv, TypeOK
  <2>5. UNCHANGED <<published, CurrentIndex>>
    BY DEF Disposes, CurrentIndex
  <2>6. i # CurrentIndex
    <3>1. CASE bins["STATE"] = NULL
      BY <3>1 DEF CurrentIndex, OrderInv, OwnerInv, TypeOK
    <3>2. CASE bins["STATE"] # NULL
      BY <2>1, <2>2, <3>2, CurrentIsIndex
    <3> QED BY <3>1, <3>2
  <2>7. Promise!Dispose(i)
    BY <2>1, <2>4, <2>5, <2>6, NullAssumption DEF Promise!Dispose
  <2> QED BY <2>7 DEF Promise!Next
<1> QED BY <1>1, <1>2

(* clear() and destroy(): as nothing has leaked, they dispose of all there is. *)
LEMMA ClearStep ==
    ASSUME OrderInv, LeakInv, UnionIsTagged, ClearBins
    PROVE  Promise!Next
<1>1. UNCHANGED published /\ CurrentIndex' = 0
  BY DEF ClearBins, CurrentIndex, Bins
<1>2. \A o \in Objects : Position(o) # {} =>
        fate[o] \in {"deleted", "forgotten"} \/ \E b \in Bins : bins[b] = o
  <2>1. \A t \in Threads : new_state[t] = NULL /\ garbage[t] = NULL
    BY DEF ClearBins, Quiescent, LeakInv, LocalsLive, NewSteps, GarbageSteps
  <2>2. ASSUME NEW o \in Objects, Position(o) # {}
        PROVE  fate[o] \in {"deleted", "forgotten", "handed"}
    BY <2>2 DEF OrderInv, OwnerInv, TypeOK, Fates, NoDoubleDelete, Ranked, Once, UnionIsTagged
  <2> QED BY <2>1, <2>2, NullAssumption DEF LeakInv, NoLeak, Somewhere
<1>3. \A b \in Bins : bins[b] # NULL => /\ bins[b] \in Objects /\ fate[bins[b]] = "handed"
                                       /\ Position(bins[b]) # {}
  BY DEF OrderInv, OwnerInv, TypeOK, OrNull, InHandIsHanded, Ranked, Once
<1>4. ASSUME NEW o \in Objects
      PROVE  fate'[o] \in {"deleted", "forgotten"} <=>
               fate[o] \in {"deleted", "forgotten"} \/ \E b \in Bins : bins[b] = o
  BY <1>3, NullAssumption DEF ClearBins, AfterCleanup, UnionIsTagged
<1>5. \A i \in DOMAIN published : published[i] # NULL => published[i] \in Objects
  BY DEF OrderInv, OwnerInv, TypeOK, OrNull
<1>6. Disposed' = Disposed \cup ({published[i] : i \in DOMAIN published} \ {NULL})
  BY <1>2, <1>3, <1>4, <1>5, NullAssumption DEF Disposed, Position
<1>7. Promise!Clear
  BY <1>1, <1>6 DEF Promise!Clear
<1> QED BY <1>7 DEF Promise!Next

(* One consumer and one thread that retires states, with any number of pushers
   and collectors: whatever their calls do to the three bins, what they see is
   a sequence of publications through which one current state moves forward,
   and each object is disposed of once, when it is not current and something
   newer was published; as long as no deleter of two arguments is NULL.    *)
THEOREM StateKeepsPromise ==
    ASSUME OnlyConsumer, OneRetirer, ~NullDeleter
    PROVE  Spec => KeepsPromise
<1>1. Init => Promise!Init
  BY DEF Init, Promise!Init, CurrentIndex, Disposed, Bins
<1>2. OrderInv /\ LeakInv /\ UnionIsTagged /\ [Next]_vars => [Promise!Next]_(Promise!vars)
  BY KindsOfSteps, UnseenStep, PublishStep, AdvanceStep, DisposeStep, ClearStep DEF OrderInv, OwnerInv
<1>3. LeakInv /\ [Next]_vars => LeakInv'
  BY NextOwner, LocalsAndWindow, NothingLost DEF LeakInv
<1>4. Init => UnionIsTagged
  BY InitUnion
<1>5. TypeOK /\ UnionIsTagged /\ [Next]_vars => UnionIsTagged'
  BY NextUnion
<1> QED BY TypeCorrect, <1>1, <1>2, <1>3, <1>4, <1>5, InitLeak, OrderInvariant, PTL DEF Spec, KeepsPromise, Promise!Spec
=============================================================================
