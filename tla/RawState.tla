------------------------------ MODULE RawState ------------------------------
(***************************************************************************)
(* lltl::raw_state, src/main/state.cpp: a lock-free cell that carries      *)
(* objects from the threads that produce them to the thread that uses the  *)
(* current one.  Three bins, each changed by one atomic exchange; one      *)
(* action here is one atomic access (or one deleter call), so every        *)
(* interleaving of the calls of several threads is a behaviour.            *)
(*                                                                         *)
(* Who may call what is a constant, because the header's promises depend   *)
(* on it: push() goes with get(), set() goes with pull().                  *)
(***************************************************************************)
EXTENDS Integers, Sequences

CONSTANTS
    Threads,        \* threads that share the cell
    Objects,        \* objects the application allocates, each handed over once
    NULL,           \* the null pointer
    Pushers,        \* threads that call push()
    Setters,        \* threads that call set()
    Pullers,        \* threads that call pull()
    Getters,        \* threads that call get()
    Collectors,     \* threads that call gc()
    Observers,      \* threads that call current()
    NullDeleter,    \* clients set a two-argument deleter that is NULL
    MaxPublished    \* bound: how many times PENDING is written before producers stop

ASSUME NullAssumption == NULL \notin Objects
ASSUME DeleterAssumption == NULL \notin {"deleter1", "deleter2", "params"}
ASSUME NullDeleterAssumption == NullDeleter \in BOOLEAN
ASSUME CallersAssumption ==
    Pushers \cup Setters \cup Pullers \cup Getters \cup Collectors \cup Observers
        \subseteq Threads

VARIABLES
    bins,           \* bins[B_TOTAL]
    deleter2,       \* the two-argument deleter, or NULL
    slot,           \* the union { deleter1; params }
    pc,             \* next atomic step of the call a thread is in
    new_state,      \* object owned by a call on its way into a bin
    garbage,        \* object taken out of a bin by a call, not passed on yet
    held,           \* pointer that pull(), get() or current() returned last
    accepted,       \* answer of the last set()
    fate,           \* history: what has happened to each object
    published       \* history: what was exchanged into PENDING, in order

cell   == <<bins, deleter2, slot>>
calls  == <<pc, new_state, garbage, held, accepted>>
vars   == <<bins, deleter2, slot, pc, new_state, garbage, held, accepted,
            fate, published>>

Bins == {"PENDING", "STATE", "GARBAGE"}

OrNull(S) == S \cup {NULL}

Steps == {"idle", "gc_cleanup",
          "push_cleanup", "push_swap_pending", "push_cleanup_pending",
          "pull_cleanup", "pull_swap_pending", "pull_load_state",
          "pull_swap_state", "pull_cleanup_state",
          "get_swap_pending", "get_load_state", "get_swap_state", "get_swap_garbage",
          "set_swap_pending", "set_swap_garbage"}

Fates == {"fresh", "handed", "deleted", "forgotten", "deleted_twice", "miscalled"}

TypeOK ==
    /\ bins \in [Bins -> OrNull(Objects)]
    /\ deleter2 \in {"deleter2", NULL}
    /\ slot \in {"deleter1", "params", NULL}
    /\ pc \in [Threads -> Steps]
    /\ new_state \in [Threads -> OrNull(Objects)]
    /\ garbage \in [Threads -> OrNull(Objects)]
    /\ held \in [Threads -> OrNull(Objects)]
    /\ accepted \in [Threads -> BOOLEAN]
    /\ fate \in [Objects -> Fates]
    /\ published \in Seq(OrNull(Objects))

(* What a deleter of two arguments and its argument leave in the fields: both are
   stored as they are.  A deleter2 gets whatever argument it was set with, so
   only beside a NULL one does it matter whether that is NULL, too.        *)
Stored2(deleter, arg) ==
    \/ deleter = "deleter2" /\ arg = "params"
    \/ NullDeleter /\ deleter = NULL /\ arg \in {"params", NULL}

(* init(), init(deleter1) and init(deleter2, arg): the three constructors. *)
Init ==
    /\ bins = [b \in Bins |-> NULL]
    /\ \/ deleter2 = NULL /\ slot \in {"deleter1", NULL}
       \/ Stored2(deleter2, slot)
    /\ pc = [t \in Threads |-> "idle"]
    /\ new_state = [t \in Threads |-> NULL]
    /\ garbage = [t \in Threads |-> NULL]
    /\ held = [t \in Threads |-> NULL]
    /\ accepted = [t \in Threads |-> TRUE]
    /\ fate = [o \in Objects |-> "fresh"]
    /\ published = << >>

-----------------------------------------------------------------------------
(* What the steps are made of.                                             *)

(* atomic_swap(&bins[b], p): the old content is bins[b] before the step.   *)
Swap(b, p) == bins' = [bins EXCEPT ![b] = p]

Goto(t, step) == pc' = [pc EXCEPT ![t] = step]

(* atomic_swap(&bins[b], p) whose old content goes to the local garbage of t
   and on to cleanup(), which returns at once when it is NULL.             *)
SwapOut(t, b, p, cleanup, skip) ==
    /\ Swap(b, p)
    /\ garbage' = [garbage EXCEPT ![t] = bins[b]]
    /\ Goto(t, IF bins[b] = NULL THEN skip ELSE cleanup)

(* What cleanup(o) makes of an object: it calls deleter2 if there is one, else
   the union if that is not NULL, be it a function or the argument of a
   deleter2 that was NULL, and else does nothing.                          *)
AfterCleanup(o) ==
    CASE fate[o] # "handed" -> "deleted_twice"
      [] fate[o] = "handed" /\ deleter2 = NULL /\ slot = NULL -> "forgotten"
      [] fate[o] = "handed" /\ deleter2 = NULL /\ slot = "params" -> "miscalled"
      [] OTHER -> "deleted"

Cleanup(t, from, to) ==
    /\ pc[t] = from
    /\ fate' = [fate EXCEPT ![garbage[t]] = AfterCleanup(garbage[t])]
    /\ garbage' = [garbage EXCEPT ![t] = NULL]
    /\ Goto(t, to)
    /\ UNCHANGED <<cell, new_state, held, accepted, published>>

(* return atomic_load(&bins[B_STATE])                                      *)
LoadState(t, from) ==
    /\ pc[t] = from
    /\ held' = [held EXCEPT ![t] = bins["STATE"]]
    /\ Goto(t, "idle")
    /\ UNCHANGED <<cell, new_state, garbage, accepted, fate, published>>

(* What a producer may pass: an object of its own, or NULL to withdraw.    *)
Fresh == {o \in Objects : fate[o] = "fresh"} \cup {NULL}

HandOver(t, p) ==
    /\ new_state' = [new_state EXCEPT ![t] = p]
    /\ fate' = [o \in Objects |-> IF o = p THEN "handed" ELSE fate[o]]

(* atomic_swap(&bins[B_PENDING], new_state): the object is the cell's now. *)
Publish(t) ==
    /\ new_state' = [new_state EXCEPT ![t] = NULL]
    /\ published' = Append(published, new_state[t])

CanPublish == Len(published) < MaxPublished

-----------------------------------------------------------------------------
(* gc()                                                                    *)

(* Mutant: gc() reads the garbage bin without emptying it.                 *)
GcLoadsGarbage(t) ==
    /\ t \in Collectors /\ pc[t] = "idle"
    /\ SwapOut(t, "GARBAGE", bins["GARBAGE"], "gc_cleanup", "idle")
    /\ UNCHANGED <<deleter2, slot, new_state, held, accepted, fate, published>>

(* Mutant: gc() takes the wrong bin.                                       *)
GcTakesState(t) ==
    /\ t \in Collectors /\ pc[t] = "idle"
    /\ SwapOut(t, "STATE", NULL, "gc_cleanup", "idle")
    /\ UNCHANGED <<deleter2, slot, new_state, held, accepted, fate, published>>

GcSwapGarbage(t) ==
    /\ t \in Collectors /\ pc[t] = "idle"
    /\ SwapOut(t, "GARBAGE", NULL, "gc_cleanup", "idle")
    /\ UNCHANGED <<deleter2, slot, new_state, held, accepted, fate, published>>

GcCleanup(t) == Cleanup(t, "gc_cleanup", "idle")

-----------------------------------------------------------------------------
(* push(new_state)                                                         *)

PushSwapGarbage(t) ==
    /\ t \in Pushers /\ pc[t] = "idle" /\ CanPublish
    /\ \E p \in Fresh : HandOver(t, p)
    /\ SwapOut(t, "GARBAGE", NULL, "push_cleanup", "push_swap_pending")
    /\ UNCHANGED <<deleter2, slot, held, accepted, published>>

PushCleanup(t) == Cleanup(t, "push_cleanup", "push_swap_pending")

PushSwapPending(t) ==
    /\ pc[t] = "push_swap_pending"
    /\ SwapOut(t, "PENDING", new_state[t], "push_cleanup_pending", "idle")
    /\ Publish(t)
    /\ UNCHANGED <<deleter2, slot, held, accepted, fate>>

PushCleanupPending(t) == Cleanup(t, "push_cleanup_pending", "idle")

-----------------------------------------------------------------------------
(* pull()                                                                  *)

(* Mutant: pull() does not collect the garbage.                            *)
PullLeavesGarbage(t) ==
    /\ t \in Pullers /\ pc[t] = "idle"
    /\ Goto(t, "pull_swap_pending")
    /\ UNCHANGED <<cell, new_state, garbage, held, accepted, fate, published>>

PullSwapGarbage(t) ==
    /\ t \in Pullers /\ pc[t] = "idle"
    /\ SwapOut(t, "GARBAGE", NULL, "pull_cleanup", "pull_swap_pending")
    /\ UNCHANGED <<deleter2, slot, new_state, held, accepted, fate, published>>

PullCleanup(t) == Cleanup(t, "pull_cleanup", "pull_swap_pending")

(* Mutant: the pending state is read and left where it is.                 *)
TakePendingByLoad(t, from, none, some) ==
    /\ pc[t] = from
    /\ new_state' = [new_state EXCEPT ![t] = bins["PENDING"]]
    /\ Goto(t, IF bins["PENDING"] = NULL THEN none ELSE some)
    /\ UNCHANGED <<cell, garbage, held, accepted, fate, published>>

(* new_state = atomic_swap(&bins[B_PENDING], NULL), in pull() and in get() *)
TakePending(t, from, none, some) ==
    /\ pc[t] = from
    /\ Swap("PENDING", NULL)
    /\ new_state' = [new_state EXCEPT ![t] = bins["PENDING"]]
    /\ Goto(t, IF bins["PENDING"] = NULL THEN none ELSE some)
    /\ UNCHANGED <<deleter2, slot, garbage, held, accepted, fate, published>>

PullSwapPending(t) ==
    TakePending(t, "pull_swap_pending", "pull_load_state", "pull_swap_state")

PullLoadState(t) == LoadState(t, "pull_load_state")

(* Mutant: the call returns the state it has just replaced.                *)
InstallReturnsOld(t, from, retire) ==
    /\ pc[t] = from
    /\ SwapOut(t, "STATE", new_state[t], retire, "idle")
    /\ new_state' = [new_state EXCEPT ![t] = NULL]
    /\ held' = [held EXCEPT ![t] = bins["STATE"]]
    /\ UNCHANGED <<deleter2, slot, accepted, fate, published>>

(* garbage = atomic_swap(&bins[B_STATE], new_state), in pull() and in get();
   the call owns the old state from here, and will return the new one.     *)
InstallState(t, from, retire) ==
    /\ pc[t] = from
    /\ SwapOut(t, "STATE", new_state[t], retire, "idle")
    /\ new_state' = [new_state EXCEPT ![t] = NULL]
    /\ held' = [held EXCEPT ![t] = new_state[t]]
    /\ UNCHANGED <<deleter2, slot, accepted, fate, published>>

PullSwapState(t) == InstallState(t, "pull_swap_state", "pull_cleanup_state")

PullCleanupState(t) == Cleanup(t, "pull_cleanup_state", "idle")

-----------------------------------------------------------------------------
(* get()                                                                   *)

(* Mutant: get() does not check that the garbage bin is empty.             *)
GetIgnoresGarbage(t) ==
    /\ t \in Getters /\ pc[t] = "idle"
    /\ Goto(t, "get_swap_pending")
    /\ UNCHANGED <<cell, new_state, garbage, held, accepted, fate, published>>

(* Mutant: the check of get() is inverted.                                 *)
GetNeedsGarbage(t) ==
    /\ t \in Getters /\ pc[t] = "idle"
    /\ Goto(t, IF bins["GARBAGE"] = NULL THEN "get_load_state" ELSE "get_swap_pending")
    /\ UNCHANGED <<cell, new_state, garbage, held, accepted, fate, published>>

GetLoadGarbage(t) ==
    /\ t \in Getters /\ pc[t] = "idle"
    /\ Goto(t, IF bins["GARBAGE"] # NULL THEN "get_load_state" ELSE "get_swap_pending")
    /\ UNCHANGED <<cell, new_state, garbage, held, accepted, fate, published>>

GetLoadState(t) == LoadState(t, "get_load_state")

GetSwapPending(t) ==
    TakePending(t, "get_swap_pending", "get_load_state", "get_swap_state")

GetSwapState(t) == InstallState(t, "get_swap_state", "get_swap_garbage")

(* Mutant: the replaced state is put back into the pending bin.            *)
StoreInPending(t, from) ==
    /\ pc[t] = from
    /\ Swap("PENDING", garbage[t])
    /\ garbage' = [garbage EXCEPT ![t] = NULL]
    /\ Goto(t, "idle")

(* atomic_swap(&bins[B_GARBAGE], garbage): the old content is not looked at. *)
StoreGarbage(t, from) ==
    /\ pc[t] = from
    /\ Swap("GARBAGE", garbage[t])
    /\ garbage' = [garbage EXCEPT ![t] = NULL]
    /\ Goto(t, "idle")

GetSwapGarbage(t) ==
    /\ StoreGarbage(t, "get_swap_garbage")
    /\ UNCHANGED <<deleter2, slot, new_state, held, accepted, fate, published>>

-----------------------------------------------------------------------------
(* set(new_state)                                                          *)

SetRefused(t) ==
    /\ t \in Setters /\ pc[t] = "idle" /\ CanPublish
    /\ bins["GARBAGE"] # NULL
    /\ accepted' = [accepted EXCEPT ![t] = FALSE]
    /\ UNCHANGED <<cell, pc, new_state, garbage, held, fate, published>>

SetLoadGarbage(t) ==
    /\ t \in Setters /\ pc[t] = "idle" /\ CanPublish
    /\ bins["GARBAGE"] = NULL
    /\ \E p \in Fresh : HandOver(t, p)
    /\ Goto(t, "set_swap_pending")
    /\ UNCHANGED <<cell, garbage, held, accepted, published>>

SetSwapPending(t) ==
    /\ pc[t] = "set_swap_pending"
    /\ SwapOut(t, "PENDING", new_state[t], "set_swap_garbage", "idle")
    /\ Publish(t)
    /\ accepted' = [accepted EXCEPT ![t] = TRUE]
    /\ UNCHANGED <<deleter2, slot, held, fate>>

SetSwapGarbage(t) ==
    /\ StoreGarbage(t, "set_swap_garbage")
    /\ UNCHANGED <<deleter2, slot, new_state, held, accepted, fate, published>>

-----------------------------------------------------------------------------
(* current(), and the calls the header reserves for a moment without       *)
(* concurrent access: clear(), destroy() (flush() in the header) and       *)
(* set_deleter().                                                          *)

Current(t) ==
    /\ t \in Observers
    /\ LoadState(t, "idle")

(* pending()                                                               *)
Pending == bins["PENDING"] # NULL

Quiescent == \A t \in Threads : pc[t] = "idle"

(* After clear() the application must not use a pointer it got before.     *)
ClearBins ==
    /\ Quiescent
    /\ bins' = [b \in Bins |-> NULL]
    /\ fate' = [o \in Objects |->
                    IF \E b \in Bins : bins[b] = o THEN AfterCleanup(o) ELSE fate[o]]
    /\ held' = [t \in Threads |-> NULL]
    /\ UNCHANGED <<pc, new_state, garbage, accepted, published>>

Clear ==
    /\ ClearBins
    /\ UNCHANGED <<deleter2, slot>>

Destroy ==
    /\ ClearBins
    /\ deleter2' = NULL
    /\ slot' = NULL

(* Mutant: set_deleter(deleter1) leaves deleter2 in place.                 *)
SetDeleter1KeepsDeleter2 ==
    /\ Quiescent
    /\ slot' \in {"deleter1", NULL}
    /\ UNCHANGED <<bins, deleter2, calls, fate, published>>

(* Mutant: set_deleter(deleter1) stores the function in the other field.   *)
SetDeleter1WrongField ==
    /\ Quiescent
    /\ deleter2' \in {"deleter1", NULL}
    /\ slot' = NULL
    /\ UNCHANGED <<bins, calls, fate, published>>

SetDeleter1 ==
    /\ Quiescent
    /\ deleter2' = NULL
    /\ slot' \in {"deleter1", NULL}
    /\ UNCHANGED <<bins, calls, fate, published>>

SetDeleter2 ==
    /\ Quiescent
    /\ Stored2(deleter2', slot')
    /\ UNCHANGED <<bins, calls, fate, published>>

-----------------------------------------------------------------------------
GcStep(t)   == GcSwapGarbage(t) \/ GcCleanup(t)
PushStep(t) == PushSwapGarbage(t) \/ PushCleanup(t) \/ PushSwapPending(t)
               \/ PushCleanupPending(t)
PullStep(t) == PullSwapGarbage(t) \/ PullCleanup(t) \/ PullSwapPending(t)
               \/ PullLoadState(t) \/ PullSwapState(t) \/ PullCleanupState(t)
GetStep(t)  == GetLoadGarbage(t) \/ GetLoadState(t) \/ GetSwapPending(t)
               \/ GetSwapState(t) \/ GetSwapGarbage(t)
SetStep(t)  == SetRefused(t) \/ SetLoadGarbage(t) \/ SetSwapPending(t)
               \/ SetSwapGarbage(t)

Alone == Clear \/ Destroy \/ SetDeleter1 \/ SetDeleter2

Next ==
    \/ \E t \in Threads :
          GcStep(t) \/ PushStep(t) \/ PullStep(t) \/ GetStep(t) \/ SetStep(t) \/ Current(t)
    \/ Alone

Spec == Init /\ [][Next]_vars

(* A call that has begun is finished: no step of a call ever waits.  The   *)
(* consumer keeps calling, as the audio thread that owns the loop does; a  *)
(* collector keeps calling gc(); a setter that was refused tries again.    *)
(* Nobody is obliged to push, to set something new or to clear.            *)
Finish(t) == pc[t] # "idle" /\ (GcStep(t) \/ PushStep(t) \/ PullStep(t) \/ GetStep(t) \/ SetStep(t))
Retry(t)  == ~accepted[t] /\ SetStep(t)

Fairness ==
    \A t \in Threads :
        /\ WF_vars(Finish(t))
        /\ WF_vars(PullStep(t))
        /\ WF_vars(GetStep(t))
        /\ WF_vars(GcStep(t))
        /\ WF_vars(Retry(t))

FairSpec == Spec /\ Fairness

-----------------------------------------------------------------------------
(* Properties.                                                             *)

(* No object is in two hands: an object sits in at most one bin, or in the
   locals of at most one call, and never in both.  It is what keeps two
   calls from giving the same object to the deleter, whoever calls what.   *)
OneOwner ==
    /\ \A b, c \in Bins : bins[b] # NULL /\ bins[b] = bins[c] => b = c
    /\ \A t, u \in Threads : new_state[t] # NULL /\ new_state[t] = new_state[u] => t = u
    /\ \A t, u \in Threads : garbage[t] # NULL /\ garbage[t] = garbage[u] => t = u
    /\ \A b \in Bins, t \in Threads : bins[b] # NULL => bins[b] \notin {new_state[t], garbage[t]}
    /\ \A t, u \in Threads : new_state[t] # NULL => new_state[t] # garbage[u]

(* cleanup() never gives an object to the deleter a second time.           *)
NoDoubleDelete == \A o \in Objects : fate[o] # "deleted_twice"

Somewhere(o) ==
    \/ \E b \in Bins : bins[b] = o
    \/ \E t \in Threads : o \in {new_state[t], garbage[t]}

(* An object handed over and not yet deleted is in a bin or in a call that
   will pass it on: the result of the last atomic_swap of get() and set(),
   which nobody looks at, is always NULL.  True while one thread at most
   puts garbage aside.                                                     *)
NoLeak == \A o \in Objects : fate[o] = "handed" => Somewhere(o)

Consumers == Pullers \cup Getters

(* The pointer a consumer got from its last pull(), get() or current() is
   not deleted while it may use it, that is until it calls again.  True
   while the cell has one consumer.                                        *)
ReaderPointerAlive ==
    \A t \in Threads : pc[t] = "idle" /\ held[t] # NULL => fate[held[t]] \notin {"deleted", "miscalled"}

(* The deleter is called with what its signature expects: deleter2 is never
   called with a deleter1 for its argument, and params is never called, in
   whatever order the deleters of both kinds are set.  A client that sets a NULL
   deleter2 with an argument breaks it: the union is then called as a deleter1. *)
UnionIsTagged ==
    /\ deleter2 # NULL => slot # "deleter1"
    /\ deleter2 = NULL => slot # "params"
    /\ \A o \in Objects : fate[o] # "miscalled"

Position(o) == {i \in DOMAIN published : published[i] = o}

(* The current state only moves forward in the order of publication, until
   clear() empties the cell: no interleaving lets a state come back that a
   newer one has replaced.  True while the cell has one consumer.          *)
StateMovesForward ==
    [][\A o, n \in Objects :
          bins["STATE"] = o /\ bins'["STATE"] = n /\ o # n
              => \A i \in Position(o), j \in Position(n) : i < j]_vars

(* The last state pushed does not stay PENDING for ever: the consumer takes
   it, or a producer replaces it.                                          *)
PendingIsTaken ==
    \A o \in Objects : bins["PENDING"] = o ~> bins["PENDING"] # o

(* A producer that set() refused is accepted in the end if it insists.     *)
RefusedSetSucceeds ==
    \A t \in Setters : ~accepted[t] ~> (accepted[t] \/ ~CanPublish)

(* The cell over the promise it makes to its users: each object published
   once, used in order, disposed of once and never under the user's hands. *)
Disposed == {o \in Objects : fate[o] \in {"deleted", "forgotten"}}

CurrentIndex ==
    IF bins["STATE"] = NULL THEN 0
    ELSE CHOOSE i \in DOMAIN published : published[i] = bins["STATE"]

Promise == INSTANCE LatestValue WITH
    current  <- CurrentIndex,
    disposed <- Disposed

KeepsPromise == Promise!Spec
=============================================================================
