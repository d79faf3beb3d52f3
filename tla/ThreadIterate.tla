--------------------------- MODULE ThreadIterate ---------------------------
(***************************************************************************)
(* The parallel iterators of librz/util/thread_iterators.c over the thread *)
(* pool of thread_pool.c.  The caller starts one worker per slot, waits    *)
(* for all of them and frees the context, which lives in its stack frame.  *)
(* A list and a vector are walked in the same way; they differ only in how *)
(* the end is noticed.                                                     *)
(***************************************************************************)
EXTENDS Integers

CONSTANTS
    PoolSize,   \* slots of the pool, the value of rz_th_max_threads
    Length,     \* elements of the list or vector
    Nulls       \* positions that hold NULL

ThreadIterateAssumption ==
    /\ PoolSize \in Nat \ {0} /\ Length \in Nat \ {0}
    /\ Nulls \subseteq 1 .. Length

Threads == 1 .. PoolSize
Elements == 1 .. Length

VARIABLES
    main,      \* the caller: "alloc", "spawn", "wait", "returned"
    slot,      \* the slot it is at
    ok,        \* what it returns
    pc,        \* of each worker: "none" before rz_th_new
    lock,      \* owner of context.lock, 0 for none
    index,     \* context.index, the elements before context.head
    loop,      \* context.loop
    element,   \* the element a worker took, 0 for none
    calls,     \* how often the iterator was called on an element
    late,      \* calls of a worker after loop was cleared
    refused    \* the iterator returned false

vars == <<main, slot, ok, pc, lock, index, loop, element, calls, late, refused>>

Init ==
    /\ main = "alloc" /\ slot = 1 /\ ok = FALSE
    /\ pc = [t \in Threads |-> "none"]
    /\ lock = 0 /\ index = 0 /\ loop = TRUE
    /\ element = [t \in Threads |-> 0]
    /\ calls = [e \in Elements |-> 0]
    /\ late = [t \in Threads |-> 0] /\ refused = FALSE
-----------------------------------------------------------------------------
(* The caller.                                                             *)

\* rz_th_iterate_list: a lock, a flag or a pool that cannot be allocated.
Allocate ==
    /\ main = "alloc"
    /\ main' \in {"spawn", "returned"}
    /\ UNCHANGED <<slot, ok, pc, lock, index, loop, element, calls, late, refused>>

\* The loop of th_run_iterator: a thread that cannot be created leaves no trace.
Spawn ==
    /\ main = "spawn"
    /\ IF slot > PoolSize
       THEN main' = "wait" /\ slot' = 1 /\ UNCHANGED pc
       ELSE /\ pc' \in {pc, [pc EXCEPT ![slot] = "enter"]}
            /\ slot' = slot + 1 /\ UNCHANGED main
    /\ UNCHANGED <<ok, lock, index, loop, element, calls, late, refused>>

\* rz_th_pool_wait joins the threads in order; then all is freed.
Wait ==
    /\ main = "wait"
    /\ IF slot > PoolSize
       THEN main' = "returned" /\ ok' = TRUE /\ UNCHANGED slot
       ELSE pc[slot] \in {"none", "done"} /\ slot' = slot + 1 /\ UNCHANGED <<main, ok>>
    /\ UNCHANGED <<pc, lock, index, loop, element, calls, late, refused>>
-----------------------------------------------------------------------------
(* A worker: thread_iterate_list_cb and thread_iterate_pvec_cb.            *)

Goto(t, label) == pc' = [pc EXCEPT ![t] = label]
Mine == UNCHANGED <<main, slot, ok>>

\* Mutant: the position is not protected by the lock.
Enter_unlocked(t) ==
    /\ pc[t] = "enter"
    /\ lock' = t /\ Goto(t, "take")
    /\ Mine /\ UNCHANGED <<index, loop, element, calls, late, refused>>

\* rz_th_lock_enter.
Enter(t) ==
    /\ pc[t] = "enter" /\ lock = 0
    /\ lock' = t /\ Goto(t, "take")
    /\ Mine /\ UNCHANGED <<index, loop, element, calls, late, refused>>

\* Mutant: the lock is not left at the end.
End_locked(t) ==
    /\ pc[t] = "take" /\ index >= Length
    /\ Goto(t, "done")
    /\ Mine /\ UNCHANGED <<lock, index, loop, element, calls, late, refused>>

\* Nothing is left: the worker leaves the lock and ends.
End(t) ==
    /\ pc[t] = "take" /\ index >= Length
    /\ lock' = 0 /\ Goto(t, "done")
    /\ Mine /\ UNCHANGED <<index, loop, element, calls, late, refused>>

\* The element at the position.
Take(t) ==
    /\ pc[t] = "take" /\ index < Length
    /\ element' = [element EXCEPT ![t] = index + 1]
    /\ Goto(t, "advance")
    /\ Mine /\ UNCHANGED <<lock, index, loop, calls, late, refused>>

\* The next position, and rz_th_lock_leave.
Advance(t) ==
    /\ pc[t] = "advance"
    /\ index' = index + 1 /\ lock' = 0 /\ Goto(t, "call")
    /\ Mine /\ UNCHANGED <<loop, element, calls, late, refused>>

\* The iterator on the element, unless that is NULL, and what it answers.
Call(t) ==
    /\ pc[t] = "call"
    /\ element' = [element EXCEPT ![t] = 0]
    /\ IF element[t] \in Nulls
       THEN Goto(t, "test") /\ UNCHANGED <<loop, calls, late, refused>>
       ELSE /\ calls' = [calls EXCEPT ![element[t]] = @ + 1]
            /\ late' = IF loop THEN late ELSE [late EXCEPT ![t] = @ + 1]
            /\ \/ Goto(t, "test") /\ UNCHANGED <<loop, refused>>
               \/ Goto(t, "done") /\ loop' = FALSE /\ refused' = TRUE
    /\ Mine /\ UNCHANGED <<lock, index>>

\* The condition of the loop.
Test(t) ==
    /\ pc[t] = "test"
    /\ Goto(t, IF loop THEN "enter" ELSE "done")
    /\ Mine /\ UNCHANGED <<lock, index, loop, element, calls, late, refused>>

Worker(t) == Enter(t) \/ End(t) \/ Take(t) \/ Advance(t) \/ Call(t) \/ Test(t)

Main == Allocate \/ Spawn \/ Wait

Next == Main \/ \E t \in Threads : Worker(t)

Spec == Init /\ [][Next]_vars

\* Threads run, and the iterator returns.
FairSpec == Spec /\ WF_vars(Main) /\ \A t \in Threads : WF_vars(Worker(t))
-----------------------------------------------------------------------------
(* Properties.                                                             *)

TypeOK ==
    /\ main \in {"alloc", "spawn", "wait", "returned"}
    /\ slot \in 1 .. PoolSize + 1 /\ ok \in BOOLEAN
    /\ pc \in [Threads -> {"none", "enter", "take", "advance", "call", "test", "done"}]
    /\ lock \in Threads \cup {0}
    /\ index \in 0 .. Length /\ loop \in BOOLEAN
    /\ element \in [Threads -> Elements \cup {0}]
    /\ calls \in [Elements -> Nat] /\ late \in [Threads -> Nat]
    /\ refused \in BOOLEAN

\* The iterator is called at most once on every element, whichever workers race for it.
EachOnce == \A e \in Elements : calls[e] <= 1

\* When the caller has returned, and its frame with the context is gone, no worker is
\* left that could use it.
NoUseAfterReturn == main = "returned" => \A t \in Threads : pc[t] \in {"none", "done"}

\* If a worker could be started and nobody refused, every element was handed to the
\* iterator when the caller returns true.
Complete ==
    main = "returned" /\ ok /\ ~refused /\ (\E t \in Threads : pc[t] = "done")
        => \A e \in Elements \ Nulls : calls[e] = 1

\* After one worker refused, each of the others calls the iterator once more at most.
StopsSoon == \A t \in Threads : late[t] <= 1

\* The workers of rz_th_iterate_list share out the elements: each is handed to the iterator
\* once, none is left out, a refusal stops them, and none outlives the call.
IteratorSafe == TypeOK /\ EachOnce /\ NoUseAfterReturn /\ Complete /\ StopsSoon

\* The caller returns.
Returns == <>(main = "returned")
=============================================================================
