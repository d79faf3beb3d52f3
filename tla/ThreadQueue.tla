---------------------------- MODULE ThreadQueue ----------------------------
(***************************************************************************)
(* RzThreadQueue, librz/util/thread_queue.c: a closable, optionally        *)
(* bounded double-ended queue shared by threads.                           *)
(*                                                                         *)
(* Every access to the data of the queue happens under data_lock, so one   *)
(* step of the model is one critical section of data_lock (from the        *)
(* acquisition to the release, or to the wait that releases it).           *)
(* reader_lock is held across several such sections and is a variable.     *)
(* A thread inside rz_th_cond_wait has pc "pop_wait" (on reader_cond) or   *)
(* "cwe_wait" (on empty_cond); a signal, or a spurious wakeup, moves it to *)
(* "pop_woken" / "cwe_woken", from where it takes data_lock again.         *)
(*                                                                         *)
(* An item stands for a non-null pointer.  A producer owns its pointer     *)
(* until a push accepts it and offers it once: the callers free what the   *)
(* queue refuses.  A thread whose pop returned false does not pop again:   *)
(* that is the exit of every worker loop in the callers.                   *)
(***************************************************************************)
EXTENDS Integers, Sequences, SequencesExt, ThreadCond

CONSTANTS
    Threads,     \* the threads that share the queue
    NoThread,    \* "nobody", the owner of a free lock
    Items,       \* the pointers that can be pushed
    Sizes,       \* the max_size arguments of rz_th_queue_new (0: unlimited)
    MaxInit,     \* bound: longest list a queue is built from
    MaxNulls,    \* bound: most NULLs in the vector a queue is built from
    PopAllers    \* the threads that may call rz_th_queue_pop_all

ASSUME ThreadQueueAssumption ==
    /\ NoThread \notin Threads
    /\ Sizes \subseteq Nat
    /\ MaxInit \in Nat
    /\ MaxNulls \in Nat
    /\ PopAllers \subseteq Threads

VARIABLES
    list,              \* queue->list
    max_size,          \* queue->max_size
    closed,            \* queue->closed
    reader_lock,       \* owner of queue->reader_lock
    reader_awaiting,   \* queue->reader_awaiting
    freed,             \* rz_th_queue_free has returned
    pc,                \* where each thread is
    done,              \* threads whose pop returned false
    got,               \* history: what each thread took out
    refused,           \* history: what a push refused
    released           \* history: what rz_th_queue_free released

vars == <<list, max_size, closed, reader_lock, reader_awaiting, freed, pc,
          done, got, refused, released>>

history == <<got, refused, released>>

RZ_THREAD_QUEUE_UNLIMITED == 0

Labels == {"idle", "pop_lock", "pop_data", "pop_wait", "pop_woken",
           "cwe_data", "cwe_wait", "cwe_woken"}

Awaiting(p) == {t \in Threads : p[t] \in {"pop_wait", "pop_woken"}}

\* The pointers that were not offered to the queue yet.
Fresh ==
    {x \in Items \ (Range(list) \cup refused \cup released) :
         \A t \in Threads : x \notin got[t]}
-----------------------------------------------------------------------------
\* rz_th_queue_new: an empty list and the limit of the caller.
rz_th_queue_new ==
    /\ list = <<>>
    /\ max_size \in Sizes

\* rz_th_queue_from_list: a copy of the list; its length is the limit, so a
\* queue made from an empty list is unlimited.
rz_th_queue_from_list ==
    /\ \E n \in 0..MaxInit : list \in Injection(1..n, Items)
    /\ max_size = Len(list)

\* rz_th_queue_from_pvector: NULLs count for the limit but are not copied.
rz_th_queue_from_pvector ==
    /\ \E n \in 0..MaxInit : list \in Injection(1..n, Items)
    /\ \E nulls \in 0..MaxNulls : max_size = Len(list) + nulls

\* th_queue_new: whatever the constructor, the queue is open, nobody waits.
Init ==
    /\ \/ rz_th_queue_new
       \/ rz_th_queue_from_list
       \/ rz_th_queue_from_pvector
    /\ closed = FALSE
    /\ reader_lock = NoThread
    /\ reader_awaiting = 0
    /\ freed = FALSE
    /\ pc = [t \in Threads |-> "idle"]
    /\ done = {}
    /\ got = [t \in Threads |-> {}]
    /\ refused = {}
    /\ released = {}
-----------------------------------------------------------------------------
\* A wait may also return without a signal; the callers loop for that.
SpuriousWakeup(t) ==
    /\ pc[t] \in {"pop_wait", "cwe_wait"}
    /\ pc' = [pc EXCEPT ![t] = IF @ = "pop_wait" THEN "pop_woken"
                                                 ELSE "cwe_woken"]
    /\ UNCHANGED <<list, max_size, closed, reader_lock, reader_awaiting,
                   freed, done, history>>
-----------------------------------------------------------------------------
\* rz_th_queue_is_full, and the test of rz_th_queue_push.
is_full ==
    /\ max_size # RZ_THREAD_QUEUE_UNLIMITED
    /\ Len(list) >= max_size

\* Mutant: push forgets that the queue may be closed.
CanPush_closed == ~is_full

\* rz_th_queue_push: never write to a closed or full queue.
CanPush == ~closed /\ ~is_full

\* rz_th_queue_push, accepted: insert at one end, then notify one reader if
\* some reader is between its increment and decrement of reader_awaiting.
PushAccept(t, x, tail) ==
    /\ pc[t] = "idle" /\ ~freed
    /\ x \in Fresh
    /\ CanPush
    /\ list' = IF tail THEN Append(list, x) ELSE Cons(x, list)
    /\ pc' \in IF reader_awaiting > 0
               THEN Signal(pc, "pop_wait", "pop_woken")
               ELSE {pc}
    /\ UNCHANGED <<max_size, closed, reader_lock, reader_awaiting, freed,
                   done, history>>

\* rz_th_queue_push, refused: the queue is closed or full, or the node of the
\* list cannot be allocated, which may happen at any time.
PushRefuse(t, x) ==
    /\ pc[t] = "idle" /\ ~freed
    /\ x \in Fresh
    /\ refused' = refused \cup {x}
    /\ UNCHANGED <<list, max_size, closed, reader_lock, reader_awaiting,
                   freed, pc, done, got, released>>

rz_th_queue_push(t, x) ==
    \/ \E tail \in BOOLEAN : PushAccept(t, x, tail)
    \/ PushRefuse(t, x)
-----------------------------------------------------------------------------
\* rz_th_queue_pop is called.
PopCall(t) ==
    /\ pc[t] = "idle" /\ ~freed
    /\ t \notin done
    /\ pc' = [pc EXCEPT ![t] = "pop_lock"]
    /\ UNCHANGED <<list, max_size, closed, reader_lock, reader_awaiting,
                   freed, done, history>>

\* It takes reader_lock first, and keeps it until it returns.
PopEnter(t) ==
    /\ pc[t] = "pop_lock"
    /\ reader_lock = NoThread
    /\ reader_lock' = t
    /\ pc' = [pc EXCEPT ![t] = "pop_data"]
    /\ UNCHANGED <<list, max_size, closed, reader_awaiting, freed, done,
                   history>>

\* Mutant: every pass through the loop decrements.
AwaitingNow_always(t) == reader_awaiting - 1

\* reader_awaiting once the thread holds data_lock and, if it comes back from
\* the wait, has counted itself out.
AwaitingNow(t) == reader_awaiting - (IF pc[t] = "pop_woken" THEN 1 ELSE 0)

\* The loop: open and empty, so wait on reader_cond.
PopWait(t) ==
    /\ pc[t] \in {"pop_data", "pop_woken"}
    /\ ~closed /\ list = <<>>
    /\ reader_awaiting' = AwaitingNow(t) + 1
    /\ pc' = [pc EXCEPT ![t] = "pop_wait"]
    /\ UNCHANGED <<list, max_size, closed, reader_lock, freed, done, history>>

\* Closed: return false, even when items are left.
PopClosed(t) ==
    /\ pc[t] \in {"pop_data", "pop_woken"}
    /\ closed
    /\ reader_awaiting' = AwaitingNow(t)
    /\ reader_lock' = NoThread
    /\ done' = done \cup {t}
    /\ pc' = [pc EXCEPT ![t] = "idle"]
    /\ UNCHANGED <<list, max_size, closed, freed, history>>

\* Mutant: the item is removed from the head, whichever end was returned.
PopRest_head(tail) == Tail(list)

\* rz_list_pop and rz_list_pop_head: what is returned and what is left.
PopRest(tail) == IF tail THEN Front(list) ELSE Tail(list)

PopItem(tail) == IF tail THEN Last(list) ELSE Head(list)

\* Take an item from one end; whoever empties the list tells the closers.
PopTake(t, tail) ==
    /\ pc[t] \in {"pop_data", "pop_woken"}
    /\ ~closed /\ list # <<>>
    /\ reader_awaiting' = AwaitingNow(t)
    /\ reader_lock' = NoThread
    /\ list' = PopRest(tail)
    /\ got' = [got EXCEPT ![t] = @ \cup {PopItem(tail)}]
    /\ pc' = LET p == [pc EXCEPT ![t] = "idle"]
             IN  IF list' = <<>> THEN SignalAll(p, "cwe_wait", "cwe_woken")
                                 ELSE p
    /\ UNCHANGED <<max_size, closed, freed, done, refused, released>>

rz_th_queue_pop(t) ==
    \/ PopWait(t)
    \/ PopClosed(t)
    \/ \E tail \in BOOLEAN : PopTake(t, tail)
-----------------------------------------------------------------------------
\* Mutant: the list is handed out but not replaced.
rz_th_queue_pop_all_shared(t) ==
    /\ pc[t] = "idle" /\ ~freed
    /\ t \in PopAllers
    /\ got' = [got EXCEPT ![t] = @ \cup Range(list)]
    /\ UNCHANGED <<list, max_size, closed, reader_lock, reader_awaiting,
                   freed, pc, done, refused, released>>

\* rz_th_queue_pop_all: swap in a new list.  No condition is signalled.
rz_th_queue_pop_all(t) ==
    /\ pc[t] = "idle" /\ ~freed
    /\ t \in PopAllers
    /\ list' = <<>>
    /\ got' = [got EXCEPT ![t] = @ \cup Range(list)]
    /\ UNCHANGED <<max_size, closed, reader_lock, reader_awaiting, freed, pc,
                   done, refused, released>>

\* rz_th_queue_close.
rz_th_queue_close(t) ==
    /\ pc[t] = "idle" /\ ~freed
    /\ ~closed
    /\ closed' = TRUE
    /\ pc' = SignalAll(SignalAll(pc, "pop_wait", "pop_woken"),
                       "cwe_wait", "cwe_woken")
    /\ UNCHANGED <<list, max_size, reader_lock, reader_awaiting, freed, done,
                   history>>

\* rz_th_queue_close_when_empty is called.
CloseWhenEmptyCall(t) ==
    /\ pc[t] = "idle" /\ ~freed
    /\ pc' = [pc EXCEPT ![t] = "cwe_data"]
    /\ UNCHANGED <<list, max_size, closed, reader_lock, reader_awaiting,
                   freed, done, history>>

\* The loop: open and not empty, so wait on empty_cond.
CloseWhenEmptyWait(t) ==
    /\ pc[t] \in {"cwe_data", "cwe_woken"}
    /\ ~closed /\ list # <<>>
    /\ pc' = [pc EXCEPT ![t] = "cwe_wait"]
    /\ UNCHANGED <<list, max_size, closed, reader_lock, reader_awaiting,
                   freed, done, history>>

\* Mutant: the condition is tested once, not in a loop.
CloseWhenEmptyReturn_no_loop(t) ==
    /\ pc[t] \in {"cwe_data", "cwe_woken"}
    /\ pc[t] = "cwe_woken" \/ closed \/ list = <<>>
    /\ closed' = TRUE
    /\ pc' = LET p == [pc EXCEPT ![t] = "idle"]
             IN  IF closed THEN p ELSE SignalAll(p, "pop_wait", "pop_woken")
    /\ UNCHANGED <<list, max_size, reader_lock, reader_awaiting, freed, done,
                   history>>

\* Empty, or closed by another thread: return with the queue closed.  Only
\* the readers are notified.
CloseWhenEmptyReturn(t) ==
    /\ pc[t] \in {"cwe_data", "cwe_woken"}
    /\ closed \/ list = <<>>
    /\ closed' = TRUE
    /\ pc' = LET p == [pc EXCEPT ![t] = "idle"]
             IN  IF closed THEN p ELSE SignalAll(p, "pop_wait", "pop_woken")
    /\ UNCHANGED <<list, max_size, reader_lock, reader_awaiting, freed, done,
                   history>>

rz_th_queue_close_when_empty(t) ==
    \/ CloseWhenEmptyWait(t)
    \/ CloseWhenEmptyReturn(t)

\* rz_th_queue_free: close, then release the list and what it still holds.
\* The callers join their threads first, so nobody is inside.
rz_th_queue_free(t) ==
    /\ pc = [u \in Threads |-> "idle"] /\ ~freed
    /\ freed' = TRUE
    /\ closed' = TRUE
    /\ released' = released \cup Range(list)
    /\ list' = <<>>
    /\ UNCHANGED <<max_size, reader_lock, reader_awaiting, pc, done, got,
                   refused>>
-----------------------------------------------------------------------------
\* A step of thread t inside a call it has already made.
Step(t) ==
    \/ PopEnter(t)
    \/ rz_th_queue_pop(t)
    \/ rz_th_queue_close_when_empty(t)

Next ==
    \E t \in Threads :
        \/ Step(t)
        \/ SpuriousWakeup(t)
        \/ \E x \in Items : rz_th_queue_push(t, x)
        \/ PopCall(t)
        \/ rz_th_queue_pop_all(t)
        \/ rz_th_queue_close(t)
        \/ CloseWhenEmptyCall(t)
        \/ rz_th_queue_free(t)

\* A thread that is not blocked inside a call runs on.  Nothing obliges a
\* thread to make a call, and no wakeup is owed to a waiter without a signal.
Fairness == \A t \in Threads : WF_vars(Step(t))

Spec == Init /\ [][Next]_vars /\ Fairness
-----------------------------------------------------------------------------
(* Properties.                                                             *)

TypeOK ==
    /\ list \in Seq(Items)
    /\ max_size \in Nat
    /\ closed \in BOOLEAN
    /\ reader_lock \in Threads \cup {NoThread}
    /\ reader_awaiting \in Nat
    /\ freed \in BOOLEAN
    /\ pc \in [Threads -> Labels]
    /\ done \subseteq Threads
    /\ got \in [Threads -> SUBSET Items]
    /\ refused \subseteq Items
    /\ released \subseteq Items

\* rz_th_queue_pop holds reader_lock across its wait, so at most one thread is
\* past it and reader_awaiting is exactly the number of threads between its
\* increment and its decrement: 0 or 1, never wrapped below zero.
InPop(t) == pc[t] \in {"pop_data", "pop_wait", "pop_woken"}

OneReader ==
    /\ \A t \in Threads : InPop(t) <=> reader_lock = t
    /\ reader_awaiting = IF Awaiting(pc) = {} THEN 0 ELSE 1

\* No wakeup of a reader is lost: a thread asleep on reader_cond in
\* rz_th_queue_pop sleeps on an open, empty queue.  It relies on push
\* signalling one waiter only, which is enough because of OneReader.
NoLostReaderWakeup ==
    (\E t \in Threads : pc[t] = "pop_wait") => ~closed /\ list = <<>>

\* No wakeup of rz_th_queue_close_when_empty is lost: a thread asleep on
\* empty_cond sleeps on an open queue that is not empty.
NoLostCloserWakeup ==
    (\E t \in Threads : pc[t] = "cwe_wait") => ~closed /\ list # <<>>

\* Ownership: push, pop, pop_all and free hand each pointer over exactly once;
\* it is in the list once, or with one thread, or refused, or released.
OneOwner ==
    /\ IsInjective(list)
    /\ Range(list) \cap (refused \cup released) = {}
    /\ refused \cap released = {}
    /\ \A t \in Threads :
           /\ got[t] \cap (Range(list) \cup refused \cup released) = {}
           /\ \A u \in Threads \ {t} : got[t] \cap got[u] = {}

\* Nothing is lost: what was once offered to the queue stays accounted for, so
\* a pointer that push accepted is only gone when somebody holds it.
NothingLost == [][Fresh' \subseteq Fresh]_vars

\* The limit holds whatever constructor chose it: push never overfills.
Bounded == max_size # RZ_THREAD_QUEUE_UNLIMITED => Len(list) <= max_size

\* Closing is final, and a closed queue neither hands out an item through pop
\* nor takes one in: only pop_all and free change its list.
ClosedIsFinal ==
    [][closed => /\ closed'
                 /\ list' # list => /\ list' = <<>>
                                    /\ \A t \in Threads : pc'[t] = pc[t]]_vars

\* After a close every thread inside rz_th_queue_pop or
\* rz_th_queue_close_when_empty returns.
CloseReleasesAll ==
    \A t \in Threads : (closed /\ pc[t] # "idle") ~> (pc[t] = "idle")

\* A reader is not left waiting beside data: a call of rz_th_queue_pop, at
\* whichever lock or wait it is, returns unless others empty the list first.
DataReachesReader ==
    \A t \in Threads :
        (list # <<>> /\ (pc[t] = "pop_lock" \/ InPop(t)))
            ~> (pc[t] = "idle" \/ list = <<>>)

\* No call of rz_th_queue_pop or rz_th_queue_close_when_empty hangs that a
\* close or an element should release.
CallsReturn == CloseReleasesAll /\ DataReachesReader

\* rz_th_queue_close_when_empty "will block until the queue is empty and then
\* close it": a queue that stays empty is closed.
EmptyQueueGetsClosed ==
    \A t \in Threads :
        [](pc[t] \in {"cwe_data", "cwe_wait", "cwe_woken"} /\ [](list = <<>>)
           => <>closed)
-----------------------------------------------------------------------------
(* The promise of the queue, ClosableDeque, with every lock and condition  *)
(* forgotten: a thread inside a blocking call is just in that call.        *)
CallOf(label) ==
    CASE label = "idle" -> "none"
      [] label \in {"pop_lock", "pop_data", "pop_wait", "pop_woken"} -> "pop"
      [] OTHER -> "close"

Promise == INSTANCE ClosableDeque WITH
    seq <- list,
    limit <- max_size,
    call <- [t \in Threads |-> CallOf(pc[t])]

\* Every step of the queue is a step of the promise or changes nothing in it.
ImplementsSafety == Promise!Safety

\* With the liveness of the promise: a call that can return does.
ImplementsPromise == Promise!Spec
=============================================================================
