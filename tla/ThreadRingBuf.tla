--------------------------- MODULE ThreadRingBuf ---------------------------
(***************************************************************************)
(* RzThreadRingBuf, librz/util/thread_ring_buf.c: a bounded FIFO channel   *)
(* that copies its elements, with blocking put and take, closing and       *)
(* reopening.                                                              *)
(*                                                                         *)
(* Every call first counts itself in threads_awaiting (under counter_lock),*)
(* then takes lock; LEAVE_RBUF counts it out and only then releases lock.  *)
(* A step of the model is the count, or the section from the acquisition   *)
(* of lock to the decrement or to a wait, or the release of lock.  A       *)
(* thread that has counted itself and waits for lock stands at the name of *)
(* its operation.                                                          *)
(*                                                                         *)
(* threads_awaiting is a size_t; here it is an integer, whose value modulo *)
(* 2^64 is the counter: the code only tests it for zero.                   *)
(*                                                                         *)
(* A thread that was told RZ_THREAD_RING_BUF_CLOSED makes no more calls    *)
(* until the buffer is opened again: they would be "undefined".            *)
(***************************************************************************)
EXTENDS Integers, FiniteSets, ThreadCond

CONSTANTS
    Threads,     \* the threads that share the buffer
    NoThread,    \* "nobody", the owner of a free lock
    Elems,       \* the values an element can have
    N,           \* rbuf->n, the number of slots
    Usages,      \* the ways to use it: the operations each thread calls
    MaxDrift     \* bound: is_open is only called while threads_awaiting,
                 \* which its race may shift, is this close to zero

Operations == {"put", "take", "take_blocking", "clear", "close", "open",
               "is_open", "query"}

ASSUME RingBufAssumption ==
    /\ NoThread \notin Threads
    /\ IsFiniteSet(Threads)
    /\ Elems # {}
    /\ N \in Nat \ {0}
    /\ Usages \subseteq [Threads -> SUBSET Operations]
    /\ MaxDrift \in Nat

VARIABLES
    buf, w, r, to_read,   \* the slots, the indices, the elements to read
    closed,
    lock,                 \* owner of rbuf->lock
    threads_awaiting,
    writers_waiting,
    readers_waiting,
    freed,                \* rz_th_ring_buf_free has returned
    pc,                   \* where each thread is
    register,             \* the value is_open loaded to decrement
    done,                 \* threads that were told the buffer is closed
    taken,                \* what the last take copied out
    usage                 \* the member of Usages that this program is

data == <<buf, w, r, to_read>>
vars == <<data, closed, lock, threads_awaiting, writers_waiting,
          readers_waiting, freed, pc, register, done, taken>>

Labels == Operations \cup
    {"idle", "put_wait", "put_woken", "take_wait", "take_woken", "leave",
     "leave_close", "poll", "is_open_load", "is_open_store"}

\* rz_th_ring_buf_new.  The slots are not initialised.
Init ==
    /\ buf \in [0..(N - 1) -> Elems]
    /\ w = 0 /\ r = 0 /\ to_read = 0
    /\ closed = FALSE
    /\ lock = NoThread
    /\ threads_awaiting = 0
    /\ writers_waiting = 0
    /\ readers_waiting = 0
    /\ freed = FALSE
    /\ pc = [t \in Threads |-> "idle"]
    /\ register = [t \in Threads |-> 0]
    /\ done = {}
    /\ taken \in Elems
    /\ usage \in Usages
-----------------------------------------------------------------------------
\* The first half of ENTER_RBUF: the thread counts itself.
Call(t, op) ==
    /\ pc[t] = "idle" /\ ~freed
    /\ op \in usage[t]
    /\ t \notin done \/ op = "open"
    /\ op = "is_open" => threads_awaiting \in (-MaxDrift)..MaxDrift
    /\ threads_awaiting' = threads_awaiting + 1
    /\ pc' = [pc EXCEPT ![t] = op]
    /\ UNCHANGED <<data, closed, lock, writers_waiting, readers_waiting,
                   freed, register, done, taken>>

\* A wait may return without a signal; put and take_blocking loop.
SpuriousWakeup(t) ==
    /\ pc[t] \in {"put_wait", "take_wait"}
    /\ pc' = [pc EXCEPT ![t] = IF @ = "put_wait" THEN "put_woken"
                                                 ELSE "take_woken"]
    /\ UNCHANGED <<data, closed, lock, threads_awaiting, writers_waiting,
                   readers_waiting, freed, register, done, taken>>

\* The waiting counters once thread t has come back from its wait, if any.
WritersNow(t) == writers_waiting - (IF pc[t] = "put_woken" THEN 1 ELSE 0)
ReadersNow(t) == readers_waiting - (IF pc[t] = "take_woken" THEN 1 ELSE 0)

\* Thread t has lock and goes on to LEAVE_RBUF, standing at label `at', after
\* the conditions led to control state p.
LeaveVia(t, p, at) ==
    /\ lock = NoThread
    /\ lock' = t
    /\ threads_awaiting' = threads_awaiting - 1
    /\ pc' = [p EXCEPT ![t] = at]

\* ENTER_RBUF, or the test after a wait, finds the buffer closed.
ReturnClosed(t) ==
    /\ pc[t] \in {"put", "take", "take_blocking", "clear", "close", "query",
                  "put_woken", "take_woken"}
    /\ closed
    /\ writers_waiting' = WritersNow(t)
    /\ readers_waiting' = ReadersNow(t)
    /\ LeaveVia(t, pc, "leave")
    /\ done' = done \cup {t}
    /\ UNCHANGED <<data, closed, freed, register, taken>>

\* The release of lock that ends LEAVE_RBUF.
Leave(t) ==
    /\ pc[t] \in {"leave", "leave_close"}
    /\ lock' = NoThread
    /\ pc' = [pc EXCEPT ![t] = IF @ = "leave" THEN "idle" ELSE "poll"]
    /\ UNCHANGED <<data, closed, threads_awaiting, writers_waiting,
                   readers_waiting, freed, register, done, taken>>
-----------------------------------------------------------------------------
\* rz_th_ring_buf_put: full, so wait on writer_wait_cond.
PutWait(t) ==
    /\ pc[t] \in {"put", "put_woken"}
    /\ lock = NoThread
    /\ ~closed /\ to_read = N
    /\ writers_waiting' = WritersNow(t) + 1
    /\ pc' = [pc EXCEPT ![t] = "put_wait"]
    /\ UNCHANGED <<data, closed, lock, threads_awaiting, readers_waiting,
                   freed, register, done, taken>>

\* The next index.
Advance(i) == (i + 1) % N

\* rz_th_ring_buf_put: copy the element in, notify a reader.
PutElem(t, x) ==
    /\ pc[t] \in {"put", "put_woken"}
    /\ ~closed /\ to_read # N
    /\ writers_waiting' = WritersNow(t)
    /\ buf' = [buf EXCEPT ![w] = x]
    /\ w' = Advance(w)
    /\ to_read' = to_read + 1
    /\ \E p \in (IF readers_waiting > 0
                 THEN Signal(pc, "take_wait", "take_woken") ELSE {pc}) :
            LeaveVia(t, p, "leave")
    /\ UNCHANGED <<r, closed, readers_waiting, freed, register, done, taken>>

\* rz_th_ring_buf_take_blocking: empty, so wait on reader_wait_cond.
TakeWait(t) ==
    /\ pc[t] \in {"take_blocking", "take_woken"}
    /\ lock = NoThread
    /\ ~closed /\ to_read = 0
    /\ readers_waiting' = ReadersNow(t) + 1
    /\ pc' = [pc EXCEPT ![t] = "take_wait"]
    /\ UNCHANGED <<data, closed, lock, threads_awaiting, writers_waiting,
                   freed, register, done, taken>>

\* rz_th_ring_buf_take and rz_th_ring_buf_take_blocking: copy an element out,
\* notify a writer.
TakeElem(t) ==
    /\ pc[t] \in {"take", "take_blocking", "take_woken"}
    /\ ~closed /\ to_read # 0
    /\ readers_waiting' = ReadersNow(t)
    /\ taken' = buf[r]
    /\ r' = Advance(r)
    /\ to_read' = to_read - 1
    /\ \E p \in (IF writers_waiting > 0
                 THEN Signal(pc, "put_wait", "put_woken") ELSE {pc}) :
            LeaveVia(t, p, "leave")
    /\ UNCHANGED <<buf, w, closed, writers_waiting, freed, register, done>>

\* rz_th_ring_buf_take on an empty buffer fails; rz_th_ring_buf_is_empty and
\* rz_th_ring_buf_is_full only look.
NoEffect(t) ==
    /\ \/ pc[t] = "take" /\ to_read = 0
       \/ pc[t] = "query"
    /\ ~closed
    /\ LeaveVia(t, pc, "leave")
    /\ UNCHANGED <<data, closed, writers_waiting, readers_waiting, freed,
                   register, done, taken>>
-----------------------------------------------------------------------------
\* Mutant: the read index is kept.
reset_buf_keeps_r == w' = 0 /\ to_read' = 0 /\ UNCHANGED <<buf, r>>

\* reset_buf.
reset_buf == w' = 0 /\ r' = 0 /\ to_read' = 0 /\ UNCHANGED buf

\* Mutant: rz_th_ring_buf_clear tells one writer, as take does.
WritersToTell_one == 1

\* rz_th_ring_buf_clear: as many signals as there are writers or slots.
WritersToTell == IF writers_waiting < N THEN writers_waiting ELSE N

rz_th_ring_buf_clear(t) ==
    /\ pc[t] = "clear"
    /\ ~closed
    /\ reset_buf
    /\ \E p \in Signals(pc, "put_wait", "put_woken", WritersToTell) :
            LeaveVia(t, p, "leave")
    /\ UNCHANGED <<closed, writers_waiting, readers_waiting, freed, register,
                   done, taken>>

\* Mutant: only the writers are told that the buffer closes.
Close_writers_only(t) ==
    /\ pc[t] = "close"
    /\ ~closed
    /\ closed' = TRUE
    /\ LeaveVia(t, SignalAll(pc, "put_wait", "put_woken"), "leave_close")
    /\ UNCHANGED <<data, writers_waiting, readers_waiting, freed, register,
                   done, taken>>

\* rz_th_ring_buf_close, the first caller: close and wake everybody.
Close(t) ==
    /\ pc[t] = "close"
    /\ ~closed
    /\ closed' = TRUE
    /\ LeaveVia(t, SignalAll(SignalAll(pc, "put_wait", "put_woken"),
                             "take_wait", "take_woken"), "leave_close")
    /\ UNCHANGED <<data, writers_waiting, readers_waiting, freed, register,
                   done, taken>>

\* Mutant: the first caller does not wait for the others.
CloseReturn_at_once(t) ==
    /\ pc[t] = "poll"
    /\ pc' = [pc EXCEPT ![t] = "idle"]
    /\ done' = done \cup {t}
    /\ UNCHANGED <<data, closed, lock, threads_awaiting, writers_waiting,
                   readers_waiting, freed, register, taken>>

\* It polls threads_awaiting, without a lock, and returns when it is zero.
CloseReturn(t) ==
    /\ pc[t] = "poll"
    /\ threads_awaiting = 0
    /\ pc' = [pc EXCEPT ![t] = "idle"]
    /\ done' = done \cup {t}
    /\ UNCHANGED <<data, closed, lock, threads_awaiting, writers_waiting,
                   readers_waiting, freed, register, taken>>

\* rz_th_ring_buf_open.
rz_th_ring_buf_open(t) ==
    /\ pc[t] = "open"
    /\ \/ ~closed /\ UNCHANGED <<data, closed, done>>
       \/ closed /\ reset_buf /\ closed' = FALSE /\ done' = {}
    /\ LeaveVia(t, pc, "leave")
    /\ UNCHANGED <<writers_waiting, readers_waiting, freed, register, taken>>

\* rz_th_ring_buf_is_open: read closed under lock.
IsOpenRead(t) ==
    /\ pc[t] = "is_open"
    /\ lock = NoThread
    /\ pc' = [pc EXCEPT ![t] = "is_open_load"]
    /\ done' = IF closed THEN done \cup {t} ELSE done
    /\ UNCHANGED <<data, closed, lock, threads_awaiting, writers_waiting,
                   readers_waiting, freed, register, taken>>

\* It then decrements threads_awaiting holding no lock: a load,
IsOpenLoad(t) ==
    /\ pc[t] = "is_open_load"
    /\ register' = [register EXCEPT ![t] = threads_awaiting]
    /\ pc' = [pc EXCEPT ![t] = "is_open_store"]
    /\ UNCHANGED <<data, closed, lock, threads_awaiting, writers_waiting,
                   readers_waiting, freed, done, taken>>

\* and a store.  A data race: what other threads stored in between may be
\* overwritten, or kept with this decrement, or overwrite this decrement.
IsOpenStore(t) ==
    /\ pc[t] = "is_open_store"
    /\ \/ threads_awaiting' = register[t] - 1
       \/ threads_awaiting' = threads_awaiting - 1
       \/ threads_awaiting # register[t] /\ UNCHANGED threads_awaiting
    /\ register' = [register EXCEPT ![t] = 0]
    /\ pc' = [pc EXCEPT ![t] = "idle"]
    /\ UNCHANGED <<data, closed, lock, writers_waiting, readers_waiting,
                   freed, done, taken>>

\* rz_th_ring_buf_free: close, then release everything.  The callers join
\* their threads first, so nobody is inside.
rz_th_ring_buf_free(t) ==
    /\ pc = [u \in Threads |-> "idle"] /\ ~freed
    /\ freed' = TRUE
    /\ closed' = TRUE
    /\ UNCHANGED <<data, lock, threads_awaiting, writers_waiting,
                   readers_waiting, pc, register, done, taken>>
-----------------------------------------------------------------------------
Step(t) ==
    \/ ReturnClosed(t)
    \/ Leave(t)
    \/ PutWait(t)
    \/ \E x \in Elems : PutElem(t, x)
    \/ TakeWait(t)
    \/ TakeElem(t)
    \/ NoEffect(t)
    \/ rz_th_ring_buf_clear(t)
    \/ Close(t)
    \/ CloseReturn(t)
    \/ rz_th_ring_buf_open(t)
    \/ IsOpenRead(t)
    \/ IsOpenLoad(t)
    \/ IsOpenStore(t)

Next ==
    /\ \E t \in Threads :
        \/ \E op \in Operations : Call(t, op)
        \/ SpuriousWakeup(t)
        \/ Step(t)
        \/ rz_th_ring_buf_free(t)
    /\ UNCHANGED usage

\* A thread that can go on inside a call does.
Fairness == \A t \in Threads : WF_vars(Step(t))

Spec == Init /\ [][Next]_<<vars, usage>> /\ Fairness
-----------------------------------------------------------------------------
(* Properties.                                                             *)

At(S) == {t \in Threads : pc[t] \in S}

TypeOK ==
    /\ buf \in [0..(N - 1) -> Elems]
    /\ w \in 0..(N - 1) /\ r \in 0..(N - 1) /\ to_read \in 0..N
    /\ closed \in BOOLEAN
    /\ lock \in Threads \cup {NoThread}
    /\ threads_awaiting \in Int
    /\ writers_waiting \in Int
    /\ readers_waiting \in Int
    /\ freed \in BOOLEAN
    /\ pc \in [Threads -> Labels]
    /\ register \in [Threads -> Int]
    /\ done \subseteq Threads
    /\ taken \in Elems
    /\ usage \in Usages

\* The counters say who waits: writers_waiting and readers_waiting count the
\* threads between the increment and the decrement in put and take_blocking.
WaitersCounted ==
    /\ writers_waiting = Cardinality(At({"put_wait", "put_woken"}))
    /\ readers_waiting = Cardinality(At({"take_wait", "take_woken"}))

\* No wakeup of a reader is lost.  While a reader sleeps in take_blocking the
\* buffer is open and every element to read has a woken reader coming for it:
\* put signals one reader per element, even when a reader that never slept
\* takes the element first.
NoLostReaderWakeup ==
    At({"take_wait"}) # {} =>
        ~closed /\ to_read <= Cardinality(At({"take_woken"}))

\* No wakeup of a writer is lost, rz_th_ring_buf_clear's included: while a
\* writer sleeps in put, every free slot has a woken writer coming for it.
NoLostWriterWakeup ==
    At({"put_wait"}) # {} =>
        ~closed /\ N - to_read <= Cardinality(At({"put_woken"}))

\* The waiting counters are exact and no wakeup is lost in either direction,
\* through clear, close and reopen.
NoLostWakeup ==
    TypeOK /\ WaitersCounted /\ NoLostReaderWakeup /\ NoLostWriterWakeup

\* rz_th_ring_buf_is_open decrements the count without the counter's lock and
\* may lose an update: the count is exact where nobody calls it.
CountIsExact == \A t \in Threads : "is_open" \notin usage[t]

\* rz_th_ring_buf_close returns only when every thread that entered, or
\* waits, has counted itself out.
Entered(t) == pc[t] \notin {"idle", "leave", "leave_close", "poll"}

CloseCountsEveryone ==
    [][\A t \in Threads : CountIsExact /\ pc[t] = "poll" /\ pc'[t] = "idle"
                          => \A u \in Threads : ~Entered(u)]_vars

\* rz_th_ring_buf_close returns: closing wakes every waiter, each one leaves,
\* and the count comes down to zero, provided that nobody opens the buffer
\* again meanwhile and that the count is exact.
NeverReopened == \A t \in Threads : "open" \notin usage[t]
CloseReturns ==
    \A t \in Threads :
        pc[t] = "poll" /\ CountIsExact /\ NeverReopened ~> pc[t] = "idle"
-----------------------------------------------------------------------------
(* The channel the buffer stands for: the elements from r on.              *)
Contents == [i \in 1..to_read |-> buf[(r + i - 1) % N]]

Channel == INSTANCE BoundedChannel WITH seq <- Contents

\* First in, first out, at most N, nothing overwritten: with the locks, the
\* waits and the wrap-around of the indices forgotten, every step of the
\* buffer is a step of the channel.
ImplementsChannel == Channel!Spec
=============================================================================
