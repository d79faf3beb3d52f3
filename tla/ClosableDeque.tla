--------------------------- MODULE ClosableDeque ---------------------------
(***************************************************************************)
(* What RzThreadQueue promises its callers, without locks, conditions or   *)
(* counters: an operation takes effect in one step, between its call and   *)
(* its return, as soon as the state of the queue allows it.                *)
(***************************************************************************)
EXTENDS Integers, Sequences, SequencesExt

CONSTANTS Threads, Items, PopAllers

VARIABLES
    seq,       \* the items, head first
    limit,     \* most items, 0 when there is no limit
    closed,    \* no item enters or leaves through push and pop any more
    call,      \* the blocking call each thread is in
    got        \* what each thread took out

vars == <<seq, limit, closed, call, got>>

Init ==
    /\ seq \in Seq(Items) /\ IsInjective(seq)
    /\ limit \in Nat
    /\ limit # 0 => Len(seq) <= limit
    /\ closed = FALSE
    /\ call = [t \in Threads |-> "none"]
    /\ got = [t \in Threads |-> {}]

\* An item that is not in the queue and that nobody took out enters at one
\* end, if the queue is open and has room.
Push ==
    /\ ~closed
    /\ limit = 0 \/ Len(seq) < limit
    /\ \E x \in Items \ (Range(seq) \cup UNION Range(got)) :
            seq' \in {Append(seq, x), Cons(x, seq)}
    /\ UNCHANGED <<limit, closed, call, got>>

Call(t, op) ==
    /\ call[t] = "none"
    /\ call' = [call EXCEPT ![t] = op]
    /\ UNCHANGED <<seq, limit, closed, got>>

\* pop returns one end of an open queue, or nothing once it is closed.
PopReturn(t) ==
    /\ call[t] = "pop"
    /\ call' = [call EXCEPT ![t] = "none"]
    /\ \/ closed /\ UNCHANGED <<seq, got>>
       \/ /\ ~closed /\ seq # <<>>
          /\ \/ /\ seq' = Tail(seq)
                /\ got' = [got EXCEPT ![t] = @ \cup {Head(seq)}]
             \/ /\ seq' = Front(seq)
                /\ got' = [got EXCEPT ![t] = @ \cup {Last(seq)}]
    /\ UNCHANGED <<limit, closed>>

PopAll(t) ==
    /\ t \in PopAllers
    /\ call[t] = "none"
    /\ seq' = <<>>
    /\ got' = [got EXCEPT ![t] = @ \cup Range(seq)]
    /\ UNCHANGED <<limit, closed, call>>

Close ==
    /\ closed' = TRUE
    /\ UNCHANGED <<seq, limit, call, got>>

\* close_when_empty returns when the queue is empty or already closed, and
\* leaves it closed.
CloseReturn(t) ==
    /\ call[t] = "close"
    /\ closed \/ seq = <<>>
    /\ closed' = TRUE
    /\ call' = [call EXCEPT ![t] = "none"]
    /\ UNCHANGED <<seq, limit, got>>

\* The end of the queue: what is left in it is dropped.
Free ==
    /\ call = [t \in Threads |-> "none"]
    /\ closed' = TRUE
    /\ seq' = <<>>
    /\ UNCHANGED <<limit, call, got>>

Next ==
    \/ Push
    \/ Close
    \/ Free
    \/ \E t \in Threads :
           \/ \E op \in {"pop", "close"} : Call(t, op)
           \/ PopReturn(t)
           \/ PopAll(t)
           \/ CloseReturn(t)

Safety == Init /\ [][Next]_vars

\* A call that can return does.
Spec ==
    /\ Safety
    /\ \A t \in Threads : WF_vars(PopReturn(t)) /\ WF_vars(CloseReturn(t))
=============================================================================
