----------------------------- MODULE RoundRobin -----------------------------
(***************************************************************************)
(* What the task scheduler promises: tasks take turns.  One task has the   *)
(* turn; the others that are ready queue for it.  A task that yields goes  *)
(* to the back of the queue, one that stops leaves, one that becomes ready *)
(* joins at the back and has the turn at once if nobody else has.          *)
(***************************************************************************)
EXTENDS Sequences

CONSTANTS Tasks, Nobody

VARIABLES
    turn,       \* the task that has the turn, or Nobody
    queue       \* the tasks that are ready, in the order they will have it

Init == turn = Nobody /\ queue = <<>>

Arrive(t) ==
    /\ turn # t /\ \A i \in DOMAIN queue : queue[i] # t
    /\ IF turn = Nobody
         THEN turn' = t /\ UNCHANGED queue
         ELSE queue' = Append(queue, t) /\ UNCHANGED turn

Yield ==
    /\ queue # <<>>
    /\ turn' = Head(queue)
    /\ queue' = Append(Tail(queue), turn)

Leave ==
    IF queue = <<>>
      THEN turn' = Nobody /\ UNCHANGED queue
      ELSE turn' = Head(queue) /\ queue' = Tail(queue)

Next ==
    \/ \E t \in Tasks : Arrive(t)
    \/ turn # Nobody /\ (Yield \/ Leave)

Spec == Init /\ [][Next]_<<turn, queue>>
=============================================================================
