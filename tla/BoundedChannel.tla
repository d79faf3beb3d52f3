--------------------------- MODULE BoundedChannel ---------------------------
(***************************************************************************)
(* What RzThreadRingBuf promises: a first-in first-out channel of at most  *)
(* N elements that can be cleared, closed and opened again.                *)
(***************************************************************************)
EXTENDS Integers, Sequences

CONSTANTS Elems, N

VARIABLES seq, closed, taken

vars == <<seq, closed, taken>>

Init == seq = <<>> /\ closed = FALSE /\ taken \in Elems

Put ==
    /\ ~closed /\ Len(seq) < N
    /\ \E x \in Elems : seq' = Append(seq, x)
    /\ UNCHANGED <<closed, taken>>

Take ==
    /\ ~closed /\ seq # <<>>
    /\ taken' = Head(seq)
    /\ seq' = Tail(seq)
    /\ UNCHANGED closed

Clear == ~closed /\ seq' = <<>> /\ UNCHANGED <<closed, taken>>

Close == closed' = TRUE /\ UNCHANGED <<seq, taken>>

Open == closed /\ closed' = FALSE /\ seq' = <<>> /\ UNCHANGED taken

Next == Put \/ Take \/ Clear \/ Close \/ Open

Spec == Init /\ [][Next]_vars
=============================================================================
