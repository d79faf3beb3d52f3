-------------------------- MODULE MCThreadRingBuf --------------------------
(* The instance of ThreadRingBuf for TLC.                                  *)
EXTENDS ThreadRingBuf, TLC

CONSTANTS t1, t2, t3, t4

\* Everything that keeps threads_awaiting exact, reopening included.
Locked ==
    (t1 :> {"put", "take", "query"}) @@
    (t2 :> {"take_blocking", "clear", "close"}) @@
    (t3 :> {"put", "open"}) @@ (t4 :> {})

\* Up to three writers or two readers asleep, the buffer cleared and closed.
Waiting ==
    (t1 :> {"put"}) @@ (t2 :> {"put", "take_blocking"}) @@
    (t3 :> {"put", "take_blocking"}) @@ (t4 :> {"take", "clear", "close"})

\* The racy is_open beside a writer and a close.
Asking ==
    (t1 :> {"put"}) @@ (t2 :> {"close"}) @@ (t3 :> {"is_open"}) @@ (t4 :> {})

AllUsages == {Locked, Waiting, Asking}
=============================================================================
