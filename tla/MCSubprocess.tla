---------------------------- MODULE MCSubprocess ----------------------------
(* The instance of Subprocess for TLC.                                     *)
EXTENDS Subprocess, TLC

CONSTANTS c1, c2, p1, p2

Use(pids, fds, timed, readers) ==
    [pids |-> (c1 :> pids[1]) @@ (c2 :> pids[2]),
     fds |-> (c1 :> fds[1]) @@ (c2 :> fds[2]),
     timed |-> timed, readers |-> readers]

\* Two callers with a child each; one of them waits for the end of its output.
TwoChildren == Use(<<{p1}, {p2}>>, <<{"stdout"}, {}>>, {}, {})

\* One caller with a pipe for each stream, as rz_subprocess_start makes them.
Output == Use(<<{p1}, {}>>, <<Streams, {}>>, {c1}, {})

\* One caller that reads bytes and lines, with a timeout.
Reading == Use(<<{p1}, {}>>, <<{"stdout"}, {}>>, {c1}, {c1})

AllUsages == {TwoChildren, Output, Reading}
=============================================================================
