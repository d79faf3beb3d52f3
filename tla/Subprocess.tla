----------------------------- MODULE Subprocess -----------------------------
(***************************************************************************)
(* RzSubprocess on Unix, librz/util/subprocess.c: children are started by  *)
(* several threads, a reaper thread woken through a pipe by the SIGCHLD    *)
(* handler collects their exit statuses, and the thread that started a     *)
(* child reads its output with a timeout and asks for its status.          *)
(*                                                                         *)
(* A caller has one subprocess at a time and uses it like                  *)
(* subprocess_runner in binrz/rz-test/run.c: start, wait, kill after a     *)
(* timeout, drain, free; some callers first read from stdout.              *)
(*                                                                         *)
(* Time is one event: the deadline of a wait passes.  A pipe holds at most *)
(* one unread byte, which is a newline or not.  ret_sem is Boolean: posts  *)
(* only add up, because rz_subprocess_ret gives back what it takes.  The   *)
(* kernel does not hand out a pid again while a subprocess or the reaper   *)
(* still has it.                                                           *)
(***************************************************************************)
EXTENDS Integers, Sequences

CONSTANTS
    Callers,     \* the threads that run subprocesses
    Reaper,      \* the thread sigchld_thread
    Nobody,      \* the owner of a free lock
    Pids,        \* the process identifiers
    NoPid,
    Usages,      \* the ways to use it: who starts which pids, the output pipes
                 \* each caller opens, the callers that wait with a timeout and
                 \* those that read from stdout before they wait
    PipeSize     \* bound: the capacity of sigchld_pipe

Wstats == [how : {"exited"}, n : {0}] \cup [how : {"signaled"}, n : {9}]
NoStat == [how |-> "none", n |-> 0]

ASSUME SubprocessAssumption ==
    /\ Callers # {} /\ Reaper \notin Callers
    /\ Nobody \notin Callers \cup {Reaper}
    /\ NoPid \notin Pids
    /\ Usages \subseteq [pids : [Callers -> SUBSET Pids],
                         fds : [Callers -> SUBSET {"stdout", "stderr"}],
                         timed : SUBSET Callers, readers : SUBSET Callers]
    /\ PipeSize \in Nat \ {0}

VARIABLES
    subprocs,        \* callers whose subprocess is in the table
    subprocs_mutex,  \* owner of the table's lock
    proc,            \* the RzSubprocess of each caller: pid, ret, ret_sem
    child,           \* the kernel's view of each pid
    pipe,            \* the output pipes of each caller's subprocess
    sigchld,         \* SIGCHLD is pending
    sigchld_pipe,    \* bytes from the handler to the reaper
    reaper,          \* where the reaper is, with what waitpid returned
    pc,              \* where each caller is
    wait,            \* the locals of its subprocess_wait
    result,          \* why its last wait ended, and what drain gave it
    fini,            \* where rz_subprocess_fini is
    usage            \* the member of Usages that this program is

kernel == <<child, pipe, sigchld>>
table == <<subprocs, subprocs_mutex>>
vars == <<table, proc, kernel, sigchld_pipe, reaper, pc, wait, result, fini>>

Streams == {"stdout", "stderr"}
ClosedPipe == [data |-> "none", open |-> FALSE]
NoProc == [pid |-> NoPid, ret |-> -1, ret_sem |-> FALSE, ended |-> NoStat]
NoChild == [state |-> "none", wstat |-> NoStat, doomed |-> FALSE]
NoWait == [call |-> "none", left |-> 0, eof |-> {}, timedout |-> TRUE,
           child_dead |-> FALSE, expired |-> FALSE, last |-> "none"]
NoResult == [reason |-> "none", ret |-> -1]

\* rz_subprocess_init.
Init ==
    /\ subprocs = {} /\ subprocs_mutex = Nobody
    /\ proc = [c \in Callers |-> NoProc]
    /\ child = [p \in Pids |-> NoChild]
    /\ pipe = [c \in Callers |-> [f \in Streams |-> ClosedPipe]]
    /\ sigchld = FALSE
    /\ sigchld_pipe = <<>>
    /\ reaper = [at |-> "read", pid |-> NoPid, wstat |-> NoStat]
    /\ pc = [c \in Callers |-> "idle"]
    /\ wait = [c \in Callers |-> NoWait]
    /\ result = [c \in Callers |-> NoResult]
    /\ fini = "no"
    /\ usage \in Usages

Goto(c, label) == pc' = [pc EXCEPT ![c] = label]
-----------------------------------------------------------------------------
(* The children.                                                           *)

\* A process of the child's tree writes to, or closes, an output pipe.
ChildWrites(c, f, byte) ==
    /\ pipe[c][f].open /\ pipe[c][f].data = "none"
    /\ byte = "newline" => c \in usage.readers
    /\ pipe' = [pipe EXCEPT ![c][f].data = byte]
    /\ UNCHANGED <<table, proc, child, sigchld, sigchld_pipe, reaper, pc, wait,
                   result, fini>>

ChildCloses(c, f) ==
    /\ pipe[c][f].open
    /\ pipe' = [pipe EXCEPT ![c][f].open = FALSE]
    /\ UNCHANGED <<table, proc, child, sigchld, sigchld_pipe, reaper, pc, wait,
                   result, fini>>

\* The child ends; the pipes its own children inherited stay open.  With
\* SIGCHLD ignored the kernel reaps it.
ChildExits(p, w, kept) ==
    /\ child[p].state = "alive"
    /\ child[p].doomed => w.how = "signaled"
    /\ IF fini = "no"
       THEN /\ child' = [child EXCEPT ![p] = [@ EXCEPT !.state = "zombie",
                                                       !.wstat = w]]
            /\ sigchld' = TRUE
       ELSE child' = [child EXCEPT ![p] = NoChild] /\ UNCHANGED sigchld
    /\ pipe' = [c \in Callers |-> [f \in Streams |->
                    IF proc[c].pid = p /\ f \notin kept
                    THEN [pipe[c][f] EXCEPT !.open = FALSE] ELSE pipe[c][f]]]
    /\ proc' = [c \in Callers |-> IF proc[c].pid = p
                                  THEN [proc[c] EXCEPT !.ended = w] ELSE proc[c]]
    /\ UNCHANGED <<table, sigchld_pipe, reaper, pc, wait, result, fini>>
-----------------------------------------------------------------------------
(* The signal handler and the reaper.                                      *)

\* handle_sigchld; signals that arrive before it runs are one signal.
handle_sigchld ==
    /\ sigchld /\ Len(sigchld_pipe) < PipeSize
    /\ sigchld' = FALSE
    /\ sigchld_pipe' = Append(sigchld_pipe, 1)
    /\ UNCHANGED <<table, proc, child, pipe, reaper, pc, wait, result, fini>>

\* sigchld_th: a byte from the pipe, zero to stop.
ReadByte ==
    /\ reaper.at = "read" /\ sigchld_pipe # <<>>
    /\ sigchld_pipe' = Tail(sigchld_pipe)
    /\ reaper' = [reaper EXCEPT !.at = IF Head(sigchld_pipe) = 0 THEN "ended"
                                                                 ELSE "waitpid"]
    /\ UNCHANGED <<table, proc, kernel, pc, wait, result, fini>>

\* Mutant: one child per byte.
NothingToReap_once ==
    /\ reaper.at = "waitpid"
    /\ reaper.pid # NoPid \/ \A p \in Pids : child[p].state # "zombie"
    /\ reaper' = [reaper EXCEPT !.at = "read", !.pid = NoPid]
    /\ UNCHANGED <<table, proc, kernel, sigchld_pipe, pc, wait, result, fini>>

\* waitpid(-1, WNOHANG) finds no dead child: back to the pipe.
NothingToReap ==
    /\ reaper.at = "waitpid"
    /\ \A p \in Pids : child[p].state # "zombie"
    /\ reaper' = [reaper EXCEPT !.at = "read", !.pid = NoPid]
    /\ UNCHANGED <<table, proc, kernel, sigchld_pipe, pc, wait, result, fini>>

\* It reaps one.
Reap(p) ==
    /\ reaper.at = "waitpid"
    /\ child[p].state = "zombie"
    /\ child' = [child EXCEPT ![p] = NoChild]
    /\ reaper' = [at |-> "lookup", pid |-> p, wstat |-> child[p].wstat]
    /\ UNCHANGED <<table, proc, pipe, sigchld, sigchld_pipe, pc, wait, result,
                   fini>>

\* WIFEXITED, WIFSIGNALED.
Ret(w) == IF w.how = "exited" THEN w.n ELSE IF w.how = "signaled" THEN -w.n
          ELSE -128

\* Under the lock: the entry with this pid gets the status ...
Lookup ==
    /\ reaper.at = "lookup" /\ subprocs_mutex = Nobody
    /\ LET found == {c \in subprocs : proc[c].pid = reaper.pid} IN
         \/ /\ found = {}
            /\ reaper' = [reaper EXCEPT !.at = "waitpid"]
            /\ UNCHANGED <<proc, subprocs_mutex>>
         \/ \E c \in found :
              /\ proc' = [proc EXCEPT ![c].ret = Ret(reaper.wstat)]
              /\ subprocs_mutex' = Reaper
              /\ reaper' = [reaper EXCEPT !.at = "post"]
    /\ UNCHANGED <<subprocs, kernel, sigchld_pipe, pc, wait, result, fini>>

\* ... and its semaphore is posted.
Post ==
    /\ reaper.at = "post"
    /\ \E c \in subprocs :
         /\ proc[c].pid = reaper.pid
         /\ proc' = [proc EXCEPT ![c].ret_sem = TRUE]
    /\ subprocs_mutex' = Nobody
    /\ reaper' = [reaper EXCEPT !.at = "waitpid"]
    /\ UNCHANGED <<subprocs, kernel, sigchld_pipe, pc, wait, result, fini>>
-----------------------------------------------------------------------------
(* The callers.                                                            *)

\* A pid the kernel may give to a new child.
IsFresh(p) ==
    /\ child[p].state = "none"
    /\ reaper.pid # p
    /\ \A c \in Callers : proc[c].pid # p

\* Mutant: the lock only protects the push into the table.
Fork_unlocked(c, p) ==
    /\ pc[c] = "idle" /\ fini = "no" /\ p \in usage.pids[c]
    /\ IsFresh(p)
    /\ proc' = [proc EXCEPT ![c] = [NoProc EXCEPT !.pid = p]]
    /\ child' = [child EXCEPT ![p] = [NoChild EXCEPT !.state = "alive"]]
    /\ pipe' = [pipe EXCEPT ![c] = [f \in Streams |->
                                      [data |-> "none", open |-> f \in usage.fds[c]]]]
    /\ Goto(c, "forked")
    /\ UNCHANGED <<table, sigchld, sigchld_pipe, reaper, wait, result, fini>>

\* rz_subprocess_start_opt takes the lock, makes the pipes and forks.  (When
\* one of these fails it undoes the others: nothing has happened.)
Fork(c, p) ==
    /\ pc[c] = "idle" /\ fini = "no" /\ p \in usage.pids[c]
    /\ subprocs_mutex = Nobody
    /\ IsFresh(p)
    /\ subprocs_mutex' = c
    /\ proc' = [proc EXCEPT ![c] = [NoProc EXCEPT !.pid = p]]
    /\ child' = [child EXCEPT ![p] = [NoChild EXCEPT !.state = "alive"]]
    /\ pipe' = [pipe EXCEPT ![c] = [f \in Streams |->
                                      [data |-> "none", open |-> f \in usage.fds[c]]]]
    /\ Goto(c, "forked")
    /\ UNCHANGED <<subprocs, sigchld, sigchld_pipe, reaper, wait, result, fini>>

\* The parent adds the subprocess to the table and releases the lock.
Listed(c) ==
    /\ pc[c] = "forked"
    /\ subprocs' = subprocs \cup {c}
    /\ subprocs_mutex' = Nobody
    /\ Goto(c, "started")
    /\ UNCHANGED <<proc, kernel, sigchld_pipe, reaper, wait, result, fini>>

\* rz_subprocess_wait, rz_subprocess_stdout_read and
\* rz_subprocess_stdout_readline empty the buffer and call subprocess_wait.
\* The last two ask for one byte of stdout.
CallWait(c, call) ==
    /\ pc[c] = "started"
    /\ call = "wait" \/ c \in usage.readers
    /\ wait' = [wait EXCEPT ![c] = [NoWait EXCEPT !.call = call,
                                      !.left = IF call = "wait" THEN 0 ELSE 1]]
    /\ Goto(c, "loop")
    /\ UNCHANGED <<table, proc, kernel, sigchld_pipe, reaper, result, fini>>

\* The pipes subprocess_wait still listens to.
Listening(c) ==
    {f \in usage.fds[c] \ wait[c].eof : f = "stdout" \/ wait[c].call = "wait"}

\* The deadline passes.
Expire(c) ==
    /\ c \in usage.timed /\ pc[c] \in {"loop", "select"} /\ ~wait[c].expired
    /\ wait' = [wait EXCEPT ![c].expired = TRUE]
    /\ UNCHANGED <<table, proc, kernel, sigchld_pipe, reaper, pc, result, fini>>

\* The head of the loop in subprocess_wait.
LoopTest(c) ==
    /\ pc[c] = "loop"
    /\ Goto(c, IF /\ wait[c].call = "wait" \/ wait[c].left > 0
                  /\ Listening(c) # {}
                  /\ ~wait[c].expired
               THEN "select" ELSE "return")
    /\ UNCHANGED <<table, proc, kernel, sigchld_pipe, reaper, wait, result, fini>>

Ready(c) == {f \in Listening(c) : pipe[c][f].data # "none" \/ ~pipe[c][f].open}

\* select returns ready pipes: read_to_strbuf takes a byte or meets the end.
ReadOutput(c) ==
    /\ pc[c] = "select" /\ Ready(c) # {}
    /\ LET bytes == {f \in Ready(c) : pipe[c][f].data # "none"}
           eof == wait[c].eof \cup (Ready(c) \ bytes) IN
         /\ pipe' = [pipe EXCEPT ![c] = [f \in Streams |->
                IF f \in bytes THEN [@[f] EXCEPT !.data = "none"] ELSE @[f]]]
         /\ wait' = [wait EXCEPT ![c] = [@ EXCEPT
                !.timedout = FALSE,
                !.eof = eof,
                !.child_dead = (eof = Streams),
                !.left = IF bytes = {} THEN wait[c].left ELSE 0,
                !.last = IF "stdout" \in bytes THEN pipe[c]["stdout"].data
                                               ELSE wait[c].last]]
    /\ Goto(c, "loop")
    /\ UNCHANGED <<table, proc, child, sigchld, sigchld_pipe, reaper, result, fini>>

\* select returns nothing: the only path that posts ret_sem.
SelectTimesOut(c) ==
    /\ pc[c] = "select" /\ Ready(c) = {} /\ wait[c].expired
    /\ wait' = [wait EXCEPT ![c].timedout = TRUE]
    /\ proc' = [proc EXCEPT ![c].ret_sem = TRUE]
    /\ Goto(c, "return")
    /\ UNCHANGED <<table, kernel, sigchld_pipe, reaper, result, fini>>

\* select is interrupted by a signal.
SelectInterrupted(c) ==
    /\ pc[c] = "select" /\ Ready(c) = {}
    /\ Goto(c, "loop")
    /\ UNCHANGED <<table, proc, kernel, sigchld_pipe, reaper, wait, result, fini>>

Reason(c) == IF wait[c].child_dead THEN "DEAD"
             ELSE IF wait[c].timedout THEN "TIMEDOUT" ELSE "BYTESREAD"

\* subprocess_wait returns from rz_subprocess_wait, and subprocess_runner
\* kills the child if the wait timed out.
WaitReturns(c) ==
    /\ pc[c] = "return" /\ wait[c].call = "wait"
    /\ result' = [result EXCEPT ![c].reason = Reason(c)]
    /\ wait' = [wait EXCEPT ![c] = NoWait]
    /\ Goto(c, IF Reason(c) = "TIMEDOUT" THEN "kill" ELSE "drain")
    /\ UNCHANGED <<table, proc, kernel, sigchld_pipe, reaper, fini>>

\* It returns from rz_subprocess_stdout_read, or into the loop of
\* rz_subprocess_stdout_readline, which starts it again.
ReadReturns(c) ==
    /\ pc[c] = "return" /\ wait[c].call \in {"read", "readline"}
    /\ LET again == /\ wait[c].call = "readline"
                    /\ wait[c].last # "newline"
                    /\ Reason(c) = "BYTESREAD" IN
         /\ Goto(c, IF again THEN "loop" ELSE "started")
         /\ wait' = [wait EXCEPT ![c] =
                       IF again THEN [NoWait EXCEPT !.call = "readline",
                                      !.left = 1, !.last = wait[c].last]
                       ELSE NoWait]
    /\ UNCHANGED <<table, proc, kernel, sigchld_pipe, reaper, result, fini>>

\* rz_subprocess_kill.
Kill(c) ==
    /\ pc[c] = "kill"
    /\ child' = [child EXCEPT ![proc[c].pid] =
                   IF @.state = "alive" THEN [@ EXCEPT !.doomed = TRUE] ELSE @]
    /\ Goto(c, "drain")
    /\ UNCHANGED <<table, proc, pipe, sigchld, sigchld_pipe, reaper, wait,
                   result, fini>>

\* rz_subprocess_drain, that is rz_subprocess_ret.
Drain(c) ==
    /\ pc[c] = "drain"
    /\ proc[c].ret_sem
    /\ result' = [result EXCEPT ![c].ret = proc[c].ret]
    /\ Goto(c, "free")
    /\ UNCHANGED <<table, proc, kernel, sigchld_pipe, reaper, wait, fini>>

\* rz_subprocess_free.
Free(c) ==
    /\ pc[c] = "free" /\ subprocs_mutex = Nobody
    /\ subprocs' = subprocs \ {c}
    /\ proc' = [proc EXCEPT ![c] = NoProc]
    /\ pipe' = [pipe EXCEPT ![c] = [f \in Streams |-> ClosedPipe]]
    /\ result' = [result EXCEPT ![c] = NoResult]
    /\ Goto(c, "idle")
    /\ UNCHANGED <<subprocs_mutex, child, sigchld, sigchld_pipe, reaper, wait,
                   fini>>
-----------------------------------------------------------------------------
(* rz_subprocess_fini, when the callers are gone.                          *)

\* SIGCHLD is ignored, a pending one is dropped.
Ignore ==
    /\ fini = "no" /\ \A c \in Callers : pc[c] = "idle"
    /\ sigchld' = FALSE
    /\ fini' = "ignored"
    /\ UNCHANGED <<table, proc, child, pipe, sigchld_pipe, reaper, pc, wait, result>>

\* The zero byte, and the end of the pipe.
Tell ==
    /\ fini = "ignored" /\ Len(sigchld_pipe) < PipeSize
    /\ sigchld_pipe' = Append(sigchld_pipe, 0)
    /\ fini' = "told"
    /\ UNCHANGED <<table, proc, kernel, reaper, pc, wait, result>>

\* The reaper is joined and the table released.
Joined ==
    /\ fini = "told" /\ reaper.at = "ended"
    /\ fini' = "done"
    /\ UNCHANGED <<table, proc, kernel, sigchld_pipe, reaper, pc, wait, result>>
-----------------------------------------------------------------------------
ReaperStep ==
    \/ ReadByte
    \/ NothingToReap
    \/ \E p \in Pids : Reap(p)
    \/ Lookup
    \/ Post

\* What a caller does inside a call, and its way from one call to the next
\* once it has waited.
CallerStep(c) ==
    \/ Listed(c)
    \/ LoopTest(c)
    \/ ReadOutput(c)
    \/ SelectTimesOut(c)
    \/ WaitReturns(c)
    \/ ReadReturns(c)
    \/ Kill(c)
    \/ Drain(c)
    \/ Free(c)

FiniStep == Tell \/ Joined

ExitStep(p) == \E w \in Wstats, kept \in SUBSET Streams : ChildExits(p, w, kept)

Next ==
    /\ \/ \E c \in Callers :
           \/ \E p \in Pids : Fork(c, p)
           \/ \E call \in {"wait", "read", "readline"} : CallWait(c, call)
           \/ Expire(c)
           \/ SelectInterrupted(c)
           \/ CallerStep(c)
           \/ \E f \in Streams, byte \in {"text", "newline"} : ChildWrites(c, f, byte)
           \/ \E f \in Streams : ChildCloses(c, f)
      \/ \E p \in Pids : ExitStep(p)
      \/ handle_sigchld
      \/ ReaperStep
      \/ Ignore
      \/ FiniStep
    /\ UNCHANGED usage

\* The threads of this process run, signals are delivered, time passes, and a
\* killed child dies.  Nothing is assumed of a child that was not killed.
Fairness ==
    /\ \A c \in Callers : WF_vars(CallerStep(c)) /\ WF_vars(Expire(c))
    /\ WF_vars(handle_sigchld)
    /\ WF_vars(ReaperStep)
    /\ WF_vars(FiniStep)
    /\ \A p \in Pids : WF_vars(child[p].doomed /\ ExitStep(p))

Spec == Init /\ [][Next]_<<vars, usage>> /\ Fairness
-----------------------------------------------------------------------------
(* Properties.                                                             *)

TypeOK ==
    /\ subprocs \subseteq Callers
    /\ subprocs_mutex \in Callers \cup {Reaper, Nobody}
    /\ proc \in [Callers -> [pid : Pids \cup {NoPid}, ret : {-9, -1, 0},
                             ret_sem : BOOLEAN, ended : Wstats \cup {NoStat}]]
    /\ child \in [Pids -> [state : {"none", "alive", "zombie"},
                           wstat : Wstats \cup {NoStat}, doomed : BOOLEAN]]
    /\ pipe \in [Callers -> [Streams -> [data : {"none", "text", "newline"},
                                         open : BOOLEAN]]]
    /\ sigchld \in BOOLEAN
    /\ sigchld_pipe \in Seq({0, 1}) /\ Len(sigchld_pipe) <= PipeSize
    /\ reaper \in [at : {"read", "waitpid", "lookup", "post", "ended"},
                   pid : Pids \cup {NoPid}, wstat : Wstats \cup {NoStat}]
    /\ pc \in [Callers -> {"idle", "forked", "started", "loop", "select",
                           "return", "kill", "drain", "free"}]
    /\ wait \in [Callers -> [call : {"none", "wait", "read", "readline"},
                             left : {0, 1}, eof : SUBSET Streams,
                             timedout : BOOLEAN, child_dead : BOOLEAN,
                             expired : BOOLEAN,
                             last : {"none", "text", "newline"}]]
    /\ result \in [Callers -> [reason : {"none", "DEAD", "TIMEDOUT", "BYTESREAD"},
                               ret : {-9, -1, 0}]]
    /\ fini \in {"no", "ignored", "told", "done"}
    /\ usage \in Usages

\* No exit is lost between fork, signal, pipe and table: a child that ended
\* while its caller has not been told is a zombie for which a signal, a byte
\* or the reaper is on its way, or it is the one in the reaper's hands.
NoLostExit ==
    \A c \in Callers :
        proc[c].ended # NoStat /\ ~proc[c].ret_sem /\ fini = "no" =>
            LET p == proc[c].pid IN
              \/ /\ child[p].state = "zombie"
                 /\ sigchld \/ sigchld_pipe # <<>> \/ reaper.at # "read"
              \/ reaper.at \in {"lookup", "post"} /\ reaper.pid = p

\* "Return value (exit code) of the sub-process" (RzSubprocessOutput.ret):
\* unless the wait timed out, drain returns the status of this very child,
\* after its end.  A caller that reads with a timeout is left out: the post of
\* a read that timed out stays, and a later drain does not wait for the child.
DrainGivesExitCode ==
    \A c \in Callers \ (usage.readers \cap usage.timed) :
        pc[c] = "free" /\ result[c].reason # "TIMEDOUT" =>
            /\ proc[c].ended # NoStat
            /\ result[c].ret = Ret(proc[c].ended)

\* The end of a child reaches its caller: on every way from SIGCHLD to the
\* semaphore something still carries it, and what drain returns is its status.
ExitsAreReported == TypeOK /\ NoLostExit /\ DrainGivesExitCode

\* A status that is there is found: once its child has ended, a caller in
\* drain comes out of it.
DrainReturns ==
    \A c \in Callers :
        pc[c] = "drain" /\ proc[c].ended # NoStat ~> pc[c] = "free"

\* rz_subprocess_fini stops the reaper, whatever children are left.
FiniReturns == fini = "ignored" ~> fini = "done"

\* subprocess_runner kills a child that timed out, so a run with a timeout
\* ends; unless the wait did not report the timeout, because the deadline
\* passed between two reads or both pipes were closed before it, and the
\* child lives on.
Unkilled(c) == pc[c] = "drain" /\ result[c].reason # "TIMEDOUT" /\ ~proc[c].ret_sem

TimedRunEnds ==
    \A c \in Callers :
        pc[c] = "loop" /\ wait[c].call = "wait" /\ c \in usage.timed
            ~> pc[c] = "free" \/ Unkilled(c)

\* drain, a run with a timeout and rz_subprocess_fini return.
CallsReturn == DrainReturns /\ FiniReturns /\ TimedRunEnds
=============================================================================
