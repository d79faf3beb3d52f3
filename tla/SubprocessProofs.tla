-------------------------- MODULE SubprocessProofs --------------------------
(***************************************************************************)
(* RzSubprocess for any number of callers, pids and ways to use it: the    *)
(* end of a child is never lost between the fork, SIGCHLD, the reaper and  *)
(* the table, and drain gives its status.                                  *)
(***************************************************************************)
EXTENDS Subprocess, TLAPS

-----------------------------------------------------------------------------
(* The inductive invariant.                                                *)

InCall == {"loop", "select", "return"}

\* Who has a subprocess, who is in the table, and who holds its lock: the
\* caller between fork and push, or the reaper between the status and the post.
TableFits ==
    /\ \A c \in Callers : pc[c] = "idle" => proc[c] = NoProc
    /\ \A c \in Callers : pc[c] # "idle" => proc[c].pid \in Pids
    /\ \A c, d \in Callers : proc[c].pid = proc[d].pid => c = d \/ proc[c].pid = NoPid
    /\ \A c \in Callers : c \in subprocs <=> pc[c] \notin {"idle", "forked"}
    /\ \A c \in Callers : subprocs_mutex = c <=> pc[c] = "forked"
    /\ subprocs_mutex = Reaper <=> reaper.at = "post"

\* What the kernel holds for the child of a caller.
ChildrenFit ==
    /\ \A p \in Pids : child[p].state = "zombie" => child[p].wstat \in Wstats
    /\ \A c \in Callers : pc[c] # "idle" =>
         /\ child[proc[c].pid].state = "alive" <=> proc[c].ended = NoStat
         /\ child[proc[c].pid].state = "zombie" =>
              child[proc[c].pid].wstat = proc[c].ended

\* The caller has been told: its status is stored and its semaphore posted.
Told(c) == proc[c].ret_sem /\ proc[c].ret = Ret(proc[c].ended)

\* The reaper has reaped the child p and not yet told its caller.
Holds(p) == reaper.at \in {"lookup", "post"} /\ reaper.pid = p

\* A reaped child is in the reaper's hands or its caller has been told.
ReaperFits ==
    /\ reaper.at \in {"lookup", "post"} =>
         /\ reaper.pid \in Pids /\ reaper.wstat \in Wstats
         /\ child[reaper.pid].state = "none"
         /\ \A c \in Callers : proc[c].pid = reaper.pid =>
              /\ proc[c].ended = reaper.wstat
              /\ reaper.at = "post" => proc[c].ret = Ret(proc[c].ended)
    /\ \A c \in Callers : pc[c] # "idle" /\ child[proc[c].pid].state = "none" =>
         Holds(proc[c].pid) \/ Told(c)

\* While there is a dead child, something makes the reaper look for it.
SignalsFit ==
    /\ fini = "no" =>
         /\ reaper.at # "ended"
         /\ \A k \in 1..Len(sigchld_pipe) : sigchld_pipe[k] = 1
         /\ \A p \in Pids : child[p].state = "zombie" =>
              sigchld \/ sigchld_pipe # <<>> \/ reaper.at # "read"
    /\ fini # "no" => \A c \in Callers : pc[c] = "idle"

\* The locals of subprocess_wait.
WaitsFit ==
    \A c \in Callers :
        /\ wait[c].child_dead => wait[c].eof = Streams
        /\ wait[c].expired => c \in usage.timed
        /\ pc[c] = "select" => Listening(c) # {}
        /\ pc[c] \in InCall /\ c \notin usage.readers => wait[c].call = "wait"

\* The wait of c timed out and posted the semaphore itself.
TimedOut(c) ==
    \/ pc[c] = "return" /\ wait[c].call = "wait" /\ Reason(c) = "TIMEDOUT"
    \/ pc[c] \in {"kill", "drain", "free"} /\ result[c].reason = "TIMEDOUT"

\* A posted semaphore means an end that was stored, or a wait that timed out.
PostsFit ==
    \A c \in Callers \ (usage.readers \cap usage.timed) :
        proc[c].ret_sem =>
            \/ proc[c].ended # NoStat /\ proc[c].ret = Ret(proc[c].ended)
            \/ TimedOut(c)

ExitInv ==
    /\ TypeOK
    /\ TableFits
    /\ ChildrenFit
    /\ ReaperFits
    /\ SignalsFit
    /\ WaitsFit
    /\ PostsFit
    /\ DrainGivesExitCode
-----------------------------------------------------------------------------
(* Types.                                                                  *)

Stats == Wstats \cup {NoStat}
Procs == [pid : Pids \cup {NoPid}, ret : {-9, -1, 0}, ret_sem : BOOLEAN, ended : Stats]
Children == [state : {"none", "alive", "zombie"}, wstat : Stats, doomed : BOOLEAN]
Bytes == {"none", "text", "newline"}
Pipes == [data : Bytes, open : BOOLEAN]
Reapers == [at : {"read", "waitpid", "lookup", "post", "ended"},
            pid : Pids \cup {NoPid}, wstat : Stats]
Pcs == {"idle", "forked", "started", "loop", "select", "return", "kill", "drain", "free"}
Calls == {"none", "wait", "read", "readline"}
Waits == [call : Calls, left : {0, 1}, eof : SUBSET Streams, timedout : BOOLEAN,
          child_dead : BOOLEAN, expired : BOOLEAN, last : Bytes]
Reasons == {"none", "DEAD", "TIMEDOUT", "BYTESREAD"}
Results == [reason : Reasons, ret : {-9, -1, 0}]

\* TypeOK in parts.
TableTypes == subprocs \subseteq Callers /\ subprocs_mutex \in Callers \cup {Reaper, Nobody}
ProcTypes == proc \in [Callers -> Procs]
ChildTypes == child \in [Pids -> Children]
PipeTypes == pipe \in [Callers -> [Streams -> Pipes]]
SignalTypes ==
    /\ sigchld \in BOOLEAN
    /\ sigchld_pipe \in Seq({0, 1}) /\ Len(sigchld_pipe) <= PipeSize
    /\ fini \in {"no", "ignored", "told", "done"}
ReaperTypes == reaper \in Reapers
CallerTypes == pc \in [Callers -> Pcs] /\ wait \in [Callers -> Waits]
ResultTypes == result \in [Callers -> Results]

Types ==
    /\ TableTypes /\ ProcTypes /\ ChildTypes /\ PipeTypes /\ SignalTypes
    /\ ReaperTypes /\ CallerTypes /\ ResultTypes /\ usage \in Usages

LEMMA TypesAreTypeOK == TypeOK <=> Types
    BY DEF TypeOK, Types, TableTypes, ProcTypes, ChildTypes, PipeTypes, SignalTypes,
           ReaperTypes, CallerTypes, ResultTypes, Stats, Procs, Children, Bytes, Pipes,
           Reapers, Pcs, Calls, Waits, Reasons, Results

LEMMA TypesAreTypeOKNext == TypeOK' <=> Types'
    BY DEF TypeOK, Types, TableTypes, ProcTypes, ChildTypes, PipeTypes, SignalTypes,
           ReaperTypes, CallerTypes, ResultTypes, Stats, Procs, Children, Bytes, Pipes,
           Reapers, Pcs, Calls, Waits, Reasons, Results

\* The records the operations start from.
LEMMA FirstRecords ==
    /\ NoProc \in Procs /\ NoChild \in Children /\ NoWait \in Waits
    /\ NoResult \in Results /\ ClosedPipe \in Pipes
    BY DEF NoProc, NoChild, NoWait, NoResult, ClosedPipe, Procs, Children, Waits, Results,
           Pipes, Stats, Bytes, Calls, Reasons

\* The parts of a record that they change.
LEMMA ProcUpdates ==
    ASSUME NEW r \in Procs
    PROVE  /\ [r EXCEPT !.ret_sem = TRUE] \in Procs
           /\ \A n \in {-9, -1, 0} : [r EXCEPT !.ret = n] \in Procs
           /\ \A p \in Pids : [r EXCEPT !.pid = p] \in Procs
           /\ \A w \in Stats : [r EXCEPT !.ended = w] \in Procs
    BY DEF Procs

LEMMA ChildUpdates ==
    ASSUME NEW r \in Children
    PROVE  /\ [r EXCEPT !.doomed = TRUE] \in Children
           /\ [r EXCEPT !.state = "alive"] \in Children
           /\ \A w \in Stats : [r EXCEPT !.state = "zombie", !.wstat = w] \in Children
    BY DEF Children

LEMMA PipeUpdates ==
    ASSUME NEW r \in Pipes
    PROVE  /\ [r EXCEPT !.open = FALSE] \in Pipes
           /\ \A b \in Bytes : [r EXCEPT !.data = b] \in Pipes
    BY DEF Pipes

LEMMA ReaperUpdates ==
    ASSUME NEW r \in Reapers
    PROVE  /\ \A l \in {"read", "waitpid", "lookup", "post", "ended"} :
                [r EXCEPT !.at = l] \in Reapers
           /\ [r EXCEPT !.at = "read", !.pid = NoPid] \in Reapers
           /\ \A p \in Pids, w \in Stats : [at |-> "lookup", pid |-> p, wstat |-> w] \in Reapers
    BY DEF Reapers

LEMMA WaitUpdates ==
    ASSUME NEW r \in Waits
    PROVE  /\ [r EXCEPT !.expired = TRUE] \in Waits
           /\ [r EXCEPT !.timedout = TRUE] \in Waits
           /\ \A call \in Calls, left \in {0, 1} :
                [r EXCEPT !.call = call, !.left = left] \in Waits
           /\ \A last \in Bytes :
                [r EXCEPT !.call = "readline", !.left = 1, !.last = last] \in Waits
           /\ \A eof \in SUBSET Streams, left \in {0, 1}, last \in Bytes, dead \in BOOLEAN :
                [r EXCEPT !.timedout = FALSE, !.eof = eof, !.child_dead = dead,
                          !.left = left, !.last = last] \in Waits
    BY DEF Waits, Calls

LEMMA ResultUpdates ==
    ASSUME NEW r \in Results
    PROVE  /\ \A n \in {-9, -1, 0} : [r EXCEPT !.ret = n] \in Results
           /\ \A x \in Reasons : [r EXCEPT !.reason = x] \in Results
    BY DEF Results

\* A status that waitpid reports becomes an exit code.
LEMMA RetType == \A w \in Wstats : Ret(w) \in {-9, 0}
    BY DEF Ret, Wstats

\* rz_subprocess_init establishes the invariant.
LEMMA InitExit == Init => ExitInv
    <1> SUFFICES ASSUME Init PROVE ExitInv
        OBVIOUS
    <1>1. TypeOK
        <2>1. reaper \in Reapers
            BY DEF Init, Reapers, Stats
        <2>2. SignalTypes
            <3>1. PipeSize \in Nat \ {0}
                BY SubprocessAssumption
            <3>2. sigchld \in BOOLEAN /\ sigchld_pipe = <<>> /\ fini = "no"
                BY DEF Init
            <3> QED
                BY <3>1, <3>2 DEF SignalTypes
        <2>3. TableTypes
            BY DEF Init, TableTypes
        <2>6. ProcTypes
            BY FirstRecords DEF Init, ProcTypes
        <2>7. ChildTypes
            BY FirstRecords DEF Init, ChildTypes
        <2>8. ResultTypes
            BY FirstRecords DEF Init, ResultTypes
        <2>4. PipeTypes
            BY FirstRecords DEF Init, PipeTypes
        <2>5. CallerTypes
            BY FirstRecords DEF Init, CallerTypes, Pcs
        <2> QED
            BY <2>1, <2>2, <2>3, <2>4, <2>5, <2>6, <2>7, <2>8, TypesAreTypeOK DEF Types, ReaperTypes, Init
    <1>2. TableFits
        BY SubprocessAssumption DEF Init, TableFits, NoProc
    <1>3. ChildrenFit /\ ReaperFits
        BY DEF Init, ChildrenFit, ReaperFits, NoChild
    <1>4. SignalsFit
        BY DEF Init, SignalsFit, NoChild
    <1>5. WaitsFit
        BY DEF Init, WaitsFit, NoWait, InCall
    <1>6. PostsFit /\ DrainGivesExitCode
        BY DEF Init, PostsFit, DrainGivesExitCode, NoProc
    <1> QED
        BY <1>1, <1>2, <1>3, <1>4, <1>5, <1>6 DEF ExitInv

\* Every operation keeps the types.  First the children.
LEMMA ChildrenKeepTypes ==
    ASSUME TypeOK, UNCHANGED usage
    PROVE  /\ \A c \in Callers, f \in Streams, byte \in {"text", "newline"} :
                ChildWrites(c, f, byte) => TypeOK'
           /\ \A c \in Callers, f \in Streams : ChildCloses(c, f) => TypeOK'
           /\ \A p \in Pids : ExitStep(p) => TypeOK'
    <1> USE TypesAreTypeOK, TypesAreTypeOKNext DEF Types
    <1>1. ASSUME NEW c \in Callers, NEW f \in Streams,
                 NEW byte \in {"text", "newline"}, ChildWrites(c, f, byte)
          PROVE  TypeOK'
        <2>1. pipe' = [pipe EXCEPT ![c][f].data = byte] /\ byte \in Bytes
            BY <1>1 DEF ChildWrites, Bytes
        <2>2. PipeTypes'
            BY <2>1, PipeUpdates DEF PipeTypes
        <2>3. /\ TableTypes' /\ ProcTypes' /\ ChildTypes' /\ SignalTypes' /\ ReaperTypes'
              /\ CallerTypes' /\ ResultTypes'
            BY <1>1 DEF ChildWrites, table, TableTypes, ProcTypes, ChildTypes, SignalTypes,
                        ReaperTypes, CallerTypes, ResultTypes
        <2> QED
            BY <2>2, <2>3
    <1>2. ASSUME NEW c \in Callers, NEW f \in Streams, ChildCloses(c, f)
          PROVE  TypeOK'
        <2>1. pipe' = [pipe EXCEPT ![c][f].open = FALSE]
            BY <1>2 DEF ChildCloses
        <2>2. PipeTypes'
            BY <2>1, PipeUpdates DEF PipeTypes
        <2>3. /\ TableTypes' /\ ProcTypes' /\ ChildTypes' /\ SignalTypes' /\ ReaperTypes'
              /\ CallerTypes' /\ ResultTypes'
            BY <1>2 DEF ChildCloses, table, TableTypes, ProcTypes, ChildTypes, SignalTypes,
                        ReaperTypes, CallerTypes, ResultTypes
        <2> QED
            BY <2>2, <2>3
    <1>3. ASSUME NEW p \in Pids, ExitStep(p)
          PROVE  TypeOK'
        <2> PICK w \in Wstats, kept \in SUBSET Streams : ChildExits(p, w, kept)
            BY <1>3 DEF ExitStep
        <2>0. w \in Stats
            BY DEF Stats
        <2>1. TableTypes' /\ ReaperTypes' /\ CallerTypes' /\ ResultTypes'
            BY DEF ChildExits, table, TableTypes, ReaperTypes, CallerTypes, ResultTypes
        <2>2. ProcTypes'
            BY <2>0, ProcUpdates DEF ChildExits, ProcTypes
        <2>3. PipeTypes'
            BY PipeUpdates DEF ChildExits, PipeTypes
        <2>4. ChildTypes'
            <3>1. PICK x \in Children : child' = [child EXCEPT ![p] = x]
                <4>1. child[p] \in Children
                    BY DEF ChildTypes
                <4>2. /\ [child[p] EXCEPT !.state = "zombie", !.wstat = w] \in Children
                      /\ NoChild \in Children
                    BY <4>1, <2>0, ChildUpdates, FirstRecords
                <4> QED
                    BY <4>2 DEF ChildExits
            <3> QED
                BY <3>1 DEF ChildTypes
        <2>5. SignalTypes'
            BY DEF ChildExits, SignalTypes
        <2> QED
            BY <2>1, <2>2, <2>3, <2>4, <2>5
    <1> QED
        BY <1>1, <1>2, <1>3

\* The handler and the reaper.
LEMMA ReaperKeepsTypes ==
    ASSUME TypeOK, ReaperFits, UNCHANGED usage, handle_sigchld \/ ReaperStep
    PROVE  TypeOK'
    <1> USE TypesAreTypeOK, TypesAreTypeOKNext DEF Types
    <1>1. CASE handle_sigchld
        <2>1. SignalTypes'
            <3>1. PipeSize \in Nat \ {0}
                BY SubprocessAssumption
            <3>2. /\ sigchld' \in BOOLEAN /\ fini' = fini /\ Len(sigchld_pipe) < PipeSize
                  /\ sigchld_pipe' = Append(sigchld_pipe, 1)
                BY <1>1 DEF handle_sigchld
            <3>3. sigchld_pipe \in Seq({0, 1}) /\ fini \in {"no", "ignored", "told", "done"}
                BY DEF SignalTypes
            <3>4. sigchld_pipe' \in Seq({0, 1}) /\ Len(sigchld_pipe') <= PipeSize
                BY <3>1, <3>2, <3>3
            <3> QED
                BY <3>2, <3>3, <3>4 DEF SignalTypes
        <2>2. UNCHANGED <<subprocs, subprocs_mutex, proc, child, pipe, reaper, pc, wait,
                          result>>
            BY <1>1 DEF handle_sigchld, table
        <2> QED
            BY <2>1, <2>2 DEF TableTypes, ProcTypes, ChildTypes, PipeTypes, ReaperTypes,
                              CallerTypes, ResultTypes
    <1>2. CASE ReadByte
        <2>1. SignalTypes'
            BY <1>2, SubprocessAssumption DEF ReadByte, SignalTypes, kernel
        <2>2. ReaperTypes'
            BY <1>2, ReaperUpdates DEF ReadByte, ReaperTypes
        <2> QED
            BY <1>2, <2>1, <2>2 DEF ReadByte, table, kernel, TableTypes, ProcTypes, ChildTypes,
                              PipeTypes, CallerTypes, ResultTypes
    <1>3. CASE NothingToReap
        <2>1. ReaperTypes'
            BY <1>3, ReaperUpdates DEF NothingToReap, ReaperTypes
        <2> QED
            BY <1>3, <2>1 DEF NothingToReap, table, kernel, TableTypes, ProcTypes, ChildTypes,
                              PipeTypes, SignalTypes, CallerTypes, ResultTypes
    <1>4. ASSUME NEW p \in Pids, Reap(p) PROVE TypeOK'
        <2>1. child[p].wstat \in Stats
            BY DEF ChildTypes, Children
        <2>2. ReaperTypes'
            BY <1>4, <2>1, ReaperUpdates DEF Reap, ReaperTypes
        <2>3. ChildTypes'
            BY <1>4, FirstRecords DEF Reap, ChildTypes
        <2> QED
            BY <1>4, <2>2, <2>3 DEF Reap, table, TableTypes, ProcTypes,
                              PipeTypes, SignalTypes, CallerTypes, ResultTypes
    <1>5. CASE Lookup
        <2>1. Ret(reaper.wstat) \in {-9, -1, 0}
            BY <1>5, RetType DEF ReaperFits, Lookup
        <2>2. ReaperTypes'
            BY <1>5, ReaperUpdates DEF Lookup, ReaperTypes
        <2>3. ProcTypes'
            <3>1. CASE UNCHANGED proc
                BY <3>1 DEF ProcTypes
            <3>2. ASSUME NEW c \in subprocs,
                         proc' = [proc EXCEPT ![c].ret = Ret(reaper.wstat)]
                  PROVE  ProcTypes'
                BY <3>2, <2>1, ProcUpdates DEF ProcTypes, TableTypes
            <3> QED
                BY <1>5, <3>1, <3>2 DEF Lookup
        <2>4. TableTypes'
            BY <1>5 DEF Lookup, TableTypes
        <2> QED
            BY <1>5, <2>2, <2>3, <2>4 DEF Lookup, kernel, ChildTypes,
                              PipeTypes, SignalTypes, CallerTypes, ResultTypes
    <1>6. CASE Post
        <2>1. ReaperTypes'
            BY <1>6, ReaperUpdates DEF Post, ReaperTypes
        <2>2. ProcTypes'
            BY <1>6, ProcUpdates DEF Post, ProcTypes
        <2>3. TableTypes'
            BY <1>6 DEF Post, TableTypes
        <2> QED
            BY <1>6, <2>1, <2>2, <2>3 DEF Post, kernel, ChildTypes,
                              PipeTypes, SignalTypes, CallerTypes, ResultTypes
    <1> QED
        BY <1>1, <1>2, <1>3, <1>4, <1>5, <1>6 DEF ReaperStep

\* rz_subprocess_start_opt.
LEMMA StartKeepsTypes ==
    ASSUME TypeOK, UNCHANGED usage, NEW c \in Callers
    PROVE  /\ \A p \in Pids : Fork(c, p) => TypeOK'
           /\ Listed(c) => TypeOK'
    <1> USE TypesAreTypeOK, TypesAreTypeOKNext DEF Types
    <1>1. ASSUME NEW p \in Pids, Fork(c, p) PROVE TypeOK'
        <2>1. ProcTypes'
            <3>1. [NoProc EXCEPT !.pid = p] \in Procs
                BY FirstRecords, ProcUpdates
            <3> QED
                BY <3>1, <1>1 DEF Fork, ProcTypes
        <2>2. ChildTypes'
            <3>1. [NoChild EXCEPT !.state = "alive"] \in Children
                BY FirstRecords, ChildUpdates
            <3> QED
                BY <3>1, <1>1 DEF Fork, ChildTypes
        <2>3. PipeTypes'
            <3>1. \A b \in BOOLEAN : [data |-> "none", open |-> b] \in Pipes
                BY DEF Pipes, Bytes
            <3>2. [f \in Streams |-> [data |-> "none", open |-> f \in usage.fds[c]]]
                    \in [Streams -> Pipes]
                <4>1. \A f \in Streams : (f \in usage.fds[c]) \in BOOLEAN
                    OBVIOUS
                <4> QED
                    BY <3>1, <4>1
            <3> QED
                BY <3>2, <1>1 DEF Fork, PipeTypes
        <2>4. CallerTypes' /\ TableTypes'
            BY <1>1 DEF Fork, CallerTypes, TableTypes, Pcs, Goto
        <2> QED
            BY <1>1, <2>1, <2>2, <2>3, <2>4 DEF Fork, SignalTypes, ReaperTypes, ResultTypes
    <1>2. ASSUME Listed(c) PROVE TypeOK'
        <2>1. CallerTypes' /\ TableTypes'
            BY <1>2 DEF Listed, CallerTypes, TableTypes, Pcs, Goto
        <2> QED
            BY <1>2, <2>1 DEF Listed, kernel, ProcTypes, ChildTypes, PipeTypes, SignalTypes,
                              ReaperTypes, ResultTypes
    <1> QED
        BY <1>1, <1>2

\* A step of subprocess_wait that only moves its caller and its locals.
LEMMA WaitFrame ==
    ASSUME TypeOK, UNCHANGED usage, NEW c \in Callers, NEW w \in Waits, NEW l \in Pcs,
           pc' = [pc EXCEPT ![c] = l], wait' = [wait EXCEPT ![c] = w],
           UNCHANGED <<subprocs, subprocs_mutex, child, sigchld, sigchld_pipe, reaper, fini>>,
           ProcTypes', PipeTypes', ResultTypes'
    PROVE  TypeOK'
    <1>1. CallerTypes'
        BY TypesAreTypeOK DEF Types, CallerTypes
    <1> QED
        BY <1>1, TypesAreTypeOK, TypesAreTypeOKNext
        DEF Types, TableTypes, ChildTypes, SignalTypes, ReaperTypes

\* The calls that wait.
LEMMA WaitsKeepTypes ==
    ASSUME TypeOK, UNCHANGED usage, NEW c \in Callers
    PROVE  /\ \A call \in {"wait", "read", "readline"} : CallWait(c, call) => TypeOK'
           /\ Expire(c) \/ LoopTest(c) \/ ReadOutput(c) \/ SelectTimesOut(c) => TypeOK'
           /\ SelectInterrupted(c) \/ WaitReturns(c) \/ ReadReturns(c) => TypeOK'
    <1>0. /\ ProcTypes /\ PipeTypes /\ ResultTypes /\ CallerTypes
          /\ wait[c] \in Waits /\ pc[c] \in Pcs /\ wait = [wait EXCEPT ![c] = wait[c]]
          /\ pc = [pc EXCEPT ![c] = pc[c]] /\ wait[c].last \in Bytes
        BY TypesAreTypeOK DEF Types, CallerTypes, Waits
    <1>1. ASSUME NEW call \in {"wait", "read", "readline"}, CallWait(c, call)
          PROVE  TypeOK'
        <2>1. PICK left \in {0, 1} :
                 wait' = [wait EXCEPT ![c] = [NoWait EXCEPT !.call = call, !.left = left]]
            BY <1>1 DEF CallWait
        <2>2. [NoWait EXCEPT !.call = call, !.left = left] \in Waits
            <3>1. call \in Calls
                BY DEF Calls
            <3> QED
                BY <3>1, FirstRecords, WaitUpdates
        <2>3. /\ pc' = [pc EXCEPT ![c] = "loop"] /\ "loop" \in Pcs
              /\ UNCHANGED <<subprocs, subprocs_mutex, proc, child, pipe, sigchld,
                             sigchld_pipe, reaper, result, fini>>
            BY <1>1 DEF CallWait, Goto, table, kernel, Pcs
        <2>4. ProcTypes' /\ PipeTypes' /\ ResultTypes'
            BY <1>0, <2>3 DEF ProcTypes, PipeTypes, ResultTypes
        <2> QED
            BY <2>1, <2>2, <2>3, <2>4, WaitFrame
    <1>2. CASE Expire(c)
        <2>1. /\ wait' = [wait EXCEPT ![c] = [wait[c] EXCEPT !.expired = TRUE]]
              /\ UNCHANGED <<subprocs, subprocs_mutex, proc, child, pipe, sigchld,
                             sigchld_pipe, reaper, pc, result, fini>>
            BY <1>2 DEF Expire, table, kernel
        <2>2. [wait[c] EXCEPT !.expired = TRUE] \in Waits
            BY <1>0, WaitUpdates
        <2>3. ProcTypes' /\ PipeTypes' /\ ResultTypes'
            BY <1>0, <2>1 DEF ProcTypes, PipeTypes, ResultTypes
        <2> QED
            BY <1>0, <2>1, <2>2, <2>3, WaitFrame
    <1>3. CASE LoopTest(c) \/ SelectInterrupted(c)
        <2>1. PICK l \in Pcs : pc' = [pc EXCEPT ![c] = l]
            BY <1>3 DEF LoopTest, SelectInterrupted, Goto, Pcs
        <2>2. UNCHANGED <<subprocs, subprocs_mutex, proc, child, pipe, sigchld,
                             sigchld_pipe, reaper, wait, result, fini>>
            BY <1>3 DEF LoopTest, SelectInterrupted, table, kernel
        <2>3. ProcTypes' /\ PipeTypes' /\ ResultTypes'
            BY <1>0, <2>2 DEF ProcTypes, PipeTypes, ResultTypes
        <2> QED
            BY <1>0, <2>1, <2>2, <2>3, WaitFrame
    <1>4. CASE ReadOutput(c)
        <2> DEFINE bytes == {f \in Ready(c) : pipe[c][f].data # "none"}
                   eof == wait[c].eof \cup (Ready(c) \ bytes)
                   left == IF bytes = {} THEN wait[c].left ELSE 0
                   last == IF "stdout" \in bytes THEN pipe[c]["stdout"].data
                                                 ELSE wait[c].last
                   w == [wait[c] EXCEPT !.timedout = FALSE, !.eof = eof,
                                !.child_dead = (eof = Streams), !.left = left, !.last = last]
        <2>1. wait' = [wait EXCEPT ![c] = w]
            BY <1>4 DEF ReadOutput
        <2>2. w \in Waits
            <3>1. Ready(c) \subseteq Streams
                BY SubprocessAssumption, TypesAreTypeOK DEF Ready, Listening, Types, Streams
            <3>2. eof \subseteq Streams
                BY <3>1, <1>0 DEF Waits
            <3>3. left \in {0, 1}
                BY <1>0 DEF Waits
            <3>4. pipe[c]["stdout"].data \in Bytes
                BY <1>0 DEF PipeTypes, Pipes, Streams
            <3>5. last \in Bytes /\ (eof = Streams) \in BOOLEAN
                BY <3>4, <1>0
            <3> HIDE DEF bytes, eof, left, last
            <3> QED
                BY <1>0, <3>2, <3>3, <3>5, WaitUpdates
        <2>3. /\ pc' = [pc EXCEPT ![c] = "loop"] /\ "loop" \in Pcs
              /\ UNCHANGED <<subprocs, subprocs_mutex, proc, child, sigchld,
                             sigchld_pipe, reaper, result, fini>>
            BY <1>4 DEF ReadOutput, Goto, table, Pcs
        <2>4. PipeTypes'
            <3>1. PICK g : /\ g = [f \in Streams |-> IF f \in bytes
                                      THEN [pipe[c][f] EXCEPT !.data = "none"] ELSE pipe[c][f]]
                           /\ pipe' = [pipe EXCEPT ![c] = g]
                BY <1>4 DEF ReadOutput
            <3>2. \A f \in Streams : /\ pipe[c][f] \in Pipes
                                     /\ [pipe[c][f] EXCEPT !.data = "none"] \in Pipes
                BY <1>0, PipeUpdates DEF PipeTypes, Bytes
            <3>3. g \in [Streams -> Pipes]
                BY <3>1, <3>2
            <3> QED
                BY <1>0, <3>1, <3>3 DEF PipeTypes
        <2>5. ProcTypes' /\ ResultTypes'
            BY <1>0, <2>3 DEF ProcTypes, ResultTypes
        <2> HIDE DEF w
        <2>6. PICK v : v = w
            OBVIOUS
        <2> QED
            BY <2>1, <2>2, <2>3, <2>4, <2>5, <2>6, WaitFrame
    <1>5. CASE SelectTimesOut(c)
        <2>1. /\ wait' = [wait EXCEPT ![c] = [wait[c] EXCEPT !.timedout = TRUE]]
              /\ proc' = [proc EXCEPT ![c] = [proc[c] EXCEPT !.ret_sem = TRUE]]
              /\ pc' = [pc EXCEPT ![c] = "return"] /\ "return" \in Pcs
              /\ UNCHANGED <<subprocs, subprocs_mutex, child, pipe, sigchld,
                             sigchld_pipe, reaper, result, fini>>
            BY <1>5 DEF SelectTimesOut, Goto, table, kernel, Pcs
        <2>2. [wait[c] EXCEPT !.timedout = TRUE] \in Waits
            BY <1>0, WaitUpdates
        <2>3. ProcTypes'
            BY <1>0, <2>1, ProcUpdates DEF ProcTypes
        <2>4. PipeTypes' /\ ResultTypes'
            BY <1>0, <2>1 DEF PipeTypes, ResultTypes
        <2> QED
            BY <2>1, <2>2, <2>3, <2>4, WaitFrame
    <1>6. CASE WaitReturns(c)
        <2>1. /\ wait' = [wait EXCEPT ![c] = NoWait]
              /\ UNCHANGED <<subprocs, subprocs_mutex, proc, child, pipe, sigchld,
                             sigchld_pipe, reaper, fini>>
              /\ result' = [result EXCEPT ![c] = [result[c] EXCEPT !.reason = Reason(c)]]
            BY <1>6 DEF WaitReturns, table, kernel
        <2>2. PICK l \in Pcs : pc' = [pc EXCEPT ![c] = l]
            BY <1>6 DEF WaitReturns, Goto, Pcs
        <2>3. Reason(c) \in Reasons
            BY DEF Reason, Reasons
        <2>4. ResultTypes'
            BY <1>0, <2>1, <2>3, ResultUpdates DEF ResultTypes
        <2>5. ProcTypes' /\ PipeTypes'
            BY <1>0, <2>1 DEF ProcTypes, PipeTypes
        <2> QED
            BY <2>1, <2>2, <2>4, <2>5, FirstRecords, WaitFrame
    <1>7. CASE ReadReturns(c)
        <2>1. UNCHANGED <<subprocs, subprocs_mutex, proc, child, pipe, sigchld,
                          sigchld_pipe, reaper, result, fini>>
            BY <1>7 DEF ReadReturns, table, kernel
        <2>2. PICK l \in Pcs : pc' = [pc EXCEPT ![c] = l]
            BY <1>7 DEF ReadReturns, Goto, Pcs
        <2>3. [NoWait EXCEPT !.call = "readline", !.left = 1, !.last = wait[c].last] \in Waits
            BY <1>0, FirstRecords, WaitUpdates
        <2>4. PICK w \in Waits : wait' = [wait EXCEPT ![c] = w]
            BY <1>7, <2>3, FirstRecords DEF ReadReturns
        <2>5. ProcTypes' /\ PipeTypes' /\ ResultTypes'
            BY <1>0, <2>1 DEF ProcTypes, PipeTypes, ResultTypes
        <2> QED
            BY <2>1, <2>2, <2>4, <2>5, WaitFrame
    <1> QED
        BY <1>1, <1>2, <1>3, <1>4, <1>5, <1>6, <1>7

\* What comes after the wait.
LEMMA EndKeepsTypes ==
    ASSUME TypeOK, TableFits, UNCHANGED usage, NEW c \in Callers
    PROVE  Kill(c) \/ Drain(c) \/ Free(c) => TypeOK'
    <1> USE TypesAreTypeOK, TypesAreTypeOKNext DEF Types
    <1>1. CASE Kill(c)
        <2>1. CallerTypes'
            BY <1>1 DEF Kill, CallerTypes, Goto, Pcs
        <2>2. ChildTypes'
            <3>1. proc[c].pid \in Pids
                BY <1>1 DEF Kill, TableFits
            <3>2. PICK x \in Children : child' = [child EXCEPT ![proc[c].pid] = x]
                <4>1. /\ child[proc[c].pid] \in Children
                      /\ [child[proc[c].pid] EXCEPT !.doomed = TRUE] \in Children
                    BY <3>1, ChildUpdates DEF ChildTypes
                <4> QED
                    BY <4>1, <1>1 DEF Kill
            <3> QED
                BY <3>1, <3>2 DEF ChildTypes
        <2> QED
            BY <1>1, <2>1, <2>2 DEF Kill, table, TableTypes, ProcTypes, PipeTypes, SignalTypes,
                                    ReaperTypes, ResultTypes
    <1>2. CASE Drain(c)
        <2>1. CallerTypes'
            BY <1>2 DEF Drain, CallerTypes, Goto, Pcs
        <2>2. proc[c].ret \in {-9, -1, 0}
            BY DEF ProcTypes, Procs
        <2>3. ResultTypes'
            BY <1>2, <2>2, ResultUpdates DEF Drain, ResultTypes
        <2> QED
            BY <1>2, <2>1, <2>3 DEF Drain, table, kernel, TableTypes, ProcTypes, ChildTypes,
                                    PipeTypes, SignalTypes, ReaperTypes
    <1>3. CASE Free(c)
        <2>1. CallerTypes'
            BY <1>3 DEF Free, CallerTypes, Goto, Pcs
        <2>2. ProcTypes'
            BY <1>3, FirstRecords DEF Free, ProcTypes
        <2>3. ResultTypes'
            BY <1>3, FirstRecords DEF Free, ResultTypes
        <2>4. PipeTypes'
            <3>1. [f \in Streams |-> ClosedPipe] \in [Streams -> Pipes]
                BY FirstRecords
            <3> QED
                BY <3>1, <1>3 DEF Free, PipeTypes
        <2>5. TableTypes'
            BY <1>3 DEF Free, TableTypes
        <2> QED
            BY <1>3, <2>1, <2>2, <2>3, <2>4, <2>5 DEF Free, ChildTypes, SignalTypes, ReaperTypes
    <1> QED
        BY <1>1, <1>2, <1>3

\* rz_subprocess_fini.
LEMMA FiniKeepsTypes ==
    ASSUME TypeOK, UNCHANGED usage, Ignore \/ FiniStep
    PROVE  TypeOK'
    <1> USE TypesAreTypeOK, TypesAreTypeOKNext DEF Types
    <1>1. UNCHANGED <<subprocs, subprocs_mutex, proc, child, pipe, reaper, pc, wait, result>>
        BY DEF Ignore, FiniStep, Tell, Joined, table, kernel
    <1>2. SignalTypes'
        <2>1. PipeSize \in Nat \ {0}
            BY SubprocessAssumption
        <2>2. /\ sigchld \in BOOLEAN /\ sigchld_pipe \in Seq({0, 1})
              /\ Len(sigchld_pipe) <= PipeSize
            BY DEF SignalTypes
        <2>3. sigchld' \in BOOLEAN /\ fini' \in {"ignored", "told", "done"}
            BY <2>2 DEF Ignore, FiniStep, Tell, Joined, kernel
        <2>4. \/ UNCHANGED sigchld_pipe
              \/ Len(sigchld_pipe) < PipeSize /\ sigchld_pipe' = Append(sigchld_pipe, 0)
            BY DEF Ignore, FiniStep, Tell, Joined
        <2>5. sigchld_pipe' \in Seq({0, 1}) /\ Len(sigchld_pipe') <= PipeSize
            BY <2>1, <2>2, <2>4
        <2> QED
            BY <2>3, <2>5 DEF SignalTypes
    <1> QED
        BY <1>1, <1>2 DEF TableTypes, ProcTypes, ChildTypes, PipeTypes, ReaperTypes,
                          CallerTypes, ResultTypes
-----------------------------------------------------------------------------
(* The steps of a caller that has its subprocess in the table.             *)

\* Such a step leaves the pids, the statuses and the reaper alone.
LEMMA CallerFrame ==
    ASSUME TypeOK, TableFits, ChildrenFit, ReaperFits, SignalsFit,
           NEW c \in Callers, NEW l,
           pc[c] \notin {"idle", "forked"}, l \notin {"idle", "forked"},
           pc' = [pc EXCEPT ![c] = l],
           UNCHANGED <<subprocs, subprocs_mutex, sigchld, sigchld_pipe, reaper, fini>>,
           \A p \in Pids : /\ child'[p].state = child[p].state
                           /\ child'[p].wstat = child[p].wstat,
           \A d \in Callers : /\ proc'[d].pid = proc[d].pid
                              /\ proc'[d].ret = proc[d].ret
                              /\ proc'[d].ended = proc[d].ended
                              /\ proc[d].ret_sem => proc'[d].ret_sem
                              /\ d # c => proc'[d] = proc[d]
    PROVE  TableFits' /\ ChildrenFit' /\ ReaperFits' /\ SignalsFit'
    <1>1. \A d \in Callers : /\ pc'[d] = "idle" <=> pc[d] = "idle"
                             /\ pc'[d] = "forked" <=> pc[d] = "forked"
                             /\ pc[d] = "idle" => d # c
        BY DEF TypeOK
    <1>2. TableFits'
        BY <1>1 DEF TableFits
    <1>3. ChildrenFit'
        BY <1>1 DEF ChildrenFit, TableFits
    <1>4. ReaperFits'
        BY <1>1 DEF ReaperFits, TableFits, Holds, Told
    <1>5. SignalsFit'
        BY <1>1 DEF SignalsFit
    <1> QED
        BY <1>2, <1>3, <1>4, <1>5

\* What the semaphore says of c does not depend on the other callers.
LEMMA PostsFrame ==
    ASSUME PostsFit, DrainGivesExitCode, UNCHANGED usage, NEW c \in Callers,
           \A d \in Callers \ {c} :
               /\ proc'[d] = proc[d] /\ pc'[d] = pc[d] /\ wait'[d] = wait[d]
               /\ result'[d] = result[d],
           c \notin usage.readers \cap usage.timed =>
               /\ proc'[c].ret_sem =>
                     \/ proc'[c].ended # NoStat /\ proc'[c].ret = Ret(proc'[c].ended)
                     \/ TimedOut(c)'
               /\ pc'[c] = "free" /\ result'[c].reason # "TIMEDOUT" =>
                     proc'[c].ended # NoStat /\ result'[c].ret = Ret(proc'[c].ended)
    PROVE  PostsFit' /\ DrainGivesExitCode'
    <1>1. PostsFit'
        <2> SUFFICES ASSUME NEW d \in Callers \ (usage.readers \cap usage.timed),
                            proc'[d].ret_sem
                     PROVE  \/ proc'[d].ended # NoStat /\ proc'[d].ret = Ret(proc'[d].ended)
                            \/ TimedOut(d)'
            BY DEF PostsFit
        <2>1. CASE d = c
            BY <2>1
        <2>2. CASE d # c
            <3>1. /\ proc'[d] = proc[d] /\ pc'[d] = pc[d] /\ wait'[d] = wait[d]
                  /\ result'[d] = result[d]
                BY <2>2
            <3>2. TimedOut(d)' = TimedOut(d)
                BY <3>1 DEF TimedOut, Reason
            <3> QED
                BY <3>1, <3>2 DEF PostsFit
        <2> QED
            BY <2>1, <2>2
    <1>2. DrainGivesExitCode'
        <2> SUFFICES ASSUME NEW d \in Callers \ (usage.readers \cap usage.timed),
                            pc'[d] = "free", result'[d].reason # "TIMEDOUT"
                     PROVE  proc'[d].ended # NoStat /\ result'[d].ret = Ret(proc'[d].ended)
            BY DEF DrainGivesExitCode
        <2>1. CASE d = c
            BY <2>1
        <2>2. CASE d # c
            BY <2>2 DEF DrainGivesExitCode
        <2> QED
            BY <2>1, <2>2
    <1> QED
        BY <1>1, <1>2

\* The same for the locals of its wait.
LEMMA WaitsFrame ==
    ASSUME WaitsFit, UNCHANGED usage, NEW c \in Callers,
           \A d \in Callers \ {c} : pc'[d] = pc[d] /\ wait'[d] = wait[d],
           /\ wait'[c].child_dead => wait'[c].eof = Streams
           /\ wait'[c].expired => c \in usage.timed
           /\ pc'[c] = "select" => Listening(c)' # {}
           /\ pc'[c] \in InCall /\ c \notin usage.readers => wait'[c].call = "wait"
    PROVE  WaitsFit'
    <1> SUFFICES ASSUME NEW d \in Callers
                 PROVE  /\ wait'[d].child_dead => wait'[d].eof = Streams
                        /\ wait'[d].expired => d \in usage.timed
                        /\ pc'[d] = "select" => Listening(d)' # {}
                        /\ pc'[d] \in InCall /\ d \notin usage.readers => wait'[d].call = "wait"
        BY DEF WaitsFit
    <1>1. CASE d = c
        BY <1>1
    <1>2. CASE d # c
        <2>1. pc'[d] = pc[d] /\ wait'[d] = wait[d]
            BY <1>2
        <2>2. Listening(d)' = Listening(d)
            BY <2>1 DEF Listening
        <2> QED
            BY <2>1, <2>2 DEF WaitsFit
    <1> QED
        BY <1>1, <1>2

\* A step inside a call: the other callers and the status of c stay.
LEMMA StepFrame ==
    ASSUME TypeOK, NEW c \in Callers, NEW l, pc' = [pc EXCEPT ![c] = l]
    PROVE  pc'[c] = l /\ \A d \in Callers \ {c} : pc'[d] = pc[d]
    BY DEF TypeOK

\* What WaitReturns and the others hand to CallerFrame and PostsFrame: nothing
\* about the subprocess itself has changed.
LEMMA QuietStep ==
    ASSUME ExitInv, UNCHANGED usage, NEW c \in Callers, NEW l,
           pc[c] \notin {"idle", "forked", "free"}, l \notin {"idle", "forked", "free"},
           pc' = [pc EXCEPT ![c] = l],
           \A d \in Callers \ {c} : wait'[d] = wait[d] /\ result'[d] = result[d],
           UNCHANGED <<subprocs, subprocs_mutex, sigchld, sigchld_pipe, reaper, fini,
                       proc, child>>,
           TimedOut(c) => TimedOut(c)'
    PROVE  /\ TableFits' /\ ChildrenFit' /\ ReaperFits' /\ SignalsFit'
           /\ PostsFit' /\ DrainGivesExitCode'
    <1>1. TableFits' /\ ChildrenFit' /\ ReaperFits' /\ SignalsFit'
        BY CallerFrame DEF ExitInv
    <1>2. pc'[c] = l /\ \A d \in Callers \ {c} : pc'[d] = pc[d]
        BY StepFrame DEF ExitInv
    <1>3. c \notin usage.readers \cap usage.timed =>
               /\ proc'[c].ret_sem =>
                     \/ proc'[c].ended # NoStat /\ proc'[c].ret = Ret(proc'[c].ended)
                     \/ TimedOut(c)'
               /\ pc'[c] = "free" /\ result'[c].reason # "TIMEDOUT" =>
                     proc'[c].ended # NoStat /\ result'[c].ret = Ret(proc'[c].ended)
        BY <1>2 DEF ExitInv, PostsFit
    <1>4. PostsFit' /\ DrainGivesExitCode'
        BY <1>2, <1>3, PostsFrame DEF ExitInv
    <1> QED
        BY <1>1, <1>4

\* rz_subprocess_wait, _stdout_read and _stdout_readline.
LEMMA WaitSteps ==
    ASSUME ExitInv, UNCHANGED usage, NEW c \in Callers
    PROVE  /\ \A call \in {"wait", "read", "readline"} : CallWait(c, call) => ExitInv'
           /\ LoopTest(c) \/ SelectInterrupted(c) => ExitInv'
           /\ ReadOutput(c) \/ WaitReturns(c) \/ ReadReturns(c) => ExitInv'
    <1>1. ASSUME NEW call \in {"wait", "read", "readline"}, CallWait(c, call)
          PROVE  ExitInv'
        <2>1. /\ pc[c] = "started" /\ pc' = [pc EXCEPT ![c] = "loop"]
              /\ UNCHANGED <<subprocs, subprocs_mutex, sigchld, sigchld_pipe, reaper, fini,
                       proc, child, result>>
            BY <1>1 DEF CallWait, Goto, table, kernel
        <2>2. /\ \A d \in Callers \ {c} : wait'[d] = wait[d]
              /\ wait'[c].child_dead = FALSE /\ wait'[c].expired = FALSE
              /\ wait'[c].call = call
            BY <1>1 DEF CallWait, ExitInv, TypeOK, NoWait
        <2>3. ~TimedOut(c)
            BY <2>1 DEF TimedOut
        <2>4. /\ TableFits' /\ ChildrenFit' /\ ReaperFits' /\ SignalsFit'
              /\ PostsFit' /\ DrainGivesExitCode'
            BY <2>1, <2>2, <2>3, QuietStep
        <2>5. pc'[c] = "loop" /\ \A d \in Callers \ {c} : pc'[d] = pc[d]
            BY <2>1, StepFrame DEF ExitInv
        <2>6. call = "wait" \/ c \in usage.readers
            BY <1>1 DEF CallWait
        <2>7. WaitsFit'
            BY <2>2, <2>5, <2>6, WaitsFrame DEF ExitInv
        <2>8. TypeOK'
            BY <1>1, WaitsKeepTypes DEF ExitInv
        <2> QED
            BY <2>4, <2>7, <2>8 DEF ExitInv
    <1>2. ASSUME LoopTest(c) PROVE ExitInv'
        <2> DEFINE stays == /\ wait[c].call = "wait" \/ wait[c].left > 0
                            /\ Listening(c) # {}
                            /\ ~wait[c].expired
                   l == IF stays THEN "select" ELSE "return"
        <2>1. /\ pc[c] = "loop" /\ pc' = [pc EXCEPT ![c] = l]
              /\ UNCHANGED <<subprocs, subprocs_mutex, sigchld, sigchld_pipe, reaper, fini,
                       proc, child, result, wait>>
            BY <1>2 DEF LoopTest, Goto, table, kernel
        <2>2. l \in {"select", "return"} /\ (l = "select" => Listening(c) # {})
            OBVIOUS
        <2>3. ~TimedOut(c)
            BY <2>1 DEF TimedOut
        <2>4. PICK m : m = l
            OBVIOUS
        <2> HIDE DEF l
        <2>5. /\ TableFits' /\ ChildrenFit' /\ ReaperFits' /\ SignalsFit'
              /\ PostsFit' /\ DrainGivesExitCode'
            BY <2>1, <2>2, <2>3, <2>4, QuietStep
        <2>6. pc'[c] = m /\ \A d \in Callers \ {c} : pc'[d] = pc[d]
            BY <2>1, <2>4, StepFrame DEF ExitInv
        <2>7. Listening(c)' = Listening(c)
            BY <2>1 DEF Listening
        <2>8. WaitsFit'
            BY <2>1, <2>2, <2>4, <2>6, <2>7, WaitsFrame DEF ExitInv, WaitsFit, InCall
        <2>9. TypeOK'
            BY <1>2, WaitsKeepTypes DEF ExitInv
        <2> QED
            BY <2>5, <2>8, <2>9 DEF ExitInv
    <1>3. ASSUME SelectInterrupted(c) PROVE ExitInv'
        <2>1. /\ pc[c] = "select" /\ pc' = [pc EXCEPT ![c] = "loop"]
              /\ UNCHANGED <<subprocs, subprocs_mutex, sigchld, sigchld_pipe, reaper, fini,
                       proc, child, result, wait>>
            BY <1>3 DEF SelectInterrupted, Goto, table, kernel
        <2>2. ~TimedOut(c)
            BY <2>1 DEF TimedOut
        <2>3. /\ TableFits' /\ ChildrenFit' /\ ReaperFits' /\ SignalsFit'
              /\ PostsFit' /\ DrainGivesExitCode'
            BY <2>1, <2>2, QuietStep
        <2>4. pc'[c] = "loop" /\ \A d \in Callers \ {c} : pc'[d] = pc[d]
            BY <2>1, StepFrame DEF ExitInv
        <2>5. WaitsFit'
            BY <2>1, <2>4, WaitsFrame DEF ExitInv, WaitsFit, InCall
        <2>6. TypeOK'
            BY <1>3, WaitsKeepTypes DEF ExitInv
        <2> QED
            BY <2>3, <2>5, <2>6 DEF ExitInv
    <1>4. ASSUME ReadOutput(c) PROVE ExitInv'
        <2>1. /\ pc[c] = "select" /\ pc' = [pc EXCEPT ![c] = "loop"]
              /\ UNCHANGED <<subprocs, subprocs_mutex, sigchld, sigchld_pipe, reaper, fini,
                       proc, child, result>>
            BY <1>4 DEF ReadOutput, Goto, table
        <2>2. /\ \A d \in Callers \ {c} : wait'[d] = wait[d]
              /\ wait'[c].child_dead => wait'[c].eof = Streams
              /\ wait'[c].call = wait[c].call /\ wait'[c].expired = wait[c].expired
            <3>1. PICK eof, left, last :
                     wait' = [wait EXCEPT ![c] = [@ EXCEPT !.timedout = FALSE, !.eof = eof,
                                !.child_dead = (eof = Streams), !.left = left, !.last = last]]
                BY <1>4 DEF ReadOutput
            <3>2. wait \in [Callers -> [call : {"none", "wait", "read", "readline"},
                             left : {0, 1}, eof : SUBSET Streams,
                             timedout : BOOLEAN, child_dead : BOOLEAN,
                             expired : BOOLEAN,
                             last : {"none", "text", "newline"}]]
                BY DEF ExitInv, TypeOK
            <3> QED
                BY <3>1, <3>2
        <2>3. ~TimedOut(c)
            BY <2>1 DEF TimedOut
        <2>4. /\ TableFits' /\ ChildrenFit' /\ ReaperFits' /\ SignalsFit'
              /\ PostsFit' /\ DrainGivesExitCode'
            BY <2>1, <2>2, <2>3, QuietStep
        <2>5. pc'[c] = "loop" /\ \A d \in Callers \ {c} : pc'[d] = pc[d]
            BY <2>1, StepFrame DEF ExitInv
        <2>6. WaitsFit'
            BY <2>1, <2>2, <2>5, WaitsFrame DEF ExitInv, WaitsFit, InCall
        <2>7. TypeOK'
            BY <1>4, WaitsKeepTypes DEF ExitInv
        <2> QED
            BY <2>4, <2>6, <2>7 DEF ExitInv
    <1>5. ASSUME WaitReturns(c) PROVE ExitInv'
        <2> DEFINE l == IF Reason(c) = "TIMEDOUT" THEN "kill" ELSE "drain"
        <2>1. /\ pc[c] = "return" /\ pc' = [pc EXCEPT ![c] = l]
              /\ UNCHANGED <<subprocs, subprocs_mutex, sigchld, sigchld_pipe, reaper, fini,
                       proc, child>>
            BY <1>5 DEF WaitReturns, Goto, table, kernel
        <2>2. /\ \A d \in Callers \ {c} : wait'[d] = wait[d] /\ result'[d] = result[d]
              /\ wait'[c].child_dead = FALSE /\ wait'[c].expired = FALSE
              /\ result'[c].reason = Reason(c)
            BY <1>5 DEF WaitReturns, ExitInv, TypeOK, NoWait
        <2>3. l \in {"kill", "drain"}
            OBVIOUS
        <2>4. PICK m : m = l
            OBVIOUS
        <2> HIDE DEF l
        <2>5. pc'[c] = m /\ \A d \in Callers \ {c} : pc'[d] = pc[d]
            BY <2>1, <2>4, StepFrame DEF ExitInv
        <2>6. TimedOut(c) => TimedOut(c)'
            BY <2>1, <2>2, <2>3, <2>4, <2>5 DEF TimedOut
        <2>7. /\ TableFits' /\ ChildrenFit' /\ ReaperFits' /\ SignalsFit'
              /\ PostsFit' /\ DrainGivesExitCode'
            BY <2>1, <2>2, <2>3, <2>4, <2>6, QuietStep
        <2>8. WaitsFit'
            BY <2>2, <2>3, <2>4, <2>5, WaitsFrame DEF ExitInv, InCall
        <2>9. TypeOK'
            BY <1>5, WaitsKeepTypes DEF ExitInv
        <2> QED
            BY <2>7, <2>8, <2>9 DEF ExitInv
    <1>6. ASSUME ReadReturns(c) PROVE ExitInv'
        <2> DEFINE again == /\ wait[c].call = "readline"
                            /\ wait[c].last # "newline"
                            /\ Reason(c) = "BYTESREAD"
                   l == IF again THEN "loop" ELSE "started"
        <2>1. /\ pc[c] = "return" /\ pc' = [pc EXCEPT ![c] = l]
              /\ UNCHANGED <<subprocs, subprocs_mutex, sigchld, sigchld_pipe, reaper, fini,
                       proc, child, result>>
            BY <1>6 DEF ReadReturns, Goto, table, kernel
        <2>2. wait[c].call \in {"read", "readline"}
            BY <1>6 DEF ReadReturns
        <2>3. /\ \A d \in Callers \ {c} : wait'[d] = wait[d]
              /\ wait'[c].child_dead = FALSE /\ wait'[c].expired = FALSE
            BY <1>6 DEF ReadReturns, ExitInv, TypeOK, NoWait
        <2>4. l \in {"loop", "started"}
            OBVIOUS
        <2>5. PICK m : m = l
            OBVIOUS
        <2> HIDE DEF l
        <2>6. pc'[c] = m /\ \A d \in Callers \ {c} : pc'[d] = pc[d]
            BY <2>1, <2>5, StepFrame DEF ExitInv
        <2>7. ~TimedOut(c)
            BY <2>1, <2>2 DEF TimedOut
        <2>8. /\ TableFits' /\ ChildrenFit' /\ ReaperFits' /\ SignalsFit'
              /\ PostsFit' /\ DrainGivesExitCode'
            BY <2>1, <2>3, <2>4, <2>5, <2>7, QuietStep
        <2>9. c \in usage.readers
            BY <2>1, <2>2 DEF ExitInv, WaitsFit, InCall
        <2>10. WaitsFit'
            BY <2>3, <2>4, <2>5, <2>6, <2>9, WaitsFrame DEF ExitInv
        <2>11. TypeOK'
            BY <1>6, WaitsKeepTypes DEF ExitInv
        <2> QED
            BY <2>8, <2>10, <2>11 DEF ExitInv
    <1> QED
        BY <1>1, <1>2, <1>3, <1>4, <1>5, <1>6

\* The deadline passes, before or in select.
LEMMA ExpireStep ==
    ASSUME ExitInv, UNCHANGED usage, NEW c \in Callers, Expire(c)
    PROVE  ExitInv'
    <1>1. /\ c \in usage.timed
          /\ UNCHANGED <<subprocs, subprocs_mutex, sigchld, sigchld_pipe, reaper, fini,
                       proc, child, result, pc>>
        BY DEF Expire, table, kernel
    <1>2. /\ \A d \in Callers \ {c} : wait'[d] = wait[d]
          /\ wait'[c].call = wait[c].call /\ wait'[c].eof = wait[c].eof
          /\ wait'[c].child_dead = wait[c].child_dead
          /\ wait'[c].timedout = wait[c].timedout
        BY DEF Expire, ExitInv, TypeOK
    <1>3. TableFits' /\ ChildrenFit' /\ ReaperFits' /\ SignalsFit'
        BY <1>1 DEF ExitInv, TableFits, ChildrenFit, ReaperFits, SignalsFit, Holds, Told
    <1>4. TimedOut(c)' = TimedOut(c) /\ Listening(c)' = Listening(c)
        BY <1>1, <1>2 DEF TimedOut, Reason, Listening
    <1>5. PostsFit' /\ DrainGivesExitCode'
        BY <1>1, <1>2, <1>4, PostsFrame DEF ExitInv, PostsFit, DrainGivesExitCode
    <1>6. WaitsFit'
        BY <1>1, <1>2, <1>4, WaitsFrame DEF ExitInv, WaitsFit
    <1>7. TypeOK'
        BY WaitsKeepTypes DEF ExitInv
    <1> QED
        BY <1>3, <1>5, <1>6, <1>7 DEF ExitInv

\* select times out: the semaphore is posted without an end.  As long as the
\* wait is the last one, its caller learns of it.
LEMMA TimeoutStep ==
    ASSUME ExitInv, UNCHANGED usage, NEW c \in Callers, SelectTimesOut(c)
    PROVE  ExitInv'
    <1>1. /\ pc[c] = "select" /\ wait[c].expired /\ pc' = [pc EXCEPT ![c] = "return"]
          /\ UNCHANGED <<subprocs, subprocs_mutex, sigchld, sigchld_pipe, reaper, fini,
                       child, result>>
        BY DEF SelectTimesOut, Goto, table, kernel
    <1>2. /\ \A d \in Callers \ {c} : wait'[d] = wait[d]
          /\ wait'[c].call = wait[c].call /\ wait'[c].eof = wait[c].eof
          /\ wait'[c].child_dead = wait[c].child_dead
          /\ wait'[c].expired = wait[c].expired
          /\ wait'[c].timedout
        BY DEF SelectTimesOut, ExitInv, TypeOK
    <1>3. \A d \in Callers : /\ proc'[d].pid = proc[d].pid
                             /\ proc'[d].ret = proc[d].ret
                             /\ proc'[d].ended = proc[d].ended
                             /\ proc[d].ret_sem => proc'[d].ret_sem
                             /\ d # c => proc'[d] = proc[d]
        BY DEF SelectTimesOut, ExitInv, TypeOK
    <1>4. TableFits' /\ ChildrenFit' /\ ReaperFits' /\ SignalsFit'
        BY <1>1, <1>3, CallerFrame DEF ExitInv
    <1>5. pc'[c] = "return" /\ \A d \in Callers \ {c} : pc'[d] = pc[d]
        BY <1>1, StepFrame DEF ExitInv
    <1>6. wait[c].eof # Streams
        <2>1. Listening(c) # {}
            BY <1>1 DEF ExitInv, WaitsFit
        <2>2. usage.fds[c] \subseteq Streams
            BY SubprocessAssumption DEF ExitInv, TypeOK, Streams
        <2> QED
            BY <2>1, <2>2 DEF Listening
    <1>7. ~wait[c].child_dead /\ c \in usage.timed
        BY <1>1, <1>6 DEF ExitInv, WaitsFit
    <1>8. c \notin usage.readers \cap usage.timed => wait[c].call = "wait"
        BY <1>1, <1>7 DEF ExitInv, WaitsFit, InCall
    <1>9. c \notin usage.readers \cap usage.timed => TimedOut(c)'
        BY <1>2, <1>5, <1>7, <1>8 DEF TimedOut, Reason
    <1>10. PostsFit' /\ DrainGivesExitCode'
        BY <1>1, <1>2, <1>3, <1>5, <1>9, PostsFrame DEF ExitInv
    <1>11. WaitsFit'
        BY <1>1, <1>2, <1>5, WaitsFrame DEF ExitInv, WaitsFit, InCall
    <1>12. TypeOK'
        BY WaitsKeepTypes DEF ExitInv
    <1> QED
        BY <1>4, <1>10, <1>11, <1>12 DEF ExitInv

\* rz_subprocess_kill only marks a living child.
LEMMA KillStep ==
    ASSUME ExitInv, UNCHANGED usage, NEW c \in Callers, Kill(c)
    PROVE  ExitInv'
    <1>1. /\ pc[c] = "kill" /\ pc' = [pc EXCEPT ![c] = "drain"]
          /\ UNCHANGED <<subprocs, subprocs_mutex, sigchld, sigchld_pipe, reaper, fini,
                       proc, wait, result>>
        BY DEF Kill, Goto, table
    <1>2. \A p \in Pids : child'[p].state = child[p].state /\ child'[p].wstat = child[p].wstat
        <2>1. proc[c].pid \in Pids
            BY <1>1 DEF ExitInv, TableFits
        <2> QED
            BY <2>1 DEF Kill, ExitInv, TypeOK
    <1>3. TableFits' /\ ChildrenFit' /\ ReaperFits' /\ SignalsFit'
        BY <1>1, <1>2, CallerFrame DEF ExitInv
    <1>4. pc'[c] = "drain" /\ \A d \in Callers \ {c} : pc'[d] = pc[d]
        BY <1>1, StepFrame DEF ExitInv
    <1>5. TimedOut(c) => TimedOut(c)'
        BY <1>1, <1>4 DEF TimedOut
    <1>6. c \notin usage.readers \cap usage.timed /\ proc[c].ret_sem =>
               \/ proc[c].ended # NoStat /\ proc[c].ret = Ret(proc[c].ended)
               \/ TimedOut(c)'
        BY <1>5 DEF ExitInv, PostsFit
    <1>7. PostsFit' /\ DrainGivesExitCode'
        BY <1>1, <1>4, <1>6, PostsFrame DEF ExitInv
    <1>8. WaitsFit'
        BY <1>1, <1>4, WaitsFrame DEF ExitInv, WaitsFit, InCall
    <1>9. TypeOK'
        BY EndKeepsTypes DEF ExitInv
    <1> QED
        BY <1>3, <1>7, <1>8, <1>9 DEF ExitInv

\* rz_subprocess_drain takes what the semaphore promises.
LEMMA DrainStep ==
    ASSUME ExitInv, UNCHANGED usage, NEW c \in Callers, Drain(c)
    PROVE  ExitInv'
    <1>1. /\ pc[c] = "drain" /\ proc[c].ret_sem /\ pc' = [pc EXCEPT ![c] = "free"]
          /\ UNCHANGED <<subprocs, subprocs_mutex, sigchld, sigchld_pipe, reaper, fini,
                       proc, wait, child>>
        BY DEF Drain, Goto, table, kernel
    <1>2. /\ \A d \in Callers \ {c} : result'[d] = result[d]
          /\ result'[c].ret = proc[c].ret /\ result'[c].reason = result[c].reason
        BY DEF Drain, ExitInv, TypeOK
    <1>3. TableFits' /\ ChildrenFit' /\ ReaperFits' /\ SignalsFit'
        BY <1>1, CallerFrame DEF ExitInv
    <1>4. pc'[c] = "free" /\ \A d \in Callers \ {c} : pc'[d] = pc[d]
        BY <1>1, StepFrame DEF ExitInv
    <1>5. c \notin usage.readers \cap usage.timed =>
               \/ proc[c].ended # NoStat /\ proc[c].ret = Ret(proc[c].ended)
               \/ TimedOut(c)' /\ result'[c].reason = "TIMEDOUT"
        <2>1. TimedOut(c) => TimedOut(c)' /\ result'[c].reason = "TIMEDOUT"
            BY <1>1, <1>2, <1>4 DEF TimedOut
        <2> QED
            BY <2>1, <1>1 DEF ExitInv, PostsFit
    <1>6. PostsFit' /\ DrainGivesExitCode'
        BY <1>1, <1>2, <1>4, <1>5, PostsFrame DEF ExitInv
    <1>7. WaitsFit'
        BY <1>1, <1>4, WaitsFrame DEF ExitInv, WaitsFit, InCall
    <1>8. TypeOK'
        BY EndKeepsTypes DEF ExitInv
    <1> QED
        BY <1>3, <1>6, <1>7, <1>8 DEF ExitInv
-----------------------------------------------------------------------------
(* The start and the end of a subprocess.                                  *)

\* fork under the lock: the new child is not the reaper's and nobody else's.
LEMMA ForkStep ==
    ASSUME ExitInv, UNCHANGED usage, NEW c \in Callers, NEW p \in Pids, Fork(c, p)
    PROVE  ExitInv'
    <1>0. TypeOK /\ TableFits /\ ChildrenFit /\ ReaperFits /\ SignalsFit
        BY DEF ExitInv
    <1>1. /\ pc[c] = "idle" /\ fini = "no" /\ subprocs_mutex = Nobody /\ subprocs_mutex' = c
          /\ pc' = [pc EXCEPT ![c] = "forked"]
          /\ UNCHANGED <<subprocs, sigchld, sigchld_pipe, reaper, wait, result, fini>>
        BY DEF Fork, Goto
    <1>2. /\ child[p].state = "none" /\ reaper.pid # p
          /\ \A d \in Callers : proc[d].pid # p
        BY DEF Fork, IsFresh
    <1>3. pc'[c] = "forked" /\ \A d \in Callers \ {c} : pc'[d] = pc[d]
        BY <1>0, <1>1, StepFrame
    <1>4. /\ proc'[c].pid = p /\ proc'[c].ret_sem = FALSE /\ proc'[c].ended = NoStat
          /\ \A d \in Callers \ {c} : proc'[d] = proc[d]
        BY <1>0, TypesAreTypeOK DEF Fork, NoProc, Types, ProcTypes
    <1>5. /\ child'[p].state = "alive"
          /\ \A q \in Pids \ {p} : child'[q] = child[q]
        BY <1>0, TypesAreTypeOK DEF Fork, NoChild, Types, ChildTypes
    <1>6. (\A d \in Callers : d # Nobody) /\ c # Reaper
        BY SubprocessAssumption
    <1>7. TableFits'
        <2>1. \A d \in Callers : pc'[d] = "idle" => proc'[d] = NoProc
            BY <1>0, <1>3, <1>4 DEF TableFits
        <2>2. \A d \in Callers : pc'[d] # "idle" => proc'[d].pid \in Pids
            BY <1>0, <1>3, <1>4 DEF TableFits
        <2>3. \A d, e \in Callers : proc'[d].pid = proc'[e].pid => d = e \/ proc'[d].pid = NoPid
            BY <1>0, <1>2, <1>4 DEF TableFits
        <2>4. \A d \in Callers : d \in subprocs' <=> pc'[d] \notin {"idle", "forked"}
            BY <1>0, <1>1, <1>3 DEF TableFits
        <2>5. \A d \in Callers : subprocs_mutex' = d <=> pc'[d] = "forked"
            BY <1>0, <1>1, <1>3, <1>6 DEF TableFits
        <2>6. subprocs_mutex' = Reaper <=> reaper'.at = "post"
            <3>1. Nobody # Reaper
                BY SubprocessAssumption
            <3>2. reaper.at # "post"
                BY <3>1, <1>0, <1>1 DEF TableFits
            <3> QED
                BY <3>2, <1>1, <1>6
        <2> QED
            BY <2>1, <2>2, <2>3, <2>4, <2>5, <2>6 DEF TableFits
    <1>8. \A d \in Callers \ {c} : pc'[d] # "idle" =>
             /\ proc'[d].pid \in Pids \ {p} /\ proc'[d].pid = proc[d].pid
             /\ child'[proc'[d].pid] = child[proc[d].pid]
        BY <1>0, <1>2, <1>3, <1>4, <1>5 DEF TableFits
    <1>9. ChildrenFit'
        <2>1. \A q \in Pids : child'[q].state = "zombie" => child'[q].wstat \in Wstats
            BY <1>0, <1>5 DEF ChildrenFit
        <2>2. ASSUME NEW d \in Callers, pc'[d] # "idle"
              PROVE  /\ child'[proc'[d].pid].state = "alive" <=> proc'[d].ended = NoStat
                     /\ child'[proc'[d].pid].state = "zombie" =>
                          child'[proc'[d].pid].wstat = proc'[d].ended
            <3>1. CASE d = c
                BY <3>1, <1>4, <1>5
            <3>2. CASE d # c
                BY <3>2, <2>2, <1>0, <1>3, <1>4, <1>8 DEF ChildrenFit
            <3> QED
                BY <3>1, <3>2
        <2> QED
            BY <2>1, <2>2 DEF ChildrenFit
    <1>10. ReaperFits'
        <2>1. ASSUME reaper'.at \in {"lookup", "post"}
              PROVE  /\ reaper'.pid \in Pids /\ reaper'.wstat \in Wstats
                     /\ child'[reaper'.pid].state = "none"
                     /\ \A d \in Callers : proc'[d].pid = reaper'.pid =>
                          /\ proc'[d].ended = reaper'.wstat
                          /\ reaper'.at = "post" => proc'[d].ret = Ret(proc'[d].ended)
            BY <2>1, <1>0, <1>1, <1>2, <1>4, <1>5 DEF ReaperFits
        <2>2. ASSUME NEW d \in Callers, pc'[d] # "idle", child'[proc'[d].pid].state = "none"
              PROVE  Holds(proc[d].pid)' \/ Told(d)'
            <3>1. d # c
                BY <2>2, <1>4, <1>5
            <3>2. Holds(proc[d].pid) \/ Told(d)
                BY <3>1, <2>2, <1>0, <1>3, <1>8 DEF ReaperFits
            <3> QED
                BY <3>1, <3>2, <2>2, <1>1, <1>4, <1>8 DEF Holds, Told
        <2> QED
            BY <2>1, <2>2 DEF ReaperFits
    <1>11. SignalsFit'
        BY <1>0, <1>1, <1>5 DEF SignalsFit
    <1>12. PostsFit' /\ DrainGivesExitCode'
        BY <1>1, <1>3, <1>4, PostsFrame DEF ExitInv
    <1>13. WaitsFit'
        BY <1>1, <1>3, WaitsFrame DEF ExitInv, WaitsFit, InCall
    <1>14. TypeOK'
        BY <1>0, StartKeepsTypes
    <1> QED
        BY <1>7, <1>9, <1>10, <1>11, <1>12, <1>13, <1>14 DEF ExitInv

\* The push into the table and the unlock.
LEMMA ListedStep ==
    ASSUME ExitInv, UNCHANGED usage, NEW c \in Callers, Listed(c)
    PROVE  ExitInv'
    <1>0. TypeOK /\ TableFits /\ ChildrenFit /\ ReaperFits /\ SignalsFit
        BY DEF ExitInv
    <1>1. /\ pc[c] = "forked" /\ subprocs' = subprocs \cup {c} /\ subprocs_mutex' = Nobody
          /\ pc' = [pc EXCEPT ![c] = "started"]
          /\ UNCHANGED <<proc, child, sigchld, sigchld_pipe, reaper, wait, result, fini>>
        BY DEF Listed, Goto, kernel
    <1>2. pc'[c] = "started" /\ \A d \in Callers \ {c} : pc'[d] = pc[d]
        BY <1>0, <1>1, StepFrame
    <1>3. subprocs_mutex = c
        BY <1>0, <1>1 DEF TableFits
    <1>4. \A d \in Callers : d # Nobody /\ d # Reaper
        BY SubprocessAssumption
    <1>5. \A d \in Callers : pc'[d] = "idle" <=> pc[d] = "idle"
        BY <1>1, <1>2
    <1>6. TableFits'
        <2>1. \A d \in Callers : /\ pc'[d] = "idle" => proc'[d] = NoProc
                                 /\ pc'[d] # "idle" => proc'[d].pid \in Pids
            BY <1>0, <1>1, <1>5 DEF TableFits
        <2>2. \A d, e \in Callers : proc'[d].pid = proc'[e].pid => d = e \/ proc'[d].pid = NoPid
            BY <1>0, <1>1 DEF TableFits
        <2>3. \A d \in Callers : d \in subprocs' <=> pc'[d] \notin {"idle", "forked"}
            BY <1>0, <1>1, <1>2 DEF TableFits
        <2>4. \A d \in Callers : subprocs_mutex' = d <=> pc'[d] = "forked"
            BY <1>0, <1>1, <1>2, <1>3, <1>4 DEF TableFits
        <2>5. subprocs_mutex' = Reaper <=> reaper'.at = "post"
            BY <1>0, <1>1, <1>3, <1>4, SubprocessAssumption DEF TableFits
        <2> QED
            BY <2>1, <2>2, <2>3, <2>4, <2>5 DEF TableFits
    <1>7. ChildrenFit' /\ ReaperFits' /\ SignalsFit'
        BY <1>0, <1>1, <1>5 DEF ChildrenFit, ReaperFits, SignalsFit, Holds, Told
    <1>8. ~TimedOut(c)
        BY <1>1 DEF TimedOut
    <1>9. PostsFit' /\ DrainGivesExitCode'
        BY <1>1, <1>2, <1>8, PostsFrame DEF ExitInv, PostsFit
    <1>10. WaitsFit'
        BY <1>1, <1>2, WaitsFrame DEF ExitInv, WaitsFit, InCall
    <1>11. TypeOK'
        BY <1>0, StartKeepsTypes
    <1> QED
        BY <1>6, <1>7, <1>9, <1>10, <1>11 DEF ExitInv

\* rz_subprocess_free takes the lock, so the reaper is not about to post.
LEMMA FreeStep ==
    ASSUME ExitInv, UNCHANGED usage, NEW c \in Callers, Free(c)
    PROVE  ExitInv'
    <1>0. TypeOK /\ TableFits /\ ChildrenFit /\ ReaperFits /\ SignalsFit
        BY DEF ExitInv
    <1>1. /\ pc[c] = "free" /\ subprocs_mutex = Nobody /\ subprocs' = subprocs \ {c}
          /\ pc' = [pc EXCEPT ![c] = "idle"]
          /\ UNCHANGED <<subprocs_mutex, child, sigchld, sigchld_pipe, reaper, wait, fini>>
        BY DEF Free, Goto
    <1>2. pc'[c] = "idle" /\ \A d \in Callers \ {c} : pc'[d] = pc[d]
        BY <1>0, <1>1, StepFrame
    <1>3. /\ proc'[c] = NoProc /\ \A d \in Callers \ {c} : proc'[d] = proc[d]
          /\ \A d \in Callers \ {c} : result'[d] = result[d]
        BY <1>0, TypesAreTypeOK DEF Free, Types, ProcTypes, ResultTypes
    <1>4. NoProc.pid = NoPid /\ NoProc.ret_sem = FALSE /\ NoPid \notin Pids
        BY SubprocessAssumption DEF NoProc
    <1>5. TableFits'
        <2>1. \A d \in Callers : /\ pc'[d] = "idle" => proc'[d] = NoProc
                                 /\ pc'[d] # "idle" => proc'[d].pid \in Pids
            BY <1>0, <1>2, <1>3 DEF TableFits
        <2>2. \A d, e \in Callers : proc'[d].pid = proc'[e].pid => d = e \/ proc'[d].pid = NoPid
            BY <1>0, <1>3, <1>4 DEF TableFits
        <2>3. \A d \in Callers : d \in subprocs' <=> pc'[d] \notin {"idle", "forked"}
            BY <1>0, <1>1, <1>2 DEF TableFits
        <2>4. \A d \in Callers : subprocs_mutex' = d <=> pc'[d] = "forked"
            BY <1>0, <1>1, <1>2 DEF TableFits
        <2>5. subprocs_mutex' = Reaper <=> reaper'.at = "post"
            BY <1>0, <1>1 DEF TableFits
        <2> QED
            BY <2>1, <2>2, <2>3, <2>4, <2>5 DEF TableFits
    <1>6. \A d \in Callers : pc'[d] # "idle" => d # c /\ pc[d] # "idle" /\ proc'[d] = proc[d]
        BY <1>2, <1>3
    <1>7. ChildrenFit'
        BY <1>0, <1>1, <1>6 DEF ChildrenFit
    <1>8. ReaperFits'
        <2>1. ASSUME reaper'.at \in {"lookup", "post"}
              PROVE  /\ reaper'.pid \in Pids /\ reaper'.wstat \in Wstats
                     /\ child'[reaper'.pid].state = "none"
                     /\ \A d \in Callers : proc'[d].pid = reaper'.pid =>
                          /\ proc'[d].ended = reaper'.wstat
                          /\ reaper'.at = "post" => proc'[d].ret = Ret(proc'[d].ended)
            BY <2>1, <1>0, <1>1, <1>3, <1>4 DEF ReaperFits
        <2>2. \A d \in Callers : pc'[d] # "idle" /\ child'[proc'[d].pid].state = "none" =>
                 Holds(proc[d].pid)' \/ Told(d)'
            BY <1>0, <1>1, <1>6 DEF ReaperFits, Holds, Told
        <2> QED
            BY <2>1, <2>2 DEF ReaperFits
    <1>9. SignalsFit'
        BY <1>0, <1>1, <1>2 DEF SignalsFit
    <1>10. PostsFit' /\ DrainGivesExitCode'
        BY <1>1, <1>2, <1>3, <1>4, PostsFrame DEF ExitInv
    <1>11. WaitsFit'
        BY <1>1, <1>2, WaitsFrame DEF ExitInv, WaitsFit, InCall
    <1>12. TypeOK'
        BY <1>0, EndKeepsTypes
    <1> QED
        BY <1>5, <1>7, <1>8, <1>9, <1>10, <1>11, <1>12 DEF ExitInv
-----------------------------------------------------------------------------
(* The children, the handler, the reaper and rz_subprocess_fini: steps of  *)
(* no caller.                                                              *)

\* When the callers and their subprocesses stay as they are.
LEMMA SameCallers ==
    ASSUME ExitInv, UNCHANGED <<pc, wait, result, usage, proc>>
    PROVE  WaitsFit' /\ PostsFit' /\ DrainGivesExitCode'
    <1>1. WaitsFit'
        BY DEF ExitInv, WaitsFit, Listening
    <1>2. PostsFit'
        BY DEF ExitInv, PostsFit, TimedOut, Reason
    <1>3. DrainGivesExitCode'
        BY DEF ExitInv, DrainGivesExitCode
    <1> QED
        BY <1>1, <1>2, <1>3

\* Output of the child.
LEMMA OutputSteps ==
    ASSUME ExitInv, UNCHANGED usage, NEW c \in Callers, NEW f \in Streams
    PROVE  /\ \A byte \in {"text", "newline"} : ChildWrites(c, f, byte) => ExitInv'
           /\ ChildCloses(c, f) => ExitInv'
    <1>1. ASSUME TypeOK', UNCHANGED <<subprocs, subprocs_mutex, proc, child, sigchld,
                                      sigchld_pipe, reaper, pc, wait, result, fini>>
          PROVE  ExitInv'
        <2>1. WaitsFit' /\ PostsFit' /\ DrainGivesExitCode'
            BY <1>1, SameCallers
        <2>2. TableFits' /\ ChildrenFit' /\ ReaperFits' /\ SignalsFit'
            BY <1>1 DEF ExitInv, TableFits, ChildrenFit, ReaperFits, SignalsFit, Holds, Told
        <2> QED
            BY <1>1, <2>1, <2>2 DEF ExitInv
    <1>2. ASSUME NEW byte \in {"text", "newline"}, ChildWrites(c, f, byte)
          PROVE  ExitInv'
        BY <1>1, <1>2, ChildrenKeepTypes DEF ChildWrites, table, ExitInv
    <1>3. ASSUME ChildCloses(c, f)
          PROVE  ExitInv'
        BY <1>1, <1>3, ChildrenKeepTypes DEF ChildCloses, table, ExitInv
    <1> QED
        BY <1>2, <1>3

\* A child ends.
LEMMA ChildEnds ==
    ASSUME ExitInv, UNCHANGED usage, NEW p \in Pids, ExitStep(p)
    PROVE  ExitInv'
    <1> PICK w \in Wstats, kept \in SUBSET Streams : ChildExits(p, w, kept)
        BY DEF ExitStep
    <1>0. TypeOK /\ TableFits /\ ChildrenFit /\ ReaperFits /\ SignalsFit
        BY DEF ExitInv
    <1>1. /\ child[p].state = "alive"
          /\ UNCHANGED <<subprocs, subprocs_mutex, sigchld_pipe, reaper, pc, wait, result,
                         fini>>
        BY DEF ChildExits, table
    <1>2. \A d \in Callers : IF proc[d].pid = p
                             THEN /\ proc'[d].pid = p /\ proc'[d].ret = proc[d].ret
                                  /\ proc'[d].ret_sem = proc[d].ret_sem
                                  /\ proc'[d].ended = w
                             ELSE proc'[d] = proc[d]
        <2>1. \A d \in Callers : proc[d] \in Procs
            BY <1>0, TypesAreTypeOK DEF Types, ProcTypes
        <2>2. ASSUME NEW r \in Procs
              PROVE  /\ [r EXCEPT !.ended = w].pid = r.pid
                     /\ [r EXCEPT !.ended = w].ret = r.ret
                     /\ [r EXCEPT !.ended = w].ret_sem = r.ret_sem
                     /\ [r EXCEPT !.ended = w].ended = w
            BY DEF Procs
        <2> QED
            BY <2>1, <2>2 DEF ChildExits
    <1>3. \A d \in Callers : proc'[d].pid = proc[d].pid /\ proc'[d].ret_sem = proc[d].ret_sem
        BY <1>2
    <1>4. \A q \in Pids \ {p} : child'[q] = child[q]
        <2>1. PICK x : child' = [child EXCEPT ![p] = x]
            BY DEF ChildExits
        <2> QED
            BY <2>1, <1>0, TypesAreTypeOK DEF Types, ChildTypes
    <1>5. IF fini = "no" THEN child'[p].state = "zombie" /\ child'[p].wstat = w /\ sigchld'
                         ELSE child'[p].state = "none" /\ UNCHANGED sigchld
        <2>1. child \in [Pids -> Children]
            BY <1>0, TypesAreTypeOK DEF Types, ChildTypes
        <2>2. CASE fini = "no"
            <3>1. child' = [child EXCEPT ![p] = [child[p] EXCEPT !.state = "zombie", !.wstat = w]]
                BY <2>2 DEF ChildExits
            <3>2. sigchld'
                BY <2>2 DEF ChildExits
            <3> QED
                BY <2>1, <2>2, <3>1, <3>2 DEF Children
        <2>3. CASE fini # "no"
            BY <2>1, <2>3 DEF ChildExits, NoChild
        <2> QED
            BY <2>2, <2>3
    <1>6. NoStat \notin Wstats /\ NoPid \notin Pids
        BY SubprocessAssumption DEF Wstats, NoStat
    <1>7. \A d \in Callers : proc[d].pid = p =>
             pc[d] # "idle" /\ fini = "no" /\ proc[d].ended = NoStat
        <2>1. NoProc.pid = NoPid
            BY DEF NoProc
        <2> QED
            BY <2>1, <1>0, <1>1, <1>6 DEF TableFits, ChildrenFit, SignalsFit
    <1>8. TableFits'
        <2>1. \A d \in Callers : pc[d] = "idle" => proc'[d] = proc[d]
            BY <1>2, <1>7
        <2> QED
            BY <2>1, <1>0, <1>1, <1>3 DEF TableFits
    <1>9. ChildrenFit'
        <2>1. \A q \in Pids : child'[q].state = "zombie" => child'[q].wstat \in Wstats
            BY <1>0, <1>4, <1>5 DEF ChildrenFit
        <2>2. ASSUME NEW d \in Callers, pc[d] # "idle"
              PROVE  /\ child'[proc'[d].pid].state = "alive" <=> proc'[d].ended = NoStat
                     /\ child'[proc'[d].pid].state = "zombie" =>
                          child'[proc'[d].pid].wstat = proc'[d].ended
            <3>1. CASE proc[d].pid = p
                <4>1. proc'[d].pid = p /\ proc'[d].ended = w /\ fini = "no"
                    BY <3>1, <1>2, <1>7
                <4> QED
                    BY <4>1, <1>5, <1>6
            <3>2. CASE proc[d].pid # p
                <4>1. proc'[d] = proc[d] /\ proc[d].pid \in Pids \ {p}
                    BY <3>2, <2>2, <1>0, <1>2 DEF TableFits
                <4> QED
                    BY <4>1, <2>2, <1>0, <1>4 DEF ChildrenFit
            <3> QED
                BY <3>1, <3>2
        <2> QED
            BY <2>1, <2>2, <1>1 DEF ChildrenFit
    <1>10. ReaperFits'
        <2>1. ASSUME reaper.at \in {"lookup", "post"}
              PROVE  /\ reaper.pid \in Pids \ {p} /\ reaper.wstat \in Wstats
                     /\ child'[reaper.pid].state = "none"
                     /\ \A d \in Callers : proc'[d].pid = reaper.pid =>
                          /\ proc'[d].ended = reaper.wstat
                          /\ reaper.at = "post" => proc'[d].ret = Ret(proc'[d].ended)
            <3>1. reaper.pid \in Pids /\ reaper.pid # p /\ reaper.wstat \in Wstats
                BY <2>1, <1>0, <1>1 DEF ReaperFits
            <3> QED
                BY <3>1, <2>1, <1>0, <1>2, <1>4 DEF ReaperFits
        <2>2. ASSUME NEW d \in Callers, pc[d] # "idle", child'[proc'[d].pid].state = "none"
              PROVE  Holds(proc[d].pid)' \/ Told(d)'
            <3>1. proc[d].pid # p
                <4>1. CASE proc[d].pid = p
                    BY <4>1, <2>2, <1>3, <1>5, <1>7
                <4> QED
                    BY <4>1
            <3>2. proc'[d] = proc[d] /\ proc[d].pid \in Pids \ {p}
                BY <3>1, <2>2, <1>0, <1>2 DEF TableFits
            <3>3. Holds(proc[d].pid) \/ Told(d)
                BY <3>2, <2>2, <1>0, <1>4 DEF ReaperFits
            <3> QED
                BY <3>2, <3>3, <1>1 DEF Holds, Told
        <2> QED
            BY <2>1, <2>2, <1>1 DEF ReaperFits
    <1>11. SignalsFit'
        <2>1. CASE fini = "no"
            BY <2>1, <1>0, <1>1, <1>5 DEF SignalsFit
        <2>2. CASE fini # "no"
            BY <2>2, <1>0, <1>1 DEF SignalsFit
        <2> QED
            BY <2>1, <2>2
    <1>12. WaitsFit'
        BY <1>1 DEF ExitInv, WaitsFit, Listening
    <1>13. \A d \in Callers : TimedOut(d)' = TimedOut(d)
        BY <1>1 DEF TimedOut, Reason
    <1>14. PostsFit'
        <2> SUFFICES ASSUME NEW d \in Callers \ (usage.readers \cap usage.timed), proc'[d].ret_sem
                     PROVE  \/ proc'[d].ended # NoStat /\ proc'[d].ret = Ret(proc'[d].ended)
                            \/ TimedOut(d)
            BY <1>13 DEF PostsFit
        <2>1. \/ proc[d].ended # NoStat /\ proc[d].ret = Ret(proc[d].ended)
              \/ TimedOut(d)
            BY <1>3 DEF ExitInv, PostsFit
        <2> QED
            BY <2>1, <1>2, <1>7
    <1>15. DrainGivesExitCode'
        <2> SUFFICES ASSUME NEW d \in Callers \ (usage.readers \cap usage.timed),
                            pc[d] = "free", result[d].reason # "TIMEDOUT"
                     PROVE  proc'[d].ended # NoStat /\ result[d].ret = Ret(proc'[d].ended)
            BY <1>1 DEF DrainGivesExitCode
        <2>1. proc[d].ended # NoStat /\ result[d].ret = Ret(proc[d].ended)
            BY DEF ExitInv, DrainGivesExitCode
        <2> QED
            BY <2>1, <1>2, <1>7
    <1>16. TypeOK'
        BY <1>0, ChildrenKeepTypes
    <1> QED
        BY <1>8, <1>9, <1>10, <1>11, <1>12, <1>14, <1>15, <1>16 DEF ExitInv

\* handle_sigchld turns the signal into a byte.
LEMMA HandlerStep ==
    ASSUME ExitInv, UNCHANGED usage, handle_sigchld
    PROVE  ExitInv'
    <1>1. /\ sigchld_pipe' = Append(sigchld_pipe, 1)
          /\ UNCHANGED <<subprocs, subprocs_mutex, proc, child, reaper, pc, wait, result, fini>>
        BY DEF handle_sigchld, table
    <1>2. /\ sigchld_pipe' # <<>>
          /\ (\A k \in 1..Len(sigchld_pipe) : sigchld_pipe[k] = 1) =>
                \A k \in 1..Len(sigchld_pipe') : sigchld_pipe'[k] = 1
        <2>1. sigchld_pipe \in Seq({0, 1})
            BY DEF ExitInv, TypeOK
        <2> QED
            BY <2>1, <1>1
    <1>3. SignalsFit'
        BY <1>1, <1>2 DEF ExitInv, SignalsFit
    <1>4. TableFits' /\ ChildrenFit' /\ ReaperFits'
        BY <1>1 DEF ExitInv, TableFits, ChildrenFit, ReaperFits, Holds, Told
    <1>5. WaitsFit' /\ PostsFit' /\ DrainGivesExitCode'
        BY <1>1, SameCallers
    <1>6. TypeOK'
        BY ReaperKeepsTypes DEF ExitInv
    <1> QED
        BY <1>3, <1>4, <1>5, <1>6 DEF ExitInv

\* sigchld_th reads a byte, or finds nothing to reap.
LEMMA ReadSteps ==
    ASSUME ExitInv, UNCHANGED usage, ReadByte \/ NothingToReap
    PROVE  ExitInv'
    <1>0. reaper \in Reapers
        BY TypesAreTypeOK DEF ExitInv, Types, ReaperTypes
    <1>1. UNCHANGED <<subprocs, subprocs_mutex, proc, child, sigchld, pc, wait, result, fini>>
        BY DEF ReadByte, NothingToReap, table, kernel
    <1>2. /\ reaper.at \notin {"lookup", "post"}
          /\ reaper'.at \in {"read", "waitpid", "ended"}
        BY <1>0 DEF ReadByte, NothingToReap, Reapers
    <1>3. SignalsFit'
        <2>1. CASE ReadByte
            <3>1. sigchld_pipe \in Seq({0, 1}) /\ sigchld_pipe # <<>>
                BY <2>1 DEF ExitInv, TypeOK, ReadByte
            <3>2. /\ sigchld_pipe' = Tail(sigchld_pipe)
                  /\ reaper'.at = IF Head(sigchld_pipe) = 0 THEN "ended" ELSE "waitpid"
                BY <2>1, <1>0 DEF ReadByte, Reapers
            <3>3. (\A k \in 1..Len(sigchld_pipe) : sigchld_pipe[k] = 1) =>
                     /\ Head(sigchld_pipe) = 1
                     /\ \A k \in 1..Len(Tail(sigchld_pipe)) : Tail(sigchld_pipe)[k] = 1
                BY <3>1
            <3>4. reaper'.at # "read"
                BY <3>2
            <3> QED
                BY <3>2, <3>3, <3>4, <1>1 DEF ExitInv, SignalsFit
        <2>2. CASE NothingToReap
            BY <2>2, <1>1, <1>0 DEF NothingToReap, ExitInv, SignalsFit, Reapers
        <2> QED
            BY <2>1, <2>2
    <1>4. TableFits'
        BY <1>1, <1>2 DEF ExitInv, TableFits
    <1>5. ChildrenFit'
        BY <1>1 DEF ExitInv, ChildrenFit
    <1>6. ReaperFits'
        BY <1>1, <1>2 DEF ExitInv, ReaperFits, Holds, Told
    <1>7. WaitsFit' /\ PostsFit' /\ DrainGivesExitCode'
        BY <1>1, SameCallers
    <1>8. TypeOK'
        BY ReaperKeepsTypes DEF ExitInv, ReaperStep
    <1> QED
        BY <1>3, <1>4, <1>5, <1>6, <1>7, <1>8 DEF ExitInv

\* waitpid takes a dead child.
LEMMA ReapStep ==
    ASSUME ExitInv, UNCHANGED usage, NEW p \in Pids, Reap(p)
    PROVE  ExitInv'
    <1>0. TypeOK /\ TableFits /\ ChildrenFit /\ ReaperFits /\ SignalsFit
        BY DEF ExitInv
    <1>1. /\ reaper.at = "waitpid" /\ child[p].state = "zombie"
          /\ reaper' = [at |-> "lookup", pid |-> p, wstat |-> child[p].wstat]
          /\ UNCHANGED <<subprocs, subprocs_mutex, proc, sigchld, sigchld_pipe, pc, wait,
                         result, fini>>
        BY DEF Reap, table
    <1>2. reaper'.at = "lookup" /\ reaper'.pid = p /\ reaper'.wstat = child[p].wstat
        BY <1>1
    <1>3. child'[p].state = "none" /\ \A q \in Pids \ {p} : child'[q] = child[q]
        BY <1>0, TypesAreTypeOK DEF Reap, NoChild, Types, ChildTypes
    <1>4. child[p].wstat \in Wstats
        BY <1>0, <1>1 DEF ChildrenFit
    <1>5. \A d \in Callers : proc[d].pid = p => pc[d] # "idle" /\ proc[d].ended = child[p].wstat
        <2>1. NoProc.pid = NoPid /\ NoPid \notin Pids
            BY SubprocessAssumption DEF NoProc
        <2> QED
            BY <2>1, <1>0, <1>1 DEF TableFits, ChildrenFit
    <1>6. NoStat \notin Wstats
        BY DEF Wstats, NoStat
    <1>7. TableFits'
        BY <1>0, <1>1, <1>2 DEF TableFits
    <1>8. ChildrenFit'
        <2>1. \A q \in Pids : child'[q].state = "zombie" => child'[q].wstat \in Wstats
            BY <1>0, <1>3 DEF ChildrenFit
        <2>2. ASSUME NEW d \in Callers, pc[d] # "idle"
              PROVE  /\ child'[proc[d].pid].state = "alive" <=> proc[d].ended = NoStat
                     /\ child'[proc[d].pid].state = "zombie" =>
                          child'[proc[d].pid].wstat = proc[d].ended
            <3>1. CASE proc[d].pid = p
                BY <3>1, <1>3, <1>4, <1>5, <1>6
            <3>2. CASE proc[d].pid # p
                <4>1. proc[d].pid \in Pids \ {p}
                    BY <3>2, <2>2, <1>0 DEF TableFits
                <4> QED
                    BY <4>1, <2>2, <1>0, <1>3 DEF ChildrenFit
            <3> QED
                BY <3>1, <3>2
        <2> QED
            BY <2>1, <2>2, <1>1 DEF ChildrenFit
    <1>9. ReaperFits'
        <2>1. \A d \in Callers : proc'[d].pid = reaper'.pid => proc'[d].ended = reaper'.wstat
            BY <1>1, <1>2, <1>5
        <2>2. ASSUME NEW d \in Callers, pc[d] # "idle", child'[proc[d].pid].state = "none"
              PROVE  Holds(proc[d].pid)' \/ Told(d)'
            <3>1. CASE proc[d].pid = p
                BY <3>1, <1>1, <1>2 DEF Holds
            <3>2. CASE proc[d].pid # p
                <4>1. proc[d].pid \in Pids \ {p}
                    BY <3>2, <2>2, <1>0 DEF TableFits
                <4>2. Holds(proc[d].pid) \/ Told(d)
                    BY <4>1, <2>2, <1>0, <1>3 DEF ReaperFits
                <4> QED
                    BY <4>2, <1>1 DEF Holds, Told
            <3> QED
                BY <3>1, <3>2
        <2> QED
            BY <2>1, <2>2, <1>1, <1>2, <1>3, <1>4 DEF ReaperFits
    <1>10. SignalsFit'
        BY <1>0, <1>1, <1>2 DEF SignalsFit
    <1>11. WaitsFit' /\ PostsFit' /\ DrainGivesExitCode'
        BY <1>1, SameCallers
    <1>12. TypeOK'
        BY <1>0, ReaperKeepsTypes DEF ReaperStep
    <1> QED
        BY <1>7, <1>8, <1>9, <1>10, <1>11, <1>12 DEF ExitInv

\* When a step of the reaper leaves pids, ends and callers alone, and what it
\* stores is the status of the child in its hands.
LEMMA StoredFrame ==
    ASSUME ExitInv, UNCHANGED <<usage, pc, wait, result, child, sigchld, sigchld_pipe, fini>>,
           reaper.at \in {"lookup", "post"}, reaper'.at \in {"waitpid", "post"},
           \A d \in Callers :
               /\ proc'[d].pid = proc[d].pid /\ proc'[d].ended = proc[d].ended
               /\ IF proc[d].pid = reaper.pid
                  THEN /\ proc'[d].ret = Ret(proc[d].ended) \/ proc'[d].ret = proc[d].ret
                       /\ proc'[d].ret_sem => proc[d].ret_sem \/ reaper.at = "post"
                  ELSE proc'[d] = proc[d]
    PROVE  ChildrenFit' /\ SignalsFit' /\ WaitsFit' /\ PostsFit' /\ DrainGivesExitCode'
    <1>0. NoStat \notin Wstats
        BY DEF Wstats, NoStat
    <1>1. ChildrenFit'
        BY DEF ExitInv, ChildrenFit
    <1>2. SignalsFit'
        BY DEF ExitInv, SignalsFit
    <1>3. WaitsFit'
        BY DEF ExitInv, WaitsFit, Listening
    <1>4. \A d \in Callers : TimedOut(d)' = TimedOut(d)
        BY DEF TimedOut, Reason
    <1>5. PostsFit'
        <2> SUFFICES ASSUME NEW d \in Callers \ (usage.readers \cap usage.timed), proc'[d].ret_sem
                     PROVE  \/ proc'[d].ended # NoStat /\ proc'[d].ret = Ret(proc'[d].ended)
                            \/ TimedOut(d)
            BY <1>4 DEF PostsFit
        <2>1. CASE proc[d].pid = reaper.pid
            <3>1. /\ proc[d].ended # NoStat
                  /\ reaper.at = "post" => proc[d].ret = Ret(proc[d].ended)
                BY <2>1, <1>0 DEF ExitInv, ReaperFits
            <3>2. proc[d].ret_sem => \/ proc[d].ret = Ret(proc[d].ended)
                                     \/ TimedOut(d)
                BY DEF ExitInv, PostsFit
            <3> QED
                BY <2>1, <3>1, <3>2
        <2>2. CASE proc[d].pid # reaper.pid
            BY <2>2 DEF ExitInv, PostsFit
        <2> QED
            BY <2>1, <2>2
    <1>6. DrainGivesExitCode'
        BY DEF ExitInv, DrainGivesExitCode
    <1> QED
        BY <1>1, <1>2, <1>3, <1>5, <1>6

\* The status goes into the entry of the table.  If there is none, its caller
\* has freed the subprocess: it cannot still be between fork and push, because
\* the lock is free.
LEMMA LookupStep ==
    ASSUME ExitInv, UNCHANGED usage, Lookup
    PROVE  ExitInv'
    <1>0. TypeOK /\ TableFits /\ ReaperFits
        BY DEF ExitInv
    <1>1. /\ reaper.at = "lookup" /\ subprocs_mutex = Nobody
          /\ UNCHANGED <<subprocs, child, sigchld, sigchld_pipe, pc, wait, result, fini>>
        BY DEF Lookup, kernel
    <1>2. TypeOK'
        BY <1>0, ReaperKeepsTypes DEF ReaperStep
    <1>3. reaper \in Reapers /\ proc \in [Callers -> Procs] /\ subprocs \subseteq Callers
        BY <1>0, TypesAreTypeOK DEF Types, ReaperTypes, ProcTypes, TableTypes
    <1>4. \A d \in Callers : d # Nobody /\ d # Reaper
        BY SubprocessAssumption
    <1>5. \A d \in Callers : pc[d] # "forked"
        BY <1>0, <1>1, <1>4 DEF TableFits
    <1>6. NoProc.pid = NoPid /\ NoPid \notin Pids /\ Nobody # Reaper
        BY SubprocessAssumption DEF NoProc
    <1>7. reaper.pid \in Pids /\ reaper.wstat \in Wstats /\ child[reaper.pid].state = "none"
        BY <1>0, <1>1 DEF ReaperFits
    <1>8. \A d \in Callers : proc[d].pid = reaper.pid => d \in subprocs
        BY <1>0, <1>5, <1>6, <1>7 DEF TableFits
    <1>9. CASE /\ {c \in subprocs : proc[c].pid = reaper.pid} = {}
               /\ reaper' = [reaper EXCEPT !.at = "waitpid"]
               /\ UNCHANGED <<proc, subprocs_mutex>>
        <2>1. reaper'.at = "waitpid" /\ reaper'.pid = reaper.pid
            BY <1>3, <1>9 DEF Reapers
        <2>2. ChildrenFit' /\ SignalsFit' /\ WaitsFit' /\ PostsFit' /\ DrainGivesExitCode'
            BY <2>1, <1>1, <1>9, StoredFrame
        <2>3. TableFits'
            BY <2>1, <1>0, <1>1, <1>6, <1>9 DEF TableFits
        <2>4. \A d \in Callers : proc[d].pid # reaper.pid
            BY <1>8, <1>9
        <2>5. ReaperFits'
            BY <2>1, <2>4, <1>0, <1>1, <1>9 DEF ReaperFits, Holds, Told
        <2> QED
            BY <2>2, <2>3, <2>5, <1>2 DEF ExitInv
    <1>10. ASSUME NEW c \in subprocs, proc[c].pid = reaper.pid,
                  proc' = [proc EXCEPT ![c].ret = Ret(reaper.wstat)],
                  subprocs_mutex' = Reaper,
                  reaper' = [reaper EXCEPT !.at = "post"]
           PROVE  ExitInv'
        <2>1. /\ reaper'.at = "post" /\ reaper'.pid = reaper.pid
              /\ reaper'.wstat = reaper.wstat
            BY <1>3, <1>10 DEF Reapers
        <2>2. /\ \A d \in Callers \ {c} : proc'[d] = proc[d]
              /\ proc'[c].pid = proc[c].pid /\ proc'[c].ended = proc[c].ended
              /\ proc'[c].ret_sem = proc[c].ret_sem /\ proc'[c].ret = Ret(reaper.wstat)
            BY <1>3, <1>10 DEF Procs
        <2>3. \A d \in Callers : proc[d].pid = reaper.pid => d = c /\ proc[d].ended = reaper.wstat
            BY <1>0, <1>1, <1>3, <1>6, <1>7, <1>10 DEF TableFits, ReaperFits
        <2>4. ChildrenFit' /\ SignalsFit' /\ WaitsFit' /\ PostsFit' /\ DrainGivesExitCode'
            <3>1. \A d \in Callers :
                    /\ proc'[d].pid = proc[d].pid /\ proc'[d].ended = proc[d].ended
                    /\ IF proc[d].pid = reaper.pid
                       THEN /\ proc'[d].ret = Ret(proc[d].ended) \/ proc'[d].ret = proc[d].ret
                            /\ proc'[d].ret_sem => proc[d].ret_sem \/ reaper.at = "post"
                       ELSE proc'[d] = proc[d]
                BY <2>2, <2>3, <1>10
            <3> QED
                BY <3>1, <2>1, <1>1, StoredFrame
        <2>5. \A d \in Callers : pc[d] = "idle" => d # c
            BY <1>0, <1>10 DEF TableFits
        <2>6. TableFits'
            <3>1. \A d \in Callers : /\ pc'[d] = "idle" => proc'[d] = NoProc
                                     /\ pc'[d] # "idle" => proc'[d].pid \in Pids
                                     /\ proc'[d].pid = proc[d].pid
                BY <2>2, <2>5, <1>0, <1>1 DEF TableFits
            <3>2. \A d \in Callers : subprocs_mutex' = d <=> pc'[d] = "forked"
                BY <1>1, <1>4, <1>5, <1>10
            <3> QED
                BY <3>1, <3>2, <2>1, <1>0, <1>1, <1>10 DEF TableFits
        <2>7. ReaperFits'
            <3>1. \A d \in Callers : proc'[d].pid = reaper'.pid =>
                     proc'[d].ended = reaper'.wstat /\ proc'[d].ret = Ret(proc'[d].ended)
                BY <2>1, <2>2, <2>3
            <3>2. ASSUME NEW d \in Callers, pc[d] # "idle", child[proc[d].pid].state = "none"
                  PROVE  Holds(proc[d].pid)' \/ Told(d)'
                <4>1. CASE d = c
                    BY <4>1, <2>1, <2>2, <1>10 DEF Holds
                <4>2. CASE d # c
                    BY <4>2, <3>2, <2>1, <2>2, <1>0, <1>1 DEF ReaperFits, Holds, Told
                <4> QED
                    BY <4>1, <4>2
            <3>3. \A d \in Callers : proc'[d].pid = proc[d].pid
                BY <2>2
            <3> QED
                BY <3>1, <3>2, <3>3, <2>1, <1>1, <1>7 DEF ReaperFits
        <2> QED
            BY <2>4, <2>6, <2>7, <1>2 DEF ExitInv
    <1> QED
        BY <1>9, <1>10 DEF Lookup

\* The semaphore is posted: the caller has been told.
LEMMA PostStep ==
    ASSUME ExitInv, UNCHANGED usage, Post
    PROVE  ExitInv'
    <1>0. TypeOK /\ TableFits /\ ReaperFits
        BY DEF ExitInv
    <1>1. /\ reaper.at = "post" /\ subprocs_mutex' = Nobody
          /\ reaper' = [reaper EXCEPT !.at = "waitpid"]
          /\ UNCHANGED <<subprocs, child, sigchld, sigchld_pipe, pc, wait, result, fini>>
        BY DEF Post, kernel
    <1>2. TypeOK'
        BY <1>0, ReaperKeepsTypes DEF ReaperStep
    <1>3. reaper \in Reapers /\ proc \in [Callers -> Procs] /\ subprocs \subseteq Callers
        BY <1>0, TypesAreTypeOK DEF Types, ReaperTypes, ProcTypes, TableTypes
    <1>4. PICK c \in subprocs : proc[c].pid = reaper.pid /\ proc' = [proc EXCEPT ![c].ret_sem = TRUE]
        BY DEF Post
    <1>5. reaper'.at = "waitpid" /\ reaper'.pid = reaper.pid
        BY <1>1, <1>3 DEF Reapers
    <1>6. /\ \A d \in Callers \ {c} : proc'[d] = proc[d]
          /\ proc'[c].pid = proc[c].pid /\ proc'[c].ended = proc[c].ended
          /\ proc'[c].ret_sem /\ proc'[c].ret = proc[c].ret
        BY <1>3, <1>4 DEF Procs
    <1>7. NoPid \notin Pids /\ Nobody # Reaper /\ \A d \in Callers : d # Nobody /\ d # Reaper
        BY SubprocessAssumption
    <1>8. \A d \in Callers : proc[d].pid = reaper.pid =>
             d = c /\ proc[d].ret = Ret(proc[d].ended)
        BY <1>0, <1>1, <1>3, <1>4, <1>7 DEF TableFits, ReaperFits
    <1>9. ChildrenFit' /\ SignalsFit' /\ WaitsFit' /\ PostsFit' /\ DrainGivesExitCode'
        <2>1. \A d \in Callers :
                    /\ proc'[d].pid = proc[d].pid /\ proc'[d].ended = proc[d].ended
                    /\ IF proc[d].pid = reaper.pid
                       THEN /\ proc'[d].ret = Ret(proc[d].ended) \/ proc'[d].ret = proc[d].ret
                            /\ proc'[d].ret_sem => proc[d].ret_sem \/ reaper.at = "post"
                       ELSE proc'[d] = proc[d]
            BY <1>1, <1>4, <1>6, <1>8
        <2> QED
            BY <2>1, <1>1, <1>5, StoredFrame
    <1>10. TableFits'
        <2>1. \A d \in Callers : pc[d] = "idle" => d # c
            BY <1>0, <1>4 DEF TableFits
        <2>2. \A d \in Callers : /\ pc'[d] = "idle" => proc'[d] = NoProc
                                 /\ pc'[d] # "idle" => proc'[d].pid \in Pids
                                 /\ proc'[d].pid = proc[d].pid
            BY <2>1, <1>0, <1>1, <1>6 DEF TableFits
        <2>3. \A d \in Callers : pc[d] # "forked"
            BY <1>0, <1>1, <1>7 DEF TableFits
        <2>4. \A d \in Callers : subprocs_mutex' = d <=> pc'[d] = "forked"
            BY <2>3, <1>1, <1>7
        <2> QED
            BY <2>2, <2>4, <1>0, <1>1, <1>5, <1>7 DEF TableFits
    <1>11. ReaperFits'
        <2>1. ASSUME NEW d \in Callers, pc[d] # "idle", child[proc[d].pid].state = "none"
              PROVE  Told(d)'
            <3>1. CASE d = c
                BY <3>1, <1>4, <1>6, <1>8, <1>3 DEF Told
            <3>2. CASE d # c
                <4>1. ~Holds(proc[d].pid)
                    BY <3>2, <1>8 DEF Holds
                <4>2. Told(d)
                    BY <4>1, <2>1, <1>0 DEF ReaperFits
                <4> QED
                    BY <4>2, <3>2, <1>6 DEF Told
            <3> QED
                BY <3>1, <3>2
        <2>2. \A d \in Callers : proc'[d].pid = proc[d].pid
            BY <1>6
        <2> QED
            BY <2>1, <2>2, <1>1, <1>5 DEF ReaperFits
    <1> QED
        BY <1>2, <1>9, <1>10, <1>11 DEF ExitInv

\* rz_subprocess_fini starts when every caller is gone.
LEMMA FiniSteps ==
    ASSUME ExitInv, UNCHANGED usage, Ignore \/ FiniStep
    PROVE  ExitInv'
    <1>1. /\ UNCHANGED <<subprocs, subprocs_mutex, proc, child, reaper, pc, wait, result>>
          /\ fini' # "no"
        BY DEF Ignore, FiniStep, Tell, Joined, table, kernel
    <1>2. \A c \in Callers : pc[c] = "idle"
        <2>1. CASE Ignore
            BY <2>1 DEF Ignore
        <2>2. CASE FiniStep
            <3>1. fini # "no"
                BY <2>2 DEF FiniStep, Tell, Joined
            <3> QED
                BY <3>1 DEF ExitInv, SignalsFit
        <2> QED
            BY <2>1, <2>2
    <1>3. SignalsFit'
        BY <1>1, <1>2 DEF SignalsFit
    <1>4. TableFits' /\ ChildrenFit' /\ ReaperFits'
        BY <1>1 DEF ExitInv, TableFits, ChildrenFit, ReaperFits, Holds, Told
    <1>5. WaitsFit' /\ PostsFit' /\ DrainGivesExitCode'
        BY <1>1, SameCallers
    <1>6. TypeOK'
        BY FiniKeepsTypes DEF ExitInv
    <1> QED
        BY <1>3, <1>4, <1>5, <1>6 DEF ExitInv
-----------------------------------------------------------------------------
(* The theorem.                                                            *)

\* Every step keeps the invariant.
LEMMA ExitStepInv == ExitInv /\ [Next]_<<vars, usage>> => ExitInv'
    <1> SUFFICES ASSUME ExitInv, [Next]_<<vars, usage>> PROVE ExitInv'
        OBVIOUS
    <1>1. CASE UNCHANGED <<vars, usage>>
        <2>1. UNCHANGED <<subprocs, subprocs_mutex, proc, child, pipe, sigchld, sigchld_pipe,
                          reaper, pc, wait, result, fini, usage>>
            BY <1>1 DEF vars, table, kernel
        <2>2. TypeOK'
            BY <2>1 DEF ExitInv, TypeOK
        <2>3. TableFits' /\ ChildrenFit' /\ ReaperFits' /\ SignalsFit'
            BY <2>1 DEF ExitInv, TableFits, ChildrenFit, ReaperFits, SignalsFit, Holds, Told
        <2> QED
            BY <2>1, <2>2, <2>3, SameCallers DEF ExitInv
    <1>2. CASE Next
        <2>1. UNCHANGED usage
            BY <1>2 DEF Next
        <2>2. ASSUME NEW c \in Callers,
                     \/ \E p \in Pids : Fork(c, p)
                     \/ \E call \in {"wait", "read", "readline"} : CallWait(c, call)
                     \/ Expire(c)
                     \/ SelectInterrupted(c)
                     \/ CallerStep(c)
              PROVE  ExitInv'
            BY <2>1, <2>2, ForkStep, WaitSteps, ExpireStep, ListedStep, TimeoutStep, KillStep,
               DrainStep, FreeStep DEF CallerStep
        <2>3. ASSUME NEW c \in Callers,
                     \/ \E f \in Streams, byte \in {"text", "newline"} : ChildWrites(c, f, byte)
                     \/ \E f \in Streams : ChildCloses(c, f)
              PROVE  ExitInv'
            BY <2>1, <2>3, OutputSteps
        <2>4. ASSUME NEW p \in Pids, ExitStep(p) PROVE ExitInv'
            BY <2>1, <2>4, ChildEnds
        <2>5. CASE handle_sigchld
            BY <2>1, <2>5, HandlerStep
        <2>6. CASE ReaperStep
            BY <2>1, <2>6, ReadSteps, ReapStep, LookupStep, PostStep DEF ReaperStep
        <2>7. CASE Ignore \/ FiniStep
            BY <2>1, <2>7, FiniSteps
        <2> QED
            BY <1>2, <2>2, <2>3, <2>4, <2>5, <2>6, <2>7 DEF Next
    <1> QED
        BY <1>1, <1>2

\* In every state of the invariant an unreported end is on its way.
LEMMA ExitInvReports == ExitInv => ExitsAreReported
    <1> SUFFICES ASSUME ExitInv PROVE ExitsAreReported
        OBVIOUS
    <1>1. NoLostExit
        <2> SUFFICES ASSUME NEW c \in Callers, proc[c].ended # NoStat, ~proc[c].ret_sem,
                            fini = "no"
                     PROVE  \/ /\ child[proc[c].pid].state = "zombie"
                               /\ sigchld \/ sigchld_pipe # <<>> \/ reaper.at # "read"
                            \/ reaper.at \in {"lookup", "post"} /\ reaper.pid = proc[c].pid
            BY DEF NoLostExit
        <2>1. pc[c] # "idle"
            BY DEF ExitInv, TableFits, NoProc
        <2>2. proc[c].pid \in Pids /\ child[proc[c].pid].state # "alive"
            BY <2>1 DEF ExitInv, TableFits, ChildrenFit
        <2>3. child[proc[c].pid].state \in {"none", "alive", "zombie"}
            BY <2>2 DEF ExitInv, TypeOK
        <2>4. CASE child[proc[c].pid].state = "zombie"
            BY <2>2, <2>4 DEF ExitInv, SignalsFit
        <2>5. CASE child[proc[c].pid].state = "none"
            BY <2>1, <2>5 DEF ExitInv, ReaperFits, Holds, Told
        <2> QED
            BY <2>2, <2>3, <2>4, <2>5
    <1> QED
        BY <1>1 DEF ExitInv, ExitsAreReported

\* For any number of callers, pids and ways to use them: no end of a child is
\* lost between fork, SIGCHLD, the reaper and the table, and unless the wait
\* timed out rz_subprocess_drain returns the status of this very child, after
\* its end.
THEOREM NoExitIsLost == Spec => []ExitsAreReported
    <1>1. Init => ExitInv
        BY InitExit
    <1>2. ExitInv /\ [Next]_<<vars, usage>> => ExitInv'
        BY ExitStepInv
    <1>3. ExitInv => ExitsAreReported
        BY ExitInvReports
    <1> QED
        BY <1>1, <1>2, <1>3, PTL DEF Spec
=============================================================================
