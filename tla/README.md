# A TLA+ model of Rizin's concurrent and stateful core

Rizin is a reverse engineering framework: a set of libraries (`librz/`) and
command line tools (`binrz/`). Most of its code is sequential work on large data
(decoders, file formats, commands). What is hard to get right, and hard to test,
lies under it: the thread-safe containers and worker threads every parallel
analysis is built on, the cooperative scheduler of background commands, the
reaper of child processes, and the layers of caches, maps and files that refer
to each other and can be deleted in any order. This project models those parts,
checks them with TLC and proves their main properties with TLAPS.

## 1. Inventory

| Component | State | Operations | Interacts with |
|---|---|---|---|
| `RzThreadQueue` (`util/thread_queue.c`) | `list`, `max_size`, `closed`, `reader_awaiting`, two locks, two conditions | new, push, pop, pop_all, close, close_when_empty, free | string search, similarity, search pipeline, absint driver, `rz-test` |
| `RzThreadRingBuf` (`util/thread_ring_buf.c`) | slots, `r`, `w`, `to_read`, `closed`, `threads_awaiting`, waiting counters, two locks, two conditions | put, take, take_blocking, clear, close, open, is_open, free | abstract interpretation driver |
| `RzThreadCond` (`util/thread_cond.c`) | the sleepers | wait, signal, signal_all | containers, scheduler |
| `RzCoreTaskScheduler` (`core/task.c`) | task list, ready queue, oneshot queue, `current_task`, counters; per task: state, flags, references, semaphore, dispatch flag | schedule (yield, sleep, end), wakeup, sync, enqueue, enqueue_oneshot, join, break, del, init, fini | every long command, the console, `SIGWINCH`, `rz_core_fini` |
| subprocess (`util/subprocess.c`) | process table, `SIGCHLD` pipe, per child: pid, status, semaphore, pipes | start, wait with timeout, read, readline, kill, drain, free, fini | `rz-test`, the kernel |
| interrupts (`util/interrupt.c`) | hook count, `SIGINT` flag and disposition; per instance: stack, callback, flag, timeout | push, pop, end, raise, clear, timeout | console, every long command |
| absint driver (`inquiry/absint/driver.c`) | entry queue, main channel, one channel per thread | ask, answer, finish, interrupt, shut down | thread queue, ring buffer, interrupts |
| thread pool, iterators (`util/thread_pool.c`, `thread_iterators.c`) | thread slots; position, flag and lock in the caller's frame | add, wait; iterate over lists and vectors | search, analysis |
| base address finder (`core/basefind.c`) | sectors, shared list of scores, lock, flags | search threads, progress thread | threads, io |
| string search (`bin/bfile_string.c`) | queue of intervals, table, results per thread | cut, scan, list, merge, sort | thread queue, pool |
| search pipeline (`search/search.c`, `bytes_search.c`) | windows, hit queue, interval queue, flag | cut, read, find, report, cancel, collect | iterators, queue, io |
| similarity (`arch/similarity.c`) | queues of work, matches and rest, flag | match threads, progress thread, collect | thread queue, pool |
| io maps (`io/io_map.c`), skyline, id pool | maps in order of priority, uncovered parts, free ids | add, remap, resize, priorize, delete, reset, close | descriptors, core files |
| io cache (`io/io_cache.c`) | entries with old and new bytes, skyline | write, read, commit, invalidate | maps, settings |
| p-cache (`io/p_cache.c`) | blocks with masks per descriptor, two bits of settings | write, list, commit, resize, exchange, settings | descriptors, settings |
| core files (`core/cfile.c`, `cbin.c`, `cvfile.c`) | files with vectors of maps, descriptors and binaries; what is current | open, load, reopen, delete, close, events | io, bin |
| seek history (`core/seek.c`) | offset, cursor, undos, redos, the mark | seek, save, mark, undo, redo, reset, align, next, previous | commands |
| threads, locks, semaphores; events; debugger; commands and projects; RzIL and ESIL; decoders; file formats | | | not modelled, see 7 |

The hard behaviours are lost and stolen wakeups (a condition variable is told
once, or only if a counter is positive), state that is tested under a lock and
used after it was released, closing and freeing while other threads are on their
way out, handing over a turn with a flag and a signal, unlocked fast paths,
threads and allocations that fail half way, signals that arrive as one, deadlines
that pass between two steps, addresses that wrap around, caches of caches that
every operation must bring up to date, and pointers that outlive what they refer
to. `PROJECT.json` lists them as hazards, each at its line, with the properties
that would catch it.

What makes the components correct:

* **Queue**: a pointer has one owner; nothing is lost or accepted after a close; a
  blocked call returns when it can.
* **Ring buffer**: a FIFO channel through clear, close and reopen; nobody sleeps
  beside an element or a free slot; close returns, and only when everyone counted
  itself out.
* **Scheduler**: one task executes at a time and is the current one; turns go round
  robin; no dispatch and no oneshot is lost; tasks are freed once, after their thread
  is done with the scheduler; tasks end and joins return.
* **Subprocess**: no exit gets lost between signal, pipe and table; the status returned
  is that of the child; calls return.
* **Interrupts**: inside a section `SIGINT` is handled and not forgotten; the callback is
  the innermost one.
* **Workers** (iterators, base finder, strings, search, similarity, driver): every piece of
  work is done once, results are complete and sorted, limits hold, nobody uses what its
  caller freed, and the caller gets out.
* **io**: the skyline answers as the list of maps would; reads give the newest cached
  bytes; commit and removal do to the file what they say.
* **Core**: nothing deleted is referred to; closing ends; undo and redo walk the way that
  was taken.

## 2. Plan

1. `ThreadCond`, `ThreadQueue` with `ClosableDeque`: model, runs, proofs. *Done.*
2. `ThreadRingBuf` with `BoundedChannel`: model, run, proofs. *Done.*
3. `TaskScheduler` with `RoundRobin`: model, runs, the proofs that tasks take turns and
   that their references are exact. *Done.*
4. What is built on the containers: driver, search pipeline, string search, similarity,
   base finder. *Done*, all but the string search with proofs. Proof of the string search. *Open.*
5. Iterators, subprocess, interrupts: *done*, with proofs. Events with nested sends. *Open.*
6. Sequential cores: io maps and skyline, io cache, p-cache, core files, seek history.
   *Done*, with proofs. Breakpoints of the debugger. *Open.*

## 3. Modules

| Module | Models |
|---|---|
| `RzList` | what deleting from a list leaves of it, for the tasks, the unmatched elements, maps and cache entries |
| `ThreadCond` | what signal and signal_all do to the threads that sleep on a condition |
| `ThreadQueue`, `ClosableDeque` | `thread_queue.c`, one step per critical section of `data_lock`; what its users rely on |
| `ThreadRingBuf`, `BoundedChannel` | `thread_ring_buf.c`, with entering, leaving and the unlocked counter as steps; a FIFO channel that can be emptied |
| `TaskScheduler`, `RoundRobin` | `core/task.c`, one step per section of `sched->lock` and per hand-over step; tasks taking turns |
| `Subprocess` | `subprocess.c` on Unix and its use in `rz-test` |
| `Interrupt` | `interrupt.c` on Unix |
| `AbsintDriver` | `absint/driver.c` |
| `ThreadIterate` | `thread_iterators.c` over `thread_pool.c` |
| `BaseFind`, `StringSearch`, `SearchPipeline`, `Similarity` | `basefind.c`, `bfile_string.c`, `search.c` with `bytes_search.c`, `similarity.c` |
| `Skyline`, `IdPool` | `skyline.c`, `idpool.c`, as operators |
| `IoMaps`, `IoCache`, `PCache` | `io_map.c`; `io_cache.c` with the reads and writes of `io.c`; `p_cache.c` with `io_desc.c` and its settings |
| `CoreFiles`, `SeekHistory` | `cfile.c` with `cbin.c`, `cvfile.c`, `io_desc.c` and `bfile.c`; `seek.c` with `cmd_seek.c` |
| `ThreadQueueProofs`, `ThreadRingBufProofs`, `TaskSchedulerProofs`, `SubprocessProofs`, `InterruptProofs`, `WorkerProofs`, `IoProofs`, `CoreProofs` | theorems; `InterruptProofs` has those of the driver too, `WorkerProofs` those of `Similarity`, `ThreadIterate` and `BaseFind`, `CoreProofs` those of `SeekHistory`, `CoreFiles` and `SearchPipeline`. Each begins with the facts on sequences it needs |
| `MC...` | constants of the TLC runs, and the modules that one run checks side by side |

`AbsintDriver`, `StringSearch`, `SearchPipeline` and `Similarity` are compositions: they use
the queues and channels through what `ClosableDeque`, `BoundedChannel` and `ThreadIterate`
promise (pop waits while the queue is open and empty, `close_when_empty` sleeps until a pop
tells it, `pop_all` tells nobody), each call as one step. `IoMaps` and `IoCache` share `Skyline`;
`IoMaps` and `CoreFiles` share `IdPool`.

Variables and actions have the names of the fields and functions they stand for; the
map in `PROJECT.json` gives the lines. A thread's place in the code is `pc[t]`.
Operators whose comment begins with "Mutant:" are deliberately wrong variants; each
property is shown to fail when the definition below it is replaced by one of them.

Some modules have a constant `Usages` (or `Options`, `Sizes`, `Modes`): the ways in which a
component is used, one of which `Init` chooses and no step changes. It is how one run covers
several programs. In the same way `MCInterrupts`, `MCWorkers`, `MCSearch`, `MCIo` and `MCCore` put
modules side by side that share no state: `part` says to which of them a behaviour belongs,
and the others do not move.

**ThreadQueue.** Every access is under `data_lock`, so a step is a critical section, up
to its end or to the wait that releases the lock. `reader_lock` is held across waits and
is a variable. Items are non-null pointers that a producer offers once. The variables
`got`, `refused` and `released` record where pointers went.

**ThreadRingBuf.** A call counts itself into `threads_awaiting`, takes `lock`, works, and
leaves: it counts itself out and *then* releases the lock. These are separate steps, as are
the load and the store of the decrement in `rz_th_ring_buf_is_open`, which takes no lock.
`CloseCountsEveryone` and `CloseReturns` are stated for usages without `is_open`
(`CountIsExact`), the latter without reopening (`NeverReopened`): with them they do not hold.

**TaskScheduler.** `rz_core_task_schedule` is the steps `EnterSchedule` (the unlocked fast
path and `current_task = NULL`), `Schedule` (state, counter, `cleanup_transient`),
`OneshotStart`/`OneshotEnd`, `PickNext`, `Dispatch` (the flag), `Signal`,
`AwaitDispatch`, `CleanupAfterYield`, `Resume`. `task_wakeup` is a step of its own
followed by `AwaitDispatch` and `Resume`. `task_run_thread` holds `sched->lock` from
`task_end` to `Post`. A runner may yield, sleep, join and end in any order. Other threads
spawn, break and delete tasks and enqueue oneshots at any time the lock is free;
`rz_core_fini` breaks and joins everything and destroys the scheduler. Assumed of the
callers: nobody spawns tasks during `rz_core_fini`, and oneshots do not call back into
the scheduler.

**Subprocess.** The signal handler, the reaper, the callers and the children are actors. A
pipe holds one unread byte, a newline or not; time is one event, the passing of a deadline;
a pid is not handed out again while somebody still has it. The status is a clean exit or a
signal. `DrainGivesExitCode` leaves out callers that read with a timeout, `TimedRunEnds` the
runs in `Unkilled`; section 5 says why.

**Interrupt.** What follows the atomic count in hook and unhook are steps of their own.
`NoLostInterrupt` and `HookedInSection` are stated for usages in which one thread uses all hooking
instances (`OneHooker`), as the commands of one core do.

**AbsintDriver.** What an interpretation computes is abstract: it asks any number of times for
memory or blocks and ends with or without a result. `terminating` says whether the
interpretations reach their fixpoint.

**Workers.** In `ThreadIterate` the position, the lock and the flag are the fields of the context;
the test of the flag is not under the lock. `BaseFind` takes the score of each base as an input,
`StringSearch` the strings of the file, `SearchPipeline` the places of the patterns, `Similarity` a
score for each pair, chosen freely. Threads that cannot be created and allocations that fail
are choices (`MayFail`, `faults`). `Stranded` in `StringSearch` and `Similarity` names the states in
which caller and threads wait for each other for ever; `Returns` says there is no other.

**IoMaps, IoCache.** Addresses are computed modulo `W` as `ut64` is modulo 2^64; an interval up to the
last address ends at 0. The intervals of the run reach and pass the last address, but no two
different ones overlap there (section 5). `base` remembers the file when the cache was last empty.

**PCache.** A cache is a set of blocks and a function from addresses to bytes. Listing and
committing leave one bit of `p_cache` where there were two, as the code does.

**CoreFiles.** A command is one step up to the loops of `rz_core_file_close`, which are steps of
their own, as are the descriptors `rz_core_file_close_all_but` comes to after a reopening (`SweepFile`,
`SweepDesc`). Pointers are numbers; one that is kept somewhere is not allocated again, so that
what dangles stays visible. A binary is the list of its maps (of the file, virtual or null) and what its
`RzBinInfo` says: missing, physical or virtual addresses. `Loads` has the file that cannot be read too. The
binary at the current address, to which `rz_core_binfiles_delete` goes over, is any binary or none.

**SeekHistory.** Addresses a command computes are any addresses; `saved` is the mark a command
sets before it moves and saves afterwards.

## 4. What TLC checks

| Run | Question | Bounds |
|---|---|---|
| `queue_safety` | owners, readers and closing in any order of calls | 3 threads, 3 items, limits 0, 1, 2, initial lists up to 2 |
| `queue_promise` | the queue implements `ClosableDeque` and blocked calls return, without `pop_all` | 3 threads, 2 items |
| `queue_pop_all_vs_close_when_empty` | *violation*: `pop_all` does not wake `close_when_empty` | same |
| `ring` | a FIFO channel, exact counters, no lost wakeup, close counts everyone and returns | 4 threads in 3 usages, 2 slots, 2 values |
| `task_turns` | one at a time, no lost turn, oneshots alone, round robin, references | main and 2 tasks, one transient, 1 oneshot, spurious wakeups, deletion, shutdown |
| `task_ends` | tasks end, joins return, oneshots are run | main and 1 task, 2 oneshots, breaks, shutdown |
| `subprocess` | no exit is lost, the status is the right one, calls return | 2 callers, 2 pids, 3 usages |
| `interrupts` | sections: hooks, callbacks, no lost interrupt; driver: answers, entries, end | 2 instances on 1 or 2 threads, 2 nested; 2 threads, 2 entries, a channel of 1 |
| `workers` | similarity match, iterator and base finder: each piece of work once, results, freeing, return | 2 threads, up to 3 elements a side, 5 usages; 3 threads, 4 elements; 3 threads, 16 addresses |
| `search` | hits of a search, strings of a file, freeing, return | 2 workers, 2 overlapping maps, 2 patterns; 2 threads, 4 file sizes, 6 sections |
| `io` | p-cache, maps and write cache: types, reads, commits, removals | 2 descriptors up to 3 bytes, 2 writes; 3 maps on 8 addresses; 3 writes, both on 8 addresses |
| `core` | seek history within limits and true; core files refer to nothing that is gone, closing ends | 4 addresses, 2 entries or no limit; 5 usages with up to 2 files, 3 descriptors, 2 binaries, 2 maps |

A property of a run is the conjunction of the module's named parts: `SectionsAreSafe`,
`StringsSafe` or `FilesOwned` say in their definitions which; each part has its own comment.

Why the bounds are enough: a wakeup can only be stolen or given to the wrong thread with
two sleepers and a third thread, and limits and indices wrap with one or two elements. In
the scheduler two background tasks and the main task are the fewest for which one is
handing over, one is waking up and one is queued; its properties of turns are proved for any number.
Two workers and one element more than workers show every race for a position, a queue and a
lock; a third worker is there where work does not divide. Two maps, three cached writes and two
files are the fewest for covering, nesting and chopping, and for deleting one while another is
current. Named bounds: `MaxInit`, `MaxNulls`, `MaxDrift`, `PipeSize`, `MaxWrites`, `MaxMaps`, `MaxUndos`,
`depth` and the numbers of `Usages` in `MCCore`. Deadlock is not checked, because every one of these
systems may stop: everybody has left, nobody makes another call, or the component was shut
down. What must not stop is stated as a liveness property.

Fairness. In the containers and the worker modules a thread that is inside a call and can go
on does so (weak fairness of its step); no thread has to make a call and no wakeup comes
without a signal. In the scheduler a thread that wants `sched->lock` again and again gets it
(strong fairness: a mutex released infinitely often), and runners and the main
task's synchronous sections end however often they yield; without the latter a task may
legitimately keep the core to itself. In `Subprocess` threads run, signals are delivered, time
passes and a killed child dies; nothing is assumed of a child that was not killed. In the driver
strong fairness of finishing and asking is assumed only of interpretations that terminate, so
`DriverEnds` for an interrupt does not depend on it. In `CoreFiles` the loops of
`rz_core_file_close` and `rz_core_file_close_all_but` are fair; `CloseReturns` is checked for the usage with one file
and its binary, and for that with two files, reopened too, and no binary that can be read: deciding
whether a loop can go on takes TLC too long with more.

## 5. Where code and documents differ

The run `queue_pop_all_vs_close_when_empty` shows one difference: `rz_th_queue_pop_all` empties the
list without `empty_cond`, although `rz_th_queue_close_when_empty` documents that it closes
the queue when it is empty. The others were met while modelling. The model follows the code
in each case, unless the list says that a step or an input is left out; the properties are
stated for the cases in which they hold.

*Containers and scheduler*

* `LEAVE_RBUF` counts a thread out before it releases the locks that `rz_th_ring_buf_free`
  destroys after close has "blocked until all waiting threads have left" (`thread_ring_buf.c:131`).
  `CloseCountsEveryone` says what holds.
* `rz_th_ring_buf_is_open` decrements `threads_awaiting` without its lock (`:324`); close may then poll for ever.
* `rz_core_task_schedule` signals `next->dispatch_cond` after it released `next->dispatch_lock`. If `next`
  was woken spuriously it can run, end and be freed before that signal; `NoUseAfterFree` makes
  this one exception.

*Subprocess and interrupts*

* A deadline noticed after a read returns `RZ_SUBPROCESS_BYTESREAD` from "Wait until process dies or
  timeout expires" (`subprocess.c:1294`), so the runner does not kill the child; so does the end of both
  pipes. These are the runs in `Unkilled`.
* A read that timed out posts `ret_sem`, which stays posted: a later drain does not wait for the status.
* `readline` does not end at the end of the output.
* Unhooking counts down and then sets `SIG_IGN`; another thread may install the handler in
  between and run with `SIGINT` ignored (`interrupt.c:85`).
* `rz_interrupt_break_clear` does not reset the process-wide flag; a timeout set while one is armed is
  replaced by 0 (`:306`); the unit of the deadline is about a thousand times too large (`:307`).

*Workers*

* With no worker created `rz_th_iterate_list` waits for nobody and returns true (`thread_iterators.c:23`).
  A search then returns an empty list as a success (`search.c:750`); `Complete` and `AllPrinted` are
  stated for searches with at least one worker (`SomeWorker`).
* When a search thread cannot be created `rz_basefind` frees the data of those that run
  (`basefind.c:441`); `WorkersSafe` is stated for searches without that failure. Sectors do not start on the
  alignment (`:429`), the last one reaches behind the end (`:431`), `base += alignment` may wrap
  (`:227`), and a range of nearly all addresses has sectors of size 0 (`:420`).
* In the string search a thread asleep on the open queue is joined when another could not be
  created (`bfile_string.c:673`), and `close_when_empty` waits for threads that gave up (`:678`): `Stranded`.
  An interval that could not be scanned is not noticed (`:278`); strings across a cut are returned as two
  (`:502`); "return an empty vector" returns NULL (`:644`).
* A search whose read failed returns what it has as a success (`search.c:750`); a map up to the
  last address has end 0 and is not searched, or its windows wrap and the list grows without end (`:642`, `:643`); hits on both sides
  of a border may overlap (`bytes_search.c:271`); the limit counts duplicates (`search.c:550`).
* Cancelling a similarity match empties the queue without a signal and leaves the caller asleep
  (`similarity.c:263`), as does one function that cannot be read (`:532`): `Stranded`. Pairs are not
  exchanged back when the inputs were (`:570`); without memory for the result the queues are freed
  under the progress thread (`:318`), which `SharedOutlivesThreads` leaves out;
  `analysis_match_basic_blocks` may prefer a later block at the threshold (`:402`), so `BestMatch` speaks of functions.

*io*

* A part up to the last address has end 0 and is compared as a small number (`skyline.c:30`): a map
  added inside it is not found. An empty part at 0 is found everywhere (`:10`). The branch of
  `rz_io_map_resize` that splits the map does not calculate the skyline (`io_map.c:409`). The intervals of
  `MCIo` avoid these three. `rz_io_map_next_available` does not look at all maps (`:365`); it is left out.
* Taking back a temporary write writes the bytes of an older temporary write into the file
  (`io_cache.c:75`); committing a range writes whole entries (`:46`); a write that wraps is moved by
  one byte (`:100`); a read of nothing returns false (`:180`).
* Listing or committing a p-cache loses the write bit (`p_cache.c:269`, `:312`), so later writes go below
  bytes still cached; a read without a cache returns 0 as its length (`:143`).

*Core*

* `rz_core_io_file_open` in debug mode frees all descriptors without an event (`cfile.c:1702`); the step is
  left out of `CoreFiles`.
* A load that fails gives the binary of another file the descriptor of this one (`:1033`);
  opening several files makes the first of *all* files current (`:1231`).
* After a reopening `rz_core_file_close_all_but` closes every descriptor other than that of the current
  file (`:1577`), the virtual files of the binary just loaded among them, and with them go their maps.
* A saving seek whose entry is there already keeps the redos (`seek.c:30`); the mark of a failed
  command is saved later (`cmd_seek.c:173`); a lowered limit does not shorten the history (`seek.c:33`); the
  remainder of an alignment is an `int` (`:282`); address 0 means "nothing found" (`:265`).

## 6. What is proved

All theorems hold for every value of the constants that satisfies the ASSUME of the
module: any number of threads, tasks, items, descriptors and addresses. A hypothesis beyond that is part of the theorem,
and named below.

**ThreadQueueProofs.** `ReadersAreWoken`, `ReadersAreSingle` and `QueueTypeCorrect` rest on `ControlInv`:
`TypeOK`, `OneReader` and `NoLostReaderWakeup` are inductive only together, since push signals only
while `reader_awaiting` is positive, and that the counter is 0 or 1 follows from `reader_lock`.
`EveryItemHasOneOwner` and `QueueIsBounded` have their own inductive invariant, under which the
accounting of pointers (`NothingIsLost`) and `ClosingIsFinal` are properties of single steps.
`ClosersAreWoken` assumes that nobody calls `pop_all`; the violation run shows why.
`QueueImplementsPromise` shows that every step is a step of `ClosableDeque` or changes
nothing of it.

**TaskSchedulerProofs.** All results rest on one inductive invariant, `TurnInv`. Whoever has
the turn (`OneTurn`) is not decided by one variable: it is spread over `pc`, `dispatched`, the
local `next` and `tasks_queue`. `TurnInv` adds what ties them together: a task is RUNNING
exactly at the labels of `RunningAt` (`StateFits`), the section of `schedule` and an ending task
hold `sched->lock` (`LockFits`), the task to be dispatched waits and has left the queue
(`DispatchFits`), `oneshot_running` is set exactly while somebody runs one (`OneshotFits`), and
`tasks_running` counts. `NobodyHasTurn` is the heart of it: with the lock free and
`tasks_running = 0` nobody has the turn, although a dispatcher may have left the section; that
is what `task_wakeup` and `rz_core_task_enqueue_oneshot` rely on. `NoEarlyReturn` shows that the
unlocked early return of `rz_core_task_schedule` on `oneshot_running` is never taken by a task.
Most actions are label moves that keep the turn (`LabelMoves`, `StepCases`); only `PickNext`,
`Dispatch` and `task_wakeup` are steps of the refinement `TasksTakeTurns`. The proofs leave
`Spurious` free, so they hold with spurious wakeups.

The references of tasks (`ReferencesAreExact`, `SchedulerTypeCorrect`) need a second invariant, `OwnInv`,
beside `TurnInv`. `RefsFit` says what a count is made of: one for each task that joins, and one for the list,
or for the thread until it has posted. That a task freed by its last reference is not used follows
from `Stands`: a posted or freed task has left its thread, and whoever waits for it is still in the
labels of a join. `Collected` carries the removal of transient tasks from the cleanup before a
yield to the next turn: none can end in between, because only the task with the turn ends. `FiniFits`
says the same of `rz_core_fini`. What `rz_list_delete` leaves of the
list, and the tasks of it a join is for, are `Only(tasks, S)` of `RzList`: the elements in S, in their order.

**ThreadRingBufProofs.** `WaitersAreWoken`: `NoLostWakeup` is inductive as it stands, but every operation changes three
things at once, the threads at a label, a waiting counter and the number of elements. The lemmas
count: what a step of one thread, a signal and a broadcast do to the number of threads at a label
(`OneMoves`, `Wakes`), for any number of sleepers. `CloseWaitsForEveryone` adds `Counted`:
`threads_awaiting` is the number of threads inside, which holds as long as nobody calls `is_open`.
`BufferIsChannel` needs only that the write index is `to_read` slots behind the read index
(`WriteIndex`); then put and take append to and shorten the window between them, for any size of the ring.

**SubprocessProofs.** `NoExitIsLost` rests on `ExitInv`. An exit is on its way in one of four places: a zombie, for which
the signal, the byte in the pipe or the reaper's loop is under way (`SignalsFit`), in the reaper's hands
(`ReaperFits`), or told. The delicate step is the reaper finding nobody for a pid: `TableFits` shows that a
caller that has forked and is not yet in the table holds `subprocs_mutex`, so that the reaper, which takes it
to look, sees every child somebody waits for. A posted semaphore means the status is there or the
wait timed out and posted it itself (`PostsFit`); that is why `DrainGivesExitCode` makes its exception.

**InterruptProofs.** `InterruptsAreSafe` rests on `SectionInv`: `g_hook_count` is the number of instances that are in a section or
on their way into one (`Counted`), which is not the number of those with a stack, since hooking
counts before it pushes and unhooking after it popped; while one of them switches the signal nobody
else is in a section (`SwitchesAlone`), which is what one hooking thread gives and two do not; an interrupt
is in one of the two flags (`FlagsFit`); and a frame holds the callback of the section around it
(`FramesFit`). `DriverIsSafe` rests on `DriverInv`. It numbers the messages on their
way, the one the main loop serves and those in its channel, and says that a request is the only one of
its sender, who has no answer yet, that a result is the only one for its entry point, which nobody
else holds, and that `entries_finished` counts the entries with a result: so the driver that has counted
to the end has finished each of them.

**WorkerProofs.** `EveryElementOnce` (the property `SimilarCorrect`) is proved for any number of threads and any
lists, scores, names and failures. Its invariant `MatchInv` gives every element one place: the queue, the hands of one
thread (`ItemsFit`), the matches or the rest (`SpokenOnce`); and as long as nobody cancelled, no element is
without one (`NothingDropped`, which excepts what `analysis_match_one_function` drops on failures). That the
flag decides whether the result is complete is `CallerFits`: a caller with a result has seen `loop`
set after all threads ended, and a cancellation that comes later finds the queue closed and empty. The best counterpart
is an invariant of the loop over `list_b` (`SearchFits`): of what it has seen, nothing is more similar
than the match it holds, and nothing reaches the threshold if it holds none. The lemmas
`WorkerCases` and `ControlSteps` sort the steps by what they do to an element: none, take, leave, pair, drop.
`OnlyFacts` shows that `Only` is a list of exactly the elements that stay. The assumptions on the constants,
`SimilarityAssumption` and `ThreadIterateAssumption`, are hypotheses of the theorems; the run `workers`
evaluates them.

`IteratorIsSafe` rests on an invariant that ties the position to the
calls: whoever is between taking and advancing holds the lock (`LockHeld`), an element is in
the hands of one worker (`HeldOnce`), everything in front of the position was called, is held or is NULL
(`Passed`), and a worker that ended saw the end or the cleared flag (`Ended`).

`EveryGoodBase` (the property `BaseFindSafe`) is proved for any range, alignment, score and number of threads. Its
invariant says of every base of the range where it is: in front of the sector's position, and then in the list exactly
if it scores enough, or at the position of the one thread whose sector it is. That the sectors cut the range without gap
or overlap, whether or not it divides by the number of threads, is arithmetic on `StartAddress`, `EndAddress`
and `Alignment`; it needs `Fits`, that no sum wraps, which nothing in the code checks (section 5).
`SearchIsSafe` has what needs no such hypothesis: freeing, stopping, the thread of the user interface,
and that the list which is returned is ordered by score and base. The order is what `rz_list_sort` promises
of the list (`Sorted`), not how it merges.

**IoProofs.** `CachesAlwaysFit` needs, beside what it states, that a descriptor without a cache has no
cached bytes (`NoneIsEmpty`): an exchange hands caches over whether they are there or not.

`CacheAlwaysReads` and `ReadsAgree` (the property `CacheReads`) are about loops over lists of any length: the binary search,
`rz_skyline_add` of every entry, the bytes copied part after part. The model writes each loop as a recursive function;
`LoopExists` and `Induction` give its values, both by way of a smallest counterexample (`Smallest`, from the
well-foundedness of `<`). `LowerBoundIs` says where the search ends; `SkylineAddFacts`
that adding a part to a tidy skyline (parts in order, none reaching past `L`) gives a tidy one in which
each address belongs to the new part or to whom it belonged, although the code cuts the part before, removes those inside
and chops the one after in three places; `SkylineOfFacts` and `Shows` extend that to a list: an address belongs to the last entry that
covers it. The inductive invariant `CacheInv` is that the skyline shows the list, that the ids of the entries grow,
and that every entry ends before the last address, as `rz_io_cache_write` sees to. Removal builds the skyline anew from
what is left (`RebuiltFacts`). `ReadFacts` then compares two loops, the one over the parts that a read takes and
the one over the entries that defines what it should give, byte by byte.

`MapsAlwaysCorrect` and `MapsAgree` (the property `MapsCorrect`) are proved for any descriptors, any size of the address space
and any number of maps. Their one hypothesis is `Apart(L)` for some address L > 0: every interval that is asked for either
ends at L or before it, and not at 0, or begins at L and reaches the last address or goes past it. It keeps out the three cases of section 5
in which the code is wrong, and no other wrapping: the intervals of the run satisfy it with L = 6 (`WrappingApart`). The invariant `MapInv` adds to what is
stated where maps lie (`Placed`) and that the skyline shows the list (`Shows`, as for the cache), from which
`GetIsLast` gives the answer of the binary search. `rz_io_map_priorize` is the delicate step: it adds the map again to a skyline in which it may still be on top
elsewhere, instead of calculating it (`PriorizedShows`). A new map that wraps is two maps whose
offsets go on modulo the address space (`WrapArith`, `WrapShows`). The ids are kept apart by `Pool`, through the map
that is made while the id of the outer one is already taken (`NewWrapGood`), and through the
deletion of several maps one after the other (`PoolLoop`). Where the branch of `rz_io_map_resize` that splits the map
leaves the skyline alone, `ResizeOk` shows that under the hypothesis the map has kept its interval.

`CommandsAlwaysKeep` (the property `CommandsKeep`) is proved for any descriptors, sizes, blocks and entries, and for any intervals
that end before the last address (`Unwrapped`, true of those of the run by `SomeUnwrapped`): a write that wraps is
moved by one byte (section 5), and is then not read where it was written. Committing and removing are folds over the entries, in
opposite orders. `Over` says what a commit of everything leaves, whatever the fold: each address has
the byte of its last entry. Only one file has that (`OverIsOne`), committing again does not change it (`OverAgain`), and it is what a read gave (`CommitAllKeeps`).
For taking back, the invariant `BaseInv` follows the file as it was when the cache was last empty: of all entries that cover an address
it is the first that holds the byte of that file, and an address without entry still has it (`Recalls`). A new entry keeps
that because what it replaces was read through the cache (`AddRecalls`), a commit because it writes only where there are entries
(`CommitRecalls`); so the fold from the newest to the oldest ends there (`TakenBack`).
For the descriptor cache `RunHas` shows that every cached byte of a block is in one of the runs that are written, so that a commit writes them all.

**CoreProofs.** `SeeksStayInBounds`: `TypeOK` and `Bounded` together are inductive, because undo and redo keep
the sum of both lists and only a save grows it. `HistoryIsKept` is about single steps under that
invariant; that undo and redo keep the list of addresses is the lemma `LineMoves` on two sequences
around an entry.

`FilesAlwaysOwned` (the property `FilesOwned`) is proved for any binaries and any numbers of files, descriptors, binaries and
maps. `FilesOwned` is not inductive: a deletion is told to the core files by a pointer, and what is deleted
next is found by an id. `CoreInv` adds three things. Pointers and ids are unambiguous, and no vector has an element twice (`Parts`), so that
removing the first match, as the event handlers do, leaves none. A map is in the vector of its core file (`Owners`), so that closing the
file reaches all its maps. And `extra_files` points to virtual descriptors only (`PointsTo`): so deleting a map or a binary never closes
the descriptor of another file, which is what `rz_core_file_reopen` relies on when it loads the new file after it has closed the
old one (`HasOwn`). `rz_core_file_close_all_but` closes core files and descriptors one by one; between two of them nothing
is under way (`ClosingOk`). Between the deletion of a descriptor and `rz_io_map_cleanup` maps may be without
a descriptor; there only `Weak` holds, and `CleanupDel` gives `Good` back.
Deletions cascade: a binary closes its virtual files, each of these deletes its maps, and each map is an event. The model writes
the loops as folds over sets, so for each of them the proof follows one relation between the core before and after, over any
set in any order (`FoldExists`, `SetInduction`): `Del` for deletions (exactly these are gone and
forgotten), `More` and `Grown` for loading and for applying the info of a binary again (`ApplyAllInfoGood`), `Stay` for what a close under way still needs.

`SearchAlwaysCorrect` (the property `SearchCorrect`) is proved for any maps, patterns, options, failures and number of
workers, of which any may not have been created, under two hypotheses the run `search` evaluates: `MapsFit`, that no map comes so close to the last address that a sum
wraps (section 5 says what happens otherwise), and `ElementsFit`, that no pattern is longer than `opt->element_size`, as `csearch.c:183` sees to for the one pattern of a command.
`SearchAlwaysSafe` has what holds without them: types, order, limit, printing and freeing.
The invariant `SearchInv` ties the caller to the workers and the cancel thread. `PhaseFits` says what each phase leaves of the others;
`CalmFits` that if nothing failed, nobody interrupted and there is no limit, the flag stays set until the workers are done,
and that a worker is done only when no window is left. `WindowsOnce` and `ShownFits` follow each window from the list to one worker and to the
queue of finished intervals, where the cancel thread prints it while workers append behind it; that as many
are printed as there are follows from counting: each place of the list of windows was taken once (`OnceLength`).
For the hits, `CutFits` shows that the windows of a map begin at most a chunk before each of its addresses and do not reach over its end, so that
a place of at most an element lies in one window (`WindowHolds`); `HitsFit` that each window which was taken is still to be
searched, or all it has is in the queue or in the result. What a window has is the loop of `bytes_find` over any number of offsets (`MatchesIs`),
for each of any number of patterns (`FlattenIs`); `SortedIs` shows that ranking the hits, which is what sorting and removing
duplicates come to, gives each of them once and in order.

Only model-checked:

* All liveness under fairness, and the liveness part of `ImplementsPromise`, which are out of the prover's reach.
* `StringsSafe`: it counts how often a string is in what concatenation, a fold over the table of constant strings
  and a sort leave of lists of any length.

## 7. Not modelled

Inside the modelled components: writing to stdin, PTYs and Windows in subprocess; the values of
deadlines; the Levenshtein distance of similarity; the loading of strings and pointers of the base
finder; the search for wildcard strings; the collections of the search other than byte
patterns, and the alignment of hits; names and permissions of maps, the search for a free address,
`RzIDStorage`; the write mask and `io.cachemode`; debug mode, the priority of maps, fat binaries, libraries, coredumps,
binaries of the same name, and the reopening of a path that holds several files; a change of `cfg.seek.histsize` while there is a history;
a failing `pthread_join`; failing allocations where `MayFail` or `faults` does not name them; the console
contexts that tasks switch; what runners, oneshots and callbacks compute, and calls of oneshots back into the
scheduler; the read of the list's destructor before the lock in `rz_th_queue_pop_all`; `rz_th_new` failing for a
task.

Whole components: the wrappers of threads, locks and semaphores (the modules use them as
mutual exclusion, counting and waiting); events with nested sends; the debugger, which is driven by a traced
process; commands and projects, sequential code over the data of everything else; the RzIL and
ESIL machines, sequential interpreters with unit tests; the decoders and file formats, most of the
repository's lines, which are large tables and parsers without shared state and whose
correctness is about external formats. `PROJECT.json` lists them with their reasons.
