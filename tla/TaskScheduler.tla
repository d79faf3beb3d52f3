--------------------------- MODULE TaskScheduler ---------------------------
(***************************************************************************)
(* The cooperative task scheduler of RzCore, librz/core/task.c.  Every     *)
(* task has a thread of its own, but only one of them executes at a time:  *)
(* a task gives its turn away in rz_core_task_schedule (it yields, goes to *)
(* sleep or ends) by setting `dispatched' of the next task in tasks_queue, *)
(* and comes back in task_wakeup.                                          *)
(*                                                                         *)
(* A step is a section under sched->lock, or what a thread does between    *)
(* two of them.  The recursive sched->lock is only ever held across steps  *)
(* while oneshots run and while a task ends (task_run_thread).  A task's   *)
(* dispatch_lock is held by itself from the section in which it queues     *)
(* itself until it waits (see Parked), and by a dispatcher for one step.   *)
(*                                                                         *)
(* The main task executes between rz_core_task_sync_begin and _sync_end.   *)
(* Spawning, breaking and deleting tasks and enqueueing oneshots may be    *)
(* done by any thread (a command, a signal handler, a user interface).     *)
(***************************************************************************)
EXTENDS Integers, Sequences, SequencesExt, FiniteSets, RzList

CONSTANTS
    Background,      \* the tasks other than main_task
    main_task,
    Nobody,          \* NULL, or "no thread"
    Outside,         \* a thread that is not a task's
    Oneshots,        \* the oneshots that will be enqueued, each once
    CmdTasks,        \* the tasks whose runner is cmd_task_runner
    Transients,      \* the tasks that may be created transient
    Joiners,         \* the tasks that call rz_core_task_join
    Sleepers,        \* the tasks that sleep for other reasons
    Requests,        \* what is asked of the scheduler besides spawning tasks and
                     \* enqueueing oneshots: "break", "del", "fini"
    Spurious         \* may rz_th_cond_wait return without a signal

Tasks == Background \cup {main_task}

ASSUME TaskAssumption ==
    /\ IsFiniteSet(Background)
    /\ main_task \notin Background
    /\ Nobody \notin Tasks /\ Outside \notin Tasks /\ Nobody # Outside
    /\ CmdTasks \subseteq Background /\ Transients \subseteq Background
    /\ Joiners \subseteq Tasks /\ Sleepers \subseteq Tasks
    /\ Requests \subseteq {"break", "del", "fini"}
    /\ Spurious \in BOOLEAN

VARIABLES
    lock,               \* who holds sched->lock across steps
    tasks, tasks_queue, oneshot_queue,
    current_task, tasks_running, oneshot_running,
    state, transient, breaked, refcount, dispatched,   \* of each task
    posted,             \* tasks whose running_sem was posted
    freed,              \* tasks that task_free released
    pc,                 \* where each task's thread is
    reason,             \* why it last entered schedule or task_wakeup
    next,               \* the local variable of rz_core_task_schedule
    joining,            \* what it still has to join, in order
    ran                 \* oneshots that were run or are running

sched == <<tasks_queue, current_task, tasks_running, oneshot_running>>
oneshots == <<oneshot_queue, ran>>
ownership == <<tasks, refcount, freed>>
flags == <<transient, breaked, posted>>
vars == <<lock, sched, oneshots, ownership, flags, state, dispatched, pc,
          reason, next, joining>>

States == {"BEFORE_START", "RUNNING", "SLEEPING", "DONE"}

\* The labels at which a thread has the turn: it executes its runner, or is
\* on its way into or out of it.
Turn == {"resume", "cleanup", "run", "nonstart", "joining", "joined", "call",
         "section", "oneshot", "dispatch"}

\* check and woken: at the head of the loop around rz_th_cond_wait, with
\* dispatch_lock and without it.  signal: the flag of next is set.
Labels == Turn \cup
    {"unborn", "out", "start", "check", "wait", "woken", "signal", "asleep",
     "slept", "post", "done", "fini", "fini_joining"}

Goto(t, label) == pc' = [pc EXCEPT ![t] = label]

\* rz_core_task_scheduler_init: only the main task exists, not yet running.
Init ==
    /\ lock = Nobody
    /\ tasks = <<main_task>>
    /\ tasks_queue = <<>>
    /\ oneshot_queue = <<>>
    /\ current_task = Nobody
    /\ tasks_running = 0
    /\ oneshot_running = FALSE
    /\ state = [t \in Tasks |-> "BEFORE_START"]
    /\ \E S \in SUBSET Transients : transient = [t \in Tasks |-> t \in S]
    /\ breaked = [t \in Tasks |-> FALSE]
    /\ refcount = [t \in Tasks |-> 1]
    /\ dispatched = [t \in Tasks |-> FALSE]
    /\ posted = {}
    /\ freed = {}
    /\ pc = [t \in Tasks |-> IF t = main_task THEN "out" ELSE "unborn"]
    /\ reason = [t \in Tasks |-> "BEGIN"]
    /\ next = [t \in Tasks |-> Nobody]
    /\ joining = [t \in Tasks |-> <<>>]
    /\ ran = {}
-----------------------------------------------------------------------------
\* rz_core_task_scheduler_fini has not been reached.
Up == pc[main_task] # "done"

\* task_free of the tasks of S; their threads have ended (NoUseAfterFree), so
\* that rz_th_wait returns.
task_free(S) == freed' = freed \cup S

\* References to the tasks of S are dropped; the last one frees the task.
Decref(S) ==
    /\ refcount' = [t \in Tasks |-> IF t \in S THEN refcount[t] - 1
                                              ELSE refcount[t]]
    /\ task_free({t \in S : refcount[t] <= 1})

\* rz_list_delete on sched->tasks, whose destructor is rz_core_task_decref.
Unlist(S) ==
    /\ tasks' = Only(tasks, Tasks \ S)
    /\ Decref(S)

\* Mutant: finished tasks are not told apart from running ones.
cleanup_transient_any(exclude) ==
    Unlist({t \in Range(tasks) \ {exclude} : transient[t]})

\* cleanup_transient: the finished transient tasks leave the list.
cleanup_transient(exclude) ==
    Unlist({t \in Range(tasks) \ {exclude} :
               transient[t] /\ state[t] = "DONE"})

\* The arguments of rz_core_task_schedule for which the task gives up its
\* turn for good.
Stop(ns) == ns # "RUNNING"

\* The early return of rz_core_task_schedule for a task that yields.
NothingToYieldTo ==
    oneshot_running \/ (tasks_running = 1 /\ oneshot_queue = <<>>)

\* rz_core_task_schedule, up to sched->lock: the unlocked early return and
\* the reset of current_task.  A task that was to stop and returns early
\* goes on to `otherwise' as if it had stopped.
EnterSchedule(t, ns, otherwise) ==
    /\ ns = "RUNNING" => ~NothingToYieldTo
    /\ current_task' = IF oneshot_running THEN current_task ELSE Nobody
    /\ Goto(t, IF oneshot_running THEN otherwise ELSE "call")
    /\ reason' = [reason EXCEPT ![t] = ns]
    /\ UNCHANGED <<lock, tasks_queue, tasks_running, oneshot_running, oneshots,
                   ownership, flags, state, dispatched, next, joining>>

rz_core_task_yield(t) == pc[t] = "run" /\ EnterSchedule(t, "RUNNING", "run")

\* rz_core_sleep_begin: the task waits for something else than a task.
SleepBegin(t) ==
    pc[t] = "run" /\ t \in Sleepers /\ EnterSchedule(t, "SLEEPING", "asleep")

\* The sleep of rz_core_task_join before it waits for the next task.
JoinSleep(t) == pc[t] = "joining" /\ EnterSchedule(t, "SLEEPING", "asleep")

rz_core_task_sync_end ==
    pc[main_task] = "run" /\ EnterSchedule(main_task, "DONE", "out")

\* The end of task_run_thread takes sched->lock before it calls task_end and
\* keeps it until it has posted running_sem.
task_end(t) ==
    /\ pc[t] \in {"run", "nonstart"} /\ t # main_task
    /\ lock = Nobody
    /\ lock' = t
    /\ current_task' = Nobody
    /\ reason' = [reason EXCEPT ![t] = "DONE"]
    /\ Goto(t, "call")
    /\ UNCHANGED <<tasks_queue, tasks_running, oneshot_running, oneshots,
                   ownership, flags, state, dispatched, next, joining>>

RunningAfter(ns) == tasks_running - (IF Stop(ns) THEN 1 ELSE 0)

\* rz_core_task_schedule from sched->lock up to the loop over oneshot_queue.
Schedule(t) ==
    /\ pc[t] = "call"
    /\ lock \in {Nobody, t}
    /\ lock' = t
    /\ state' = [state EXCEPT ![t] = reason[t]]
    /\ tasks_running' = RunningAfter(reason[t])
    /\ cleanup_transient(t)
    /\ Goto(t, "section")
    /\ UNCHANGED <<tasks_queue, current_task, oneshot_running, oneshots, flags,
                   dispatched, reason, next, joining>>

\* One round of the loop over oneshot_queue ...
OneshotStart(t) ==
    /\ pc[t] = "section" /\ oneshot_queue # <<>>
    /\ oneshot_queue' = Tail(oneshot_queue)
    /\ ran' = ran \cup {Head(oneshot_queue)}
    /\ oneshot_running' = TRUE
    /\ Goto(t, "oneshot")
    /\ UNCHANGED <<lock, tasks_queue, current_task, tasks_running, ownership,
                   flags, state, dispatched, reason, next, joining>>

\* ... and its end.
OneshotEnd(t) ==
    /\ pc[t] = "oneshot"
    /\ oneshot_running' = FALSE
    /\ Goto(t, "section")
    /\ UNCHANGED <<lock, tasks_queue, current_task, tasks_running, oneshots,
                   ownership, flags, state, dispatched, reason, next, joining>>

\* Where a thread goes when schedule returns to a caller that stopped.
AfterStop(t) ==
    IF reason[t] = "SLEEPING" THEN "asleep"
    ELSE IF t = main_task THEN "out" ELSE "post"

\* Only task_run_thread keeps sched->lock when schedule releases it.
LockAfter(t) == IF reason[t] = "DONE" /\ t # main_task THEN t ELSE Nobody

\* Mutant: the yielding task does not queue up again.
Requeue_lost(t) == Tail(tasks_queue)

\* Mutant: the yielding task goes to the front of the queue.
Requeue_front(t) == IF Stop(reason[t]) THEN Tail(tasks_queue)
                                       ELSE <<t>> \o Tail(tasks_queue)

\* tasks_queue after its head was popped: a task that only yields queues up.
Requeue(t) == IF Stop(reason[t]) THEN Tail(tasks_queue)
                                 ELSE Append(Tail(tasks_queue), t)

\* The rest of the section of rz_core_task_schedule.
PickNext(t) ==
    /\ pc[t] = "section" /\ oneshot_queue = <<>>
    /\ lock' = LockAfter(t)
    /\ IF tasks_queue = <<>>
         THEN /\ Goto(t, IF Stop(reason[t]) THEN AfterStop(t) ELSE "resume")
              /\ UNCHANGED <<tasks_queue, next>>
         ELSE /\ next' = [next EXCEPT ![t] = Head(tasks_queue)]
              /\ tasks_queue' = Requeue(t)
              /\ Goto(t, "dispatch")
    /\ UNCHANGED <<current_task, tasks_running, oneshot_running, oneshots,
                   ownership, flags, state, dispatched, reason, joining>>

\* t holds its own dispatch_lock: it is queued but does not wait yet.
Parked(t) ==
    \/ pc[t] = "check"
    \/ pc[t] \in {"dispatch", "signal"} /\ ~Stop(reason[t])

\* next->dispatched = true, under next's dispatch_lock ...
Dispatch(t) ==
    /\ pc[t] = "dispatch" /\ ~Parked(next[t])
    /\ dispatched' = [dispatched EXCEPT ![next[t]] = TRUE]
    /\ Goto(t, "signal")
    /\ UNCHANGED <<lock, sched, oneshots, ownership, flags, state, reason,
                   next, joining>>

\* rz_th_cond_signal on the dispatch_cond of n.
Woken(p, n) == [p EXCEPT ![n] = IF @ = "wait" THEN "woken" ELSE @]

\* ... and the signal, after the lock was released.
Signal(t) ==
    /\ pc[t] = "signal"
    /\ pc' = [Woken(pc, next[t]) EXCEPT
                 ![t] = IF Stop(reason[t]) THEN AfterStop(t) ELSE "check"]
    /\ next' = [next EXCEPT ![t] = Nobody]
    /\ UNCHANGED <<lock, sched, oneshots, ownership, flags, state, dispatched,
                   reason, joining>>

\* Mutant: the loop around rz_th_cond_wait is an if.
MayGoOn_once(t) == pc[t] = "woken" \/ dispatched[t]

\* The loop condition around rz_th_cond_wait.
MayGoOn(t) == dispatched[t]

\* The loops around rz_th_cond_wait in schedule and task_wakeup.
AwaitDispatch(t) ==
    /\ pc[t] \in {"check", "woken"}
    /\ Goto(t, IF ~MayGoOn(t) THEN "wait"
               ELSE IF reason[t] = "RUNNING" THEN "cleanup" ELSE "resume")
    /\ dispatched' = [dispatched EXCEPT ![t] = @ /\ ~MayGoOn(t)]
    /\ UNCHANGED <<lock, sched, oneshots, ownership, flags, state, reason,
                   next, joining>>

SpuriousWakeup(t) ==
    /\ Spurious /\ pc[t] = "wait"
    /\ Goto(t, "woken")
    /\ UNCHANGED <<lock, sched, oneshots, ownership, flags, state, dispatched,
                   reason, next, joining>>

\* The second cleanup_transient of a task that comes back from a yield.
CleanupAfterYield(t) ==
    /\ pc[t] = "cleanup" /\ lock = Nobody
    /\ cleanup_transient(t)
    /\ Goto(t, "resume")
    /\ UNCHANGED <<lock, sched, oneshots, flags, state, dispatched, reason,
                   next, joining>>

\* No other task was running when a task wakes up; tasks_running is still
\* the number before it counts itself.
Single == tasks_running + 1 \in {0, 1}

\* The section of task_wakeup.
task_wakeup(t) ==
    /\ pc[t] \in {"start", "slept"} /\ lock = Nobody
    /\ tasks_running' = tasks_running + 1
    /\ state' = [state EXCEPT ![t] = "RUNNING"]
    /\ tasks_queue' = IF Single THEN tasks_queue ELSE Append(tasks_queue, t)
    /\ Goto(t, IF Single THEN "resume" ELSE "check")
    /\ reason' = [reason EXCEPT ![t] = IF pc[t] = "start" THEN "BEGIN"
                                                          ELSE "SLEEPING"]
    /\ UNCHANGED <<lock, current_task, oneshot_running, oneshots, ownership,
                   flags, dispatched, next, joining>>

\* The end of schedule and of task_wakeup; task_run_thread skips the runner
\* of a task that was broken before it could start.
Resume(t) ==
    /\ pc[t] = "resume"
    /\ current_task' = t
    /\ Goto(t, IF joining[t] # <<>> THEN "joined"
               ELSE IF reason[t] = "BEGIN" /\ breaked[t] /\ t # main_task
                      THEN "nonstart" ELSE "run")
    /\ UNCHANGED <<lock, tasks_queue, tasks_running, oneshot_running, oneshots,
                   ownership, flags, state, dispatched, reason, next, joining>>

\* Mutant: the end of a task is not posted.
Post_silent(t) ==
    /\ pc[t] = "post"
    /\ lock' = Nobody
    /\ Goto(t, "done")
    /\ UNCHANGED <<sched, oneshots, ownership, flags, state, dispatched, reason,
                   next, joining>>

\* The end of task_run_thread: rz_th_sem_post, if the task was enqueued and has
\* a semaphore, and sched->lock is released.
Post(t) ==
    /\ pc[t] = "post"
    /\ posted' = posted \cup ({t} \cap Range(tasks))
    /\ lock' = Nobody
    /\ Goto(t, "done")
    /\ UNCHANGED <<sched, oneshots, ownership, transient, breaked, state,
                   dispatched, reason, next, joining>>
-----------------------------------------------------------------------------
\* The first section of rz_core_task_sync_begin.
rz_core_task_sync_begin ==
    /\ pc[main_task] = "out" /\ lock = Nobody
    /\ state' = [state EXCEPT ![main_task] = "BEFORE_START"]
    /\ Goto(main_task, "start")
    /\ UNCHANGED <<lock, sched, oneshots, ownership, flags, dispatched, reason,
                   next, joining>>

\* References to the tasks of S are taken.
Incref(S) ==
    refcount' = [t \in Tasks |-> IF t \in S THEN refcount[t] + 1
                                            ELSE refcount[t]]

\* Mutant: the task to join is not referenced.
TakeRefs_none(S) == UNCHANGED refcount

\* The references a joiner holds while it waits.
TakeRefs(S) == Incref(S)

\* The tasks of the list that a call of rz_core_task_join is for: one, by its
\* id, or all but the caller's.
JoinLists(t) ==
    {Only(tasks, S \ {t}) :
        S \in {Range(tasks)} \cup {{u} : u \in Range(tasks)}} \ {<<>>}

\* rz_core_task_join by an executing task, up to its first sleep.
rz_core_task_join(t) ==
    /\ pc[t] = "run" /\ t \in Joiners /\ lock = Nobody
    /\ \E list \in JoinLists(t) :
          /\ joining' = [joining EXCEPT ![t] = list]
          /\ TakeRefs(Range(list))
    /\ Goto(t, "joining")
    /\ UNCHANGED <<lock, sched, oneshots, tasks, freed, flags, state,
                   dispatched, reason, next>>

\* task_join returns: at once for the main task, which has no semaphore.
Joinable(u) == u = main_task \/ u \in posted

\* What a task slept for has happened.
EndSleep(t) ==
    /\ pc[t] = "asleep"
    /\ joining[t] # <<>> => Joinable(Head(joining[t]))
    /\ Goto(t, "slept")
    /\ UNCHANGED <<lock, sched, oneshots, ownership, flags, state, dispatched,
                   reason, next, joining>>

\* The task that was waited for is released; the next one is slept for.
Joined(t) ==
    /\ pc[t] = "joined" /\ lock = Nobody
    /\ Decref({Head(joining[t])})
    /\ joining' = [joining EXCEPT ![t] = Tail(@)]
    /\ Goto(t, IF Tail(joining[t]) = <<>> THEN "run" ELSE "joining")
    /\ UNCHANGED <<lock, sched, oneshots, tasks, flags, state, dispatched,
                   reason, next>>
-----------------------------------------------------------------------------
\* rz_core_task_enqueue.  Nobody spawns tasks while the core shuts down.
rz_core_task_enqueue(t) ==
    /\ pc[t] = "unborn" /\ lock = Nobody
    /\ pc[main_task] \notin {"fini", "fini_joining", "done"}
    /\ tasks' = Append(tasks, t)
    /\ Goto(t, "start")
    /\ UNCHANGED <<lock, sched, oneshots, refcount, freed, flags, state,
                   dispatched, reason, next, joining>>

\* rz_core_task_run_sync runs the task on the caller's thread, off the list.
rz_core_task_run_sync(t) ==
    /\ pc[t] = "unborn"
    /\ pc[main_task] \notin {"fini", "fini_joining", "done"}
    /\ Goto(t, "start")
    /\ UNCHANGED <<lock, sched, oneshots, ownership, flags, state, dispatched,
                   reason, next, joining>>

\* Mutant: the oneshot is run whatever else runs.
RunsAtOnce_always == TRUE

\* Nothing is running and nothing can be scheduled under sched->lock.
RunsAtOnce == tasks_running = 0

\* rz_core_task_enqueue_oneshot
rz_core_task_enqueue_oneshot(o) ==
    /\ Up /\ lock = Nobody
    /\ o \notin ran \cup Range(oneshot_queue)
    /\ IF RunsAtOnce
         THEN /\ lock' = Outside
              /\ oneshot_running' = TRUE
              /\ ran' = ran \cup {o}
              /\ UNCHANGED oneshot_queue
         ELSE /\ oneshot_queue' = Append(oneshot_queue, o)
              /\ UNCHANGED <<lock, oneshot_running, ran>>
    /\ UNCHANGED <<tasks_queue, current_task, tasks_running, ownership, flags,
                   state, dispatched, pc, reason, next, joining>>

\* The end of a oneshot that was run at once.
OneshotReturn ==
    /\ lock = Outside
    /\ lock' = Nobody
    /\ oneshot_running' = FALSE
    /\ UNCHANGED <<tasks_queue, current_task, tasks_running, oneshots,
                   ownership, flags, state, dispatched, pc, reason, next,
                   joining>>

\* task_break, for every task of S that is not done.
Break(S) ==
    breaked' = [t \in Tasks |-> breaked[t] \/ (t \in S /\ state[t] # "DONE")]

\* rz_core_task_break and rz_core_task_break_all
rz_core_task_break ==
    /\ "break" \in Requests /\ Up /\ lock = Nobody
    /\ \E S \in {Range(tasks)} \cup {{t} : t \in Range(tasks)} : Break(S)
    /\ UNCHANGED <<lock, sched, oneshots, ownership, transient, posted, state,
                   dispatched, pc, reason, next, joining>>

\* rz_core_task_del: a task that is not done becomes transient.
rz_core_task_del(t) ==
    /\ "del" \in Requests /\ Up /\ lock = Nobody
    /\ t \in Range(tasks) \ {main_task}
    /\ IF state[t] = "DONE"
         THEN Unlist({t}) /\ UNCHANGED transient
         ELSE transient' = [transient EXCEPT ![t] = TRUE] /\ UNCHANGED ownership
    /\ UNCHANGED <<lock, sched, oneshots, breaked, posted, state, dispatched,
                   pc, reason, next, joining>>

rz_core_task_del_all_done ==
    /\ "del" \in Requests /\ Up /\ lock = Nobody
    /\ Unlist({t \in Range(tasks) \cap CmdTasks : state[t] = "DONE"})
    /\ UNCHANGED <<lock, sched, oneshots, flags, state, dispatched, pc, reason,
                   next, joining>>

\* rz_core_fini breaks all tasks (no other thread is inside a synchronous task
\* then) ...
CoreFiniBreak ==
    /\ "fini" \in Requests /\ pc[main_task] = "out" /\ lock = Nobody
    /\ \A t \in Background :
          pc[t] \in {"unborn", "done"} \/ t \in Range(tasks)
    /\ Break(Range(tasks))
    /\ Goto(main_task, "fini")
    /\ UNCHANGED <<lock, sched, oneshots, ownership, transient, posted, state,
                   dispatched, reason, next, joining>>

\* ... joins them, from outside any task ...
CoreFiniJoin ==
    /\ pc[main_task] = "fini" /\ lock = Nobody
    /\ joining' = [joining EXCEPT ![main_task] = tasks]
    /\ TakeRefs(Range(tasks))
    /\ Goto(main_task, "fini_joining")
    /\ UNCHANGED <<lock, sched, oneshots, tasks, freed, flags, state,
                   dispatched, reason, next>>

\* ... one after the other ...
CoreFiniJoined ==
    /\ pc[main_task] = "fini_joining" /\ lock = Nobody
    /\ joining[main_task] # <<>>
    /\ Joinable(Head(joining[main_task]))
    /\ Decref({Head(joining[main_task])})
    /\ joining' = [joining EXCEPT ![main_task] = Tail(@)]
    /\ UNCHANGED <<lock, sched, oneshots, tasks, flags, state, dispatched, pc,
                   reason, next>>

\* ... and calls rz_core_task_scheduler_fini.
rz_core_task_scheduler_fini ==
    /\ pc[main_task] = "fini_joining" /\ lock = Nobody
    /\ joining[main_task] = <<>>
    /\ Unlist(Range(tasks))
    /\ Goto(main_task, "done")
    /\ UNCHANGED <<lock, sched, oneshots, flags, state, dispatched, reason,
                   next, joining>>
-----------------------------------------------------------------------------
\* What the thread of task t does.
TaskStep(t) ==
    \/ rz_core_task_yield(t) \/ SleepBegin(t) \/ JoinSleep(t) \/ task_end(t)
    \/ Schedule(t) \/ OneshotStart(t) \/ OneshotEnd(t) \/ PickNext(t)
    \/ Dispatch(t) \/ Signal(t) \/ AwaitDispatch(t) \/ SpuriousWakeup(t)
    \/ CleanupAfterYield(t) \/ task_wakeup(t) \/ Resume(t) \/ Post(t)
    \/ rz_core_task_join(t) \/ EndSleep(t) \/ Joined(t)

\* What any thread may do to the scheduler.
Request ==
    \/ \E t \in Background :
          rz_core_task_enqueue(t) \/ rz_core_task_run_sync(t) \/ rz_core_task_del(t)
    \/ \E o \in Oneshots : rz_core_task_enqueue_oneshot(o)
    \/ rz_core_task_break
    \/ rz_core_task_del_all_done

CoreFini ==
    CoreFiniBreak \/ CoreFiniJoin \/ CoreFiniJoined \/ rz_core_task_scheduler_fini

Next ==
    \/ \E t \in Tasks : TaskStep(t)
    \/ rz_core_task_sync_begin \/ rz_core_task_sync_end
    \/ Request \/ OneshotReturn
    \/ CoreFini

Spec == Init /\ [][Next]_vars

\* The steps of a thread that it takes by itself once it may.
Progress(t) ==
    \/ JoinSleep(t) \/ Schedule(t) \/ OneshotStart(t) \/ OneshotEnd(t)
    \/ PickNext(t) \/ Dispatch(t) \/ Signal(t) \/ AwaitDispatch(t)
    \/ CleanupAfterYield(t) \/ task_wakeup(t) \/ Resume(t) \/ Post(t)
    \/ EndSleep(t) \/ Joined(t)

\* A thread that waits for sched->lock gets it in the end, and runners and the
\* synchronous sections of the main task end, however often they yield.
Fairness ==
    /\ \A t \in Tasks : SF_vars(Progress(t)) /\ SF_vars(task_end(t))
    /\ SF_vars(rz_core_task_sync_end)
    /\ WF_vars(OneshotReturn)

FairSpec == Spec /\ Fairness
-----------------------------------------------------------------------------
(* Properties.                                                             *)

TypeOK ==
    /\ lock \in Tasks \cup {Nobody, Outside}
    /\ tasks \in Seq(Tasks)
    /\ tasks_queue \in Seq(Tasks)
    /\ oneshot_queue \in Seq(Oneshots)
    /\ current_task \in Tasks \cup {Nobody}
    /\ tasks_running \in Nat
    /\ oneshot_running \in BOOLEAN
    /\ state \in [Tasks -> States]
    /\ transient \in [Tasks -> BOOLEAN]
    /\ breaked \in [Tasks -> BOOLEAN]
    /\ refcount \in [Tasks -> Nat]
    /\ dispatched \in [Tasks -> BOOLEAN]
    /\ posted \subseteq Tasks
    /\ freed \subseteq Tasks
    /\ pc \in [Tasks -> Labels]
    /\ reason \in [Tasks -> {"BEGIN", "RUNNING", "SLEEPING", "DONE"}]
    /\ next \in [Tasks -> Tasks \cup {Nobody}]
    /\ joining \in [Tasks -> Seq(Tasks)]
    /\ ran \subseteq Oneshots

\* A task has the turn from the moment it is dispatched until it has
\* dispatched another one.
HasTurn(t) == pc[t] \in Turn \/ dispatched[t]

\* At most one task executes, and it is the one rz_core_task_self returns to
\* its runner: the turn is handed over with flags and condition variables,
\* partly outside sched->lock, while tasks wake up, end and sleep.
OneAtATime ==
    /\ \A t, u \in Tasks : HasTurn(t) /\ HasTurn(u) => t = u
    /\ \A t \in Tasks :
          pc[t] \in {"run", "nonstart", "joining", "joined"} => current_task = t

\* tasks_running counts the tasks that are RUNNING, and while there is one
\* somebody has the turn: no dispatch gets lost between a task that stops and
\* one that wakes up at the same time.
TurnIsNeverLost ==
    /\ tasks_running = Cardinality({t \in Tasks : state[t] = "RUNNING"})
    /\ tasks_running > 0 => \E t \in Tasks : HasTurn(t)

\* A task waits for a dispatch exactly while it is queued once, or about to be
\* dispatched, or dispatched.
Waiting(t) == Parked(t) \/ pc[t] \in {"wait", "woken"}

QueueIsWaiting ==
    /\ IsInjective(tasks_queue)
    /\ \A t \in Tasks :
          /\ t \in Range(tasks_queue) => Waiting(t) /\ ~dispatched[t]
          /\ Waiting(t) /\ ~dispatched[t] =>
                \/ t \in Range(tasks_queue)
                \/ \E u \in Tasks : pc[u] = "dispatch" /\ next[u] = t

\* Oneshots run alone: while one runs, nobody has the turn but the task whose
\* rz_core_task_schedule runs it under sched->lock.
OneshotsRunAlone ==
    oneshot_running => \A t \in Tasks : HasTurn(t) => lock = t

\* A oneshot that was queued is not left behind: somebody still has the turn
\* and will pass through rz_core_task_schedule.
NoStrandedOneshot ==
    lock = Nobody /\ oneshot_queue # <<>> => \E t \in Tasks : HasTurn(t)

\* A task is freed by its last reference, the list's or a joiner's, and only
\* after its thread is past everything that needs sched->lock (task_free waits
\* for it with the lock held); nothing refers to it any more.  One case is left
\* out: rz_core_task_schedule signals the next task after it has released that
\* task's dispatch_lock, and a task that a spurious wakeup brings back before
\* the signal may be gone by then.
NoUseAfterFree ==
    /\ \A t \in Tasks \ freed :
          refcount[t] = Cardinality({u \in Tasks : t \in Range(joining[u])})
                        + (IF t \in Range(tasks) \/ t \notin posted THEN 1 ELSE 0)
    /\ \A t \in freed :
          /\ pc[t] = "done"
          /\ t \notin Range(tasks) \cup Range(tasks_queue)
          /\ \A u \in Tasks : t \notin Range(joining[u])
          /\ \A u \in Tasks : next[u] = t => Spurious /\ pc[u] = "signal"

\* When a task is back from a yield, no finished transient task is left in the
\* list, whoever ended meanwhile.
TransientsCollected ==
    \A t \in Tasks :
        pc[t] \in {"resume", "run"} /\ reason[t] = "RUNNING" =>
            \A u \in Range(tasks) \ {t} : ~(transient[u] /\ state[u] = "DONE")

\* The references of tasks are exact: no task is used after its last one is
\* given up, and none of a transient task that ended is kept.
TasksAreOwned == NoUseAfterFree /\ TransientsCollected

\* Every task that was started ends, although the turn is only ever given
\* away voluntarily.
EveryTaskEnds ==
    \A t \in Background : pc[t] = "start" ~> pc[t] = "done"

\* rz_core_task_join returns to a task that joins others.
JoinReturns ==
    \A t \in Tasks : pc[t] = "joining" ~> pc[t] = "run"

\* A oneshot that had to be queued is run.
OneshotsAreRun ==
    \A o \in Oneshots : o \in Range(oneshot_queue) ~> o \in ran

\* Whatever was handed to the scheduler comes to its end: tasks, oneshots and
\* the calls of rz_core_task_join that wait for them.
WorkIsDone == EveryTaskEnds /\ JoinReturns /\ OneshotsAreRun

\* Which task has the turn, seen as a round-robin queue: it changes when the
\* next task leaves tasks_queue.
turn ==
    LET giving == {t \in Tasks : pc[t] = "dispatch"}
        having == {t \in Tasks : HasTurn(t)}
    IN  IF giving # {} THEN next[CHOOSE t \in giving : TRUE]
        ELSE IF having # {} THEN CHOOSE t \in having : TRUE ELSE Nobody

RR == INSTANCE RoundRobin WITH queue <- tasks_queue

\* The turn passes from task to task in round-robin order, whatever the order
\* in which threads get their locks and their signals.
ImplementsRoundRobin == RR!Spec
=============================================================================
