------------------------ MODULE TaskSchedulerProofs ------------------------
(***************************************************************************)
(* Tasks take turns, for any number of tasks: the invariants of            *)
(* TaskScheduler about the turn, its refinement of RoundRobin, and the     *)
(* references that decide when a task is freed.                            *)
(***************************************************************************)
EXTENDS TaskScheduler, FiniteSetTheorems, SequencesExt, SequenceTheorems, TLAPS

-----------------------------------------------------------------------------
(* What RzList operations do to a list: append, pop_head and the like.     *)

\* rz_list_append: one more item, at the end.
LEMMA AppendFacts ==
    ASSUME NEW S, NEW s \in Seq(S), NEW x \in S
    PROVE  /\ Append(s, x) \in Seq(S)
           /\ Append(s, x) # <<>>
           /\ Len(Append(s, x)) = Len(s) + 1
           /\ \A i \in 1..Len(s) : Append(s, x)[i] = s[i]
           /\ Append(s, x)[Len(s) + 1] = x
    OBVIOUS

\* rz_list_pop_head: one item less, the others moved by one.
LEMMA TailFacts ==
    ASSUME NEW S, NEW s \in Seq(S), s # <<>>
    PROVE  /\ Tail(s) \in Seq(S)
           /\ Len(Tail(s)) = Len(s) - 1
           /\ \A i \in 1..(Len(s) - 1) : Tail(s)[i] = s[i + 1]
           /\ Head(s) = s[1]
           /\ Head(s) \in S
           /\ Len(s) \in Nat \ {0}
    OBVIOUS

\* A list holds the items at its positions.
LEMMA RangeFacts ==
    ASSUME NEW S, NEW s \in Seq(S)
    PROVE  /\ Range(s) \subseteq S
           /\ \A x : x \in Range(s) <=> \E i \in 1..Len(s) : s[i] = x
           /\ DOMAIN s = 1..Len(s)
           /\ Len(s) \in Nat
    BY DEF Range

\* Adding an item that is not there keeps a list free of repetitions.
LEMMA AppendDistinct ==
    ASSUME NEW S, NEW s \in Seq(S), NEW x \in S, IsInjective(s), x \notin Range(s)
    PROVE  /\ IsInjective(Append(s, x))
           /\ Range(Append(s, x)) = Range(s) \cup {x}
    <1> DEFINE a == Append(s, x)
    <1>1. /\ a \in Seq(S) /\ Len(a) = Len(s) + 1 /\ Len(s) \in Nat
          /\ \A i \in 1..Len(s) : a[i] = s[i]
          /\ a[Len(s) + 1] = x
        BY AppendFacts, RangeFacts
    <1> HIDE DEF a
    <1>2. DOMAIN a = 1..(Len(s) + 1) /\ DOMAIN s = 1..Len(s)
        BY <1>1
    <1>3. IsInjective(a)
        BY <1>1, <1>2, RangeFacts, SMT DEF IsInjective
    <1>4. \A y : y \in Range(a) <=> y \in Range(s) \/ y = x
        BY <1>1, <1>2 DEF Range
    <1> QED
        BY <1>3, <1>4 DEF a

\* Taking the first item of a list without repetitions takes it out for good.
LEMMA TailDistinct ==
    ASSUME NEW S, NEW s \in Seq(S), s # <<>>, IsInjective(s)
    PROVE  /\ IsInjective(Tail(s))
           /\ Range(Tail(s)) = Range(s) \ {Head(s)}
           /\ Head(s) \in Range(s)
    <1> DEFINE a == Tail(s)
    <1>1. /\ a \in Seq(S) /\ Len(a) = Len(s) - 1 /\ Len(s) \in Nat \ {0}
          /\ \A i \in 1..(Len(s) - 1) : a[i] = s[i + 1]
          /\ Head(s) = s[1]
        BY TailFacts
    <1> HIDE DEF a
    <1>2. DOMAIN a = 1..(Len(s) - 1) /\ DOMAIN s = 1..Len(s)
        BY <1>1
    <1>3. IsInjective(a)
        BY <1>1, <1>2 DEF IsInjective
    <1>4. \A y : y \in Range(a) => y \in Range(s) \ {Head(s)}
        BY <1>1, <1>2 DEF Range, IsInjective
    <1>5. \A y : y \in Range(s) \ {Head(s)} => y \in Range(a)
        <2> SUFFICES ASSUME NEW i \in 1..Len(s), s[i] # Head(s) PROVE s[i] \in Range(a)
            BY <1>2 DEF Range
        <2>1. i - 1 \in 1..(Len(s) - 1) /\ i - 1 + 1 = i
            BY <1>1
        <2> QED
            BY <2>1, <1>1, <1>2 DEF Range
    <1>6. Head(s) \in Range(s)
        BY <1>1, <1>2 DEF Range
    <1> QED
        BY <1>3, <1>4, <1>5, <1>6 DEF a
-----------------------------------------------------------------------------

\* The types of the variables that decide about the turn.
TurnTypes ==
    /\ pc \in [Tasks -> Labels]
    /\ state \in [Tasks -> States]
    /\ dispatched \in [Tasks -> BOOLEAN]
    /\ reason \in [Tasks -> {"BEGIN", "RUNNING", "SLEEPING", "DONE"}]
    /\ next \in [Tasks -> Tasks \cup {Nobody}]
    /\ tasks_queue \in Seq(Tasks)
    /\ lock \in Tasks \cup {Nobody, Outside}
    /\ oneshot_running \in BOOLEAN

\* At most one task has the turn.
OneTurn == \A t, u \in Tasks : HasTurn(t) /\ HasTurn(u) => t = u

\* The task that executes is the current one.
SelfIsCurrent ==
    \A t \in Tasks :
        pc[t] \in {"run", "nonstart", "joining", "joined"} => current_task = t

\* Where a task's state is RUNNING: until the section of schedule changes it.
RunningAt(t) ==
    \/ pc[t] \in {"resume", "cleanup", "run", "nonstart", "joining", "joined",
                  "call", "check", "wait", "woken"}
    \/ pc[t] \in {"section", "oneshot", "dispatch", "signal"}
         /\ reason[t] = "RUNNING"

StateFits ==
    \A t \in Tasks :
        /\ state[t] = "RUNNING" <=> RunningAt(t)
        /\ pc[t] \in {"call", "section", "oneshot", "dispatch", "signal"}
              => reason[t] # "BEGIN"

\* Who has to hold sched->lock: the task whose schedule is in its section, and
\* a task that ends until it has posted its semaphore.
NeedsLock(t) ==
    \/ pc[t] \in {"section", "oneshot", "post"}
    \/ pc[t] \in {"call", "dispatch", "signal"}
         /\ reason[t] = "DONE" /\ t # main_task

LockFits == \A t \in Tasks : NeedsLock(t) => lock = t

\* The task that is about to be dispatched waits and is no longer queued; a
\* task that was dispatched waits, without its dispatch_lock.
DispatchFits ==
    \A t \in Tasks :
        /\ pc[t] \in {"dispatch", "signal"} => next[t] \in Tasks \ {t}
        /\ pc[t] = "dispatch" => /\ Waiting(next[t]) /\ ~dispatched[next[t]]
                                 /\ next[t] \notin Range(tasks_queue)
        /\ dispatched[t] => pc[t] \in {"wait", "woken"}

\* oneshot_running is set exactly while somebody runs a oneshot, and nobody
\* has the turn while a thread that is not a task's does.
OneshotFits ==
    /\ oneshot_running <=> lock = Outside \/ \E t \in Tasks : pc[t] = "oneshot"
    /\ lock = Outside => \A t \in Tasks : ~HasTurn(t)

\* Somebody has the turn while a task is RUNNING.
TurnExists ==
    (\E t \in Tasks : state[t] = "RUNNING") => \E t \in Tasks : HasTurn(t)

Running == {t \in Tasks : state[t] = "RUNNING"}

TurnInv ==
    /\ TurnTypes
    /\ OneTurn
    /\ SelfIsCurrent
    /\ StateFits
    /\ LockFits
    /\ DispatchFits
    /\ OneshotFits
    /\ QueueIsWaiting
    /\ TurnExists
    /\ tasks_running = Cardinality(Running)
-----------------------------------------------------------------------------
\* A step of the thread of t: nothing changes for the other tasks.
OnlyAt(t) ==
    \A u \in Tasks \ {t} :
        /\ pc'[u] = pc[u] /\ reason'[u] = reason[u] /\ next'[u] = next[u]
        /\ state'[u] = state[u] /\ dispatched'[u] = dispatched[u]

\* The turn and the queue for it stay what they are.
SameTurn ==
    /\ UNCHANGED tasks_queue
    /\ \A u \in Tasks :
          /\ HasTurn(u)' <=> HasTurn(u)
          /\ pc'[u] = "dispatch" <=> pc[u] = "dispatch"
          /\ pc[u] = "dispatch" => next'[u] = next[u]

\* The thread of t goes from one label to another without getting or losing
\* the turn, and neither queues up nor leaves the queue.
LabelMove(t) ==
    /\ OnlyAt(t)
    /\ UNCHANGED <<tasks_queue, tasks_running, oneshot_running>>
    /\ dispatched'[t] = dispatched[t]
    /\ {pc[t], pc'[t]} \cap {"oneshot", "section", "dispatch", "signal"} = {}
    /\ pc[t] \in Turn <=> pc'[t] \in Turn
    /\ pc[t] \in {"check", "wait", "woken"} <=> pc'[t] \in {"check", "wait", "woken"}
    /\ dispatched[t] => pc'[t] \in {"wait", "woken"}
    /\ pc'[t] = "call" => reason'[t] # "BEGIN"
    /\ state'[t] = "RUNNING" <=> RunningAt(t)'
    /\ state[t] = "RUNNING" <=> state'[t] = "RUNNING"
    /\ lock' = lock \/ {lock, lock'} \subseteq {Nobody, t}
    /\ NeedsLock(t)' => lock' = t
    /\ current_task' = current_task \/ pc[t] \in Turn
    /\ pc'[t] \in {"run", "nonstart", "joining", "joined"} => current_task' = t

\* Such a move keeps the invariant.
LEMMA LabelMoves ==
    ASSUME TurnInv, TurnTypes', NEW t \in Tasks, LabelMove(t)
    PROVE  TurnInv' /\ SameTurn
    <1> USE TaskAssumption
    <1>1. \A u \in Tasks : HasTurn(u)' <=> HasTurn(u)
        BY DEF LabelMove, OnlyAt, HasTurn
    <1>2. \A u \in Tasks : Waiting(u)' <=> Waiting(u)
        BY DEF LabelMove, OnlyAt, Waiting, Parked, Stop
    <1>3. \A u \in Tasks : state'[u] = "RUNNING" <=> state[u] = "RUNNING"
        BY DEF LabelMove, OnlyAt
    <1>4. \A u \in Tasks : pc'[u] \in {"dispatch", "signal", "oneshot"} =>
                u # t /\ pc'[u] = pc[u] /\ next'[u] = next[u]
        BY DEF LabelMove, OnlyAt
    <1>5. \A u \in Tasks : pc[u] \in {"dispatch", "signal", "oneshot"} =>
                u # t /\ pc'[u] = pc[u] /\ next'[u] = next[u]
        BY DEF LabelMove, OnlyAt
    <1>6. \A u \in Tasks : dispatched'[u] = dispatched[u]
        BY DEF LabelMove, OnlyAt
    <1>7. OneTurn'
        BY <1>1 DEF TurnInv, OneTurn
    <1>8. SelfIsCurrent'
        BY <1>1 DEF TurnInv, OneTurn, SelfIsCurrent, HasTurn, LabelMove, OnlyAt, Turn
    <1>9. StateFits'
        <2>1. \A u \in Tasks \ {t} : RunningAt(u)' <=> RunningAt(u)
            BY DEF LabelMove, OnlyAt, RunningAt
        <2>2. \A u \in Tasks : state'[u] = "RUNNING" <=> RunningAt(u)'
            BY <2>1, <1>3 DEF LabelMove, TurnInv, StateFits
        <2> QED
            BY <2>2 DEF TurnInv, StateFits, LabelMove, OnlyAt
    <1>10. LockFits'
        BY DEF TurnInv, LockFits, NeedsLock, LabelMove, OnlyAt
    <1>11. DispatchFits'
        <2>1. UNCHANGED Range(tasks_queue)
            BY DEF LabelMove
        <2> QED
            BY <2>1, <1>2, <1>4, <1>6 DEF TurnInv, DispatchFits, LabelMove, OnlyAt, TurnTypes
    <1>12. OneshotFits'
        BY <1>1, <1>4, <1>5 DEF TurnInv, OneshotFits, LabelMove, TurnTypes
    <1>13. QueueIsWaiting'
        <2>1. UNCHANGED <<Range(tasks_queue), IsInjective(tasks_queue)>>
            BY DEF LabelMove
        <2> QED
            BY <2>1, <1>2, <1>5, <1>6 DEF TurnInv, QueueIsWaiting
    <1>14. TurnExists'
        BY <1>1, <1>3 DEF TurnInv, TurnExists
    <1>15. (tasks_running = Cardinality(Running))'
        BY <1>3 DEF TurnInv, Running, LabelMove
    <1>16. SameTurn
        BY <1>1, <1>4, <1>5 DEF SameTurn, LabelMove
    <1> QED
        BY <1>16, <1>7, <1>8, <1>9, <1>10, <1>11, <1>12, <1>13, <1>14, <1>15 DEF TurnInv

\* Waking up spuriously, collecting transients, resuming, joining, and posting
\* the end of a task do not touch the turn.
LEMMA TaskMoves ==
    ASSUME TurnInv, NEW t \in Tasks,
           \/ SpuriousWakeup(t) \/ CleanupAfterYield(t) \/ Post(t) \/ Resume(t)
           \/ rz_core_task_join(t) \/ EndSleep(t) \/ Joined(t)
    PROVE  TurnInv' /\ SameTurn
    <1> USE TaskAssumption
    <1>1. TurnTypes /\ SelfIsCurrent /\ StateFits /\ LockFits /\ DispatchFits
        BY DEF TurnInv
    <1>2. CASE SpuriousWakeup(t)
        <2>1. TurnTypes'
            BY <1>1, <1>2 DEF TurnTypes, SpuriousWakeup, sched, Goto, Labels, Turn
        <2>2. LabelMove(t)
            BY <1>1, <1>2 DEF TurnTypes, SpuriousWakeup, sched, Goto, LabelMove, OnlyAt,
                Turn, StateFits, RunningAt, LockFits, NeedsLock, DispatchFits
        <2> QED
            BY <2>1, <2>2, LabelMoves
    <1>3. CASE CleanupAfterYield(t)
        <2>1. TurnTypes'
            BY <1>1, <1>3 DEF TurnTypes, CleanupAfterYield, sched, Goto, Labels, Turn
        <2>2. LabelMove(t)
            BY <1>1, <1>3 DEF TurnTypes, CleanupAfterYield, sched, Goto, LabelMove, OnlyAt,
                Turn, StateFits, RunningAt, LockFits, NeedsLock, DispatchFits
        <2> QED
            BY <2>1, <2>2, LabelMoves
    <1>4. CASE Post(t)
        <2>1. TurnTypes'
            BY <1>1, <1>4 DEF TurnTypes, Post, sched, Goto, Labels, Turn
        <2>2. LabelMove(t)
            BY <1>1, <1>4 DEF TurnTypes, Post, sched, Goto, LabelMove, OnlyAt,
                Turn, StateFits, RunningAt, LockFits, NeedsLock, DispatchFits
        <2> QED
            BY <2>1, <2>2, LabelMoves
    <1>5. CASE rz_core_task_join(t)
        <2>1. TurnTypes'
            BY <1>1, <1>5 DEF TurnTypes, rz_core_task_join, sched, Goto, Labels, Turn
        <2>2. LabelMove(t)
            BY <1>1, <1>5 DEF TurnTypes, rz_core_task_join, sched, Goto, LabelMove, OnlyAt,
                Turn, SelfIsCurrent, StateFits, RunningAt, LockFits, NeedsLock,
                DispatchFits
        <2> QED
            BY <2>1, <2>2, LabelMoves
    <1>6. CASE EndSleep(t)
        <2>1. TurnTypes'
            BY <1>1, <1>6 DEF TurnTypes, EndSleep, sched, Goto, Labels, Turn
        <2>2. LabelMove(t)
            BY <1>1, <1>6 DEF TurnTypes, EndSleep, sched, Goto, LabelMove, OnlyAt,
                Turn, StateFits, RunningAt, LockFits, NeedsLock, DispatchFits
        <2> QED
            BY <2>1, <2>2, LabelMoves
    <1>7. CASE Joined(t)
        <2>1. TurnTypes'
            BY <1>1, <1>7 DEF TurnTypes, Joined, sched, Goto, Labels, Turn
        <2>2. LabelMove(t)
            BY <1>1, <1>7 DEF TurnTypes, Joined, sched, Goto, LabelMove, OnlyAt,
                Turn, SelfIsCurrent, StateFits, RunningAt, LockFits, NeedsLock,
                DispatchFits
        <2> QED
            BY <2>1, <2>2, LabelMoves
    <1>8. CASE Resume(t)
        <2>1. TurnTypes'
            BY <1>1, <1>8 DEF TurnTypes, Resume, Goto, Labels, Turn
        <2>2. LabelMove(t)
            BY <1>1, <1>8 DEF TurnTypes, Resume, Goto, LabelMove, OnlyAt,
                Turn, StateFits, RunningAt, LockFits, NeedsLock, DispatchFits
        <2> QED
            BY <2>1, <2>2, LabelMoves
    <1> QED
        BY <1>2, <1>3, <1>4, <1>5, <1>6, <1>7, <1>8

\* While a task executes, no oneshot is running, so that a task that calls
\* rz_core_task_schedule never takes its unlocked early return.
LEMMA NoEarlyReturn ==
    ASSUME TurnInv, NEW t \in Tasks, pc[t] \in {"run", "joining"}
    PROVE  ~oneshot_running
    BY DEF TurnInv, TurnTypes, OneTurn, OneshotFits, HasTurn, Turn

\* Calling rz_core_task_schedule keeps the turn until the section in it.
LEMMA EnterScheduleMoves ==
    ASSUME TurnInv, NEW t \in Tasks, pc[t] \in {"run", "joining"},
           NEW ns \in {"RUNNING", "SLEEPING", "DONE"}, NEW l,
           EnterSchedule(t, ns, l), ns = "DONE" => t = main_task
    PROVE  TurnInv' /\ SameTurn
    <1> USE TaskAssumption
    <1>1. TurnTypes /\ StateFits /\ LockFits /\ DispatchFits
        BY DEF TurnInv
    <1>2. pc' = [pc EXCEPT ![t] = "call"]
        BY NoEarlyReturn DEF EnterSchedule, Goto
    <1>3. TurnTypes'
        BY <1>1, <1>2 DEF TurnTypes, EnterSchedule, Labels, Turn
    <1>4. LabelMove(t)
        BY <1>1, <1>2 DEF TurnTypes, EnterSchedule, LabelMove, OnlyAt,
            Turn, StateFits, RunningAt, LockFits, NeedsLock, DispatchFits
    <1> QED
        BY <1>3, <1>4, LabelMoves

\* The same for a task that ends, which keeps sched->lock.
LEMMA TaskEndMoves ==
    ASSUME TurnInv, NEW t \in Tasks, task_end(t)
    PROVE  TurnInv' /\ SameTurn
    <1> USE TaskAssumption
    <1>1. TurnTypes /\ StateFits /\ LockFits /\ DispatchFits
        BY DEF TurnInv
    <1>2. TurnTypes'
        BY <1>1 DEF TurnTypes, task_end, Goto, Labels, Turn
    <1>3. LabelMove(t)
        BY <1>1 DEF TurnTypes, task_end, Goto, LabelMove, OnlyAt,
            Turn, StateFits, RunningAt, LockFits, NeedsLock, DispatchFits
    <1> QED
        BY <1>2, <1>3, LabelMoves

\* Starting a task, entering the main task's section and shutting down do not
\* touch the turn.
LEMMA OtherMoves ==
    ASSUME TurnInv, NEW t \in Tasks,
           \/ rz_core_task_enqueue(t)
           \/ rz_core_task_run_sync(t)
           \/ t = main_task /\ \/ rz_core_task_sync_begin
                               \/ CoreFiniBreak
                               \/ CoreFiniJoin
                               \/ rz_core_task_scheduler_fini
    PROVE  TurnInv' /\ SameTurn
    <1> USE TaskAssumption
    <1>1. TurnTypes /\ StateFits /\ LockFits /\ DispatchFits
        BY DEF TurnInv
    <1>2. PICK l \in Labels \ {"wait", "woken"} :
             /\ pc[t] \in {"unborn", "out", "fini", "fini_joining"}
             /\ l \in {"start", "fini", "fini_joining", "done"}
             /\ pc' = [pc EXCEPT ![t] = l]
             /\ \/ state' = state
                \/ state' = [state EXCEPT ![t] = "BEFORE_START"]
             /\ UNCHANGED <<lock, sched, dispatched, reason, next>>
        BY DEF rz_core_task_enqueue, rz_core_task_run_sync, rz_core_task_sync_begin,
            CoreFiniBreak, CoreFiniJoin, rz_core_task_scheduler_fini, Goto, Labels
    <1>3. TurnTypes'
        BY <1>1, <1>2 DEF TurnTypes, sched, Labels, Turn, States
    <1>4. LabelMove(t)
        BY <1>1, <1>2 DEF TurnTypes, sched, LabelMove, OnlyAt,
            Turn, StateFits, RunningAt, LockFits, NeedsLock, DispatchFits
    <1> QED
        BY <1>3, <1>4, LabelMoves

\* The variables that decide about the turn.
turnVars == <<lock, sched, state, dispatched, pc, reason, next>>

\* Nothing else matters.
LEMMA Quiet ==
    ASSUME TurnInv, UNCHANGED turnVars
    PROVE  TurnInv' /\ SameTurn
    BY DEF turnVars, sched, TurnInv, TurnTypes, OneTurn, SelfIsCurrent, StateFits,
        LockFits, DispatchFits, OneshotFits, QueueIsWaiting, TurnExists, Running,
        HasTurn, RunningAt, NeedsLock, Waiting, Parked, Stop, SameTurn

\* There are finitely many tasks, hence finitely many RUNNING ones.
LEMMA RunningFinite == IsFiniteSet(Running) /\ Cardinality(Running) \in Nat
    <1>1. IsFiniteSet(Tasks)
        BY TaskAssumption, FS_AddElement DEF Tasks
    <1>2. Running \subseteq Tasks
        BY DEF Running
    <1> QED
        BY <1>1, <1>2, FS_Subset, FS_CardinalityType

\* The section of rz_core_task_schedule begins: the task is no longer RUNNING
\* if it stops, but still has the turn.
LEMMA ScheduleKeeps ==
    ASSUME TurnInv, NEW t \in Tasks, Schedule(t)
    PROVE  TurnInv' /\ SameTurn
    <1> USE TaskAssumption
    <1>1. TurnTypes
        BY DEF TurnInv
    <1>2. /\ pc[t] = "call" /\ lock \in {Nobody, t} /\ lock' = t
          /\ state' = [state EXCEPT ![t] = reason[t]]
          /\ tasks_running' = RunningAfter(reason[t])
          /\ pc' = [pc EXCEPT ![t] = "section"]
          /\ UNCHANGED <<tasks_queue, current_task, oneshot_running, dispatched,
                         reason, next>>
        BY DEF Schedule, Goto
    <1>3. state[t] = "RUNNING" /\ reason[t] # "BEGIN"
        BY <1>2 DEF TurnInv, StateFits, RunningAt
    <1>4. TurnTypes'
        BY <1>1, <1>2, <1>3 DEF TurnTypes, Labels, Turn, States
    <1>5. OnlyAt(t) /\ pc'[t] = "section" /\ state'[t] = reason[t]
        BY <1>1, <1>2 DEF OnlyAt, TurnTypes
    <1>6. \A u \in Tasks : HasTurn(u)' <=> HasTurn(u)
        BY <1>2, <1>5 DEF OnlyAt, HasTurn, Turn
    <1>7. \A u \in Tasks : Waiting(u)' <=> Waiting(u)
        BY <1>2, <1>5 DEF OnlyAt, Waiting, Parked, Stop
    <1>8. OneTurn'
        BY <1>6 DEF TurnInv, OneTurn
    <1>9. SelfIsCurrent'
        BY <1>2, <1>5 DEF TurnInv, SelfIsCurrent, OnlyAt
    <1>10. StateFits'
        BY <1>2, <1>3, <1>5 DEF TurnInv, StateFits, RunningAt, OnlyAt
    <1>11. LockFits'
        BY <1>2, <1>5 DEF TurnInv, LockFits, NeedsLock, OnlyAt
    <1>12. DispatchFits'
        BY <1>2, <1>5, <1>7 DEF TurnInv, DispatchFits, OnlyAt, TurnTypes
    <1>13. OneshotFits'
        BY <1>2, <1>5, <1>6 DEF TurnInv, OneshotFits, OnlyAt, HasTurn, Turn
    <1>14. QueueIsWaiting'
        BY <1>2, <1>5, <1>7 DEF TurnInv, QueueIsWaiting, OnlyAt
    <1>15. TurnExists'
        BY <1>5 DEF TurnExists, HasTurn, Turn
    <1>16. (tasks_running = Cardinality(Running))'
        <2>1. CASE Stop(reason[t])
            <3>1. Running' = Running \ {t} /\ t \in Running
                BY <1>3, <1>5, <2>1 DEF Running, OnlyAt, Stop
            <3>2. Cardinality(Running \ {t}) = Cardinality(Running) - 1
                BY <3>1, RunningFinite, FS_RemoveElement
            <3> QED
                BY <3>1, <3>2, <1>2, <2>1 DEF TurnInv, RunningAfter
        <2>2. CASE ~Stop(reason[t])
            <3>1. Running' = Running
                BY <1>3, <1>5, <2>2 DEF Running, OnlyAt, Stop
            <3> QED
                BY <3>1, <1>2, <2>2, RunningFinite DEF TurnInv, RunningAfter
        <2> QED
            BY <2>1, <2>2
    <1>17. SameTurn
        BY <1>2, <1>5, <1>6 DEF SameTurn, OnlyAt
    <1> QED
        BY <1>4, <1>8, <1>9, <1>10, <1>11, <1>12, <1>13, <1>14, <1>15, <1>16, <1>17
            DEF TurnInv

\* A oneshot starts and ends under sched->lock, while its task has the turn.
LEMMA OneshotsKeep ==
    ASSUME TurnInv, NEW t \in Tasks, OneshotStart(t) \/ OneshotEnd(t)
    PROVE  TurnInv' /\ SameTurn
    <1> USE TaskAssumption
    <1>1. TurnTypes
        BY DEF TurnInv
    <1>2. UNCHANGED <<lock, tasks_queue, current_task, tasks_running, state,
                      dispatched, reason, next>>
        BY DEF OneshotStart, OneshotEnd
    <1>3. \/ /\ pc[t] = "section" /\ oneshot_running' = TRUE
             /\ pc' = [pc EXCEPT ![t] = "oneshot"]
          \/ /\ pc[t] = "oneshot" /\ oneshot_running' = FALSE
             /\ pc' = [pc EXCEPT ![t] = "section"]
        BY DEF OneshotStart, OneshotEnd, Goto
    <1>4. TurnTypes'
        <2>1. oneshot_running' \in BOOLEAN
            BY <1>3
        <2>2. pc' \in [Tasks -> Labels]
            BY <1>1, <1>3 DEF TurnTypes, Labels, Turn
        <2> QED
            BY <1>1, <1>2, <2>1, <2>2 DEF TurnTypes
    <1>5. OnlyAt(t) /\ {pc[t], pc'[t]} = {"section", "oneshot"}
        BY <1>1, <1>2, <1>3 DEF OnlyAt, TurnTypes
    <1>6. \A u \in Tasks : HasTurn(u)' <=> HasTurn(u)
        BY <1>2, <1>5 DEF OnlyAt, HasTurn, Turn
    <1>7. \A u \in Tasks : Waiting(u)' <=> Waiting(u)
        BY <1>2, <1>5 DEF OnlyAt, Waiting, Parked, Stop
    <1>8. OneTurn'
        BY <1>6 DEF TurnInv, OneTurn
    <1>9. SelfIsCurrent'
        BY <1>2, <1>5 DEF TurnInv, SelfIsCurrent, OnlyAt
    <1>10. StateFits'
        BY <1>2, <1>5 DEF TurnInv, StateFits, RunningAt, OnlyAt
    <1>11. LockFits'
        BY <1>2, <1>5 DEF TurnInv, LockFits, NeedsLock, OnlyAt
    <1>12. DispatchFits'
        BY <1>2, <1>5, <1>7 DEF TurnInv, DispatchFits, OnlyAt, TurnTypes
    <1>13. OneshotFits'
        <2>1. lock' # Outside
            BY <1>2, <1>3 DEF TurnInv, LockFits, NeedsLock
        <2>2. \A u \in Tasks \ {t} : pc'[u] # "oneshot"
            BY <1>3, <1>5 DEF TurnInv, OneTurn, HasTurn, Turn, OnlyAt
        <2>3. oneshot_running' <=> pc'[t] = "oneshot"
            BY <1>1, <1>3 DEF TurnTypes
        <2> QED
            BY <2>1, <2>2, <2>3 DEF OneshotFits
    <1>14. QueueIsWaiting'
        BY <1>2, <1>5, <1>7 DEF TurnInv, QueueIsWaiting, OnlyAt
    <1>15. TurnExists'
        BY <1>5 DEF TurnExists, HasTurn, Turn
    <1>16. (tasks_running = Cardinality(Running))'
        BY <1>2 DEF TurnInv, Running
    <1>17. SameTurn
        BY <1>2, <1>5, <1>6 DEF SameTurn, OnlyAt
    <1> QED
        BY <1>4, <1>8, <1>9, <1>10, <1>11, <1>12, <1>13, <1>14, <1>15, <1>16, <1>17
            DEF TurnInv

\* A task that is RUNNING without having the turn waits for it, in the queue
\* or about to be dispatched.
LEMMA RunningWaits ==
    ASSUME TurnInv, NEW u \in Tasks, state[u] = "RUNNING", ~HasTurn(u)
    PROVE  \/ u \in Range(tasks_queue)
           \/ \E v \in Tasks : pc[v] = "dispatch" /\ next[v] = u
    <1>1. RunningAt(u)
        BY DEF TurnInv, StateFits
    <1>2. Waiting(u) /\ ~dispatched[u]
        BY <1>1 DEF RunningAt, HasTurn, Turn, Waiting, Parked, Stop
    <1> QED
        BY <1>2 DEF TurnInv, QueueIsWaiting

\* The rest of the section: the turn is kept, is about to be given to the head
\* of the queue, or is given up when no task is RUNNING.
LEMMA PickNextKeeps ==
    ASSUME TurnInv, NEW t \in Tasks, PickNext(t)
    PROVE  TurnInv'
    <1> USE TaskAssumption
    <1>1. TurnTypes
        BY DEF TurnInv
    <1>2. /\ pc[t] = "section" /\ lock' = LockAfter(t)
          /\ UNCHANGED <<current_task, tasks_running, oneshot_running, state,
                         dispatched, reason>>
        BY DEF PickNext
    <1>3. /\ lock = t /\ reason[t] # "BEGIN" /\ ~dispatched[t]
          /\ state[t] = "RUNNING" <=> ~Stop(reason[t])
        BY <1>2 DEF TurnInv, LockFits, NeedsLock, StateFits, RunningAt, DispatchFits, Stop
    <1>4. \A u \in Tasks \ {t} : ~HasTurn(u) /\ pc[u] \notin Turn
        BY <1>2 DEF TurnInv, OneTurn, HasTurn, Turn
    <1>5. t \notin Range(tasks_queue)
        BY <1>2 DEF TurnInv, QueueIsWaiting, Waiting, Parked
    <1>6. \A u \in Tasks \ {t} : NeedsLock(u) => FALSE
        BY <1>3 DEF TurnInv, LockFits
    <1>7. lock' \in {t, Nobody}
        BY <1>2 DEF LockAfter
    <1>8. ~oneshot_running
        BY <1>1, <1>2, <1>3, <1>4 DEF TurnInv, OneshotFits, TurnTypes, Turn
    <1>9. CASE tasks_queue = <<>>
        <2> DEFINE l == IF Stop(reason[t]) THEN AfterStop(t) ELSE "resume"
        <2>1. pc' = [pc EXCEPT ![t] = l] /\ UNCHANGED <<tasks_queue, next>>
            BY <1>9 DEF PickNext, Goto
        <2>2. \/ Stop(reason[t]) /\ l \in {"asleep", "out"}
              \/ Stop(reason[t]) /\ l = "post" /\ lock' = t
              \/ ~Stop(reason[t]) /\ l = "resume"
            BY <1>1, <1>2, <1>3 DEF AfterStop, LockAfter, TurnTypes, Stop
        <2> HIDE DEF l
        <2>3. TurnTypes'
            BY <1>1, <1>2, <1>7, <2>1, <2>2 DEF TurnTypes, Labels, Turn
        <2>4. OnlyAt(t) /\ pc'[t] = l
            BY <1>1, <1>2, <2>1 DEF OnlyAt, TurnTypes
        <2>5. \A u \in Tasks \ {t} : ~HasTurn(u)'
            BY <1>4, <2>4 DEF OnlyAt, HasTurn
        <2>6. \A u \in Tasks : Waiting(u)' <=> Waiting(u)
            BY <1>2, <2>2, <2>4 DEF OnlyAt, Waiting, Parked, Stop
        <2>7. OneTurn'
            BY <2>5 DEF OneTurn
        <2>8. SelfIsCurrent'
            BY <1>2, <2>2, <2>4 DEF TurnInv, SelfIsCurrent, OnlyAt
        <2>9. StateFits'
            BY <1>2, <1>3, <2>2, <2>4 DEF TurnInv, StateFits, RunningAt, OnlyAt, Stop
        <2>10. LockFits'
            BY <1>2, <1>6, <2>2, <2>4 DEF LockFits, NeedsLock, OnlyAt
        <2>11. DispatchFits'
            BY <1>2, <1>3, <2>1, <2>2, <2>4, <2>6 DEF TurnInv, DispatchFits, OnlyAt, TurnTypes
        <2>12. OneshotFits'
            BY <1>2, <1>4, <1>7, <1>8, <2>2, <2>4 DEF OneshotFits, OnlyAt, Turn
        <2>13. QueueIsWaiting'
            BY <1>2, <2>1, <2>4, <2>6 DEF TurnInv, QueueIsWaiting, OnlyAt
        <2>14. TurnExists'
            <3>1. CASE ~Stop(reason[t])
                BY <2>2, <2>4, <3>1 DEF TurnExists, HasTurn, Turn
            <3>2. CASE Stop(reason[t])
                <4>1. \A u \in Tasks : state[u] # "RUNNING"
                    <5> SUFFICES ASSUME NEW u \in Tasks, state[u] = "RUNNING"
                                 PROVE  FALSE
                        OBVIOUS
                    <5>1. u # t
                        BY <1>3, <3>2
                    <5>2. u \in Range(tasks_queue)
                        BY <5>1, <1>2, <1>4, RunningWaits DEF Turn
                    <5> QED
                        BY <5>2, <1>9 DEF Range
                <4> QED
                    BY <4>1, <1>2 DEF TurnExists
            <3> QED
                BY <3>1, <3>2
        <2>15. (tasks_running = Cardinality(Running))'
            BY <1>2 DEF TurnInv, Running
        <2> QED
            BY <2>3, <2>7, <2>8, <2>9, <2>10, <2>11, <2>12, <2>13, <2>14, <2>15
                DEF TurnInv
    <1>10. CASE tasks_queue # <<>>
        <2> DEFINE n == Head(tasks_queue)
        <2>1. /\ pc' = [pc EXCEPT ![t] = "dispatch"]
              /\ next' = [next EXCEPT ![t] = n]
              /\ tasks_queue' = Requeue(t)
            BY <1>10 DEF PickNext, Goto
        <2>2. /\ Tail(tasks_queue) \in Seq(Tasks) /\ n \in Tasks
            BY <1>1, <1>10, TailFacts DEF TurnTypes
        <2>3. /\ IsInjective(Tail(tasks_queue)) /\ n \in Range(tasks_queue)
              /\ Range(Tail(tasks_queue)) = Range(tasks_queue) \ {n}
            BY <1>1, <1>10, TailDistinct DEF TurnInv, TurnTypes, QueueIsWaiting
        <2> HIDE DEF n
        <2>4. /\ tasks_queue' \in Seq(Tasks) /\ IsInjective(tasks_queue')
              /\ Range(tasks_queue') =
                    (Range(tasks_queue) \ {n}) \cup (IF Stop(reason[t]) THEN {} ELSE {t})
            <3>1. CASE Stop(reason[t])
                BY <2>1, <2>2, <2>3, <3>1 DEF Requeue
            <3>2. CASE ~Stop(reason[t])
                <4>1. tasks_queue' = Append(Tail(tasks_queue), t)
                    BY <2>1, <3>2 DEF Requeue
                <4>2. /\ IsInjective(Append(Tail(tasks_queue), t))
                      /\ Range(Append(Tail(tasks_queue), t)) =
                            Range(Tail(tasks_queue)) \cup {t}
                    <5> DEFINE q == Tail(tasks_queue)
                    <5>1. q \in Seq(Tasks) /\ IsInjective(q) /\ t \notin Range(q)
                        BY <2>2, <2>3, <1>5
                    <5> HIDE DEF q
                    <5>2. IsInjective(Append(q, t)) /\ Range(Append(q, t)) = Range(q) \cup {t}
                        BY <5>1, AppendDistinct
                    <5> QED
                        BY <5>2 DEF q
                <4>3. Append(Tail(tasks_queue), t) \in Seq(Tasks)
                    BY <2>2, AppendFacts
                <4> QED
                    BY <4>1, <4>2, <4>3, <2>3, <3>2
            <3> QED
                BY <3>1, <3>2
        <2>5. TurnTypes'
            BY <1>1, <1>2, <1>7, <2>1, <2>2, <2>4 DEF TurnTypes, Labels, Turn
        <2>6. OnlyAt(t) /\ pc'[t] = "dispatch" /\ next'[t] = n
            BY <1>1, <1>2, <2>1 DEF OnlyAt, TurnTypes
        <2>7. n # t /\ Waiting(n) /\ ~dispatched[n]
            BY <1>5, <2>2, <2>3 DEF TurnInv, QueueIsWaiting
        <2>8. /\ \A u \in Tasks \ {t} : Waiting(u)' <=> Waiting(u)
              /\ Waiting(t)' <=> ~Stop(reason[t])
            BY <1>2, <2>6 DEF OnlyAt, Waiting, Parked, Stop
        <2>9. OneTurn'
            BY <1>4, <2>6 DEF OneTurn, OnlyAt, HasTurn
        <2>10. SelfIsCurrent'
            BY <1>2, <2>6 DEF TurnInv, SelfIsCurrent, OnlyAt
        <2>11. StateFits'
            BY <1>2, <1>3, <2>6 DEF TurnInv, StateFits, RunningAt, OnlyAt, Stop
        <2>12. LockFits'
            BY <1>2, <1>6, <2>6 DEF LockFits, NeedsLock, OnlyAt, LockAfter
        <2>13. DispatchFits'
            BY <1>2, <1>3, <1>4, <2>2, <2>4, <2>6, <2>7, <2>8
                DEF TurnInv, DispatchFits, OnlyAt, TurnTypes, Turn
        <2>14. OneshotFits'
            BY <1>2, <1>4, <1>7, <1>8, <2>6 DEF OneshotFits, OnlyAt, Turn
        <2>15. QueueIsWaiting'
            <3> SUFFICES ASSUME NEW u \in Tasks
                         PROVE  /\ u \in Range(tasks_queue') => Waiting(u)' /\ ~dispatched'[u]
                                /\ Waiting(u)' /\ ~dispatched'[u] =>
                                      \/ u \in Range(tasks_queue')
                                      \/ u = n
                BY <2>4, <2>6 DEF QueueIsWaiting
            <3>1. CASE u = t
                BY <3>1, <1>2, <1>3, <1>5, <2>4, <2>8
            <3>2. CASE u # t
                <4>1. \A v \in Tasks : pc[v] # "dispatch"
                    BY <1>2, <1>4 DEF Turn
                <4>2. u \in Range(tasks_queue) <=> Waiting(u) /\ ~dispatched[u]
                    BY <4>1 DEF TurnInv, QueueIsWaiting
                <4> QED
                    BY <4>2, <3>2, <1>2, <2>4, <2>8
            <3> QED
                BY <3>1, <3>2
        <2>16. TurnExists'
            BY <2>6 DEF TurnExists, HasTurn, Turn
        <2>17. (tasks_running = Cardinality(Running))'
            BY <1>2 DEF TurnInv, Running
        <2> QED
            BY <2>5, <2>9, <2>10, <2>11, <2>12, <2>13, <2>14, <2>15, <2>16, <2>17
                DEF TurnInv
    <1> QED
        BY <1>9, <1>10

\* Setting dispatched of the next task hands the turn over to it.
LEMMA DispatchKeeps ==
    ASSUME TurnInv, NEW t \in Tasks, Dispatch(t)
    PROVE  TurnInv'
    <1> USE TaskAssumption
    <1> DEFINE n == next[t]
    <1>1. TurnTypes
        BY DEF TurnInv
    <1>2. /\ pc[t] = "dispatch" /\ ~Parked(n)
          /\ dispatched' = [dispatched EXCEPT ![n] = TRUE]
          /\ pc' = [pc EXCEPT ![t] = "signal"]
          /\ UNCHANGED <<lock, tasks_queue, current_task, tasks_running,
                         oneshot_running, state, reason, next>>
        BY DEF Dispatch, Goto, sched
    <1>3. /\ n \in Tasks \ {t} /\ Waiting(n) /\ ~dispatched[n]
          /\ n \notin Range(tasks_queue)
          /\ ~dispatched[t]
        BY <1>2 DEF TurnInv, DispatchFits
    <1>4. \A u \in Tasks \ {t} : ~HasTurn(u) /\ pc[u] \notin Turn
        BY <1>2 DEF TurnInv, OneTurn, HasTurn, Turn
    <1> HIDE DEF n
    <1>5. pc[n] \in {"wait", "woken"}
        BY <1>2, <1>3 DEF Waiting
    <1>6. TurnTypes'
        BY <1>1, <1>2, <1>3 DEF TurnTypes, Labels, Turn
    <1>7. /\ pc'[t] = "signal" /\ dispatched'[n] = TRUE
          /\ \A u \in Tasks \ {t} : pc'[u] = pc[u]
          /\ \A u \in Tasks \ {n} : dispatched'[u] = dispatched[u]
        BY <1>1, <1>2, <1>3 DEF TurnTypes
    <1>8. \A u \in Tasks : HasTurn(u)' <=> u = n
        BY <1>3, <1>4, <1>7 DEF HasTurn, Turn
    <1>9. \A u \in Tasks : Waiting(u)' <=> Waiting(u)
        BY <1>2, <1>7 DEF Waiting, Parked, Stop
    <1>10. OneTurn'
        BY <1>8 DEF OneTurn
    <1>11. SelfIsCurrent'
        BY <1>2, <1>7 DEF TurnInv, SelfIsCurrent
    <1>12. StateFits'
        BY <1>2, <1>7 DEF TurnInv, StateFits, RunningAt
    <1>13. LockFits'
        BY <1>2, <1>7 DEF TurnInv, LockFits, NeedsLock
    <1>14. DispatchFits'
        <2>1. \A u \in Tasks : pc'[u] # "dispatch"
            BY <1>4, <1>7 DEF Turn
        <2>2. \A u \in Tasks : dispatched'[u] => pc'[u] \in {"wait", "woken"}
            BY <1>3, <1>5, <1>7 DEF TurnInv, DispatchFits
        <2>3. \A u \in Tasks : pc'[u] = "signal" => next[u] \in Tasks \ {u}
            BY <1>2, <1>7 DEF TurnInv, DispatchFits
        <2> QED
            BY <2>1, <2>2, <2>3, <1>2 DEF DispatchFits
    <1>15. OneshotFits'
        <2>1. lock # Outside
            BY <1>2 DEF TurnInv, OneshotFits, HasTurn, Turn
        <2> QED
            BY <2>1, <1>2, <1>7 DEF TurnInv, OneshotFits
    <1>16. QueueIsWaiting'
        <2>1. \A u \in Tasks : Waiting(u)' /\ ~dispatched'[u] => u \in Range(tasks_queue)
            <3> SUFFICES ASSUME NEW u \in Tasks, Waiting(u)', ~dispatched'[u]
                         PROVE  u \in Range(tasks_queue)
                OBVIOUS
            <3>1. u # n /\ Waiting(u) /\ ~dispatched[u]
                BY <1>7, <1>9
            <3>2. \A v \in Tasks : pc[v] = "dispatch" => next[v] = n
                BY <1>4 DEF Turn, n
            <3> QED
                BY <3>1, <3>2 DEF TurnInv, QueueIsWaiting
        <2>2. \A u \in Tasks : u \in Range(tasks_queue) => Waiting(u)' /\ ~dispatched'[u]
            BY <1>3, <1>7, <1>9 DEF TurnInv, QueueIsWaiting
        <2> QED
            BY <2>1, <2>2, <1>2 DEF TurnInv, QueueIsWaiting
    <1>17. TurnExists'
        BY <1>3, <1>8 DEF TurnExists
    <1>18. (tasks_running = Cardinality(Running))'
        BY <1>2 DEF TurnInv, Running
    <1> QED
        BY <1>6, <1>10, <1>11, <1>12, <1>13, <1>14, <1>15, <1>16, <1>17, <1>18
            DEF TurnInv

\* The signal wakes the dispatched task; the dispatcher goes to wait or leaves.
LEMMA SignalKeeps ==
    ASSUME TurnInv, NEW t \in Tasks, Signal(t)
    PROVE  TurnInv' /\ SameTurn
    <1> USE TaskAssumption
    <1> DEFINE n == next[t]
               l == IF Stop(reason[t]) THEN AfterStop(t) ELSE "check"
    <1>1. TurnTypes
        BY DEF TurnInv
    <1>2. /\ pc[t] = "signal"
          /\ pc' = [Woken(pc, n) EXCEPT ![t] = l]
          /\ next' = [next EXCEPT ![t] = Nobody]
          /\ UNCHANGED <<lock, tasks_queue, current_task, tasks_running,
                         oneshot_running, state, dispatched, reason>>
        BY DEF Signal, sched
    <1>3. n \in Tasks \ {t} /\ reason[t] # "BEGIN" /\ ~dispatched[t]
        BY <1>2 DEF TurnInv, DispatchFits, StateFits
    <1>4. \/ Stop(reason[t]) /\ l \in {"asleep", "out"}
          \/ Stop(reason[t]) /\ l = "post" /\ reason[t] = "DONE" /\ t # main_task
          \/ ~Stop(reason[t]) /\ l = "check"
        BY <1>1, <1>3 DEF AfterStop, TurnTypes, Stop
    <1> HIDE DEF n, l
    <1>5. /\ pc'[t] = l /\ next'[t] = Nobody
          /\ \A u \in Tasks \ {t} : next'[u] = next[u]
          /\ \A u \in Tasks \ {t} :
                pc'[u] = pc[u] \/ (pc[u] = "wait" /\ pc'[u] = "woken")
        BY <1>1, <1>2, <1>3 DEF TurnTypes, Woken
    <1>6. TurnTypes'
        BY <1>1, <1>2, <1>3, <1>4 DEF TurnTypes, Labels, Turn, Woken
    <1>7. \A u \in Tasks : HasTurn(u)' <=> HasTurn(u)
        BY <1>2, <1>4, <1>5 DEF HasTurn, Turn
    <1>8. \A u \in Tasks : Waiting(u)' <=> Waiting(u)
        BY <1>2, <1>4, <1>5 DEF Waiting, Parked, Stop
    <1>9. OneTurn'
        BY <1>7 DEF TurnInv, OneTurn
    <1>10. SelfIsCurrent'
        BY <1>2, <1>4, <1>5 DEF TurnInv, SelfIsCurrent
    <1>11. StateFits'
        BY <1>2, <1>4, <1>5 DEF TurnInv, StateFits, RunningAt, Stop
    <1>12. LockFits'
        BY <1>2, <1>4, <1>5 DEF TurnInv, LockFits, NeedsLock
    <1>13. DispatchFits'
        <2>1. \A u \in Tasks : pc'[u] \in {"dispatch", "signal"} =>
                  u # t /\ pc'[u] = pc[u] /\ next'[u] = next[u]
            BY <1>4, <1>5
        <2>2. \A u \in Tasks : dispatched[u] => pc'[u] \in {"wait", "woken"}
            BY <1>3, <1>5 DEF TurnInv, DispatchFits
        <2> QED
            BY <2>1, <2>2, <1>2, <1>8 DEF TurnInv, DispatchFits, TurnTypes
    <1>14. OneshotFits'
        <2>1. \A u \in Tasks : pc'[u] = "oneshot" <=> pc[u] = "oneshot"
            BY <1>2, <1>4, <1>5
        <2> QED
            BY <2>1, <1>2, <1>7 DEF TurnInv, OneshotFits
    <1>15. QueueIsWaiting'
        <2>1. \A u \in Tasks : pc[u] = "dispatch" => pc'[u] = "dispatch" /\ next'[u] = next[u]
            BY <1>2, <1>5
        <2> QED
            BY <2>1, <1>2, <1>8 DEF TurnInv, QueueIsWaiting
    <1>16. TurnExists'
        BY <1>2, <1>7 DEF TurnInv, TurnExists
    <1>17. (tasks_running = Cardinality(Running))'
        BY <1>2 DEF TurnInv, Running
    <1>18. SameTurn
        BY <1>2, <1>4, <1>5, <1>7 DEF SameTurn
    <1> QED
        BY <1>6, <1>9, <1>10, <1>11, <1>12, <1>13, <1>14, <1>15, <1>16, <1>17, <1>18
            DEF TurnInv

\* A task leaves the loop around rz_th_cond_wait with the turn it was given,
\* or goes on waiting.
LEMMA AwaitDispatchKeeps ==
    ASSUME TurnInv, NEW t \in Tasks, AwaitDispatch(t)
    PROVE  TurnInv' /\ SameTurn
    <1> USE TaskAssumption
    <1>1. TurnTypes
        BY DEF TurnInv
    <1>2. /\ pc[t] \in {"check", "woken"}
          /\ UNCHANGED <<lock, tasks_queue, current_task, tasks_running,
                         oneshot_running, state, reason, next>>
        BY DEF AwaitDispatch, sched
    <1>3. CASE ~dispatched[t]
        <2>1. pc' = [pc EXCEPT ![t] = "wait"]
            BY <1>3 DEF AwaitDispatch, MayGoOn, Goto
        <2>2. dispatched' = dispatched
            BY <1>1, <1>3 DEF AwaitDispatch, MayGoOn, TurnTypes
        <2>3. TurnTypes'
            BY <1>1, <1>2, <2>1, <2>2 DEF TurnTypes, Labels
        <2>4. LabelMove(t)
            BY <1>1, <1>2, <2>1, <2>2 DEF TurnInv, TurnTypes, LabelMove, OnlyAt,
                Turn, StateFits, RunningAt, LockFits, NeedsLock, DispatchFits
        <2> QED
            BY <2>3, <2>4, LabelMoves
    <1>4. CASE dispatched[t]
        <2>1. PICK l \in {"cleanup", "resume"} : pc' = [pc EXCEPT ![t] = l]
            BY <1>4 DEF AwaitDispatch, MayGoOn, Goto
        <2>2. dispatched' = [dispatched EXCEPT ![t] = FALSE]
            BY <1>1, <1>4 DEF AwaitDispatch, MayGoOn, TurnTypes
        <2>3. TurnTypes'
            BY <1>1, <1>2, <2>1, <2>2 DEF TurnTypes, Labels, Turn
        <2>4. OnlyAt(t) /\ pc'[t] = l /\ dispatched'[t] = FALSE
            BY <1>1, <1>2, <2>1, <2>2 DEF OnlyAt, TurnTypes
        <2>5. \A u \in Tasks : HasTurn(u)' <=> HasTurn(u)
            BY <1>4, <2>4 DEF OnlyAt, HasTurn, Turn
        <2>6. /\ \A u \in Tasks \ {t} : Waiting(u)' <=> Waiting(u)
              /\ ~Waiting(t)'
            BY <1>2, <2>4 DEF OnlyAt, Waiting, Parked, Stop
        <2>7. t \notin Range(tasks_queue)
            BY <1>4 DEF TurnInv, QueueIsWaiting
        <2>8. OneTurn'
            BY <2>5 DEF TurnInv, OneTurn
        <2>9. SelfIsCurrent'
            BY <1>2, <2>4 DEF TurnInv, SelfIsCurrent, OnlyAt
        <2>10. StateFits'
            BY <1>2, <2>4 DEF TurnInv, StateFits, RunningAt, OnlyAt
        <2>11. LockFits'
            BY <1>2, <2>4 DEF TurnInv, LockFits, NeedsLock, OnlyAt
        <2>12. DispatchFits'
            <3>1. \A u \in Tasks : pc'[u] \in {"dispatch", "signal"} =>
                      u # t /\ pc'[u] = pc[u] /\ next'[u] = next[u]
                BY <2>4 DEF OnlyAt
            <3>2. \A u \in Tasks : pc[u] # "dispatch"
                BY <1>2, <1>4 DEF TurnInv, OneTurn, HasTurn, Turn
            <3> QED
                BY <3>1, <3>2, <2>4 DEF TurnInv, DispatchFits, OnlyAt
        <2>13. OneshotFits'
            <3>1. \A u \in Tasks : pc'[u] = "oneshot" <=> pc[u] = "oneshot"
                BY <1>2, <2>4 DEF OnlyAt
            <3> QED
                BY <3>1, <1>2, <2>5 DEF TurnInv, OneshotFits
        <2>14. QueueIsWaiting'
            <3>1. \A u \in Tasks : pc[u] = "dispatch" => pc'[u] = "dispatch" /\ next'[u] = next[u]
                BY <1>2, <2>4 DEF OnlyAt
            <3> QED
                BY <3>1, <1>2, <2>4, <2>6, <2>7 DEF TurnInv, QueueIsWaiting, OnlyAt
        <2>15. TurnExists'
            BY <1>2, <2>5 DEF TurnInv, TurnExists
        <2>16. (tasks_running = Cardinality(Running))'
            BY <1>2 DEF TurnInv, Running
        <2>17. SameTurn
            BY <1>2, <2>4, <2>5 DEF SameTurn, OnlyAt
        <2> QED
            BY <2>3, <2>8, <2>9, <2>10, <2>11, <2>12, <2>13, <2>14, <2>15, <2>16, <2>17
                DEF TurnInv
    <1> QED
        BY <1>3, <1>4

\* When sched->lock is free and no task is RUNNING, nobody has the turn: what
\* task_wakeup and rz_core_task_enqueue_oneshot rely on.
LEMMA NobodyHasTurn ==
    ASSUME TurnInv, lock = Nobody, tasks_running = 0
    PROVE  \A u \in Tasks : state[u] # "RUNNING" /\ ~HasTurn(u)
    <1> USE TaskAssumption
    <1>1. Running = {}
        <2> HIDE DEF Running
        <2> QED
            BY RunningFinite, FS_EmptySet DEF TurnInv
    <1>2. \A u \in Tasks : state[u] # "RUNNING" /\ ~RunningAt(u)
        BY <1>1 DEF Running, TurnInv, StateFits
    <1>3. \A u \in Tasks : ~Waiting(u)
        BY <1>2 DEF RunningAt, Waiting, Parked, Stop
    <1>4. \A u \in Tasks : pc[u] # "dispatch" /\ ~dispatched[u]
        BY <1>2, <1>3 DEF TurnInv, DispatchFits, RunningAt
    <1>5. \A u \in Tasks : pc[u] \notin {"section", "oneshot"}
        BY DEF TurnInv, LockFits, NeedsLock
    <1> QED
        BY <1>2, <1>4, <1>5 DEF RunningAt, HasTurn, Turn

\* A task that wakes up has the turn if nobody else is RUNNING, and queues up
\* otherwise.
LEMMA WakeupKeeps ==
    ASSUME TurnInv, NEW t \in Tasks, task_wakeup(t)
    PROVE  TurnInv'
    <1> USE TaskAssumption
    <1>1. TurnTypes
        BY DEF TurnInv
    <1>2. /\ pc[t] \in {"start", "slept"} /\ lock = Nobody
          /\ tasks_running' = tasks_running + 1
          /\ state' = [state EXCEPT ![t] = "RUNNING"]
          /\ tasks_queue' = IF Single THEN tasks_queue ELSE Append(tasks_queue, t)
          /\ pc' = [pc EXCEPT ![t] = IF Single THEN "resume" ELSE "check"]
          /\ reason' = [reason EXCEPT ![t] = IF pc[t] = "start" THEN "BEGIN"
                                                                ELSE "SLEEPING"]
          /\ UNCHANGED <<lock, current_task, oneshot_running, dispatched, next>>
        BY DEF task_wakeup, Goto
    <1>3. state[t] # "RUNNING" /\ ~Waiting(t) /\ ~dispatched[t]
        BY <1>2 DEF TurnInv, StateFits, RunningAt, Waiting, Parked, DispatchFits
    <1>4. t \notin Range(tasks_queue)
        BY <1>3 DEF TurnInv, QueueIsWaiting
    <1>5. tasks_running \in Nat
        BY RunningFinite DEF TurnInv
    <1>6. Single => \A u \in Tasks : ~HasTurn(u)
        BY <1>2, <1>5, NobodyHasTurn DEF Single
    <1>7. /\ tasks_queue' \in Seq(Tasks) /\ IsInjective(tasks_queue')
          /\ Range(tasks_queue') =
                Range(tasks_queue) \cup (IF Single THEN {} ELSE {t})
        <2>1. tasks_queue \in Seq(Tasks) /\ IsInjective(tasks_queue)
            BY <1>1 DEF TurnInv, TurnTypes, QueueIsWaiting
        <2>2. CASE Single
            BY <2>1, <2>2, <1>2
        <2>3. CASE ~Single
            <3>1. Append(tasks_queue, t) \in Seq(Tasks)
                BY <2>1, AppendFacts
            <3>2. /\ IsInjective(Append(tasks_queue, t))
                  /\ Range(Append(tasks_queue, t)) = Range(tasks_queue) \cup {t}
                BY <2>1, <1>4, AppendDistinct
            <3> QED
                BY <3>1, <3>2, <2>3, <1>2
        <2> QED
            BY <2>2, <2>3
    <1>8. TurnTypes'
        BY <1>1, <1>2, <1>7 DEF TurnTypes, Labels, Turn, States
    <1>9. /\ OnlyAt(t) /\ state'[t] = "RUNNING" /\ dispatched'[t] = dispatched[t]
          /\ pc'[t] = IF Single THEN "resume" ELSE "check"
        BY <1>1, <1>2 DEF OnlyAt, TurnTypes
    <1>10. /\ \A u \in Tasks \ {t} : HasTurn(u)' <=> HasTurn(u)
           /\ HasTurn(t)' <=> Single
        BY <1>3, <1>9 DEF OnlyAt, HasTurn, Turn
    <1>11. /\ \A u \in Tasks \ {t} : Waiting(u)' <=> Waiting(u)
           /\ Waiting(t)' <=> ~Single
        BY <1>9 DEF OnlyAt, Waiting, Parked, Stop
    <1>12. OneTurn'
        BY <1>6, <1>10 DEF TurnInv, OneTurn
    <1>13. SelfIsCurrent'
        BY <1>2, <1>9 DEF TurnInv, SelfIsCurrent, OnlyAt
    <1>14. StateFits'
        BY <1>9 DEF TurnInv, StateFits, RunningAt, OnlyAt
    <1>15. LockFits'
        BY <1>2, <1>9 DEF TurnInv, LockFits, NeedsLock, OnlyAt
    <1>16. DispatchFits'
        <2>1. \A u \in Tasks : pc'[u] \in {"dispatch", "signal"} =>
                  u # t /\ pc'[u] = pc[u] /\ next'[u] = next[u]
            BY <1>9 DEF OnlyAt
        <2>2. \A u \in Tasks : pc[u] = "dispatch" => next[u] # t
            BY <1>3 DEF TurnInv, DispatchFits
        <2>3. \A u \in Tasks : dispatched'[u] => pc'[u] \in {"wait", "woken"}
            BY <1>2, <1>3, <1>9 DEF TurnInv, DispatchFits, OnlyAt
        <2> QED
            BY <2>1, <2>2, <2>3, <1>2, <1>7, <1>11 DEF TurnInv, DispatchFits
    <1>17. OneshotFits'
        <2>1. \A u \in Tasks : pc'[u] = "oneshot" <=> pc[u] = "oneshot"
            BY <1>2, <1>9 DEF OnlyAt
        <2> QED
            BY <2>1, <1>2 DEF TurnInv, OneshotFits
    <1>18. QueueIsWaiting'
        <2>1. \A u \in Tasks : pc[u] = "dispatch" => pc'[u] = "dispatch" /\ next'[u] = next[u]
            BY <1>2, <1>9 DEF OnlyAt
        <2>2. \A u \in Tasks : u \in Range(tasks_queue') => Waiting(u)' /\ ~dispatched'[u]
            BY <1>2, <1>3, <1>4, <1>7, <1>11 DEF TurnInv, QueueIsWaiting
        <2>3. \A u \in Tasks : Waiting(u)' /\ ~dispatched'[u] =>
                  \/ u \in Range(tasks_queue')
                  \/ \E v \in Tasks : pc'[v] = "dispatch" /\ next'[v] = u
            BY <2>1, <1>2, <1>7, <1>11 DEF TurnInv, QueueIsWaiting
        <2> QED
            BY <2>2, <2>3, <1>7 DEF QueueIsWaiting
    <1>19. TurnExists'
        <2>1. CASE Single
            BY <2>1, <1>10 DEF TurnExists
        <2>2. CASE ~Single
            <3>1. Running # {}
                <4>1. tasks_running # 0
                    BY <2>2, <1>5 DEF Single
                <4> QED
                    BY <4>1, FS_EmptySet DEF TurnInv
            <3>2. \E u \in Tasks : HasTurn(u)
                BY <3>1 DEF Running, TurnInv, TurnExists
            <3>3. ~HasTurn(t)
                BY <1>2, <1>3 DEF HasTurn, Turn
            <3> QED
                BY <3>2, <3>3, <1>10 DEF TurnExists
        <2> QED
            BY <2>1, <2>2
    <1>20. (tasks_running = Cardinality(Running))'
        <2>1. Running' = Running \cup {t} /\ t \notin Running
            BY <1>3, <1>9 DEF Running, OnlyAt
        <2>2. Cardinality(Running \cup {t}) = Cardinality(Running) + 1
            BY <2>1, RunningFinite, FS_AddElement
        <2> QED
            BY <2>1, <2>2, <1>2 DEF TurnInv
    <1> QED
        BY <1>8, <1>12, <1>13, <1>14, <1>15, <1>16, <1>17, <1>18, <1>19, <1>20
            DEF TurnInv

\* A oneshot that is run at once, by a thread that is not a task's.
LEMMA OutsideOneshotsKeep ==
    ASSUME TurnInv,
           \/ \E o \in Oneshots : rz_core_task_enqueue_oneshot(o)
           \/ OneshotReturn
    PROVE  TurnInv' /\ SameTurn
    <1> USE TaskAssumption
    <1>1. TurnTypes
        BY DEF TurnInv
    <1>2. UNCHANGED <<tasks_queue, current_task, tasks_running, state, dispatched,
                      pc, reason, next>>
        BY DEF rz_core_task_enqueue_oneshot, OneshotReturn
    <1>3. \/ UNCHANGED <<lock, oneshot_running>>
          \/ /\ lock = Nobody /\ lock' = Outside /\ oneshot_running' = TRUE
             /\ tasks_running = 0
          \/ lock = Outside /\ lock' = Nobody /\ oneshot_running' = FALSE
        BY DEF rz_core_task_enqueue_oneshot, OneshotReturn, RunsAtOnce
    <1>4. CASE UNCHANGED <<lock, oneshot_running>>
        BY <1>2, <1>4, Quiet DEF turnVars, sched
    <1>5. CASE {lock, lock'} = {Nobody, Outside}
        <2>1. \A u \in Tasks : ~HasTurn(u)
            BY <1>3, <1>5, NobodyHasTurn DEF TurnInv, OneshotFits
        <2>2. \A u \in Tasks : HasTurn(u)' <=> HasTurn(u)
            BY <1>2 DEF HasTurn
        <2>3. oneshot_running' \in BOOLEAN /\ (oneshot_running' <=> lock' = Outside)
            <3>1. Nobody # Outside
                OBVIOUS
            <3>2. \/ oneshot_running' = TRUE /\ lock' = Outside
                  \/ oneshot_running' = FALSE /\ lock' = Nobody
                BY <3>1, <1>3, <1>5
            <3> QED
                BY <3>1, <3>2
        <2>4. TurnTypes'
            BY <1>1, <1>2, <1>5, <2>3 DEF TurnTypes
        <2>5. OneTurn' /\ TurnExists' /\ SelfIsCurrent' /\ StateFits'
            BY <1>2, <2>2 DEF TurnInv, OneTurn, TurnExists, SelfIsCurrent, StateFits, RunningAt
        <2>6. LockFits'
            BY <1>2, <1>5 DEF TurnInv, LockFits, NeedsLock
        <2>7. DispatchFits' /\ QueueIsWaiting'
            BY <1>2 DEF TurnInv, DispatchFits, QueueIsWaiting, Waiting, Parked, Stop
        <2>8. OneshotFits'
            BY <1>2, <2>1, <2>2, <2>3 DEF OneshotFits, HasTurn, Turn
        <2>9. (tasks_running = Cardinality(Running))'
            BY <1>2 DEF TurnInv, Running
        <2>10. SameTurn
            BY <1>2, <2>2 DEF SameTurn
        <2> QED
            BY <2>4, <2>5, <2>6, <2>7, <2>8, <2>9, <2>10 DEF TurnInv
    <1> QED
        BY <1>3, <1>4, <1>5

\* Nobody has the turn when the scheduler was initialised.
LEMMA InitTurn == Init => TurnInv
    <1> USE TaskAssumption
    <1> SUFFICES ASSUME Init PROVE TurnInv
        OBVIOUS
    <1>1. /\ pc = [t \in Tasks |-> IF t = main_task THEN "out" ELSE "unborn"]
          /\ state = [t \in Tasks |-> "BEFORE_START"]
          /\ dispatched = [t \in Tasks |-> FALSE]
          /\ reason = [t \in Tasks |-> "BEGIN"]
          /\ next = [t \in Tasks |-> Nobody]
          /\ tasks_queue = <<>> /\ lock = Nobody /\ oneshot_running = FALSE
          /\ tasks_running = 0
        BY DEF Init
    <1>2. \A t \in Tasks : pc[t] \in {"out", "unborn"} /\ ~dispatched[t]
        BY <1>1
    <1>3. \A t \in Tasks : ~HasTurn(t) /\ ~Waiting(t) /\ state[t] # "RUNNING"
        BY <1>1, <1>2 DEF HasTurn, Turn, Waiting, Parked
    <1>4. TurnTypes
        <2>1. pc \in [Tasks -> Labels] /\ state \in [Tasks -> States]
            BY <1>1 DEF Labels, States
        <2>2. dispatched \in [Tasks -> BOOLEAN] /\ oneshot_running \in BOOLEAN
            BY <1>1
        <2> QED
            BY <1>1, <2>1, <2>2 DEF TurnTypes
    <1>5. OneTurn /\ SelfIsCurrent /\ TurnExists
        BY <1>2, <1>3 DEF OneTurn, SelfIsCurrent, TurnExists
    <1>6. StateFits /\ LockFits
        BY <1>2, <1>3 DEF StateFits, RunningAt, LockFits, NeedsLock
    <1>7. DispatchFits /\ OneshotFits
        BY <1>1, <1>2, <1>3 DEF DispatchFits, OneshotFits
    <1>8. QueueIsWaiting
        BY <1>1, <1>3 DEF QueueIsWaiting, IsInjective, Range
    <1>9. tasks_running = Cardinality(Running)
        <2>1. Running = {}
            BY <1>3 DEF Running
        <2> QED
            BY <2>1, <1>1, FS_EmptySet
    <1> QED
        BY <1>4, <1>5, <1>6, <1>7, <1>8, <1>9 DEF TurnInv

\* Only the section of rz_core_task_schedule, the dispatch after it and the
\* section of task_wakeup have to do with whose turn it is.
LEMMA StepCases ==
    ASSUME TurnInv, [Next]_vars
    PROVE  \/ TurnInv' /\ SameTurn
           \/ \E t \in Tasks : PickNext(t) \/ Dispatch(t) \/ task_wakeup(t)
    <1>1. CASE UNCHANGED vars
        BY <1>1, Quiet DEF vars, turnVars, sched
    <1>2. ASSUME NEW t \in Tasks, TaskStep(t)
          PROVE  \/ TurnInv' /\ SameTurn
                 \/ PickNext(t) \/ Dispatch(t) \/ task_wakeup(t)
        <2>1. CASE rz_core_task_yield(t)
            BY <2>1, EnterScheduleMoves DEF rz_core_task_yield
        <2>2. CASE SleepBegin(t)
            BY <2>2, EnterScheduleMoves DEF SleepBegin
        <2>3. CASE JoinSleep(t)
            BY <2>3, EnterScheduleMoves DEF JoinSleep
        <2> QED
            BY <2>1, <2>2, <2>3, <1>2, TaskEndMoves, ScheduleKeeps, OneshotsKeep,
                SignalKeeps, AwaitDispatchKeeps, TaskMoves DEF TaskStep
    <1>3. main_task \in Tasks /\ Background \subseteq Tasks
        BY DEF Tasks
    <1>4. CASE rz_core_task_sync_end
        BY <1>3, <1>4, EnterScheduleMoves DEF rz_core_task_sync_end
    <1>5. CASE rz_core_task_sync_begin \/ CoreFini
        <2>1. CASE CoreFiniJoined
            BY <2>1, Quiet DEF CoreFiniJoined, turnVars, sched
        <2> QED
            BY <2>1, <1>3, <1>5, OtherMoves DEF CoreFini
    <1>6. CASE Request
        <2>1. CASE rz_core_task_break
            BY <2>1, Quiet DEF rz_core_task_break, turnVars, sched
        <2>2. CASE rz_core_task_del_all_done
            BY <2>2, Quiet DEF rz_core_task_del_all_done, turnVars, sched
        <2>3. ASSUME NEW t \in Background, rz_core_task_del(t)
              PROVE  TurnInv' /\ SameTurn
            BY <2>3, Quiet DEF rz_core_task_del, turnVars, sched
        <2> QED
            BY <2>1, <2>2, <2>3, <1>3, <1>6, OtherMoves, OutsideOneshotsKeep DEF Request
    <1>7. CASE OneshotReturn
        BY <1>7, OutsideOneshotsKeep
    <1> QED
        BY <1>1, <1>2, <1>4, <1>5, <1>6, <1>7 DEF Next

\* Every step keeps TurnInv.
LEMMA NextTurn == TurnInv /\ [Next]_vars => TurnInv'
    BY StepCases, PickNextKeeps, DispatchKeeps, WakeupKeeps

\* TurnInv holds in every reachable state.
LEMMA TurnInvariant == Spec => []TurnInv
    BY InitTurn, NextTurn, PTL DEF Spec

\* At most one task executes at a time, and rz_core_task_self names it, for
\* any number of tasks, spurious wakeups included.
THEOREM TasksRunOneAtATime == Spec => []OneAtATime
    <1>1. TurnInv => OneAtATime
        BY DEF TurnInv, OneTurn, SelfIsCurrent, OneAtATime
    <1> QED
        BY <1>1, TurnInvariant, PTL

\* tasks_running counts the RUNNING tasks, and no dispatch gets lost between
\* rz_core_task_schedule and task_wakeup, for any number of tasks.
THEOREM TheTurnIsNeverLost == Spec => []TurnIsNeverLost
    <1>1. TurnInv => TurnIsNeverLost
        <2> SUFFICES ASSUME TurnInv PROVE TurnIsNeverLost
            OBVIOUS
        <2>1. tasks_running > 0 => Running # {}
            BY FS_EmptySet DEF TurnInv
        <2>2. Running # {} => \E t \in Tasks : HasTurn(t)
            BY DEF Running, TurnInv, TurnExists
        <2> QED
            BY <2>1, <2>2 DEF TurnInv, Running, TurnIsNeverLost
    <1> QED
        BY <1>1, TurnInvariant, PTL

\* tasks_queue holds exactly the tasks that wait for a dispatch, each once, for
\* any number of tasks.
THEOREM TheQueueIsWaiting == Spec => []QueueIsWaiting
    <1>1. TurnInv => QueueIsWaiting
        BY DEF TurnInv
    <1> QED
        BY <1>1, TurnInvariant, PTL

\* While a oneshot runs, no task executes but the one that runs it in its
\* rz_core_task_schedule, for any number of tasks and oneshots.
THEOREM OneshotsAreAlone == Spec => []OneshotsRunAlone
    <1>1. TurnInv => OneshotsRunAlone
        <2> SUFFICES ASSUME TurnInv, oneshot_running, NEW t \in Tasks, HasTurn(t)
                     PROVE  lock = t
            BY DEF OneshotsRunAlone
        <2>1. PICK u \in Tasks : pc[u] = "oneshot"
            BY DEF TurnInv, OneshotFits, TurnTypes
        <2>2. u = t
            BY <2>1 DEF TurnInv, OneTurn, HasTurn, Turn
        <2> QED
            BY <2>1, <2>2 DEF TurnInv, LockFits, NeedsLock
    <1> QED
        BY <1>1, TurnInvariant, PTL

-----------------------------------------------------------------------------
\* Whose turn it is, without choosing: the task about to be dispatched, else
\* the one that has the turn.
IsTurn(x) ==
    \/ \E v \in Tasks : pc[v] = "dispatch" /\ x = next[v]
    \/ /\ \A v \in Tasks : pc[v] # "dispatch"
       /\ \/ x \in Tasks /\ HasTurn(x)
          \/ x = Nobody /\ \A v \in Tasks : ~HasTurn(v)

MappingFits == \A x : IsTurn(x) <=> x = turn

\* The refinement mapping is what IsTurn says.
LEMMA TurnIs == TurnInv => MappingFits
    <1> USE TaskAssumption
    <1> SUFFICES ASSUME TurnInv PROVE \A x : IsTurn(x) <=> x = turn
        BY DEF MappingFits
    <1> DEFINE giving == {t \in Tasks : pc[t] = "dispatch"}
               having == {t \in Tasks : HasTurn(t)}
    <1>1. turn = IF giving # {} THEN next[CHOOSE t \in giving : TRUE]
                 ELSE IF having # {} THEN CHOOSE t \in having : TRUE ELSE Nobody
        BY DEF turn
    <1>2. OneTurn
        BY DEF TurnInv
    <1>3. CASE giving # {}
        <2>1. PICK v \in Tasks : pc[v] = "dispatch"
            BY <1>3
        <2>2. \A u \in Tasks : pc[u] = "dispatch" => u = v
            BY <2>1, <1>2 DEF OneTurn, HasTurn, Turn
        <2>3. (CHOOSE t \in giving : TRUE) = v
            <3>1. giving = {v}
                BY <2>1, <2>2
            <3> HIDE DEF giving
            <3> QED
                BY <3>1
        <2>4. turn = next[v]
            <3> HIDE DEF giving, having
            <3> QED
                BY <2>3, <1>1, <1>3
        <2> QED
            BY <2>1, <2>2, <2>4 DEF IsTurn
    <1>4. CASE giving = {} /\ having # {}
        <2>1. PICK v \in Tasks : HasTurn(v)
            BY <1>4
        <2>2. \A u \in Tasks : HasTurn(u) => u = v
            BY <2>1, <1>2 DEF OneTurn
        <2>3. (CHOOSE t \in having : TRUE) = v
            <3>1. having = {v}
                BY <2>1, <2>2
            <3> HIDE DEF having
            <3> QED
                BY <3>1
        <2>4. turn = v
            <3> HIDE DEF giving, having
            <3> QED
                BY <2>3, <1>1, <1>4
        <2>5. \A u \in Tasks : pc[u] # "dispatch"
            BY <1>4
        <2> QED
            BY <2>1, <2>2, <2>4, <2>5 DEF IsTurn
    <1>5. CASE giving = {} /\ having = {}
        <2>1. turn = Nobody
            <3> HIDE DEF giving, having
            <3> QED
                BY <1>1, <1>5
        <2>2. \A u \in Tasks : pc[u] # "dispatch" /\ ~HasTurn(u)
            BY <1>5
        <2> QED
            BY <2>1, <2>2 DEF IsTurn
    <1> QED
        BY <1>3, <1>4, <1>5

\* A step that leaves the turn alone is a stuttering step of RoundRobin.
LEMMA SameTurnStutters ==
    ASSUME TurnInv, TurnInv', SameTurn
    PROVE  turn' = turn
    <1>1. \A x : IsTurn(x)' <=> IsTurn(x)
        BY DEF SameTurn, IsTurn
    <1>2. MappingFits /\ MappingFits'
        BY TurnIs, PTL
    <1> QED
        BY <1>1, <1>2 DEF MappingFits

\* The section of rz_core_task_schedule is a Yield or a Leave of RoundRobin.
LEMMA PickNextPasses ==
    ASSUME TurnInv, TurnInv', NEW t \in Tasks, PickNext(t)
    PROVE  [RR!Next]_<<turn, tasks_queue>>
    <1> USE TaskAssumption
    <1>1. MappingFits /\ MappingFits'
        BY TurnIs, PTL
    <1>2. TurnTypes
        BY DEF TurnInv
    <1>3. pc[t] = "section" /\ UNCHANGED <<dispatched, reason>>
        BY DEF PickNext
    <1>4. /\ \A u \in Tasks \ {t} : ~HasTurn(u) /\ pc[u] \notin Turn /\ ~dispatched[u]
          /\ ~dispatched[t]
        BY <1>3 DEF TurnInv, OneTurn, HasTurn, Turn, DispatchFits
    <1>5. IsTurn(t)
        BY <1>3, <1>4 DEF IsTurn, HasTurn, Turn
    <1>6. turn = t /\ turn # Nobody
        BY <1>1, <1>5 DEF MappingFits
    <1>7. CASE tasks_queue = <<>>
        <2>1. /\ pc' = [pc EXCEPT ![t] = IF Stop(reason[t]) THEN AfterStop(t) ELSE "resume"]
              /\ UNCHANGED tasks_queue
            BY <1>7 DEF PickNext, Goto
        <2>2. \A u \in Tasks \ {t} : pc'[u] = pc[u]
            BY <1>2, <2>1 DEF TurnTypes
        <2>3. CASE Stop(reason[t])
            <3>1. pc'[t] \in {"asleep", "out", "post"}
                BY <1>2, <2>1, <2>3 DEF TurnTypes, AfterStop
            <3>2. IsTurn(Nobody)'
                BY <3>1, <1>3, <1>4, <2>2 DEF IsTurn, HasTurn, Turn
            <3>3. turn' = Nobody
                BY <1>1, <3>2 DEF MappingFits
            <3> QED
                BY <3>3, <1>6, <1>7, <2>1 DEF RR!Next, RR!Leave
        <2>4. CASE ~Stop(reason[t])
            <3>1. pc'[t] = "resume"
                BY <1>2, <2>1, <2>4 DEF TurnTypes
            <3>2. IsTurn(t)'
                BY <3>1, <1>3, <1>4, <2>2 DEF IsTurn, HasTurn, Turn
            <3>3. turn' = turn
                BY <1>1, <1>6, <3>2 DEF MappingFits
            <3> QED
                BY <3>3, <2>1
        <2> QED
            BY <2>3, <2>4
    <1>8. CASE tasks_queue # <<>>
        <2>1. /\ pc' = [pc EXCEPT ![t] = "dispatch"]
              /\ next' = [next EXCEPT ![t] = Head(tasks_queue)]
              /\ tasks_queue' = Requeue(t)
            BY <1>8 DEF PickNext, Goto
        <2>2. PICK n : n = Head(tasks_queue)
            OBVIOUS
        <2>3. pc'[t] = "dispatch" /\ next'[t] = n
            BY <1>2, <2>1, <2>2 DEF TurnTypes
        <2>4. IsTurn(n)'
            BY <2>3 DEF IsTurn
        <2>5. turn' = Head(tasks_queue)
            BY <1>1, <2>2, <2>4 DEF MappingFits
        <2> QED
            BY <2>1, <2>5, <1>6, <1>8 DEF Requeue, RR!Next, RR!Yield, RR!Leave
    <1> QED
        BY <1>7, <1>8

\* The dispatch itself does not change whose turn it is.
LEMMA DispatchPasses ==
    ASSUME TurnInv, TurnInv', NEW t \in Tasks, Dispatch(t)
    PROVE  UNCHANGED <<turn, tasks_queue>>
    <1> USE TaskAssumption
    <1>1. MappingFits /\ MappingFits'
        BY TurnIs, PTL
    <1>2. TurnTypes
        BY DEF TurnInv
    <1>3. PICK n \in Tasks \ {t} :
             /\ pc[t] = "dispatch" /\ next[t] = n
             /\ dispatched' = [dispatched EXCEPT ![n] = TRUE]
             /\ pc' = [pc EXCEPT ![t] = "signal"]
             /\ UNCHANGED tasks_queue
        BY DEF Dispatch, Goto, sched, TurnInv, DispatchFits
    <1>4. IsTurn(n)
        BY <1>3 DEF IsTurn
    <1>5. \A u \in Tasks \ {t} : pc[u] \notin Turn
        BY <1>3 DEF TurnInv, OneTurn, HasTurn, Turn
    <1>6. /\ \A u \in Tasks : pc'[u] # "dispatch"
          /\ HasTurn(n)'
        BY <1>2, <1>3, <1>5 DEF TurnTypes, HasTurn, Turn
    <1>7. IsTurn(n)'
        BY <1>3, <1>6 DEF IsTurn
    <1> QED
        BY <1>1, <1>3, <1>4, <1>7 DEF MappingFits

\* The section of task_wakeup is an Arrive of RoundRobin.
LEMMA WakeupPasses ==
    ASSUME TurnInv, TurnInv', NEW t \in Tasks, task_wakeup(t)
    PROVE  RR!Next
    <1> USE TaskAssumption
    <1>1. MappingFits /\ MappingFits'
        BY TurnIs, PTL
    <1>2. TurnTypes
        BY DEF TurnInv
    <1>3. /\ pc[t] \in {"start", "slept"} /\ lock = Nobody
          /\ tasks_queue' = IF Single THEN tasks_queue ELSE Append(tasks_queue, t)
          /\ pc' = [pc EXCEPT ![t] = IF Single THEN "resume" ELSE "check"]
          /\ UNCHANGED <<dispatched, next>>
        BY DEF task_wakeup, Goto
    <1>4. ~Waiting(t) /\ ~dispatched[t] /\ ~HasTurn(t)
        BY <1>3 DEF TurnInv, Waiting, Parked, DispatchFits, HasTurn, Turn
    <1>5. turn # t
        <2>1. ~IsTurn(t)
            BY <1>4 DEF IsTurn, TurnInv, DispatchFits
        <2> QED
            BY <2>1, <1>1 DEF MappingFits
    <1>6. \A i \in DOMAIN tasks_queue : tasks_queue[i] # t
        BY <1>4 DEF TurnInv, QueueIsWaiting, Range
    <1>7. tasks_running \in Nat
        BY RunningFinite DEF TurnInv
    <1>8. /\ pc'[t] = IF Single THEN "resume" ELSE "check"
          /\ \A u \in Tasks \ {t} : pc'[u] = pc[u]
        BY <1>2, <1>3 DEF TurnTypes
    <1>9. CASE Single
        <2>1. \A u \in Tasks : ~HasTurn(u)
            BY <1>3, <1>7, <1>9, NobodyHasTurn DEF Single
        <2>2. \A u \in Tasks : pc[u] \notin Turn
            BY <2>1 DEF HasTurn
        <2>3. IsTurn(Nobody)
            BY <2>1, <2>2 DEF IsTurn, Turn
        <2>4. IsTurn(t)'
            BY <1>8, <1>9, <2>2 DEF IsTurn, HasTurn, Turn
        <2>5. turn = Nobody /\ turn' = t
            BY <1>1, <2>3, <2>4 DEF MappingFits
        <2> QED
            BY <2>5, <1>3, <1>5, <1>6, <1>9 DEF RR!Next, RR!Arrive
    <1>10. CASE ~Single
        <2>1. Running # {}
            <3>1. tasks_running # 0
                BY <1>7, <1>10 DEF Single
            <3> QED
                BY <3>1, FS_EmptySet DEF TurnInv
        <2>2. \E u \in Tasks : HasTurn(u)
            BY <2>1 DEF Running, TurnInv, TurnExists
        <2>3. ~IsTurn(Nobody)
            BY <2>2 DEF IsTurn, TurnInv, DispatchFits
        <2>4. turn # Nobody
            BY <1>1, <2>3 DEF MappingFits
        <2>5. \A x : IsTurn(x)' <=> IsTurn(x)
            <3>1. \A u \in Tasks :
                    /\ HasTurn(u)' <=> HasTurn(u)
                    /\ pc'[u] = "dispatch" <=> pc[u] = "dispatch"
                BY <1>3, <1>4, <1>8, <1>10 DEF HasTurn, Turn
            <3> QED
                BY <3>1, <1>3 DEF IsTurn
        <2>6. turn' = turn
            BY <1>1, <2>5 DEF MappingFits
        <2> QED
            BY <2>4, <2>6, <1>3, <1>5, <1>6, <1>10 DEF RR!Next, RR!Arrive
    <1> QED
        BY <1>9, <1>10

\* Tasks take turns in round-robin order, for any number of tasks: the whole
\* scheduler, its oneshots, joins, deletions and shutdown included, implements
\* RoundRobin.
THEOREM TasksTakeTurns == Spec => ImplementsRoundRobin
    <1>1. Init => RR!Init
        <2> SUFFICES ASSUME Init PROVE RR!Init
            OBVIOUS
        <2>1. MappingFits
            BY InitTurn, TurnIs
        <2>2. \A t \in Tasks : pc[t] \in {"out", "unborn"} /\ ~dispatched[t]
            BY DEF Init
        <2>3. IsTurn(Nobody)
            BY <2>2 DEF IsTurn, HasTurn, Turn
        <2>4. turn = Nobody /\ tasks_queue = <<>>
            BY <2>1, <2>3 DEF MappingFits, Init
        <2> QED
            BY <2>4 DEF RR!Init
    <1>2. TurnInv /\ [Next]_vars => [RR!Next]_<<turn, tasks_queue>>
        <2> SUFFICES ASSUME TurnInv, [Next]_vars
                     PROVE  [RR!Next]_<<turn, tasks_queue>>
            OBVIOUS
        <2>1. TurnInv'
            BY NextTurn
        <2>2. CASE SameTurn
            <3>1. turn' = turn /\ tasks_queue' = tasks_queue
                BY <2>1, <2>2, SameTurnStutters DEF SameTurn
            <3> QED
                BY <3>1
        <2>3. ASSUME NEW t \in Tasks, PickNext(t) \/ Dispatch(t) \/ task_wakeup(t)
              PROVE  [RR!Next]_<<turn, tasks_queue>>
            BY <2>1, <2>3, PickNextPasses, DispatchPasses, WakeupPasses
        <2> QED
            BY <2>2, <2>3, StepCases
    <1> QED
        BY <1>1, <1>2, TurnInvariant, PTL DEF Spec, ImplementsRoundRobin, RR!Spec

-----------------------------------------------------------------------------
\* A oneshot is only queued by rz_core_task_enqueue_oneshot.
LEMMA QueuedBy ==
    ASSUME [Next]_vars, oneshot_queue = <<>>, oneshot_queue' # <<>>
    PROVE  \E o \in Oneshots : rz_core_task_enqueue_oneshot(o)
    <1>1. CASE UNCHANGED vars
        BY <1>1 DEF vars, oneshots
    <1>2. ASSUME NEW t \in Tasks, TaskStep(t)
          PROVE  FALSE
        BY <1>2 DEF TaskStep, rz_core_task_yield, SleepBegin, JoinSleep, EnterSchedule,
            task_end, Schedule, OneshotStart, OneshotEnd, PickNext, Dispatch, Signal,
            AwaitDispatch, SpuriousWakeup, CleanupAfterYield, task_wakeup, Resume,
            Post, rz_core_task_join, EndSleep, Joined, oneshots
    <1>3. CASE rz_core_task_sync_begin \/ rz_core_task_sync_end \/ OneshotReturn \/ CoreFini
        BY <1>3 DEF rz_core_task_sync_begin, rz_core_task_sync_end, EnterSchedule,
            OneshotReturn, CoreFini, CoreFiniBreak, CoreFiniJoin, CoreFiniJoined,
            rz_core_task_scheduler_fini, oneshots
    <1>4. CASE Request
        BY <1>4 DEF Request, rz_core_task_enqueue, rz_core_task_run_sync,
            rz_core_task_del, rz_core_task_break, rz_core_task_del_all_done, oneshots
    <1> QED
        BY <1>1, <1>2, <1>3, <1>4 DEF Next

\* While a oneshot is queued, somebody has the turn.
QueuedHasTurn == oneshot_queue # <<>> => \E t \in Tasks : HasTurn(t)

\* A oneshot that could not be run at once is never left behind by the last task
\* that stops, for any number of tasks and oneshots.
THEOREM OneshotsAreNotStranded == Spec => []NoStrandedOneshot
    <1>1. Init => QueuedHasTurn
        BY DEF Init, QueuedHasTurn
    <1>2. TurnInv /\ QueuedHasTurn /\ [Next]_vars => QueuedHasTurn'
        <2> SUFFICES ASSUME TurnInv, QueuedHasTurn, [Next]_vars, oneshot_queue' # <<>>
                     PROVE  (\E t \in Tasks : HasTurn(t))'
            BY DEF QueuedHasTurn
        <2>1. TurnInv'
            BY NextTurn
        <2>2. \E t \in Tasks : HasTurn(t)
            <3>1. CASE oneshot_queue # <<>>
                BY <3>1 DEF QueuedHasTurn
            <3>2. CASE oneshot_queue = <<>>
                <4>1. tasks_running # 0
                    BY <3>2, QueuedBy DEF rz_core_task_enqueue_oneshot, RunsAtOnce
                <4>2. Running # {}
                    BY <4>1, FS_EmptySet DEF TurnInv
                <4> QED
                    BY <4>2 DEF Running, TurnInv, TurnExists
            <3> QED
                BY <3>1, <3>2
        <2>3. CASE SameTurn
            BY <2>2, <2>3 DEF SameTurn
        <2>4. ASSUME NEW t \in Tasks, PickNext(t)
              PROVE  FALSE
            BY <2>4 DEF PickNext, oneshots
        <2>5. ASSUME NEW t \in Tasks, Dispatch(t)
              PROVE  (\E u \in Tasks : HasTurn(u))'
            <3>1. next[t] \in Tasks /\ dispatched' = [dispatched EXCEPT ![next[t]] = TRUE]
                BY <2>5 DEF Dispatch, TurnInv, DispatchFits
            <3>2. dispatched'[next[t]]
                BY <3>1 DEF TurnInv, TurnTypes
            <3> QED
                BY <3>1, <3>2 DEF HasTurn
        <2>6. ASSUME NEW t \in Tasks, task_wakeup(t)
              PROVE  (\E u \in Tasks : HasTurn(u))'
            <3>1. state'[t] = "RUNNING"
                BY <2>6 DEF task_wakeup, TurnInv, TurnTypes
            <3> QED
                BY <3>1, <2>1 DEF TurnInv, TurnExists
        <2> QED
            BY <2>3, <2>4, <2>5, <2>6, StepCases
    <1>3. QueuedHasTurn => NoStrandedOneshot
        BY DEF QueuedHasTurn, NoStrandedOneshot
    <1> QED
        BY <1>1, <1>2, <1>3, TurnInvariant, PTL DEF Spec

-----------------------------------------------------------------------------
(* The references of tasks.                                                *)

\* The types that TurnTypes leaves out.
OwnTypes ==
    /\ tasks \in Seq(Tasks)
    /\ oneshot_queue \in Seq(Oneshots)
    /\ current_task \in Tasks \cup {Nobody}
    /\ transient \in [Tasks -> BOOLEAN]
    /\ breaked \in [Tasks -> BOOLEAN]
    /\ refcount \in [Tasks -> Nat]
    /\ posted \subseteq Tasks
    /\ freed \subseteq Tasks
    /\ joining \in [Tasks -> Seq(Tasks)]
    /\ ran \subseteq Oneshots

\* The labels of a task on its way into the sleep of a join and back.
Asleep == {"call", "section", "oneshot", "dispatch", "signal", "asleep", "slept",
           "check", "wait", "woken", "resume", "joined"}

\* The labels of a task whose end is known but not posted yet.
Ending == {"section", "oneshot", "dispatch", "signal", "post"}

\* Where the thread of t may be, given what it joins, whether it has ended and
\* where the scheduler keeps it.
Stands(t) ==
    /\ joining[t] # <<>> => \/ pc[t] \in {"joining", "fini_joining"}
                            \/ pc[t] \in Asleep /\ reason[t] = "SLEEPING"
    /\ pc[t] \in {"joining", "joined"} => joining[t] # <<>>
    /\ state[t] = "DONE" /\ t # main_task =>
          pc[t] = "done" \/ (pc[t] \in Ending /\ reason[t] = "DONE")
    /\ t \in posted \cup freed => pc[t] = "done"
    /\ t \in Range(tasks) \ {main_task} =>
          pc[t] # "unborn" /\ (pc[t] = "done" => t \in posted)
    /\ next[t] # Nobody => pc[t] \in {"dispatch", "signal"}

\* The main task has no semaphore, never posts and is never transient.
MainFits ==
    main_task \notin posted /\ pc[main_task] # "post" /\ ~transient[main_task]

\* No list holds a task twice.
ListsFit == IsInjective(tasks) /\ \A t \in Tasks : IsInjective(joining[t])

\* From the shutdown of the core on every task that is not at rest is listed,
\* and every listed one is still to be joined or has been.
FiniFits ==
    /\ pc[main_task] \in {"fini", "fini_joining"} =>
          \A t \in Background : pc[t] \in {"unborn", "done"} \/ t \in Range(tasks)
    /\ pc[main_task] = "fini_joining" =>
          \A t \in Range(tasks) \ {main_task} :
              t \in posted \/ t \in Range(joining[main_task])

\* Without spurious wakeups a dispatched task waits for its signal.
SignalFits ==
    ~Spurious =>
        /\ \A t \in Tasks : pc[t] = "woken" => dispatched[t]
        /\ \A t \in Tasks :
              pc[t] = "signal" => pc[next[t]] = "wait" /\ dispatched[next[t]]
        /\ \A t, u \in Tasks : pc[t] = "signal" /\ pc[u] = "signal" => t = u

\* A task that yields has collected the finished transient tasks, and none ends
\* while it has the turn.
Collected ==
    \A t \in Tasks :
        pc[t] \in {"section", "oneshot", "resume", "run"} /\ reason[t] = "RUNNING" =>
            \A u \in Range(tasks) \ {t} : ~(transient[u] /\ state[u] = "DONE")

\* The tasks that hold a reference to t because they join it.
JoinersOf(t) == {u \in Tasks : t \in Range(joining[u])}

\* The list's reference, or the creator's until the task is posted.
Listed(t) == IF t \in Range(tasks) \/ t \notin posted THEN 1 ELSE 0

\* The references are counted; a freed task has none.
RefsFit ==
    /\ \A t \in Tasks \ freed : refcount[t] = Cardinality(JoinersOf(t)) + Listed(t)
    /\ \A t \in freed : t \notin Range(tasks) /\ JoinersOf(t) = {}

OwnInv ==
    /\ OwnTypes
    /\ \A t \in Tasks : Stands(t)
    /\ MainFits
    /\ ListsFit
    /\ FiniFits
    /\ SignalFits
    /\ Collected
    /\ RefsFit
-----------------------------------------------------------------------------
\* The elements of S that a list without repetitions holds, each once.
LEMMA OnlyFacts ==
    ASSUME NEW T, NEW s \in Seq(T), IsInjective(s), NEW S
    PROVE  /\ Only(s, S) \in Seq(T)
           /\ IsInjective(Only(s, S))
           /\ Range(Only(s, S)) = Range(s) \cap S
    <1> DEFINE Kept == {i \in DOMAIN s : s[i] \in S}
               Upto(i) == {j \in Kept : j <= i}
               Rank(i) == Cardinality(Upto(i))
               n == Cardinality(Kept)
               rank == [i \in Kept |-> Rank(i)]
               At(k) == CHOOSE i \in Kept : Rank(i) = k
    <1>1. Kept \subseteq 1..Len(s) /\ Len(s) \in Nat /\ Kept \subseteq Int
        BY RangeFacts
    <1>2. IsFiniteSet(Kept) /\ n \in Nat
        <2>1. IsFiniteSet(1..Len(s))
            BY <1>1, FS_Interval
        <2> QED
            BY <2>1, <1>1, FS_Subset, FS_CardinalityType
    <1>3. \A i \in Kept : IsFiniteSet(Upto(i)) /\ Rank(i) \in 1..n
        <2> SUFFICES ASSUME NEW i \in Kept
                     PROVE  IsFiniteSet(Upto(i)) /\ Rank(i) \in 1..n
            OBVIOUS
        <2>1. Upto(i) \in SUBSET Kept
            OBVIOUS
        <2>2. IsFiniteSet(Upto(i)) /\ Rank(i) <= n
            BY ONLY <2>1, <1>2, FS_Subset
        <2>3. Rank(i) \in Nat
            BY ONLY <2>2, FS_CardinalityType
        <2>4. i \in Upto(i)
            BY <1>1
        <2>5. Upto(i) # {}
            BY <2>4
        <2>6. Rank(i) # 0
            BY ONLY <2>2, <2>5, FS_EmptySet
        <2> HIDE DEF Rank, n
        <2> QED
            BY <2>2, <2>3, <2>6, <1>2
    <1>4. \A i, j \in Kept : i < j => Rank(i) # Rank(j)
        <2> SUFFICES ASSUME NEW i \in Kept, NEW j \in Kept, i < j
                     PROVE  Rank(i) # Rank(j)
            OBVIOUS
        <2>1. Upto(i) \in SUBSET Upto(j)
            BY <1>1
        <2>2. j \in Upto(j) /\ j \notin Upto(i)
            BY <1>1
        <2>3. Upto(i) # Upto(j)
            BY ONLY <2>2
        <2>4. IsFiniteSet(Upto(j))
            BY ONLY <1>3, j \in Kept
        <2> QED
            BY ONLY <2>1, <2>3, <2>4, FS_Subset
    <1>5. \A i, j \in Kept : Rank(i) = Rank(j) => i = j
        <2> SUFFICES ASSUME NEW i \in Kept, NEW j \in Kept, Rank(i) = Rank(j), i # j
                     PROVE  FALSE
            OBVIOUS
        <2>1. i < j \/ j < i
            BY ONLY <1>1, i \in Kept, j \in Kept, i # j
        <2> QED
            BY ONLY <2>1, <1>4, i \in Kept, j \in Kept, Rank(i) = Rank(j)
    <1>6. rank \in Injection(Kept, 1..n)
        <2> HIDE DEF Rank, Kept, n
        <2> QED
            BY <1>3, <1>5 DEF Injection, IsInjective
    <1>7. rank \in Surjection(Kept, 1..n)
        <2>1. IsFiniteSet(1..n) /\ Cardinality(1..n) = n
            BY ONLY <1>2, FS_Interval
        <2> HIDE DEF rank, Kept
        <2> QED
            BY <2>1, <1>6, FS_Injection
    <1>8. \A k \in 1..n : \E i \in Kept : Rank(i) = k
        <2> HIDE DEF Rank, Kept, n
        <2> QED
            BY <1>7 DEF Surjection
    <1>9. \A k \in 1..n : At(k) \in Kept /\ Rank(At(k)) = k
        <2> HIDE DEF Rank, Kept, n
        <2> QED
            BY <1>8
    <1>10. \A i \in Kept : Rank(i) \in 1..n /\ At(Rank(i)) = i
        <2> HIDE DEF Rank, Kept, n
        <2> QED
            BY <1>3, <1>5
    <1>11. Only(s, S) = [k \in 1..n |-> s[At(k)]]
        BY DEF Only
    <1>12. \A i \in Kept : s[i] \in T /\ s[i] \in S /\ i \in DOMAIN s
        BY <1>1
    <1>13. \A i \in DOMAIN s : s[i] \in S => i \in Kept
        OBVIOUS
    <1> HIDE DEF Rank, Kept, n, At
    <1> DEFINE r == [k \in 1..n |-> s[At(k)]]
    <1>14. r \in Seq(T)
        BY <1>2, <1>9, <1>12
    <1>15. IsInjective(r)
        BY <1>9, <1>12 DEF IsInjective
    <1>16. Range(r) = Range(s) \cap S
        <2>1. ASSUME NEW x \in Range(r) PROVE x \in Range(s) \cap S
            BY <1>9, <1>12 DEF Range
        <2>2. ASSUME NEW x \in Range(s) \cap S PROVE x \in Range(r)
            <3>1. PICK i \in DOMAIN s : s[i] = x
                BY DEF Range
            <3>2. i \in Kept
                BY <3>1, <1>13
            <3>3. Rank(i) \in 1..n /\ r[Rank(i)] = x
                BY <3>1, <3>2, <1>10
            <3> QED
                BY <3>3 DEF Range
        <2> QED
            BY <2>1, <2>2
    <1> QED
        BY <1>11, <1>14, <1>15, <1>16

\* Taking tasks off the list.
LEMMA UnlistFacts ==
    ASSUME OwnTypes, ListsFit, NEW S, Unlist(S)
    PROVE  /\ tasks' \in Seq(Tasks)
           /\ IsInjective(tasks')
           /\ Range(tasks') = Range(tasks) \ S
    <1>1. tasks \in Seq(Tasks) /\ IsInjective(tasks) /\ tasks' = Only(tasks, Tasks \ S)
        BY DEF OwnTypes, ListsFit, Unlist
    <1>2. /\ tasks' \in Seq(Tasks) /\ IsInjective(tasks')
          /\ Range(tasks') = Range(tasks) \cap (Tasks \ S)
        BY <1>1, OnlyFacts
    <1>3. Range(tasks) \subseteq Tasks
        BY <1>1, RangeFacts
    <1> QED
        BY <1>2, <1>3

\* What is joined is on the list.
LEMMA JoinListFacts ==
    ASSUME OwnTypes, ListsFit, NEW t \in Tasks, NEW list \in JoinLists(t)
    PROVE  /\ list \in Seq(Tasks) /\ list # <<>>
           /\ IsInjective(list)
           /\ Range(list) \subseteq Range(tasks)
    <1>1. tasks \in Seq(Tasks) /\ IsInjective(tasks)
        BY DEF OwnTypes, ListsFit
    <1>2. PICK S : list = Only(tasks, S \ {t})
        BY DEF JoinLists
    <1>3. /\ list \in Seq(Tasks) /\ IsInjective(list)
          /\ Range(list) = Range(tasks) \cap (S \ {t})
        BY <1>1, <1>2, OnlyFacts
    <1> QED
        BY <1>3 DEF JoinLists

\* A task is joined by finitely many others.
LEMMA JoinersFinite ==
    ASSUME NEW t
    PROVE  IsFiniteSet(JoinersOf(t)) /\ Cardinality(JoinersOf(t)) \in Nat
    <1>1. IsFiniteSet(Tasks)
        BY TaskAssumption, FS_AddElement DEF Tasks
    <1>2. JoinersOf(t) \subseteq Tasks
        BY DEF JoinersOf
    <1> QED
        BY <1>1, <1>2, FS_Subset, FS_CardinalityType

\* The counts stay exact when the list's references are dropped: those to tasks
\* that are posted, or that nobody joins.
LEMMA UnlistRefs ==
    ASSUME OwnTypes, ListsFit, RefsFit, NEW S \in SUBSET Range(tasks), Unlist(S),
           UNCHANGED <<posted, joining>>,
           \A t \in S : t \in posted \/ JoinersOf(t) = {}
    PROVE  /\ RefsFit'
           /\ refcount' \in [Tasks -> Nat]
           /\ freed \subseteq freed' /\ freed' \subseteq freed \cup S
    <1> DEFINE c(t) == Cardinality(JoinersOf(t))
    <1>1. S \subseteq Tasks /\ Range(tasks) \subseteq Tasks
        BY RangeFacts DEF OwnTypes
    <1>2. /\ refcount \in [Tasks -> Nat]
          /\ refcount' = [t \in Tasks |-> IF t \in S THEN refcount[t] - 1 ELSE refcount[t]]
          /\ freed' = freed \cup {t \in S : refcount[t] <= 1}
        BY DEF OwnTypes, Unlist, Decref, task_free
    <1>3. \A t : /\ JoinersOf(t)' = JoinersOf(t) /\ c(t) \in Nat
                 /\ c(t) = 0 <=> JoinersOf(t) = {}
        BY JoinersFinite, FS_EmptySet DEF JoinersOf
    <1>4. Range(tasks') = Range(tasks) \ S
        BY UnlistFacts
    <1>5. \A t \in S : t \notin freed /\ refcount[t] = c(t) + 1
        BY <1>1 DEF RefsFit, Listed
    <1>6. refcount' \in [Tasks -> Nat]
        <2>1. \A t \in S : refcount[t] - 1 \in Nat
            BY <1>3, <1>5
        <2> QED
            BY <2>1, <1>2
    <1>7. freed' \subseteq freed \cup S /\ freed \subseteq freed'
        BY <1>2
    <1>8. \A t \in freed' : t \notin Range(tasks') /\ JoinersOf(t)' = {}
        <2> SUFFICES ASSUME NEW t \in freed'
                     PROVE  t \notin Range(tasks') /\ JoinersOf(t) = {}
            BY <1>3
        <2>1. CASE t \in freed
            BY <2>1, <1>4 DEF RefsFit
        <2>2. CASE t \notin freed
            <3>1. t \in S /\ refcount[t] <= 1
                BY <2>2, <1>2
            <3>2. c(t) = 0
                BY <3>1, <1>3, <1>5
            <3> QED
                BY <3>1, <3>2, <1>3, <1>4
        <2> QED
            BY <2>1, <2>2
    <1>9. \A t \in Tasks \ freed' : refcount'[t] = c(t) + Listed(t)'
        <2> SUFFICES ASSUME NEW t \in Tasks, t \notin freed'
                     PROVE  refcount'[t] = c(t) + Listed(t)'
            OBVIOUS
        <2>1. CASE t \notin S
            <3>1. Listed(t)' = Listed(t)
                BY <2>1, <1>4 DEF Listed
            <3>2. t \notin freed
                BY <1>7
            <3>3. refcount'[t] = refcount[t]
                BY <2>1, <1>2
            <3> QED
                BY <3>1, <3>2, <3>3 DEF RefsFit
        <2>2. CASE t \in S
            <3>1. ~(refcount[t] <= 1)
                BY <2>2, <1>2
            <3>2. c(t) # 0
                BY <3>1, <2>2, <1>3, <1>5
            <3>3. Listed(t)' = 0
                BY <2>2, <3>2, <1>3, <1>4 DEF Listed
            <3>4. refcount'[t] = refcount[t] - 1
                BY <2>2, <1>2
            <3> QED
                BY <2>2, <3>3, <3>4, <1>3, <1>5
        <2> QED
            BY <2>1, <2>2
    <1> QED
        BY <1>3, <1>6, <1>7, <1>8, <1>9 DEF RefsFit

\* The counts stay exact when a joiner takes its references.
LEMMA TakenRefs ==
    ASSUME OwnTypes, RefsFit, NEW u \in Tasks, joining[u] = <<>>,
           NEW list \in Seq(Tasks), Range(list) \subseteq Range(tasks),
           joining' = [joining EXCEPT ![u] = list], TakeRefs(Range(list)),
           UNCHANGED <<tasks, posted, freed>>
    PROVE  RefsFit' /\ refcount' \in [Tasks -> Nat]
    <1> DEFINE c(t) == Cardinality(JoinersOf(t))
    <1>1. refcount \in [Tasks -> Nat] /\ joining \in [Tasks -> Seq(Tasks)]
        BY DEF OwnTypes
    <1>2. refcount' = [t \in Tasks |-> IF t \in Range(list) THEN refcount[t] + 1
                                                            ELSE refcount[t]]
        BY DEF TakeRefs, Incref
    <1>3. Range(joining[u]) = {}
        BY DEF Range
    <1>4. joining'[u] = list /\ \A v \in Tasks \ {u} : joining'[v] = joining[v]
        BY <1>1
    <1>5. \A t : t \in Range(list) => /\ JoinersOf(t)' = JoinersOf(t) \cup {u}
                                      /\ u \notin JoinersOf(t)
        BY <1>3, <1>4 DEF JoinersOf
    <1>6. \A t : t \notin Range(list) => JoinersOf(t)' = JoinersOf(t)
        BY <1>3, <1>4 DEF JoinersOf
    <1>7. \A t : c(t) \in Nat
        BY JoinersFinite
    <1>8. \A t : t \in Range(list) => c(t)' = c(t) + 1
        <2> SUFFICES ASSUME NEW t, t \in Range(list) PROVE c(t)' = c(t) + 1
            OBVIOUS
        <2>1. IsFiniteSet(JoinersOf(t)) /\ u \notin JoinersOf(t)
            BY JoinersFinite, <1>5
        <2>2. Cardinality(JoinersOf(t) \cup {u}) = c(t) + 1
            BY <2>1, FS_AddElement
        <2> QED
            BY <2>2, <1>5
    <1>9. \A t : Listed(t)' = Listed(t) /\ Listed(t) \in Nat
        BY DEF Listed
    <1>10. \A t \in freed : t \notin Range(tasks) /\ JoinersOf(t)' = {}
        BY <1>6 DEF RefsFit
    <1>11. \A t \in Tasks \ freed : refcount'[t] = c(t)' + Listed(t)'
        <2> SUFFICES ASSUME NEW t \in Tasks \ freed
                     PROVE  refcount'[t] = c(t)' + Listed(t)'
            OBVIOUS
        <2>1. refcount[t] = c(t) + Listed(t)
            BY DEF RefsFit
        <2>2. CASE t \in Range(list)
            <3>1. refcount'[t] = refcount[t] + 1 /\ c(t)' = c(t) + 1
                BY <2>2, <1>2, <1>8
            <3> QED
                BY <3>1, <2>1, <1>7, <1>9
        <2>3. CASE t \notin Range(list)
            <3>1. refcount'[t] = refcount[t] /\ c(t)' = c(t)
                BY <2>3, <1>2, <1>6
            <3> QED
                BY <3>1, <2>1, <1>9
        <2> QED
            BY <2>2, <2>3
    <1>12. refcount' \in [Tasks -> Nat]
        BY <1>1, <1>2
    <1> QED
        BY <1>10, <1>11, <1>12 DEF RefsFit

\* The counts stay exact when a joiner drops the first of its references.
LEMMA DroppedRef ==
    ASSUME OwnTypes, ListsFit, RefsFit, NEW u \in Tasks, joining[u] # <<>>,
           joining' = [joining EXCEPT ![u] = Tail(@)], Decref({Head(joining[u])}),
           UNCHANGED <<tasks, posted>>
    PROVE  /\ RefsFit'
           /\ refcount' \in [Tasks -> Nat]
           /\ freed \subseteq freed' /\ freed' \subseteq freed \cup posted
           /\ freed' \subseteq Tasks
    <1> DEFINE c(t) == Cardinality(JoinersOf(t))
    <1>1. /\ refcount \in [Tasks -> Nat] /\ joining \in [Tasks -> Seq(Tasks)]
          /\ joining[u] \in Seq(Tasks) /\ IsInjective(joining[u])
        BY DEF OwnTypes, ListsFit
    <1>2. PICK h \in Tasks : /\ h = Head(joining[u]) /\ h \in Range(joining[u])
                             /\ Range(Tail(joining[u])) = Range(joining[u]) \ {h}
        BY <1>1, TailDistinct, TailFacts
    <1>3. joining'[u] = Tail(joining[u]) /\ \A v \in Tasks \ {u} : joining'[v] = joining[v]
        BY <1>1
    <1>4. /\ refcount' = [t \in Tasks |-> IF t \in {h} THEN refcount[t] - 1 ELSE refcount[t]]
          /\ freed' = freed \cup {t \in {h} : refcount[t] <= 1}
        BY <1>2 DEF Decref, task_free
    <1>5. JoinersOf(h)' = JoinersOf(h) \ {u} /\ u \in JoinersOf(h)
        BY <1>2, <1>3 DEF JoinersOf
    <1>6. \A t : t # h => JoinersOf(t)' = JoinersOf(t)
        BY <1>2, <1>3 DEF JoinersOf
    <1>7. \A t : c(t) \in Nat /\ Listed(t)' = Listed(t) /\ Listed(t) \in {0, 1}
        BY JoinersFinite DEF Listed
    <1>8. /\ c(h)' = c(h) - 1 /\ c(h) \in Nat
          /\ c(h)' \in Nat /\ (c(h)' = 0 => JoinersOf(h)' = {})
        <2>1. IsFiniteSet(JoinersOf(h)) /\ IsFiniteSet(JoinersOf(h) \ {u})
            BY JoinersFinite, FS_RemoveElement
        <2>2. Cardinality(JoinersOf(h) \ {u}) = c(h) - 1
            BY <2>1, <1>5, FS_RemoveElement
        <2>3. Cardinality(JoinersOf(h) \ {u}) = 0 => JoinersOf(h) \ {u} = {}
            BY <2>1, FS_EmptySet
        <2>4. Cardinality(JoinersOf(h) \ {u}) \in Nat
            BY <2>1, FS_CardinalityType
        <2> QED
            BY <2>2, <2>3, <2>4, <1>5, <1>7
    <1>9. h \notin freed /\ refcount[h] = c(h) + Listed(h)
        BY <1>2, <1>5 DEF RefsFit
    <1>10. refcount'[h] = c(h)' + Listed(h)' /\ refcount[h] - 1 \in Nat
        <2>1. refcount'[h] = refcount[h] - 1
            BY <1>2, <1>4
        <2> QED
            BY <2>1, <1>7, <1>8, <1>9
    <1>11. refcount[h] <= 1 => c(h)' = 0 /\ Listed(h) = 0
        BY <1>7, <1>8, <1>9
    <1>12. refcount' \in [Tasks -> Nat]
        BY <1>1, <1>4, <1>10
    <1>13. freed' \subseteq freed \cup posted /\ freed \subseteq freed'
        BY <1>4, <1>11 DEF Listed
    <1>14. freed' \subseteq Tasks
        BY <1>2, <1>4 DEF OwnTypes
    <1>15. \A t \in freed' : t \notin Range(tasks) /\ JoinersOf(t)' = {}
        BY <1>4, <1>6, <1>8, <1>9, <1>11 DEF RefsFit, Listed
    <1>16. \A t \in Tasks \ freed' : refcount'[t] = c(t)' + Listed(t)'
        <2> SUFFICES ASSUME NEW t \in Tasks \ freed', t # h
                     PROVE  refcount'[t] = c(t)' + Listed(t)'
            BY <1>10
        <2>1. refcount'[t] = refcount[t] /\ c(t)' = c(t) /\ t \notin freed
            BY <1>4, <1>6, <1>13
        <2> QED
            BY <2>1, <1>7 DEF RefsFit
    <1> QED
        BY <1>12, <1>13, <1>14, <1>15, <1>16 DEF RefsFit
-----------------------------------------------------------------------------
\* What the scheduler keeps of its tasks.
owned == <<tasks, refcount, freed, posted, joining, transient>>

\* Nothing happens to u, except that a signal may wake it.
Undisturbed(u) ==
    /\ pc'[u] = pc[u] \/ (pc[u] = "wait" /\ pc'[u] = "woken")
    /\ reason'[u] = reason[u] /\ next'[u] = next[u] /\ state'[u] = state[u]

\* The labels at which a task that yields has collected the transient tasks.
Clean == {"section", "oneshot", "resume", "run"}

\* The thread of t goes on; no list, count or flag of ownership changes.
Walk(t) ==
    /\ UNCHANGED owned
    /\ \A u \in Tasks \ {t} : Undisturbed(u)
    /\ Stands(t)'
    /\ t = main_task => pc'[t] \notin {"post", "fini", "fini_joining"}
    /\ pc[t] \in {"unborn", "done"} => pc[main_task] \notin {"fini", "fini_joining"}
    /\ pc'[t] \in Clean /\ reason'[t] = "RUNNING" => pc[t] \in Clean /\ reason[t] = "RUNNING"
    /\ state'[t] = "DONE" => state[t] = "DONE"

\* The other tasks stand where they may.
LEMMA OthersStand ==
    ASSUME UNCHANGED owned, NEW u \in Tasks, Stands(u), Undisturbed(u)
    PROVE  Stands(u)'
    BY DEF owned, Stands, Undisturbed, Asleep, Ending

\* A thread that goes on keeps the references as they are.
LEMMA WalkKeeps ==
    ASSUME OwnInv, OwnTypes', SignalFits', NEW t \in Tasks, Walk(t)
    PROVE  OwnInv'
    <1> USE TaskAssumption
    <1>1. UNCHANGED owned /\ \A u \in Tasks \ {t} : Undisturbed(u)
        BY DEF Walk
    <1>2. \A u \in Tasks : Stands(u)'
        BY <1>1, OthersStand DEF OwnInv, Walk
    <1>3. main_task \in Tasks
        BY DEF Tasks
    <1>4. MainFits'
        BY <1>1, <1>3 DEF OwnInv, MainFits, owned, Walk, Undisturbed
    <1>5. ListsFit' /\ RefsFit'
        BY <1>1 DEF OwnInv, ListsFit, RefsFit, owned, JoinersOf, Listed
    <1>6. FiniFits'
        <2>1. pc'[main_task] \in {"fini", "fini_joining"} =>
                 pc'[main_task] = pc[main_task] /\ t # main_task
            BY <1>1, <1>3 DEF Walk, Undisturbed
        <2>2. \A u \in Background : u \in Tasks
            BY DEF Tasks
        <2>3. pc'[main_task] \in {"fini", "fini_joining"} =>
                 \A u \in Background : pc[u] \in {"unborn", "done"} => pc'[u] = pc[u]
            BY <1>1, <2>1, <2>2 DEF Walk, Undisturbed
        <2> QED
            BY <1>1, <2>1, <2>3 DEF OwnInv, FiniFits, owned
    <1>7. Collected'
        <2>1. \A u \in Tasks : pc'[u] \in Clean /\ reason'[u] = "RUNNING" =>
                                  pc[u] \in Clean /\ reason[u] = "RUNNING"
            BY <1>1 DEF Walk, Undisturbed, Clean
        <2>2. \A u \in Tasks : state'[u] = "DONE" => state[u] = "DONE"
            BY <1>1 DEF Walk, Undisturbed
        <2>3. Range(tasks) \subseteq Tasks
            BY RangeFacts DEF OwnInv, OwnTypes
        <2> QED
            BY <1>1, <2>1, <2>2, <2>3 DEF OwnInv, Collected, owned, Clean
    <1> QED
        BY <1>2, <1>4, <1>5, <1>6, <1>7 DEF OwnInv

\* Entering rz_core_task_schedule.
LEMMA EnterWalks ==
    ASSUME TurnInv, OwnInv, NEW t \in Tasks, pc[t] \in {"run", "joining"},
           NEW ns \in {"RUNNING", "SLEEPING", "DONE"}, NEW l,
           EnterSchedule(t, ns, l), pc[t] = "joining" => ns = "SLEEPING"
    PROVE  Walk(t)
    <1> USE TaskAssumption
    <1>1. TurnTypes /\ Stands(t)
        BY DEF TurnInv, OwnInv
    <1>2. pc' = [pc EXCEPT ![t] = "call"]
        BY NoEarlyReturn DEF EnterSchedule, Goto
    <1>3. /\ reason' = [reason EXCEPT ![t] = ns]
          /\ UNCHANGED owned /\ UNCHANGED <<state, next>>
        BY DEF EnterSchedule, owned, ownership, flags
    <1>4. /\ pc'[t] = "call" /\ reason'[t] = ns
          /\ \A u \in Tasks \ {t} : Undisturbed(u)
        BY <1>1, <1>2, <1>3 DEF TurnTypes, Undisturbed
    <1>5. Stands(t)'
        BY <1>1, <1>3, <1>4 DEF Stands, owned, Asleep, Ending
    <1> QED
        BY <1>3, <1>4, <1>5 DEF Walk, Clean

\* The steps of a thread that leave the lists and references alone.
LEMMA ThreadWalks ==
    ASSUME TurnInv, OwnInv, NEW t \in Tasks,
           \/ task_end(t) \/ OneshotStart(t) \/ OneshotEnd(t) \/ Dispatch(t)
           \/ SpuriousWakeup(t) \/ task_wakeup(t) \/ Resume(t) \/ EndSleep(t)
           \/ AwaitDispatch(t)
    PROVE  Walk(t)
    <1> USE TaskAssumption
    <1>1. TurnTypes /\ Stands(t)
        BY DEF TurnInv, OwnInv
    <1>2. UNCHANGED owned /\ UNCHANGED next
        BY DEF task_end, OneshotStart, OneshotEnd, Dispatch, SpuriousWakeup, task_wakeup,
            Resume, EndSleep, AwaitDispatch, owned, ownership, flags
    <1>3. CASE task_end(t)
        <2>1. /\ pc[t] \in {"run", "nonstart"} /\ t # main_task /\ pc'[t] = "call"
              /\ reason'[t] = "DONE" /\ state'[t] = state[t]
              /\ \A u \in Tasks \ {t} : Undisturbed(u)
            BY <1>1, <1>2, <1>3 DEF task_end, Goto, TurnTypes, Undisturbed
        <2>2. Stands(t)'
            BY <1>1, <1>2, <2>1 DEF Stands, owned, Asleep, Ending
        <2> QED
            BY <1>2, <2>1, <2>2 DEF Walk, Clean
    <1>4. CASE OneshotStart(t) \/ OneshotEnd(t)
        <2>1. /\ pc[t] \in {"section", "oneshot"} /\ pc'[t] \in {"section", "oneshot"}
              /\ reason'[t] = reason[t] /\ state'[t] = state[t]
              /\ \A u \in Tasks \ {t} : Undisturbed(u)
            BY <1>1, <1>2, <1>4 DEF OneshotStart, OneshotEnd, Goto, TurnTypes, Undisturbed
        <2>2. Stands(t)'
            BY <1>1, <1>2, <2>1 DEF Stands, owned, Asleep, Ending
        <2> QED
            BY <1>2, <2>1, <2>2 DEF Walk, Clean
    <1>5. CASE Dispatch(t)
        <2>1. /\ pc[t] = "dispatch" /\ pc'[t] = "signal"
              /\ reason'[t] = reason[t] /\ state'[t] = state[t]
              /\ \A u \in Tasks \ {t} : Undisturbed(u)
            BY <1>1, <1>2, <1>5 DEF Dispatch, Goto, TurnTypes, Undisturbed
        <2>2. Stands(t)'
            BY <1>1, <1>2, <2>1 DEF Stands, owned, Asleep, Ending
        <2> QED
            BY <1>2, <2>1, <2>2 DEF Walk, Clean
    <1>6. CASE SpuriousWakeup(t)
        <2>1. /\ pc[t] = "wait" /\ pc'[t] = "woken"
              /\ reason'[t] = reason[t] /\ state'[t] = state[t]
              /\ \A u \in Tasks \ {t} : Undisturbed(u)
            BY <1>1, <1>2, <1>6 DEF SpuriousWakeup, Goto, TurnTypes, Undisturbed
        <2>2. Stands(t)'
            BY <1>1, <1>2, <2>1 DEF Stands, owned, Asleep, Ending
        <2> QED
            BY <1>2, <2>1, <2>2 DEF Walk, Clean
    <1>7. CASE task_wakeup(t)
        <2>1. /\ pc[t] \in {"start", "slept"} /\ pc'[t] \in {"resume", "check"}
              /\ reason'[t] = IF pc[t] = "start" THEN "BEGIN" ELSE "SLEEPING"
              /\ state'[t] = "RUNNING"
              /\ \A u \in Tasks \ {t} : Undisturbed(u)
            BY <1>1, <1>2, <1>7 DEF task_wakeup, Goto, TurnTypes, Undisturbed
        <2>2. Stands(t)'
            BY <1>1, <1>2, <2>1 DEF Stands, owned, Asleep, Ending
        <2> QED
            BY <1>2, <2>1, <2>2 DEF Walk, Clean
    <1>8. CASE Resume(t)
        <2>1. /\ pc[t] = "resume"
              /\ IF joining[t] # <<>> THEN pc'[t] = "joined" ELSE pc'[t] \in {"nonstart", "run"}
              /\ reason'[t] = reason[t] /\ state'[t] = state[t]
              /\ \A u \in Tasks \ {t} : Undisturbed(u)
            BY <1>1, <1>2, <1>8 DEF Resume, Goto, TurnTypes, Undisturbed
        <2>2. Stands(t)'
            BY <1>1, <1>2, <2>1 DEF Stands, owned, Asleep, Ending
        <2> QED
            BY <1>2, <2>1, <2>2 DEF Walk, Clean
    <1>9. CASE EndSleep(t)
        <2>1. /\ pc[t] = "asleep" /\ pc'[t] = "slept"
              /\ reason'[t] = reason[t] /\ state'[t] = state[t]
              /\ \A u \in Tasks \ {t} : Undisturbed(u)
            BY <1>1, <1>2, <1>9 DEF EndSleep, Goto, TurnTypes, Undisturbed
        <2>2. Stands(t)'
            BY <1>1, <1>2, <2>1 DEF Stands, owned, Asleep, Ending
        <2> QED
            BY <1>2, <2>1, <2>2 DEF Walk, Clean
    <1>10. CASE AwaitDispatch(t)
        <2>1. /\ pc[t] \in {"check", "woken"} /\ pc'[t] \in {"wait", "cleanup", "resume"}
              /\ pc'[t] = "cleanup" => reason[t] = "RUNNING"
              /\ pc'[t] = "resume" => reason[t] # "RUNNING"
              /\ reason'[t] = reason[t] /\ state'[t] = state[t]
              /\ \A u \in Tasks \ {t} : Undisturbed(u)
            BY <1>1, <1>2, <1>10 DEF AwaitDispatch, Goto, TurnTypes, Undisturbed
        <2>2. Stands(t)'
            BY <1>1, <1>2, <2>1 DEF Stands, owned, Asleep, Ending
        <2> QED
            BY <1>2, <2>1, <2>2 DEF Walk, Clean
    <1> QED
        BY <1>3, <1>4, <1>5, <1>6, <1>7, <1>8, <1>9, <1>10

\* The same for the steps that hand the turn over, or take it up.
LEMMA HandOverWalks ==
    ASSUME TurnInv, OwnInv, NEW t \in Tasks, PickNext(t) \/ Signal(t)
    PROVE  Walk(t)
    <1> USE TaskAssumption
    <1>1. TurnTypes /\ Stands(t) /\ DispatchFits /\ StateFits
        BY DEF TurnInv, OwnInv
    <1>2. UNCHANGED owned /\ UNCHANGED <<reason, state>>
        BY DEF PickNext, Signal, owned, ownership, flags
    <1>3. pc[t] \in {"section", "signal"} => reason[t] \in {"RUNNING", "SLEEPING", "DONE"}
        BY <1>1 DEF TurnTypes, StateFits
    <1>4. CASE PickNext(t)
        <2>1. /\ pc[t] = "section"
              /\ \/ next' = next /\ pc'[t] = IF Stop(reason[t]) THEN AfterStop(t) ELSE "resume"
                 \/ pc'[t] = "dispatch"
              /\ \A u \in Tasks \ {t} : Undisturbed(u)
            BY <1>1, <1>2, <1>4 DEF PickNext, Goto, TurnTypes, Undisturbed
        <2>2. Stands(t)'
            BY <1>1, <1>2, <1>3, <2>1 DEF Stands, owned, Asleep, Ending, AfterStop, Stop
        <2> QED
            BY <1>2, <1>3, <2>1, <2>2 DEF Walk, Clean, AfterStop, Stop
    <1>5. CASE Signal(t)
        <2>1. /\ pc[t] = "signal" /\ next'[t] = Nobody
              /\ pc'[t] = IF Stop(reason[t]) THEN AfterStop(t) ELSE "check"
            BY <1>1, <1>5 DEF Signal, Woken, TurnTypes
        <2>2. \A u \in Tasks \ {t} : Undisturbed(u)
            BY <1>1, <1>2, <1>5 DEF Signal, Woken, TurnTypes, Undisturbed
        <2>3. Stands(t)'
            BY <1>1, <1>2, <1>3, <2>1 DEF Stands, owned, Asleep, Ending, AfterStop, Stop
        <2> QED
            BY <1>2, <1>3, <2>1, <2>2, <2>3 DEF Walk, Clean, AfterStop, Stop
    <1> QED
        BY <1>4, <1>5

\* The main task's section begins, and a task is run on the caller's thread.
LEMMA StartWalks ==
    ASSUME TurnInv, OwnInv, NEW t \in Tasks,
           \/ t = main_task /\ rz_core_task_sync_begin
           \/ t \in Background /\ rz_core_task_run_sync(t)
    PROVE  Walk(t)
    <1> USE TaskAssumption
    <1>1. TurnTypes /\ Stands(t)
        BY DEF TurnInv, OwnInv
    <1>2. UNCHANGED owned /\ UNCHANGED <<reason, next>>
        BY DEF rz_core_task_sync_begin, rz_core_task_run_sync, owned, ownership, flags
    <1>3. /\ pc[t] \in {"out", "unborn"} /\ pc'[t] = "start"
          /\ pc[t] = "unborn" => pc[main_task] \notin {"fini", "fini_joining", "done"}
          /\ state'[t] \in {state[t], "BEFORE_START"}
          /\ \A u \in Tasks \ {t} : Undisturbed(u)
        BY <1>1, <1>2 DEF rz_core_task_sync_begin, rz_core_task_run_sync, Goto, TurnTypes,
            Undisturbed
    <1>4. Stands(t)'
        BY <1>1, <1>2, <1>3 DEF Stands, owned, Asleep, Ending
    <1> QED
        BY <1>2, <1>3, <1>4 DEF Walk, Clean

-----------------------------------------------------------------------------
\* Nobody is dispatched, woken or about to be.
Calm ==
    \A u \in Tasks :
        /\ pc'[u] \in {"woken", "signal"} => pc[u] = pc'[u] /\ next'[u] = next[u]
        /\ pc[u] = "wait" => pc'[u] = "wait"
        /\ pc[u] \in {"wait", "woken"} /\ pc'[u] = pc[u] => dispatched'[u] = dispatched[u]

\* A calm step leaves the signals as they are.
LEMMA CalmKeeps ==
    ASSUME SignalFits, DispatchFits, Calm
    PROVE  SignalFits'
    BY DEF SignalFits, DispatchFits, Calm

\* The steps of threads that are calm.
LEMMA ThreadsAreCalm ==
    ASSUME TurnInv, NEW t \in Tasks, TaskStep(t), ~Spurious
    PROVE  Calm \/ Dispatch(t) \/ Signal(t)
    <1> USE TaskAssumption
    <1>1. TurnTypes
        BY DEF TurnInv
    <1>2. CASE rz_core_task_yield(t) \/ SleepBegin(t) \/ JoinSleep(t) \/ task_end(t)
        <2>1. /\ pc[t] # "wait" /\ UNCHANGED <<dispatched, next>>
              /\ \E l \in {"call", "run", "asleep"} : pc' = [pc EXCEPT ![t] = l]
            BY <1>2 DEF rz_core_task_yield, SleepBegin, JoinSleep, task_end, EnterSchedule,
                Goto
        <2> QED
            BY <1>1, <2>1 DEF TurnTypes, Calm
    <1>3. CASE Schedule(t) \/ OneshotStart(t) \/ OneshotEnd(t)
        BY <1>1, <1>3 DEF Schedule, OneshotStart, OneshotEnd, Goto, TurnTypes, Calm
    <1>4. CASE PickNext(t)
        <2>1. \A u \in Tasks \ {t} : next'[u] = next[u]
            BY <1>1, <1>4 DEF PickNext, TurnTypes
        <2>2. /\ pc[t] = "section" /\ UNCHANGED dispatched
              /\ \E l \in {"asleep", "out", "post", "resume", "dispatch"} :
                    pc' = [pc EXCEPT ![t] = l]
            BY <1>4 DEF PickNext, Goto, AfterStop
        <2> QED
            BY <1>1, <2>1, <2>2 DEF TurnTypes, Calm
    <1>5. CASE AwaitDispatch(t)
        <2>1. /\ pc[t] \in {"check", "woken"} /\ UNCHANGED next
              /\ \E l \in {"wait", "cleanup", "resume"} : pc' = [pc EXCEPT ![t] = l]
              /\ \A u \in Tasks \ {t} : dispatched'[u] = dispatched[u]
            BY <1>1, <1>5 DEF AwaitDispatch, Goto, TurnTypes
        <2> QED
            BY <1>1, <2>1 DEF TurnTypes, Calm
    <1>6. CASE \/ CleanupAfterYield(t) \/ task_wakeup(t) \/ Resume(t) \/ Post(t)
               \/ rz_core_task_join(t) \/ EndSleep(t) \/ Joined(t)
        <2>1. /\ pc[t] # "wait" /\ UNCHANGED <<dispatched, next>>
              /\ \E l \in {"resume", "check", "joined", "nonstart", "run", "done",
                           "joining", "slept"} : pc' = [pc EXCEPT ![t] = l]
            BY <1>6 DEF CleanupAfterYield, task_wakeup, Resume, Post, rz_core_task_join,
                EndSleep, Joined, Goto
        <2> QED
            BY <1>1, <2>1 DEF TurnTypes, Calm
    <1> QED
        BY <1>2, <1>3, <1>4, <1>5, <1>6 DEF TaskStep, SpuriousWakeup

\* What is done from outside is calm, too.
LEMMA OthersAreCalm ==
    ASSUME TurnInv,
           \/ rz_core_task_sync_begin \/ rz_core_task_sync_end \/ Request
           \/ OneshotReturn \/ CoreFini
    PROVE  Calm
    <1> USE TaskAssumption
    <1>1. TurnTypes /\ main_task \in Tasks /\ Background \subseteq Tasks
        BY DEF TurnInv, Tasks
    <1>2. UNCHANGED <<dispatched, next>>
        BY DEF rz_core_task_sync_begin, rz_core_task_sync_end, EnterSchedule, Request,
            rz_core_task_enqueue, rz_core_task_run_sync, rz_core_task_del,
            rz_core_task_enqueue_oneshot, rz_core_task_break, rz_core_task_del_all_done,
            OneshotReturn, CoreFini, CoreFiniBreak, CoreFiniJoin, CoreFiniJoined,
            rz_core_task_scheduler_fini
    <1>3. \/ pc' = pc
          \/ \E t \in Tasks, l \in {"start", "call", "out", "fini", "fini_joining", "done"} :
                pc[t] # "wait" /\ pc' = [pc EXCEPT ![t] = l]
        <2>1. CASE rz_core_task_sync_begin \/ rz_core_task_sync_end \/ CoreFini
            BY <1>1, <2>1 DEF rz_core_task_sync_begin, rz_core_task_sync_end, EnterSchedule,
                CoreFini, CoreFiniBreak, CoreFiniJoin, CoreFiniJoined,
                rz_core_task_scheduler_fini, Goto
        <2>2. CASE Request \/ OneshotReturn
            BY <1>1, <2>2 DEF Request, rz_core_task_enqueue, rz_core_task_run_sync,
                rz_core_task_del, rz_core_task_enqueue_oneshot, rz_core_task_break,
                rz_core_task_del_all_done, OneshotReturn, Goto
        <2> QED
            BY <2>1, <2>2
    <1> QED
        BY <1>1, <1>2, <1>3 DEF TurnTypes, Calm

\* A task that has been dispatched waits for its signal until it gets it.
LEMMA SignalsFit ==
    ASSUME TurnInv, SignalFits, [Next]_vars
    PROVE  SignalFits'
    <1> USE TaskAssumption
    <1> SUFFICES ASSUME ~Spurious PROVE SignalFits'
        BY DEF SignalFits
    <1>1. TurnTypes /\ DispatchFits /\ OneTurn
        BY DEF TurnInv
    <1>2. CASE Calm
        BY <1>1, <1>2, CalmKeeps
    <1>3. CASE UNCHANGED vars
        BY <1>2, <1>3 DEF vars, Calm
    <1>4. ASSUME NEW t \in Tasks, Dispatch(t)
          PROVE  SignalFits'
        <2>1. /\ pc[t] = "dispatch" /\ pc' = [pc EXCEPT ![t] = "signal"] /\ next' = next
              /\ dispatched' = [dispatched EXCEPT ![next[t]] = TRUE]
              /\ ~Parked(next[t])
            BY <1>4 DEF Dispatch, Goto
        <2>2. next[t] \in Tasks \ {t} /\ Waiting(next[t]) /\ ~dispatched[next[t]]
            BY <1>1, <2>1 DEF DispatchFits
        <2>3. pc[next[t]] = "wait"
            BY <2>1, <2>2 DEF Waiting, SignalFits
        <2>4. \A u \in Tasks : pc[u] # "signal"
            <3> SUFFICES ASSUME NEW u \in Tasks, pc[u] = "signal" PROVE FALSE
                OBVIOUS
            <3>1. next[u] \in Tasks /\ pc[next[u]] = "wait" /\ dispatched[next[u]]
                BY <1>1 DEF DispatchFits, SignalFits
            <3>2. HasTurn(next[u]) /\ HasTurn(t)
                BY <3>1, <2>1 DEF HasTurn, Turn
            <3> QED
                BY <3>1, <3>2, <1>1, <2>1 DEF OneTurn
        <2>5. /\ pc'[t] = "signal" /\ pc'[next[t]] = "wait" /\ dispatched'[next[t]]
              /\ \A u \in Tasks \ {t} : pc'[u] = pc[u]
              /\ \A u \in Tasks : dispatched[u] => dispatched'[u]
            BY <1>1, <2>1, <2>2, <2>3 DEF TurnTypes
        <2> QED
            BY <2>1, <2>4, <2>5 DEF SignalFits
    <1>5. ASSUME NEW t \in Tasks, Signal(t)
          PROVE  SignalFits'
        <2>1. /\ pc[t] = "signal" /\ dispatched' = dispatched
              /\ pc' = [Woken(pc, next[t]) EXCEPT
                           ![t] = IF Stop(reason[t]) THEN AfterStop(t) ELSE "check"]
            BY <1>5 DEF Signal
        <2>2. /\ next[t] \in Tasks \ {t} /\ dispatched[next[t]]
              /\ \A u \in Tasks \ {t} : pc[u] # "signal"
            BY <1>1, <2>1 DEF DispatchFits, SignalFits
        <2>3. /\ pc'[t] \notin {"signal", "woken"}
              /\ \A u \in Tasks \ {t} : pc'[u] = pc[u] \/ (u = next[t] /\ pc'[u] = "woken")
            BY <1>1, <2>1, <2>2 DEF TurnTypes, Woken, AfterStop
        <2> QED
            BY <2>1, <2>2, <2>3 DEF SignalFits
    <1> QED
        BY <1>2, <1>3, <1>4, <1>5, ThreadsAreCalm, OthersAreCalm DEF Next

-----------------------------------------------------------------------------
\* The types of what does not decide about ownership.
PlainTypes ==
    /\ oneshot_queue \in Seq(Oneshots)
    /\ current_task \in Tasks \cup {Nobody}
    /\ breaked \in [Tasks -> BOOLEAN]
    /\ ran \subseteq Oneshots

\* Every step keeps them.
LEMMA PlainTypesKept ==
    ASSUME PlainTypes, TurnTypes, [Next]_vars
    PROVE  PlainTypes'
    <1> USE TaskAssumption
    <1>1. CASE UNCHANGED vars
        BY <1>1 DEF vars, sched, oneshots, flags, PlainTypes
    <1>2. ASSUME NEW t \in Tasks, TaskStep(t)
          PROVE  PlainTypes'
        <2>1. CASE rz_core_task_yield(t) \/ SleepBegin(t) \/ JoinSleep(t)
            BY <2>1 DEF rz_core_task_yield, SleepBegin, JoinSleep, EnterSchedule, PlainTypes,
                oneshots, flags
        <2>2. CASE OneshotStart(t)
            <3>1. /\ oneshot_queue # <<>> /\ oneshot_queue' = Tail(oneshot_queue)
                  /\ ran' = ran \cup {Head(oneshot_queue)}
                  /\ UNCHANGED <<current_task, breaked>>
                BY <2>2 DEF OneshotStart, flags
            <3>2. Head(oneshot_queue) \in Oneshots /\ Tail(oneshot_queue) \in Seq(Oneshots)
                BY <3>1, TailFacts DEF PlainTypes
            <3> QED
                BY <3>1, <3>2 DEF PlainTypes
        <2>3. CASE \/ task_end(t) \/ Schedule(t) \/ OneshotEnd(t) \/ PickNext(t) \/ Dispatch(t)
                   \/ Signal(t) \/ AwaitDispatch(t) \/ SpuriousWakeup(t)
                   \/ CleanupAfterYield(t) \/ task_wakeup(t)
            BY <2>3 DEF task_end, Schedule, OneshotEnd, PickNext, Dispatch, Signal,
                AwaitDispatch, SpuriousWakeup, CleanupAfterYield, task_wakeup, PlainTypes,
                oneshots, flags, sched
        <2>4. CASE \/ Resume(t) \/ Post(t) \/ rz_core_task_join(t) \/ EndSleep(t) \/ Joined(t)
            BY <2>4 DEF Resume, Post, rz_core_task_join, EndSleep, Joined, PlainTypes,
                oneshots, flags, sched
        <2> QED
            BY <1>2, <2>1, <2>2, <2>3, <2>4 DEF TaskStep
    <1>3. CASE rz_core_task_sync_begin \/ rz_core_task_sync_end \/ OneshotReturn
        BY <1>3 DEF rz_core_task_sync_begin, rz_core_task_sync_end, EnterSchedule,
            OneshotReturn, PlainTypes, oneshots, flags, sched
    <1>4. ASSUME NEW S, Break(S) PROVE breaked' \in [Tasks -> BOOLEAN]
        BY <1>4 DEF Break
    <1>5. CASE Request
        <2>1. ASSUME NEW o \in Oneshots, rz_core_task_enqueue_oneshot(o)
              PROVE  PlainTypes'
            <3>1. /\ ran' \in {ran, ran \cup {o}} /\ UNCHANGED <<current_task, breaked>>
                  /\ oneshot_queue' \in {oneshot_queue, Append(oneshot_queue, o)}
                BY <2>1 DEF rz_core_task_enqueue_oneshot, flags
            <3>2. Append(oneshot_queue, o) \in Seq(Oneshots)
                BY AppendFacts DEF PlainTypes
            <3> QED
                BY <3>1, <3>2 DEF PlainTypes
        <2>2. CASE rz_core_task_break
            <3>1. breaked' \in [Tasks -> BOOLEAN]
                BY <1>4, <2>2 DEF rz_core_task_break
            <3>2. UNCHANGED <<oneshot_queue, current_task, ran>>
                BY <2>2 DEF rz_core_task_break, oneshots, sched
            <3> QED
                BY <3>1, <3>2 DEF PlainTypes
        <2>3. ASSUME NEW t \in Background,
                     rz_core_task_enqueue(t) \/ rz_core_task_run_sync(t) \/ rz_core_task_del(t)
              PROVE  PlainTypes'
            BY <2>3 DEF rz_core_task_enqueue, rz_core_task_run_sync, rz_core_task_del,
                PlainTypes, oneshots, flags, sched
        <2>4. CASE rz_core_task_del_all_done
            BY <2>4 DEF rz_core_task_del_all_done, PlainTypes, oneshots, flags, sched
        <2> QED
            BY <1>5, <2>1, <2>2, <2>3, <2>4 DEF Request
    <1>6. CASE CoreFini
        <2>1. CASE CoreFiniBreak
            <3>1. breaked' \in [Tasks -> BOOLEAN]
                BY <1>4, <2>1 DEF CoreFiniBreak
            <3>2. UNCHANGED <<oneshot_queue, current_task, ran>>
                BY <2>1 DEF CoreFiniBreak, oneshots, sched
            <3> QED
                BY <3>1, <3>2 DEF PlainTypes
        <2>2. CASE CoreFiniJoin \/ CoreFiniJoined \/ rz_core_task_scheduler_fini
            BY <2>2 DEF CoreFiniJoin, CoreFiniJoined, rz_core_task_scheduler_fini, PlainTypes,
                oneshots, flags, sched
        <2> QED
            BY <1>6, <2>1, <2>2 DEF CoreFini
    <1> QED
        BY <1>1, <1>2, <1>3, <1>5, <1>6 DEF Next

\* The tasks of S have ended, and everybody who joins them can know.
Finished(S) == \A u \in S : u # main_task /\ pc[u] = "done" /\ u \in posted

\* A listed task that is DONE is finished once sched->lock is no longer its own.
LEMMA DoneIsFinished ==
    ASSUME TurnInv, OwnInv, NEW S \in SUBSET Range(tasks),
           \A u \in S : state[u] = "DONE" /\ u # main_task /\ lock # u
    PROVE  Finished(S)
    <1> SUFFICES ASSUME NEW u \in S PROVE pc[u] = "done" /\ u \in posted
        BY DEF Finished
    <1>1. u \in Tasks
        BY RangeFacts DEF OwnInv, OwnTypes
    <1>2. ~NeedsLock(u)
        BY <1>1 DEF TurnInv, LockFits
    <1> QED
        BY <1>1, <1>2 DEF OwnInv, Stands, Ending, NeedsLock

\* Where the threads stand when finished tasks left the list.
LEMMA StandShrunk ==
    ASSUME OwnInv, NEW S, Finished(S), Range(tasks') = Range(tasks) \ S,
           freed \subseteq freed', freed' \subseteq freed \cup S, UNCHANGED <<posted, joining>>,
           NEW u \in Tasks, Undisturbed(u)
    PROVE  Stands(u)'
    <1>1. Stands(u)
        BY DEF OwnInv
    <1> QED
        BY <1>1 DEF Stands, Undisturbed, Asleep, Ending, Finished

\* Collecting transient tasks, in the section of schedule and after a yield.
LEMMA CollectingOwns ==
    ASSUME TurnInv, OwnInv, PlainTypes', SignalFits', NEW t \in Tasks,
           Schedule(t) \/ CleanupAfterYield(t)
    PROVE  OwnInv'
    <1> USE TaskAssumption
    <1> DEFINE S == {u \in Range(tasks) \ {t} : transient[u] /\ state[u] = "DONE"}
    <1>1. TurnTypes /\ OneTurn /\ OwnTypes /\ ListsFit /\ RefsFit /\ Stands(t) /\ StateFits
        BY DEF TurnInv, OwnInv
    <1>2. /\ Unlist(S) /\ lock \in {Nobody, t}
          /\ UNCHANGED <<posted, joining, transient, next, reason>>
          /\ \/ pc[t] = "call" /\ pc'[t] = "section" /\ state'[t] = reason[t]
             \/ pc[t] = "cleanup" /\ pc'[t] = "resume" /\ state'[t] = state[t]
        BY <1>1 DEF Schedule, CleanupAfterYield, cleanup_transient, Goto, flags, TurnTypes
    <1>3. \A u \in Tasks \ {t} : Undisturbed(u) /\ pc'[u] = pc[u]
        BY <1>1 DEF Schedule, CleanupAfterYield, Goto, TurnTypes, Undisturbed
    <1>4. S \in SUBSET Range(tasks) /\ Range(tasks) \subseteq Tasks /\ main_task \in Tasks
        BY <1>1, RangeFacts DEF OwnTypes, Tasks
    <1>5. Finished(S)
        <2>1. \A u \in S : state[u] = "DONE" /\ u # main_task /\ lock # u
            BY <1>2, <1>4 DEF OwnInv, MainFits
        <2> HIDE DEF S
        <2> QED
            BY <2>1, <1>4, DoneIsFinished
    <1>6. Range(tasks') = Range(tasks) \ S /\ tasks' \in Seq(Tasks) /\ IsInjective(tasks')
        <2> HIDE DEF S
        <2> QED
            BY <1>1, <1>2, UnlistFacts
    <1>7. /\ RefsFit' /\ refcount' \in [Tasks -> Nat]
          /\ freed \subseteq freed' /\ freed' \subseteq freed \cup S
        <2>1. \A u \in S : u \in posted \/ JoinersOf(u) = {}
            BY <1>5 DEF Finished
        <2> HIDE DEF S
        <2> QED
            BY <2>1, <1>1, <1>2, <1>4, UnlistRefs
    <1>8. OwnTypes'
        BY <1>1, <1>2, <1>4, <1>6, <1>7 DEF OwnTypes, PlainTypes
    <1>9. \A u \in Tasks : Stands(u)'
        <2>1. ASSUME NEW u \in Tasks \ {t} PROVE Stands(u)'
            <3> HIDE DEF S
            <3> QED
                BY <1>2, <1>3, <1>5, <1>6, <1>7, StandShrunk
        <2>2. t \notin S /\ t \notin freed'
            BY <1>1, <1>2, <1>7 DEF Stands
        <2>3. reason[t] # "BEGIN" \/ pc[t] # "call"
            BY <1>1 DEF StateFits
        <2>4. Stands(t)'
            <3> HIDE DEF S
            <3> QED
                BY <1>1, <1>2, <1>6, <2>2, <2>3 DEF Stands, Asleep, Ending
        <2> QED
            BY <2>1, <2>4
    <1>10. MainFits'
        BY <1>2, <1>3, <1>4 DEF OwnInv, MainFits
    <1>11. ListsFit'
        BY <1>1, <1>2, <1>6 DEF ListsFit
    <1>12. FiniFits'
        <2>1. t \notin S /\ (t \in Background => t \in Range(tasks) \/
                                pc[main_task] \notin {"fini", "fini_joining"})
            BY <1>2 DEF OwnInv, FiniFits
        <2>2. pc'[main_task] \in {"fini", "fini_joining"} => pc'[main_task] = pc[main_task]
            BY <1>2, <1>3, <1>4
        <2>3. \A u \in Background : u \in Tasks
            BY DEF Tasks
        <2>4. \A u \in S : pc'[u] = "done"
            BY <1>3, <1>4, <1>5 DEF Finished
        <2> HIDE DEF S
        <2> QED
            BY <1>2, <1>3, <1>6, <2>1, <2>2, <2>3, <2>4 DEF OwnInv, FiniFits
    <1>13. Collected'
        <2>1. \A u \in Tasks : pc'[u] \in Clean => u = t
            <3>1. \A u \in Tasks : u # t /\ pc[u] \in Clean => FALSE
                BY <1>1, <1>2 DEF OneTurn, HasTurn, Turn, Clean
            <3> QED
                BY <3>1, <1>3
        <2>2. \A u \in Range(tasks') \ {t} : ~(transient'[u] /\ state'[u] = "DONE")
            <3>1. \A u \in Range(tasks) \ {t} : state'[u] = state[u]
                BY <1>3, <1>4 DEF Undisturbed
            <3> QED
                BY <3>1, <1>2, <1>6
        <2> HIDE DEF S
        <2> QED
            BY <2>1, <2>2 DEF Collected, Clean
    <1> QED
        BY <1>7, <1>8, <1>9, <1>10, <1>11, <1>12, <1>13 DEF OwnInv

\* Finished tasks leave the list while no thread moves.
LEMMA DeletingOwns ==
    ASSUME TurnInv, OwnInv, PlainTypes', SignalFits', NEW S \in SUBSET Range(tasks),
           \A u \in S : state[u] = "DONE" /\ u # main_task, lock = Nobody, Unlist(S),
           UNCHANGED <<posted, joining, transient, next, reason, pc, state>>
    PROVE  OwnInv'
    <1> USE TaskAssumption
    <1>1. OwnTypes /\ ListsFit /\ RefsFit
        BY DEF OwnInv
    <1>2. Range(tasks) \subseteq Tasks
        BY <1>1, RangeFacts DEF OwnTypes
    <1>3. Finished(S)
        <2>1. \A u \in S : lock # u
            BY <1>2 DEF Tasks
        <2> QED
            BY <2>1, DoneIsFinished
    <1>4. Range(tasks') = Range(tasks) \ S /\ tasks' \in Seq(Tasks) /\ IsInjective(tasks')
        BY <1>1, UnlistFacts
    <1>5. /\ RefsFit' /\ refcount' \in [Tasks -> Nat]
          /\ freed \subseteq freed' /\ freed' \subseteq freed \cup S
        <2>1. \A u \in S : u \in posted \/ JoinersOf(u) = {}
            BY <1>3 DEF Finished
        <2> QED
            BY <2>1, <1>1, UnlistRefs
    <1>6. OwnTypes'
        BY <1>1, <1>2, <1>4, <1>5 DEF OwnTypes, PlainTypes
    <1>7. \A u \in Tasks : Stands(u)'
        <2>1. \A u \in Tasks : Undisturbed(u)
            BY DEF Undisturbed
        <2> QED
            BY <2>1, <1>3, <1>4, <1>5, StandShrunk
    <1>8. MainFits' /\ ListsFit'
        BY <1>1, <1>4 DEF OwnInv, MainFits, ListsFit
    <1>9. FiniFits'
        BY <1>3, <1>4 DEF OwnInv, FiniFits, Finished
    <1>10. Collected'
        BY <1>4 DEF OwnInv, Collected
    <1> QED
        BY <1>5, <1>6, <1>7, <1>8, <1>9, <1>10 DEF OwnInv

\* rz_core_task_del and rz_core_task_del_all_done: a finished task leaves the
\* list, another one becomes transient.
LEMMA RequestsOwn ==
    ASSUME TurnInv, OwnInv, PlainTypes', SignalFits',
           rz_core_task_del_all_done \/ \E t \in Background : rz_core_task_del(t)
    PROVE  OwnInv'
    <1> USE TaskAssumption
    <1>1. CASE rz_core_task_del_all_done
        <2> DEFINE S == {t \in Range(tasks) \cap CmdTasks : state[t] = "DONE"}
        <2>1. /\ Unlist(S) /\ lock = Nobody
              /\ UNCHANGED <<posted, joining, transient, next, reason, pc, state>>
            BY <1>1 DEF rz_core_task_del_all_done, flags
        <2>2. S \in SUBSET Range(tasks) /\ \A u \in S : state[u] = "DONE" /\ u # main_task
            OBVIOUS
        <2> HIDE DEF S
        <2> QED
            BY <2>1, <2>2, DeletingOwns
    <1>2. ASSUME NEW t \in Background, rz_core_task_del(t)
          PROVE  OwnInv'
        <2>1. /\ lock = Nobody /\ t \in Range(tasks) \ {main_task}
              /\ UNCHANGED <<posted, joining, next, reason, pc, state>>
            BY <1>2 DEF rz_core_task_del
        <2>2. CASE state[t] = "DONE"
            <3>1. Unlist({t}) /\ transient' = transient
                BY <1>2, <2>2 DEF rz_core_task_del
            <3>2. {t} \in SUBSET Range(tasks) /\ \A u \in {t} : state[u] = "DONE" /\ u # main_task
                BY <2>1, <2>2
            <3> QED
                BY <2>1, <3>1, <3>2, DeletingOwns
        <2>3. CASE state[t] # "DONE"
            <3>1. /\ transient' = [transient EXCEPT ![t] = TRUE]
                  /\ UNCHANGED <<tasks, refcount, freed>>
                BY <1>2, <2>3 DEF rz_core_task_del, ownership
            <3>2. t \in Tasks /\ OwnTypes /\ Range(tasks) \subseteq Tasks /\ main_task \in Tasks
                BY RangeFacts DEF OwnInv, OwnTypes, Tasks
            <3>3. /\ transient' \in [Tasks -> BOOLEAN]
                  /\ \A u \in Tasks \ {t} : transient'[u] = transient[u]
                BY <3>1, <3>2 DEF OwnTypes
            <3>4. OwnTypes'
                BY <2>1, <3>1, <3>2, <3>3 DEF OwnTypes, PlainTypes
            <3>5. (\A u \in Tasks : Stands(u))'
                BY <2>1, <3>1 DEF OwnInv, Stands
            <3>6. MainFits'
                BY <2>1, <3>2, <3>3 DEF OwnInv, MainFits
            <3>7. ListsFit' /\ FiniFits' /\ RefsFit'
                BY <2>1, <3>1 DEF OwnInv, ListsFit, FiniFits, RefsFit, JoinersOf, Listed
            <3>8. Collected'
                BY <2>1, <2>3, <3>1, <3>2, <3>3 DEF OwnInv, Collected
            <3> QED
                BY <3>4, <3>5, <3>6, <3>7, <3>8 DEF OwnInv
        <2> QED
            BY <2>2, <2>3
    <1> QED
        BY <1>1, <1>2

\* The end of a task is posted.
LEMMA PostOwns ==
    ASSUME TurnInv, OwnInv, PlainTypes', SignalFits', NEW t \in Tasks, Post(t)
    PROVE  OwnInv'
    <1> USE TaskAssumption
    <1>1. TurnTypes /\ Stands(t) /\ OwnTypes /\ main_task \in Tasks
        BY DEF TurnInv, OwnInv, Tasks
    <1>2. /\ pc[t] = "post" /\ posted' = posted \cup ({t} \cap Range(tasks))
          /\ UNCHANGED <<tasks, refcount, freed, joining, transient, state, reason, next>>
        BY DEF Post, ownership
    <1>3. pc'[t] = "done" /\ \A u \in Tasks \ {t} : pc'[u] = pc[u]
        BY <1>1 DEF Post, Goto, TurnTypes
    <1>4. t # main_task
        BY <1>2 DEF OwnInv, MainFits
    <1>5. OwnTypes'
        BY <1>1, <1>2 DEF OwnTypes, PlainTypes
    <1>6. \A u \in Tasks : Stands(u)'
        <2>1. Stands(t)'
            BY <1>1, <1>2, <1>3 DEF Stands, Asleep, Ending
        <2>2. ASSUME NEW u \in Tasks \ {t} PROVE Stands(u)'
            <3>1. Stands(u) /\ pc'[u] = pc[u] /\ (u \in posted' <=> u \in posted)
                BY <1>2, <1>3 DEF OwnInv
            <3> QED
                BY <1>2, <3>1 DEF Stands
        <2> QED
            BY <2>1, <2>2
    <1>7. MainFits'
        BY <1>1, <1>2, <1>3, <1>4 DEF OwnInv, MainFits
    <1>8. ListsFit'
        BY <1>2 DEF OwnInv, ListsFit
    <1>9. FiniFits'
        <2>1. pc'[main_task] = pc[main_task]
            BY <1>1, <1>3, <1>4
        <2>2. \A u \in Background : pc[u] \in {"unborn", "done"} => pc'[u] \in {"unborn", "done"}
            BY <1>3 DEF Tasks
        <2> QED
            BY <2>1, <2>2, <1>2 DEF OwnInv, FiniFits
    <1>10. Collected'
        BY <1>2, <1>3 DEF OwnInv, Collected
    <1>11. RefsFit'
        <2>1. \A u : Listed(u)' = Listed(u) /\ JoinersOf(u)' = JoinersOf(u)
            BY <1>2 DEF Listed, JoinersOf
        <2> QED
            BY <2>1, <1>2 DEF OwnInv, RefsFit
    <1> QED
        BY <1>5, <1>6, <1>7, <1>8, <1>9, <1>10, <1>11 DEF OwnInv

\* A task is listed and its thread is started.
LEMMA EnqueueOwns ==
    ASSUME TurnInv, OwnInv, PlainTypes', SignalFits', NEW t \in Background,
           rz_core_task_enqueue(t)
    PROVE  OwnInv'
    <1> USE TaskAssumption
    <1>1. /\ TurnTypes /\ Stands(t) /\ OwnTypes /\ main_task \in Tasks /\ t \in Tasks
          /\ t # main_task /\ ListsFit
        BY DEF TurnInv, OwnInv, Tasks
    <1>2. /\ pc[t] = "unborn" /\ tasks' = Append(tasks, t)
          /\ pc[main_task] \notin {"fini", "fini_joining", "done"}
          /\ UNCHANGED <<refcount, freed, posted, joining, transient, state, reason, next>>
        BY DEF rz_core_task_enqueue, flags
    <1>3. pc'[t] = "start" /\ \A u \in Tasks \ {t} : pc'[u] = pc[u]
        BY <1>1 DEF rz_core_task_enqueue, Goto, TurnTypes
    <1>4. t \notin Range(tasks) /\ t \notin posted \cup freed /\ state[t] # "DONE"
        BY <1>1, <1>2 DEF Stands, Ending
    <1>5. /\ tasks' \in Seq(Tasks) /\ IsInjective(tasks')
          /\ Range(tasks') = Range(tasks) \cup {t}
        BY <1>1, <1>2, <1>4, AppendFacts, AppendDistinct DEF OwnTypes, ListsFit
    <1>6. OwnTypes'
        BY <1>1, <1>2, <1>5 DEF OwnTypes, PlainTypes
    <1>7. \A u \in Tasks : Stands(u)'
        <2>1. Stands(t)'
            BY <1>1, <1>2, <1>3, <1>4 DEF Stands, Asleep, Ending
        <2>2. ASSUME NEW u \in Tasks \ {t} PROVE Stands(u)'
            <3>1. Stands(u) /\ pc'[u] = pc[u] /\ (u \in Range(tasks') <=> u \in Range(tasks))
                BY <1>3, <1>5 DEF OwnInv
            <3> QED
                BY <1>2, <3>1 DEF Stands
        <2> QED
            BY <2>1, <2>2
    <1>8. MainFits' /\ ListsFit'
        BY <1>1, <1>2, <1>3, <1>5 DEF OwnInv, MainFits, ListsFit
    <1>9. FiniFits'
        BY <1>1, <1>2, <1>3 DEF FiniFits
    <1>10. Collected'
        BY <1>2, <1>3, <1>4, <1>5 DEF OwnInv, Collected
    <1>11. RefsFit'
        <2>1. \A u : Listed(u)' = Listed(u) /\ JoinersOf(u)' = JoinersOf(u)
            BY <1>2, <1>4, <1>5 DEF Listed, JoinersOf
        <2> QED
            BY <2>1, <1>2, <1>4, <1>5 DEF OwnInv, RefsFit
    <1> QED
        BY <1>6, <1>7, <1>8, <1>9, <1>10, <1>11 DEF OwnInv

\* A task takes references to the tasks it will join, and so does the core when
\* it shuts down.
LEMMA JoiningOwns ==
    ASSUME TurnInv, OwnInv, PlainTypes', SignalFits', NEW t \in Tasks,
           rz_core_task_join(t) \/ (t = main_task /\ CoreFiniJoin)
    PROVE  OwnInv'
    <1> USE TaskAssumption
    <1>1. /\ TurnTypes /\ Stands(t) /\ OwnTypes /\ main_task \in Tasks
          /\ ListsFit /\ RefsFit
        BY DEF TurnInv, OwnInv, Tasks
    <1>2. PICK list \in Seq(Tasks) :
             /\ IsInjective(list) /\ Range(list) \subseteq Range(tasks)
             /\ joining' = [joining EXCEPT ![t] = list] /\ TakeRefs(Range(list))
             /\ \/ pc[t] = "run" /\ pc'[t] = "joining" /\ list # <<>>
                \/ /\ pc[t] = "fini" /\ pc'[t] = "fini_joining" /\ list = tasks
                   /\ t = main_task
        <2>1. CASE rz_core_task_join(t)
            <3>1. PICK list \in JoinLists(t) :
                     joining' = [joining EXCEPT ![t] = list] /\ TakeRefs(Range(list))
                BY <2>1 DEF rz_core_task_join
            <3>2. /\ list \in Seq(Tasks) /\ list # <<>> /\ IsInjective(list)
                  /\ Range(list) \subseteq Range(tasks)
                BY <1>1, JoinListFacts
            <3>3. pc[t] = "run" /\ pc'[t] = "joining"
                BY <1>1, <2>1 DEF rz_core_task_join, Goto, TurnTypes
            <3> QED
                BY <3>1, <3>2, <3>3
        <2>2. CASE t = main_task /\ CoreFiniJoin
            <3>1. /\ joining' = [joining EXCEPT ![t] = tasks] /\ TakeRefs(Range(tasks))
                  /\ pc[t] = "fini" /\ pc'[t] = "fini_joining"
                BY <1>1, <2>2 DEF CoreFiniJoin, Goto, TurnTypes
            <3>2. tasks \in Seq(Tasks) /\ IsInjective(tasks)
                BY <1>1 DEF OwnTypes, ListsFit
            <3> QED
                BY <2>2, <3>1, <3>2
        <2> QED
            BY <2>1, <2>2
    <1>3. /\ UNCHANGED <<tasks, freed, posted, transient, state, reason, next>>
          /\ \A u \in Tasks \ {t} : pc'[u] = pc[u]
        BY <1>1 DEF rz_core_task_join, CoreFiniJoin, Goto, TurnTypes, flags
    <1>4. joining[t] = <<>>
        BY <1>1, <1>2 DEF Stands, Asleep
    <1>5. RefsFit' /\ refcount' \in [Tasks -> Nat]
        BY <1>1, <1>2, <1>3, <1>4, TakenRefs
    <1>6. /\ joining' \in [Tasks -> Seq(Tasks)] /\ joining'[t] = list
          /\ \A u \in Tasks \ {t} : joining'[u] = joining[u]
        BY <1>1, <1>2 DEF OwnTypes
    <1>7. OwnTypes'
        BY <1>1, <1>3, <1>5, <1>6 DEF OwnTypes, PlainTypes
    <1>8. \A u \in Tasks : Stands(u)'
        <2>1. Stands(t)'
            BY <1>1, <1>2, <1>3, <1>6 DEF Stands, Asleep, Ending
        <2>2. ASSUME NEW u \in Tasks \ {t} PROVE Stands(u)'
            <3>1. Stands(u) /\ pc'[u] = pc[u] /\ joining'[u] = joining[u]
                BY <1>3, <1>6 DEF OwnInv
            <3> QED
                BY <1>3, <3>1 DEF Stands
        <2> QED
            BY <2>1, <2>2
    <1>9. MainFits' /\ ListsFit'
        BY <1>1, <1>2, <1>3, <1>6 DEF OwnInv, MainFits, ListsFit
    <1>10. FiniFits'
        <2>1. CASE t = main_task /\ pc[t] = "fini"
            <3>1. \A u \in Background : u \in Tasks \ {t}
                BY <2>1 DEF Tasks
            <3> QED
                BY <2>1, <3>1, <1>2, <1>3, <1>6 DEF OwnInv, FiniFits
        <2>2. CASE pc[t] = "run"
            <3>1. pc'[main_task] \in {"fini", "fini_joining"} =>
                     pc'[main_task] = pc[main_task] /\ t # main_task
                BY <2>2, <1>1, <1>2, <1>3
            <3>2. \A u \in Background : u \in Tasks
                BY DEF Tasks
            <3>3. \A u \in Background : pc[u] \in {"unborn", "done"} => pc'[u] = pc[u]
                BY <2>2, <3>2, <1>3
            <3>4. pc'[main_task] = "fini_joining" => joining'[main_task] = joining[main_task]
                BY <3>1, <1>1, <1>6
            <3> QED
                BY <3>1, <3>3, <3>4, <1>3 DEF OwnInv, FiniFits
        <2> QED
            BY <2>1, <2>2, <1>2
    <1>11. Collected'
        BY <1>2, <1>3 DEF OwnInv, Collected
    <1> QED
        BY <1>5, <1>7, <1>8, <1>9, <1>10, <1>11 DEF OwnInv

\* A joiner gives the first of its references back.
LEMMA JoinedOwns ==
    ASSUME TurnInv, OwnInv, PlainTypes', SignalFits', NEW t \in Tasks,
           Joined(t) \/ (t = main_task /\ CoreFiniJoined)
    PROVE  OwnInv'
    <1> USE TaskAssumption
    <1>1. /\ TurnTypes /\ Stands(t) /\ OwnTypes /\ main_task \in Tasks
          /\ ListsFit /\ RefsFit
        BY DEF TurnInv, OwnInv, Tasks
    <1>2. /\ Decref({Head(joining[t])})
          /\ joining' = [joining EXCEPT ![t] = Tail(@)]
          /\ UNCHANGED <<tasks, posted, transient, state, reason, next>>
          /\ \A u \in Tasks \ {t} : pc'[u] = pc[u]
          /\ joining[t] # <<>>
        BY <1>1 DEF Joined, CoreFiniJoined, Goto, TurnTypes, Stands, flags
    <1>3. \/ /\ pc[t] = "joined"
             /\ pc'[t] = IF Tail(joining[t]) = <<>> THEN "run" ELSE "joining"
          \/ /\ t = main_task /\ pc[t] = "fini_joining" /\ pc'[t] = pc[t]
             /\ Joinable(Head(joining[t]))
        BY <1>1 DEF Joined, CoreFiniJoined, Goto, TurnTypes
    <1>4. /\ RefsFit' /\ refcount' \in [Tasks -> Nat]
          /\ freed \subseteq freed' /\ freed' \subseteq freed \cup posted
          /\ freed' \subseteq Tasks
        BY <1>1, <1>2, DroppedRef
    <1>5. /\ joining[t] \in Seq(Tasks) /\ IsInjective(joining[t])
          /\ Tail(joining[t]) \in Seq(Tasks) /\ IsInjective(Tail(joining[t]))
          /\ Range(Tail(joining[t])) = Range(joining[t]) \ {Head(joining[t])}
        BY <1>1, <1>2, TailFacts, TailDistinct DEF OwnTypes, ListsFit
    <1>6. /\ joining' \in [Tasks -> Seq(Tasks)] /\ joining'[t] = Tail(joining[t])
          /\ \A u \in Tasks \ {t} : joining'[u] = joining[u]
        BY <1>1, <1>2, <1>5 DEF OwnTypes
    <1>7. OwnTypes'
        BY <1>1, <1>2, <1>4, <1>6 DEF OwnTypes, PlainTypes
    <1>8. \A u \in Tasks : Stands(u)'
        <2>1. t \notin posted \cup freed
            BY <1>1, <1>3 DEF Stands
        <2>2. t \notin freed'
            BY <2>1, <1>4
        <2>3. Stands(t)'
            BY <1>1, <1>2, <1>3, <1>6, <2>1, <2>2 DEF Stands, Asleep, Ending
        <2>4. ASSUME NEW u \in Tasks \ {t} PROVE Stands(u)'
            <3>1. Stands(u) /\ pc'[u] = pc[u] /\ joining'[u] = joining[u]
                BY <1>2, <1>6 DEF OwnInv
            <3>2. u \in freed' => u \in freed \/ u \in posted
                BY <1>4
            <3> QED
                BY <1>2, <3>1, <3>2 DEF Stands
        <2> QED
            BY <2>3, <2>4
    <1>9. MainFits' /\ ListsFit'
        BY <1>1, <1>2, <1>3, <1>5, <1>6 DEF OwnInv, MainFits, ListsFit
    <1>10. FiniFits'
        <2>1. CASE t = main_task /\ pc[t] = "fini_joining"
            <3>1. \A u \in Background : u \in Tasks \ {t}
                BY <2>1 DEF Tasks
            <3>2. Head(joining[t]) = main_task \/ Head(joining[t]) \in posted
                BY <2>1, <1>3 DEF Joinable
            <3> QED
                BY <2>1, <3>1, <3>2, <1>2, <1>3, <1>5, <1>6 DEF OwnInv, FiniFits
        <2>2. CASE pc[t] = "joined"
            <3>1. pc'[main_task] \in {"fini", "fini_joining"} =>
                     pc'[main_task] = pc[main_task] /\ t # main_task
                BY <2>2, <1>1, <1>2, <1>3
            <3>2. \A u \in Background : u \in Tasks
                BY DEF Tasks
            <3>3. \A u \in Background : pc[u] \in {"unborn", "done"} => pc'[u] = pc[u]
                BY <2>2, <3>2, <1>2
            <3>4. pc'[main_task] = "fini_joining" => joining'[main_task] = joining[main_task]
                BY <3>1, <1>1, <1>6
            <3> QED
                BY <3>1, <3>3, <3>4, <1>2 DEF OwnInv, FiniFits
        <2> QED
            BY <2>1, <2>2, <1>3
    <1>11. Collected'
        <2>1. pc[t] = "joined" => reason[t] = "SLEEPING"
            BY <1>1, <1>2 DEF Stands
        <2> QED
            BY <2>1, <1>2, <1>3 DEF OwnInv, Collected
    <1> QED
        BY <1>4, <1>7, <1>8, <1>9, <1>10, <1>11 DEF OwnInv

\* The shutdown: everything is joined, so that the list can be given up.
LEMMA FiniOwns ==
    ASSUME TurnInv, OwnInv, PlainTypes', SignalFits', rz_core_task_scheduler_fini
    PROVE  OwnInv'
    <1> USE TaskAssumption
    <1> DEFINE S == Range(tasks)
    <1>1. /\ TurnTypes /\ OwnTypes /\ main_task \in Tasks /\ ListsFit /\ RefsFit
          /\ \A u \in Background : u \in Tasks
        BY DEF TurnInv, OwnInv, Tasks
    <1>2. /\ pc[main_task] = "fini_joining" /\ joining[main_task] = <<>> /\ Unlist(S)
          /\ UNCHANGED <<posted, joining, transient, state, reason, next>>
        BY DEF rz_core_task_scheduler_fini, flags
    <1>3. pc'[main_task] = "done" /\ \A u \in Tasks \ {main_task} : pc'[u] = pc[u]
        BY <1>1 DEF rz_core_task_scheduler_fini, Goto, TurnTypes
    <1>4. Range(joining[main_task]) = {} /\ S \subseteq Tasks
        BY <1>1, <1>2, RangeFacts DEF Range, OwnTypes
    <1>5. \A u \in S \ {main_task} : u \in posted /\ pc[u] = "done"
        BY <1>2, <1>4 DEF OwnInv, FiniFits, Stands
    <1>6. \A u \in Background : pc[u] \in {"unborn", "done"}
        BY <1>1, <1>2, <1>5 DEF OwnInv, FiniFits
    <1>7. \A u \in Tasks : joining[u] = <<>>
        BY <1>2, <1>6 DEF OwnInv, Stands, Asleep, Tasks
    <1>8. \A u : JoinersOf(u) = {}
        BY <1>7 DEF JoinersOf, Range
    <1>9. /\ tasks' \in Seq(Tasks) /\ IsInjective(tasks') /\ Range(tasks') = {}
        <2>1. /\ tasks' \in Seq(Tasks) /\ IsInjective(tasks') /\ Range(tasks') = Range(tasks) \ S
            BY <1>1, <1>2, UnlistFacts
        <2> QED
            BY <2>1
    <1>10. /\ RefsFit' /\ refcount' \in [Tasks -> Nat]
           /\ freed \subseteq freed' /\ freed' \subseteq freed \cup S
        <2>1. S \in SUBSET Range(tasks)
            OBVIOUS
        <2> HIDE DEF S
        <2> QED
            BY <2>1, <1>1, <1>2, <1>8, UnlistRefs
    <1>11. OwnTypes'
        BY <1>1, <1>2, <1>4, <1>9, <1>10 DEF OwnTypes, PlainTypes
    <1>12. \A u \in Tasks : Stands(u)'
        <2>1. ASSUME NEW u \in Tasks PROVE Stands(u)'
            <3>1. u \in posted' \cup freed' => pc'[u] = "done"
                BY <1>2, <1>3, <1>5, <1>10 DEF OwnInv, Stands
            <3>2. Stands(u) /\ joining'[u] = <<>>
                BY <1>2, <1>7 DEF OwnInv
            <3> QED
                BY <3>1, <3>2, <1>2, <1>3, <1>9 DEF Stands, Ending
        <2> QED
            BY <2>1
    <1>13. MainFits' /\ ListsFit' /\ FiniFits'
        BY <1>1, <1>2, <1>3, <1>9 DEF OwnInv, MainFits, ListsFit, FiniFits
    <1>14. Collected'
        BY <1>9 DEF Collected
    <1> QED
        BY <1>10, <1>11, <1>12, <1>13, <1>14 DEF OwnInv

\* The core begins to shut down.
LEMMA FiniBreakOwns ==
    ASSUME TurnInv, OwnInv, PlainTypes', SignalFits', CoreFiniBreak
    PROVE  OwnInv'
    <1> USE TaskAssumption
    <1>1. TurnTypes /\ OwnTypes /\ main_task \in Tasks /\ Stands(main_task)
        BY DEF TurnInv, OwnInv, Tasks
    <1>2. /\ pc[main_task] = "out" /\ UNCHANGED owned /\ UNCHANGED <<state, reason, next>>
          /\ \A t \in Background : pc[t] \in {"unborn", "done"} \/ t \in Range(tasks)
        BY DEF CoreFiniBreak, owned, ownership
    <1>3. pc'[main_task] = "fini" /\ \A u \in Tasks \ {main_task} : pc'[u] = pc[u]
        BY <1>1 DEF CoreFiniBreak, Goto, TurnTypes
    <1>4. OwnTypes'
        BY <1>1, <1>2 DEF OwnTypes, PlainTypes, owned
    <1>5. \A u \in Tasks : Stands(u)'
        <2>1. Stands(main_task)'
            BY <1>1, <1>2, <1>3 DEF Stands, owned, Asleep, Ending
        <2>2. \A u \in Tasks \ {main_task} : Undisturbed(u) /\ Stands(u)
            BY <1>2, <1>3 DEF Undisturbed, OwnInv
        <2> QED
            BY <2>1, <2>2, <1>2, OthersStand
    <1>6. MainFits' /\ ListsFit' /\ RefsFit'
        BY <1>2, <1>3 DEF OwnInv, MainFits, ListsFit, RefsFit, owned, JoinersOf, Listed
    <1>7. FiniFits'
        BY <1>2, <1>3 DEF FiniFits, owned, Tasks
    <1>8. Collected'
        BY <1>2, <1>3 DEF OwnInv, Collected, owned
    <1> QED
        BY <1>4, <1>5, <1>6, <1>7, <1>8 DEF OwnInv

\* Nobody moves and nothing of ownership changes.
LEMMA OwnQuiet ==
    ASSUME OwnInv, PlainTypes', SignalFits', UNCHANGED owned,
           UNCHANGED <<pc, state, reason, next>>
    PROVE  OwnInv'
    <1>1. OwnTypes'
        BY DEF OwnInv, OwnTypes, PlainTypes, owned
    <1>2. (\A u \in Tasks : Stands(u))'
        BY DEF OwnInv, Stands, owned
    <1>3. MainFits' /\ ListsFit' /\ FiniFits' /\ RefsFit' /\ Collected'
        BY DEF OwnInv, MainFits, ListsFit, FiniFits, RefsFit, Collected, JoinersOf, Listed, owned
    <1> QED
        BY <1>1, <1>2, <1>3 DEF OwnInv

\* Every step keeps the references exact.
LEMMA NextOwn ==
    ASSUME TurnInv, OwnInv, [Next]_vars
    PROVE  OwnInv'
    <1> USE TaskAssumption
    <1>1. PlainTypes'
        BY PlainTypesKept DEF TurnInv, OwnInv, OwnTypes, PlainTypes
    <1>2. SignalFits'
        BY SignalsFit DEF OwnInv
    <1>3. ASSUME NEW t \in Tasks, Walk(t) PROVE OwnInv'
        <2>1. OwnTypes'
            BY <1>1, <1>3 DEF Walk, OwnInv, OwnTypes, PlainTypes, owned
        <2> QED
            BY <2>1, <1>2, <1>3, WalkKeeps
    <1>4. main_task \in Tasks /\ \A t \in Background : t \in Tasks
        BY DEF Tasks
    <1>5. CASE UNCHANGED vars
        BY <1>1, <1>2, <1>5, OwnQuiet DEF vars, owned, ownership, flags
    <1>6. ASSUME NEW t \in Tasks, TaskStep(t)
          PROVE  OwnInv'
        <2>1. CASE rz_core_task_yield(t)
            BY <2>1, <1>3, EnterWalks DEF rz_core_task_yield
        <2>2. CASE SleepBegin(t)
            BY <2>2, <1>3, EnterWalks DEF SleepBegin
        <2>3. CASE JoinSleep(t)
            BY <2>3, <1>3, EnterWalks DEF JoinSleep
        <2> QED
            BY <2>1, <2>2, <2>3, <1>1, <1>2, <1>3, <1>6, ThreadWalks, HandOverWalks,
                CollectingOwns, PostOwns, JoiningOwns, JoinedOwns DEF TaskStep
    <1>7. CASE rz_core_task_sync_begin
        BY <1>3, <1>4, <1>7, StartWalks
    <1>8. CASE rz_core_task_sync_end
        BY <1>3, <1>4, <1>8, EnterWalks DEF rz_core_task_sync_end
    <1>9. CASE Request
        <2>1. ASSUME NEW t \in Background, rz_core_task_enqueue(t) PROVE OwnInv'
            BY <2>1, <1>1, <1>2, EnqueueOwns
        <2>2. ASSUME NEW t \in Background, rz_core_task_run_sync(t) PROVE OwnInv'
            BY <2>2, <1>3, <1>4, StartWalks
        <2>3. ASSUME NEW t \in Background, rz_core_task_del(t) PROVE OwnInv'
            BY <2>3, <1>1, <1>2, RequestsOwn
        <2>4. ASSUME NEW o \in Oneshots, rz_core_task_enqueue_oneshot(o) PROVE OwnInv'
            BY <2>4, <1>1, <1>2, OwnQuiet DEF rz_core_task_enqueue_oneshot, owned, ownership,
                flags
        <2>5. CASE rz_core_task_break
            BY <2>5, <1>1, <1>2, OwnQuiet DEF rz_core_task_break, owned, ownership
        <2>6. CASE rz_core_task_del_all_done
            BY <2>6, <1>1, <1>2, RequestsOwn
        <2> QED
            BY <1>9, <2>1, <2>2, <2>3, <2>4, <2>5, <2>6 DEF Request
    <1>10. CASE OneshotReturn
        BY <1>10, <1>1, <1>2, OwnQuiet DEF OneshotReturn, owned, ownership, flags
    <1>11. CASE CoreFini
        BY <1>11, <1>1, <1>2, <1>4, FiniBreakOwns, JoiningOwns, JoinedOwns, FiniOwns DEF CoreFini
    <1> QED
        BY <1>5, <1>6, <1>7, <1>8, <1>9, <1>10, <1>11 DEF Next

\* They are exact when the scheduler is set up.
LEMMA InitOwn == Init => OwnInv
    <1> USE TaskAssumption
    <1> SUFFICES ASSUME Init PROVE OwnInv
        OBVIOUS
    <1>1. tasks = <<main_task>> /\ main_task \in Tasks
        BY DEF Init, Tasks
    <1>2. /\ tasks \in Seq(Tasks) /\ IsInjective(tasks) /\ Range(tasks) = {main_task}
        BY <1>1 DEF IsInjective, Range
    <1>3. \A t \in Tasks : joining[t] = <<>> /\ Range(joining[t]) = {} /\ IsInjective(joining[t])
        BY DEF Init, Range, IsInjective
    <1>4. transient \in [Tasks -> BOOLEAN] /\ ~transient[main_task]
        <2>1. PICK S \in SUBSET Transients : transient = [t \in Tasks |-> t \in S]
            BY DEF Init
        <2>2. transient \in [Tasks -> BOOLEAN]
            BY <2>1
        <2>3. main_task \notin S
            OBVIOUS
        <2>4. ~transient[main_task]
            BY <1>1, <2>1, <2>3
        <2> QED
            BY <2>2, <2>4
    <1>5. OwnTypes
        BY <1>2, <1>4 DEF Init, OwnTypes
    <1>6. \A t \in Tasks : Stands(t)
        BY <1>2 DEF Init, Stands
    <1>7. MainFits /\ ListsFit
        BY <1>1, <1>2, <1>3, <1>4 DEF Init, MainFits, ListsFit
    <1>8. FiniFits /\ SignalFits /\ Collected
        BY <1>1 DEF Init, FiniFits, SignalFits, Collected
    <1>9. RefsFit
        <2>1. \A t \in Tasks : JoinersOf(t) = {} /\ Listed(t) = 1
            BY <1>3 DEF JoinersOf, Listed, Init
        <2>2. freed = {} /\ \A t \in Tasks : refcount[t] = 1
            BY DEF Init
        <2>3. \A t \in Tasks : Cardinality(JoinersOf(t)) = 0
            BY <2>1, FS_EmptySet
        <2> QED
            BY <2>1, <2>2, <2>3 DEF RefsFit
    <1> QED
        BY <1>5, <1>6, <1>7, <1>8, <1>9 DEF OwnInv

\* The invariant of the references holds in every reachable state.
LEMMA OwnInvariant == Spec => []OwnInv
    BY InitOwn, NextOwn, TurnInvariant, PTL DEF Spec

\* For any number of tasks, joiners and deletions: the references of tasks are
\* exact, a task is freed by its last one, after its thread has ended, while
\* nothing refers to it any more, and no finished transient task survives the
\* next yield.
THEOREM ReferencesAreExact == Spec => []TasksAreOwned
    <1> USE TaskAssumption
    <1>1. TurnInv /\ OwnInv => TasksAreOwned
        <2> SUFFICES ASSUME TurnInv, OwnInv PROVE TasksAreOwned
            OBVIOUS
        <2>1. TransientsCollected
            BY DEF OwnInv, Collected, TransientsCollected
        <2>2. \A t \in Tasks \ freed :
                 refcount[t] = Cardinality({u \in Tasks : t \in Range(joining[u])})
                        + (IF t \in Range(tasks) \/ t \notin posted THEN 1 ELSE 0)
            BY DEF OwnInv, RefsFit, JoinersOf, Listed
        <2>3. ASSUME NEW t \in freed
              PROVE  /\ pc[t] = "done"
                     /\ t \notin Range(tasks) \cup Range(tasks_queue)
                     /\ \A u \in Tasks : t \notin Range(joining[u])
                     /\ \A u \in Tasks : next[u] = t => Spurious /\ pc[u] = "signal"
            <3>1. t \in Tasks
                BY DEF OwnInv, OwnTypes
            <3>2. pc[t] = "done"
                BY <3>1 DEF OwnInv, Stands
            <3>3. t \notin Range(tasks_queue)
                BY <3>1, <3>2 DEF TurnInv, QueueIsWaiting, Waiting, Parked
            <3>4. t \notin Range(tasks) /\ \A u \in Tasks : t \notin Range(joining[u])
                BY DEF OwnInv, RefsFit, JoinersOf
            <3>5. ASSUME NEW u \in Tasks, next[u] = t PROVE Spurious /\ pc[u] = "signal"
                <4>1. pc[u] \in {"dispatch", "signal"}
                    BY <3>1, <3>5 DEF OwnInv, Stands
                <4>2. pc[u] # "dispatch"
                    BY <3>1, <3>2, <3>5 DEF TurnInv, DispatchFits, Waiting, Parked
                <4> QED
                    BY <4>1, <4>2, <3>2, <3>5 DEF OwnInv, SignalFits
            <3> QED
                BY <3>2, <3>3, <3>4, <3>5
        <2> QED
            BY <2>1, <2>2, <2>3 DEF TasksAreOwned, NoUseAfterFree
    <1> QED
        BY <1>1, TurnInvariant, OwnInvariant, PTL

\* Every field of the scheduler and of its tasks keeps its type, for any number
\* of tasks and oneshots; no reference count becomes negative.
THEOREM SchedulerTypeCorrect == Spec => []TypeOK
    <1>1. TurnInv /\ OwnInv => TypeOK
        BY RunningFinite DEF TurnInv, OwnInv, TurnTypes, OwnTypes, TypeOK
    <1> QED
        BY <1>1, TurnInvariant, OwnInvariant, PTL
=============================================================================
