------------------------------ MODULE BaseFind ------------------------------
(***************************************************************************)
(* The search for base addresses of librz/core/basefind.c.  The range is   *)
(* cut into one sector per thread; each thread scores the bases of its     *)
(* sector and adds the good ones to a shared list.  A further thread shows *)
(* the progress, and its callback may stop the search.                     *)
(***************************************************************************)
EXTENDS Integers, Sequences, FiniteSets

CONSTANTS
    PoolSize,     \* search threads
    MaxBase,      \* UT64_MAX
    StartAddress, EndAddress,   \* options->start_address, options->end_address
    Alignment,    \* options->alignment
    MinScore,     \* options->min_score
    Score         \* what the strings and pointers give each base

W == MaxBase + 1

BaseFindAssumption ==
    /\ PoolSize \in Nat \ {0} /\ MaxBase \in Nat
    /\ StartAddress < EndAddress /\ {StartAddress, EndAddress} \subseteq 0 .. MaxBase
    /\ Alignment \in 1 .. MaxBase /\ MinScore \in Nat \ {0}
    /\ Score \in [0 .. MaxBase -> Nat]

Threads == 1 .. PoolSize

VARIABLES
    main,     \* "create", "ui", "wait", "wait_ui", "freed"
    slot,     \* the thread it creates or waits for
    failed,   \* a thread could not be created
    lost,     \* a candidate could not be stored
    pc,       \* of each search thread
    base,     \* bftd->current
    loop,     \* bftd->loop
    found,    \* the score a thread is about to add
    copy,     \* the list as the thread that appends to it has read it
    scores,   \* the list of candidates
    lock,     \* its lock, 0 when free
    ui,       \* the thread of the callback
    extra     \* candidates added by a thread after it was told to stop

vars == <<main, slot, failed, lost, pc, base, loop, found, copy, scores, lock, ui, extra>>

\* sector_size, in 64 bits.
Sector == (((EndAddress - StartAddress) + PoolSize - 1) % W) \div PoolSize

\* bftd->base_start and bftd->base_end.
SectorStart(t) == (StartAddress + (Sector * (t - 1))) % W
SectorEnd(t) == (SectorStart(t) + Sector) % W

\* No sum above wraps around, and neither does the step over the end of the last sector.
\* Nothing checks it: with an EndAddress near UT64_MAX a sector may be empty.
Fits ==
    /\ (EndAddress - StartAddress) + PoolSize - 1 < W
    /\ StartAddress + Sector * PoolSize + Alignment <= W

Init ==
    /\ main = "create" /\ slot = 1 /\ failed = FALSE /\ lost = FALSE
    /\ pc = [t \in Threads |-> "none"] /\ base = [t \in Threads |-> 0]
    /\ loop = [t \in Threads |-> TRUE] /\ found = [t \in Threads |-> 0]
    /\ copy = [t \in Threads |-> <<>>] /\ scores = <<>> /\ lock = 0
    /\ ui = "none" /\ extra = [t \in Threads |-> 0]
-----------------------------------------------------------------------------
(* A search thread: basefind_thread_runner.                                *)

Goto(t, label) == pc' = [pc EXCEPT ![t] = label]
Shared == UNCHANGED <<main, slot, failed, loop, ui>>

\* The next base, in 64 bits.
Advance(t) == base' = [base EXCEPT ![t] = (@ + Alignment) % W]

\* The head of the loop.
Step(t) ==
    /\ pc[t] = "step"
    /\ Goto(t, IF base[t] < SectorEnd(t) /\ loop[t] THEN "score" ELSE "done")
    /\ Shared /\ UNCHANGED <<lost, base, found, copy, scores, lock, extra>>

\* Walking the pointers gives the score; a walk that is stopped gives a part of it.
\* A thread that has no memory for the pair gives up.
ScoreBase(t) ==
    /\ pc[t] = "score"
    /\ \E s \in 0 .. Score[base[t]] :
         /\ loop[t] => s = Score[base[t]]
         /\ \/ /\ s < MinScore
               /\ Advance(t) /\ Goto(t, "step") /\ UNCHANGED <<found, lost>>
            \/ /\ s >= MinScore
               /\ found' = [found EXCEPT ![t] = s]
               /\ Goto(t, "lock") /\ UNCHANGED <<base, lost>>
            \/ /\ s >= MinScore
               /\ lost' = TRUE
               /\ Goto(t, "done") /\ UNCHANGED <<base, found>>
    /\ Shared /\ UNCHANGED <<copy, scores, lock, extra>>

\* Mutant: the list is used without its lock.
Enter_unlocked(t) ==
    /\ pc[t] = "lock"
    /\ lock' = t /\ copy' = [copy EXCEPT ![t] = scores] /\ Goto(t, "append")
    /\ Shared /\ UNCHANGED <<lost, base, found, scores, extra>>

\* rz_th_lock_enter, and rz_list_append reads the list.
Enter(t) ==
    /\ pc[t] = "lock" /\ lock = 0
    /\ lock' = t /\ copy' = [copy EXCEPT ![t] = scores] /\ Goto(t, "append")
    /\ Shared /\ UNCHANGED <<lost, base, found, scores, extra>>

\* The pair is in the list; rz_th_lock_leave.
AppendPair(t) ==
    /\ pc[t] = "append"
    /\ scores' = Append(copy[t], [candidate |-> base[t], score |-> found[t]])
    /\ extra' = IF loop[t] THEN extra ELSE [extra EXCEPT ![t] = @ + 1]
    /\ copy' = [copy EXCEPT ![t] = <<>>] /\ found' = [found EXCEPT ![t] = 0]
    /\ lock' = 0
    /\ Advance(t) /\ Goto(t, "step")
    /\ Shared /\ UNCHANGED lost

\* What the data of a thread does after it was freed is not modelled.
Runner(t) ==
    /\ main # "freed"
    /\ Step(t) \/ ScoreBase(t) \/ Enter(t) \/ AppendPair(t)
-----------------------------------------------------------------------------
(* The caller and the thread of the callback.                              *)

Rest == UNCHANGED <<lost, found, copy, lock, extra>>

\* basefind_stop_all_search_threads: all that are in the pool.
StopAll == loop' = [t \in Threads |-> loop[t] /\ pc[t] = "none"]

\* basefind_score_compare: the better score first, of equal scores the higher base.
Before(a, b) ==
    \/ a.score > b.score
    \/ a.score = b.score /\ a.candidate > b.candidate

\* The list as it is sorted: an element comes after those that are before it, or equal to
\* it and earlier in the list.
Sorted(s) ==
    LET Place(i) ==
            Cardinality({j \in DOMAIN s : Before(s[j], s[i]) \/ (~Before(s[i], s[j]) /\ j <= i)})
    IN  [k \in DOMAIN s |-> s[CHOOSE i \in DOMAIN s : Place(i) = k]]

\* The next search thread, or all others are told to stop and everything is freed.
Create ==
    /\ main = "create"
    /\ \/ /\ slot > PoolSize /\ main' = "ui" /\ slot' = 1
          /\ UNCHANGED <<pc, base, loop, failed>>
       \/ /\ slot <= PoolSize
          /\ Goto(slot, "step") /\ base' = [base EXCEPT ![slot] = SectorStart(slot)]
          /\ slot' = slot + 1
          /\ UNCHANGED <<main, loop, failed>>
       \/ /\ slot <= PoolSize
          /\ StopAll /\ main' = "freed" /\ failed' = TRUE
          /\ UNCHANGED <<pc, base, slot>>
    /\ Rest /\ UNCHANGED <<scores, ui>>

\* The thread of the callback, if options->callback is set.
CreateUi ==
    /\ main = "ui"
    /\ \/ main' = "wait" /\ UNCHANGED <<ui, loop, failed>>
       \/ main' = "wait" /\ ui' = "show" /\ UNCHANGED <<loop, failed>>
       \/ StopAll /\ main' = "freed" /\ failed' = TRUE /\ UNCHANGED ui
    /\ Rest /\ UNCHANGED <<slot, pc, base, scores>>

\* rz_th_pool_wait.
Wait ==
    /\ main = "wait"
    /\ \/ slot > PoolSize /\ main' = "wait_ui" /\ UNCHANGED slot
       \/ slot <= PoolSize /\ pc[slot] = "done" /\ slot' = slot + 1 /\ UNCHANGED main
    /\ Rest /\ UNCHANGED <<failed, pc, base, loop, scores, ui>>

\* It is waited for; the list is sorted, and everything else freed.
Finish ==
    /\ main = "wait_ui" /\ ui \in {"none", "done"}
    /\ scores' = Sorted(scores) /\ main' = "freed"
    /\ Rest /\ UNCHANGED <<slot, failed, pc, base, loop, ui>>

\* basefind_thread_ui: one round over all threads, in which the callback may refuse;
\* it ends when the caller clears its flag, which is when all threads are done.
Show ==
    /\ ui = "show"
    /\ \/ StopAll /\ ui' = "done"
       \/ main = "wait_ui" /\ ui' = "done" /\ UNCHANGED loop
    /\ Rest /\ UNCHANGED <<main, slot, failed, pc, base, scores>>

Main == Create \/ CreateUi \/ Wait \/ Finish

Next == Main \/ Show \/ \E t \in Threads : Runner(t)

Spec == Init /\ [][Next]_vars

\* Every thread runs; a refusal of the callback is not owed.
FairSpec ==
    /\ Spec /\ WF_vars(Main) /\ WF_vars(Show /\ main = "wait_ui")
    /\ \A t \in Threads : WF_vars(Runner(t))
-----------------------------------------------------------------------------
(* Properties.                                                             *)

Pair == [candidate : 0 .. MaxBase, score : Nat]

TypeOK ==
    /\ main \in {"create", "ui", "wait", "wait_ui", "freed"}
    /\ slot \in 1 .. PoolSize + 1 /\ failed \in BOOLEAN /\ lost \in BOOLEAN
    /\ pc \in [Threads -> {"none", "step", "score", "lock", "append", "done"}]
    /\ base \in [Threads -> 0 .. MaxBase] /\ loop \in [Threads -> BOOLEAN]
    /\ found \in [Threads -> Nat] /\ scores \in Seq(Pair)
    /\ copy \in [Threads -> Seq(Pair)] /\ lock \in Threads \cup {0}
    /\ ui \in {"none", "show", "done"} /\ extra \in [Threads -> Nat]

\* Every base of the range is in the sector of some thread.
SectorsCover ==
    main # "create" => \A b \in StartAddress .. EndAddress - 1 :
        \E t \in Threads : SectorStart(t) <= b /\ b < SectorEnd(t)

\* The good bases a thread meets in its sector, from its start in steps of Alignment.
Good(t) ==
    {b \in SectorStart(t) .. SectorEnd(t) - 1 :
        (b - SectorStart(t)) % Alignment = 0 /\ Score[b] >= MinScore}

\* A search that nobody stopped and nothing failed in returns every good base of every sector once, with its
\* whole score, whichever threads append at the same time.
Complete ==
    main = "freed" /\ ~failed /\ ~lost /\ (\A t \in Threads : loop[t])
        => /\ Len(scores) = Cardinality(UNION {Good(t) : t \in Threads})
           /\ \A t \in Threads : \A b \in Good(t) :
                \E k \in DOMAIN scores : scores[k] = [candidate |-> b, score |-> Score[b]]

\* What is returned is in the order of basefind_score_compare, also when it was stopped.
Ranked ==
    main = "freed" /\ ~failed =>
        \A j, k \in DOMAIN scores : j < k => ~Before(scores[k], scores[j])

\* After it was told to stop a thread adds one more candidate at most.
StopsSoon == \A t \in Threads : extra[t] <= 1

\* The thread of the callback "only prints data that will always be available during its
\* lifetime".
UiSafe == ui = "show" => main # "freed"

\* When all threads could be created none of them runs any more when its data is freed.
WorkersSafe == main = "freed" /\ ~failed => \A t \in Threads : pc[t] = "done"

\* The threads of rz_basefind cover the range, return every good base once and the best
\* first, stop when they are told to and use nothing that was freed.
BaseFindSafe ==
    /\ TypeOK /\ SectorsCover /\ Complete /\ Ranked /\ StopsSoon
    /\ UiSafe /\ WorkersSafe

\* The search ends.
Ends == <>(main = "freed")
=============================================================================
