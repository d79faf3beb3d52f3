----------------------------- MODULE Similarity -----------------------------
(***************************************************************************)
(* The matching of functions and basic blocks, librz/arch/similarity.c:    *)
(* threads take the elements of one list from a queue and look for their   *)
(* best counterpart in the other list, a thread reports the progress and   *)
(* may cancel, and the caller waits for the queue to become empty.         *)
(*                                                                         *)
(* The queue is that of ThreadQueue: a reader waits while it is empty and  *)
(* open, close_when_empty sleeps until a pop signals that it is empty, and *)
(* pop_all signals nobody.                                                 *)
(***************************************************************************)
EXTENDS Integers, Sequences, SequencesExt, FiniteSets, RzList

CONSTANTS
    NThreads,
    Threshold,   \* RZ_ANALYSIS_SIMILARITY_THRESHOLD
    One,         \* 1.0
    Usages,      \* what is matched and what may fail, one of them in a behaviour
    None

\* The thread function, the inputs, the similarities that occur, the elements
\* whose bytes cannot be read, the pairs of functions with the same name,
\* whether the callback may return false, and what may fail: "thread",
\* "ui_thread", "memory".
SimilarityAssumption ==
    /\ \A u \in Usages :
         /\ u.mode \in {"blocks", "functions", "one"}
         /\ u.a \in Seq(ToSet(u.a)) /\ u.b \in Seq(ToSet(u.b))
         /\ IsInjective(u.a) /\ IsInjective(u.b) /\ ToSet(u.a) \cap ToSet(u.b) = {}
         /\ None \notin ToSet(u.a) \cup ToSet(u.b)
         /\ u.mode = "one" <=> Len(u.a) = 1
         /\ u.scores \subseteq 0..One
    /\ NThreads \in Nat \ {0}
    /\ One \in Nat /\ Threshold \in 1..One

Threads == 1..NThreads

VARIABLES
    usage,
    similarity,          \* what calculate_similarity returns for each pair
    queue, closed,
    loop,
    matches, unmatch,    \* the queues of pairs and of elements without one
    w,                   \* the threads and their local variables
    ui,                  \* where the thread of the user interface is
    at,                  \* where the caller is
    i,                   \* the thread it creates
    unmatch_b,
    result               \* NULL or a result is returned

workqueue == <<queue, closed>>
found == <<matches, unmatch>>
caller == <<at, i, unmatch_b, result>>
vars == <<similarity, workqueue, loop, found, w, ui, caller>>

Mode == usage.mode
InputA == usage.a
InputB == usage.b
Scores == usage.scores
Unreadable == usage.unreadable
SameName == usage.names
MayCancel == usage.cancel
Faults == usage.faults

\* rz_analysis_match_functions exchanges the inputs when A is one function:
\* the queue is filled from the first list, the second is searched.
list_a == IF Mode = "one" THEN InputB ELSE InputA
list_b == IF Mode = "one" THEN InputA ELSE InputB

Idle == [pc |-> "none", item |-> None, k |-> 0, max |-> 0, match |-> None]

\* analysis_match_result_new up to the creation of the threads.
Init ==
    /\ usage \in Usages
    /\ similarity \in [ToSet(list_a) -> [ToSet(list_b) -> Scores]]
    /\ queue = list_a /\ closed = FALSE
    /\ loop = TRUE
    /\ matches = <<>> /\ unmatch = <<>>
    /\ w = [t \in Threads |-> Idle]
    /\ ui = "none"
    /\ at = "spawn" /\ i = 1
    /\ unmatch_b = list_b
    /\ result = FALSE
-----------------------------------------------------------------------------
(* The matching threads.                                                   *)

\* analysis_match_one_function reads its only counterpart first.
ReadOne(t) ==
    /\ w[t].pc = "start"
    /\ w' = [w EXCEPT ![t].pc = IF Head(list_b) \in Unreadable THEN "ended" ELSE "test"]
    /\ UNCHANGED <<similarity, workqueue, loop, found, ui, caller>>

\* shared_queue_pop looks at loop,
TestLoop(t) ==
    /\ w[t].pc = "test"
    /\ w' = [w EXCEPT ![t].pc = IF loop THEN "pop" ELSE "ended"]
    /\ UNCHANGED <<similarity, workqueue, loop, found, ui, caller>>

\* then pops.
Pop(t) ==
    /\ w[t].pc = "pop"
    /\ \/ /\ closed
          /\ w' = [w EXCEPT ![t].pc = "ended"]
          /\ UNCHANGED <<queue, at>>
       \/ /\ ~closed /\ queue # <<>>
          /\ w' = [w EXCEPT ![t].pc = "load", ![t].item = Head(queue)]
          /\ queue' = Tail(queue)
          /\ at' = IF at = "sleep" /\ Len(queue) = 1 THEN "close" ELSE at
    /\ UNCHANGED <<similarity, closed, loop, found, ui, i, unmatch_b, result>>

\* The bytes of the element cannot be read: it is unmatched; in
\* analysis_match_one_function it is dropped and the thread ends.
LoadUnreadable(t) ==
    /\ w[t].pc = "load" /\ w[t].item \in Unreadable
    /\ unmatch' = IF Mode = "one" THEN unmatch ELSE Append(unmatch, w[t].item)
    /\ w' = [w EXCEPT ![t] = [Idle EXCEPT !.pc = IF Mode = "one" THEN "ended" ELSE "test"]]
    /\ UNCHANGED <<similarity, workqueue, loop, matches, ui, caller>>

\* They can: the search starts; analysis_match_one_function is done with it.
Load(t) ==
    /\ w[t].pc = "load" /\ w[t].item \notin Unreadable
    /\ w' = [w EXCEPT ![t] = IF Mode = "one"
                             THEN [w[t] EXCEPT !.pc = "push", !.match = Head(list_b),
                                               !.max = similarity[w[t].item][Head(list_b)]]
                             ELSE [w[t] EXCEPT !.pc = "compare", !.k = 1, !.max = 0,
                                               !.match = None]]
    /\ UNCHANGED <<similarity, workqueue, loop, found, ui, caller>>

\* What makes b the match: the name, in analysis_match_functions, or the
\* similarity.  analysis_match_basic_blocks passes over b only when its
\* similarity is both below the threshold and no better.
Better(t, b, calc) ==
    \/ Mode = "functions" /\ <<w[t].item, b>> \in SameName
    \/ Mode = "functions" /\ calc >= Threshold /\ calc > w[t].max
    \/ Mode = "blocks" /\ (calc >= Threshold \/ calc > w[t].max)

\* One turn of rz_list_foreach over list_b.
Compare(t) ==
    /\ w[t].pc = "compare"
    /\ \/ /\ ~loop \/ w[t].k > Len(list_b)
          /\ w' = [w EXCEPT ![t].pc = "push"]
       \/ /\ loop /\ w[t].k <= Len(list_b)
          /\ LET b == list_b[w[t].k]
                 calc == similarity[w[t].item][b]
                 named == Mode = "functions" /\ <<w[t].item, b>> \in SameName
             IN  w' = [w EXCEPT ![t] =
                   IF b \in Unreadable \/ ~Better(t, b, calc)
                   THEN [w[t] EXCEPT !.k = w[t].k + 1]
                   ELSE [w[t] EXCEPT !.k = w[t].k + 1, !.max = calc, !.match = b,
                                     !.pc = IF named \/ calc >= One
                                            THEN "push" ELSE "compare"]]
    /\ UNCHANGED <<similarity, workqueue, loop, found, ui, caller>>

\* The element is pushed to matches or to unmatch.
Push(t) ==
    /\ w[t].pc = "push"
    /\ \/ /\ w[t].match # None
          /\ matches' = Append(matches, [pair_a |-> w[t].item, pair_b |-> w[t].match,
                                         similarity |-> w[t].max])
          /\ UNCHANGED unmatch
       \/ /\ w[t].match = None
          /\ unmatch' = Append(unmatch, w[t].item)
          /\ UNCHANGED matches
    /\ w' = [w EXCEPT ![t] = [Idle EXCEPT !.pc = "test"]]
    /\ UNCHANGED <<similarity, workqueue, loop, ui, caller>>

\* match_pair_new fails: the element is unmatched, or it is lost and the
\* thread of analysis_match_one_function ends.
PushNoMemory(t) ==
    /\ "memory" \in Faults
    /\ w[t].pc = "push" /\ w[t].match # None
    /\ unmatch' = IF Mode = "one" THEN unmatch ELSE Append(unmatch, w[t].item)
    /\ w' = [w EXCEPT ![t] = [Idle EXCEPT !.pc = IF Mode = "one" THEN "ended" ELSE "test"]]
    /\ UNCHANGED <<similarity, workqueue, loop, matches, ui, caller>>
-----------------------------------------------------------------------------
(* match_thread_ui.                                                        *)

\* The callback is shown the sizes, and goes on or cancels.
UiCallback ==
    /\ ui = "callback"
    /\ \/ ui' = "test_empty" /\ UNCHANGED loop
       \/ MayCancel /\ loop' = FALSE /\ ui' = "pop_all"
    /\ UNCHANGED <<similarity, workqueue, found, w, caller>>

UiPopAll ==
    /\ ui = "pop_all"
    /\ queue' = <<>>
    /\ ui' = "ended"
    /\ UNCHANGED <<similarity, closed, loop, found, w, caller>>

\* It sleeps and looks whether the queue is empty.
UiTestEmpty ==
    /\ ui = "test_empty"
    /\ ui' = IF queue = <<>> THEN "ended" ELSE "callback"
    /\ UNCHANGED <<similarity, workqueue, loop, found, w, caller>>
-----------------------------------------------------------------------------
(* analysis_match_result_new.                                              *)

\* A thread of the pool is created, or not.
Spawn ==
    /\ at = "spawn"
    /\ \/ w' = [w EXCEPT ![i].pc = IF Mode = "one" THEN "start" ELSE "test"]
       \/ "thread" \in Faults /\ w' = [w EXCEPT ![i].pc = "ended"]
    /\ i' = i + 1
    /\ at' = IF i = NThreads THEN "spawn_ui" ELSE "spawn"
    /\ UNCHANGED <<similarity, workqueue, loop, found, ui, unmatch_b, result>>

\* The thread of the user interface, if there is a callback.
SpawnUi ==
    /\ at = "spawn_ui"
    /\ ui' \in {"callback", "ended"} /\ at' = "close"
    /\ UNCHANGED <<similarity, workqueue, loop, found, w, i, unmatch_b, result>>

\* The thread cannot be created.
SpawnUiFails ==
    /\ "ui_thread" \in Faults
    /\ at = "spawn_ui"
    /\ loop' = FALSE
    /\ queue' = <<>>
    /\ ui' = "ended"
    /\ at' = "pool_wait"
    /\ UNCHANGED <<similarity, closed, found, w, i, unmatch_b, result>>

\* rz_th_queue_close_when_empty.
CloseWhenEmpty ==
    /\ at = "close"
    /\ closed' = (queue = <<>>)
    /\ at' = IF queue = <<>> THEN "pool_wait" ELSE "sleep"
    /\ UNCHANGED <<similarity, queue, loop, found, w, ui, i, unmatch_b, result>>

PoolWait ==
    /\ at = "pool_wait"
    /\ \A t \in Threads : w[t].pc = "ended"
    /\ at' = "check"
    /\ UNCHANGED <<similarity, workqueue, loop, found, w, ui, i, unmatch_b, result>>

\* Mutant: a cancelled search returns what it has.
CheckLoop_not ==
    /\ at = "check"
    /\ result' = TRUE
    /\ at' = "join_ui"
    /\ UNCHANGED <<similarity, workqueue, loop, found, w, ui, i, unmatch_b>>

\* A cancelled search has no result; the thread is waited for either way.
CheckLoop ==
    /\ at = "check"
    /\ result' = loop
    /\ at' = "join_ui"
    /\ UNCHANGED <<similarity, workqueue, loop, found, w, ui, i, unmatch_b>>

\* The result cannot be allocated: everything is freed.
CheckNoMemory ==
    /\ "memory" \in Faults
    /\ at = "check" /\ loop
    /\ at' = "done"
    /\ UNCHANGED <<similarity, workqueue, loop, found, w, ui, i, unmatch_b, result>>

\* The counterparts found are taken from unmatch_b and everything is freed.
JoinUi ==
    /\ at = "join_ui" /\ ui = "ended"
    /\ unmatch_b' = Only(list_b, ToSet(list_b) \ {p.pair_b : p \in ToSet(matches)})
    /\ at' = "done"
    /\ UNCHANGED <<similarity, workqueue, loop, found, w, ui, i, result>>
-----------------------------------------------------------------------------
Worker(t) ==
    \/ ReadOne(t)
    \/ TestLoop(t)
    \/ Pop(t)
    \/ LoadUnreadable(t)
    \/ Load(t)
    \/ Compare(t)
    \/ Push(t)
    \/ PushNoMemory(t)

Ui == UiCallback \/ UiPopAll \/ UiTestEmpty

Caller ==
    \/ Spawn
    \/ SpawnUi
    \/ SpawnUiFails
    \/ CloseWhenEmpty
    \/ PoolWait
    \/ CheckLoop
    \/ CheckNoMemory
    \/ JoinUi

Next == (Caller \/ Ui \/ \E t \in Threads : Worker(t)) /\ UNCHANGED usage

\* Threads run.
Fairness == WF_vars(Caller) /\ WF_vars(Ui) /\ \A t \in Threads : WF_vars(Worker(t))

Spec == Init /\ [][Next]_<<vars, usage>> /\ Fairness
-----------------------------------------------------------------------------
(* Properties.                                                             *)

Elements == ToSet(list_a)
Pairs == [pair_a : Elements, pair_b : ToSet(list_b), similarity : 0..One]

TypeOK ==
    /\ similarity \in [Elements -> [ToSet(list_b) -> Scores]]
    /\ queue \in Seq(Elements) /\ closed \in BOOLEAN /\ loop \in BOOLEAN
    /\ matches \in Seq(Pairs) /\ unmatch \in Seq(Elements)
    /\ w \in [Threads -> [pc : {"none", "start", "test", "pop", "load", "compare",
                                "push", "ended"},
                          item : Elements \cup {None}, k : 0..(Len(list_b) + 1),
                          max : 0..One, match : ToSet(list_b) \cup {None}]]
    /\ ui \in {"none", "callback", "pop_all", "test_empty", "ended"}
    /\ at \in {"spawn", "spawn_ui", "close", "sleep", "pool_wait", "check",
               "join_ui", "done"}
    /\ i \in 1..(NThreads + 1)
    /\ unmatch_b \in Seq(ToSet(list_b)) /\ result \in BOOLEAN

Returned == at = "done" /\ result

\* "matches: List of matched pairs between input A and B", "unmatch_a",
\* "unmatch_b": a result speaks of every element exactly once, and of no
\* element when the search was cancelled half way.  A thread of
\* analysis_match_one_function that fails drops its element.
ResultIsComplete ==
  Returned /\ (Mode = "one" => Unreadable = {} /\ "memory" \notin Faults) =>
    /\ \A a \in Elements :
         Cardinality({k \in DOMAIN matches : matches[k].pair_a = a})
         + Cardinality({k \in DOMAIN unmatch : unmatch[k] = a}) = 1
    /\ ToSet(unmatch_b) = ToSet(list_b) \ {matches[k].pair_b : k \in DOMAIN matches}

\* The counterparts that can be compared with a.
Candidates(a) == {b \in ToSet(list_b) : b \notin Unreadable}

\* analysis_match_functions finds a counterpart of the highest similarity, at
\* least the threshold, unless one has the same name; and an element stays
\* unmatched only if there is none (no allocation failing).
BestMatch == Returned /\ Mode = "functions" /\ "memory" \notin Faults =>
    /\ \A k \in DOMAIN matches :
         LET p == matches[k] IN
           /\ p.similarity = similarity[p.pair_a][p.pair_b]
           /\ \/ <<p.pair_a, p.pair_b>> \in SameName
              \/ /\ p.similarity >= Threshold
                 /\ \A b \in Candidates(p.pair_a) : similarity[p.pair_a][b] <= p.similarity
    /\ \A a \in ToSet(unmatch) \ Unreadable :
         \A b \in Candidates(a) : similarity[a][b] < Threshold

\* "data that will always be available during its lifetime" (match_thread_ui):
\* the shared context is freed after every thread that uses it has ended, unless
\* there is no memory for the result.
SharedOutlivesThreads ==
    at = "done" /\ "memory" \notin Faults => ui = "ended" /\ \A t \in Threads : w[t].pc = "ended"

\* A result speaks of every element once, names the best counterparts, and is
\* returned after the threads that made it.
SimilarCorrect == TypeOK /\ ResultIsComplete /\ BestMatch /\ SharedOutlivesThreads

\* Where the caller and the threads wait for each other for ever: the search was
\* cancelled, which empties the queue without a signal, or all threads ended
\* with elements left in it.
Stranded ==
    \/ ~loop /\ at = "sleep" /\ queue = <<>>
    \/ at = "sleep" /\ queue # <<>> /\ \A t \in Threads : w[t].pc = "ended"
    \/ ~loop /\ at = "pool_wait" /\ ~closed /\ \E t \in Threads : w[t].pc = "pop"

\* "On success returns a valid pointer to RzAnalysisMatchResult otherwise
\* NULL": the search returns, or waits in one of these known ways.
Returns == <>(at = "done" \/ Stranded)
=============================================================================
