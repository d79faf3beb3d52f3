----------------------------- MODULE MCWorkers -----------------------------
(* Instances of Similarity, ThreadIterate and BaseFind for TLC.  They      *)
(* share no state, so a behaviour is one of the three.                     *)
EXTENDS Similarity, TLC

CONSTANTS
    PoolSize, Length, Nulls,
    MaxBase, StartAddress, EndAddress, Alignment, MinScore, Score

VARIABLES
    part,
    main, slot, ok, pc, lock, index, i_loop, element, calls, late, refused,
    b_main, b_slot, failed, b_lost, b_pc, base, b_loop, b_found, copy, scores,
    b_lock, b_ui, extra

iterate == <<main, slot, ok, pc, lock, index, i_loop, element, calls, late, refused>>
basefind == <<b_main, b_slot, failed, b_lost, b_pc, base, b_loop, b_found, copy,
              scores, b_lock, b_ui, extra>>

\* Functions, two of which have the same name; basic blocks some of which cannot
\* be read, with everything that may fail; one function and the list to search.
SomeUsages ==
    {[mode |-> "functions", a |-> <<"a1", "a2">>, b |-> <<"b1", "b2">>, scores |-> {1, 2, 3},
      unreadable |-> {}, names |-> {<<"a1", "b2">>}, cancel |-> TRUE, faults |-> {"ui_thread"}],
     [mode |-> "blocks", a |-> <<"a1", "a2">>, b |-> <<"b1", "b2">>, scores |-> {0, 4},
      unreadable |-> {"a2", "b1"}, names |-> {}, cancel |-> TRUE,
      faults |-> {"thread", "ui_thread", "memory"}],
     [mode |-> "one", a |-> <<"a1">>, b |-> <<"b1", "b2", "b3">>, scores |-> {1, 4},
      unreadable |-> {}, names |-> {}, cancel |-> FALSE, faults |-> {}],
     [mode |-> "one", a |-> <<"a1">>, b |-> <<"b1", "b2">>, scores |-> {4},
      unreadable |-> {"b1"}, names |-> {}, cancel |-> FALSE, faults |-> {"memory"}],
     [mode |-> "one", a |-> <<"a1">>, b |-> <<"b1", "b2">>, scores |-> {4},
      unreadable |-> {"a1"}, names |-> {}, cancel |-> FALSE, faults |-> {}]}

Iterate == INSTANCE ThreadIterate WITH loop <- i_loop

\* Half of the bases are good, with two different scores.
Scored == [b \in 0 .. MaxBase |-> IF b % 2 = 0 THEN (b % 3) + 1 ELSE 0]

Base == INSTANCE BaseFind WITH
    main <- b_main, slot <- b_slot, lost <- b_lost, pc <- b_pc, loop <- b_loop,
    lock <- b_lock, found <- b_found, ui <- b_ui

ASSUME
    /\ SimilarityAssumption /\ Iterate!ThreadIterateAssumption
    /\ Base!BaseFindAssumption /\ Base!Fits

MCInit ==
    /\ Init /\ Iterate!Init /\ Base!Init
    /\ \/ part = "similar"
       \/ part \in {"iterate", "basefind"} /\ usage.unreadable = {"a1"}

MCNext ==
    \/ part = "similar" /\ Next /\ UNCHANGED <<part, iterate, basefind>>
    \/ part = "iterate" /\ Iterate!Next /\ UNCHANGED <<part, usage, vars, basefind>>
    \/ part = "basefind" /\ Base!Next /\ UNCHANGED <<part, usage, vars, iterate>>

\* The fairness of each part.
MCSpec ==
    /\ MCInit /\ [][MCNext]_<<part, usage, vars, iterate, basefind>>
    /\ WF_vars(part = "similar" /\ Caller)
    /\ WF_vars(part = "similar" /\ Ui)
    /\ \A t \in Threads : WF_vars(part = "similar" /\ Worker(t))
    /\ WF_iterate(part = "iterate" /\ Iterate!Main)
    /\ \A t \in Iterate!Threads : WF_iterate(part = "iterate" /\ Iterate!Worker(t))
    /\ WF_basefind(part = "basefind" /\ Base!Main)
    /\ WF_basefind(part = "basefind" /\ Base!Show /\ b_main = "wait_ui")
    /\ \A t \in Iterate!Threads : WF_basefind(part = "basefind" /\ Base!Runner(t))
-----------------------------------------------------------------------------
(* What the modules state, under names that tell them apart.               *)

\* The workers of rz_th_iterate_list share out the elements: each is handed to the iterator
\* once, none is left out, a refusal stops them, and none outlives the call.
IteratorSafe == Iterate!IteratorSafe

\* The threads of rz_basefind cover the range, return every good base once and the best
\* first, stop when they are told to and use nothing that was freed.
BaseFindSafe == Base!BaseFindSafe

\* The callers return: those of rz_th_iterate_list and rz_basefind always, that of the
\* matching unless it waits in one of the ways Stranded lists.
WorkersReturn ==
    /\ part = "similar" ~> at = "done" \/ Stranded
    /\ part = "iterate" ~> main = "returned"
    /\ part = "basefind" ~> b_main = "freed"
=============================================================================
