------------------------------ MODULE MCSearch ------------------------------
(* Instances of SearchPipeline and StringSearch for TLC.  They share no    *)
(* state, so a behaviour is one of the two.                                *)
EXTENDS SearchPipeline, TLC

\* Two maps that share addresses; a pattern that overlaps itself, with a place
\* across the end of a chunk, and a shorter one.
TwoMaps == <<[addr |-> 1, size |-> 7], [addr |-> 6, size |-> 5]>>
TwoPatterns == <<[len |-> 2, at |-> {2, 3, 4, 7, 12}], [len |-> 1, at |-> {5, 9}]>>

\* All hits, those that overlap too; or the first two that do not.
AllOrTwo ==
    {[match_overlap |-> o, max_hits |-> IF o THEN 0 ELSE 2, progress |-> TRUE, intr |-> TRUE] :
        o \in BOOLEAN}

VARIABLES part, raw, size, s_main, slot, queue, s_closed, s_pc, s_loop, batch,
          results, db, lost, s_ok, s_ret

strings == <<raw, size, s_main, slot, queue, s_closed, s_pc, s_loop, batch,
             results, db, lost, s_ok, s_ret>>

\* Two sections that overlap, one that reaches behind the file, one that starts
\* there, one of code, one too large.
Section(p, n, d) == [paddr |-> p, size |-> n, data |-> d]
SomeSections ==
    <<Section(0, 4, TRUE), Section(3, 4, TRUE), Section(8, 3, TRUE),
      Section(20, 2, TRUE), Section(4, 2, FALSE), Section(0, 9, TRUE)>>
SomeStrings ==
    {[at |-> 0, len |-> 2], [at |-> 3, len |-> 1], [at |-> 5, len |-> 2],
     [at |-> 8, len |-> 1]}

\* An entry for a string, one for the first entry, one for nothing.
SomeCf == <<[at |-> 30, ref |-> 5], [at |-> 31, ref |-> 30], [at |-> 32, ref |-> 7]>>

Strings == INSTANCE StringSearch WITH
    PoolSize <- 2, Sizes <- {0, 1, 7, 9}, Alignment <- 2, MaxRegion <- 8, MinLength <- 1,
    Sections <- SomeSections, Strings <- SomeStrings, CfTable <- SomeCf,
    MayFail <- {"create", "scan", "push", "results"},
    main <- s_main, closed <- s_closed, pc <- s_pc,
    loop <- s_loop, ok <- s_ok, ret <- s_ret

ASSUME Strings!StringSearchAssumption
ASSUME MapsFit /\ ElementsFit

MCInit ==
    /\ SearchInit /\ Strings!Init
    /\ \/ part = "search" /\ raw /\ size = 0
       \/ part = "strings" /\ Overlap

MCNext ==
    \/ part = "search" /\ SearchNext /\ UNCHANGED <<part, strings>>
    \/ part = "strings" /\ Strings!Next /\ UNCHANGED <<part, opt, searching>>

\* The fairness of each part.
MCSpec ==
    /\ MCInit /\ [][MCNext]_<<part, opt, searching, strings>>
    /\ WF_searching(part = "search" /\ Main) /\ WF_searching(part = "search" /\ Cancel)
    /\ \A t \in Threads : WF_searching(part = "search" /\ Worker(t))
    /\ WF_strings(part = "strings" /\ Strings!Main)
    /\ \A t \in Strings!Threads : WF_strings(part = "strings" /\ Strings!Runner(t))
-----------------------------------------------------------------------------
(* What the modules state, under names that tell them apart.               *)

\* What the string search returns is complete, sorted and of no freed memory.
StringsSafe == Strings!StringsSafe

\* A search over the maps returns, whatever fails and whenever it is stopped; the
\* string search returns, or waits in one of the ways Stranded lists.
SearchesReturn ==
    /\ part = "search" ~> main = "returned"
    /\ part = "strings" ~> s_main = "returned" \/ Strings!Stranded
=============================================================================
