--------------------------- MODULE SearchPipeline ---------------------------
(***************************************************************************)
(* The search of librz/search/search.c over a buffer or the maps of RzIO,  *)
(* with the collection of byte patterns of bytes_search.c.  The maps are   *)
(* cut into windows; workers of rz_th_iterate_list read a window each and  *)
(* queue its hits; a further thread prints the finished windows and stops  *)
(* the workers when there are enough hits or the user interrupts.  The     *)
(* queues and the iterator are used through what ClosableDeque and         *)
(* ThreadIterate promise.                                                  *)
(***************************************************************************)
EXTENDS Integers, SequencesExt, FiniteSetsExt

CONSTANTS
    PoolSize,      \* workers
    W,             \* addresses, 2^64
    Maps,          \* search_in, a sequence of [addr, size]
    ChunkSize,     \* opt->chunk_size
    ElementSize,   \* opt->element_size
    Patterns,      \* the patterns, a sequence of [len, at]: at is the set of places
    Options,       \* the options of a search, one of them in a behaviour
    MayFail        \* what can fail: "cancel", "iterate", "thread", "read", "find", "report"

\* fopts->match_overlap; opt->max_hits, 0 for no limit; opt->show_progress is
\* RZ_SEARCH_PROGRESS_INTERVALS; opt->intr is set.
ASSUME SearchAssumption ==
    /\ PoolSize \in Nat \ {0} /\ W \in Nat /\ ChunkSize \in 1 .. W /\ ElementSize \in Nat \ {0}
    /\ Maps \in Seq([addr : 0 .. W - 1, size : Nat])
    /\ Patterns \in Seq([len : Nat \ {0}, at : SUBSET (0 .. W - 1)])
    /\ Options \subseteq [match_overlap : BOOLEAN, max_hits : Nat, progress : BOOLEAN,
                         intr : BOOLEAN]
    /\ MayFail \subseteq {"cancel", "iterate", "thread", "read", "find", "report"}

Threads == 1 .. PoolSize

VARIABLES
    opt,
    main,         \* "windows", "cancel", "spawn", "iterate", "drain", "join", "returned"
    map,          \* the map that is cut
    chunk,        \* chunk_begin in it
    windows,      \* the list of windows, [addr, size]
    next,         \* the next window for a worker
    stopped,      \* a worker refused to go on
    pc,           \* of each worker: "none", "take", "read", "find", "report", "test", "done"
    window,       \* the window of each worker, its place in that list
    hits,         \* ctx->hits
    loop,         \* ctx->loop
    intervals,    \* ctx->finished_intervals, as places in the list
    closed,       \* that queue is
    printed,      \* the windows that were printed
    cancel,       \* the cancel thread: "none", "check", "print", "flush", "done"
    failed,       \* a window could not be read or searched
    interrupted,  \* the user did
    ok,           \* a list is returned, not NULL
    ret           \* the list

cut == <<map, chunk, windows>>
walk == <<next, stopped, pc, window>>
outcome == <<ok, ret>>
searching == <<main, cut, walk, hits, loop, intervals, closed, printed, cancel, failed, interrupted, outcome>>

Overlap == opt.match_overlap
MaxHits == opt.max_hits
Progress == opt.progress
MayInterrupt == opt.intr

SearchInit ==
    /\ opt \in Options
    /\ main = "windows" /\ map = 1 /\ windows = <<>>
    /\ chunk = (IF Maps = <<>> THEN 0 ELSE Maps[1].addr)
    /\ next = 1 /\ stopped = FALSE
    /\ pc = [t \in Threads |-> "none"] /\ window = [t \in Threads |-> 0]
    /\ hits = <<>> /\ loop = TRUE /\ intervals = <<>> /\ closed = FALSE /\ printed = <<>>
    /\ cancel = "none" /\ failed = FALSE /\ interrupted = FALSE /\ ok = FALSE /\ ret = <<>>
-----------------------------------------------------------------------------
(* assemble_search_window_list.                                            *)

\* Mutant: the window is not longer than the chunk.
WindowSize_chunk(begin, end) ==
    IF (begin + ChunkSize) % W > end THEN end - begin ELSE ChunkSize

\* A window overlaps the next one by all but one byte of an element, but not the end of the map.
WindowSize(begin, end) ==
    LET size == (ChunkSize + ElementSize - 1) % W
    IN  IF (begin + size) % W > end THEN end - begin ELSE size

\* The next window of the map, or the next map.
Assemble ==
    /\ main = "windows"
    /\ IF map > Len(Maps)
       THEN main' = "cancel" /\ UNCHANGED cut
       ELSE LET end == (Maps[map].addr + Maps[map].size) % W
                win == [addr |-> chunk, size |-> WindowSize(chunk, end)]
            IN  IF chunk < end
                THEN /\ windows' = Append(windows, win)
                     /\ chunk' = (chunk + ChunkSize) % W
                     /\ UNCHANGED <<main, map>>
                ELSE /\ map' = map + 1
                     /\ chunk' = IF map < Len(Maps) THEN Maps[map + 1].addr ELSE 0
                     /\ UNCHANGED <<main, windows>>
    /\ UNCHANGED <<walk, hits, loop, intervals, closed, printed, cancel, failed, interrupted, outcome>>
-----------------------------------------------------------------------------
(* A worker: search_iterator_io_map_cb.                                    *)

Goto(t, label) == pc' = [pc EXCEPT ![t] = label]
Others == UNCHANGED <<main, cut, closed, printed, cancel, interrupted, outcome>>

\* The iterator hands each window to one worker.
Take(t) ==
    /\ pc[t] = "take"
    /\ IF next > Len(windows)
       THEN Goto(t, "done") /\ UNCHANGED <<next, window>>
       ELSE /\ next' = next + 1 /\ window' = [window EXCEPT ![t] = next]
            /\ Goto(t, "read")
    /\ Others /\ UNCHANGED <<stopped, hits, loop, intervals, failed>>

\* The callback fails: the search is stopped for all.
Failure(t) ==
    /\ loop' = FALSE /\ failed' = TRUE /\ stopped' = TRUE
    /\ Goto(t, "done")

\* The bytes of the window.
Read(t) ==
    /\ pc[t] = "read"
    /\ \/ Goto(t, "find") /\ UNCHANGED <<stopped, loop, failed>>
       \/ "read" \in MayFail /\ Failure(t)
    /\ Others /\ UNCHANGED <<next, window, hits, intervals>>

\* bytes_find for one pattern: the loop over the offsets of the window; behind a hit it goes on with
\* the next byte, or behind the hit if hits may not overlap.
Matches(p, win) ==
    LET scan[n \in 0 .. win.size] ==
            IF n = 0 THEN [from |-> 0, hits |-> <<>>]
            ELSE LET last == scan[n - 1]
                     offset == n - 1
                 IN  IF \/ offset < last.from \/ p.len > win.size - offset
                        \/ win.addr + offset \notin p.at
                     THEN last
                     ELSE [from |-> offset + (IF Overlap THEN 1 ELSE p.len),
                           hits |-> Append(last.hits, [address |-> win.addr + offset, size |-> p.len])]
    IN  scan[win.size].hits

\* The hits of the window are queued; no memory for one ends the search.
Find(t) ==
    /\ pc[t] = "find"
    /\ LET all == FlattenSeq([k \in DOMAIN Patterns |-> Matches(Patterns[k], windows[window[t]])])
       IN  \/ /\ hits' = hits \o all
              /\ Goto(t, "report") /\ UNCHANGED <<stopped, loop, failed>>
           \/ /\ "find" \in MayFail /\ all # <<>>
              /\ \E n \in 0 .. Len(all) - 1 : hits' = hits \o SubSeq(all, 1, n)
              /\ Failure(t)
    /\ Others /\ UNCHANGED <<next, window, intervals>>

\* The finished window is queued for the cancel thread, if there is memory for it; the callback
\* returns the flag.
Report(t) ==
    /\ pc[t] = "report"
    /\ \/ /\ intervals' = IF Progress THEN Append(intervals, window[t]) ELSE intervals
          /\ stopped' = (stopped \/ ~loop)
          /\ Goto(t, IF loop THEN "test" ELSE "done") /\ UNCHANGED <<loop, failed>>
       \/ Progress /\ "report" \in MayFail /\ Failure(t) /\ UNCHANGED intervals
    /\ Others /\ UNCHANGED <<next, window, hits>>

\* The head of the loop of the iterator.
Test(t) ==
    /\ pc[t] = "test"
    /\ Goto(t, IF stopped THEN "done" ELSE "take")
    /\ Others /\ UNCHANGED <<next, stopped, window, hits, loop, intervals, failed>>

Worker(t) == Take(t) \/ Read(t) \/ Find(t) \/ Report(t) \/ Test(t)
-----------------------------------------------------------------------------
(* The cancel thread: search_cancel_th.                                    *)

Rest == UNCHANGED <<main, cut, walk, hits, closed, failed, outcome>>

\* After a sleep: stopped by another, or enough hits.
Check ==
    /\ cancel = "check"
    /\ IF ~loop \/ (MaxHits # 0 /\ Len(hits) >= MaxHits)
       THEN cancel' = "flush" /\ loop' = FALSE
       ELSE cancel' = "print" /\ UNCHANGED loop
    /\ Rest /\ UNCHANGED <<intervals, printed, interrupted>>

\* print_intervals pops what is there.
PrintOne ==
    /\ cancel \in {"print", "flush"} /\ intervals # <<>>
    /\ intervals' = Tail(intervals) /\ printed' = Append(printed, Head(intervals))
    /\ Rest /\ UNCHANGED <<cancel, loop, interrupted>>

\* All that was there is printed; the user may have interrupted.
CheckInterrupt ==
    /\ cancel = "print" /\ intervals = <<>>
    /\ \/ cancel' = "check" /\ UNCHANGED <<loop, interrupted>>
       \/ MayInterrupt /\ cancel' = "flush" /\ loop' = FALSE /\ interrupted' = TRUE
    /\ Rest /\ UNCHANGED <<intervals, printed>>

\* The pop on the empty queue returns when it is closed.
Flushed ==
    /\ cancel = "flush" /\ closed
    /\ cancel' = "done"
    /\ Rest /\ UNCHANGED <<intervals, printed, loop, interrupted>>

Cancel == Check \/ PrintOne \/ CheckInterrupt \/ Flushed
-----------------------------------------------------------------------------
(* The caller: rz_search_on_io, rz_search_on_buffer.                       *)

\* The cancel thread is created, or NULL is returned.
CreateCancel ==
    /\ main = "cancel"
    /\ \/ cancel' = "check" /\ main' = "spawn"
       \/ "cancel" \in MayFail /\ main' = "returned" /\ UNCHANGED cancel
    /\ UNCHANGED <<cut, walk, hits, loop, intervals, closed, printed, failed, interrupted, outcome>>

\* The workers th_run_iterator may end up with: it passes over those that rz_th_new refuses, even if
\* that is all of them.  rz_th_iterate_list does not ask for any when there is nothing to do.
WorkerSets ==
    IF windows = <<>> THEN {{}} ELSE IF "thread" \in MayFail THEN SUBSET Threads ELSE {Threads}

\* rz_th_iterate_list starts workers, or fails and the hits stay where they are.
Spawn ==
    /\ main = "spawn"
    /\ \/ /\ \E created \in WorkerSets :
                pc' = [t \in Threads |-> IF t \in created THEN "take" ELSE "none"]
          /\ main' = "iterate" /\ UNCHANGED loop
       \/ /\ "iterate" \in MayFail /\ windows # <<>>
          /\ main' = "drain" /\ loop' = FALSE /\ UNCHANGED pc
    /\ UNCHANGED <<cut, next, stopped, window, hits, intervals, closed, printed, cancel, failed, interrupted, outcome>>

\* It returns true when all workers there are have ended; rz_th_queue_pop_all, and the cancel thread
\* is told.
PopAll ==
    /\ main = "iterate" /\ \A t \in Threads : pc[t] \in {"none", "done"}
    /\ ok' = TRUE /\ ret' = hits /\ hits' = <<>>
    /\ loop' = FALSE /\ main' = "drain"
    /\ UNCHANGED <<cut, walk, intervals, closed, printed, cancel, failed, interrupted>>

\* Mutant: the queue is not closed.
CloseWhenEmpty_open ==
    /\ main = "drain" /\ intervals = <<>>
    /\ main' = "join"
    /\ UNCHANGED <<closed, cut, walk, hits, loop, intervals, printed, cancel, failed, interrupted, outcome>>

\* rz_th_queue_close_when_empty.
CloseWhenEmpty ==
    /\ main = "drain" /\ intervals = <<>>
    /\ closed' = TRUE /\ main' = "join"
    /\ UNCHANGED <<cut, walk, hits, loop, intervals, printed, cancel, failed, interrupted, outcome>>

Before(a, b) == a.address < b.address \/ (a.address = b.address /\ a.size < b.size)

\* rz_list_sort and rz_list_sorted_uniq with rz_search_hit_cmp: each hit once, behind those before it.
Sorted(s) ==
    LET Place(h) == Cardinality({g \in ToSet(s) : ~Before(h, g)})
    IN  [k \in 1 .. Cardinality(ToSet(s)) |-> CHOOSE h \in ToSet(s) : Place(h) = k]

\* The hits behind the limit are dropped.
Trim(s) == IF MaxHits # 0 /\ Len(s) > MaxHits THEN SubSeq(s, 1, MaxHits) ELSE s

\* rz_th_wait; everything is freed, the list sorted and cut.
Finish ==
    /\ main = "join" /\ cancel = "done"
    /\ main' = "returned" /\ ret' = Trim(Sorted(ret))
    /\ UNCHANGED <<cut, walk, hits, loop, intervals, closed, printed, cancel, failed, interrupted, ok>>

Main == Assemble \/ CreateCancel \/ Spawn \/ PopAll \/ CloseWhenEmpty \/ Finish

SearchNext == (Main \/ Cancel \/ \E t \in Threads : Worker(t)) /\ UNCHANGED opt

SearchSpec == SearchInit /\ [][SearchNext]_<<searching, opt>>

\* The caller, the workers and the cancel thread run.
FairSearchSpec ==
    /\ SearchSpec /\ WF_searching(Main) /\ WF_searching(Cancel)
    /\ \A t \in Threads : WF_searching(Worker(t))
-----------------------------------------------------------------------------
(* Properties.                                                             *)

Windows == [addr : 0 .. W - 1, size : 0 .. W - 1]
Hits == Seq([address : 0 .. W - 1, size : Nat])

SearchTypeOK ==
    /\ main \in {"windows", "cancel", "spawn", "iterate", "drain", "join", "returned"}
    /\ map \in 1 .. Len(Maps) + 1 /\ chunk \in 0 .. W - 1 /\ windows \in Seq(Windows)
    /\ next \in 1 .. Len(windows) + 1 /\ window \in [Threads -> Nat]
    /\ pc \in [Threads -> {"none", "take", "read", "find", "report", "test", "done"}]
    /\ {loop, stopped, closed, failed, interrupted, ok} \subseteq BOOLEAN
    /\ hits \in Hits /\ ret \in Hits /\ intervals \in Seq(Nat) /\ printed \in Seq(Nat)
    /\ cancel \in {"none", "check", "print", "flush", "done"}

\* No sum of assemble_search_window_list wraps around: no map reaches the last addresses.
MapsFit ==
    \A m \in DOMAIN Maps : Maps[m].addr + Maps[m].size + ChunkSize + ElementSize <= W

\* opt->element_size is that of the longest pattern, or more; csearch.c sets it to that of its pattern.
ElementsFit == \A k \in DOMAIN Patterns : Patterns[k].len <= ElementSize

\* What there is to find: the places of the patterns that lie in one map.
All ==
    UNION {{[address |-> a, size |-> Patterns[k].len] :
              a \in {b \in Patterns[k].at : \E m \in DOMAIN Maps :
                        /\ b >= Maps[m].addr
                        /\ b + Patterns[k].len <= Maps[m].addr + Maps[m].size}} : k \in DOMAIN Patterns}

Returned == main = "returned" /\ ok

\* A worker could be created, or none is needed.  If none could, the code returns an empty list as if
\* nothing had been found.
SomeWorker == windows = <<>> \/ \E t \in Threads : pc[t] # "none"

\* A search that nothing stopped finds every place of a pattern, those across the border of two
\* chunks too, and nothing else, however few of its workers could be created.
Complete ==
    Returned /\ SomeWorker /\ MaxHits = 0 /\ ~failed /\ ~interrupted /\ Overlap => ToSet(ret) = All

\* No hit is invented, whatever failed.
Sound == Returned => ToSet(ret) \subseteq All

\* The list is sorted and holds no hit twice, though windows and maps overlap.
NoDuplicates ==
    Returned => \A i, j \in DOMAIN ret : i < j => Before(ret[i], ret[j])

\* No more hits than asked for are returned, however many the workers queued before they were told to stop.
AtMostMax == Returned /\ MaxHits # 0 => Len(ret) <= MaxHits

\* No finished window is left unprinted when the search returns, and if nothing stopped it every
\* window is printed, and once.
AllPrinted ==
    /\ main = "returned" => intervals = <<>>
    /\ Returned /\ SomeWorker /\ Progress /\ ~failed /\ ~interrupted /\ MaxHits = 0 =>
        ToSet(printed) = DOMAIN windows /\ Len(printed) = Len(windows)

\* Nobody uses the queues or the frame of the caller after it returned.
NoUseAfterFree ==
    main = "returned" => /\ cancel \in {"none", "done"}
                         /\ \A t \in Threads : pc[t] \in {"none", "done"}

\* What a search over the maps returns is complete, true, sorted, without duplicates and within
\* the limit, its progress is printed, and nobody outlives it.
SearchCorrect ==
    SearchTypeOK /\ Complete /\ Sound /\ NoDuplicates /\ AtMostMax /\ AllPrinted /\ NoUseAfterFree

\* The search returns.
Returns == <>(main = "returned")
=============================================================================
