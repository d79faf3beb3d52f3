---------------------------- MODULE StringSearch ----------------------------
(***************************************************************************)
(* The search for strings in a file of librz/bin/bfile_string.c.  The file *)
(* is cut into intervals, which wait in an RzThreadQueue; the threads of a *)
(* pool take them out, scan them and keep what they find; the caller waits *)
(* for the queue to be empty, closes it, and joins what was found.  The    *)
(* queue is used through what ClosableDeque promises.                      *)
(***************************************************************************)
EXTENDS Integers, SequencesExt, FiniteSetsExt, TLC

CONSTANTS
    PoolSize,    \* threads
    Sizes,       \* bf->size, a set to choose from
    Alignment,   \* opt->raw_alignment, a power of two
    MaxRegion,   \* opt->max_region_size, 0 for none
    MinLength,   \* opt->min_length
    Sections,    \* o->sections, a sequence of [paddr, size, data]
    Strings,     \* the strings of the file, [at, len]
    CfTable,     \* the entries of the __cfstring sections, a sequence of [at, ref]
    MayFail      \* what can fail: "create", "scan", "push", "results"

StringSearchAssumption ==
    /\ PoolSize \in Nat \ {0} /\ Sizes \subseteq Nat
    /\ Alignment \in Nat \ {0} /\ {MaxRegion, MinLength} \subseteq Nat
    /\ MayFail \subseteq {"create", "scan", "push", "results"}

Threads == 1 .. PoolSize

VARIABLES
    raw,       \* RZ_BIN_STRING_SEARCH_MODE_RAW_BINARY
    size,      \* bf->size
    main,      \* "start", "create", "stop", "join", "close", "wait", "merge", "returned"
    slot,      \* the thread the caller is at
    queue,     \* the intervals
    closed,    \* the queue is
    pc,        \* of each thread: "none", "pop", "push", "done"
    loop,      \* std->loop
    batch,     \* what a thread found in its interval and did not keep yet
    results,   \* std->results
    db,        \* strings_db
    lost,      \* there was no memory to scan an interval or keep a string
    ok,        \* a vector is returned, not NULL
    ret        \* the vector

vars == <<raw, size, main, slot, queue, closed, pc, loop, batch, results, db, lost, ok, ret>>
-----------------------------------------------------------------------------
(* gen_intervals.                                                          *)

\* The size of a raw interval, in whole alignments.
SectionSize(sz) ==
    LET s == sz \div PoolSize
        r == IF s % Alignment = 0 THEN s ELSE s + Alignment - (s % Alignment)
    IN  IF r = 0 THEN Alignment ELSE r

\* An interval does not reach behind the end of the file.
Cut(from, length, sz) == [paddr |-> from, psize |-> IF from + length > sz THEN sz - from ELSE length]

RawIntervals(sz) ==
    LET s == SectionSize(sz)
    IN  [k \in 1 .. ((sz + s - 1) \div s) |-> Cut(s * (k - 1), s, sz)]

SectionIntervals(sz) ==
    LET scanned(s) == /\ s.paddr < sz /\ s.data
                      /\ MaxRegion # 0 => s.size <= MaxRegion
        cut(s) == Cut(s.paddr, s.size, sz)
        chosen == SelectSeq(Sections, scanned)
    IN  [k \in DOMAIN chosen |-> cut(chosen[k])]

Intervals == IF raw THEN RawIntervals(size) ELSE SectionIntervals(size)

\* gen_intervals fails, or leaves nothing to search.
NothingToDo ==
    \/ Intervals = <<>>
    \/ raw /\ MaxRegion # 0 /\ SectionSize(size) > MaxRegion
-----------------------------------------------------------------------------
(* A search thread: search_string_thread_runner.                           *)

\* string_scan_range: the part of each string that is in the interval.
Scan(itv) ==
    LET end == itv.paddr + itv.psize
        piece(s) == LET b == Max({s.at, itv.paddr})
                    IN  [at |-> b, len |-> Min({s.at + s.len, end}) - b]
    IN  SetToSortSeq({p \in {piece(s) : s \in Strings} : p.len >= Max({MinLength, 1})},
                     LAMBDA a, b : a.at < b.at)

Goto(t, label) == pc' = [pc EXCEPT ![t] = label]
Caller == UNCHANGED <<raw, size, main, slot, closed, loop, ok, ret>>

\* rz_th_queue_pop blocks while the queue is open and empty.  An interval that cannot be
\* scanned for want of memory is skipped.
PopInterval(t) ==
    /\ pc[t] = "pop"
    /\ \/ /\ ~closed /\ queue # <<>>
          /\ queue' = Tail(queue) /\ Goto(t, "push")
          /\ \/ batch' = [batch EXCEPT ![t] = Scan(Head(queue))] /\ UNCHANGED lost
             \/ "scan" \in MayFail /\ lost' = TRUE /\ UNCHANGED batch
       \/ /\ closed
          /\ Goto(t, "done") /\ UNCHANGED <<queue, batch, lost>>
    /\ Caller /\ UNCHANGED <<results, db>>

\* The string is kept, and listed under its address if that has none yet.
Keep(t) ==
    LET s == Head(batch[t])
    IN  /\ results' = [results EXCEPT ![t] = Append(@, s)]
        /\ db' = IF s.at \in DOMAIN db THEN db ELSE (s.at :> s.len) @@ db

\* The next string of the interval; at its end, or when told to stop, the head of the loop.
PushString(t) ==
    /\ pc[t] = "push"
    /\ \/ /\ batch[t] # <<>> /\ loop[t]
          /\ Keep(t)
          /\ batch' = [batch EXCEPT ![t] = Tail(@)] /\ UNCHANGED <<pc, lost>>
       \/ /\ batch[t] # <<>> /\ loop[t] /\ "push" \in MayFail
          /\ Goto(t, "done") /\ lost' = TRUE
          /\ batch' = [batch EXCEPT ![t] = <<>>] /\ UNCHANGED <<results, db>>
       \/ /\ batch[t] = <<>> \/ ~loop[t]
          /\ Goto(t, IF loop[t] THEN "pop" ELSE "done")
          /\ batch' = [batch EXCEPT ![t] = <<>>] /\ UNCHANGED <<results, db, lost>>
    /\ Caller /\ UNCHANGED queue

Runner(t) == PopInterval(t) \/ PushString(t)
-----------------------------------------------------------------------------
(* The caller: rz_bin_file_strings.                                        *)

Init ==
    /\ raw \in BOOLEAN /\ size \in Sizes
    /\ main = "start" /\ queue = <<>>
    /\ slot = 1 /\ closed = FALSE /\ ok = FALSE /\ ret = <<>> /\ lost = FALSE /\ db = <<>>
    /\ pc = [t \in Threads |-> "none"] /\ loop = [t \in Threads |-> TRUE]
    /\ batch = [t \in Threads |-> <<>>] /\ results = [t \in Threads |-> <<>>]

Pool == UNCHANGED <<raw, size, queue, batch, results, db, lost>>

\* gen_intervals, and the queue is filled with them.
Start ==
    /\ main = "start"
    /\ IF NothingToDo THEN main' = "returned" /\ UNCHANGED queue
       ELSE main' = "create" /\ queue' = Intervals
    /\ UNCHANGED <<raw, size, slot, closed, pc, loop, batch, results, db, lost, ok, ret>>

\* create_string_search_thread for each slot of the pool; when one fails, interrupt_pool.
Create ==
    /\ main = "create"
    /\ \/ /\ slot <= PoolSize
          /\ Goto(slot, "pop") /\ slot' = slot + 1 /\ UNCHANGED main
       \/ /\ slot <= PoolSize /\ "create" \in MayFail
          /\ main' = "stop" /\ slot' = 1 /\ UNCHANGED pc
       \/ /\ slot > PoolSize
          /\ main' = "close" /\ slot' = 1 /\ UNCHANGED pc
    /\ Pool /\ UNCHANGED <<closed, loop, ok, ret>>

\* interrupt_thread: the flag, for a slot that has a thread.
Stop ==
    /\ main = "stop"
    /\ IF slot > PoolSize \/ pc[slot] = "none"
       THEN main' = "returned" /\ UNCHANGED loop
       ELSE main' = "join" /\ loop' = [loop EXCEPT ![slot] = FALSE]
    /\ Pool /\ UNCHANGED <<slot, closed, pc, ok, ret>>

\* interrupt_thread: rz_th_wait.
Join ==
    /\ main = "join" /\ pc[slot] = "done"
    /\ main' = "stop" /\ slot' = slot + 1
    /\ Pool /\ UNCHANGED <<closed, pc, loop, ok, ret>>

\* Mutant: the queue is closed at once.
CloseWhenEmpty_now ==
    /\ main = "close"
    /\ closed' = TRUE /\ main' = "wait"
    /\ Pool /\ UNCHANGED <<slot, pc, loop, ok, ret>>

\* rz_th_queue_close_when_empty.
CloseWhenEmpty ==
    /\ main = "close" /\ queue = <<>>
    /\ closed' = TRUE /\ main' = "wait"
    /\ Pool /\ UNCHANGED <<slot, pc, loop, ok, ret>>

\* rz_th_pool_wait.
Wait ==
    /\ main = "wait"
    /\ IF slot > PoolSize THEN main' = "merge" /\ UNCHANGED slot
       ELSE pc[slot] = "done" /\ slot' = slot + 1 /\ UNCHANGED main
    /\ Pool /\ UNCHANGED <<closed, pc, loop, ok, ret>>

\* string_scan_range_cfstring: an entry that refers to a listed string is a string itself,
\* and is listed for the entries behind it.
WithCfStrings(found) ==
    LET entry(acc, e) ==
            IF e.ref \notin DOMAIN acc.db THEN acc
            ELSE [found |-> Append(acc.found, [at |-> e.at, len |-> acc.db[e.ref]]),
                  db |-> acc.db @@ (e.at :> acc.db[e.ref])]
    IN  FoldLeft(entry, [found |-> found, db |-> db], CfTable).found

\* string_compare_sort.
SortStrings(s) == SortSeq(s, LAMBDA a, b : a.at < b.at)

\* What the threads found is joined, the table of constant strings looked up, all sorted.
Merge ==
    /\ main = "merge"
    /\ LET joined == FlattenSeq(results)
       IN  \/ ok' = TRUE /\ ret' = SortStrings(IF raw THEN joined ELSE WithCfStrings(joined))
           \/ "results" \in MayFail /\ UNCHANGED <<ok, ret>>
    /\ main' = "returned"
    /\ Pool /\ UNCHANGED <<slot, closed, pc, loop>>

Main == Start \/ Create \/ Stop \/ Join \/ CloseWhenEmpty \/ Wait \/ Merge

Next == Main \/ \E t \in Threads : Runner(t)

Spec == Init /\ [][Next]_vars

\* The caller and every thread run.
FairSpec == Spec /\ WF_vars(Main) /\ \A t \in Threads : WF_vars(Runner(t))
-----------------------------------------------------------------------------
(* Properties.                                                             *)

Interval == [paddr : Nat, psize : Nat]
Found == Seq([at : Nat, len : Nat])

TypeOK ==
    /\ raw \in BOOLEAN /\ size \in Sizes /\ slot \in 1 .. PoolSize + 1
    /\ main \in {"start", "create", "stop", "join", "close", "wait", "merge", "returned"}
    /\ queue \in Seq(Interval) /\ closed \in BOOLEAN /\ lost \in BOOLEAN
    /\ pc \in [Threads -> {"none", "pop", "push", "done"}] /\ loop \in [Threads -> BOOLEAN]
    /\ batch \in [Threads -> Found] /\ results \in [Threads -> Found]
    /\ DOMAIN db \subseteq Nat /\ ok \in BOOLEAN /\ ret \in Found

Count(s, x) == Cardinality({k \in DOMAIN s : s[k] = x})
Scanned == FlattenSeq([k \in DOMAIN Intervals |-> Scan(Intervals[k])])

\* When nothing failed the vector holds what every interval contains, as often as the
\* intervals contain it, however the threads shared them out.
Complete ==
    ok /\ ~lost =>
        \A x \in ToSet(Scanned) : Count(ret, x) >= Count(Scanned, x)

\* The intervals of a raw search are next to each other and reach the end of the file: a string
\* that no cut divides is returned whole, and once.
RawOnce ==
    raw /\ ok /\ ~lost =>
        \A s \in Strings :
            /\ s.at + s.len <= size /\ s.len >= Max({MinLength, 1})
            /\ s.at \div SectionSize(size) = (s.at + s.len - 1) \div SectionSize(size)
            => Count(ret, s) = 1

\* The vector is sorted by address.
InOrder ==
    ok => \A i, j \in DOMAIN ret : i < j => ret[i].at <= ret[j].at

\* Every constant string whose characters were found is returned, whichever thread found them.
CfResolved ==
    ok /\ ~raw =>
        \A k \in DOMAIN CfTable :
            (\E i \in DOMAIN ret : ret[i].at = CfTable[k].ref)
                => \E i \in DOMAIN ret : ret[i].at = CfTable[k].at

\* No thread uses the queue, the table or its own data after the caller freed them, whatever failed.
NoUseAfterFree == main = "returned" => \A t \in Threads : pc[t] \in {"none", "done"}

\* What rz_bin_file_strings returns is complete, sorted and of no freed memory, however the
\* threads share the intervals and whatever of them fails.
StringsSafe ==
    TypeOK /\ Complete /\ RawOnce /\ InOrder /\ CfResolved /\ NoUseAfterFree

\* Where the caller and the threads wait for each other for ever: a thread could
\* not be created and another one sleeps on the open queue, or all threads gave
\* up for want of memory with intervals left.
Stranded ==
    \/ main = "join" /\ pc[slot] = "pop" /\ queue = <<>>
    \/ main = "close" /\ queue # <<>> /\ \A t \in Threads : pc[t] = "done"

\* The search returns, or waits in one of these known ways.
Returns == <>(main = "returned" \/ Stranded)
=============================================================================
