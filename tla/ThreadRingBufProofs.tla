------------------------ MODULE ThreadRingBufProofs ------------------------
(***************************************************************************)
(* RzThreadRingBuf for any number of threads, slots and elements: no       *)
(* wakeup is lost, close waits for everybody who entered, and the buffer   *)
(* is a first-in first-out channel.                                        *)
(***************************************************************************)
EXTENDS ThreadRingBuf, Sequences, SequencesExt, SequenceTheorems,
        FiniteSetTheorems, TLAPS

-----------------------------------------------------------------------------
(* Append and Tail, the two ends of the channel.                            *)

\* One more item, at the end.
LEMMA AppendFacts ==
    ASSUME NEW S, NEW s \in Seq(S), NEW x \in S
    PROVE  /\ Append(s, x) \in Seq(S)
           /\ Append(s, x) # <<>>
           /\ Len(Append(s, x)) = Len(s) + 1
           /\ \A i \in 1..Len(s) : Append(s, x)[i] = s[i]
           /\ Append(s, x)[Len(s) + 1] = x
    OBVIOUS

\* The first item is taken, the others move by one.
LEMMA TailFacts ==
    ASSUME NEW S, NEW s \in Seq(S), s # <<>>
    PROVE  /\ Tail(s) \in Seq(S)
           /\ Len(Tail(s)) = Len(s) - 1
           /\ \A i \in 1..(Len(s) - 1) : Tail(s)[i] = s[i + 1]
           /\ Head(s) = s[1]
           /\ Head(s) \in S
           /\ Len(s) \in Nat \ {0}
    OBVIOUS
-----------------------------------------------------------------------------

\* The threads that stand at a label of S in control state p.
Stand(p, S) == {t \in Threads : p[t] \in S}

LEMMA StandFinite ==
    ASSUME NEW p, NEW S
    PROVE  IsFiniteSet(Stand(p, S)) /\ Cardinality(Stand(p, S)) \in Nat
    BY RingBufAssumption, FS_Subset, FS_CardinalityType DEF Stand

\* One thread moves, to label l.
Moves(p, q, t, l) ==
    /\ p \in [Threads -> Labels] /\ q \in [Threads -> Labels]
    /\ q[t] = l
    /\ \A u \in Threads \ {t} : q[u] = p[u]

LEMMA ExceptMoves ==
    ASSUME NEW p \in [Threads -> Labels], NEW t \in Threads, NEW l \in Labels
    PROVE  Moves(p, [p EXCEPT ![t] = l], t, l)
    BY DEF Moves

LEMMA OneMoves ==
    ASSUME NEW p, NEW q, NEW t \in Threads, NEW l, Moves(p, q, t, l), NEW S
    PROVE  Cardinality(Stand(q, S)) =
             Cardinality(Stand(p, S)) + (IF l \in S THEN 1 ELSE 0)
                                      - (IF p[t] \in S THEN 1 ELSE 0)
    <1>1. IsFiniteSet(Stand(p, S)) /\ Cardinality(Stand(p, S)) \in Nat
        BY StandFinite
    <1>3. q[t] = l /\ \A u \in Threads \ {t} : q[u] = p[u]
        BY DEF Moves
    <1>4. t \in Stand(p, S) <=> p[t] \in S
        BY DEF Stand
    <1>5. CASE l \in S
        <2>1. Stand(q, S) = Stand(p, S) \cup {t}
            BY <1>3, <1>5 DEF Stand
        <2>2. Cardinality(Stand(q, S)) = IF t \in Stand(p, S)
                THEN Cardinality(Stand(p, S)) ELSE Cardinality(Stand(p, S)) + 1
            BY <1>1, <2>1, FS_AddElement
        <2> QED
            BY <1>1, <1>4, <1>5, <2>2
    <1>6. CASE l \notin S
        <2>1. Stand(q, S) = Stand(p, S) \ {t}
            BY <1>3, <1>6 DEF Stand
        <2>2. Cardinality(Stand(q, S)) = IF t \in Stand(p, S)
                THEN Cardinality(Stand(p, S)) - 1 ELSE Cardinality(Stand(p, S))
            BY <1>1, <2>1, FS_RemoveElement
        <2> QED
            BY <1>1, <1>4, <1>6, <2>2
    <1> QED
        BY <1>5, <1>6

-----------------------------------------------------------------------------
(* What signals do to the control state.                                   *)

\* Control state q comes from p by waking threads at `wait': at least k of them
\* if some still wait.
Wakes(p, q, wait, woken, k) ==
    /\ q \in [Threads -> Labels]
    /\ \A t \in Threads : q[t] = p[t] \/ (p[t] = wait /\ q[t] = woken)
    /\ Stand(q, {wait}) # {} =>
         Cardinality(Stand(q, {woken})) >= Cardinality(Stand(p, {woken})) + k

LEMMA NobodyWakes ==
    ASSUME NEW p \in [Threads -> Labels], NEW wait, NEW woken
    PROVE  Wakes(p, p, wait, woken, 0)
    BY StandFinite DEF Wakes

\* rz_th_cond_signal.
LEMMA SignalWakes ==
    ASSUME NEW p \in [Threads -> Labels], NEW wait \in Labels,
           NEW woken \in Labels, wait # woken, NEW q \in Signal(p, wait, woken)
    PROVE  Wakes(p, q, wait, woken, 1)
    <1> DEFINE W == {t \in DOMAIN p : p[t] = wait}
    <1>1. CASE W = {}
        <2>1. q = p /\ Stand(p, {wait}) = {}
            BY <1>1 DEF Signal, Stand
        <2> QED
            BY <2>1 DEF Wakes
    <1>2. CASE W # {}
        <2>1. PICK v \in W : q = [p EXCEPT ![v] = woken]
            BY <1>2 DEF Signal
        <2>2. v \in Threads /\ p[v] = wait
            BY <2>1
        <2>3. /\ q \in [Threads -> Labels]
              /\ Cardinality(Stand(q, {woken})) = Cardinality(Stand(p, {woken})) + 1
            <3> DEFINE S == {woken}
            <3>1. woken \in S /\ p[v] \notin S
                BY <2>2
            <3> HIDE DEF S
            <3>2. Moves(p, q, v, woken)
                BY <2>1, <2>2, ExceptMoves
            <3>3. Cardinality(Stand(q, S)) =
                    Cardinality(Stand(p, S)) + (IF woken \in S THEN 1 ELSE 0)
                                             - (IF p[v] \in S THEN 1 ELSE 0)
                BY <2>2, <3>2, OneMoves
            <3>4. Cardinality(Stand(q, S)) = Cardinality(Stand(p, S)) + 1
                BY <3>1, <3>3, StandFinite
            <3> QED
                BY <3>2, <3>4 DEF S, Moves
        <2> QED
            BY <2>1, <2>2, <2>3, StandFinite DEF Wakes
    <1> QED
        BY <1>1, <1>2

\* rz_th_cond_signal_all.
LEMMA SignalAllWakes ==
    ASSUME NEW p \in [Threads -> Labels], NEW wait \in Labels,
           NEW woken \in Labels, wait # woken
    PROVE  LET q == SignalAll(p, wait, woken)
           IN  Wakes(p, q, wait, woken, 0) /\ Stand(q, {wait}) = {}
    BY DEF SignalAll, Wakes, Stand

\* rz_th_cond_signal, k times.
LEMMA SignalsWake ==
    ASSUME NEW p \in [Threads -> Labels], NEW wait \in Labels,
           NEW woken \in Labels, wait # woken, NEW k \in Nat,
           NEW q \in Signals(p, wait, woken, k)
    PROVE  Wakes(p, q, wait, woken, k)
    <1> DEFINE W == {t \in DOMAIN p : p[t] = wait}
    <1>1. PICK S \in SUBSET W :
            /\ IF Cardinality(W) <= k THEN S = W ELSE Cardinality(S) = k
            /\ q = [t \in DOMAIN p |-> IF t \in S THEN woken ELSE p[t]]
        BY DEF Signals
    <1>2. /\ q \in [Threads -> Labels]
          /\ \A t \in Threads : q[t] = p[t] \/ (p[t] = wait /\ q[t] = woken)
        BY <1>1
    <1>3. ASSUME Stand(q, {wait}) # {}
          PROVE  Cardinality(Stand(q, {woken})) = Cardinality(Stand(p, {woken})) + k
        <2>1. S # W
            BY <1>1, <1>3 DEF Stand
        <2>2. Cardinality(S) = k /\ S \subseteq Threads
            BY <1>1, <2>1
        <2>3. Stand(q, {woken}) = Stand(p, {woken}) \cup S
            BY <1>1 DEF Stand
        <2>4. Stand(p, {woken}) \cap S = {}
            BY <1>1 DEF Stand
        <2>5. IsFiniteSet(S)
            BY <2>2, RingBufAssumption, FS_Subset
        <2>6. IsFiniteSet(Stand(p, {woken})) /\ Cardinality(Stand(p, {woken})) \in Nat
            BY StandFinite
        <2>7. Cardinality(Stand(p, {woken}) \cup S) =
                Cardinality(Stand(p, {woken})) + Cardinality(S)
                    - Cardinality(Stand(p, {woken}) \cap S)
            BY <2>5, <2>6, FS_Union
        <2>8. Cardinality(Stand(p, {woken}) \cap S) = 0
            BY <2>4, FS_EmptySet
        <2> QED
            BY <2>2, <2>3, <2>6, <2>7, <2>8
    <1> QED
        BY <1>2, <1>3, StandFinite DEF Wakes
-----------------------------------------------------------------------------
(* No wakeup is lost.                                                      *)

Waits == {"put_wait", "put_woken", "take_wait", "take_woken"}

\* What signalling leaves alone: the threads at labels that are not waited at,
\* and the number of those that are between the counters' increment and
\* decrement.
LEMMA WakesKeep ==
    ASSUME NEW p \in [Threads -> Labels], NEW q, NEW wait, NEW woken, NEW k \in Nat,
           Wakes(p, q, wait, woken, k), NEW S, wait \in S <=> woken \in S
    PROVE  Stand(q, S) = Stand(p, S)
    BY DEF Wakes, Stand

LEMMA WakesMore ==
    ASSUME NEW p \in [Threads -> Labels], NEW q, NEW wait, NEW woken, NEW k \in Nat,
           Wakes(p, q, wait, woken, k), wait # woken
    PROVE  /\ Stand(q, {wait}) \subseteq Stand(p, {wait})
           /\ Cardinality(Stand(p, {woken})) <= Cardinality(Stand(q, {woken}))
    <1>1. Stand(q, {wait}) \subseteq Stand(p, {wait})
        BY DEF Wakes, Stand
    <1>2. Stand(p, {woken}) \subseteq Stand(q, {woken})
        BY DEF Wakes, Stand
    <1>3. IsFiniteSet(Stand(q, {woken}))
        BY StandFinite
    <1> QED
        BY <1>1, <1>2, <1>3, FS_Subset

\* A thread that does not sleep goes to where it does not wait.
LEMMA LeavingCounts ==
    ASSUME NEW p, NEW q, NEW t \in Threads, NEW l, Moves(p, q, t, l),
           l \notin Waits, p[t] \notin {"put_wait", "take_wait"}
    PROVE  /\ Stand(q, {"put_wait"}) = Stand(p, {"put_wait"})
           /\ Stand(q, {"take_wait"}) = Stand(p, {"take_wait"})
           /\ Cardinality(Stand(q, {"put_woken"})) = Cardinality(Stand(p, {"put_woken"}))
                - (IF p[t] = "put_woken" THEN 1 ELSE 0)
           /\ Cardinality(Stand(q, {"take_woken"})) = Cardinality(Stand(p, {"take_woken"}))
                - (IF p[t] = "take_woken" THEN 1 ELSE 0)
           /\ Cardinality(Stand(q, {"put_wait", "put_woken"})) =
                Cardinality(Stand(p, {"put_wait", "put_woken"}))
                - (IF p[t] = "put_woken" THEN 1 ELSE 0)
           /\ Cardinality(Stand(q, {"take_wait", "take_woken"})) =
                Cardinality(Stand(p, {"take_wait", "take_woken"}))
                - (IF p[t] = "take_woken" THEN 1 ELSE 0)
    <1>1. \A S : /\ Cardinality(Stand(p, S)) \in Nat
                 /\ Cardinality(Stand(q, S)) =
                      Cardinality(Stand(p, S)) + (IF l \in S THEN 1 ELSE 0)
                                               - (IF p[t] \in S THEN 1 ELSE 0)
        BY OneMoves, StandFinite
    <1>2. \A S \in SUBSET Waits : l \notin S
        OBVIOUS
    <1>3. \A S \in SUBSET Waits : Cardinality(Stand(q, S)) =
            Cardinality(Stand(p, S)) - (IF p[t] \in S THEN 1 ELSE 0)
        BY <1>1, <1>2
    <1>4. /\ p[t] \in {"put_woken"} <=> p[t] = "put_woken"
          /\ p[t] \in {"take_woken"} <=> p[t] = "take_woken"
          /\ p[t] \in {"put_wait", "put_woken"} <=> p[t] = "put_woken"
          /\ p[t] \in {"take_wait", "take_woken"} <=> p[t] = "take_woken"
        OBVIOUS
    <1>5. /\ {"put_woken"} \in SUBSET Waits /\ {"take_woken"} \in SUBSET Waits
          /\ {"put_wait", "put_woken"} \in SUBSET Waits
          /\ {"take_wait", "take_woken"} \in SUBSET Waits
        BY DEF Waits
    <1>6. /\ Stand(q, {"put_wait"}) = Stand(p, {"put_wait"})
          /\ Stand(q, {"take_wait"}) = Stand(p, {"take_wait"})
        BY DEF Moves, Stand, Waits
    <1> QED
        BY <1>3, <1>4, <1>5, <1>6

\* The invariant about waits, of control state p with ww writers and rw readers
\* counted, n elements to read, closed or not.
Fits(p, ww, rw, n, c) ==
    /\ ww = Cardinality(Stand(p, {"put_wait", "put_woken"}))
    /\ rw = Cardinality(Stand(p, {"take_wait", "take_woken"}))
    /\ Stand(p, {"take_wait"}) # {} =>
         c = FALSE /\ n <= Cardinality(Stand(p, {"take_woken"}))
    /\ Stand(p, {"put_wait"}) # {} =>
         c = FALSE /\ N - n <= Cardinality(Stand(p, {"put_woken"}))

LEMMA NoLostWakeupIs ==
    /\ NoLostWakeup <=>
         TypeOK /\ Fits(pc, writers_waiting, readers_waiting, to_read, closed)
    /\ NoLostWakeup' <=>
         TypeOK' /\ Fits(pc', writers_waiting', readers_waiting', to_read', closed')
    BY DEF NoLostWakeup, WaitersCounted, NoLostReaderWakeup, NoLostWriterWakeup, At,
        Fits, Stand

\* Thread t leaves, taking itself off its counter, for a place where it does
\* not wait.
LEMMA LeavingFits ==
    ASSUME NEW p, NEW q, NEW t \in Threads, NEW l, Moves(p, q, t, l),
           l \notin Waits, p[t] \notin {"put_wait", "take_wait"},
           NEW ww, NEW rw, NEW n \in Int, NEW c,
           ww = Cardinality(Stand(p, {"put_wait", "put_woken"}))
                  - (IF p[t] = "put_woken" THEN 1 ELSE 0),
           rw = Cardinality(Stand(p, {"take_wait", "take_woken"}))
                  - (IF p[t] = "take_woken" THEN 1 ELSE 0),
           Stand(p, {"take_wait"}) # {} =>
             c = FALSE /\ n <= Cardinality(Stand(p, {"take_woken"}))
                                 - (IF p[t] = "take_woken" THEN 1 ELSE 0),
           Stand(p, {"put_wait"}) # {} =>
             c = FALSE /\ N - n <= Cardinality(Stand(p, {"put_woken"}))
                                     - (IF p[t] = "put_woken" THEN 1 ELSE 0)
    PROVE  Fits(q, ww, rw, n, c)
    BY LeavingCounts DEF Fits

\* Steps in which nobody waits, stops waiting or is woken.
LEMMA QuietFits ==
    ASSUME NoLostWakeup, NEW t \in Threads, NEW l \in Labels \ Waits,
           pc[t] \notin Waits, pc' = [pc EXCEPT ![t] = l],
           UNCHANGED <<writers_waiting, readers_waiting>>,
           closed = TRUE \/ UNCHANGED <<to_read, closed>>, to_read' \in Int
    PROVE  Fits(pc', writers_waiting', readers_waiting', to_read', closed')
    <1>1. TypeOK /\ Fits(pc, writers_waiting, readers_waiting, to_read, closed)
        BY NoLostWakeupIs
    <1>2. Moves(pc, pc', t, l)
        BY <1>1, ExceptMoves DEF TypeOK
    <1>3. \A S \in SUBSET Waits : Stand(pc', S) = Stand(pc, S)
        BY <1>2 DEF Moves, Stand
    <1>4. /\ {"put_wait"} \in SUBSET Waits /\ {"put_woken"} \in SUBSET Waits
          /\ {"take_wait"} \in SUBSET Waits /\ {"take_woken"} \in SUBSET Waits
          /\ {"put_wait", "put_woken"} \in SUBSET Waits
          /\ {"take_wait", "take_woken"} \in SUBSET Waits
        BY DEF Waits
    <1>5. closed = TRUE => Stand(pc, {"put_wait"}) = {} /\ Stand(pc, {"take_wait"}) = {}
        BY <1>1 DEF Fits
    <1> QED
        BY <1>1, <1>3, <1>4, <1>5 DEF Fits

\* A wait begins, or begins again: the thread is counted once, and what it
\* would be woken for is not there.
LEMMA WaitFits ==
    ASSUME NoLostWakeup, NEW t \in Threads, PutWait(t) \/ TakeWait(t)
    PROVE  Fits(pc', writers_waiting', readers_waiting', to_read', closed')
    <1>1. TypeOK /\ Fits(pc, writers_waiting, readers_waiting, to_read, closed)
        BY NoLostWakeupIs
    <1>2. \A S : Cardinality(Stand(pc, S)) \in Nat
        BY StandFinite
    <1>3. ASSUME PutWait(t)
          PROVE  Fits(pc', writers_waiting', readers_waiting', to_read', closed')
        <2>1. Moves(pc, pc', t, "put_wait")
            BY <1>1, <1>3, ExceptMoves DEF TypeOK, PutWait, Labels
        <2>2. \A S : Cardinality(Stand(pc', S)) =
                Cardinality(Stand(pc, S)) + (IF "put_wait" \in S THEN 1 ELSE 0)
                                          - (IF pc[t] \in S THEN 1 ELSE 0)
            BY <2>1, OneMoves
        <2>3. pc[t] = "put" \/ pc[t] = "put_woken"
            BY <1>3 DEF PutWait
        <2>4. Cardinality(Stand(pc', {"put_wait", "put_woken"})) =
                Cardinality(Stand(pc, {"put_wait", "put_woken"})) + 1
                    - (IF pc[t] = "put_woken" THEN 1 ELSE 0)
            BY <2>2, <2>3, <1>2
        <2>5. /\ Stand(pc', {"take_wait", "take_woken"}) = Stand(pc, {"take_wait", "take_woken"})
              /\ Stand(pc', {"take_wait"}) = Stand(pc, {"take_wait"})
              /\ Stand(pc', {"take_woken"}) = Stand(pc, {"take_woken"})
            BY <2>1, <2>3 DEF Moves, Stand
        <2>6. Cardinality(Stand(pc', {"put_woken"})) \in Nat
            BY StandFinite
        <2>7. /\ closed = FALSE /\ to_read = N
              /\ writers_waiting' = writers_waiting + 1
                                      - (IF pc[t] = "put_woken" THEN 1 ELSE 0)
              /\ UNCHANGED <<readers_waiting, to_read, closed>>
            BY <1>1, <1>3 DEF PutWait, WritersNow, data, TypeOK
        <2> QED
            BY <1>1, <1>2, <2>4, <2>5, <2>6, <2>7, RingBufAssumption DEF Fits
    <1>4. ASSUME TakeWait(t)
          PROVE  Fits(pc', writers_waiting', readers_waiting', to_read', closed')
        <2>1. Moves(pc, pc', t, "take_wait")
            BY <1>1, <1>4, ExceptMoves DEF TypeOK, TakeWait, Labels
        <2>2. \A S : Cardinality(Stand(pc', S)) =
                Cardinality(Stand(pc, S)) + (IF "take_wait" \in S THEN 1 ELSE 0)
                                          - (IF pc[t] \in S THEN 1 ELSE 0)
            BY <2>1, OneMoves
        <2>3. pc[t] = "take_blocking" \/ pc[t] = "take_woken"
            BY <1>4 DEF TakeWait
        <2>4. Cardinality(Stand(pc', {"take_wait", "take_woken"})) =
                Cardinality(Stand(pc, {"take_wait", "take_woken"})) + 1
                    - (IF pc[t] = "take_woken" THEN 1 ELSE 0)
            BY <2>2, <2>3, <1>2
        <2>5. /\ Stand(pc', {"put_wait", "put_woken"}) = Stand(pc, {"put_wait", "put_woken"})
              /\ Stand(pc', {"put_wait"}) = Stand(pc, {"put_wait"})
              /\ Stand(pc', {"put_woken"}) = Stand(pc, {"put_woken"})
            BY <2>1, <2>3 DEF Moves, Stand
        <2>6. Cardinality(Stand(pc', {"take_woken"})) \in Nat
            BY StandFinite
        <2>7. /\ closed = FALSE /\ to_read = 0
              /\ readers_waiting' = readers_waiting + 1
                                      - (IF pc[t] = "take_woken" THEN 1 ELSE 0)
              /\ UNCHANGED <<writers_waiting, to_read, closed>>
            BY <1>1, <1>4 DEF TakeWait, ReadersNow, data, TypeOK
        <2> QED
            BY <1>1, <1>2, <2>4, <2>5, <2>6, <2>7, RingBufAssumption DEF Fits
    <1> QED
        BY <1>3, <1>4

\* A wait that returns without a signal only adds a thread that is awake.
LEMMA SpuriousFits ==
    ASSUME NoLostWakeup, NEW t \in Threads, SpuriousWakeup(t)
    PROVE  Fits(pc', writers_waiting', readers_waiting', to_read', closed')
    <1>1. TypeOK /\ Fits(pc, writers_waiting, readers_waiting, to_read, closed)
        BY NoLostWakeupIs
    <1>2. /\ Stand(pc', {"put_wait", "put_woken"}) = Stand(pc, {"put_wait", "put_woken"})
          /\ Stand(pc', {"take_wait", "take_woken"}) = Stand(pc, {"take_wait", "take_woken"})
          /\ Stand(pc', {"put_wait"}) \subseteq Stand(pc, {"put_wait"})
          /\ Stand(pc', {"take_wait"}) \subseteq Stand(pc, {"take_wait"})
          /\ Stand(pc, {"put_woken"}) \subseteq Stand(pc', {"put_woken"})
          /\ Stand(pc, {"take_woken"}) \subseteq Stand(pc', {"take_woken"})
        BY <1>1 DEF SpuriousWakeup, Stand, TypeOK
    <1>3. /\ Cardinality(Stand(pc, {"put_woken"})) <= Cardinality(Stand(pc', {"put_woken"}))
          /\ Cardinality(Stand(pc, {"take_woken"})) <= Cardinality(Stand(pc', {"take_woken"}))
        BY <1>2, StandFinite, FS_Subset
    <1>4. \A S : Cardinality(Stand(pc, S)) \in Nat /\ Cardinality(Stand(pc', S)) \in Nat
        BY StandFinite
    <1>5. UNCHANGED <<writers_waiting, readers_waiting, to_read, closed>>
        BY DEF SpuriousWakeup, data
    <1> QED
        BY <1>1, <1>2, <1>3, <1>4, <1>5, RingBufAssumption DEF Fits, TypeOK

\* LEAVE_RBUF after the conditions led to control state p.
LEMMA LeaveViaMoves ==
    ASSUME TypeOK, NEW t \in Threads, NEW p \in [Threads -> Labels],
           NEW at \in Labels, LeaveVia(t, p, at)
    PROVE  /\ Moves(p, pc', t, at)
           /\ pc' \in [Threads -> Labels]
           /\ lock' \in Threads \cup {NoThread}
           /\ threads_awaiting' \in Int
    BY ExceptMoves DEF LeaveVia, TypeOK, Moves

\* put: as many readers are woken as there are elements more.
LEMMA PutFits ==
    ASSUME NoLostWakeup, NEW t \in Threads, NEW x \in Elems, PutElem(t, x)
    PROVE  /\ Fits(pc', writers_waiting', readers_waiting', to_read', closed')
           /\ pc' \in [Threads -> Labels] /\ lock' \in Threads \cup {NoThread}
           /\ threads_awaiting' \in Int
    <1>1. TypeOK /\ Fits(pc, writers_waiting, readers_waiting, to_read, closed)
        BY NoLostWakeupIs
    <1>2. PICK p \in (IF readers_waiting > 0
                      THEN Signal(pc, "take_wait", "take_woken") ELSE {pc}) :
            LeaveVia(t, p, "leave")
        BY DEF PutElem
    <1>3. /\ pc[t] \in {"put", "put_woken"} /\ closed = FALSE /\ closed' = closed
          /\ to_read' = to_read + 1 /\ readers_waiting' = readers_waiting
          /\ writers_waiting' = writers_waiting - (IF pc[t] = "put_woken" THEN 1 ELSE 0)
        BY <1>1 DEF PutElem, WritersNow, TypeOK
    <1>4. pc \in [Threads -> Labels] /\ to_read \in 0..N
          /\ "take_wait" \in Labels /\ "take_woken" \in Labels /\ "leave" \in Labels
        BY <1>1 DEF TypeOK, Labels
    <1>5. \A S : IsFiniteSet(Stand(pc, S)) /\ Cardinality(Stand(pc, S)) \in Nat
                 /\ Cardinality(Stand(p, S)) \in Nat
        BY StandFinite
    <1>6. \E k \in {0, 1} : /\ Wakes(pc, p, "take_wait", "take_woken", k)
                            /\ k = 1 \/ Stand(pc, {"take_wait"}) = {}
        <2>1. CASE readers_waiting > 0
            BY <1>2, <1>4, <2>1, SignalWakes
        <2>2. CASE ~(readers_waiting > 0)
            <3>1. Cardinality(Stand(pc, {"take_wait", "take_woken"})) = 0
                BY <1>1, <1>5, <2>2 DEF Fits
            <3>2. Stand(pc, {"take_wait", "take_woken"}) = {}
                BY <1>5, <3>1, FS_EmptySet
            <3>3. Stand(pc, {"take_wait"}) = {}
                BY <3>2 DEF Stand
            <3>4. Wakes(pc, pc, "take_wait", "take_woken", 0)
                BY <1>4, NobodyWakes
            <3> QED
                BY <1>2, <2>2, <3>3, <3>4
        <2> QED
            BY <2>1, <2>2
    <1>7. p \in [Threads -> Labels] /\ p[t] = pc[t]
        BY <1>3, <1>6 DEF Wakes
    <1>8. /\ Stand(p, {"put_wait", "put_woken"}) = Stand(pc, {"put_wait", "put_woken"})
          /\ Stand(p, {"take_wait", "take_woken"}) = Stand(pc, {"take_wait", "take_woken"})
          /\ Stand(p, {"put_wait"}) = Stand(pc, {"put_wait"})
          /\ Stand(p, {"put_woken"}) = Stand(pc, {"put_woken"})
        BY <1>6 DEF Wakes, Stand
    <1>9. Stand(p, {"take_wait"}) # {} =>
            to_read + 1 <= Cardinality(Stand(p, {"take_woken"}))
        <2>1. Stand(p, {"take_wait"}) \subseteq Stand(pc, {"take_wait"})
            BY <1>6 DEF Wakes, Stand
        <2> QED
            BY <1>1, <1>4, <1>5, <1>6, <2>1 DEF Fits, Wakes
    <1>10. Moves(p, pc', t, "leave") /\ pc' \in [Threads -> Labels]
           /\ lock' \in Threads \cup {NoThread} /\ threads_awaiting' \in Int
        BY <1>1, <1>2, <1>4, <1>7, LeaveViaMoves
    <1>11. "leave" \notin Waits /\ p[t] \notin {"put_wait", "take_wait"}
           /\ p[t] # "take_woken"
        BY <1>3, <1>7 DEF Waits
    <1>12. Fits(pc', writers_waiting', readers_waiting', to_read', closed')
        <2>1. writers_waiting' = Cardinality(Stand(p, {"put_wait", "put_woken"}))
                  - (IF p[t] = "put_woken" THEN 1 ELSE 0)
            BY <1>1, <1>3, <1>7, <1>8 DEF Fits
        <2>2. readers_waiting' = Cardinality(Stand(p, {"take_wait", "take_woken"}))
                  - (IF p[t] = "take_woken" THEN 1 ELSE 0)
            BY <1>1, <1>3, <1>5, <1>8, <1>11 DEF Fits
        <2>3. Stand(p, {"take_wait"}) # {} =>
                closed' = FALSE /\ to_read' <= Cardinality(Stand(p, {"take_woken"}))
                                 - (IF p[t] = "take_woken" THEN 1 ELSE 0)
            BY <1>3, <1>4, <1>5, <1>9, <1>11
        <2>4. Stand(p, {"put_wait"}) # {} =>
                closed' = FALSE /\ N - to_read' <= Cardinality(Stand(p, {"put_woken"}))
                                     - (IF p[t] = "put_woken" THEN 1 ELSE 0)
            BY <1>1, <1>3, <1>4, <1>5, <1>8, RingBufAssumption DEF Fits
        <2>5. to_read' \in Int
            BY <1>3, <1>4
        <2> QED
            BY <1>10, <1>11, <2>1, <2>2, <2>3, <2>4, <2>5, LeavingFits
    <1> QED
        BY <1>10, <1>12

\* take: a writer is woken for the slot that becomes free.
LEMMA TakeFits ==
    ASSUME NoLostWakeup, NEW t \in Threads, TakeElem(t)
    PROVE  /\ Fits(pc', writers_waiting', readers_waiting', to_read', closed')
           /\ pc' \in [Threads -> Labels] /\ lock' \in Threads \cup {NoThread}
           /\ threads_awaiting' \in Int
    <1>1. TypeOK /\ Fits(pc, writers_waiting, readers_waiting, to_read, closed)
        BY NoLostWakeupIs
    <1>2. PICK p \in (IF writers_waiting > 0
                      THEN Signal(pc, "put_wait", "put_woken") ELSE {pc}) :
            LeaveVia(t, p, "leave")
        BY DEF TakeElem
    <1>3. /\ pc[t] \in {"take", "take_blocking", "take_woken"}
          /\ closed = FALSE /\ closed' = closed
          /\ to_read' = to_read - 1 /\ writers_waiting' = writers_waiting
          /\ readers_waiting' = readers_waiting - (IF pc[t] = "take_woken" THEN 1 ELSE 0)
        BY <1>1 DEF TakeElem, ReadersNow, TypeOK
    <1>4. pc \in [Threads -> Labels] /\ to_read \in 0..N
          /\ "put_wait" \in Labels /\ "put_woken" \in Labels /\ "leave" \in Labels
        BY <1>1 DEF TypeOK, Labels
    <1>5. \A S : IsFiniteSet(Stand(pc, S)) /\ Cardinality(Stand(pc, S)) \in Nat
                 /\ Cardinality(Stand(p, S)) \in Nat
        BY StandFinite
    <1>6. \E k \in {0, 1} : /\ Wakes(pc, p, "put_wait", "put_woken", k)
                            /\ k = 1 \/ Stand(pc, {"put_wait"}) = {}
        <2>1. CASE writers_waiting > 0
            BY <1>2, <1>4, <2>1, SignalWakes
        <2>2. CASE ~(writers_waiting > 0)
            <3>1. Cardinality(Stand(pc, {"put_wait", "put_woken"})) = 0
                BY <1>1, <1>5, <2>2 DEF Fits
            <3>2. Stand(pc, {"put_wait", "put_woken"}) = {}
                BY <1>5, <3>1, FS_EmptySet
            <3>3. Stand(pc, {"put_wait"}) = {}
                BY <3>2 DEF Stand
            <3>4. Wakes(pc, pc, "put_wait", "put_woken", 0)
                BY <1>4, NobodyWakes
            <3> QED
                BY <1>2, <2>2, <3>3, <3>4
        <2> QED
            BY <2>1, <2>2
    <1>7. p \in [Threads -> Labels] /\ p[t] = pc[t]
        BY <1>3, <1>6 DEF Wakes
    <1>8. /\ Stand(p, {"put_wait", "put_woken"}) = Stand(pc, {"put_wait", "put_woken"})
          /\ Stand(p, {"take_wait", "take_woken"}) = Stand(pc, {"take_wait", "take_woken"})
          /\ Stand(p, {"take_wait"}) = Stand(pc, {"take_wait"})
          /\ Stand(p, {"take_woken"}) = Stand(pc, {"take_woken"})
        BY <1>6 DEF Wakes, Stand
    <1>9. Stand(p, {"put_wait"}) # {} =>
            N - to_read + 1 <= Cardinality(Stand(p, {"put_woken"}))
        <2>1. Stand(p, {"put_wait"}) \subseteq Stand(pc, {"put_wait"})
            BY <1>6 DEF Wakes, Stand
        <2> QED
            BY <1>1, <1>4, <1>5, <1>6, <2>1, RingBufAssumption DEF Fits, Wakes
    <1>10. Moves(p, pc', t, "leave") /\ pc' \in [Threads -> Labels]
           /\ lock' \in Threads \cup {NoThread} /\ threads_awaiting' \in Int
        BY <1>1, <1>2, <1>4, <1>7, LeaveViaMoves
    <1>11. "leave" \notin Waits /\ p[t] \notin {"put_wait", "take_wait"}
           /\ p[t] # "put_woken"
        BY <1>3, <1>7 DEF Waits
    <1>12. Fits(pc', writers_waiting', readers_waiting', to_read', closed')
        <2>1. writers_waiting' = Cardinality(Stand(p, {"put_wait", "put_woken"}))
                  - (IF p[t] = "put_woken" THEN 1 ELSE 0)
            BY <1>1, <1>3, <1>5, <1>8, <1>11 DEF Fits
        <2>2. readers_waiting' = Cardinality(Stand(p, {"take_wait", "take_woken"}))
                  - (IF p[t] = "take_woken" THEN 1 ELSE 0)
            BY <1>1, <1>3, <1>7, <1>8 DEF Fits
        <2>3. Stand(p, {"take_wait"}) # {} =>
                closed' = FALSE /\ to_read' <= Cardinality(Stand(p, {"take_woken"}))
                                 - (IF p[t] = "take_woken" THEN 1 ELSE 0)
            BY <1>1, <1>3, <1>4, <1>5, <1>8 DEF Fits
        <2>4. Stand(p, {"put_wait"}) # {} =>
                closed' = FALSE /\ N - to_read' <= Cardinality(Stand(p, {"put_woken"}))
                                     - (IF p[t] = "put_woken" THEN 1 ELSE 0)
            BY <1>3, <1>4, <1>5, <1>9, <1>11, RingBufAssumption
        <2>5. to_read' \in Int
            BY <1>3, <1>4
        <2> QED
            BY <1>10, <1>11, <2>1, <2>2, <2>3, <2>4, <2>5, LeavingFits
    <1> QED
        BY <1>10, <1>12

\* clear: a writer is woken for each slot that becomes free, or all of them.
LEMMA ClearFits ==
    ASSUME NoLostWakeup, NEW t \in Threads, rz_th_ring_buf_clear(t)
    PROVE  /\ Fits(pc', writers_waiting', readers_waiting', to_read', closed')
           /\ pc' \in [Threads -> Labels] /\ lock' \in Threads \cup {NoThread}
           /\ threads_awaiting' \in Int
    <1>1. TypeOK /\ Fits(pc, writers_waiting, readers_waiting, to_read, closed)
        BY NoLostWakeupIs
    <1>2. PICK p \in Signals(pc, "put_wait", "put_woken", WritersToTell) :
            LeaveVia(t, p, "leave")
        BY DEF rz_th_ring_buf_clear
    <1>3. /\ pc[t] = "clear" /\ closed = FALSE /\ closed' = closed /\ to_read' = 0
          /\ UNCHANGED <<writers_waiting, readers_waiting>>
        BY <1>1 DEF rz_th_ring_buf_clear, reset_buf, TypeOK
    <1>4. pc \in [Threads -> Labels] /\ "put_wait" \in Labels
          /\ "put_woken" \in Labels /\ "leave" \in Labels
        BY <1>1 DEF TypeOK, Labels
    <1>5. \A S : IsFiniteSet(Stand(pc, S)) /\ Cardinality(Stand(pc, S)) \in Nat
                 /\ Cardinality(Stand(p, S)) \in Nat
        BY StandFinite
    <1>6. WritersToTell \in Nat
        BY <1>1, <1>5, RingBufAssumption DEF WritersToTell, Fits
    <1>7. Wakes(pc, p, "put_wait", "put_woken", WritersToTell)
        BY <1>2, <1>4, <1>6, SignalsWake
    <1>8. p \in [Threads -> Labels] /\ p[t] = pc[t]
        BY <1>3, <1>7 DEF Wakes
    <1>9. /\ Stand(p, {"put_wait", "put_woken"}) = Stand(pc, {"put_wait", "put_woken"})
          /\ Stand(p, {"take_wait", "take_woken"}) = Stand(pc, {"take_wait", "take_woken"})
          /\ Stand(p, {"take_wait"}) = Stand(pc, {"take_wait"})
          /\ Stand(p, {"take_woken"}) = Stand(pc, {"take_woken"})
        BY <1>7 DEF Wakes, Stand
    <1>10. Stand(p, {"put_wait"}) # {} => N <= Cardinality(Stand(p, {"put_woken"}))
        <2>1. SUFFICES ASSUME Stand(p, {"put_wait"}) # {}
                       PROVE  N <= Cardinality(Stand(p, {"put_woken"}))
            OBVIOUS
        <2>2. CASE WritersToTell = N
            BY <1>5, <1>7, <2>1, <2>2, RingBufAssumption DEF Wakes
        <2>3. CASE WritersToTell = writers_waiting
            \* Then all of them would have been woken.
            <3>1. Stand(p, {"put_woken"}) \subseteq Stand(p, {"put_wait", "put_woken"})
                BY DEF Stand
            <3>2. IsFiniteSet(Stand(p, {"put_wait", "put_woken"}))
                BY StandFinite
            <3>3. /\ Cardinality(Stand(p, {"put_woken"})) <= writers_waiting
                  /\ Cardinality(Stand(p, {"put_woken"})) = writers_waiting =>
                       Stand(p, {"put_woken"}) = Stand(p, {"put_wait", "put_woken"})
                BY <1>1, <1>9, <3>1, <3>2, FS_Subset DEF Fits
            <3>4. Cardinality(Stand(p, {"put_woken"})) >= writers_waiting
                BY <1>1, <1>5, <1>7, <2>1, <2>3 DEF Wakes, Fits
            <3>5. Stand(p, {"put_woken"}) = Stand(p, {"put_wait", "put_woken"})
                BY <1>1, <1>5, <3>3, <3>4 DEF Fits
            <3> QED
                BY <2>1, <3>5 DEF Stand
        <2> QED
            BY <2>2, <2>3 DEF WritersToTell
    <1>11. Moves(p, pc', t, "leave") /\ pc' \in [Threads -> Labels]
           /\ lock' \in Threads \cup {NoThread} /\ threads_awaiting' \in Int
        BY <1>1, <1>2, <1>4, <1>8, LeaveViaMoves
    <1>12. "leave" \notin Waits /\ p[t] \notin {"put_wait", "take_wait"}
           /\ p[t] # "put_woken" /\ p[t] # "take_woken"
        BY <1>3, <1>8 DEF Waits
    <1>13. Fits(pc', writers_waiting', readers_waiting', to_read', closed')
        <2>1. writers_waiting' = Cardinality(Stand(p, {"put_wait", "put_woken"}))
                  - (IF p[t] = "put_woken" THEN 1 ELSE 0)
            BY <1>1, <1>3, <1>5, <1>9, <1>12 DEF Fits
        <2>2. readers_waiting' = Cardinality(Stand(p, {"take_wait", "take_woken"}))
                  - (IF p[t] = "take_woken" THEN 1 ELSE 0)
            BY <1>1, <1>3, <1>5, <1>9, <1>12 DEF Fits
        <2>3. closed' = FALSE /\ to_read' <= Cardinality(Stand(p, {"take_woken"}))
                                 - (IF p[t] = "take_woken" THEN 1 ELSE 0)
            BY <1>3, <1>5, <1>12
        <2>4. Stand(p, {"put_wait"}) # {} =>
                closed' = FALSE /\ N - to_read' <= Cardinality(Stand(p, {"put_woken"}))
                                     - (IF p[t] = "put_woken" THEN 1 ELSE 0)
            BY <1>3, <1>5, <1>10, <1>12, RingBufAssumption
        <2>5. to_read' \in Int
            BY <1>3
        <2> QED
            BY <1>11, <1>12, <2>1, <2>2, <2>3, <2>4, <2>5, LeavingFits
    <1> QED
        BY <1>11, <1>13

\* close: nobody sleeps any more.
LEMMA CloseFits ==
    ASSUME NoLostWakeup, NEW t \in Threads, Close(t)
    PROVE  /\ Fits(pc', writers_waiting', readers_waiting', to_read', closed')
           /\ pc' \in [Threads -> Labels] /\ lock' \in Threads \cup {NoThread}
           /\ threads_awaiting' \in Int
    <1> DEFINE q == SignalAll(pc, "put_wait", "put_woken")
               p == SignalAll(q, "take_wait", "take_woken")
    <1>1. TypeOK /\ Fits(pc, writers_waiting, readers_waiting, to_read, closed)
        BY NoLostWakeupIs
    <1>2. /\ pc[t] = "close" /\ LeaveVia(t, p, "leave_close")
          /\ UNCHANGED <<writers_waiting, readers_waiting, to_read>>
        BY DEF Close, data
    <1>3. pc \in [Threads -> Labels] /\ to_read \in 0..N /\ Waits \subseteq Labels
          /\ "leave_close" \in Labels
        BY <1>1 DEF TypeOK, Labels, Waits
    <1>4. /\ q \in [Threads -> Labels]
          /\ \A u \in Threads : q[u] = IF pc[u] = "put_wait" THEN "put_woken" ELSE pc[u]
        BY <1>3 DEF SignalAll, Waits
    <1>5. /\ p \in [Threads -> Labels]
          /\ \A u \in Threads : p[u] = IF q[u] = "take_wait" THEN "take_woken" ELSE q[u]
        BY <1>3, <1>4 DEF SignalAll, Waits
    <1> HIDE DEF p, q
    <1>6. /\ Stand(p, {"put_wait"}) = {} /\ Stand(p, {"take_wait"}) = {}
          /\ Stand(p, {"put_wait", "put_woken"}) = Stand(pc, {"put_wait", "put_woken"})
          /\ Stand(p, {"take_wait", "take_woken"}) = Stand(pc, {"take_wait", "take_woken"})
          /\ p[t] = "close"
        BY <1>2, <1>4, <1>5 DEF Stand
    <1>7. Moves(p, pc', t, "leave_close") /\ pc' \in [Threads -> Labels]
          /\ lock' \in Threads \cup {NoThread} /\ threads_awaiting' \in Int
        BY <1>1, <1>2, <1>3, <1>5, LeaveViaMoves
    <1>8. "leave_close" \notin Waits /\ p[t] \notin {"put_wait", "take_wait"}
          /\ p[t] # "put_woken" /\ p[t] # "take_woken"
        BY <1>6 DEF Waits
    <1>9. \A S : Cardinality(Stand(p, S)) \in Nat
        BY StandFinite
    <1>10. Fits(pc', writers_waiting', readers_waiting', to_read', closed')
        <2>1. writers_waiting' = Cardinality(Stand(p, {"put_wait", "put_woken"}))
                  - (IF p[t] = "put_woken" THEN 1 ELSE 0)
            BY <1>1, <1>2, <1>6, <1>8, <1>9 DEF Fits
        <2>2. readers_waiting' = Cardinality(Stand(p, {"take_wait", "take_woken"}))
                  - (IF p[t] = "take_woken" THEN 1 ELSE 0)
            BY <1>1, <1>2, <1>6, <1>8, <1>9 DEF Fits
        <2>3. to_read' \in Int
            BY <1>2, <1>3
        <2> QED
            BY <1>6, <1>7, <1>8, <2>1, <2>2, <2>3, LeavingFits
    <1> QED
        BY <1>7, <1>10

\* A thread finds the buffer closed: it is not asleep, nor is anybody else.
LEMMA ReturnClosedFits ==
    ASSUME NoLostWakeup, NEW t \in Threads, ReturnClosed(t)
    PROVE  /\ Fits(pc', writers_waiting', readers_waiting', to_read', closed')
           /\ pc' \in [Threads -> Labels] /\ lock' \in Threads \cup {NoThread}
           /\ threads_awaiting' \in Int
    <1>1. TypeOK /\ Fits(pc, writers_waiting, readers_waiting, to_read, closed)
        BY NoLostWakeupIs
    <1>2. /\ pc[t] \in Labels \ {"put_wait", "take_wait"} /\ LeaveVia(t, pc, "leave")
          /\ closed = TRUE /\ UNCHANGED <<to_read, closed>>
          /\ writers_waiting' = writers_waiting - (IF pc[t] = "put_woken" THEN 1 ELSE 0)
          /\ readers_waiting' = readers_waiting - (IF pc[t] = "take_woken" THEN 1 ELSE 0)
        BY <1>1 DEF ReturnClosed, data, WritersNow, ReadersNow, TypeOK
    <1>3. pc \in [Threads -> Labels] /\ "leave" \in Labels /\ to_read' \in Int
        BY <1>1, <1>2 DEF TypeOK, Labels
    <1>4. Moves(pc, pc', t, "leave") /\ pc' \in [Threads -> Labels]
          /\ lock' \in Threads \cup {NoThread} /\ threads_awaiting' \in Int
        BY <1>1, <1>2, <1>3, LeaveViaMoves
    <1>5. Stand(pc, {"put_wait"}) = {} /\ Stand(pc, {"take_wait"}) = {}
        BY <1>1, <1>2 DEF Fits
    <1>6. "leave" \notin Waits
        BY DEF Waits
    <1>7. Fits(pc', writers_waiting', readers_waiting', to_read', closed')
        <2>1. writers_waiting' = Cardinality(Stand(pc, {"put_wait", "put_woken"}))
                  - (IF pc[t] = "put_woken" THEN 1 ELSE 0)
            BY <1>1, <1>2 DEF Fits
        <2>2. readers_waiting' = Cardinality(Stand(pc, {"take_wait", "take_woken"}))
                  - (IF pc[t] = "take_woken" THEN 1 ELSE 0)
            BY <1>1, <1>2 DEF Fits
        <2> QED
            BY <1>2, <1>3, <1>4, <1>5, <1>6, <2>1, <2>2, LeavingFits
    <1> QED
        BY <1>4, <1>7

-----------------------------------------------------------------------------
LEMMA InitWaits == Init => NoLostWakeup
    <1> SUFFICES ASSUME Init PROVE NoLostWakeup
        OBVIOUS
    <1>1. TypeOK
        <2>1. 0 \in 0..(N - 1) /\ 0 \in 0..N
            BY RingBufAssumption
        <2>2. pc \in [Threads -> Labels] /\ register \in [Threads -> Int]
            BY DEF Init, Labels
        <2>3. /\ w \in 0..(N - 1) /\ r \in 0..(N - 1) /\ to_read \in 0..N
              /\ threads_awaiting \in Int /\ writers_waiting \in Int
              /\ readers_waiting \in Int
            BY <2>1 DEF Init
        <2>4. /\ buf \in [0..(N - 1) -> Elems] /\ closed \in BOOLEAN
              /\ lock \in Threads \cup {NoThread} /\ freed \in BOOLEAN
              /\ done \subseteq Threads /\ taken \in Elems /\ usage \in Usages
            BY DEF Init
        <2> QED
            BY <2>2, <2>3, <2>4 DEF TypeOK
    <1>2. \A S : "idle" \notin S => Stand(pc, S) = {}
        BY DEF Init, Stand
    <1>3. Fits(pc, writers_waiting, readers_waiting, to_read, closed)
        BY <1>2, FS_EmptySet DEF Init, Fits
    <1> QED
        BY <1>1, <1>3, NoLostWakeupIs

\* The indices stay inside the buffer.
LEMMA AdvanceType ==
    ASSUME NEW i \in 0..(N - 1)
    PROVE  Advance(i) \in 0..(N - 1)
    BY RingBufAssumption DEF Advance

\* Every step keeps the counters exact and loses no wakeup.
LEMMA NextWaits == NoLostWakeup /\ [Next]_<<vars, usage>> => NoLostWakeup'
    <1> SUFFICES ASSUME NoLostWakeup, [Next]_<<vars, usage>> PROVE NoLostWakeup'
        OBVIOUS
    <1>1. TypeOK /\ Fits(pc, writers_waiting, readers_waiting, to_read, closed)
        BY NoLostWakeupIs
    <1>2. CASE UNCHANGED <<vars, usage>>
        <2>1. UNCHANGED <<buf, w, r, to_read, closed, lock, threads_awaiting,
                          writers_waiting, readers_waiting, freed, pc, register,
                          done, taken, usage>>
            BY <1>2 DEF vars, data
        <2>2. TypeOK'
            BY <1>1, <2>1 DEF TypeOK
        <2>3. Fits(pc', writers_waiting', readers_waiting', to_read', closed')
            BY <1>1, <2>1
        <2> QED
            BY <2>2, <2>3, NoLostWakeupIs
    <1>3. CASE Next
        <2>1. usage' = usage
            BY <1>3 DEF Next
        <2>2. SUFFICES ASSUME NEW t \in Threads,
                              \/ \E op \in Operations : Call(t, op)
                              \/ SpuriousWakeup(t)
                              \/ Step(t)
                              \/ rz_th_ring_buf_free(t)
                       PROVE  NoLostWakeup'
            BY <1>3 DEF Next
        <2>3. ASSUME NEW op \in Operations, Call(t, op) PROVE NoLostWakeup'
            <3>1. TypeOK'
                BY <1>1, <2>1, <2>3 DEF Call, TypeOK, data, Labels
            <3>2. op \in Labels \ Waits /\ pc[t] \notin Waits
                BY <2>3 DEF Call, Labels, Operations, Waits
            <3>3. pc' = [pc EXCEPT ![t] = op] /\ to_read' \in Int
                  /\ UNCHANGED <<writers_waiting, readers_waiting, to_read, closed>>
                BY <1>1, <2>3 DEF Call, data, TypeOK
            <3>4. Fits(pc', writers_waiting', readers_waiting', to_read', closed')
                BY <3>2, <3>3, QuietFits
            <3> QED
                BY <3>1, <3>4, NoLostWakeupIs
        <2>4. CASE SpuriousWakeup(t)
            <3>1. TypeOK'
                BY <1>1, <2>1, <2>4 DEF SpuriousWakeup, TypeOK, data, Labels
            <3> QED
                BY <2>4, <3>1, SpuriousFits, NoLostWakeupIs
        <2>5. CASE ReturnClosed(t)
            <3>1. TypeOK'
                <4>1. /\ pc' \in [Threads -> Labels] /\ lock' \in Threads \cup {NoThread}
                      /\ threads_awaiting' \in Int
                    BY <2>5, ReturnClosedFits
                <4> QED
                    BY <1>1, <2>1, <2>5, <4>1 DEF ReturnClosed, TypeOK, data, WritersNow, ReadersNow
            <3> QED
                BY <2>5, <3>1, ReturnClosedFits, NoLostWakeupIs
        <2>6. CASE Leave(t)
            <3>1. TypeOK'
                BY <1>1, <2>1, <2>6 DEF Leave, TypeOK, data, Labels
            <3>2. \E l \in Labels \ Waits : pc' = [pc EXCEPT ![t] = l]
                BY <1>1, <2>6 DEF Leave, Labels, Waits, TypeOK
            <3>3. pc[t] \notin Waits /\ to_read' \in Int
                  /\ UNCHANGED <<writers_waiting, readers_waiting, to_read, closed>>
                BY <1>1, <2>6 DEF Leave, Waits, data, TypeOK
            <3> QED
                BY <3>1, <3>2, <3>3, QuietFits, NoLostWakeupIs
        <2>7. CASE PutWait(t)
            <3>1. TypeOK'
                BY <1>1, <2>1, <2>7 DEF PutWait, TypeOK, data, Labels, WritersNow
            <3> QED
                BY <2>7, <3>1, WaitFits, NoLostWakeupIs
        <2>8. ASSUME NEW x \in Elems, PutElem(t, x) PROVE NoLostWakeup'
            <3>1. /\ pc' \in [Threads -> Labels] /\ lock' \in Threads \cup {NoThread}
                  /\ threads_awaiting' \in Int
                  /\ Fits(pc', writers_waiting', readers_waiting', to_read', closed')
                BY <2>8, PutFits
            <3>2. w' \in 0..(N - 1)
                BY <1>1, <2>8, AdvanceType DEF PutElem, TypeOK
            <3>3. TypeOK'
                BY <1>1, <2>1, <2>8, <3>1, <3>2, RingBufAssumption
                    DEF PutElem, TypeOK, WritersNow
            <3> QED
                BY <3>1, <3>3, NoLostWakeupIs
        <2>9. CASE TakeWait(t)
            <3>1. TypeOK'
                BY <1>1, <2>1, <2>9 DEF TakeWait, TypeOK, data, Labels, ReadersNow
            <3> QED
                BY <2>9, <3>1, WaitFits, NoLostWakeupIs
        <2>10. CASE TakeElem(t)
            <3>1. /\ pc' \in [Threads -> Labels] /\ lock' \in Threads \cup {NoThread}
                  /\ threads_awaiting' \in Int
                  /\ Fits(pc', writers_waiting', readers_waiting', to_read', closed')
                BY <2>10, TakeFits
            <3>2. r' \in 0..(N - 1)
                BY <1>1, <2>10, AdvanceType DEF TakeElem, TypeOK
            <3>3. TypeOK'
                BY <1>1, <2>1, <2>10, <3>1, <3>2, RingBufAssumption
                    DEF TakeElem, TypeOK, ReadersNow
            <3> QED
                BY <3>1, <3>3, NoLostWakeupIs
        <2>11. CASE NoEffect(t)
            <3>1. TypeOK'
                BY <1>1, <2>1, <2>11 DEF NoEffect, LeaveVia, TypeOK, data, Labels
            <3>2. "leave" \in Labels \ Waits /\ pc[t] \notin Waits
                  /\ pc' = [pc EXCEPT ![t] = "leave"] /\ to_read' \in Int
                  /\ UNCHANGED <<writers_waiting, readers_waiting, to_read, closed>>
                BY <1>1, <2>11 DEF NoEffect, LeaveVia, Labels, Waits, data, TypeOK
            <3> QED
                BY <3>1, <3>2, QuietFits, NoLostWakeupIs
        <2>12. CASE rz_th_ring_buf_clear(t)
            <3>1. /\ pc' \in [Threads -> Labels] /\ lock' \in Threads \cup {NoThread}
                  /\ threads_awaiting' \in Int
                  /\ Fits(pc', writers_waiting', readers_waiting', to_read', closed')
                BY <2>12, ClearFits
            <3>2. TypeOK'
                BY <1>1, <2>1, <2>12, <3>1, RingBufAssumption
                    DEF rz_th_ring_buf_clear, reset_buf, TypeOK
            <3> QED
                BY <3>1, <3>2, NoLostWakeupIs
        <2>13. CASE Close(t)
            <3>1. /\ pc' \in [Threads -> Labels] /\ lock' \in Threads \cup {NoThread}
                  /\ threads_awaiting' \in Int
                  /\ Fits(pc', writers_waiting', readers_waiting', to_read', closed')
                BY <2>13, CloseFits
            <3>2. TypeOK'
                BY <1>1, <2>1, <2>13, <3>1 DEF Close, data, TypeOK
            <3> QED
                BY <3>1, <3>2, NoLostWakeupIs
        <2>14. CASE CloseReturn(t)
            <3>1. TypeOK'
                BY <1>1, <2>1, <2>14 DEF CloseReturn, TypeOK, data, Labels
            <3>2. "idle" \in Labels \ Waits /\ pc[t] \notin Waits
                  /\ pc' = [pc EXCEPT ![t] = "idle"] /\ to_read' \in Int
                  /\ UNCHANGED <<writers_waiting, readers_waiting, to_read, closed>>
                BY <1>1, <2>14 DEF CloseReturn, Labels, Waits, data, TypeOK
            <3> QED
                BY <3>1, <3>2, QuietFits, NoLostWakeupIs
        <2>15. CASE rz_th_ring_buf_open(t)
            <3>1. "leave" \in Labels \ Waits /\ pc[t] \notin Waits
                  /\ pc' = [pc EXCEPT ![t] = "leave"]
                  /\ lock' = t /\ threads_awaiting' = threads_awaiting - 1
                  /\ UNCHANGED <<writers_waiting, readers_waiting, freed, register, taken>>
                BY <2>15 DEF rz_th_ring_buf_open, LeaveVia, Labels, Waits
            <3>2. CASE UNCHANGED <<buf, w, r, to_read, closed, done>>
                <4>1. TypeOK'
                    BY <1>1, <2>1, <3>1, <3>2 DEF TypeOK
                <4>2. UNCHANGED <<to_read, closed>> /\ to_read' \in Int
                    BY <1>1, <3>2 DEF TypeOK
                <4>3. Fits(pc', writers_waiting', readers_waiting', to_read', closed')
                    BY <3>1, <4>2, QuietFits
                <4> QED
                    BY <4>1, <4>3, NoLostWakeupIs
            <3>3. CASE closed = TRUE /\ w' = 0 /\ r' = 0 /\ to_read' = 0 /\ buf' = buf
                       /\ closed' = FALSE /\ done' = {}
                <4>1. 0 \in 0..(N - 1) /\ 0 \in 0..N /\ pc' \in [Threads -> Labels]
                      /\ lock' \in Threads \cup {NoThread} /\ threads_awaiting' \in Int
                    BY <1>1, <3>1, RingBufAssumption DEF TypeOK
                <4>2. TypeOK'
                    BY <1>1, <2>1, <3>1, <3>3, <4>1 DEF TypeOK
                <4>3. closed = TRUE /\ to_read' \in Int
                    BY <3>3
                <4>4. Fits(pc', writers_waiting', readers_waiting', to_read', closed')
                    BY <3>1, <4>3, QuietFits
                <4> QED
                    BY <4>2, <4>4, NoLostWakeupIs
            <3> QED
                BY <1>1, <2>15, <3>2, <3>3
                    DEF rz_th_ring_buf_open, reset_buf, data, TypeOK
        <2>16. CASE IsOpenRead(t) \/ IsOpenLoad(t) \/ IsOpenStore(t)
            <3>1. TypeOK'
                BY <1>1, <2>1, <2>16
                    DEF IsOpenRead, IsOpenLoad, IsOpenStore, TypeOK, data, Labels
            <3>2. /\ \E l \in Labels \ Waits : pc' = [pc EXCEPT ![t] = l]
                  /\ pc[t] \notin Waits /\ to_read' \in Int
                  /\ UNCHANGED <<writers_waiting, readers_waiting, to_read, closed>>
                BY <1>1, <2>16 DEF IsOpenRead, IsOpenLoad, IsOpenStore, Labels, Waits,
                    data, TypeOK
            <3> QED
                BY <3>1, <3>2, QuietFits, NoLostWakeupIs
        <2>17. CASE rz_th_ring_buf_free(t)
            <3>1. TypeOK'
                BY <1>1, <2>1, <2>17 DEF rz_th_ring_buf_free, TypeOK, data
            <3>2. \A S : "idle" \notin S => Stand(pc, S) = {}
                BY <2>17 DEF rz_th_ring_buf_free, Stand
            <3>3. Fits(pc', writers_waiting', readers_waiting', to_read', closed')
                BY <1>1, <2>17, <3>2 DEF rz_th_ring_buf_free, Fits, data
            <3> QED
                BY <3>1, <3>3, NoLostWakeupIs
        <2> QED
            BY <2>2, <2>3, <2>4, <2>5, <2>6, <2>7, <2>8, <2>9, <2>10, <2>11, <2>12,
                <2>13, <2>14, <2>15, <2>16, <2>17 DEF Step
    <1> QED
        BY <1>2, <1>3

\* No wakeup is lost in a ring buffer of any size, however many threads put,
\* take, clear, close and reopen it: the signals of rz_th_ring_buf_put, _take,
\* _take_blocking, _clear and _close are enough, and the counters that decide
\* about them exact.
THEOREM WaitersAreWoken == Spec => []NoLostWakeup
    <1> QED
        BY InitWaits, NextWaits, PTL DEF Spec
-----------------------------------------------------------------------------
(* close waits for everybody.                                              *)

\* Where a thread is between its two counts.
Inside == Labels \ {"idle", "leave", "leave_close", "poll"}

\* threads_awaiting counts the threads inside, where nobody calls is_open.
Counted ==
    /\ \A t \in Threads :
         pc[t] \in {"is_open", "is_open_load", "is_open_store"} =>
             "is_open" \in usage[t]
    /\ CountIsExact => threads_awaiting = Cardinality(Stand(pc, Inside))

\* From p to q only waiting threads move, and stay where they wait.
Woken(p, q) ==
    /\ q \in [Threads -> Labels]
    /\ \A u \in Threads : q[u] = p[u] \/ (p[u] \in Waits /\ q[u] \in Waits)

LEMMA WokenStand ==
    ASSUME NEW p \in [Threads -> Labels], NEW q, Woken(p, q)
    PROVE  Stand(q, Inside) = Stand(p, Inside)
    <1>1. Waits \subseteq Inside
        BY DEF Waits, Inside, Labels
    <1> QED
        BY <1>1 DEF Woken, Stand

LEMMA WakesWoken ==
    ASSUME NEW p \in [Threads -> Labels], NEW q, NEW wait \in Waits,
           NEW woken \in Waits, NEW k, Wakes(p, q, wait, woken, k)
    PROVE  Woken(p, q)
    BY DEF Wakes, Woken

\* The sections that end in LEAVE_RBUF: signals, then one thread leaves.
Section(t) ==
    \/ ReturnClosed(t) \/ (\E x \in Elems : PutElem(t, x)) \/ TakeElem(t)
    \/ NoEffect(t) \/ rz_th_ring_buf_clear(t) \/ Close(t) \/ rz_th_ring_buf_open(t)

LEMMA SectionLeaves ==
    ASSUME NoLostWakeup, NEW t \in Threads, Section(t)
    PROVE  /\ \E p : \E at \in {"leave", "leave_close"} :
                Woken(pc, p) /\ LeaveVia(t, p, at)
           /\ pc[t] \in Inside \ {"put_wait", "take_wait", "is_open", "is_open_load",
                                  "is_open_store"}
    <1>1. TypeOK /\ Fits(pc, writers_waiting, readers_waiting, to_read, closed)
        BY NoLostWakeupIs
    <1>2. pc \in [Threads -> Labels]
        BY <1>1 DEF TypeOK
    <1>3. pc[t] \in Inside \ {"put_wait", "take_wait", "is_open", "is_open_load",
                              "is_open_store"}
        BY <1>2 DEF Section, ReturnClosed, PutElem, TakeElem, NoEffect,
            rz_th_ring_buf_clear, Close, rz_th_ring_buf_open, Inside
    <1>4. Woken(pc, pc)
        BY <1>2 DEF Woken
    <1>5. Waits \subseteq Labels
        BY DEF Waits, Labels
    <1>6. "put_wait" \in Waits /\ "put_woken" \in Waits /\ "take_wait" \in Waits
          /\ "take_woken" \in Waits
        BY DEF Waits
    <1>7. CASE ReturnClosed(t) \/ NoEffect(t) \/ rz_th_ring_buf_open(t)
        BY <1>3, <1>4, <1>7 DEF ReturnClosed, NoEffect, rz_th_ring_buf_open
    <1>8. ASSUME NEW x \in Elems, PutElem(t, x)
          PROVE  \E p : Woken(pc, p) /\ LeaveVia(t, p, "leave")
        <2>1. PICK p \in (IF readers_waiting > 0
                          THEN Signal(pc, "take_wait", "take_woken") ELSE {pc}) :
                LeaveVia(t, p, "leave")
            BY <1>8 DEF PutElem
        <2>2. p \in Signal(pc, "take_wait", "take_woken") =>
                Wakes(pc, p, "take_wait", "take_woken", 1)
            BY <1>2, <1>5, <1>6, SignalWakes
        <2> QED
            BY <1>2, <1>4, <1>6, <2>1, <2>2, WakesWoken
    <1>9. ASSUME TakeElem(t)
          PROVE  \E p : Woken(pc, p) /\ LeaveVia(t, p, "leave")
        <2>1. PICK p \in (IF writers_waiting > 0
                          THEN Signal(pc, "put_wait", "put_woken") ELSE {pc}) :
                LeaveVia(t, p, "leave")
            BY <1>9 DEF TakeElem
        <2>2. p \in Signal(pc, "put_wait", "put_woken") =>
                Wakes(pc, p, "put_wait", "put_woken", 1)
            BY <1>2, <1>5, <1>6, SignalWakes
        <2> QED
            BY <1>2, <1>4, <1>6, <2>1, <2>2, WakesWoken
    <1>10. ASSUME rz_th_ring_buf_clear(t)
           PROVE  \E p : Woken(pc, p) /\ LeaveVia(t, p, "leave")
        <2>1. PICK p \in Signals(pc, "put_wait", "put_woken", WritersToTell) :
                LeaveVia(t, p, "leave")
            BY <1>10 DEF rz_th_ring_buf_clear
        <2>2. WritersToTell \in Nat
            BY <1>1, StandFinite, RingBufAssumption DEF WritersToTell, Fits
        <2>3. Wakes(pc, p, "put_wait", "put_woken", WritersToTell)
            BY <1>2, <1>5, <1>6, <2>1, <2>2, SignalsWake
        <2> QED
            BY <1>2, <1>6, <2>1, <2>3, WakesWoken
    <1>11. ASSUME Close(t)
           PROVE  \E p : Woken(pc, p) /\ LeaveVia(t, p, "leave_close")
        <2> DEFINE p == SignalAll(SignalAll(pc, "put_wait", "put_woken"),
                                  "take_wait", "take_woken")
        <2>1. LeaveVia(t, p, "leave_close")
            BY <1>11 DEF Close
        <2>2. Woken(pc, p)
            BY <1>2, <1>5, <1>6 DEF SignalAll, Woken
        <2> QED
            BY <2>1, <2>2
    <1> QED
        BY <1>3, <1>7, <1>8, <1>9, <1>10, <1>11 DEF Section

\* What a section does to the control state and to the count.
LEMMA SectionCounts ==
    ASSUME NoLostWakeup, NEW t \in Threads, Section(t)
    PROVE  /\ threads_awaiting' = threads_awaiting - 1
           /\ Cardinality(Stand(pc', Inside)) = Cardinality(Stand(pc, Inside)) - 1
           /\ pc[t] \in Inside \ {"is_open", "is_open_load", "is_open_store"}
           /\ pc'[t] \in {"leave", "leave_close"}
           /\ \A u \in Threads \ {t} :
                pc'[u] = pc[u] \/ (pc[u] \in Waits /\ pc'[u] \in Waits)
    <1>1. TypeOK /\ pc \in [Threads -> Labels]
        BY NoLostWakeupIs DEF TypeOK
    <1>2. PICK p : \E l \in {"leave", "leave_close"} :
            Woken(pc, p) /\ LeaveVia(t, p, l)
        BY SectionLeaves
    <1>3. PICK at \in {"leave", "leave_close"} : Woken(pc, p) /\ LeaveVia(t, p, at)
        BY <1>2
    <1>4. at \in Labels /\ at \notin Inside /\ p \in [Threads -> Labels]
        BY <1>3 DEF Labels, Inside, Woken
    <1>5. Moves(p, pc', t, at)
        BY <1>1, <1>3, <1>4, LeaveViaMoves
    <1>6. p[t] \in Inside /\ pc[t] \in Inside
        BY <1>1, <1>3, SectionLeaves DEF Woken, Waits, Inside, Labels
    <1>7. Cardinality(Stand(pc', Inside)) = Cardinality(Stand(p, Inside)) - 1
        BY <1>4, <1>5, <1>6, OneMoves, StandFinite
    <1>8. Stand(p, Inside) = Stand(pc, Inside)
        BY <1>1, <1>3, WokenStand
    <1>9. threads_awaiting' = threads_awaiting - 1
        BY <1>3 DEF LeaveVia
    <1>10. pc[t] \notin {"is_open", "is_open_load", "is_open_store"}
        BY SectionLeaves
    <1> QED
        BY <1>3, <1>5, <1>6, <1>7, <1>8, <1>9, <1>10 DEF Moves, Woken

\* How the count changes when a thread goes from one label to another.
Change(from, to) ==
    (IF to \in Inside THEN 1 ELSE 0) - (IF from \in Inside THEN 1 ELSE 0)

\* The other steps that move one thread t to label l, with the same count.
LEMMA MoveCounts ==
    ASSUME TypeOK, Counted, NEW t \in Threads, NEW l \in Labels,
           pc' = [pc EXCEPT ![t] = l], UNCHANGED usage,
           l \in {"is_open", "is_open_load", "is_open_store"} => "is_open" \in usage[t],
           CountIsExact => threads_awaiting' = threads_awaiting + Change(pc[t], l)
    PROVE  Counted'
    <1>1. Moves(pc, pc', t, l)
        BY ExceptMoves DEF TypeOK
    <1>2. Cardinality(Stand(pc', Inside)) =
            Cardinality(Stand(pc, Inside)) + Change(pc[t], l)
        <2>1. \A S : Cardinality(Stand(pc', S)) =
                Cardinality(Stand(pc, S)) + (IF l \in S THEN 1 ELSE 0)
                                          - (IF pc[t] \in S THEN 1 ELSE 0)
            BY <1>1, OneMoves
        <2>2. Cardinality(Stand(pc, Inside)) \in Nat
            BY StandFinite
        <2> QED
            BY <2>1, <2>2 DEF Change
    <1>3. CountIsExact' <=> CountIsExact
        BY DEF CountIsExact
    <1>4. (CountIsExact => threads_awaiting = Cardinality(Stand(pc, Inside)))'
        BY <1>2, <1>3 DEF Counted
    <1>5. (\A u \in Threads : pc[u] \in {"is_open", "is_open_load", "is_open_store"}
                                 => "is_open" \in usage[u])'
        BY <1>1 DEF Moves, Counted
    <1> QED
        BY <1>4, <1>5 DEF Counted

LEMMA InitCounted == Init => Counted
    <1> SUFFICES ASSUME Init PROVE Counted
        OBVIOUS
    <1>1. Stand(pc, Inside) = {}
        BY DEF Init, Stand, Inside
    <1>2. threads_awaiting = Cardinality(Stand(pc, Inside))
        BY <1>1, FS_EmptySet DEF Init
    <1>3. \A t \in Threads : pc[t] = "idle"
        BY DEF Init
    <1> QED
        BY <1>2, <1>3 DEF Counted

LEMMA NextCounted == NoLostWakeup /\ Counted /\ [Next]_<<vars, usage>> => Counted'
    <1> SUFFICES ASSUME NoLostWakeup, Counted, [Next]_<<vars, usage>> PROVE Counted'
        OBVIOUS
    <1>1. TypeOK /\ pc \in [Threads -> Labels] /\ threads_awaiting \in Int
        BY NoLostWakeupIs DEF TypeOK
    <1>2. CASE UNCHANGED <<vars, usage>>
        BY <1>2 DEF vars, Counted, CountIsExact, Stand
    <1>3. CASE Next
        <2>1. usage' = usage
            BY <1>3 DEF Next
        <2>2. SUFFICES ASSUME NEW t \in Threads,
                              \/ \E op \in Operations : Call(t, op)
                              \/ SpuriousWakeup(t)
                              \/ Step(t)
                              \/ rz_th_ring_buf_free(t)
                       PROVE  Counted'
            BY <1>3 DEF Next
        <2>3. ASSUME NEW op \in Operations, Call(t, op) PROVE Counted'
            <3>1. op \in Labels /\ op \in Inside
                BY <2>3 DEF Labels, Inside, Operations
            <3>2. pc[t] \notin Inside
                BY <2>3 DEF Call, Inside
            <3>3. pc' = [pc EXCEPT ![t] = op] /\ op \in usage[t]
                  /\ threads_awaiting' = threads_awaiting + 1
                BY <2>3 DEF Call
            <3>4. op \in {"is_open", "is_open_load", "is_open_store"} =>
                    "is_open" \in usage[t]
                BY <2>3, <3>3 DEF Operations
            <3> QED
                <4>1. threads_awaiting' = threads_awaiting + Change(pc[t], op)
                    BY <1>1, <3>1, <3>2, <3>3 DEF Change
                <4> QED
                    BY <1>1, <2>1, <3>1, <3>3, <3>4, <4>1, MoveCounts
        <2>4. CASE SpuriousWakeup(t) \/ PutWait(t) \/ TakeWait(t)
            <3>1. PICK l \in Waits : pc' = [pc EXCEPT ![t] = l]
                BY <1>1, <2>4 DEF SpuriousWakeup, PutWait, TakeWait, Waits
            <3>2. l \in Labels /\ l \in Inside /\ l \notin {"is_open", "is_open_load", "is_open_store"}
                BY DEF Waits, Labels, Inside
            <3>3. pc[t] \in Inside /\ threads_awaiting' = threads_awaiting
                BY <1>1, <2>4 DEF SpuriousWakeup, PutWait, TakeWait, Inside
            <3> QED
                <4>1. threads_awaiting' = threads_awaiting + Change(pc[t], l)
                    BY <1>1, <3>2, <3>3 DEF Change
                <4> QED
                    BY <1>1, <2>1, <3>1, <3>2, <4>1, MoveCounts
        <2>5. CASE Section(t)
            <3>1. /\ threads_awaiting' = threads_awaiting - 1
                  /\ Cardinality(Stand(pc', Inside)) = Cardinality(Stand(pc, Inside)) - 1
                  /\ pc'[t] \in {"leave", "leave_close"}
                  /\ \A u \in Threads \ {t} :
                       pc'[u] = pc[u] \/ (pc[u] \in Waits /\ pc'[u] \in Waits)
                BY <2>5, SectionCounts
            <3>2. (\A u \in Threads : pc[u] \in {"is_open", "is_open_load", "is_open_store"}
                                         => "is_open" \in usage[u])'
                BY <2>1, <3>1 DEF Counted, Waits
            <3>3. (CountIsExact => threads_awaiting = Cardinality(Stand(pc, Inside)))'
                BY <2>1, <3>1 DEF Counted, CountIsExact
            <3> QED
                BY <3>2, <3>3 DEF Counted
        <2>6. CASE Leave(t) \/ CloseReturn(t)
            <3>1. PICK l \in {"idle", "poll"} : pc' = [pc EXCEPT ![t] = l]
                BY <1>1, <2>6 DEF Leave, CloseReturn
            <3>2. l \in Labels /\ l \notin Inside
                  /\ l \notin {"is_open", "is_open_load", "is_open_store"}
                BY DEF Labels, Inside
            <3>3. pc[t] \notin Inside /\ threads_awaiting' = threads_awaiting
                BY <1>1, <2>6 DEF Leave, CloseReturn, Inside
            <3> QED
                <4>1. threads_awaiting' = threads_awaiting + Change(pc[t], l)
                    BY <1>1, <3>2, <3>3 DEF Change
                <4> QED
                    BY <1>1, <2>1, <3>1, <3>2, <4>1, MoveCounts
        <2>7. CASE IsOpenRead(t) \/ IsOpenLoad(t) \/ IsOpenStore(t)
            <3>1. "is_open" \in usage[t]
                BY <2>7 DEF IsOpenRead, IsOpenLoad, IsOpenStore, Counted
            <3>2. ~CountIsExact
                BY <3>1 DEF CountIsExact
            <3>3. PICK l \in {"idle", "is_open_load", "is_open_store"} :
                    pc' = [pc EXCEPT ![t] = l]
                BY <2>7 DEF IsOpenRead, IsOpenLoad, IsOpenStore
            <3>4. l \in Labels
                BY DEF Labels
            <3> QED
                BY <1>1, <2>1, <3>1, <3>2, <3>3, <3>4, MoveCounts
        <2>8. CASE rz_th_ring_buf_free(t)
            BY <2>1, <2>8 DEF rz_th_ring_buf_free, Counted, CountIsExact, Stand
        <2> QED
            BY <2>2, <2>3, <2>4, <2>5, <2>6, <2>7, <2>8 DEF Step, Section
    <1> QED
        BY <1>2, <1>3

LEMMA CountInvariant == Spec => [](NoLostWakeup /\ Counted)
    BY InitWaits, NextWaits, InitCounted, NextCounted, PTL DEF Spec

\* Only its own return moves a thread that polls threads_awaiting.
LEMMA OnlyReturnEndsPoll ==
    ASSUME NoLostWakeup, [Next]_<<vars, usage>>, NEW t \in Threads,
           pc[t] = "poll", pc'[t] = "idle"
    PROVE  threads_awaiting = 0
    <1>1. TypeOK /\ pc \in [Threads -> Labels]
        BY NoLostWakeupIs DEF TypeOK
    <1>2. ~UNCHANGED <<vars, usage>>
        BY DEF vars
    <1>3. PICK u \in Threads : \/ \E op \in Operations : Call(u, op)
                               \/ SpuriousWakeup(u)
                               \/ Step(u)
                               \/ rz_th_ring_buf_free(u)
        BY <1>2 DEF Next
    <1>4. ~Section(u)
        <2> SUFFICES ASSUME Section(u) PROVE FALSE
            OBVIOUS
        <2>1. /\ pc'[u] \in {"leave", "leave_close"}
              /\ \A v \in Threads \ {u} :
                   pc'[v] = pc[v] \/ (pc[v] \in Waits /\ pc'[v] \in Waits)
            BY SectionCounts
        <2> QED
            BY <2>1 DEF Waits
    <1>5. ASSUME NEW op \in Operations PROVE ~Call(u, op)
        BY <1>1 DEF Call
    <1>6. ~SpuriousWakeup(u) /\ ~PutWait(u) /\ ~TakeWait(u) /\ ~IsOpenRead(u)
          /\ ~IsOpenLoad(u) /\ ~IsOpenStore(u) /\ ~Leave(u)
        BY <1>1 DEF SpuriousWakeup, PutWait, TakeWait, IsOpenRead, IsOpenLoad,
            IsOpenStore, Leave
    <1>7. ~rz_th_ring_buf_free(u)
        BY DEF rz_th_ring_buf_free
    <1>8. CloseReturn(u)
        BY <1>3, <1>4, <1>5, <1>6, <1>7 DEF Step, Section
    <1> QED
        BY <1>8 DEF CloseReturn

\* rz_th_ring_buf_close returns only when nobody is between ENTER_RBUF and
\* LEAVE_RBUF, however many threads there are, unless somebody calls
\* rz_th_ring_buf_is_open, whose unlocked decrement breaks the count.
THEOREM CloseWaitsForEveryone == Spec => CloseCountsEveryone
    <1>1. NoLostWakeup /\ Counted /\ [Next]_<<vars, usage>> =>
            [\A t \in Threads : CountIsExact /\ pc[t] = "poll" /\ pc'[t] = "idle"
                                  => \A u \in Threads : ~Entered(u)]_vars
        <2> SUFFICES ASSUME NoLostWakeup, Counted, [Next]_<<vars, usage>>,
                            NEW t \in Threads, CountIsExact, pc[t] = "poll",
                            pc'[t] = "idle", NEW u \in Threads
                     PROVE  ~Entered(u)
            OBVIOUS
        <2>1. threads_awaiting = 0
            BY OnlyReturnEndsPoll
        <2>2. IsFiniteSet(Stand(pc, Inside)) /\ Cardinality(Stand(pc, Inside)) = 0
            BY <2>1, StandFinite DEF Counted
        <2>3. Stand(pc, Inside) = {}
            BY <2>2, FS_EmptySet
        <2>4. pc \in [Threads -> Labels]
            BY NoLostWakeupIs DEF TypeOK
        <2> QED
            BY <2>3, <2>4 DEF Entered, Inside, Stand
    <1> QED
        BY <1>1, CountInvariant, PTL DEF Spec, CloseCountsEveryone
-----------------------------------------------------------------------------
(* The buffer is a channel.                                                *)

\* The index of the slot that is a slots after the first.
Slot(a) == a % N

\* The n elements of slots b from index i on.
Window(b, i, n) == [k \in 1..n |-> b[Slot(i + k - 1)]]

\* An index that wraps around at most once.
LEMMA WrapAround ==
    ASSUME NEW a \in 0..(2 * N - 1)
    PROVE  /\ Slot(a) = IF a < N THEN a ELSE a - N
           /\ Slot(a) \in 0..(N - 1)
    <1>1. CASE a < N
        BY <1>1, RingBufAssumption DEF Slot
    <1>2. CASE ~(a < N)
        BY <1>2, RingBufAssumption DEF Slot
    <1> QED
        BY <1>1, <1>2

LEMMA WindowFacts ==
    ASSUME NEW b \in [0..(N - 1) -> Elems], NEW i \in 0..(N - 1), NEW n \in 0..N
    PROVE  /\ Window(b, i, n) \in Seq(Elems)
           /\ Len(Window(b, i, n)) = n
           /\ \A k \in 1..n : Window(b, i, n)[k] = b[Slot(i + k - 1)]
    <1>1. \A k \in 1..n : Slot(i + k - 1) \in 0..(N - 1)
        BY WrapAround, RingBufAssumption
    <1>2. n \in Nat
        BY RingBufAssumption
    <1>3. Window(b, i, n) \in [1..n -> Elems]
          /\ \A k \in 1..n : Window(b, i, n)[k] = b[Slot(i + k - 1)]
        BY <1>1, <1>2 DEF Window
    <1> QED
        BY <1>2, <1>3

\* put writes the slot after the last element.
LEMMA WindowAppend ==
    ASSUME NEW b \in [0..(N - 1) -> Elems], NEW i \in 0..(N - 1),
           NEW n \in 0..(N - 1), NEW x \in Elems
    PROVE  Window([b EXCEPT ![Slot(i + n)] = x], i, n + 1)
             = Append(Window(b, i, n), x)
    <1> DEFINE c == [b EXCEPT ![Slot(i + n)] = x]
               s == Window(c, i, n + 1)
               t == Append(Window(b, i, n), x)
    <1>1. n \in 0..N /\ n + 1 \in 0..N /\ Slot(i + n) \in 0..(N - 1)
        BY WrapAround, RingBufAssumption
    <1>2. c \in [0..(N - 1) -> Elems] /\ c[Slot(i + n)] = x
          /\ \A j \in 0..(N - 1) : j # Slot(i + n) => c[j] = b[j]
        BY <1>1
    <1> HIDE DEF c
    <1>3. s \in Seq(Elems) /\ Len(s) = n + 1
          /\ \A k \in 1..(n + 1) : s[k] = c[Slot(i + k - 1)]
        BY <1>1, <1>2, WindowFacts
    <1>4. Window(b, i, n) \in Seq(Elems) /\ Len(Window(b, i, n)) = n
          /\ \A k \in 1..n : Window(b, i, n)[k] = b[Slot(i + k - 1)]
        BY <1>1, WindowFacts
    <1>5. t \in Seq(Elems) /\ Len(t) = n + 1 /\ t[n + 1] = x
          /\ \A k \in 1..n : t[k] = b[Slot(i + k - 1)]
        BY <1>4, AppendFacts
    <1>6. ASSUME NEW k \in 1..n PROVE s[k] = t[k]
        <2>1. i + k - 1 \in 0..(2 * N - 1) /\ i + n \in 0..(2 * N - 1)
            BY RingBufAssumption
        <2>2. Slot(i + k - 1) # Slot(i + n) /\ Slot(i + k - 1) \in 0..(N - 1)
            BY <2>1, WrapAround, RingBufAssumption
        <2> QED
            BY <1>2, <1>3, <1>5, <2>2
    <1>7. s[n + 1] = x
        <2>1. n + 1 \in 1..(n + 1) /\ i + (n + 1) - 1 = i + n
            OBVIOUS
        <2> QED
            BY <1>2, <1>3, <2>1
    <1>8. \A k \in 1..(n + 1) : s[k] = t[k]
        BY <1>5, <1>6, <1>7
    <1> HIDE DEF s, t
    <1>9. s = t
        BY <1>3, <1>5, <1>8, SeqEqual
    <1> QED
        BY <1>9 DEF s, t, c

\* take leaves the elements after the first.
LEMMA WindowTail ==
    ASSUME NEW b \in [0..(N - 1) -> Elems], NEW i \in 0..(N - 1), NEW n \in 1..N
    PROVE  /\ Window(b, i, n) # <<>>
           /\ Head(Window(b, i, n)) = b[i]
           /\ Window(b, Slot(i + 1), n - 1) = Tail(Window(b, i, n))
    <1> DEFINE u == Window(b, i, n)
               s == Window(b, Slot(i + 1), n - 1)
               t == Tail(u)
    <1>1. n \in 0..N /\ n - 1 \in 0..N /\ Slot(i + 1) \in 0..(N - 1)
        BY WrapAround, RingBufAssumption
    <1>2. u \in Seq(Elems) /\ Len(u) = n
          /\ \A k \in 1..n : u[k] = b[Slot(i + k - 1)]
        BY <1>1, WindowFacts
    <1>3. s \in Seq(Elems) /\ Len(s) = n - 1
          /\ \A k \in 1..(n - 1) : s[k] = b[Slot(Slot(i + 1) + k - 1)]
        BY <1>1, WindowFacts
    <1> HIDE DEF u, s
    <1>4. u # <<>>
        BY <1>2, RingBufAssumption
    <1>5. t \in Seq(Elems) /\ Len(t) = n - 1 /\ Head(u) = u[1]
          /\ \A k \in 1..(n - 1) : t[k] = u[k + 1]
        BY <1>2, <1>4, TailFacts
    <1>6. Head(u) = b[i]
        <2>1. i \in 0..(2 * N - 1) /\ i < N /\ i + 1 - 1 = i /\ 1 \in 1..n
            BY RingBufAssumption
        <2> QED
            BY <1>2, <1>5, <2>1, WrapAround
    <1>7. ASSUME NEW k \in 1..(n - 1) PROVE s[k] = t[k]
        <2>1. i + 1 \in 0..(2 * N - 1) /\ i + k \in 0..(2 * N - 1)
              /\ Slot(i + 1) + k - 1 \in 0..(2 * N - 1)
            BY <1>1, RingBufAssumption
        <2>2. Slot(Slot(i + 1) + k - 1) = Slot(i + k)
            BY <2>1, WrapAround, RingBufAssumption
        <2>3. k + 1 \in 1..n /\ i + (k + 1) - 1 = i + k
            BY RingBufAssumption
        <2> QED
            BY <1>2, <1>3, <1>5, <2>2, <2>3
    <1> HIDE DEF t
    <1>8. s = t
        BY <1>3, <1>5, <1>7, SeqEqual
    <1> QED
        BY <1>4, <1>6, <1>8 DEF u, s, t

\* The write index follows the last element to read.
WriteIndex == w = Slot(r + to_read)

\* What a step does to the slots, as far as the channel is concerned.
PutData(x) ==
    /\ closed = FALSE /\ to_read < N
    /\ buf' = [buf EXCEPT ![w] = x] /\ w' = Slot(w + 1) /\ to_read' = to_read + 1
    /\ UNCHANGED <<r, closed, taken>>

TakeData ==
    /\ closed = FALSE /\ to_read > 0
    /\ taken' = buf[r] /\ r' = Slot(r + 1) /\ to_read' = to_read - 1
    /\ UNCHANGED <<buf, w, closed>>

ResetData ==
    /\ w' = 0 /\ r' = 0 /\ to_read' = 0 /\ UNCHANGED <<buf, taken>>
    /\ closed' = FALSE

CloseData == closed' = TRUE /\ UNCHANGED <<buf, w, r, to_read, taken>>

LEMMA DataSteps ==
    ASSUME NoLostWakeup, [Next]_<<vars, usage>>
    PROVE  \/ \E x \in Elems : PutData(x)
           \/ TakeData
           \/ ResetData
           \/ CloseData
           \/ UNCHANGED <<buf, w, r, to_read, closed, taken>>
    <1>1. TypeOK
        BY NoLostWakeupIs
    <1>2. CASE UNCHANGED <<vars, usage>>
        BY <1>2 DEF vars, data
    <1>3. ASSUME NEW t \in Threads, NEW x \in Elems, PutElem(t, x) PROVE PutData(x)
        BY <1>1, <1>3, RingBufAssumption DEF TypeOK, PutElem, PutData, Advance, Slot
    <1>4. ASSUME NEW t \in Threads, TakeElem(t) PROVE TakeData
        BY <1>1, <1>4, RingBufAssumption DEF TypeOK, TakeElem, TakeData, Advance, Slot
    <1>5. ASSUME NEW t \in Threads, rz_th_ring_buf_clear(t) PROVE ResetData
        BY <1>1, <1>5 DEF TypeOK, rz_th_ring_buf_clear, reset_buf, ResetData
    <1>6. ASSUME NEW t \in Threads, rz_th_ring_buf_open(t)
          PROVE  ResetData \/ UNCHANGED <<buf, w, r, to_read, closed, taken>>
        BY <1>6 DEF rz_th_ring_buf_open, reset_buf, ResetData, data
    <1>7. ASSUME NEW t \in Threads, Close(t) \/ rz_th_ring_buf_free(t) PROVE CloseData
        BY <1>7 DEF Close, rz_th_ring_buf_free, CloseData, data
    <1>8. ASSUME NEW t \in Threads,
                 \/ \E op \in Operations : Call(t, op)
                 \/ SpuriousWakeup(t) \/ ReturnClosed(t) \/ Leave(t) \/ PutWait(t)
                 \/ TakeWait(t) \/ NoEffect(t) \/ CloseReturn(t) \/ IsOpenRead(t)
                 \/ IsOpenLoad(t) \/ IsOpenStore(t)
          PROVE  UNCHANGED <<buf, w, r, to_read, closed, taken>>
        BY <1>8 DEF Call, SpuriousWakeup, ReturnClosed, Leave, PutWait, TakeWait,
            NoEffect, CloseReturn, IsOpenRead, IsOpenLoad, IsOpenStore, data
    <1> QED
        BY <1>2, <1>3, <1>4, <1>5, <1>6, <1>7, <1>8 DEF Next, Step

LEMMA NextWriteIndex ==
    NoLostWakeup /\ WriteIndex /\ [Next]_<<vars, usage>> => WriteIndex'
    <1> SUFFICES ASSUME NoLostWakeup, WriteIndex, [Next]_<<vars, usage>>
                 PROVE  WriteIndex'
        OBVIOUS
    <1>1. w \in 0..(N - 1) /\ r \in 0..(N - 1) /\ to_read \in 0..N
        BY NoLostWakeupIs DEF TypeOK
    <1>2. r + to_read \in 0..(2 * N - 1)
        BY <1>1, RingBufAssumption
    <1>3. ASSUME NEW x \in Elems, PutData(x) PROVE WriteIndex'
        <2>1. w' = Slot(w + 1) /\ r' = r /\ to_read' = to_read + 1 /\ to_read < N
            BY <1>3 DEF PutData
        <2>2. w + 1 \in 0..(2 * N - 1) /\ r + to_read + 1 \in 0..(2 * N - 1)
            BY <1>1, <2>1, RingBufAssumption
        <2>3. Slot(w + 1) = Slot(r + to_read + 1)
            BY <1>1, <1>2, <2>2, WrapAround, RingBufAssumption DEF WriteIndex
        <2>4. r + (to_read + 1) = r + to_read + 1
            BY <1>1
        <2> QED
            BY <2>1, <2>3, <2>4 DEF WriteIndex
    <1>4. ASSUME TakeData PROVE WriteIndex'
        <2>1. w' = w /\ r' = Slot(r + 1) /\ to_read' = to_read - 1 /\ to_read > 0
            BY <1>4 DEF TakeData
        <2>2. r + 1 \in 0..(2 * N - 1)
            BY <1>1, RingBufAssumption
        <2>3. Slot(r + 1) + (to_read - 1) \in 0..(2 * N - 1)
            BY <1>1, <2>1, <2>2, WrapAround, RingBufAssumption
        <2>4. Slot(Slot(r + 1) + (to_read - 1)) = Slot(r + to_read)
            BY <1>1, <1>2, <2>1, <2>2, <2>3, WrapAround, RingBufAssumption
        <2> QED
            BY <2>1, <2>4 DEF WriteIndex
    <1>5. ASSUME ResetData PROVE WriteIndex'
        <2>1. 0 \in 0..(2 * N - 1) /\ 0 < N /\ 0 + 0 = 0
            BY RingBufAssumption
        <2>2. Slot(0) = 0
            BY <2>1, WrapAround
        <2> QED
            BY <1>5, <2>1, <2>2 DEF ResetData, WriteIndex
    <1>6. ASSUME CloseData \/ UNCHANGED <<buf, w, r, to_read, closed, taken>>
          PROVE  WriteIndex'
        BY <1>6 DEF CloseData, WriteIndex
    <1> QED
        BY <1>3, <1>4, <1>5, <1>6, DataSteps

LEMMA ContentsIs ==
    Contents = Window(buf, r, to_read) /\ Contents' = Window(buf', r', to_read')
    BY DEF Contents, Window, Slot

\* A ring buffer of any size is a bounded first-in first-out channel: put
\* appends, take removes the oldest element, clear and open empty it, close
\* keeps the contents, and no other step has an effect.
THEOREM BufferIsChannel == Spec => ImplementsChannel
    <1>1. Init => WriteIndex /\ Channel!Init
        <2> SUFFICES ASSUME Init PROVE WriteIndex /\ Channel!Init
            OBVIOUS
        <2>1. 0 \in 0..(2 * N - 1) /\ 0 < N /\ 0 + 0 = 0
            BY RingBufAssumption
        <2>2. WriteIndex
            BY <2>1, WrapAround DEF Init, WriteIndex
        <2>3. Contents = <<>>
            BY DEF Init, Contents
        <2> QED
            BY <2>2, <2>3 DEF Init, Channel!Init
    <1>2. NoLostWakeup /\ WriteIndex /\ [Next]_<<vars, usage>>
            => [Channel!Next]_(Channel!vars)
        <2> SUFFICES ASSUME NoLostWakeup, WriteIndex, [Next]_<<vars, usage>>
                     PROVE  Channel!Next \/ UNCHANGED Channel!vars
            OBVIOUS
        <2>1. buf \in [0..(N - 1) -> Elems] /\ r \in 0..(N - 1) /\ to_read \in 0..N
            BY NoLostWakeupIs DEF TypeOK
        <2>2. Contents = Window(buf, r, to_read) /\ Contents' = Window(buf', r', to_read')
            BY ContentsIs
        <2>3. Len(Contents) = to_read
            BY <2>1, <2>2, WindowFacts
        <2>4. ASSUME NEW x \in Elems, PutData(x) PROVE Channel!Put
            <3>1. to_read \in 0..(N - 1) /\ to_read < N
                BY <2>1, <2>4, RingBufAssumption DEF PutData
            <3>2. buf' = [buf EXCEPT ![Slot(r + to_read)] = x] /\ r' = r
                  /\ to_read' = to_read + 1
                BY <2>4 DEF PutData, WriteIndex
            <3>3. Contents' = Append(Contents, x)
                BY <2>1, <2>2, <3>1, <3>2, WindowAppend
            <3> QED
                BY <2>3, <2>4, <3>1, <3>3 DEF PutData, Channel!Put
        <2>5. ASSUME TakeData PROVE Channel!Take
            <3>1. to_read \in 1..N
                BY <2>1, <2>5 DEF TakeData
            <3>2. /\ Contents # <<>> /\ Head(Contents) = buf[r]
                  /\ Window(buf, Slot(r + 1), to_read - 1) = Tail(Contents)
                BY <2>1, <2>2, <3>1, WindowTail
            <3>3. Contents' = Tail(Contents)
                BY <2>2, <2>5, <3>2 DEF TakeData
            <3> QED
                BY <2>5, <3>2, <3>3 DEF TakeData, Channel!Take
        <2>6. ASSUME ResetData PROVE Channel!Clear \/ Channel!Open
            <3>1. Contents' = <<>>
                BY <2>6 DEF ResetData, Contents
            <3>2. closed \in BOOLEAN
                BY NoLostWakeupIs DEF TypeOK
            <3> QED
                BY <2>6, <3>1, <3>2 DEF ResetData, Channel!Clear, Channel!Open
        <2>7. ASSUME CloseData PROVE Channel!Close
            BY <2>2, <2>7 DEF CloseData, Channel!Close
        <2>8. ASSUME UNCHANGED <<buf, w, r, to_read, closed, taken>>
              PROVE  UNCHANGED Channel!vars
            BY <2>2, <2>8 DEF Channel!vars
        <2> QED
            BY <2>4, <2>5, <2>6, <2>7, <2>8, DataSteps DEF Channel!Next
    <1> QED
        BY <1>1, <1>2, InitWaits, NextWaits, NextWriteIndex, PTL
            DEF Spec, ImplementsChannel, Channel!Spec
=============================================================================
