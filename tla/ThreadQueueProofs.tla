------------------------- MODULE ThreadQueueProofs -------------------------
(***************************************************************************)
(* Theorems about ThreadQueue, for any sets of threads and items and any   *)
(* limit.                                                                  *)
(***************************************************************************)
EXTENDS ThreadQueue, SequencesExt, SequenceTheorems, TLAPS

-----------------------------------------------------------------------------
(* What RzList operations do to a list: append, pop_head and the like.     *)

\* rz_list_append: one more item, at the end.
LEMMA AppendFacts ==
    ASSUME NEW S, NEW s \in Seq(S), NEW x \in S
    PROVE  /\ Append(s, x) \in Seq(S)
           /\ Append(s, x) # <<>>
           /\ Len(Append(s, x)) = Len(s) + 1
           /\ \A i \in 1..Len(s) : Append(s, x)[i] = s[i]
           /\ Append(s, x)[Len(s) + 1] = x
    OBVIOUS

\* rz_list_prepend: one more item, in front.
LEMMA ConsFacts ==
    ASSUME NEW S, NEW s \in Seq(S), NEW x \in S
    PROVE  /\ Cons(x, s) \in Seq(S)
           /\ Cons(x, s) # <<>>
           /\ Len(Cons(x, s)) = Len(s) + 1
           /\ Cons(x, s)[1] = x
           /\ \A i \in 2..(Len(s) + 1) : Cons(x, s)[i] = s[i - 1]
    BY DEF Cons

\* rz_list_pop_head: one item less, the others moved by one.
LEMMA TailFacts ==
    ASSUME NEW S, NEW s \in Seq(S), s # <<>>
    PROVE  /\ Tail(s) \in Seq(S)
           /\ Len(Tail(s)) = Len(s) - 1
           /\ \A i \in 1..(Len(s) - 1) : Tail(s)[i] = s[i + 1]
           /\ Head(s) = s[1]
           /\ Head(s) \in S
           /\ Len(s) \in Nat \ {0}
    OBVIOUS

\* rz_list_pop: one item less, the others where they were.
LEMMA FrontFacts ==
    ASSUME NEW S, NEW s \in Seq(S), s # <<>>
    PROVE  /\ Front(s) \in Seq(S)
           /\ Len(Front(s)) = Len(s) - 1
           /\ \A i \in 1..(Len(s) - 1) : Front(s)[i] = s[i]
           /\ Last(s) = s[Len(s)]
           /\ Last(s) \in S
           /\ Len(s) \in Nat \ {0}
    <1>1. Len(s) \in Nat \ {0}
        OBVIOUS
    <1> DEFINE n == Len(s) - 1
    <1>2. 1 \in Int /\ n \in Int /\ \A i \in 1..n : s[i] \in S
        BY <1>1
    <1>3. /\ SubSeq(s, 1, n) \in Seq(S)
          /\ Len(SubSeq(s, 1, n)) = IF 1 <= n THEN n - 1 + 1 ELSE 0
          /\ \A i \in 1..(n - 1 + 1) : SubSeq(s, 1, n)[i] = s[1 + i - 1]
        <2> HIDE DEF n
        <2> QED
            BY <1>2, SubSeqProperties
    <1>4. s[Len(s)] \in S
        BY <1>1
    <1>5. Len(SubSeq(s, 1, n)) = n
        <2>1. n \in Nat
            BY <1>1
        <2> HIDE DEF n
        <2> QED
            BY <2>1, <1>3
    <1>6. \A i \in 1..n : SubSeq(s, 1, n)[i] = s[i]
        <2>1. n \in Nat
            BY <1>1
        <2> HIDE DEF n
        <2> QED
            BY <2>1, <1>3
    <1> QED
        BY <1>1, <1>3, <1>4, <1>5, <1>6 DEF Front, Last

\* A list holds the items at its positions.
LEMMA RangeFacts ==
    ASSUME NEW S, NEW s \in Seq(S)
    PROVE  /\ Range(s) \subseteq S
           /\ \A x : x \in Range(s) <=> \E i \in 1..Len(s) : s[i] = x
           /\ DOMAIN s = 1..Len(s)
           /\ Len(s) \in Nat
    BY DEF Range

\* Adding an item that is not there keeps a list free of repetitions.
LEMMA AppendDistinct ==
    ASSUME NEW S, NEW s \in Seq(S), NEW x \in S, IsInjective(s), x \notin Range(s)
    PROVE  /\ IsInjective(Append(s, x))
           /\ Range(Append(s, x)) = Range(s) \cup {x}
    <1> DEFINE a == Append(s, x)
    <1>1. /\ a \in Seq(S) /\ Len(a) = Len(s) + 1 /\ Len(s) \in Nat
          /\ \A i \in 1..Len(s) : a[i] = s[i]
          /\ a[Len(s) + 1] = x
        BY AppendFacts, RangeFacts
    <1> HIDE DEF a
    <1>2. DOMAIN a = 1..(Len(s) + 1) /\ DOMAIN s = 1..Len(s)
        BY <1>1
    <1>3. IsInjective(a)
        BY <1>1, <1>2, RangeFacts, SMT DEF IsInjective
    <1>4. \A y : y \in Range(a) <=> y \in Range(s) \/ y = x
        BY <1>1, <1>2 DEF Range
    <1> QED
        BY <1>3, <1>4 DEF a

\* The same at the other end.
LEMMA ConsDistinct ==
    ASSUME NEW S, NEW s \in Seq(S), NEW x \in S, IsInjective(s), x \notin Range(s)
    PROVE  /\ IsInjective(Cons(x, s))
           /\ Range(Cons(x, s)) = Range(s) \cup {x}
    <1> DEFINE a == Cons(x, s)
    <1>1. /\ a \in Seq(S) /\ Len(a) = Len(s) + 1 /\ Len(s) \in Nat
          /\ a[1] = x
          /\ \A i \in 2..(Len(s) + 1) : a[i] = s[i - 1]
        BY ConsFacts, RangeFacts
    <1> HIDE DEF a
    <1>2. DOMAIN a = 1..(Len(s) + 1) /\ DOMAIN s = 1..Len(s)
        BY <1>1
    <1>3. IsInjective(a)
        <2> SUFFICES ASSUME NEW i \in 1..(Len(s) + 1), NEW j \in 1..(Len(s) + 1), a[i] = a[j]
                     PROVE  i = j
            BY <1>2 DEF IsInjective
        <2>1. \A k \in 2..(Len(s) + 1) : a[k] # x /\ a[k] = s[k - 1]
            BY <1>1, RangeFacts
        <2>2. CASE i = 1 \/ j = 1
            BY <2>1, <2>2, <1>1
        <2>3. CASE i # 1 /\ j # 1
            <3>1. i - 1 \in 1..Len(s) /\ j - 1 \in 1..Len(s)
                BY <2>3, <1>1
            <3>2. s[i - 1] = s[j - 1]
                BY <2>1, <2>3, <1>1
            <3>3. i - 1 = j - 1
                BY <3>1, <3>2, <1>2 DEF IsInjective
            <3> QED
                BY <3>3, <1>1
        <2> QED
            BY <2>2, <2>3
    <1>4. \A y : y \in Range(s) => y \in Range(a)
        <2> SUFFICES ASSUME NEW i \in 1..Len(s) PROVE s[i] \in Range(a)
            BY <1>2 DEF Range
        <2>1. i + 1 \in 2..(Len(s) + 1) /\ i + 1 - 1 = i
            BY <1>1
        <2>2. a[i + 1] = s[i]
            BY <2>1, <1>1
        <2> QED
            BY <2>1, <2>2, <1>1, <1>2 DEF Range
    <1>5. \A y : y \in Range(a) => y \in Range(s) \/ y = x
        <2> SUFFICES ASSUME NEW i \in 1..(Len(s) + 1) PROVE a[i] \in Range(s) \/ a[i] = x
            BY <1>2 DEF Range
        <2>1. CASE i = 1
            BY <2>1, <1>1
        <2>2. CASE i # 1
            BY <2>2, <1>1, <1>2 DEF Range
        <2> QED
            BY <2>1, <2>2
    <1>6. x \in Range(a)
        BY <1>1, <1>2 DEF Range
    <1> QED
        BY <1>3, <1>4, <1>5, <1>6 DEF a

\* Taking the first item of a list without repetitions takes it out for good.
LEMMA TailDistinct ==
    ASSUME NEW S, NEW s \in Seq(S), s # <<>>, IsInjective(s)
    PROVE  /\ IsInjective(Tail(s))
           /\ Range(Tail(s)) = Range(s) \ {Head(s)}
           /\ Head(s) \in Range(s)
    <1> DEFINE a == Tail(s)
    <1>1. /\ a \in Seq(S) /\ Len(a) = Len(s) - 1 /\ Len(s) \in Nat \ {0}
          /\ \A i \in 1..(Len(s) - 1) : a[i] = s[i + 1]
          /\ Head(s) = s[1]
        BY TailFacts
    <1> HIDE DEF a
    <1>2. DOMAIN a = 1..(Len(s) - 1) /\ DOMAIN s = 1..Len(s)
        BY <1>1
    <1>3. IsInjective(a)
        BY <1>1, <1>2 DEF IsInjective
    <1>4. \A y : y \in Range(a) => y \in Range(s) \ {Head(s)}
        BY <1>1, <1>2 DEF Range, IsInjective
    <1>5. \A y : y \in Range(s) \ {Head(s)} => y \in Range(a)
        <2> SUFFICES ASSUME NEW i \in 1..Len(s), s[i] # Head(s) PROVE s[i] \in Range(a)
            BY <1>2 DEF Range
        <2>1. i - 1 \in 1..(Len(s) - 1) /\ i - 1 + 1 = i
            BY <1>1
        <2> QED
            BY <2>1, <1>1, <1>2 DEF Range
    <1>6. Head(s) \in Range(s)
        BY <1>1, <1>2 DEF Range
    <1> QED
        BY <1>3, <1>4, <1>5, <1>6 DEF a

\* The same for the last item.
LEMMA FrontDistinct ==
    ASSUME NEW S, NEW s \in Seq(S), s # <<>>, IsInjective(s)
    PROVE  /\ IsInjective(Front(s))
           /\ Range(Front(s)) = Range(s) \ {Last(s)}
           /\ Last(s) \in Range(s)
    <1> DEFINE a == Front(s)
    <1>1. /\ a \in Seq(S) /\ Len(a) = Len(s) - 1 /\ Len(s) \in Nat \ {0}
          /\ \A i \in 1..(Len(s) - 1) : a[i] = s[i]
          /\ Last(s) = s[Len(s)]
        BY FrontFacts
    <1> HIDE DEF a
    <1>2. DOMAIN a = 1..(Len(s) - 1) /\ DOMAIN s = 1..Len(s)
        BY <1>1
    <1>3. IsInjective(a)
        BY <1>1, <1>2 DEF IsInjective
    <1>4. \A y : y \in Range(a) => y \in Range(s) \ {Last(s)}
        BY <1>1, <1>2 DEF Range, IsInjective
    <1>5. \A y : y \in Range(s) \ {Last(s)} => y \in Range(a)
        <2> SUFFICES ASSUME NEW i \in 1..Len(s), s[i] # Last(s) PROVE s[i] \in Range(a)
            BY <1>2 DEF Range
        <2>1. i \in 1..(Len(s) - 1)
            BY <1>1
        <2> QED
            BY <2>1, <1>1, <1>2 DEF Range
    <1>6. Last(s) \in Range(s)
        BY <1>1, <1>2 DEF Range
    <1> QED
        BY <1>3, <1>4, <1>5, <1>6 DEF a
-----------------------------------------------------------------------------

\* The part of the invariant about control: types, the reader lock, and the
\* reader that sleeps.  NoLostReaderWakeup needs OneReader: push wakes one
\* waiter, and only because there is at most one does nobody stay behind.
ControlInv == TypeOK /\ OneReader /\ NoLostReaderWakeup

USE DEF Labels

\* rz_th_queue_new and its variants establish the control invariant.
LEMMA InitControl == Init => ControlInv
    <1> SUFFICES ASSUME Init PROVE ControlInv
        OBVIOUS
    <1> USE ThreadQueueAssumption DEF Init
    <1>1. list \in Seq(Items) /\ max_size \in Nat
        <2>1. CASE rz_th_queue_new
            BY <2>1 DEF rz_th_queue_new
        <2>2. \A n \in 0..MaxInit : list \in Injection(1..n, Items) => list \in Seq(Items)
            BY DEF Injection
        <2>3. CASE rz_th_queue_from_list
            BY <2>2, <2>3 DEF rz_th_queue_from_list
        <2>4. CASE rz_th_queue_from_pvector
            BY <2>2, <2>4 DEF rz_th_queue_from_pvector
        <2> QED
            BY <2>1, <2>3, <2>4
    <1>2. TypeOK
        BY <1>1 DEF TypeOK
    <1>3. OneReader
        BY DEF OneReader, InPop, Awaiting
    <1>4. NoLostReaderWakeup
        BY DEF NoLostReaderWakeup
    <1> QED
        BY <1>2, <1>3, <1>4 DEF ControlInv

\* No critical section of data_lock breaks the control invariant.
LEMMA NextControl == ControlInv /\ [Next]_vars => ControlInv'
    <1> SUFFICES ASSUME ControlInv, [Next]_vars
                 PROVE  ControlInv'
        OBVIOUS
    <1> USE ThreadQueueAssumption DEF ControlInv
    <1>0. CASE UNCHANGED vars
        BY <1>0 DEF vars, TypeOK, OneReader, NoLostReaderWakeup, InPop, Awaiting
    <1>1. ASSUME NEW t \in Threads, SpuriousWakeup(t) PROVE ControlInv'
        BY <1>1 DEF SpuriousWakeup, TypeOK, OneReader, NoLostReaderWakeup, InPop, Awaiting, history
    <1>2. ASSUME NEW t \in Threads, NEW x \in Items, NEW tail \in BOOLEAN,
                 PushAccept(t, x, tail)
          PROVE  ControlInv'
        <2> USE <1>2 DEF PushAccept, history
        <2>1. list' \in Seq(Items) /\ list' # <<>>
            <3>1. list \in Seq(Items)
                BY DEF TypeOK
            <3>2. list' = Append(list, x) \/ list' = Cons(x, list)
                OBVIOUS
            <3>3. Append(list, x) \in Seq(Items) /\ Append(list, x) # <<>>
                BY <3>1, AppendFacts
            <3>4. Cons(x, list) \in Seq(Items) /\ Cons(x, list) # <<>>
                BY <3>1, ConsFacts
            <3> QED
                BY <3>2, <3>3, <3>4
        <2>2. \/ pc' = pc /\ \A u \in Threads : pc[u] # "pop_wait"
              \/ \E u \in Threads : /\ pc[u] = "pop_wait"
                                    /\ pc' = [pc EXCEPT ![u] = "pop_woken"]
            <3>1. CASE reader_awaiting > 0
                BY <3>1 DEF TypeOK, Signal
            <3>2. CASE ~(reader_awaiting > 0)
                BY <3>2 DEF TypeOK, OneReader, Awaiting
            <3> QED
                BY <3>1, <3>2
        <2>3. TypeOK'
            BY <2>1, <2>2 DEF TypeOK
        <2>4. OneReader'
            BY <2>2 DEF TypeOK, OneReader, InPop, Awaiting
        <2>5. \A u \in Threads : pc'[u] # "pop_wait"
            BY <2>2 DEF TypeOK, OneReader, InPop
        <2> QED
            BY <2>3, <2>4, <2>5 DEF NoLostReaderWakeup
    <1>3. ASSUME NEW t \in Threads, NEW x \in Items, PushRefuse(t, x) PROVE ControlInv'
        BY <1>3 DEF PushRefuse, TypeOK, OneReader, NoLostReaderWakeup, InPop, Awaiting
    <1>4. ASSUME NEW t \in Threads, PopCall(t) PROVE ControlInv'
        BY <1>4 DEF PopCall, TypeOK, OneReader, NoLostReaderWakeup, InPop, Awaiting, history
    <1>5. ASSUME NEW t \in Threads, PopEnter(t) PROVE ControlInv'
        BY <1>5 DEF PopEnter, TypeOK, OneReader, NoLostReaderWakeup, InPop, Awaiting, history
    <1>6. ASSUME NEW t \in Threads, PopWait(t) PROVE ControlInv'
        BY <1>6 DEF PopWait, AwaitingNow, TypeOK, OneReader, NoLostReaderWakeup, InPop, Awaiting, history
    <1>7. ASSUME NEW t \in Threads, PopClosed(t) PROVE ControlInv'
        BY <1>7 DEF PopClosed, AwaitingNow, TypeOK, OneReader, NoLostReaderWakeup, InPop, Awaiting, history
    <1>8. ASSUME NEW t \in Threads, NEW tail \in BOOLEAN, PopTake(t, tail) PROVE ControlInv'
        <2> USE <1>8 DEF PopTake, history
        <2>1. list' \in Seq(Items) /\ PopItem(tail) \in Items
            BY TailFacts, FrontFacts DEF TypeOK, PopRest, PopItem
        <2>2. /\ pc' \in [Threads -> Labels]
              /\ pc'[t] = "idle"
              /\ \A u \in Threads \ {t} :
                     \/ pc'[u] = pc[u]
                     \/ pc[u] = "cwe_wait" /\ pc'[u] = "cwe_woken"
            <3> DEFINE p == [pc EXCEPT ![t] = "idle"]
            <3>1. p \in [Threads -> Labels] /\ p[t] = "idle" /\ \A u \in Threads \ {t} : p[u] = pc[u]
                BY DEF TypeOK
            <3>2. pc' = p \/ pc' = SignalAll(p, "cwe_wait", "cwe_woken")
                OBVIOUS
            <3> HIDE DEF p
            <3> QED
                BY <3>1, <3>2 DEF SignalAll
        <2>3. reader_awaiting' = 0
            BY DEF TypeOK, OneReader, InPop, Awaiting, AwaitingNow
        <2>4. TypeOK'
            <3>1. got' \in [Threads -> SUBSET Items]
                BY <2>1 DEF TypeOK
            <3>2. /\ reader_lock' = NoThread
                  /\ UNCHANGED <<max_size, closed, freed, done, refused, released>>
                OBVIOUS
            <3> HIDE <1>8 DEF PopTake
            <3> QED
                BY <2>1, <2>2, <2>3, <3>1, <3>2 DEF TypeOK
        <2>5. OneReader'
            <3>1. reader_lock = t /\ reader_lock' = NoThread
                BY DEF OneReader, InPop
            <3> HIDE <1>8 DEF PopTake
            <3>2. \A u \in Threads : InPop(u)' <=> reader_lock' = u
                BY <2>2, <3>1 DEF OneReader, InPop
            <3>3. Awaiting(pc') = {}
                BY <2>2, <3>1, <3>2 DEF InPop, Awaiting
            <3> QED
                BY <2>3, <3>2, <3>3 DEF OneReader
        <2>6. NoLostReaderWakeup'
            BY <2>2, <2>5 DEF TypeOK, OneReader, InPop, NoLostReaderWakeup
        <2> QED
            BY <2>4, <2>5, <2>6
    <1>9. ASSUME NEW t \in Threads, rz_th_queue_pop_all(t) PROVE ControlInv'
        <2>1. Range(list) \subseteq Items
            BY RangeFacts DEF TypeOK
        <2> QED
            BY <1>9, <2>1 DEF rz_th_queue_pop_all, TypeOK, OneReader, NoLostReaderWakeup, InPop, Awaiting
    <1>10. ASSUME NEW t \in Threads, rz_th_queue_close(t) PROVE ControlInv'
        <2> USE <1>10 DEF rz_th_queue_close, history
        <2>1. /\ pc' \in [Threads -> Labels]
              /\ \A u \in Threads :
                     \/ pc'[u] = pc[u] /\ pc[u] # "pop_wait"
                     \/ pc[u] = "cwe_wait" /\ pc'[u] = "cwe_woken"
                     \/ pc[u] = "pop_wait" /\ pc'[u] = "pop_woken"
            BY DEF TypeOK, SignalAll
        <2> QED
            BY <2>1 DEF TypeOK, OneReader, NoLostReaderWakeup, InPop, Awaiting
    <1>11. ASSUME NEW t \in Threads, CloseWhenEmptyCall(t) PROVE ControlInv'
        BY <1>11 DEF CloseWhenEmptyCall, TypeOK, OneReader, NoLostReaderWakeup, InPop, Awaiting, history
    <1>12. ASSUME NEW t \in Threads, CloseWhenEmptyWait(t) PROVE ControlInv'
        BY <1>12 DEF CloseWhenEmptyWait, TypeOK, OneReader, NoLostReaderWakeup, InPop, Awaiting, history
    <1>13. ASSUME NEW t \in Threads, CloseWhenEmptyReturn(t) PROVE ControlInv'
        <2> USE <1>13 DEF CloseWhenEmptyReturn, history
        <2>1. /\ pc' \in [Threads -> Labels]
              /\ pc'[t] = "idle" /\ pc[t] \in {"cwe_data", "cwe_woken"}
              /\ \A u \in Threads \ {t} :
                     \/ pc'[u] = pc[u] /\ (closed \/ pc[u] # "pop_wait")
                     \/ pc[u] = "pop_wait" /\ pc'[u] = "pop_woken"
            <3> DEFINE p == [pc EXCEPT ![t] = "idle"]
            <3>1. p \in [Threads -> Labels] /\ p[t] = "idle" /\ \A u \in Threads \ {t} : p[u] = pc[u]
                BY DEF TypeOK
            <3>2. pc' = IF closed THEN p ELSE SignalAll(p, "pop_wait", "pop_woken")
                OBVIOUS
            <3> HIDE DEF p
            <3> QED
                BY <3>1, <3>2 DEF SignalAll, TypeOK
        <2>2. TypeOK'
            BY <2>1 DEF TypeOK
        <2>3. \A u \in Threads : (pc'[u] \in {"pop_data", "pop_wait", "pop_woken"})
                                    <=> (pc[u] \in {"pop_data", "pop_wait", "pop_woken"})
            BY <2>1
        <2>4. \A u \in Threads : (pc'[u] \in {"pop_wait", "pop_woken"})
                                    <=> (pc[u] \in {"pop_wait", "pop_woken"})
            BY <2>1
        <2>5. OneReader'
            <3>1. UNCHANGED <<reader_lock, reader_awaiting>>
                OBVIOUS
            <3> HIDE <1>13 DEF CloseWhenEmptyReturn
            <3> QED
                BY <2>3, <2>4, <3>1 DEF OneReader, InPop, Awaiting
        <2>6. NoLostReaderWakeup'
            BY <2>1 DEF NoLostReaderWakeup
        <2> QED
            BY <2>2, <2>5, <2>6
    <1>14. ASSUME NEW t \in Threads, rz_th_queue_free(t) PROVE ControlInv'
        <2>1. Range(list) \subseteq Items
            BY RangeFacts DEF TypeOK
        <2> QED
            BY <1>14, <2>1 DEF rz_th_queue_free, TypeOK, OneReader, NoLostReaderWakeup, InPop, Awaiting
    <1> QED
        BY <1>0, <1>1, <1>2, <1>3, <1>4, <1>5, <1>6, <1>7, <1>8, <1>9, <1>10,
           <1>11, <1>12, <1>13, <1>14
        DEF Next, Step, rz_th_queue_push, rz_th_queue_pop, rz_th_queue_close_when_empty

\* Types, at most one reader past reader_lock with reader_awaiting counting it,
\* and no reader asleep beside data or on a closed queue.
THEOREM ReadersAreWoken == Spec => [](TypeOK /\ OneReader /\ NoLostReaderWakeup)
    BY InitControl, NextControl, PTL DEF Spec, ControlInv

\* At most one thread is past reader_lock in rz_th_queue_pop, and
\* reader_awaiting counts it exactly while it waits.
THEOREM ReadersAreSingle == Spec => []OneReader
    BY ReadersAreWoken, PTL

\* Every field of the queue keeps its type, the list only pointers that were
\* pushed.
THEOREM QueueTypeCorrect == Spec => []TypeOK
    BY ReadersAreWoken, PTL

-----------------------------------------------------------------------------
(* Who owns what.                                                          *)

\* The part of the invariant about data.
DataInv == OneOwner /\ Bounded

\* A new queue, however it was built, gives every pointer one owner.
LEMMA InitData == Init => DataInv
    <1> SUFFICES ASSUME Init PROVE DataInv
        OBVIOUS
    <1> USE ThreadQueueAssumption DEF Init
    <1>1. IsInjective(list) /\ (max_size # 0 => Len(list) <= max_size)
        <2>1. CASE rz_th_queue_new
            BY <2>1 DEF rz_th_queue_new, IsInjective
        <2>2. \A n \in 0..MaxInit : list \in Injection(1..n, Items)
                                    => IsInjective(list) /\ Len(list) \in Nat
            BY DEF Injection
        <2>3. CASE rz_th_queue_from_list
            BY <2>2, <2>3 DEF rz_th_queue_from_list
        <2>4. CASE rz_th_queue_from_pvector
            BY <2>2, <2>4 DEF rz_th_queue_from_pvector
        <2> QED
            BY <2>1, <2>3, <2>4
    <1> QED
        BY <1>1 DEF DataInv, OneOwner, Bounded, RZ_THREAD_QUEUE_UNLIMITED

\* No step gives a pointer two owners, exceeds the limit or makes a pointer
\* fresh again.
LEMMA NextData == TypeOK /\ DataInv /\ [Next]_vars => DataInv' /\ Fresh' \subseteq Fresh
    <1> SUFFICES ASSUME TypeOK, DataInv, [Next]_vars
                 PROVE  DataInv' /\ Fresh' \subseteq Fresh
        OBVIOUS
    <1>a. list \in Seq(Items) /\ IsInjective(list)
        BY DEF TypeOK, DataInv, OneOwner
    <1>0. CASE UNCHANGED <<list, max_size, got, refused, released>>
        BY <1>0 DEF DataInv, OneOwner, Bounded, Fresh
    <1>1. ASSUME NEW t \in Threads, NEW x \in Items, NEW tail \in BOOLEAN,
                 PushAccept(t, x, tail)
          PROVE  DataInv' /\ Fresh' \subseteq Fresh
        <2>1. /\ x \in Fresh /\ CanPush
              /\ UNCHANGED <<max_size, got, refused, released>>
              /\ list' = Append(list, x) \/ list' = Cons(x, list)
            BY <1>1 DEF PushAccept, history
        <2>2. x \notin Range(list)
            BY <2>1 DEF Fresh
        <2>3. /\ IsInjective(list')
              /\ Range(list') = Range(list) \cup {x}
              /\ Len(list') = Len(list) + 1
            <3>1. IsInjective(Append(list, x)) /\ Range(Append(list, x)) = Range(list) \cup {x}
                BY <2>2, <1>a, AppendDistinct
            <3>2. IsInjective(Cons(x, list)) /\ Range(Cons(x, list)) = Range(list) \cup {x}
                BY <2>2, <1>a, ConsDistinct
            <3>3. Len(Append(list, x)) = Len(list) + 1 /\ Len(Cons(x, list)) = Len(list) + 1
                BY <1>a, AppendFacts, ConsFacts
            <3> QED
                BY <2>1, <3>1, <3>2, <3>3
        <2>4. OneOwner'
            BY <2>1, <2>3 DEF DataInv, OneOwner, Fresh
        <2>5. Bounded'
            BY <2>1, <2>3, <1>a DEF Bounded, CanPush, is_full, TypeOK, RZ_THREAD_QUEUE_UNLIMITED
        <2> QED
            BY <2>1, <2>3, <2>4, <2>5 DEF DataInv, Fresh
    <1>2. ASSUME NEW t \in Threads, NEW x \in Items, PushRefuse(t, x)
          PROVE  DataInv' /\ Fresh' \subseteq Fresh
        BY <1>2 DEF PushRefuse, DataInv, OneOwner, Bounded, Fresh
    <1>3. ASSUME NEW t \in Threads, NEW tail \in BOOLEAN, PopTake(t, tail)
          PROVE  DataInv' /\ Fresh' \subseteq Fresh
        <2> DEFINE x == PopItem(tail)
        <2>1. /\ list # <<>>
              /\ list' = PopRest(tail)
              /\ got' = [got EXCEPT ![t] = @ \cup {x}]
              /\ UNCHANGED <<max_size, refused, released>>
            BY <1>3 DEF PopTake
        <2>2. /\ IsInjective(list')
              /\ Range(list') = Range(list) \ {x}
              /\ x \in Range(list)
            BY <2>1, <1>a, TailDistinct, FrontDistinct DEF PopRest, PopItem
        <2>3. Len(list') = Len(list) - 1 /\ Len(list) \in Nat \ {0}
            BY <2>1, <1>a, TailFacts, FrontFacts DEF PopRest
        <2> HIDE DEF x
        <2>4. \A u \in Threads : got'[u] = IF u = t THEN got[u] \cup {x} ELSE got[u]
            BY <2>1 DEF TypeOK
        <2>5. OneOwner'
            BY <2>1, <2>2, <2>4 DEF DataInv, OneOwner
        <2>6. Bounded'
            BY <2>1, <2>3 DEF DataInv, Bounded, TypeOK, RZ_THREAD_QUEUE_UNLIMITED
        <2>7. Fresh' \subseteq Fresh
            BY <2>1, <2>2, <2>4 DEF Fresh
        <2> QED
            BY <2>5, <2>6, <2>7 DEF DataInv
    <1>4. ASSUME NEW t \in Threads, rz_th_queue_pop_all(t)
          PROVE  DataInv' /\ Fresh' \subseteq Fresh
        <2>1. /\ list' = <<>>
              /\ got' = [got EXCEPT ![t] = @ \cup Range(list)]
              /\ UNCHANGED <<max_size, refused, released>>
            BY <1>4 DEF rz_th_queue_pop_all
        <2>2. IsInjective(list') /\ Range(list') = {} /\ Len(list') = 0
            BY <2>1 DEF IsInjective, Range
        <2>3. \A u \in Threads : got'[u] = IF u = t THEN got[u] \cup Range(list) ELSE got[u]
            BY <2>1 DEF TypeOK
        <2>4. OneOwner'
            BY <2>1, <2>2, <2>3 DEF DataInv, OneOwner
        <2>5. Bounded'
            BY <2>1, <2>2 DEF Bounded, TypeOK
        <2> QED
            BY <2>1, <2>2, <2>3, <2>4, <2>5 DEF DataInv, Fresh
    <1>5. ASSUME NEW t \in Threads, rz_th_queue_free(t)
          PROVE  DataInv' /\ Fresh' \subseteq Fresh
        <2>1. /\ list' = <<>>
              /\ released' = released \cup Range(list)
              /\ UNCHANGED <<max_size, refused, got>>
            BY <1>5 DEF rz_th_queue_free
        <2>2. IsInjective(list') /\ Range(list') = {} /\ Len(list') = 0
            BY <2>1 DEF IsInjective, Range
        <2>3. OneOwner'
            BY <2>1, <2>2 DEF DataInv, OneOwner
        <2>4. Bounded'
            BY <2>1, <2>2 DEF Bounded, TypeOK
        <2> QED
            BY <2>1, <2>2, <2>3, <2>4 DEF DataInv, Fresh
    <1>6. CASE \E t \in Threads : \/ SpuriousWakeup(t) \/ PopCall(t) \/ PopEnter(t)
                                  \/ PopWait(t) \/ PopClosed(t) \/ rz_th_queue_close(t)
                                  \/ CloseWhenEmptyCall(t)
                                  \/ rz_th_queue_close_when_empty(t)
        BY <1>6, <1>0
        DEF SpuriousWakeup, PopCall, PopEnter, PopWait, PopClosed, rz_th_queue_close,
            CloseWhenEmptyCall, rz_th_queue_close_when_empty, CloseWhenEmptyWait,
            CloseWhenEmptyReturn, history
    <1>7. CASE UNCHANGED vars
        BY <1>7, <1>0 DEF vars
    <1> QED
        BY <1>1, <1>2, <1>3, <1>4, <1>5, <1>6, <1>7
        DEF Next, Step, rz_th_queue_push, rz_th_queue_pop

\* Every pointer has one owner at a time and the limit of the queue holds.
THEOREM EveryItemHasOneOwner == Spec => [](OneOwner /\ Bounded)
    <1>1. Init => TypeOK /\ DataInv
        BY InitControl, InitData DEF ControlInv
    <1>2. TypeOK /\ TypeOK' /\ DataInv /\ [Next]_vars => DataInv'
        BY NextData
    <1>3. DataInv => OneOwner /\ Bounded
        BY DEF DataInv
    <1> QED
        BY <1>1, <1>2, <1>3, ReadersAreWoken, PTL DEF Spec

\* A queue with a limit never holds more, whatever is pushed at either end.
THEOREM QueueIsBounded == Spec => []Bounded
    BY EveryItemHasOneOwner, PTL

\* A pointer offered to the queue stays accounted for in every step.
THEOREM NothingIsLost == Spec => NothingLost
    <1>1. TypeOK /\ DataInv /\ [Next]_vars => [Fresh' \subseteq Fresh]_vars
        BY NextData
    <1>2. Spec => []DataInv
        <2>1. TypeOK /\ DataInv /\ [Next]_vars => DataInv'
            BY NextData
        <2> QED
            BY <2>1, InitData, ReadersAreWoken, PTL DEF Spec
    <1> QED
        BY <1>1, <1>2, ReadersAreWoken, PTL DEF Spec, NothingLost

-----------------------------------------------------------------------------
(* Closing.                                                                *)

\* While no thread calls rz_th_queue_pop_all, nobody sleeps in
\* rz_th_queue_close_when_empty on a closed or empty queue.
THEOREM ClosersAreWoken ==
    ASSUME PopAllers = {}
    PROVE  Spec => []NoLostCloserWakeup
    <1>1. Init => NoLostCloserWakeup
        BY DEF Init, NoLostCloserWakeup
    <1>2. TypeOK /\ NoLostCloserWakeup /\ [Next]_vars => NoLostCloserWakeup'
        <2> SUFFICES ASSUME TypeOK, NoLostCloserWakeup, [Next]_vars
                     PROVE  NoLostCloserWakeup'
            OBVIOUS
        <2> USE DEF NoLostCloserWakeup
        <2>a. list \in Seq(Items) /\ pc \in [Threads -> Labels]
            BY DEF TypeOK
        <2>1. ASSUME NEW t \in Threads, NEW x \in Items, NEW tail \in BOOLEAN,
                     PushAccept(t, x, tail)
              PROVE  NoLostCloserWakeup'
            <3>1. list' # <<>> /\ closed' = closed
                <4>1. Append(list, x) # <<>>
                    BY <2>a, AppendFacts
                <4>2. Cons(x, list) # <<>>
                    BY <2>a, ConsFacts
                <4> QED
                    BY <2>1, <4>1, <4>2 DEF PushAccept
            <3>2. \A u \in Threads : pc'[u] = "cwe_wait" => pc[u] = "cwe_wait"
                BY <2>1, <2>a DEF PushAccept, Signal
            <3> QED
                BY <3>1, <3>2
        <2>2. ASSUME NEW t \in Threads, NEW tail \in BOOLEAN, PopTake(t, tail)
              PROVE  NoLostCloserWakeup'
            <3> DEFINE p == [pc EXCEPT ![t] = "idle"]
            <3>1. p \in [Threads -> Labels] /\ \A u \in Threads : p[u] = "cwe_wait" => pc[u] = "cwe_wait"
                BY <2>a
            <3>2. /\ pc' = IF list' = <<>> THEN SignalAll(p, "cwe_wait", "cwe_woken") ELSE p
                  /\ closed' = closed
                BY <2>2 DEF PopTake
            <3> HIDE DEF p
            <3>3. list' = <<>> => \A u \in Threads : pc'[u] # "cwe_wait"
                BY <3>1, <3>2 DEF SignalAll
            <3>4. list' # <<>> => \A u \in Threads : pc'[u] = "cwe_wait" => pc[u] = "cwe_wait"
                BY <3>1, <3>2
            <3> QED
                BY <3>2, <3>3, <3>4
        <2>3. ASSUME NEW t \in Threads, rz_th_queue_close(t) PROVE NoLostCloserWakeup'
            BY <2>3, <2>a DEF rz_th_queue_close, SignalAll
        <2>4. ASSUME NEW t \in Threads, CloseWhenEmptyReturn(t) PROVE NoLostCloserWakeup'
            <3> DEFINE p == [pc EXCEPT ![t] = "idle"]
            <3>1. p \in [Threads -> Labels] /\ \A u \in Threads : p[u] = "cwe_wait" => pc[u] = "cwe_wait"
                BY <2>a
            <3>2. \A u \in Threads : pc[u] # "cwe_wait"
                BY <2>4 DEF CloseWhenEmptyReturn
            <3>3. pc' = IF closed THEN p ELSE SignalAll(p, "pop_wait", "pop_woken")
                BY <2>4 DEF CloseWhenEmptyReturn
            <3> HIDE DEF p
            <3> QED
                BY <3>1, <3>2, <3>3 DEF SignalAll
        <2>5. ASSUME NEW t \in Threads, CloseWhenEmptyWait(t) PROVE NoLostCloserWakeup'
            BY <2>5, <2>a DEF CloseWhenEmptyWait
        <2>6. ASSUME NEW t \in Threads,
                     \/ SpuriousWakeup(t) \/ PopCall(t) \/ PopEnter(t) \/ PopWait(t)
                     \/ PopClosed(t) \/ CloseWhenEmptyCall(t)
              PROVE  NoLostCloserWakeup'
            BY <2>6, <2>a DEF SpuriousWakeup, PopCall, PopEnter, PopWait, PopClosed, CloseWhenEmptyCall
        <2>7. ASSUME NEW t \in Threads, NEW x \in Items, PushRefuse(t, x) PROVE NoLostCloserWakeup'
            BY <2>7 DEF PushRefuse
        <2>8. ASSUME NEW t \in Threads, rz_th_queue_free(t) PROVE NoLostCloserWakeup'
            BY <2>8 DEF rz_th_queue_free
        <2>9. ASSUME NEW t \in Threads, rz_th_queue_pop_all(t) PROVE FALSE
            BY <2>9 DEF rz_th_queue_pop_all
        <2>10. CASE UNCHANGED vars
            BY <2>10 DEF vars
        <2> QED
            BY <2>1, <2>2, <2>3, <2>4, <2>5, <2>6, <2>7, <2>8, <2>9, <2>10
            DEF Next, Step, rz_th_queue_push, rz_th_queue_pop, rz_th_queue_close_when_empty
    <1> QED
        BY <1>1, <1>2, ReadersAreWoken, PTL DEF Spec

\* Closing is final: no step reopens a queue, and on a closed queue only
\* rz_th_queue_pop_all and rz_th_queue_free change the list, emptying it.
THEOREM ClosingIsFinal == Spec => ClosedIsFinal
    <1> DEFINE Final == closed => /\ closed'
                                  /\ list' # list => /\ list' = <<>>
                                                     /\ \A t \in Threads : pc'[t] = pc[t]
    <1>1. TypeOK /\ [Next]_vars => [Final]_vars
        <2> SUFFICES ASSUME TypeOK, Next, closed
                     PROVE  /\ closed'
                            /\ list' # list => /\ list' = <<>>
                                               /\ \A t \in Threads : pc'[t] = pc[t]
            OBVIOUS
        <2>1. CASE \E t \in Threads : rz_th_queue_pop_all(t) \/ rz_th_queue_free(t)
            BY <2>1 DEF rz_th_queue_pop_all, rz_th_queue_free, TypeOK
        <2>2. ASSUME NEW t \in Threads, NEW x \in Items, rz_th_queue_push(t, x)
              PROVE  closed' /\ list' = list
            BY <2>2 DEF rz_th_queue_push, PushAccept, PushRefuse, CanPush
        <2>3. ASSUME NEW t \in Threads, Step(t)
              PROVE  closed' /\ list' = list
            BY <2>3 DEF Step, PopEnter, rz_th_queue_pop, PopWait, PopClosed, PopTake,
                        rz_th_queue_close_when_empty, CloseWhenEmptyWait, CloseWhenEmptyReturn
        <2>4. ASSUME NEW t \in Threads,
                     \/ SpuriousWakeup(t) \/ PopCall(t) \/ CloseWhenEmptyCall(t)
                     \/ rz_th_queue_close(t)
              PROVE  closed' /\ list' = list
            BY <2>4 DEF SpuriousWakeup, PopCall, CloseWhenEmptyCall, rz_th_queue_close
        <2> QED
            BY <2>1, <2>2, <2>3, <2>4 DEF Next
    <1> QED
        BY <1>1, ReadersAreWoken, PTL DEF Spec, ClosedIsFinal
-----------------------------------------------------------------------------
(* The promise of the queue.                                               *)

\* Every behaviour of the queue is one of ClosableDeque: each critical section
\* is one operation of the promise, or is invisible in it.
THEOREM QueueImplementsPromise == Spec => ImplementsSafety
    <1> USE ThreadQueueAssumption
    <1>1. Init => Promise!Init
        <2> SUFFICES ASSUME Init PROVE Promise!Init
            OBVIOUS
        <2>1. TypeOK /\ DataInv
            BY InitControl, InitData DEF ControlInv
        <2> QED
            BY <2>1 DEF Init, Promise!Init, TypeOK, DataInv, OneOwner, Bounded, CallOf, RZ_THREAD_QUEUE_UNLIMITED,
                   IsInjective, Promise!IsInjective
    <1>2. TypeOK /\ [Next]_vars => [Promise!Next]_(Promise!vars)
        <2> SUFFICES ASSUME TypeOK, [Next]_vars
                     PROVE  Promise!Next \/ UNCHANGED (Promise!vars)
            OBVIOUS
        <2> DEFINE c == [t \in Threads |-> CallOf(pc[t])]
        <2>a. list \in Seq(Items) /\ pc \in [Threads -> Labels]
            BY DEF TypeOK
        \* Steps that move no thread in or out of a call.
        <2>b. ASSUME \A t \in Threads : CallOf(pc'[t]) = CallOf(pc[t])
              PROVE  c' = c
            BY <2>b
        \* Steps that move one.
        <2>c. ASSUME NEW t \in Threads, NEW op, CallOf(pc'[t]) = op,
                     \A u \in Threads \ {t} : CallOf(pc'[u]) = CallOf(pc[u])
              PROVE  c' = [c EXCEPT ![t] = op]
            BY <2>c
        <2>1. CASE UNCHANGED vars
            BY <2>1 DEF vars, Promise!vars
        <2>2. ASSUME NEW t \in Threads,
                     \/ SpuriousWakeup(t) \/ PopEnter(t) \/ PopWait(t) \/ CloseWhenEmptyWait(t)
              PROVE  UNCHANGED Promise!vars
            <3>1. \A u \in Threads : CallOf(pc'[u]) = CallOf(pc[u])
                BY <2>2, <2>a DEF SpuriousWakeup, PopEnter, PopWait, CloseWhenEmptyWait, CallOf
            <3>2. UNCHANGED <<list, max_size, closed, got>>
                BY <2>2 DEF SpuriousWakeup, PopEnter, PopWait, CloseWhenEmptyWait, history
            <3> QED
                BY <3>1, <3>2, <2>b DEF Promise!vars
        <2>3. ASSUME NEW t \in Threads, NEW x \in Items, PushRefuse(t, x)
              PROVE  UNCHANGED Promise!vars
            BY <2>3 DEF PushRefuse, Promise!vars
        <2>4. ASSUME NEW t \in Threads, NEW x \in Items, NEW tail \in BOOLEAN,
                     PushAccept(t, x, tail)
              PROVE  Promise!Push
            <3>1. \A u \in Threads : CallOf(pc'[u]) = CallOf(pc[u])
                BY <2>4, <2>a DEF PushAccept, Signal, CallOf
            <3>2. /\ ~closed /\ UNCHANGED <<max_size, closed, got>>
                  /\ max_size = 0 \/ Len(list) < max_size
                  /\ list' \in {Append(list, x), Cons(x, list)}
                BY <2>4, <2>a DEF PushAccept, CanPush, is_full, history, TypeOK, RZ_THREAD_QUEUE_UNLIMITED
            <3>3. x \in Items \ (Range(list) \cup UNION Range(got))
                BY <2>4 DEF PushAccept, Fresh, Range, TypeOK
            <3> QED
                BY <3>1, <3>2, <3>3, <2>b DEF Promise!Push, Cons, Promise!Cons, Range, Promise!Range
        <2>5. ASSUME NEW t \in Threads, NEW op \in {"pop", "close"},
                     \/ PopCall(t) /\ op = "pop"
                     \/ CloseWhenEmptyCall(t) /\ op = "close"
              PROVE  Promise!Call(t, op)
            <3>1. /\ CallOf(pc[t]) = "none" /\ CallOf(pc'[t]) = op
                  /\ \A u \in Threads \ {t} : CallOf(pc'[u]) = CallOf(pc[u])
                BY <2>5, <2>a DEF PopCall, CloseWhenEmptyCall, CallOf
            <3>2. UNCHANGED <<list, max_size, closed, got>>
                BY <2>5 DEF PopCall, CloseWhenEmptyCall, history
            <3> QED
                BY <3>1, <3>2, <2>c DEF Promise!Call
        <2>6. ASSUME NEW t \in Threads, PopClosed(t) PROVE Promise!PopReturn(t)
            <3>1. /\ CallOf(pc[t]) = "pop" /\ CallOf(pc'[t]) = "none"
                  /\ \A u \in Threads \ {t} : CallOf(pc'[u]) = CallOf(pc[u])
                BY <2>6, <2>a DEF PopClosed, CallOf
            <3>2. closed /\ UNCHANGED <<list, max_size, closed, got>>
                BY <2>6 DEF PopClosed, history
            <3> QED
                BY <3>1, <3>2, <2>c DEF Promise!PopReturn
        <2>7. ASSUME NEW t \in Threads, NEW tail \in BOOLEAN, PopTake(t, tail)
              PROVE  Promise!PopReturn(t)
            <3> DEFINE p == [pc EXCEPT ![t] = "idle"]
            <3>0. p \in [Threads -> Labels] /\ p[t] = "idle" /\ \A u \in Threads \ {t} : p[u] = pc[u]
                BY <2>a
            <3>p. pc' = p \/ pc' = SignalAll(p, "cwe_wait", "cwe_woken")
                BY <2>7 DEF PopTake
            <3>1. CallOf(pc[t]) = "pop"
                BY <2>7 DEF PopTake, CallOf
            <3> HIDE DEF p
            <3>2. /\ CallOf(pc'[t]) = "none"
                  /\ \A u \in Threads \ {t} : CallOf(pc'[u]) = CallOf(pc[u])
                BY <3>0, <3>p DEF SignalAll, CallOf
            <3>3. /\ ~closed /\ list # <<>> /\ UNCHANGED <<max_size, closed>>
                  /\ list' = PopRest(tail)
                  /\ got' = [got EXCEPT ![t] = @ \cup {PopItem(tail)}]
                BY <2>7 DEF PopTake
            <3> QED
                BY <3>1, <3>2, <3>3, <2>c
                DEF Promise!PopReturn, PopRest, PopItem, Front, Last, Promise!Front, Promise!Last
        <2>8. ASSUME NEW t \in Threads, rz_th_queue_pop_all(t) PROVE Promise!PopAll(t)
            <3>1. \A u \in Threads : CallOf(pc'[u]) = CallOf(pc[u])
                BY <2>8 DEF rz_th_queue_pop_all
            <3>2. CallOf(pc[t]) = "none"
                BY <2>8 DEF rz_th_queue_pop_all, CallOf
            <3> QED
                BY <2>8, <3>1, <3>2, <2>b DEF rz_th_queue_pop_all, Promise!PopAll, Range, Promise!Range
        <2>9. ASSUME NEW t \in Threads, rz_th_queue_close(t) PROVE Promise!Close
            <3>1. \A u \in Threads : CallOf(pc'[u]) = CallOf(pc[u])
                BY <2>9, <2>a DEF rz_th_queue_close, SignalAll, CallOf
            <3> QED
                BY <2>9, <3>1, <2>b DEF rz_th_queue_close, history, Promise!Close
        <2>10. ASSUME NEW t \in Threads, CloseWhenEmptyReturn(t) PROVE Promise!CloseReturn(t)
            <3> DEFINE p == [pc EXCEPT ![t] = "idle"]
            <3>0. p \in [Threads -> Labels] /\ p[t] = "idle" /\ \A u \in Threads \ {t} : p[u] = pc[u]
                BY <2>a
            <3>p. pc' = p \/ pc' = SignalAll(p, "pop_wait", "pop_woken")
                BY <2>10 DEF CloseWhenEmptyReturn
            <3>1. CallOf(pc[t]) = "close"
                BY <2>10 DEF CloseWhenEmptyReturn, CallOf
            <3> HIDE DEF p
            <3>2. /\ CallOf(pc'[t]) = "none"
                  /\ \A u \in Threads \ {t} : CallOf(pc'[u]) = CallOf(pc[u])
                BY <3>0, <3>p DEF SignalAll, CallOf
            <3>3. /\ closed \/ list = <<>>
                  /\ closed' = TRUE /\ UNCHANGED <<list, max_size, got>>
                BY <2>10 DEF CloseWhenEmptyReturn, history
            <3> QED
                BY <3>1, <3>2, <3>3, <2>c DEF Promise!CloseReturn
        <2>11. ASSUME NEW t \in Threads, rz_th_queue_free(t) PROVE Promise!Free
            <3>1. \A u \in Threads : CallOf(pc[u]) = "none" /\ CallOf(pc'[u]) = CallOf(pc[u])
                BY <2>11 DEF rz_th_queue_free, CallOf
            <3> QED
                BY <2>11, <3>1, <2>b DEF rz_th_queue_free, Promise!Free
        <2>12. Promise!Next \/ UNCHANGED Promise!vars
            BY <2>1, <2>2, <2>3, <2>4, <2>5, <2>6, <2>7, <2>8, <2>9, <2>10, <2>11
            DEF Next, Step, rz_th_queue_push, rz_th_queue_pop,
                rz_th_queue_close_when_empty, Promise!Next
        <2> QED
            BY <2>12
    <1> QED
        BY <1>1, <1>2, ReadersAreWoken, PTL DEF Spec, ImplementsSafety, Promise!Safety
=============================================================================
